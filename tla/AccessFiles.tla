------------------------------ MODULE AccessFiles ------------------------------
(***************************************************************************)
(* What the files behind a Mirror access contain, reduced to the parts the *)
(* access code tells apart, and the pure rewriting functions of            *)
(* crates/codex-plus-core/src/mirror_access.rs over them.                  *)
(*                                                                         *)
(* A config.toml is three parts: "access", the routing keys Mirror manages *)
(* (model_provider, model, the provider tables, profile, sandbox_mode...); *)
(* "login", the two login-storage keys only the pure mode manages; "other",*)
(* everything else (MCP servers, projects, plugins).  auth.json is the     *)
(* OPENAI_API_KEY and the rest (the ChatGPT login); settings.json is the   *)
(* managed relay keys and the rest; the model catalog is one value.        *)
(* A missing file is a file all of whose parts are Unset: the restore code *)
(* deletes a file it would leave empty.  A file that does not parse is     *)
(* Corrupt.                                                                *)
(***************************************************************************)
EXTENDS Naturals, FiniteSets

CONSTANTS
  Groups,      \* the model groups, one API key and one model each
  UserValues,  \* what the user, or Codex for the user, may put in a part
  Unset,       \* the part is absent
  Corrupt,     \* the file exists and does not parse
  ApiLogin     \* cli_auth_credentials_store = file, forced_login_method = api

Modes == {"pure", "mixed"}

(* A complete access request: a login mode, the groups and the group whose *)
(* model is the default one (validate_access_groups).                      *)
Access == {a \in [mode : Modes, groups : SUBSET Groups, default : Groups] :
             a.default \in a.groups}

Own == UserValues \cup {Unset}

ConfigRecords   == [access : Own \cup Access, login : Own \cup {ApiLogin}, other : Own]
AuthRecords     == [key : Own \cup Groups, login : Own]
SettingsRecords == [access : Own \cup Access, other : Own]

Configs  == ConfigRecords \cup {Corrupt}
Auths    == AuthRecords \cup {Corrupt}
Settings == SettingsRecords \cup {Corrupt}

(* A file that does not parse is told from every file that does. *)
ASSUME CorruptAssumption ==
  Corrupt \notin ConfigRecords \cup AuthRecords \cup SettingsRecords

(* What Mirror writes (its routing, its API keys, the forced API login) is  *)
(* told from whatever the user, or Codex for the user, writes there.       *)
ASSUME AuthorshipAssumption ==
  Own \cap Access = {} /\ Own \cap Groups = {} /\ ApiLogin \notin Own

(* The catalog Mirror writes lists the models of its groups. *)
CatalogOf(groups) == [groups |-> groups]
Catalogs  == Own \cup {CatalogOf(groups) : groups \in SUBSET Groups}

----
(* Authorship: what only Mirror writes. *)

MirrorConfig(c)   == c # Corrupt /\ (c.access \in Access \/ c.login = ApiLogin)
MirrorAuth(a)     == a # Corrupt /\ a.key \in Groups
MirrorSettings(s) == s # Corrupt /\ s.access \in Access
MirrorCatalog(c)  == c \notin Own

----
(* Taking over. *)

SettingsGroups(s) == IF s.access \in Access THEN s.access.groups ELSE {}

(* merge_existing_access_groups keeps the groups already in the settings. *)
MergedGroups(s, groups, replace) ==
  IF replace THEN groups ELSE groups \cup SettingsGroups(s)

(* In mixed mode the login keys come from the baseline. *)
ConfigSeed(current, base, mode) ==
  IF mode = "mixed" THEN [current EXCEPT !.login = base.login] ELSE current

SeedParses(current, base, mode) ==
  current # Corrupt /\ (mode = "mixed" => base # Corrupt)

BuildManagedConfig(seed, a) ==
  [seed EXCEPT !.access = a, !.login = IF a.mode = "pure" THEN ApiLogin ELSE @]

(* Mutant: leaving pure mode keeps the auth.json pure mode wrote. *)
ManagedAuthForgetful(current, base, a, fromPure) ==
  IF a.mode = "pure" THEN [key |-> a.default, login |-> Unset] ELSE current

(* Pure mode replaces the whole of auth.json; leaving pure mode brings the *)
(* baseline's auth.json back.                                              *)
ManagedAuth(current, base, a, fromPure) ==
  CASE a.mode = "pure"              -> [key |-> a.default, login |-> Unset]
    [] a.mode = "mixed" /\ fromPure -> base
    [] OTHER                        -> current

ManagedSettings(current, a) == [current EXCEPT !.access = a]

----
(* Restoring: managed parts from the baseline, the others as they are. *)

(* Mutants: the whole baseline file, or the settings as they are. *)
RestoredConfigWhole(current, base)    == base
RestoredSettingsAsTheyAre(current, base) == current

RestoredConfig(current, base) == [base EXCEPT !.other = current.other]

RestoredAuth(current, base) ==
  [base EXCEPT !.login = IF current.login # Unset THEN current.login ELSE @]

RestoredSettings(current, base) == [base EXCEPT !.other = current.other]

BothParse(current, base) == current # Corrupt /\ base # Corrupt

(* The recover_* variants fall back to the whole baseline file. *)
RecoveredConfig(current, base) ==
  IF BothParse(current, base) THEN RestoredConfig(current, base) ELSE base
RecoveredAuth(current, base) ==
  IF BothParse(current, base) THEN RestoredAuth(current, base) ELSE base
RecoveredSettings(current, base) ==
  IF BothParse(current, base) THEN RestoredSettings(current, base) ELSE base
=============================================================================

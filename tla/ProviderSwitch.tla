---------------------------- MODULE ProviderSwitch -----------------------------
(***************************************************************************)
(* Switching the provider of Codex (switch_relay_profile_in_home_verified):*)
(* the request is probed over the network, the live files of the profile   *)
(* that is left are taken back into it, the Manager's settings are saved,  *)
(* auth.json and config.toml are written one after the other, and what was *)
(* written is probed again; a failure restores the files and the settings. *)
(* Nothing keeps Codex and the user from writing the same two files        *)
(* meanwhile: that Codex is not running is looked at once, before the      *)
(* first probe.  A file write may fail, a probe may fail, the Manager may  *)
(* be killed.                                                              *)
(***************************************************************************)
EXTENDS FiniteSets, Naturals

CONSTANTS
  Official,    \* profiles of RelayMode::Official: the ChatGPT login, no provider
  Mixed,       \* ... with official_mix_api_key: the login and a provider of its own
  PureApi,     \* profiles of RelayMode::PureApi: a provider and its key
  None,
  Entries,     \* MCP servers, skills and plugins the user adds to the live config
  MaxLogins,   \* bound on the logins and token refreshes of Codex
  MaxFaults,   \* bound on failing reads and writes
  MaxKills     \* bound on kills of the Manager

Profiles == Official \cup Mixed \cup PureApi

ASSUME ProfilesAssumption ==
  /\ Official \cap Mixed = {} /\ Official \cap PureApi = {} /\ Mixed \cap PureApi = {}
  /\ Official # {}
  /\ None \notin Profiles

ASSUME BoundsAssumption == MaxLogins \in Nat \ {0} /\ MaxFaults \in Nat /\ MaxKills \in Nat

VARIABLES
  settings,    \* settings.json: the active profile, and each profile's two files
  live,        \* config.toml and auth.json in the Codex home
  codex,       \* Codex is running
  newest,      \* the last login: a refresh makes the tokens before it useless
  added,       \* the entries added so far
  pc,          \* how far the switch is
  job,         \* its local variables
  outcome,     \* what the last switch reported
  mishaps,     \* what has happened that a switch is known not to survive
  faults, kills

vars == <<settings, live, codex, newest, added, pc, job, outcome, mishaps, faults, kills>>
outside_vars == <<codex, newest, added>>

----
(* The files.  A config.toml is the profile its endpoint belongs to, the   *)
(* profile its bearer token belongs to, and the entries not managed by the *)
(* Manager; an auth.json is an API key and a login.                        *)

Owner   == Profiles \cup {None}
Configs == [url : Owner, key : Owner, entries : SUBSET Entries]
Auths   == [key : Owner, login : 0..MaxLogins]
Files   == [config : Configs, auth : Auths]
NoAuth  == [key |-> None, login |-> 0]
NoConfig == [url |-> None, key |-> None, entries |-> {}]

Settings == [active : Profiles, profile : [Profiles -> Files]]

(* relay_profile_api_key: the token of the config before the key of the    *)
(* auth.json.                                                              *)
ApiKey(files) == IF files.config.key # None THEN files.config.key ELSE files.auth.key

(* The live files of a profile in use: its endpoint, and its key in        *)
(* auth.json when it is a pure one.                                        *)
Endpoint(p)       == IF p \in Official THEN None ELSE p
FilesOf(p, files) == /\ files.config.url = Endpoint(p)
                     /\ files.auth.key = IF p \in PureApi THEN p ELSE None

WithoutKey(auth) == [auth EXCEPT !.key = None]

(* A profile as it is stored: an official one keeps no config, and an      *)
(* auth.json only with a login; only a pure one keeps a key in auth.json.  *)
Stored(p, files) ==
  CASE p \in Official ->
         [config |-> NoConfig,
          auth |-> IF files.auth.login > 0 THEN WithoutKey(files.auth) ELSE NoAuth]
    [] p \in Mixed ->
         [config |-> [files.config EXCEPT !.key = ApiKey(files)],
          auth |-> WithoutKey(files.auth)]
    [] p \in PureApi ->
         [config |-> [files.config EXCEPT !.key = ApiKey(files)],
          auth |-> [files.auth EXCEPT !.key = IF @ = None THEN ApiKey(files) ELSE @]]

Normalized(s) == [s EXCEPT !.profile = [p \in Profiles |-> Stored(p, s.profile[p])]]

(* The live files taken back into the profile that is left: the key stays  *)
(* the profile's own, a pure profile's login too.                          *)
Backfilled(p, files, here) ==
  CASE p \in Official -> here
    [] p \in Mixed ->
         [config |-> [here.config EXCEPT !.key = ApiKey(files)],
          auth |-> WithoutKey(here.auth)]
    [] p \in PureApi ->
         [config |-> [here.config EXCEPT !.key = ApiKey(files)],
          auth |-> [files.auth EXCEPT !.key = ApiKey(files)]]

Backfill(s, p) == [s EXCEPT !.profile[p] = Backfilled(p, @, live)]

(* The auth.json a switch to p writes. *)
TargetAuth(p, files) ==
  CASE p \in PureApi -> files.auth
    [] p \in Mixed -> WithoutKey(IF files.auth = NoAuth THEN live.auth ELSE files.auth)
    [] p \in Official -> IF files.auth = NoAuth THEN WithoutKey(live.auth) ELSE files.auth

(* Without a login of its own and a key to remove, an official profile     *)
(* leaves auth.json alone.                                                 *)
WritesAuth(p, files) == p \in Official => files.auth # NoAuth \/ live.auth.key # None

(* Mutant: the profile's config as it is stored, without what the live one *)
(* gained meanwhile.                                                       *)
TargetConfigOfProfile(p, files) ==
  IF p \in Official
  THEN [live.config EXCEPT !.url = None, !.key = None]
  ELSE [files.config EXCEPT !.key = ApiKey(files)]

(* The config.toml it writes: the provider taken out of the live one, or   *)
(* the profile's with the entries of the live one.                         *)
TargetConfig(p, files) ==
  IF p \in Official
  THEN [live.config EXCEPT !.url = None, !.key = None]
  ELSE [files.config EXCEPT !.key = ApiKey(files),
                            !.entries = @ \cup live.config.entries]

(* validate_switch_profile_files. *)
Valid(p, files) ==
  /\ p \notin Official => files.config # NoConfig
  /\ p \in Mixed => files.auth.key = None

----
NoJob == [target |-> None]

(* A probe is a request to the provider; an official profile has none. *)
Probed(p) == p \notin Official

(* A read or a write fails. *)
Fails == faults > 0 /\ faults' = faults - 1

(* The switch ends. *)
Over(said) == /\ pc' = "idle" /\ job' = NoJob /\ outcome' = said

Goto(step) == /\ pc' = step /\ UNCHANGED <<job, outcome>>

(* What a switch does not survive when it happens now: whatever is written *)
(* to the live files after it took its copies.                             *)
Exposed ==
  pc \notin {"idle", "begin", "preflight", "snapshot"}
    \/ (pc # "idle" /\ job.target = job.previous)

(* Settings and live files may be of two profiles once a switch was killed *)
(* while it wrote, could not restore everything, or could not read back    *)
(* the settings it had saved.  The next switch takes them for one.         *)
Apart   == mishaps \cap {"killed", "incomplete", "unread"} # {}
Resumed == IF Apart THEN {"resumed"} ELSE {}

----
(* The switch. *)

(* The page of the providers: its copy of the settings with another active *)
(* profile (or the same again), the one that is left taken from the live   *)
(* files; when these cannot be read the switch goes on without.  Nothing   *)
(* looks whether they are the files of that profile.                       *)
Ask(target) ==
  /\ pc = "idle"
  /\ LET next == Normalized([settings EXCEPT !.active = target])
         ask(s, blind) ==
           /\ job' = [target |-> target, previous |-> settings.active, next |-> s]
           /\ mishaps' = mishaps \cup Resumed \cup blind
     IN \/ /\ ask(Normalized(Backfill(next, settings.active)), {})
           /\ UNCHANGED faults
        \/ /\ Fails
           /\ ask(next, IF target = settings.active THEN {"blind"} ELSE {})
  /\ pc' = "begin"
  /\ outcome' = "none"
  /\ UNCHANGED <<settings, live, outside_vars, kills>>

(* The command: under the lock of the switches, with Codex not running. *)
Begin ==
  /\ pc = "begin"
  /\ IF codex THEN Over("unchanged") ELSE Goto("preflight")
  /\ UNCHANGED <<settings, live, outside_vars, mishaps, faults, kills>>

(* The request is tried with the values to be written. *)
Preflight ==
  /\ pc = "preflight"
  /\ \/ Goto("snapshot")
     \/ Probed(job.target) /\ Over("unchanged")
  /\ UNCHANGED <<settings, live, outside_vars, mishaps, faults, kills>>

(* The settings and the files the second probe may have to restore. *)
Snapshot ==
  /\ pc = "snapshot"
  /\ \/ /\ job' = [target |-> job.target, previous |-> job.previous, next |-> job.next,
                   original |-> settings, verified |-> live]
        /\ pc' = "switch"
        /\ UNCHANGED <<outcome, faults>>
     \/ Fails /\ Over("unchanged")
  /\ UNCHANGED <<settings, live, outside_vars, mishaps, kills>>

(* Mutant: the live files are taken back into the wrong profile. *)
SwitchBackfillsTarget ==
  /\ pc = "switch"
  /\ job' = [target |-> job.target, previous |-> job.previous,
             next |-> Backfill(job.next, job.target),
             original |-> settings, verified |-> job.verified, written |-> live]
  /\ pc' = "save"
  /\ UNCHANGED <<settings, live, outside_vars, outcome, mishaps, faults, kills>>

(* switch_relay_profile_in_home: the backfill, unless the profile stays,   *)
(* and the files a failure from here on restores.                          *)
Switch ==
  /\ pc = "switch"
  /\ \/ /\ LET next == IF job.target = job.previous THEN job.next
                       ELSE Backfill(job.next, job.previous)
           IN job' = [target |-> job.target, previous |-> job.previous, next |-> next,
                      original |-> settings, verified |-> job.verified, written |-> live]
        /\ pc' = "save"
        /\ UNCHANGED <<outcome, faults>>
     \/ Fails /\ Over("unchanged")
  /\ UNCHANGED <<settings, live, outside_vars, mishaps, kills>>

(* The settings are saved and read again; when only the reading fails, the *)
(* switch ends there and restores nothing.                                 *)
Save ==
  /\ pc = "save"
  /\ \/ settings' = job.next /\ Goto("apply") /\ UNCHANGED <<mishaps, faults>>
     \/ Fails /\ Over("unchanged") /\ UNCHANGED <<settings, mishaps>>
     \/ /\ settings' = job.next
        /\ Fails
        /\ Over("unread")
        /\ mishaps' = mishaps \cup {"unread"}
  /\ UNCHANGED <<live, outside_vars, kills>>

(* What to write, from the saved profile and the files as they are now. *)
Apply ==
  /\ pc = "apply"
  /\ LET files == settings.profile[job.target]
     IN IF Valid(job.target, files)
        THEN \/ /\ job' = [target |-> job.target, previous |-> job.previous,
                           original |-> job.original, verified |-> job.verified,
                           written |-> job.written, old |-> live,
                           auth |-> TargetAuth(job.target, files),
                           writesAuth |-> WritesAuth(job.target, files),
                           config |-> TargetConfig(job.target, files)]
                /\ pc' = "auth"
                /\ UNCHANGED <<outcome, faults>>
             \/ Fails /\ Goto("restoreAuth")
        ELSE Goto("restoreAuth") /\ UNCHANGED faults
  /\ UNCHANGED <<settings, live, outside_vars, mishaps, kills>>

WriteAuth ==
  /\ pc = "auth"
  /\ \/ /\ live' = IF job.writesAuth THEN [live EXCEPT !.auth = job.auth] ELSE live
        /\ Goto("config")
        /\ UNCHANGED faults
     \/ job.writesAuth /\ Fails /\ Goto("restoreAuth") /\ UNCHANGED live
  /\ UNCHANGED <<settings, outside_vars, mishaps, kills>>

WriteConfig ==
  /\ pc = "config"
  /\ \/ live' = [live EXCEPT !.config = job.config] /\ Goto("check") /\ UNCHANGED faults
     \/ Fails /\ Goto("rollback") /\ UNCHANGED live
  /\ UNCHANGED <<settings, outside_vars, mishaps, kills>>

(* The files are read back and compared with what was written. *)
Check ==
  /\ pc = "check"
  /\ IF (job.writesAuth => live.auth = job.auth) /\ live.config = job.config
     THEN Goto("probe")
     ELSE Goto("rollback")
  /\ UNCHANGED <<settings, live, outside_vars, mishaps, faults, kills>>

(* rollback_live_write_error: both files as they were before the writes;   *)
(* the caller restores them once more.                                     *)
RollBack ==
  /\ pc = "rollback"
  /\ \E failed \in SUBSET {"auth", "config"} :
       /\ Cardinality(failed) <= faults
       /\ faults' = faults - Cardinality(failed)
       /\ live' = [auth   |-> IF "auth" \in failed THEN live.auth ELSE job.old.auth,
                   config |-> IF "config" \in failed THEN live.config ELSE job.old.config]
  /\ Goto("restoreAuth")
  /\ UNCHANGED <<settings, outside_vars, mishaps, kills>>

(* The request is tried with the values read back from the files. *)
Probe ==
  /\ pc = "probe"
  /\ \/ Over("switched")
     \/ /\ Probed(job.target)
        /\ job' = [job EXCEPT !.written = job.verified]
        /\ pc' = "restoreAuth"
        /\ UNCHANGED outcome
  /\ UNCHANGED <<settings, live, outside_vars, mishaps, faults, kills>>

(* restore_relay_live_snapshot: auth.json first. *)
RestoreAuth ==
  /\ pc = "restoreAuth"
  /\ \/ live' = [live EXCEPT !.auth = job.written.auth] /\ UNCHANGED faults
     \/ Fails /\ UNCHANGED live
  /\ Goto("restoreConfig")
  /\ UNCHANGED <<settings, outside_vars, mishaps, kills>>

(* Mutant: the restored files are not read back. *)
RestoreConfigUnread ==
  /\ pc = "restoreConfig"
  /\ \/ live' = [live EXCEPT !.config = job.written.config] /\ UNCHANGED faults
     \/ Fails /\ UNCHANGED live
  /\ job' = [target |-> job.target, previous |-> job.previous, original |-> job.original,
             verified |-> job.verified, complete |-> TRUE]
  /\ pc' = "restoreSettings"
  /\ UNCHANGED <<settings, outside_vars, outcome, mishaps, kills>>

(* Then config.toml, and both are compared with the snapshot. *)
RestoreConfig ==
  /\ pc = "restoreConfig"
  /\ \/ live' = [live EXCEPT !.config = job.written.config] /\ UNCHANGED faults
     \/ Fails /\ UNCHANGED live
  /\ job' = [target |-> job.target, previous |-> job.previous, original |-> job.original,
             verified |-> job.verified, complete |-> live' = job.written]
  /\ pc' = "restoreSettings"
  /\ UNCHANGED <<settings, outside_vars, outcome, mishaps, kills>>

(* The settings of before, whatever became of the files. *)
RestoreSettings ==
  /\ pc = "restoreSettings"
  /\ \/ /\ settings' = job.original
        /\ Over(IF job.complete THEN "restored" ELSE "incomplete")
        /\ UNCHANGED faults
     \/ Fails /\ Over("incomplete") /\ UNCHANGED settings
  /\ mishaps' = mishaps \cup (IF outcome' = "incomplete" THEN {"incomplete"} ELSE {})
  /\ UNCHANGED <<live, outside_vars, kills>>

Advance ==
  \/ Begin \/ Preflight \/ Snapshot \/ Switch \/ Save \/ Apply \/ WriteAuth \/ WriteConfig
  \/ Check \/ RollBack \/ Probe \/ RestoreAuth \/ RestoreConfig \/ RestoreSettings

(* The Manager is killed; no journal tells the next start that settings    *)
(* and files are of two providers.                                         *)
Killed ==
  /\ kills > 0
  /\ pc # "idle"
  /\ kills' = kills - 1
  /\ Over("none")
  /\ mishaps' = mishaps \cup (IF pc \in {"begin", "preflight", "snapshot", "switch", "save",
                                         "check", "probe"} THEN {} ELSE {"killed"})
  /\ UNCHANGED <<settings, live, outside_vars, faults>>

----
(* Codex and the user. *)

Raced == mishaps' = mishaps \cup (IF Exposed THEN {"raced"} ELSE {})

CodexStarts == /\ ~codex /\ codex' = TRUE
               /\ UNCHANGED <<settings, live, newest, added, pc, job, outcome, mishaps, faults, kills>>
CodexStops  == /\ codex /\ codex' = FALSE
               /\ UNCHANGED <<settings, live, newest, added, pc, job, outcome, mishaps, faults, kills>>

(* Codex signs in, or renews the tokens of the login it uses; with a pure  *)
(* provider it uses none.                                                  *)
Login ==
  /\ codex
  /\ live.config.url \notin PureApi
  /\ newest < MaxLogins
  /\ newest' = newest + 1
  /\ live' = [live EXCEPT !.auth.login = newest + 1]
  /\ Raced
  /\ UNCHANGED <<settings, codex, added, pc, job, outcome, faults, kills>>

(* An MCP server, a skill or a plugin installed, by Codex or by hand. *)
AddEntry(e) ==
  /\ e \notin added
  /\ added' = added \cup {e}
  /\ live' = [live EXCEPT !.config.entries = @ \cup {e}]
  /\ Raced
  /\ UNCHANGED <<settings, codex, newest, pc, job, outcome, faults, kills>>

Init ==
  /\ \E o \in Official :
       settings = [active |-> o,
                   profile |-> [p \in Profiles |->
                     IF p = o THEN [config |-> NoConfig, auth |-> NoAuth]
                     ELSE Stored(p, [config |-> [url |-> IF p \in Official THEN None ELSE p,
                                                 key |-> IF p \in Official THEN None ELSE p,
                                                 entries |-> {}],
                                     auth |-> NoAuth])]]
  /\ live = [config |-> NoConfig, auth |-> [key |-> None, login |-> 1]]
  /\ codex = FALSE
  /\ newest = 1
  /\ added = {}
  /\ pc = "idle"
  /\ job = NoJob
  /\ outcome = "none"
  /\ mishaps = {}
  /\ faults = MaxFaults
  /\ kills = MaxKills

Next ==
  \/ \E target \in Profiles : Ask(target)
  \/ Advance
  \/ Killed
  \/ CodexStarts \/ CodexStops \/ Login
  \/ \E e \in Entries : AddEntry(e)

Spec == Init /\ [][Next]_vars

----
(* Properties. *)

TypeOK ==
  /\ settings \in Settings
  /\ live \in Files
  /\ codex \in BOOLEAN
  /\ newest \in 1..MaxLogins
  /\ added \in SUBSET Entries
  /\ pc \in {"idle", "begin", "preflight", "snapshot", "switch", "save", "apply", "auth", "config",
             "check", "rollback", "probe", "restoreAuth", "restoreConfig", "restoreSettings"}
  /\ job = NoJob <=> pc = "idle"
  /\ outcome \in {"none", "unchanged", "unread", "switched", "restored", "incomplete"}
  /\ mishaps \in SUBSET {"blind", "raced", "killed", "incomplete", "unread", "resumed"}
  /\ faults \in 0..MaxFaults
  /\ kills \in 0..MaxKills

(* Once a switch took the files of two profiles for those of one, only the *)
(* user's entries are safe, and TLC need not go on.                        *)
Promising == "resumed" \notin mishaps

(* A key is only ever sent to the provider it belongs to: the endpoint and *)
(* the key Codex would use with it are of one profile, in config.toml and  *)
(* in every stored profile, whatever fails or is killed; and after a       *)
(* switch no key of a provider is left in auth.json for the official       *)
(* endpoint, unless it was killed while it wrote or could not restore.     *)
(* (Not after a switch that began with settings and files of two profiles: *)
(* KeysStayAfterAll.)                                                      *)
KeysStayWithTheirProvider ==
  Promising =>
    /\ live.config.key = live.config.url
    /\ \A p \in Profiles \ Official :
         settings.profile[p].config.url = p /\ ApiKey(settings.profile[p]) = p
    /\ pc = "idle" /\ live.config.url = None /\ mishaps \cap {"killed", "incomplete"} = {}
         => live.auth.key = None

(* The same of the stored profiles without an exception.  It does not      *)
(* hold: the backfill of a switch does not ask whose files it takes back.  *)
KeysStayAfterAll ==
  \A p \in Profiles \ Official :
    settings.profile[p].config.url = p /\ ApiKey(settings.profile[p]) = p

(* Every entry the user added is kept in the live files, through kills and *)
(* recoveries that fail.  So is the last login, there or in a profile that *)
(* brings it back, until a recovery is incomplete or a switch begins with  *)
(* settings and files of two profiles.  (Neither, when the live files are  *)
(* written to after the switch took its copies, see Exposed.)              *)
UsersDataIsKept ==
  /\ "raced" \notin mishaps => added \subseteq live.config.entries
  /\ mishaps \subseteq {"killed", "unread"} =>
       \/ live.auth.login = newest
       \/ \E p \in Profiles : settings.profile[p].auth.login = newest

(* The README's promise about the mixed mode, that the official login is    *)
(* kept: after a switch to a profile that uses the login, Codex has the    *)
(* last one.                                                               *)
LoginIsRetained ==
  mishaps = {} /\ pc = "idle" /\ outcome = "switched" /\ live.config.url \notin PureApi
    => live.auth.login = newest

(* What is reported is so: "switched" means that the active profile, the   *)
(* endpoint and the key are the target's; an error before anything was     *)
(* written, that they are the previous profile's still, and when the saved *)
(* settings could not be read, the live files are; "restored", that        *)
(* settings and files are what they were when the switch took its copies   *)
(* (unless the live files were written to meanwhile).                      *)
ReportIsTrue ==
  [][pc # "idle" /\ pc' = "idle" /\ Promising =>
       /\ outcome' = "switched" => settings.active = job.target /\ FilesOf(job.target, live)
       /\ outcome' = "unchanged" => settings' = settings /\ settings.active = job.previous
       /\ outcome' \in {"unchanged", "unread"} => FilesOf(job.previous, live)
       /\ outcome' = "restored" =>
            settings' = job.original /\ (mishaps = {} => live = job.verified)]_vars
=============================================================================

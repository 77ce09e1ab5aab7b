---------------------------- MODULE ProvidersProofs ----------------------------
(***************************************************************************)
(* Changing the provider of Codex, and what Codex reads of a provider's    *)
(* answer.                                                                 *)
(*                                                                         *)
(* The switch of the active provider, for any profiles, entries, logins,   *)
(* failures and kills: its types; a key is only ever beside the endpoint   *)
(* of its own provider; what a switch reports is so; the last login and    *)
(* the user's entries are kept.  The argument follows the files through    *)
(* the steps of a switch.  Before the first write the live files are those *)
(* of the active profile, so the backfill takes a profile's own key and    *)
(* endpoint back into it; from then on settings and live files are of two  *)
(* profiles, and what leads back to one of them is in the local variables  *)
(* of the switch.                                                          *)
(*                                                                         *)
(* The conversion of an answer, for any positions of tool calls and bounds *)
(* on the answer: what Codex reads is a proper Responses stream, and a     *)
(* stream that is over has told how it ended.  Codex reads later than the  *)
(* converter writes, so the argument is about the two ends of the wire:    *)
(* reading all that is on it takes Codex, one legal step after the other,  *)
(* to a view that agrees with the converter's ledger of the items it has   *)
(* opened; and each function the converter is made of prolongs the wire by *)
(* events that keep this agreement.                                        *)
(***************************************************************************)
EXTENDS ProviderSwitch, ChatStream, FiniteSetTheorems, SequenceTheorems,
        WellFoundedInduction, TLAPS

(* The local variables of a switch, by how far it is. *)
Requests == [target : Profiles, previous : Profiles, next : Settings]
Copying  == [target : Profiles, previous : Profiles, next : Settings,
             original : Settings, verified : Files]
Armed    == [target : Profiles, previous : Profiles, next : Settings,
             original : Settings, verified : Files, written : Files]
Prepared == [target : Profiles, previous : Profiles, original : Settings,
             verified : Files, written : Files, old : Files, auth : Auths,
             writesAuth : BOOLEAN, config : Configs]
Undoing  == [target : Profiles, previous : Profiles, original : Settings,
             verified : Files, complete : BOOLEAN]

JobTyped ==
  /\ pc = "idle" => job = NoJob
  /\ pc \in {"begin", "preflight", "snapshot"} => job \in Requests
  /\ pc = "switch" => job \in Copying
  /\ pc \in {"save", "apply"} => job \in Armed
  /\ pc \in {"auth", "config", "check", "rollback", "probe"} => job \in Prepared
  /\ pc \in {"restoreAuth", "restoreConfig"} => job \in Armed \/ job \in Prepared
  /\ pc = "restoreSettings" => job \in Undoing

Typed == TypeOK /\ JobTyped

----
(* Keys. *)

(* Files with the endpoint and the key of profile p ... *)
GoodConfig(p, c) == c.url = Endpoint(p) /\ c.key = Endpoint(p)
GoodAuth(p, a)   == a.key = IF p \in PureApi THEN p ELSE None
GoodLive(p, l)   == GoodConfig(p, l.config) /\ GoodAuth(p, l.auth)

(* ... and what is stored of them in it. *)
GoodFiles(p, f)  == GoodAuth(p, f.auth) /\ (p \notin Official => GoodConfig(p, f.config))
GoodSettings(s)  == \A p \in Profiles : GoodFiles(p, s.profile[p])

(* Before the settings are saved, while copies of before are kept, and     *)
(* from the saving of the settings on.                                     *)
Asked  == {"begin", "preflight", "snapshot", "switch", "save"}
After  == {"apply", "auth", "config", "check", "rollback", "probe",
           "restoreAuth", "restoreConfig", "restoreSettings"}
Kept   == After \cup {"switch", "save"}

SettingsSound ==
  /\ GoodSettings(settings)
  /\ pc \in Asked =>
       GoodSettings(job.next) /\ job.next.active = job.target /\ settings.active = job.previous
  /\ pc \in {"switch", "save"} => job.original = settings
  /\ pc \in After =>
       GoodSettings(job.original) /\ job.original.active = job.previous
         /\ settings.active = job.target

CopiesSound ==
  /\ pc \in Kept => GoodLive(job.previous, job.verified)
  /\ pc \in Kept \ {"switch", "restoreSettings"} => GoodLive(job.previous, job.written)
  /\ pc \in {"auth", "config", "check", "rollback", "probe"} => GoodLive(job.previous, job.old)
  /\ pc \in {"auth", "config", "check", "probe"} =>
       /\ GoodConfig(job.target, job.config)
       /\ IF job.writesAuth THEN GoodAuth(job.target, job.auth) ELSE job.target \in Official

IdleSound ==
  /\ ~Apart => GoodLive(settings.active, live)
  /\ mishaps \cap {"killed", "incomplete"} = {} => \E p \in Profiles : GoodLive(p, live)

LiveSound ==
  /\ live.config.key = live.config.url
  /\ pc \in Asked => GoodLive(settings.active, live)
  /\ pc = "idle" => IdleSound
  /\ pc \in {"apply", "auth"} => GoodLive(job.previous, live)
  /\ pc = "auth" /\ ~job.writesAuth => live.auth.key = None
  /\ pc = "config" => GoodConfig(job.previous, live.config) /\ GoodAuth(job.target, live.auth)
  /\ pc \in {"check", "probe"} => GoodLive(job.target, live)
  /\ pc = "restoreSettings" /\ job.complete => GoodLive(job.previous, live)

KeysHeld == Promising => SettingsSound /\ CopiesSound /\ LiveSound

----
(* The user's data. *)

(* The copies are of the files as they are until the first write. *)
CopiesTrue ==
  /\ pc = "switch" => job.verified = live
  /\ pc \in {"save", "apply", "auth"} => job.written = live
  /\ pc \in Kept \ {"switch", "restoreSettings"} => job.written = job.verified
  /\ pc \in {"auth", "config", "check", "rollback", "probe"} => job.old = job.written
  /\ pc = "restoreSettings" /\ job.complete => live = job.verified

EntriesKept ==
  /\ added \subseteq live.config.entries
  /\ pc \in Kept => added \subseteq job.verified.config.entries
  /\ pc \in {"auth", "config"} => added \subseteq job.config.entries

(* A pure profile stores no login; another one stores the last. *)
PureStoresNone(s) == \A p \in PureApi : s.profile[p].auth.login = 0
Stores(s, n)      == \E p \in Profiles \ PureApi : s.profile[p].auth.login = n

(* What a backfill must not overwrite: if the active profile stores the    *)
(* last login, that is the live one.                                       *)
Latest(s, l, n) ==
  /\ PureStoresNone(s)
  /\ Stores(s, n) \/ (s.active \notin PureApi /\ l.auth.login = n)
  /\ s.active \notin PureApi /\ s.profile[s.active].auth.login = n => l.auth.login = n

LoginsKept ==
  /\ pc \in Asked => Latest(settings, live, newest)
  /\ pc = "idle" /\ ~Apart => Latest(settings, live, newest)
  /\ pc = "idle" => Stores(settings, newest) \/ live.auth.login = newest
  /\ pc \in Kept => Latest(job.original, job.verified, newest)
  /\ pc \in Asked \ {"save"} =>
       /\ PureStoresNone(job.next)
       /\ \A p \in Profiles \ {job.previous} :
            job.next.profile[p].auth.login = settings.profile[p].auth.login
       /\ job.target = job.previous /\ job.previous \notin PureApi =>
            job.next.profile[job.previous].auth.login = live.auth.login
  /\ pc = "save" => PureStoresNone(job.next) /\ Stores(job.next, newest)
  /\ pc \in After => PureStoresNone(settings) /\ Stores(settings, newest)
  /\ pc \in {"auth", "config"} /\ job.target \notin PureApi
       /\ settings.profile[job.target].auth.login = newest =>
         job.writesAuth /\ job.auth.login = newest
  /\ pc \in {"config", "check", "probe"} /\ job.target \notin PureApi
       /\ settings.profile[job.target].auth.login = newest =>
         live.auth.login = newest

Unraced  == "raced" \notin mishaps
Bearable == mishaps \subseteq {"killed", "unread"}

DataHeld == (Unraced => CopiesTrue /\ EntriesKept) /\ (Bearable => LoginsKept)

IInv == Typed /\ KeysHeld /\ DataHeld

----
(* What the operators on files do to the types, the keys and the logins. *)

(* Storing a profile keeps its login, and its key and endpoint if it had   *)
(* its own.                                                                *)
LEMMA Storing ==
  ASSUME NEW p \in Profiles, NEW f \in Files
  PROVE  /\ Stored(p, f) \in Files
         /\ Stored(p, f).auth.login = f.auth.login
         /\ GoodFiles(p, f) => GoodFiles(p, Stored(p, f))
<1>0. /\ f.config \in Configs /\ f.auth \in Auths /\ ApiKey(f) \in Owner
      /\ NoConfig \in Configs /\ NoAuth \in Auths
      /\ \A k \in Owner : [f.config EXCEPT !.key = k] \in Configs
      /\ \A k \in Owner : [f.auth EXCEPT !.key = k] \in Auths
      /\ None \in Owner
  BY BoundsAssumption DEF Files, Configs, Auths, ApiKey, NoConfig, NoAuth, Owner
<1>1. CASE p \in Official
  BY <1>1, ProfilesAssumption, <1>0, BoundsAssumption DEF Stored, Files, Auths, WithoutKey, NoAuth,
    GoodFiles, GoodAuth
<1>2. CASE p \in Mixed
  BY <1>2, ProfilesAssumption, <1>0 DEF Stored, Files, Configs, Auths, WithoutKey, GoodFiles, GoodAuth,
    GoodConfig, Endpoint, ApiKey, Profiles
<1>3. CASE p \in PureApi
  BY <1>3, ProfilesAssumption, <1>0 DEF Stored, Auths, Files, Configs, GoodFiles, GoodAuth, GoodConfig,
    Endpoint, ApiKey, Profiles
<1>4. QED
  BY <1>1, <1>2, <1>3 DEF Profiles

(* Live files of a profile, taken back into it, are stored as its own. *)
LEMMA TakingBack ==
  ASSUME NEW p \in Profiles, NEW f \in Files, NEW here \in Files
  PROVE  /\ Backfilled(p, f, here) \in Files
         /\ Backfilled(p, f, here).auth.login =
              IF p \in PureApi THEN f.auth.login ELSE here.auth.login
         /\ GoodFiles(p, f) /\ GoodLive(p, here) => GoodFiles(p, Backfilled(p, f, here))
<1>0. /\ f.config \in Configs /\ f.auth \in Auths /\ ApiKey(f) \in Owner
      /\ here.config \in Configs /\ here.auth \in Auths
      /\ \A k \in Owner : [here.config EXCEPT !.key = k] \in Configs
      /\ \A k \in Owner : [f.auth EXCEPT !.key = k] \in Auths
      /\ \A k \in Owner : [here.auth EXCEPT !.key = k] \in Auths
      /\ None \in Owner
  BY DEF Files, Configs, Auths, ApiKey, Owner
<1>1. CASE p \in Official
  BY <1>1, ProfilesAssumption DEF Backfilled, GoodLive, GoodFiles
<1>2. CASE p \in Mixed
  BY <1>2, ProfilesAssumption, <1>0 DEF Backfilled, Files, Configs, Auths, WithoutKey, GoodLive,
    GoodFiles, GoodAuth, GoodConfig, Endpoint, ApiKey, Profiles
<1>3. CASE p \in PureApi
  BY <1>3, ProfilesAssumption, <1>0 DEF Backfilled, Files, Configs, Auths, GoodLive, GoodFiles,
    GoodAuth, GoodConfig, Endpoint, ApiKey, Profiles
<1>4. QED
  BY <1>1, <1>2, <1>3 DEF Profiles

LEMMA Normalizing ==
  ASSUME NEW s \in Settings
  PROVE  /\ Normalized(s) \in Settings
         /\ Normalized(s).active = s.active
         /\ \A p \in Profiles : Normalized(s).profile[p].auth.login = s.profile[p].auth.login
         /\ GoodSettings(s) => GoodSettings(Normalized(s))
<1>1. s.profile \in [Profiles -> Files] /\ s.active \in Profiles
  BY DEF Settings
<1>2. PICK f : f = [p \in Profiles |-> Stored(p, s.profile[p])]
  OBVIOUS
<1>3. Normalized(s) = [s EXCEPT !.profile = f]
  BY <1>2 DEF Normalized
<1>4. f \in [Profiles -> Files]
  BY <1>1, <1>2, Storing
<1>5. Normalized(s) = [active |-> s.active, profile |-> f]
  BY <1>3 DEF Settings
<1>6. \A p \in Profiles : f[p] = Stored(p, s.profile[p]) /\ s.profile[p] \in Files
  BY <1>1, <1>2
<1>7. Normalized(s) \in Settings
  BY <1>1, <1>4, <1>5 DEF Settings
<1>8. \A p \in Profiles : /\ f[p].auth.login = s.profile[p].auth.login
                          /\ GoodFiles(p, s.profile[p]) => GoodFiles(p, f[p])
  BY <1>6, Storing
<1>9. QED
  BY <1>5, <1>7, <1>8 DEF GoodSettings

LEMMA TakingBackLive ==
  ASSUME NEW s \in Settings, NEW p \in Profiles, live \in Files
  PROVE  /\ Backfill(s, p) \in Settings
         /\ Backfill(s, p).active = s.active
         /\ \A q \in Profiles \ {p} :
              Backfill(s, p).profile[q].auth.login = s.profile[q].auth.login
         /\ Backfill(s, p).profile[p].auth.login =
              IF p \in PureApi THEN s.profile[p].auth.login ELSE live.auth.login
         /\ GoodSettings(s) /\ GoodLive(p, live) => GoodSettings(Backfill(s, p))
<1>1. s.profile \in [Profiles -> Files] /\ s.active \in Profiles /\ s.profile[p] \in Files
  BY DEF Settings
<1>2. PICK b : b = Backfilled(p, s.profile[p], live)
  OBVIOUS
<1>3. Backfill(s, p) = [active |-> s.active, profile |-> [s.profile EXCEPT ![p] = b]]
  BY <1>2 DEF Backfill, Settings
<1>4. /\ b \in Files
      /\ b.auth.login = IF p \in PureApi THEN s.profile[p].auth.login ELSE live.auth.login
      /\ GoodFiles(p, s.profile[p]) /\ GoodLive(p, live) => GoodFiles(p, b)
  BY <1>1, <1>2, TakingBack
<1>5. QED
  BY <1>1, <1>3, <1>4 DEF GoodSettings, Settings

(* The settings a switch asks for. *)
LEMMA Asking ==
  ASSUME settings \in Settings, live \in Files, NEW target \in Profiles,
         NEW next, NEW blind \in BOOLEAN,
         LET s == Normalized([settings EXCEPT !.active = target])
         IN next = IF blind THEN s ELSE Normalized(Backfill(s, settings.active))
  PROVE  /\ next \in Settings
         /\ next.active = target
         /\ \A p \in Profiles \ {settings.active} :
              next.profile[p].auth.login = settings.profile[p].auth.login
         /\ next.profile[settings.active].auth.login =
              IF blind \/ settings.active \in PureApi
              THEN settings.profile[settings.active].auth.login ELSE live.auth.login
         /\ GoodSettings(settings) /\ GoodLive(settings.active, live) => GoodSettings(next)
<1>1. PICK r : r = [settings EXCEPT !.active = target]
  OBVIOUS
<1>2. /\ r \in Settings /\ r.active = target /\ r.profile = settings.profile
      /\ settings.active \in Profiles
  BY <1>1 DEF Settings
<1>3. PICK s : s = Normalized(r)
  OBVIOUS
<1>4. /\ s \in Settings /\ s.active = target
      /\ \A p \in Profiles : s.profile[p].auth.login = settings.profile[p].auth.login
      /\ GoodSettings(settings) => GoodSettings(s)
  BY <1>2, <1>3, Normalizing DEF GoodSettings
<1>5. CASE blind
  BY <1>1, <1>2, <1>3, <1>4, <1>5
<1>6. CASE ~blind
  <2>1. PICK b : b = Backfill(s, settings.active)
    OBVIOUS
  <2>2. /\ b \in Settings /\ b.active = target
        /\ \A p \in Profiles \ {settings.active} :
             b.profile[p].auth.login = s.profile[p].auth.login
        /\ b.profile[settings.active].auth.login =
             IF settings.active \in PureApi THEN s.profile[settings.active].auth.login
             ELSE live.auth.login
        /\ GoodSettings(s) /\ GoodLive(settings.active, live) => GoodSettings(b)
    BY <1>2, <1>4, <2>1, TakingBackLive
  <2>3. next = Normalized(b)
    BY <1>1, <1>3, <1>6, <2>1
  <2>4. /\ next \in Settings /\ next.active = b.active
        /\ \A p \in Profiles : next.profile[p].auth.login = b.profile[p].auth.login
        /\ GoodSettings(b) => GoodSettings(next)
    BY <2>2, <2>3, Normalizing
  <2>5. QED
    BY <1>2, <1>4, <1>6, <2>2, <2>4
<1>7. QED
  BY <1>5, <1>6

(* What a switch to p writes is p's. *)
LEMMA Targeting ==
  ASSUME NEW p \in Profiles, NEW f \in Files, live \in Files
  PROVE  /\ TargetAuth(p, f) \in Auths /\ TargetConfig(p, f) \in Configs
         /\ WritesAuth(p, f) \in BOOLEAN
         /\ GoodFiles(p, f) => GoodConfig(p, TargetConfig(p, f))
         /\ GoodFiles(p, f) /\ WritesAuth(p, f) => GoodAuth(p, TargetAuth(p, f))
         /\ GoodFiles(p, f) /\ ~WritesAuth(p, f) =>
              p \in Official /\ live.auth.key = None /\ f.auth.login = 0
         /\ live.config.entries \subseteq TargetConfig(p, f).entries
         /\ GoodFiles(p, f) /\ p \notin PureApi /\ f.auth.login # 0 =>
              WritesAuth(p, f) /\ TargetAuth(p, f).login = f.auth.login
<1>0. /\ f.config \in Configs /\ f.auth \in Auths /\ live.config \in Configs /\ live.auth \in Auths
      /\ f.auth.key \in Owner /\ ApiKey(f) \in Owner /\ None \in Owner
      /\ NoAuth.login = 0
  BY DEF Files, Configs, Auths, ApiKey, Owner, NoAuth
<1>1. CASE p \in Official
  <2>1. p \notin PureApi /\ p \notin Mixed
    BY <1>1, ProfilesAssumption
  <2>2. /\ TargetAuth(p, f) = IF f.auth = NoAuth THEN WithoutKey(live.auth) ELSE f.auth
        /\ TargetConfig(p, f) = [live.config EXCEPT !.url = None, !.key = None]
        /\ WritesAuth(p, f) = (f.auth # NoAuth \/ live.auth.key # None)
    BY <1>1, <2>1 DEF TargetAuth, TargetConfig, WritesAuth
  <2>3. TargetConfig(p, f) = [url |-> None, key |-> None, entries |-> live.config.entries]
    BY <1>0, <2>2 DEF Configs
  <2>4. \A a \in Auths : WithoutKey(a) \in Auths /\ WithoutKey(a).key = None
    BY <1>0 DEF Auths, WithoutKey
  <2>5. TargetAuth(p, f) \in Auths
    BY <1>0, <2>2, <2>4
  <2>6. TargetConfig(p, f) \in Configs
    BY <1>0, <2>3 DEF Configs
  <2>7. GoodConfig(p, TargetConfig(p, f))
    BY <1>1, <2>3 DEF GoodConfig, Endpoint
  <2>8. GoodFiles(p, f) => GoodAuth(p, TargetAuth(p, f))
    BY <1>0, <2>1, <2>2, <2>4 DEF GoodFiles, GoodAuth
  <2>9. QED
    BY <1>0, <1>1, <2>1, <2>2, <2>3, <2>5, <2>6, <2>7, <2>8
<1>2. CASE p \notin Official
  <2>1. p \in Mixed \/ p \in PureApi
    BY <1>2 DEF Profiles
  <2>2. /\ TargetConfig(p, f) = [f.config EXCEPT !.key = ApiKey(f),
                                   !.entries = @ \cup live.config.entries]
        /\ WritesAuth(p, f)
        /\ p \in PureApi => TargetAuth(p, f) = f.auth
        /\ p \notin PureApi =>
             TargetAuth(p, f) = WithoutKey(IF f.auth = NoAuth THEN live.auth ELSE f.auth)
    BY <1>2, <2>1, ProfilesAssumption DEF TargetConfig, WritesAuth, TargetAuth
  <2>3. TargetConfig(p, f) = [url |-> f.config.url, key |-> ApiKey(f),
                               entries |-> f.config.entries \cup live.config.entries]
    BY <1>0, <2>2 DEF Configs
  <2>4. GoodFiles(p, f) => ApiKey(f) = p /\ f.config.url = p
    BY <1>2, ProfilesAssumption DEF GoodFiles, GoodConfig, Endpoint, ApiKey, Profiles
  <2>5. TargetConfig(p, f) \in Configs /\ live.config.entries \subseteq TargetConfig(p, f).entries
    BY <1>0, <2>3 DEF Configs
  <2>6. GoodFiles(p, f) => GoodConfig(p, TargetConfig(p, f))
    BY <1>2, <2>3, <2>4 DEF GoodConfig, Endpoint
  <2>7. QED
    BY <1>0, <1>2, <2>1, <2>2, <2>5, <2>6 DEF Auths, WithoutKey, GoodFiles, GoodAuth
<1>3. QED
  BY <1>1, <1>2
----
(* The types. *)

LEMMA JobsAreBusy ==
  ASSUME NEW j,
         \/ j \in Requests \/ j \in Copying \/ j \in Armed \/ j \in Prepared \/ j \in Undoing
  PROVE  j # NoJob
BY ProfilesAssumption DEF Requests, Copying, Armed, Prepared, Undoing, NoJob

LEMMA LiveParts ==
  ASSUME NEW l \in Files
  PROVE  /\ l.config \in Configs /\ l.auth \in Auths
         /\ \A a \in Auths : [l EXCEPT !.auth = a] \in Files
                              /\ [l EXCEPT !.auth = a].auth = a
                              /\ [l EXCEPT !.auth = a].config = l.config
         /\ \A c \in Configs : [l EXCEPT !.config = c] \in Files
                                /\ [l EXCEPT !.config = c].config = c
                                /\ [l EXCEPT !.config = c].auth = l.auth
BY DEF Files

(* The first state: an official profile is active and nothing is stored    *)
(* but every other profile's own key and endpoint.                         *)
LEMMA Beginning ==
  ASSUME Init
  PROVE  /\ settings \in Settings /\ settings.active \in Official
         /\ live \in Files /\ GoodLive(settings.active, live)
         /\ \A p \in Profiles :
              settings.profile[p].auth.login = 0 /\ GoodFiles(p, settings.profile[p])
<1>1. PICK o \in Official :
        settings = [active |-> o,
                    profile |-> [p \in Profiles |->
                      IF p = o THEN [config |-> NoConfig, auth |-> NoAuth]
                      ELSE Stored(p, [config |-> [url |-> IF p \in Official THEN None ELSE p,
                                                  key |-> IF p \in Official THEN None ELSE p,
                                                  entries |-> {}],
                                      auth |-> NoAuth])]]
  BY DEF Init
<1>2. /\ NoAuth \in Auths /\ NoConfig \in Configs /\ NoAuth.key = None /\ NoAuth.login = 0
      /\ NoConfig.url = None /\ NoConfig.key = None
      /\ [config |-> NoConfig, auth |-> NoAuth] \in Files
  BY BoundsAssumption DEF Files, Auths, Configs, NoAuth, NoConfig, Owner
<1>3. /\ live.config = NoConfig /\ live.auth.key = None /\ live \in Files
  BY BoundsAssumption, <1>2 DEF Init, Auths, Owner, Files
<1>4. o \in Profiles /\ o \notin PureApi
  BY ProfilesAssumption DEF Profiles
<1>5. \A p \in Profiles : /\ settings.profile[p] \in Files
                          /\ settings.profile[p].auth.login = 0
                          /\ p # o => GoodFiles(p, settings.profile[p])
                          /\ p = o => settings.profile[p] = [config |-> NoConfig, auth |-> NoAuth]
  <2>1. SUFFICES ASSUME NEW p \in Profiles
                 PROVE  /\ settings.profile[p] \in Files
                        /\ settings.profile[p].auth.login = 0
                        /\ p # o => GoodFiles(p, settings.profile[p])
                        /\ p = o => settings.profile[p] = [config |-> NoConfig, auth |-> NoAuth]
    OBVIOUS
  <2>2. CASE p = o
    BY <1>1, <1>2, <2>2
  <2>3. CASE p # o
    <3>1. PICK f : f = [config |-> [url |-> IF p \in Official THEN None ELSE p,
                                    key |-> IF p \in Official THEN None ELSE p,
                                    entries |-> {}],
                        auth |-> NoAuth]
      OBVIOUS
    <3>2. settings.profile[p] = Stored(p, f)
      BY <1>1, <2>3, <3>1
    <3>3. f \in Files /\ f.auth.login = 0
      BY <1>2, <3>1 DEF Files, Configs, Owner
    <3>4. CASE p \in PureApi
      <4>1. p \notin Official /\ p \notin Mixed /\ p # None
        BY <3>4, ProfilesAssumption
      <4>2. Stored(p, f) = [config |-> [f.config EXCEPT !.key = ApiKey(f)],
                            auth |-> [f.auth EXCEPT !.key = IF @ = None THEN ApiKey(f) ELSE @]]
        BY <3>4, <4>1 DEF Stored
      <4>3. ApiKey(f) = p /\ f.auth.key = None
        BY <1>2, <3>1, <4>1 DEF ApiKey
      <4>4. Stored(p, f).auth.key = p /\ Stored(p, f).config.key = p
              /\ Stored(p, f).config.url = p
        BY <3>1, <3>3, <4>1, <4>2, <4>3 DEF NoAuth
      <4>5. QED
        BY <3>2, <3>3, <3>4, <4>1, <4>4, Storing DEF GoodFiles, GoodAuth, GoodConfig, Endpoint
    <3>5. CASE p \notin PureApi
      BY <1>2, <3>1, <3>5, <2>3, <3>2, <3>3, Storing DEF GoodFiles, GoodAuth, GoodConfig, Endpoint
    <3>6. QED
      BY <3>4, <3>5
  <2>4. QED
    BY <2>2, <2>3
<1>6. GoodFiles(o, [config |-> NoConfig, auth |-> NoAuth])
  BY <1>2, <1>4 DEF GoodFiles, GoodAuth
<1>7. settings \in Settings /\ settings.active = o
  BY <1>1, <1>4, <1>5 DEF Settings
<1>8. GoodLive(o, live)
  BY <1>2, <1>3, <1>4 DEF GoodLive, GoodConfig, GoodAuth, Endpoint
<1>9. QED
  BY <1>3, <1>5, <1>6, <1>7, <1>8

LEMMA TypedInit == Init => Typed
<1> SUFFICES ASSUME Init PROVE Typed
  OBVIOUS
<1>1. settings \in Settings /\ live \in Files
  BY Beginning
<1>2. /\ codex = FALSE /\ newest = 1 /\ added = {} /\ pc = "idle" /\ job = NoJob
      /\ outcome = "none" /\ mishaps = {} /\ faults = MaxFaults /\ kills = MaxKills
  BY DEF Init
<1>3. JobTyped
  BY <1>2 DEF JobTyped
<1>4. TypeOK
  <2>1. codex \in BOOLEAN
    BY <1>2
  <2>2. added \in SUBSET Entries /\ mishaps \in SUBSET {"blind", "raced", "killed", "incomplete", "unread", "resumed"}
    BY <1>2
  <2>3. newest \in 1 .. MaxLogins /\ faults \in 0 .. MaxFaults /\ kills \in 0 .. MaxKills
    BY <1>2, BoundsAssumption
  <2>4. (job = NoJob <=> pc = "idle") /\ pc = "idle" /\ outcome = "none"
    BY <1>2
  <2>5. QED
    BY <1>1, <2>1, <2>2, <2>3, <2>4 DEF TypeOK
<1>5. QED
  BY <1>3, <1>4 DEF Typed

LEMMA TypedStep == Typed /\ [Next]_vars => Typed'
<1> SUFFICES ASSUME Typed, [Next]_vars PROVE Typed'
  OBVIOUS
<1> USE DEF Typed, Over, Goto, Fails, outside_vars
<1>0. /\ settings \in Settings /\ live \in Files
      /\ faults \in Nat /\ kills \in Nat /\ MaxFaults \in Nat /\ MaxKills \in Nat
      /\ pc # "idle" <=> job # NoJob
  BY BoundsAssumption DEF TypeOK
<1>1. ASSUME NEW target \in Profiles, Ask(target) PROVE Typed'
  <2>0. PICK s : s = Normalized([settings EXCEPT !.active = target])
    OBVIOUS
  <2>1. PICK b \in BOOLEAN :
          /\ job' = [target |-> target, previous |-> settings.active,
                     next |-> IF b THEN s ELSE Normalized(Backfill(s, settings.active))]
          /\ Fails \/ UNCHANGED faults
    <3>1. \/ /\ job' = [target |-> target, previous |-> settings.active,
                        next |-> Normalized(Backfill(s, settings.active))]
             /\ UNCHANGED faults
          \/ /\ Fails
             /\ job' = [target |-> target, previous |-> settings.active, next |-> s]
      BY <1>1, <2>0 DEF Ask
    <3>2. QED
      BY <3>1, Zenon
  <2> PICK n : n = IF b THEN s ELSE Normalized(Backfill(s, settings.active))
    OBVIOUS
  <2>2. n \in Settings
    BY <1>0, <2>0, <2>1, Asking
  <2>3. settings.active \in Profiles
    BY <1>0 DEF Settings
  <2>4. job' \in Requests
    BY <2>1, <2>2, <2>3 DEF Requests
  <2>5. job' # NoJob
    BY <2>4, JobsAreBusy
  <2>6. \/ mishaps' = mishaps \cup Resumed \cup {}
        \/ mishaps' = mishaps \cup Resumed \cup {"blind"}
    BY <1>1 DEF Ask
  <2>7. mishaps' \in SUBSET {"blind", "raced", "killed", "incomplete", "unread", "resumed"}
    BY <2>6 DEF Resumed, TypeOK
  <2>8. pc' = "begin" /\ outcome' = "none" /\ UNCHANGED <<settings, live, outside_vars, kills>>
    BY <1>1 DEF Ask
  <2>9. QED
    BY <1>0, <2>1, <2>4, <2>5, <2>7, <2>8 DEF TypeOK, JobTyped
<1>2. CASE Begin
  BY <1>0, <1>2 DEF Begin, TypeOK, JobTyped
<1>3. CASE Preflight
  BY <1>0, <1>3 DEF Preflight, TypeOK, JobTyped
<1>4. CASE Snapshot
  BY <1>0, <1>4, JobsAreBusy DEF Snapshot, JobTyped, Requests, Copying, TypeOK
<1>5. CASE Switch
  <2>1. job \in Copying
    BY <1>5 DEF Switch, JobTyped
  <2>2. ASSUME pc' = "save" PROVE job' \in Armed
    <3>1. job.next \in Settings /\ job.previous \in Profiles
      BY <2>1 DEF Copying
    <3>2. PICK b : b = Backfill(job.next, job.previous)
      OBVIOUS
    <3>3. b \in Settings
      BY <1>0, <3>1, <3>2, TakingBackLive
    <3>4. QED
      BY <1>0, <1>5, <2>1, <2>2, <3>2, <3>3 DEF Switch, Copying, Armed
  <2>3. pc' = "save" => job' # NoJob
    BY <2>2, JobsAreBusy
  <2>4. QED
    BY <1>0, <1>5, <2>2, <2>3 DEF Switch, TypeOK, JobTyped
<1>6. CASE Save
  <2>1. job \in Armed /\ job.next \in Settings
    BY <1>6 DEF Save, JobTyped, Armed
  <2>2. CASE settings' = job.next /\ Goto("apply") /\ UNCHANGED <<mishaps, faults>>
    BY <1>0, <1>6, <2>1, <2>2 DEF Save, TypeOK, JobTyped
  <2>3. CASE Fails /\ Over("unchanged") /\ UNCHANGED <<settings, mishaps>>
    BY <1>0, <1>6, <2>1, <2>3 DEF Save, TypeOK, JobTyped
  <2>4. CASE settings' = job.next /\ Fails /\ Over("unread") /\ mishaps' = mishaps \cup {"unread"}
    BY <1>0, <1>6, <2>1, <2>4 DEF Save, TypeOK, JobTyped
  <2>5. QED
    BY <1>6, <2>2, <2>3, <2>4 DEF Save
<1>7. CASE Apply
  <2>1. job \in Armed /\ pc = "apply"
    BY <1>7 DEF Apply, JobTyped
  <2>2. settings.profile[job.target] \in Files /\ job.target \in Profiles
    BY <1>0, <2>1 DEF Armed, Settings
  <2>3. PICK a, c, w : /\ a = TargetAuth(job.target, settings.profile[job.target])
                       /\ c = TargetConfig(job.target, settings.profile[job.target])
                       /\ w = WritesAuth(job.target, settings.profile[job.target])
    OBVIOUS
  <2>4. a \in Auths /\ c \in Configs /\ w \in BOOLEAN
    BY <1>0, <2>2, <2>3, Targeting
  <2>5. pc' = "auth" => job' \in Prepared
    BY <1>0, <1>7, <2>1, <2>3, <2>4 DEF Apply, Armed, Prepared
  <2>6. pc' = "auth" => job' # NoJob
    BY <2>5, JobsAreBusy
  <2>7. \/ pc' = "auth" /\ (UNCHANGED <<outcome, faults>>)
        \/ pc' = "restoreAuth" /\ UNCHANGED <<job, outcome>> /\ (UNCHANGED faults \/ Fails)
    BY <1>7 DEF Apply
  <2>8. QED
    BY <1>0, <1>7, <2>1, <2>5, <2>6, <2>7 DEF Apply, TypeOK, JobTyped
<1>8. CASE WriteAuth
  BY <1>8, <1>0, LiveParts DEF WriteAuth, JobTyped, Prepared, TypeOK
<1>9. CASE WriteConfig
  BY <1>9, <1>0, LiveParts DEF WriteConfig, JobTyped, Prepared, TypeOK
<1>10. CASE Check
  BY <1>0, <1>10 DEF Check, TypeOK, JobTyped
<1>11. CASE RollBack
  <2>1. job \in Prepared /\ job.old \in Files
    BY <1>11 DEF RollBack, JobTyped, Prepared
  <2>2. PICK failed \in SUBSET {"auth", "config"} :
          /\ Cardinality(failed) <= faults
          /\ faults' = faults - Cardinality(failed)
          /\ live' = [auth   |-> IF "auth" \in failed THEN live.auth ELSE job.old.auth,
                      config |-> IF "config" \in failed THEN live.config ELSE job.old.config]
    BY <1>11 DEF RollBack
  <2>3. Cardinality(failed) \in Nat
    <3>1. IsFiniteSet({"auth", "config"})
      <4>1. {"auth", "config"} = {"auth"} \cup {"config"}
        OBVIOUS
      <4>2. IsFiniteSet({"auth"}) /\ IsFiniteSet({"config"})
        BY FS_Singleton
      <4>3. QED
        BY <4>1, <4>2, FS_Union
    <3>2. QED
      BY <3>1, FS_Subset, FS_CardinalityType
  <2>4. live' \in Files
    BY <1>0, <2>1, <2>2 DEF Files
  <2>5. faults' \in 0 .. MaxFaults
    BY <1>0, <2>2, <2>3 DEF TypeOK
  <2>6. QED
    BY <1>0, <1>11, <2>1, <2>4, <2>5 DEF RollBack, TypeOK, JobTyped
<1>12. CASE Probe
  BY <1>12, JobsAreBusy, <1>0 DEF Probe, JobTyped, Prepared, TypeOK
<1>13. CASE RestoreAuth
  BY <1>13, LiveParts, <1>0 DEF RestoreAuth, JobTyped, Armed, Prepared, TypeOK
<1>14. CASE RestoreConfig
  <2>1. (job \in Armed \/ job \in Prepared) /\ job.written \in Files
    BY <1>14 DEF RestoreConfig, JobTyped, Armed, Prepared
  <2>2. job.written.config \in Configs
    BY <2>1, LiveParts
  <2>3. live' \in Files
    BY <1>0, <1>14, <2>2, LiveParts DEF RestoreConfig
  <2>4. job' \in Undoing
    BY <1>14, <2>1 DEF RestoreConfig, Armed, Prepared, Undoing
  <2>5. job' # NoJob
    BY <2>4, JobsAreBusy
  <2>6. QED
    BY <1>0, <1>14, <2>3, <2>4, <2>5 DEF RestoreConfig, TypeOK, JobTyped
<1>15. CASE RestoreSettings
  BY <1>15, <1>0 DEF RestoreSettings, JobTyped, Undoing, TypeOK
<1>16. CASE Killed
  BY <1>0, <1>16 DEF Killed, TypeOK, JobTyped
<1>17. CASE CodexStarts \/ CodexStops
  BY <1>17 DEF CodexStarts, CodexStops, TypeOK, JobTyped
<1>18. CASE Login
  <2>1. newest + 1 \in 1 .. MaxLogins
    BY <1>18, BoundsAssumption DEF Login, TypeOK
  <2>2. [live.auth EXCEPT !.login = newest + 1] \in Auths
    BY <1>0, <2>1, LiveParts, BoundsAssumption DEF Auths
  <2>3. live' = [live EXCEPT !.auth = [live.auth EXCEPT !.login = newest + 1]]
    BY <1>0, <1>18 DEF Login, Files
  <2>4. live' \in Files
    BY <1>0, <2>2, <2>3, LiveParts
  <2>5. QED
    BY <1>18, <2>1, <2>4 DEF Login, Raced, TypeOK, JobTyped
<1>19. ASSUME NEW e \in Entries, AddEntry(e) PROVE Typed'
  <2>1. live.config \in Configs
    BY <1>0, LiveParts
  <2>2. [live.config EXCEPT !.entries = @ \cup {e}] \in Configs
    BY <2>1 DEF Configs
  <2>3. live' = [live EXCEPT !.config = [live.config EXCEPT !.entries = @ \cup {e}]]
    BY <1>0, <1>19 DEF AddEntry, Files
  <2>4. live' \in Files
    BY <1>0, <2>2, <2>3, LiveParts
  <2>5. QED
    BY <1>19, <2>4 DEF AddEntry, Raced, TypeOK, JobTyped
<1>20. CASE UNCHANGED vars
  BY <1>20 DEF vars, TypeOK, JobTyped
<1>21. QED
  BY <1>1, <1>2, <1>3, <1>4, <1>5, <1>6, <1>7, <1>8, <1>9, <1>10, <1>11, <1>12, <1>13, <1>14,
     <1>15, <1>16, <1>17, <1>18, <1>19, <1>20 DEF Next, Advance
----
(* Keys stay beside the endpoint of their provider. *)

LEMMA MishapsStay == [Next]_vars => mishaps \subseteq mishaps'
<1> SUFFICES ASSUME [Next]_vars PROVE mishaps \subseteq mishaps'
  OBVIOUS
<1>1. ASSUME NEW target \in Profiles, Ask(target) PROVE mishaps \subseteq mishaps'
  BY <1>1, Zenon DEF Ask
<1>2. CASE Advance
  BY <1>2 DEF Advance, Begin, Preflight, Snapshot, Switch, Save, Apply, WriteAuth, WriteConfig,
              Check, RollBack, Probe, RestoreAuth, RestoreConfig, RestoreSettings
<1>3. CASE Killed
  BY <1>3 DEF Killed
<1>4. CASE CodexStarts \/ CodexStops \/ Login \/ (\E e \in Entries : AddEntry(e))
  BY <1>4 DEF CodexStarts, CodexStops, Login, AddEntry, Raced
<1>5. CASE UNCHANGED vars
  BY <1>5 DEF vars
<1>6. QED
  BY <1>1, <1>2, <1>3, <1>4, <1>5 DEF Next

LEMMA KeysInit == Init => KeysHeld
<1> SUFFICES ASSUME Init PROVE KeysHeld
  OBVIOUS
<1>1. pc = "idle"
  BY DEF Init
<1>2. /\ GoodSettings(settings) /\ GoodLive(settings.active, live)
      /\ settings.active \in Profiles
  BY Beginning DEF GoodSettings, Profiles
<1>3. QED
  BY <1>1, <1>2 DEF KeysHeld, SettingsSound, CopiesSound, LiveSound, IdleSound, GoodLive,
                    GoodConfig, Asked, After, Kept

(* What Codex and the user write to the live files is neither a key nor an *)
(* endpoint.                                                               *)
LEMMA LoginsAreNoKeys ==
  ASSUME Typed, Login \/ (\E e \in Entries : AddEntry(e))
  PROVE  /\ live'.config.url = live.config.url /\ live'.config.key = live.config.key
         /\ live'.auth.key = live.auth.key
         /\ UNCHANGED <<settings, pc, job>>
<1>1. live \in Files
  BY DEF Typed, TypeOK
<1>2. QED
  BY <1>1 DEF Login, AddEntry, Files, Configs, Auths

LEMMA KeysStep == Typed /\ KeysHeld /\ [Next]_vars => KeysHeld'
<1> SUFFICES ASSUME Typed, KeysHeld, [Next]_vars, Promising'
             PROVE  SettingsSound' /\ CopiesSound' /\ LiveSound'
  BY DEF KeysHeld
<1> USE DEF Over, Goto, outside_vars
<1>0. SettingsSound /\ CopiesSound /\ LiveSound
  BY MishapsStay DEF KeysHeld, Promising
<1>T. settings \in Settings /\ live \in Files /\ settings.active \in Profiles /\ JobTyped
  BY DEF Typed, TypeOK, Settings
<1>I. settings'.active \in Profiles /\ GoodLive(settings'.active, live') => IdleSound'
  BY DEF IdleSound
<1>J. UNCHANGED <<settings, live>> /\ settings.active \in Profiles
        /\ GoodLive(settings.active, live) => IdleSound'
  BY DEF IdleSound
<1>a. ASSUME NEW target \in Profiles, Ask(target)
      PROVE  SettingsSound' /\ CopiesSound' /\ LiveSound'
  <2>0. PICK s : s = Normalized([settings EXCEPT !.active = target])
    OBVIOUS
  <2>1. PICK b \in BOOLEAN :
          job' = [target |-> target, previous |-> settings.active,
                  next |-> IF b THEN s ELSE Normalized(Backfill(s, settings.active))]
    <3>1. \/ job' = [target |-> target, previous |-> settings.active,
                     next |-> Normalized(Backfill(s, settings.active))]
          \/ job' = [target |-> target, previous |-> settings.active, next |-> s]
      BY <1>a, <2>0 DEF Ask
    <3>2. QED
      BY <3>1, Zenon
  <2>2. PICK n : n = IF b THEN s ELSE Normalized(Backfill(s, settings.active))
    OBVIOUS
  <2>3. pc = "idle" /\ pc' = "begin" /\ UNCHANGED <<settings, live>>
    BY <1>a DEF Ask
  <2>4. GoodSettings(settings) /\ GoodLive(settings.active, live)
    BY <1>a, <1>0, <2>3 DEF Ask, Promising, Resumed, SettingsSound, LiveSound, IdleSound
  <2>5. GoodSettings(n) /\ n.active = target
    BY <1>T, <2>0, <2>2, <2>4, Asking
  <2>6. /\ job'.next = n /\ job'.target = target /\ job'.previous = settings.active
    BY <2>1, <2>2
  <2>7. QED
    BY <1>0, <2>3, <2>4, <2>5, <2>6 DEF SettingsSound, CopiesSound, LiveSound, Asked, After, Kept
<1>b. CASE Begin \/ Preflight
  BY <1>0, <1>T, <1>J, <1>b DEF Begin, Preflight, SettingsSound, CopiesSound, LiveSound, Asked, After, Kept
<1>c. CASE Snapshot
  <2>1. pc = "snapshot" /\ UNCHANGED <<settings, live>>
    BY <1>c DEF Snapshot
  <2>2. CASE pc' = "idle"
    BY <1>0, <1>T, <1>J, <2>1, <2>2 DEF SettingsSound, CopiesSound, LiveSound, Asked, After, Kept
  <2>3. CASE job' = [target |-> job.target, previous |-> job.previous, next |-> job.next,
                     original |-> settings, verified |-> live] /\ pc' = "switch"
    BY <1>0, <2>1, <2>3 DEF SettingsSound, CopiesSound, LiveSound, Asked, After, Kept
  <2>4. QED
    BY <1>c, <2>2, <2>3 DEF Snapshot
<1>d. CASE Switch
  <2>1. pc = "switch" /\ UNCHANGED <<settings, live>> /\ job \in Copying
    BY <1>d, <1>T DEF Switch, JobTyped
  <2>2. CASE pc' = "idle"
    BY <1>0, <1>T, <1>J, <2>1, <2>2 DEF SettingsSound, CopiesSound, LiveSound, Asked, After, Kept
  <2>3. CASE pc' = "save"
    <3>1. PICK n : n = IF job.target = job.previous THEN job.next
                       ELSE Backfill(job.next, job.previous)
      OBVIOUS
    <3>2. job' = [target |-> job.target, previous |-> job.previous, next |-> n,
                  original |-> settings, verified |-> job.verified, written |-> live]
      BY <1>d, <2>3, <3>1 DEF Switch
    <3>3. /\ GoodSettings(job.next) /\ job.next.active = job.target
          /\ settings.active = job.previous /\ GoodLive(job.previous, live)
          /\ GoodLive(job.previous, job.verified) /\ GoodSettings(settings)
      BY <1>0, <2>1 DEF SettingsSound, LiveSound, CopiesSound, Asked, Kept
    <3>4. job.next \in Settings /\ job.previous \in Profiles
      BY <2>1 DEF Copying
    <3>5. GoodSettings(n) /\ n.active = job.target
      BY <1>T, <3>1, <3>3, <3>4, TakingBackLive
    <3>6. QED
      BY <1>0, <2>1, <2>3, <3>2, <3>3, <3>5
      DEF SettingsSound, CopiesSound, LiveSound, Asked, After, Kept
  <2>4. QED
    BY <1>d, <2>2, <2>3 DEF Switch
<1>e. CASE Save
  <2>1. pc = "save" /\ UNCHANGED live
    BY <1>e DEF Save
  <2>2. CASE settings' = job.next /\ pc' = "apply" /\ UNCHANGED job
    BY <1>0, <2>1, <2>2 DEF SettingsSound, CopiesSound, LiveSound, Asked, After, Kept
  <2>3. CASE pc' = "idle" /\ UNCHANGED settings
    BY <1>0, <1>T, <1>J, <2>1, <2>3 DEF SettingsSound, CopiesSound, LiveSound, Asked, After, Kept
  <2>4. CASE pc' = "idle" /\ settings' = job.next /\ mishaps' = mishaps \cup {"unread"}
    <3>1. IdleSound'
      BY <1>0, <2>1, <2>4, <1>T DEF LiveSound, Asked, Apart, IdleSound
    <3>2. QED
      BY <1>0, <2>1, <2>4, <3>1 DEF SettingsSound, CopiesSound, LiveSound, Asked, After, Kept
  <2>5. QED
    BY <1>e, <2>2, <2>3, <2>4 DEF Save
<1>f. CASE Apply
  <2>1. pc = "apply" /\ UNCHANGED <<settings, live>> /\ job \in Armed
    BY <1>f, <1>T DEF Apply, JobTyped
  <2>2. CASE pc' = "restoreAuth" /\ UNCHANGED job
    BY <1>0, <2>1, <2>2 DEF SettingsSound, CopiesSound, LiveSound, Asked, After, Kept
  <2>3. CASE pc' = "auth"
    <3>1. PICK a, c, w : /\ a = TargetAuth(job.target, settings.profile[job.target])
                         /\ c = TargetConfig(job.target, settings.profile[job.target])
                         /\ w = WritesAuth(job.target, settings.profile[job.target])
      OBVIOUS
    <3>2. job' = [target |-> job.target, previous |-> job.previous,
                  original |-> job.original, verified |-> job.verified, written |-> job.written,
                  old |-> live, auth |-> a, writesAuth |-> w, config |-> c]
      BY <1>f, <2>3, <3>1 DEF Apply
    <3>3. /\ GoodFiles(job.target, settings.profile[job.target])
          /\ settings.profile[job.target] \in Files /\ job.target \in Profiles
      BY <1>0, <1>T, <2>1 DEF SettingsSound, GoodSettings, Armed, Settings
    <3>4. /\ GoodConfig(job.target, c) /\ w \in BOOLEAN
          /\ w => GoodAuth(job.target, a)
          /\ ~w => job.target \in Official /\ live.auth.key = None
      BY <1>T, <3>1, <3>3, Targeting
    <3>5. QED
      BY <1>0, <2>1, <2>3, <3>2, <3>4
      DEF SettingsSound, CopiesSound, LiveSound, Asked, After, Kept
  <2>4. QED
    BY <1>f, <2>2, <2>3 DEF Apply
<1>g. CASE WriteAuth
  <2>1. pc = "auth" /\ UNCHANGED <<settings, job>> /\ job \in Prepared
    BY <1>g, <1>T DEF WriteAuth, JobTyped
  <2>2. CASE pc' = "restoreAuth" /\ UNCHANGED live
    BY <1>0, <2>1, <2>2 DEF SettingsSound, CopiesSound, LiveSound, Asked, After, Kept
  <2>3. CASE pc' = "config" /\ live' = IF job.writesAuth THEN [live EXCEPT !.auth = job.auth]
                                       ELSE live
    <3>1. GoodLive(job.previous, live) /\ GoodConfig(job.target, job.config)
      BY <1>0, <2>1 DEF LiveSound, CopiesSound
    <3>2. live'.config = live.config
      BY <1>T, <2>3 DEF Files
    <3>3. GoodAuth(job.target, live'.auth)
      <4>1. CASE job.writesAuth
        BY <1>T, <2>3, <4>1, <1>0, <2>1 DEF Files, CopiesSound
      <4>2. CASE ~job.writesAuth
        BY <1>0, <2>1, <2>3, <4>2, ProfilesAssumption DEF CopiesSound, LiveSound, GoodAuth
      <4>3. QED
        BY <4>1, <4>2
    <3>4. QED
      BY <1>0, <2>1, <2>3, <3>1, <3>2, <3>3
      DEF SettingsSound, CopiesSound, LiveSound, GoodLive, Asked, After, Kept
  <2>4. QED
    BY <1>g, <2>2, <2>3 DEF WriteAuth
<1>h. CASE WriteConfig
  <2>1. pc = "config" /\ UNCHANGED <<settings, job>>
    BY <1>h DEF WriteConfig
  <2>2. CASE pc' = "rollback" /\ UNCHANGED live
    BY <1>0, <2>1, <2>2 DEF SettingsSound, CopiesSound, LiveSound, Asked, After, Kept
  <2>3. CASE pc' = "check" /\ live' = [live EXCEPT !.config = job.config]
    BY <1>T, <2>3, <1>0, <2>1 DEF Files, CopiesSound, LiveSound, GoodLive, SettingsSound, GoodConfig,
      Asked, After, Kept
  <2>4. QED
    BY <1>h, <2>2, <2>3 DEF WriteConfig
<1>i. CASE Check
  BY <1>0, <1>i DEF Check, SettingsSound, CopiesSound, LiveSound, Asked, After, Kept
<1>j. CASE RollBack
  BY <1>j, <1>0 DEF RollBack, CopiesSound, LiveSound, GoodLive, GoodConfig, SettingsSound, Asked, After,
    Kept
<1>k. CASE Probe
  <2>1. pc = "probe" /\ UNCHANGED <<settings, live>> /\ job \in Prepared
    BY <1>k, <1>T DEF Probe, JobTyped
  <2>2. CASE pc' = "idle"
    BY <1>0, <1>T, <1>J, <2>1, <2>2 DEF SettingsSound, CopiesSound, LiveSound, Asked, After, Kept
  <2>3. CASE pc' = "restoreAuth" /\ job' = [job EXCEPT !.written = job.verified]
    BY <2>1, <2>3, <1>0 DEF Prepared, SettingsSound, CopiesSound, LiveSound, Asked, After, Kept
  <2>4. QED
    BY <1>k, <2>2, <2>3 DEF Probe
<1>l. CASE RestoreAuth
  BY <1>l, <1>T, <1>0 DEF RestoreAuth, Files, SettingsSound, CopiesSound, LiveSound, Asked, After, Kept
<1>m. CASE RestoreConfig
  BY <1>m, <1>T, <1>0 DEF RestoreConfig, Files, CopiesSound, LiveSound, GoodLive, GoodConfig, Kept,
    After, SettingsSound, Asked
<1>n. CASE RestoreSettings
  <2>1. /\ pc = "restoreSettings" /\ pc' = "idle" /\ UNCHANGED live /\ job \in Undoing
        /\ settings' \in {job.original, settings}
        /\ "incomplete" \in mishaps' \/ (job.complete /\ settings' = job.original)
    BY <1>n, <1>T DEF RestoreSettings, JobTyped
  <2>2. GoodSettings(settings')
    BY <1>0, <2>1 DEF SettingsSound, After
  <2>3. IdleSound'
    <3>1. CASE "incomplete" \in mishaps'
      BY <3>1 DEF IdleSound, Apart
    <3>2. CASE job.complete /\ settings' = job.original
      BY <1>0, <2>1, <3>2, <1>I DEF SettingsSound, LiveSound, After, Undoing
    <3>3. QED
      BY <2>1, <3>1, <3>2
  <2>4. QED
    BY <1>0, <2>1, <2>2, <2>3 DEF SettingsSound, CopiesSound, LiveSound, Asked, After, Kept
<1>o. CASE Killed
  <2>1. /\ pc \in {"begin", "preflight", "snapshot", "switch", "save", "check", "probe"}
             \/ "killed" \in mishaps'
        /\ pc' = "idle" /\ UNCHANGED <<settings, live>>
    BY <1>o DEF Killed
  <2>2. IdleSound'
    <3>1. CASE "killed" \in mishaps'
      BY <3>1 DEF IdleSound, Apart
    <3>2. CASE pc \in {"begin", "preflight", "snapshot", "switch", "save", "check", "probe"}
      BY <1>0, <3>2, <1>T, <1>J, <2>1 DEF SettingsSound, LiveSound, Asked, After
    <3>3. QED
      BY <2>1, <3>1, <3>2
  <2>3. QED
    BY <1>0, <2>1, <2>2 DEF SettingsSound, CopiesSound, LiveSound, Asked, After, Kept
<1>p. CASE CodexStarts \/ CodexStops \/ UNCHANGED vars
  BY <1>p, <1>0 DEF CodexStarts, CodexStops, vars, IdleSound, Apart, SettingsSound, CopiesSound,
    LiveSound
<1>q. CASE Login \/ (\E e \in Entries : AddEntry(e))
  <2>1. /\ live'.config.url = live.config.url /\ live'.config.key = live.config.key
        /\ live'.auth.key = live.auth.key
        /\ UNCHANGED <<settings, pc, job>>
    BY <1>q, LoginsAreNoKeys
  <2>2. \A p : GoodLive(p, live') <=> GoodLive(p, live)
    BY <2>1 DEF GoodLive, GoodConfig, GoodAuth
  <2>3. IdleSound' <=> IdleSound
    BY <1>q, <2>1, <2>2 DEF Login, AddEntry, Raced, Apart, IdleSound
  <2>4. QED
    BY <1>0, <2>1, <2>2, <2>3 DEF SettingsSound, CopiesSound, LiveSound, GoodConfig, GoodAuth
<1>z. QED
  BY <1>a, <1>b, <1>c, <1>d, <1>e, <1>f, <1>g, <1>h, <1>i, <1>j, <1>k, <1>l, <1>m, <1>n, <1>o,
     <1>p, <1>q DEF Next, Advance
----
(* The user's data stay. *)

(* While copies are kept, whatever is written to the live files counts as  *)
(* a race.                                                                 *)
LEMMA Undisturbed ==
  ASSUME Unraced', Login \/ (\E e \in Entries : AddEntry(e))
  PROVE  /\ pc \in {"idle", "begin", "preflight", "snapshot"}
         /\ pc # "idle" => job.target # job.previous
BY DEF Unraced, Login, AddEntry, Raced, Exposed

LEMMA CopiesStep ==
  ASSUME Typed, CopiesTrue, [Next]_vars, Unraced'
  PROVE  CopiesTrue'
<1> USE DEF Over, Goto, outside_vars
<1>0. JobTyped
  BY DEF Typed
<1>a. CASE \E target \in Profiles : Ask(target)
  BY <1>a DEF Ask, CopiesTrue, Kept, After
<1>b. CASE Begin \/ Preflight
  BY <1>b DEF Begin, Preflight, CopiesTrue, Kept, After
<1>c. CASE Snapshot
  BY <1>c DEF Snapshot, CopiesTrue, Kept, After
<1>d. CASE Switch
  <2>1. pc = "switch" /\ UNCHANGED live
    BY <1>d DEF Switch
  <2>2. CASE pc' = "idle"
    BY <2>2 DEF CopiesTrue, Kept, After
  <2>3. CASE pc' = "save"
    BY <1>d, <2>3, <2>1 DEF Switch, CopiesTrue, Kept, After
  <2>4. QED
    BY <1>d, <2>2, <2>3 DEF Switch
<1>e. CASE Save
  BY <1>e DEF Save, CopiesTrue, Kept, After
<1>f. CASE Apply
  <2>1. pc = "apply" /\ UNCHANGED live
    BY <1>f DEF Apply
  <2>2. CASE pc' = "restoreAuth" /\ UNCHANGED job
    BY <2>1, <2>2 DEF CopiesTrue, Kept, After
  <2>3. CASE pc' = "auth"
    BY <1>f, <2>3, <2>1 DEF Apply, CopiesTrue, Kept, After
  <2>4. QED
    BY <1>f, <2>2, <2>3 DEF Apply
<1>g. CASE WriteAuth
  BY <1>g DEF WriteAuth, CopiesTrue, Kept, After
<1>h. CASE WriteConfig
  BY <1>h DEF WriteConfig, CopiesTrue, Kept, After
<1>i. CASE Check
  BY <1>i DEF Check, CopiesTrue, Kept, After
<1>j. CASE RollBack
  BY <1>j DEF RollBack, CopiesTrue, Kept, After
<1>k. CASE Probe
  <2>1. pc = "probe" /\ job \in Prepared
    BY <1>k, <1>0 DEF Probe, JobTyped
  <2>2. CASE pc' = "idle"
    BY <2>2 DEF CopiesTrue, Kept, After
  <2>3. CASE pc' = "restoreAuth" /\ job' = [job EXCEPT !.written = job.verified]
    BY <2>1, <2>3 DEF Prepared, CopiesTrue, Kept, After
  <2>4. QED
    BY <1>k, <2>2, <2>3 DEF Probe
<1>l. CASE RestoreAuth
  BY <1>l DEF RestoreAuth, CopiesTrue, Kept, After
<1>m. CASE RestoreConfig
  BY <1>m DEF RestoreConfig, CopiesTrue, Kept, After
<1>n. CASE RestoreSettings \/ Killed
  BY <1>n DEF RestoreSettings, Killed, CopiesTrue, Kept, After
<1>o. CASE CodexStarts \/ CodexStops \/ UNCHANGED vars
  BY <1>o DEF CodexStarts, CodexStops, vars, CopiesTrue
<1>p. CASE Login \/ (\E e \in Entries : AddEntry(e))
  BY <1>p, Undisturbed DEF Login, AddEntry, CopiesTrue, Kept, After
<1>z. QED
  BY <1>a, <1>b, <1>c, <1>d, <1>e, <1>f, <1>g, <1>h, <1>i, <1>j, <1>k, <1>l, <1>m, <1>n, <1>o,
     <1>p DEF Next, Advance

LEMMA EntriesStep ==
  ASSUME Typed, CopiesTrue, EntriesKept, [Next]_vars, Unraced'
  PROVE  EntriesKept'
<1> USE DEF Over, Goto, outside_vars
<1>0. JobTyped /\ live \in Files /\ settings \in Settings
  BY DEF Typed, TypeOK
<1>a. CASE (\E target \in Profiles : Ask(target)) \/ Begin \/ Preflight
  BY <1>a DEF Ask, Begin, Preflight, EntriesKept, Kept, After
<1>b. CASE Snapshot \/ Switch
  BY <1>b DEF Snapshot, Switch, EntriesKept, Kept, After
<1>c. CASE Save
  BY <1>c DEF Save, EntriesKept, Kept, After
<1>d. CASE Apply
  <2>1. pc = "apply" /\ UNCHANGED <<live, added>> /\ job \in Armed
    BY <1>d, <1>0 DEF Apply, JobTyped
  <2>2. CASE pc' = "restoreAuth" /\ UNCHANGED job
    BY <2>1, <2>2 DEF EntriesKept, Kept, After
  <2>3. CASE pc' = "auth"
    <3>1. PICK c : c = TargetConfig(job.target, settings.profile[job.target])
      OBVIOUS
    <3>2. job'.verified = job.verified /\ job'.config = c
      BY <1>d, <2>3, <3>1 DEF Apply
    <3>3. settings.profile[job.target] \in Files /\ job.target \in Profiles
      BY <1>0, <2>1 DEF Armed, Settings
    <3>4. live.config.entries \subseteq c.entries
      BY <1>0, <3>1, <3>3, Targeting
    <3>5. QED
      BY <2>1, <2>3, <3>2, <3>4 DEF EntriesKept, Kept, After
  <2>4. QED
    BY <1>d, <2>2, <2>3 DEF Apply
<1>e. CASE WriteAuth
  BY <1>0, <1>e DEF WriteAuth, Files, EntriesKept, Kept, After
<1>f. CASE WriteConfig
  BY <1>0, <1>f DEF WriteConfig, Files, EntriesKept, Kept, After
<1>g. CASE Check
  BY <1>g DEF Check, EntriesKept, Kept, After
<1>h. CASE RollBack
  BY <1>h DEF RollBack, CopiesTrue, Kept, After, EntriesKept
<1>i. CASE Probe
  <2>1. pc = "probe" /\ UNCHANGED <<live, added>> /\ job \in Prepared
    BY <1>i, <1>0 DEF Probe, JobTyped
  <2>2. CASE pc' = "idle"
    BY <2>1, <2>2 DEF EntriesKept, Kept, After
  <2>3. CASE pc' = "restoreAuth" /\ job' = [job EXCEPT !.written = job.verified]
    BY <2>1, <2>3 DEF Prepared, EntriesKept, Kept, After
  <2>4. QED
    BY <1>i, <2>2, <2>3 DEF Probe
<1>j. CASE RestoreAuth
  BY <1>0, <1>j DEF RestoreAuth, Files, EntriesKept, Kept, After
<1>k. CASE RestoreConfig
  BY <1>0, <1>k DEF RestoreConfig, Files, CopiesTrue, Kept, After, EntriesKept
<1>l. CASE RestoreSettings \/ Killed
  BY <1>l DEF RestoreSettings, Killed, EntriesKept, Kept, After
<1>m. CASE CodexStarts \/ CodexStops \/ UNCHANGED vars
  BY <1>m DEF CodexStarts, CodexStops, vars, EntriesKept
<1>n. CASE Login \/ (\E e \in Entries : AddEntry(e))
  <2>1. pc \in {"idle", "begin", "preflight", "snapshot"} /\ pc' = pc
    BY <1>n, Undisturbed DEF Login, AddEntry
  <2>2. added' \subseteq live'.config.entries
    <3>1. CASE Login
      BY <1>0, <3>1 DEF Login, Files, EntriesKept
    <3>2. ASSUME NEW e \in Entries, AddEntry(e) PROVE added' \subseteq live'.config.entries
      BY <1>0, <3>2 DEF AddEntry, Files, Configs, EntriesKept
    <3>3. QED
      BY <1>n, <3>1, <3>2
  <2>3. QED
    BY <2>1, <2>2 DEF EntriesKept, Kept, After
<1>z. QED
  BY <1>a, <1>b, <1>c, <1>d, <1>e, <1>f, <1>g, <1>h, <1>i, <1>j, <1>k, <1>l, <1>m, <1>n
  DEF Next, Advance
(* What a switch from the files l and the settings s to the settings n     *)
(* must have for the last login to stay.                                   *)
LEMMA NextStores ==
  ASSUME NEW s \in Settings, NEW n \in Settings, NEW l, NEW last,
         Latest(s, l, last), PureStoresNone(n),
         \A p \in Profiles \ {s.active} : n.profile[p].auth.login = s.profile[p].auth.login,
         s.active \notin PureApi => n.profile[s.active].auth.login = l.auth.login
  PROVE  Stores(n, last)
<1>1. s.active \in Profiles
  BY DEF Settings
<1>2. CASE s.active \notin PureApi /\ l.auth.login = last
  BY <1>1, <1>2 DEF Stores
<1>3. CASE ~(s.active \notin PureApi /\ l.auth.login = last)
  <2>1. PICK p \in Profiles \ PureApi : s.profile[p].auth.login = last
    BY <1>3 DEF Latest, Stores
  <2>2. p # s.active
    BY <1>3, <2>1 DEF Latest
  <2>3. QED
    BY <2>1, <2>2 DEF Stores
<1>4. QED
  BY <1>2, <1>3

LEMMA LoginsStep ==
  ASSUME Typed, KeysHeld, CopiesTrue, LoginsKept, [Next]_vars, Bearable'
  PROVE  LoginsKept'
<1> USE DEF Over, Goto, outside_vars
<1>0. /\ JobTyped /\ live \in Files /\ settings \in Settings /\ settings.active \in Profiles
      /\ newest \in Nat /\ newest # 0
  BY BoundsAssumption DEF Typed, TypeOK, Settings
<1>1. SettingsSound /\ CopiesSound /\ LiveSound /\ Unraced' /\ "resumed" \notin mishaps'
  BY MishapsStay DEF KeysHeld, Promising, Bearable, Unraced
<1>2. UNCHANGED <<settings, live, newest>> /\ Latest(settings, live, newest)
        => /\ Latest(settings, live, newest)'
           /\ Stores(settings', newest') \/ live'.auth.login = newest'
  BY DEF Latest
<1>3. ASSUME UNCHANGED <<settings, live, newest>>, Latest(settings, live, newest), pc' = "idle"
      PROVE  LoginsKept'
  BY <1>2, <1>3 DEF LoginsKept, Asked, After, Kept
<1>a. ASSUME NEW target \in Profiles, Ask(target) PROVE LoginsKept'
  <2>0. PICK s : s = Normalized([settings EXCEPT !.active = target])
    OBVIOUS
  <2>1. PICK b \in BOOLEAN :
          /\ job' = [target |-> target, previous |-> settings.active,
                     next |-> IF b THEN s ELSE Normalized(Backfill(s, settings.active))]
          /\ b => target # settings.active
    <3>1. \/ job' = [target |-> target, previous |-> settings.active,
                     next |-> Normalized(Backfill(s, settings.active))]
          \/ /\ job' = [target |-> target, previous |-> settings.active, next |-> s]
             /\ (IF target = settings.active THEN {"blind"} ELSE {}) \subseteq mishaps'
      BY <1>a, <2>0 DEF Ask
    <3> "blind" \notin mishaps'
      BY DEF Bearable
    <3>2. QED
      BY <3>1, Zenon
  <2>2. PICK n : n = IF b THEN s ELSE Normalized(Backfill(s, settings.active))
    OBVIOUS
  <2>3. pc = "idle" /\ pc' = "begin" /\ UNCHANGED <<settings, live, newest>>
    BY <1>a DEF Ask
  <2>4. Latest(settings, live, newest)
    BY <1>a, <1>1, <2>3 DEF Ask, Resumed, LoginsKept
  <2>5. /\ n \in Settings
        /\ \A p \in Profiles \ {settings.active} :
             n.profile[p].auth.login = settings.profile[p].auth.login
        /\ n.profile[settings.active].auth.login =
             IF b \/ settings.active \in PureApi
             THEN settings.profile[settings.active].auth.login ELSE live.auth.login
    BY <1>0, <2>0, <2>2, Asking
  <2>6. PureStoresNone(n)
    BY <2>4, <2>5 DEF Latest, PureStoresNone, Profiles
  <2>7. job'.next = n /\ job'.target = target /\ job'.previous = settings.active
    BY <2>1, <2>2
  <2>8. QED
    BY <2>1, <2>3, <2>4, <2>5, <2>6, <2>7 DEF LoginsKept, Asked, After, Kept
<1>b. CASE Begin \/ Preflight
  BY <1>3, <1>b DEF Begin, Preflight, LoginsKept, Asked, After, Kept
<1>c. CASE Snapshot
  <2>1. pc = "snapshot" /\ UNCHANGED <<settings, live, newest>>
    BY <1>c DEF Snapshot
  <2>2. CASE pc' = "idle"
    BY <1>3, <2>1, <2>2 DEF LoginsKept, Asked
  <2>3. CASE job' = [target |-> job.target, previous |-> job.previous, next |-> job.next,
                     original |-> settings, verified |-> live] /\ pc' = "switch"
    BY <2>1, <2>3 DEF LoginsKept, Asked, After, Kept
  <2>4. QED
    BY <1>c, <2>2, <2>3 DEF Snapshot
<1>d. CASE Switch
  <2>1. pc = "switch" /\ UNCHANGED <<settings, live, newest>> /\ job \in Copying
    BY <1>d, <1>0 DEF Switch, JobTyped
  <2>2. CASE pc' = "idle"
    BY <1>3, <2>1, <2>2 DEF LoginsKept, Asked
  <2>3. CASE pc' = "save"
    <3>1. PICK n : n = IF job.target = job.previous THEN job.next
                       ELSE Backfill(job.next, job.previous)
      OBVIOUS
    <3>2. job' = [target |-> job.target, previous |-> job.previous, next |-> n,
                  original |-> settings, verified |-> job.verified, written |-> live]
      BY <1>d, <2>3, <3>1 DEF Switch
    <3>3. /\ job.next \in Settings /\ job.previous \in Profiles
          /\ job.previous = settings.active /\ job.original = settings
      BY <1>1, <2>1 DEF Copying, SettingsSound, Asked
    <3>4. /\ Latest(settings, live, newest) /\ Latest(job.original, job.verified, newest)
          /\ PureStoresNone(job.next)
          /\ \A p \in Profiles \ {job.previous} :
               job.next.profile[p].auth.login = settings.profile[p].auth.login
          /\ job.target = job.previous /\ job.previous \notin PureApi =>
               job.next.profile[job.previous].auth.login = live.auth.login
      BY <2>1 DEF LoginsKept, Asked, Kept
    <3>5. /\ n \in Settings
          /\ \A p \in Profiles \ {job.previous} :
               n.profile[p].auth.login = settings.profile[p].auth.login
          /\ job.previous \notin PureApi => n.profile[job.previous].auth.login = live.auth.login
          /\ job.previous \in PureApi =>
               n.profile[job.previous].auth.login = job.next.profile[job.previous].auth.login
      <4>1. CASE job.target = job.previous
        BY <3>1, <3>3, <3>4, <4>1
      <4>2. CASE job.target # job.previous
        <5>1. n = Backfill(job.next, job.previous)
          BY <3>1, <4>2
        <5>2. QED
          BY <1>0, <3>3, <3>4, <5>1, TakingBackLive
      <4>3. QED
        BY <4>1, <4>2
    <3>6. PureStoresNone(n)
      BY <3>3, <3>4, <3>5 DEF Latest, PureStoresNone, Profiles
    <3>7. Stores(n, newest)
      BY <1>0, <3>3, <3>4, <3>5, <3>6, NextStores
    <3>8. QED
      BY <2>1, <2>3, <3>2, <3>3, <3>4, <3>6, <3>7 DEF LoginsKept, Asked, After, Kept
  <2>4. QED
    BY <1>d, <2>2, <2>3 DEF Switch
<1>e. CASE Save
  <2>1. pc = "save" /\ UNCHANGED <<live, newest>>
    BY <1>e DEF Save
  <2>2. CASE settings' = job.next /\ pc' = "apply" /\ UNCHANGED job
    BY <2>1, <2>2 DEF LoginsKept, Asked, After, Kept
  <2>3. CASE pc' = "idle" /\ UNCHANGED settings
    BY <1>3, <2>1, <2>3 DEF LoginsKept, Asked
  <2>4. CASE pc' = "idle" /\ settings' = job.next /\ mishaps' = mishaps \cup {"unread"}
    BY <2>1, <2>4 DEF LoginsKept, Apart, Asked, After, Kept
  <2>5. QED
    BY <1>e, <2>2, <2>3, <2>4 DEF Save
<1>f. CASE Apply
  <2>1. pc = "apply" /\ UNCHANGED <<settings, live, newest>> /\ job \in Armed
    BY <1>f, <1>0 DEF Apply, JobTyped
  <2>2. CASE pc' = "restoreAuth" /\ UNCHANGED job
    BY <2>1, <2>2 DEF LoginsKept, Asked, After, Kept
  <2>3. CASE pc' = "auth"
    <3>1. PICK a, c, w : /\ a = TargetAuth(job.target, settings.profile[job.target])
                         /\ c = TargetConfig(job.target, settings.profile[job.target])
                         /\ w = WritesAuth(job.target, settings.profile[job.target])
      OBVIOUS
    <3>2. job' = [target |-> job.target, previous |-> job.previous,
                  original |-> job.original, verified |-> job.verified, written |-> job.written,
                  old |-> live, auth |-> a, writesAuth |-> w, config |-> c]
      BY <1>f, <2>3, <3>1 DEF Apply
    <3>3. /\ GoodFiles(job.target, settings.profile[job.target])
          /\ settings.profile[job.target] \in Files /\ job.target \in Profiles
      BY <1>0, <1>1, <2>1 DEF SettingsSound, GoodSettings, Armed, Settings
    <3>4. job.target \notin PureApi /\ settings.profile[job.target].auth.login = newest =>
            w /\ a.login = newest
      BY <1>0, <3>1, <3>3, Targeting
    <3>5. QED
      BY <2>1, <2>3, <3>2, <3>4 DEF LoginsKept, Asked, After, Kept
  <2>4. QED
    BY <1>f, <2>2, <2>3 DEF Apply
<1>g. CASE WriteAuth
  <2>1. pc = "auth" /\ UNCHANGED <<settings, newest, job>>
    BY <1>g DEF WriteAuth
  <2>2. CASE pc' = "restoreAuth"
    BY <2>1, <2>2 DEF LoginsKept, Asked, After, Kept
  <2>3. CASE pc' = "config" /\ live' = IF job.writesAuth THEN [live EXCEPT !.auth = job.auth]
                                       ELSE live
    BY <1>0, <2>3, <2>1 DEF Files, LoginsKept, Asked, After, Kept
  <2>4. QED
    BY <1>g, <2>2, <2>3 DEF WriteAuth
<1>h. CASE WriteConfig
  BY <1>h, <1>0 DEF WriteConfig, Files, LoginsKept, Asked, After, Kept
<1>i. CASE Check
  BY <1>i DEF Check, LoginsKept, Asked, After, Kept
<1>j. CASE RollBack
  BY <1>j DEF RollBack, LoginsKept, Asked, After, Kept
<1>s. ASSUME pc \in {"check", "probe"} PROVE Latest(settings, live, newest)
  BY <1>1, <1>s DEF SettingsSound, LoginsKept, Latest, After
<1>k. CASE Probe
  <2>1. pc = "probe" /\ UNCHANGED <<settings, live, newest>> /\ job \in Prepared
    BY <1>k, <1>0 DEF Probe, JobTyped
  <2>2. CASE pc' = "idle"
    BY <1>3, <1>s, <2>1, <2>2
  <2>3. CASE pc' = "restoreAuth" /\ job' = [job EXCEPT !.written = job.verified]
    BY <2>1, <2>3 DEF Prepared, LoginsKept, Asked, After, Kept
  <2>4. QED
    BY <1>k, <2>2, <2>3 DEF Probe
<1>l. CASE RestoreAuth
  BY <1>l DEF RestoreAuth, LoginsKept, Asked, After, Kept
<1>m. CASE RestoreConfig
  BY <1>m DEF RestoreConfig, LoginsKept, Asked, After, Kept
<1>n. CASE RestoreSettings
  <2>1. /\ pc = "restoreSettings" /\ pc' = "idle" /\ UNCHANGED <<live, newest>>
        /\ "incomplete" \in mishaps' \/ (job.complete /\ settings' = job.original)
    BY <1>n DEF RestoreSettings
  <2>2. job.complete /\ settings' = job.original
    BY <2>1 DEF Bearable
  <2>3. live = job.verified /\ Latest(job.original, job.verified, newest)
    BY <2>1, <2>2 DEF CopiesTrue, LoginsKept, Kept, After
  <2>4. /\ Latest(settings', live', newest')
        /\ Stores(settings', newest') \/ live'.auth.login = newest'
    BY <2>1, <2>2, <2>3 DEF Latest
  <2>5. QED
    BY <2>1, <2>4 DEF LoginsKept, Asked, After, Kept
<1>o. CASE Killed
  <2>1. /\ pc' = "idle" /\ UNCHANGED <<settings, live, newest>> /\ pc \in Asked \cup After
        /\ pc \in Asked \cup {"check", "probe"} \/ "killed" \in mishaps'
    BY <1>o DEF Killed, Typed, TypeOK, Asked, After
  <2>2. CASE pc \in Asked \cup {"check", "probe"}
    BY <1>s, <2>2, <1>3, <2>1 DEF LoginsKept
  <2>3. CASE pc \in After /\ "killed" \in mishaps'
    BY <2>1, <2>3 DEF LoginsKept, Apart, Asked, After, Kept
  <2>4. QED
    BY <2>1, <2>2, <2>3
<1>p. CASE CodexStarts \/ CodexStops \/ UNCHANGED vars
  BY <1>p DEF CodexStarts, CodexStops, vars, LoginsKept, Apart
<1>q. CASE Login
  <2>1. /\ pc \in {"idle", "begin", "preflight", "snapshot"}
        /\ pc # "idle" => job.target # job.previous
    BY <1>1, <1>q, Undisturbed
  <2>2. UNCHANGED <<settings, pc, job>> /\ newest' = newest + 1 /\ live'.auth.login = newest'
    BY <1>0, <1>q DEF Login, Files, Auths
  <2>3. ~Apart' => ~Apart
    BY MishapsStay DEF Apart
  <2>4. ASSUME pc = "idle" => ~Apart PROVE Latest(settings, live', newest')
    BY <1>1, <2>1, <2>4, <1>q, ProfilesAssumption, <2>2 DEF LiveSound, IdleSound, LoginsKept, Latest,
      Asked, Login, GoodLive, GoodConfig, Endpoint
  <2>5. QED
    BY <2>1, <2>2, <2>3, <2>4 DEF LoginsKept, Asked, After, Kept
<1>r. CASE \E e \in Entries : AddEntry(e)
  <2>1. UNCHANGED <<settings, pc, job, newest>> /\ live'.auth = live.auth
    BY <1>0, <1>r DEF AddEntry, Files
  <2>2. pc \in {"idle", "begin", "preflight", "snapshot"}
    BY <1>1, <1>r, Undisturbed
  <2>3. ~Apart' => ~Apart
    BY MishapsStay DEF Apart
  <2>4. Latest(settings, live', newest) <=> Latest(settings, live, newest)
    BY <2>1 DEF Latest
  <2>5. QED
    BY <2>1, <2>2, <2>3, <2>4 DEF LoginsKept, Asked, After, Kept
<1>z. QED
  BY <1>a, <1>b, <1>c, <1>d, <1>e, <1>f, <1>g, <1>h, <1>i, <1>j, <1>k, <1>l, <1>m, <1>n, <1>o,
     <1>p, <1>q, <1>r DEF Next, Advance

LEMMA DataInit == Init => DataHeld
<1> SUFFICES ASSUME Init PROVE DataHeld
  OBVIOUS
<1>1. pc = "idle" /\ added = {} /\ newest = 1 /\ live.auth.login = 1
  BY DEF Init
<1>2. settings.active \notin PureApi /\ settings.active \in Profiles
      /\ \A p \in Profiles : settings.profile[p].auth.login = 0
  BY Beginning, ProfilesAssumption DEF Profiles
<1>3. Latest(settings, live, newest)
  BY <1>1, <1>2 DEF Latest, PureStoresNone, Profiles
<1>4. QED
  BY <1>1, <1>3 DEF DataHeld, CopiesTrue, EntriesKept, LoginsKept, Asked, After, Kept

----
(* The theorems. *)

LEMMA Invariance == Spec => []IInv
<1>1. Init => IInv
  BY TypedInit, KeysInit, DataInit DEF IInv
<1>2. IInv /\ [Next]_vars => IInv'
  <2> SUFFICES ASSUME IInv, [Next]_vars PROVE IInv'
    OBVIOUS
  <2>1. Typed' /\ KeysHeld'
    BY TypedStep, KeysStep DEF IInv
  <2>2. DataHeld'
    BY MishapsStay, CopiesStep, EntriesStep, LoginsStep DEF Unraced, Bearable, IInv, DataHeld
  <2>3. QED
    BY <2>1, <2>2 DEF IInv
<1>3. QED
  BY <1>1, <1>2, PTL DEF Spec

(* Every reachable state of the switch is well typed. *)
THEOREM TypeCorrect == Spec => []TypeOK
BY Invariance, PTL DEF IInv, Typed

(* However many profiles there are, whatever fails and is killed: until a  *)
(* switch begins with settings and files of two profiles, config.toml and  *)
(* every stored profile have a key only with the endpoint of its provider, *)
(* and auth.json has none for the official one, but after a killed write   *)
(* or an incomplete recovery.                                              *)
THEOREM KeysStay == Spec => []KeysStayWithTheirProvider
<1>1. IInv => KeysStayWithTheirProvider
  <2> SUFFICES ASSUME IInv, Promising
               PROVE  /\ live.config.key = live.config.url
                      /\ \A p \in Profiles \ Official :
                           settings.profile[p].config.url = p /\ ApiKey(settings.profile[p]) = p
                      /\ pc = "idle" /\ live.config.url = None
                           /\ mishaps \cap {"killed", "incomplete"} = {} => live.auth.key = None
    BY DEF KeysStayWithTheirProvider
  <2>1. SettingsSound /\ LiveSound
    BY DEF IInv, KeysHeld
  <2>2. ASSUME pc = "idle", live.config.url = None, mishaps \cap {"killed", "incomplete"} = {}
        PROVE  live.auth.key = None
    <3>1. PICK p \in Profiles : GoodLive(p, live)
      BY <2>1, <2>2 DEF LiveSound, IdleSound
    <3>2. p \in Official
      BY <2>2, <3>1, ProfilesAssumption DEF GoodLive, GoodConfig, Endpoint
    <3>3. QED
      BY <3>1, <3>2, ProfilesAssumption DEF GoodLive, GoodAuth
  <2>3. ASSUME NEW p \in Profiles \ Official
        PROVE  settings.profile[p].config.url = p /\ ApiKey(settings.profile[p]) = p
    BY <2>1, ProfilesAssumption DEF SettingsSound, GoodSettings, GoodFiles, GoodConfig, Endpoint, ApiKey
  <2>4. QED
    BY <2>1, <2>2, <2>3 DEF LiveSound
<1>2. QED
  BY <1>1, Invariance, PTL

(* Every entry the user added is kept, whatever fails and is killed; the   *)
(* last login too, until a recovery is incomplete or a switch begins with  *)
(* settings and files of two profiles: as long as nobody writes to the     *)
(* live files while a switch has its copies.                               *)
THEOREM DataIsKept == Spec => []UsersDataIsKept
<1>1. IInv => UsersDataIsKept
  <2> SUFFICES ASSUME IInv
               PROVE  /\ Unraced => added \subseteq live.config.entries
                      /\ Bearable =>
                           \/ live.auth.login = newest
                           \/ \E p \in Profiles : settings.profile[p].auth.login = newest
    BY DEF UsersDataIsKept, Unraced, Bearable
  <2>1. Unraced => added \subseteq live.config.entries
    BY DEF IInv, DataHeld, EntriesKept
  <2>2. ASSUME Bearable
        PROVE  \/ live.auth.login = newest
               \/ \E p \in Profiles : settings.profile[p].auth.login = newest
    BY <2>2 DEF IInv, DataHeld, Typed, TypeOK, Asked, After, LoginsKept, Latest, Stores
  <2>3. QED
    BY <2>1, <2>2
<1>2. QED
  BY <1>1, Invariance, PTL

(* A switch that reports success has made settings and live files the      *)
(* target's, one that reports an error without a recovery has left the     *)
(* live files alone, and the settings too if it could not save them; one   *)
(* that reports that it restored both has.                                 *)
THEOREM ReportsAreTrue == Spec => ReportIsTrue
<1>1. IInv /\ [Next]_vars =>
        [pc # "idle" /\ pc' = "idle" /\ Promising =>
           /\ outcome' = "switched" => settings.active = job.target /\ FilesOf(job.target, live)
           /\ outcome' = "unchanged" => settings' = settings /\ settings.active = job.previous
           /\ outcome' \in {"unchanged", "unread"} => FilesOf(job.previous, live)
           /\ outcome' = "restored" =>
                settings' = job.original /\ (mishaps = {} => live = job.verified)]_vars
  <2> SUFFICES ASSUME IInv, Next, pc # "idle", pc' = "idle", Promising
               PROVE  /\ outcome' = "switched" =>
                           settings.active = job.target /\ FilesOf(job.target, live)
                      /\ outcome' = "unchanged" =>
                           settings' = settings /\ settings.active = job.previous
                      /\ outcome' \in {"unchanged", "unread"} => FilesOf(job.previous, live)
                      /\ outcome' = "restored" =>
                           settings' = job.original /\ (mishaps = {} => live = job.verified)
    OBVIOUS
  <2> USE DEF Over, Goto, outside_vars
  <2>1. SettingsSound /\ LiveSound /\ (mishaps = {} => CopiesTrue)
    BY DEF IInv, KeysHeld, DataHeld, Unraced
  <2>2. \A p : GoodLive(p, live) => FilesOf(p, live)
    BY DEF GoodLive, GoodConfig, GoodAuth, FilesOf
  <2>3. CASE Probe
    BY <2>1, <2>2, <2>3 DEF Probe, SettingsSound, LiveSound, After
  <2>4. CASE RestoreSettings
    BY <2>1, <2>4 DEF RestoreSettings, CopiesTrue
  <2>5. CASE Begin \/ Preflight \/ Snapshot \/ Switch \/ Save
    BY <2>5, <2>1, <2>2 DEF Begin, Preflight, Snapshot, Switch, Save, Asked, SettingsSound, LiveSound
  <2>6. CASE \/ Apply \/ WriteAuth \/ WriteConfig \/ Check \/ RollBack \/ RestoreAuth
             \/ RestoreConfig \/ Killed
    BY <2>6 DEF Apply, WriteAuth, WriteConfig, Check, RollBack, RestoreAuth, RestoreConfig, Killed
  <2>7. CASE \/ CodexStarts \/ CodexStops \/ Login \/ (\E e \in Entries : AddEntry(e))
             \/ (\E target \in Profiles : Ask(target))
    BY <2>7 DEF CodexStarts, CodexStops, Login, AddEntry, Ask
  <2>8. QED
    BY <2>3, <2>4, <2>5, <2>6, <2>7 DEF Next, Advance
<1>2. QED
  BY <1>1, Invariance, PTL DEF Spec, ReportIsTrue

----
(* Types. *)
Texts    == Marks \cup {ToString(n) : n \in Nat}
                  \cup {ToString(<<i, n>>) : i \in Indexes, n \in Nat}
Ids      == {ToString(<<"id", i>>) : i \in Indexes} \cup {IdAt(i) : i \in Indexes} \cup {Null}
Names    == {"function", "custom", "unknown", Null}
Kinds    == {"reasoning", "message", "function_call", "custom_tool_call"}
Statuses == {"none", "in_progress", "completed", "failed"}

Items   == [kind : Kinds, call : Ids, said : Seq(Texts)]
Shown   == [kind : Kinds, call : Ids, said : Seq(Texts), done : BOOLEAN]
Outputs == [index : Nat, item : Items]
Views   == [status : Statuses, items : Seq(Shown), kept : Seq(Items)]

Created                  == [type |-> "created"]
Error                    == [type |-> "failed"]
Adding(index, kind, call) == [type |-> "added", index |-> index, kind |-> kind, call |-> call]
Telling(index, d)        == [type |-> "delta", index |-> index, said |-> d]
Closing(index, item)     == [type |-> "done", index |-> index, item |-> item]
Completing(output)       == [type |-> "completed", output |-> output]

----
(* What one event may do to what Codex has: a step of ResponsesStream, for *)
(* two values of the view.                                                 *)
Creates(v, w) == v.status = "none" /\ w.status = "in_progress" /\ w.items = v.items
Adds(v, w) ==
  /\ v.status = "in_progress" /\ w.status = "in_progress"
  /\ \E item \in Shown : ~item.done /\ item.said = <<>> /\ w.items = Append(v.items, item)
Changes(v, w) ==
  /\ v.status = "in_progress" /\ w.status = "in_progress"
  /\ \E n \in 1..Len(v.items) : \E item \in Shown :
       /\ w.items = [v.items EXCEPT ![n] = item]
       /\ ~v.items[n].done /\ item.kind = v.items[n].kind /\ item.call = v.items[n].call
       /\ \E d \in Seq(Texts) : item.said = v.items[n].said \o d
Completed(v, w) ==
  /\ v.status = "in_progress" /\ w.status = "completed" /\ w.items = v.items
  /\ \A n \in 1..Len(v.items) : v.items[n].done
Failing(v, w) == v.status \in {"none", "in_progress"} /\ w.status = "failed" /\ w.items = v.items
Legal(v, w) == Creates(v, w) \/ Adds(v, w) \/ Changes(v, w) \/ Completed(v, w) \/ Failing(v, w)

(* Reading all of out brings Codex from v to w, legally. *)
Reads(v, out, w) ==
  \E vs \in [1..(Len(out) + 1) -> Views] :
    /\ vs[1] = v /\ vs[Len(out) + 1] = w
    /\ \A n \in 1..Len(out) : vs[n + 1] = Read(vs[n], out[n]) /\ Legal(vs[n], vs[n + 1])

LEMMA ReadsNothing ==
  ASSUME NEW v \in Views
  PROVE  Reads(v, <<>>, v)
<1> DEFINE vs == [n \in 1..1 |-> v]
<1>1. Len(<<>>) = 0 /\ 1..0 = {}
  OBVIOUS
<1>2. vs \in [1..(Len(<<>>) + 1) -> Views] /\ vs[1] = v /\ vs[Len(<<>>) + 1] = v
  BY <1>1
<1> HIDE DEF vs
<1> QED BY <1>1, <1>2 DEF Reads

LEMMA ReadsOne ==
  ASSUME NEW v \in Views, NEW w \in Views, NEW x \in Views, NEW e, NEW E,
         NEW out \in Seq(E), e \in E, Reads(v, out, w), x = Read(w, e), Legal(w, x)
  PROVE  Reads(v, Append(out, e), x)
<1>1. PICK vs \in [1..(Len(out) + 1) -> Views] :
         /\ vs[1] = v /\ vs[Len(out) + 1] = w
         /\ \A n \in 1..Len(out) : vs[n + 1] = Read(vs[n], out[n]) /\ Legal(vs[n], vs[n + 1])
  BY DEF Reads
<1> DEFINE o == Append(out, e)
           k == Len(out)
           ws == [n \in 1..(Len(o) + 1) |-> IF n <= k + 1 THEN vs[n] ELSE x]
<1>2. k \in Nat /\ Len(o) = k + 1 /\ o[k + 1] = e /\ \A n \in 1..k : o[n] = out[n]
  OBVIOUS
<1> HIDE DEF o, k
<1>3. ws \in [1..(Len(o) + 1) -> Views] BY <1>2, <1>1 DEF k
<1>4. ws[1] = v /\ ws[Len(o) + 1] = x BY <1>2, <1>1 DEF k
<1>5. ASSUME NEW n \in 1..Len(o)
      PROVE  ws[n + 1] = Read(ws[n], o[n]) /\ Legal(ws[n], ws[n + 1])
  <2>1. CASE n \in 1..k
    BY <2>1, <1>2, <1>1 DEF k
  <2>2. CASE n = k + 1
    BY <2>2, <1>2, <1>1 DEF k
  <2> QED BY <2>1, <2>2, <1>2
<1> HIDE DEF ws
<1>6. Reads(v, o, x) BY <1>3, <1>4, <1>5 DEF Reads
<1> QED BY <1>6 DEF o

LEMMA ReadsOn ==
  ASSUME NEW v, NEW w, NEW E, NEW out \in Seq(E), out # <<>>, Reads(v, out, w)
  PROVE  /\ v \in Views /\ Read(v, Head(out)) \in Views
         /\ Legal(v, Read(v, Head(out)))
         /\ Reads(Read(v, Head(out)), Tail(out), w)
<1>1. PICK vs \in [1..(Len(out) + 1) -> Views] :
         /\ vs[1] = v /\ vs[Len(out) + 1] = w
         /\ \A n \in 1..Len(out) : vs[n + 1] = Read(vs[n], out[n]) /\ Legal(vs[n], vs[n + 1])
  BY DEF Reads
<1> DEFINE o == Tail(out)
           ws == [n \in 1..(Len(o) + 1) |-> vs[n + 1]]
<1>2. Len(out) \in Nat \ {0} /\ Len(o) = Len(out) - 1 /\ Head(out) = out[1]
      /\ \A n \in 1..Len(o) : o[n] = out[n + 1]
  OBVIOUS
<1>3. vs[2] = Read(v, Head(out)) /\ Legal(v, vs[2]) /\ vs[2] \in Views /\ v \in Views BY <1>1, <1>2
<1> HIDE DEF o
<1>4. ws \in [1..(Len(o) + 1) -> Views] /\ ws[1] = vs[2] /\ ws[Len(o) + 1] = w BY <1>1, <1>2
<1>5. ASSUME NEW n \in 1..Len(o)
      PROVE  ws[n + 1] = Read(ws[n], o[n]) /\ Legal(ws[n], ws[n + 1])
  BY <1>2, <1>1
<1> HIDE DEF ws
<1>6. Reads(vs[2], o, w) BY <1>4, <1>5 DEF Reads
<1> QED BY <1>3, <1>6 DEF o

LEMMA ReadsEnd ==
  ASSUME NEW v, NEW w, Reads(v, <<>>, w)
  PROVE  v = w
BY DEF Reads

----
(* The ledger: what the converter knows of the items it has opened. *)
Places == {<<"reasoning", 0>>, <<"message", 0>>} \cup {<<"tool", i>> : i \in Indexes}
Lines  == [index : Nat \cup {Null}, kind : Kinds, call : Ids, said : Seq(Texts), done : BOOLEAN]
Ledgers == [Places -> Lines]

ShownLine(line) == [kind |-> line.kind, call |-> line.call, said |-> line.said, done |-> line.done]

(* An open place has the item of its index, and every item has a place. *)
Agrees(v, ledger, n) ==
  /\ Len(v.items) = n
  /\ \A p \in Places : ledger[p].index # Null =>
       ledger[p].index \in 0..(n - 1) /\ v.items[ledger[p].index + 1] = ShownLine(ledger[p])
  /\ \A p, q \in Places : ledger[p].index # Null /\ ledger[p].index = ledger[q].index => p = q
  /\ \A k \in 0..(n - 1) : \E p \in Places : ledger[p].index = k

Plain(item) == [kind |-> item.kind, call |-> item.call, said |-> item.said]

(* The items Codex has whole. *)
DoneIn(v) == {o \in Outputs : /\ o.index + 1 \in 1..Len(v.items)
                              /\ v.items[o.index + 1].done
                              /\ o.item = Plain(v.items[o.index + 1])}

LEMMA NoneIsNoNumber == Null \notin Nat
BY StreamAssumption

(* What is in a place once d was added to it, and what Codex shows then. *)
Grown(line, d, done) ==
  [index |-> line.index, kind |-> line.kind, call |-> line.call, said |-> line.said \o d, done |-> done]
GrownItem(line, d, done) ==
  [kind |-> line.kind, call |-> line.call, said |-> line.said \o d, done |-> done]
Whole(line, d) == [kind |-> line.kind, call |-> line.call, said |-> line.said \o d]
WithWhole(outputs, line, d) == outputs \cup {[index |-> line.index, item |-> Whole(line, d)]}

LEMMA SetItems ==
  ASSUME NEW v \in Views, NEW items \in Seq(Shown)
  PROVE  LET w == [v EXCEPT !.items = items]
         IN w \in Views /\ w.items = items /\ w.status = v.status
BY DEF Views

LEMMA Says ==
  ASSUME NEW x \in Shown, NEW y
  PROVE  [x EXCEPT !.said = y] = [kind |-> x.kind, call |-> x.call, said |-> y, done |-> x.done]
BY DEF Shown

LEMMA SaysMore ==
  ASSUME NEW x \in Shown, NEW d
  PROVE  [x EXCEPT !.said = x.said \o d]
           = [kind |-> x.kind, call |-> x.call, said |-> x.said \o d, done |-> x.done]
BY Says

LEMMA OneReplaced ==
  ASSUME NEW E, NEW seq \in Seq(E), NEW at \in 1..Len(seq), NEW x \in E
  PROVE  LET other == [seq EXCEPT ![at] = x]
         IN /\ other \in Seq(E) /\ Len(other) = Len(seq) /\ other[at] = x
            /\ \A k \in 1..Len(seq) \ {at} : other[k] = seq[k]
OBVIOUS

LEMMA AddsLine ==
  ASSUME NEW v \in Views, v.status = "in_progress", NEW n \in Nat, NEW ledger \in Ledgers,
         Agrees(v, ledger, n), NEW p \in Places, ledger[p].index = Null,
         NEW kind \in Kinds, NEW call \in Ids
  PROVE  LET w == Read(v, Adding(n, kind, call))
             line == [index |-> n, kind |-> kind, call |-> call, said |-> <<>>, done |-> FALSE]
             K == [ledger EXCEPT ![p] = line]
         IN /\ w \in Views /\ Legal(v, w) /\ w.status = "in_progress"
            /\ K \in Ledgers /\ Agrees(w, K, n + 1) /\ DoneIn(w) = DoneIn(v)
<1> DEFINE w == Read(v, Adding(n, kind, call))
           item == [kind |-> kind, call |-> call, said |-> <<>>, done |-> FALSE]
           line == [index |-> n, kind |-> kind, call |-> call, said |-> <<>>, done |-> FALSE]
           K == [ledger EXCEPT ![p] = line]
<1>1. w = [v EXCEPT !.items = Append(v.items, item)]
  BY DEF Read, Adding
<1>2. item \in Shown /\ line \in Lines /\ ShownLine(line) = item /\ item.said = <<>> /\ ~item.done
  BY DEF Shown, Lines, ShownLine
<1>3. v.items \in Seq(Shown) /\ Len(v.items) = n
  BY DEF Views, Agrees
<1>4. w \in Views /\ w.status = "in_progress" /\ w.items = Append(v.items, item)
  <2> HIDE DEF item, w
  <2>1. Append(v.items, item) \in Seq(Shown) BY <1>2, <1>3
  <2> QED BY <1>1, <2>1, SetItems
<1>5. K \in Ledgers /\ K[p] = line /\ \A q \in Places \ {p} : K[q] = ledger[q]
  BY <1>2 DEF Ledgers
<1>6. Legal(v, w)
  BY <1>2, <1>4 DEF Legal, Adds
<1>7. Len(w.items) = n + 1 /\ w.items[n + 1] = item /\ \A k \in 1..n : w.items[k] = v.items[k]
  BY <1>2, <1>3, <1>4
<1>8. \A q \in Places : ledger[q].index # Null => ledger[q].index \in 0..(n - 1)
  BY DEF Agrees
<1> HIDE DEF w, K, line, item
<1>9. Agrees(w, K, n + 1)
  <2>1. ASSUME NEW q \in Places, K[q].index # Null
        PROVE  K[q].index \in 0..n /\ w.items[K[q].index + 1] = ShownLine(K[q])
    <3>1. CASE q = p
      BY <3>1, <1>5, <1>7, <1>2 DEF line
    <3>2. CASE q # p
      <4>1. K[q] = ledger[q] BY <3>2, <1>5
      <4>2. ledger[q].index \in 0..(n - 1) /\ v.items[ledger[q].index + 1] = ShownLine(ledger[q])
        BY <4>1, <2>1 DEF Agrees
      <4>3. ledger[q].index + 1 \in 1..n BY <4>2
      <4> QED BY <4>1, <4>2, <4>3, <1>7
    <3> QED BY <3>1, <3>2
  <2>2. ASSUME NEW q \in Places, NEW r \in Places, K[q].index # Null, K[q].index = K[r].index
        PROVE  q = r
    <3>1. K[p].index = n BY <1>5 DEF line
    <3>2. \A x \in Places \ {p} : K[x].index # n
      BY <1>5, <1>8, NoneIsNoNumber
    <3>3. CASE q # p /\ r # p BY <3>3, <1>5, <2>2 DEF Agrees
    <3> QED BY <3>1, <3>2, <3>3, <2>2
  <2>3. ASSUME NEW k \in 0..n
        PROVE  \E q \in Places : K[q].index = k
    <3>1. CASE k = n BY <3>1, <1>5 DEF line
    <3>2. CASE k # n
      <4>1. PICK q \in Places : ledger[q].index = k BY <3>2, <2>3 DEF Agrees
      <4>2. q # p BY <4>1, NoneIsNoNumber
      <4> QED BY <4>1, <4>2, <1>5
    <3> QED BY <3>1, <3>2
  <2> DEFINE m == n + 1
  <2>4. m - 1 = n /\ Len(w.items) = m BY <1>7
  <2> HIDE DEF m
  <2>5. Agrees(w, K, m) BY <2>1, <2>2, <2>3, <2>4 DEF Agrees
  <2> QED BY <2>5 DEF m
<1>10. DoneIn(w) = DoneIn(v)
  <2>1. ASSUME NEW o \in Outputs
        PROVE  (o.index + 1 \in 1..Len(w.items) /\ w.items[o.index + 1].done
                  /\ o.item = Plain(w.items[o.index + 1]))
               <=> (o.index + 1 \in 1..Len(v.items) /\ v.items[o.index + 1].done
                  /\ o.item = Plain(v.items[o.index + 1]))
    <3>1. o.index \in Nat BY DEF Outputs
    <3>2. CASE o.index = n BY <3>2, <1>7, <1>2, <1>3
    <3>3. CASE o.index # n BY <3>1, <3>3, <1>7, <1>3
    <3> QED BY <3>2, <3>3
  <2> QED BY <2>1 DEF DoneIn
<1> QED BY <1>4, <1>5, <1>6, <1>9, <1>10 DEF w, K, line

(* A place of an item that is not opened yet says nothing of the view. *)
LEMMA OtherLine ==
  ASSUME NEW v \in Views, NEW n \in Nat, NEW ledger \in Ledgers, Agrees(v, ledger, n),
         NEW p \in Places, ledger[p].index = Null, NEW line \in Lines, line.index = Null
  PROVE  LET K == [ledger EXCEPT ![p] = line] IN K \in Ledgers /\ Agrees(v, K, n)
<1> DEFINE K == [ledger EXCEPT ![p] = line]
<1>1. K \in Ledgers /\ K[p] = line /\ \A q \in Places \ {p} : K[q] = ledger[q] BY DEF Ledgers
<1> HIDE DEF K
<1>2. \A k \in 0..(n - 1) : \E q \in Places : K[q].index = k
  BY <1>1, NoneIsNoNumber DEF Agrees
<1>3. \A q \in Places : K[q].index # Null =>
       K[q].index \in 0..(n - 1) /\ v.items[K[q].index + 1] = ShownLine(K[q])
  BY <1>1 DEF Agrees
<1>4. \A q, r \in Places : K[q].index # Null /\ K[q].index = K[r].index => q = r
  BY <1>1 DEF Agrees
<1> QED BY <1>1, <1>2, <1>3, <1>4 DEF Agrees, K

(* One item changes, as its line does. *)
LEMMA LineChanges ==
  ASSUME NEW v \in Views, v.status = "in_progress", NEW n \in Nat, NEW ledger \in Ledgers,
         Agrees(v, ledger, n), NEW p \in Places, ledger[p].index # Null, ~ledger[p].done,
         NEW d \in Seq(Texts), NEW done \in BOOLEAN, NEW w \in Views, w.status = "in_progress",
         w.items = [v.items EXCEPT ![ledger[p].index + 1] = GrownItem(ledger[p], d, done)]
  PROVE  LET K == [ledger EXCEPT ![p] = Grown(ledger[p], d, done)]
         IN /\ Legal(v, w) /\ K \in Ledgers /\ Agrees(w, K, n)
            /\ ledger[p].index \in 0..(n - 1) /\ v.items[ledger[p].index + 1] = ShownLine(ledger[p])
<1> DEFINE item == GrownItem(ledger[p], d, done)
           line == Grown(ledger[p], d, done)
           K == [ledger EXCEPT ![p] = line]
           at == ledger[p].index + 1
<1>1. ledger[p] \in Lines BY DEF Ledgers
<1>2. ledger[p].said \o d \in Seq(Texts) BY <1>1 DEF Lines
<1>3. item \in Shown /\ line \in Lines /\ ShownLine(line) = item /\ line.index = ledger[p].index
      /\ item.kind = ledger[p].kind /\ item.call = ledger[p].call /\ item.said = ledger[p].said \o d
  BY <1>1, <1>2 DEF Lines, Shown, ShownLine, GrownItem, Grown
<1>4. v.items \in Seq(Shown) /\ Len(v.items) = n BY DEF Views, Agrees
<1>5. ledger[p].index \in 0..(n - 1) /\ v.items[at] = ShownLine(ledger[p]) BY DEF Agrees
<1>6. at \in 1..n BY <1>5
<1>7. /\ v.items[at].kind = ledger[p].kind /\ v.items[at].call = ledger[p].call
      /\ v.items[at].said = ledger[p].said /\ ~v.items[at].done
  BY <1>5, <1>1 DEF ShownLine, Lines
<1>8. w.items = [v.items EXCEPT ![at] = item] OBVIOUS
<1>9. K \in Ledgers /\ K[p] = line /\ \A q \in Places \ {p} : K[q] = ledger[q]
  BY <1>3 DEF Ledgers
<1> HIDE DEF item, line, K, at
<1>10. Legal(v, w)
  <2>1. /\ w.items = [v.items EXCEPT ![at] = item] /\ ~v.items[at].done
        /\ item.kind = v.items[at].kind /\ item.call = v.items[at].call
        /\ item.said = v.items[at].said \o d
    BY <1>3, <1>7, <1>8
  <2>2. at \in 1..Len(v.items) /\ item \in Shown BY <1>3, <1>4, <1>6
  <2>3. Changes(v, w) BY <2>1, <2>2 DEF Changes
  <2> QED BY <2>3 DEF Legal
<1>11. Len(w.items) = n /\ w.items[at] = item /\ \A k \in 1..n \ {at} : w.items[k] = v.items[k]
  <2>1. at \in 1..Len(v.items) BY <1>4, <1>6
  <2> QED BY <1>3, <1>4, <1>8, <2>1, OneReplaced
<1>12. Agrees(w, K, n)
  <2>1. ASSUME NEW q \in Places, K[q].index # Null
        PROVE  K[q].index \in 0..(n - 1) /\ w.items[K[q].index + 1] = ShownLine(K[q])
    <3>1. CASE q = p
      BY <3>1, <1>3, <1>5, <1>9, <1>11 DEF at
    <3>2. CASE q # p
      <4>1. K[q] = ledger[q] BY <3>2, <1>9
      <4>2. ledger[q].index \in 0..(n - 1) /\ v.items[ledger[q].index + 1] = ShownLine(ledger[q])
        BY <4>1, <2>1 DEF Agrees
      <4>3. ledger[q].index # ledger[p].index BY <4>1, <2>1, <3>2 DEF Agrees
      <4>4. ledger[q].index + 1 \in 1..n \ {at} BY <4>2, <4>3, <1>5 DEF at
      <4> QED BY <4>1, <4>2, <4>4, <1>11
    <3> QED BY <3>1, <3>2
  <2>2. \A q \in Places : K[q].index = ledger[q].index
    <3> TAKE q \in Places
    <3>1. CASE q = p BY <3>1, <1>3, <1>9
    <3>2. CASE q # p BY <3>2, <1>9
    <3> QED BY <3>1, <3>2
  <2>3. ASSUME NEW k \in 0..(n - 1) PROVE \E q \in Places : K[q].index = k
    <3>1. PICK q \in Places : ledger[q].index = k BY DEF Agrees
    <3> QED BY <3>1, <2>2
  <2>4. \A q, r \in Places : K[q].index # Null /\ K[q].index = K[r].index => q = r
    BY <2>2 DEF Agrees
  <2> QED BY <2>1, <2>3, <2>4, <1>11 DEF Agrees
<1> QED BY <1>5, <1>9, <1>10, <1>12 DEF K, line, at

LEMMA StreamsLine ==
  ASSUME NEW v \in Views, v.status = "in_progress", NEW n \in Nat, NEW ledger \in Ledgers,
         Agrees(v, ledger, n), NEW p \in Places, ledger[p].index # Null, ~ledger[p].done,
         NEW d \in Seq(Texts)
  PROVE  LET w == Read(v, Telling(ledger[p].index, d))
             K == [ledger EXCEPT ![p] = Grown(ledger[p], d, FALSE)]
         IN /\ w \in Views /\ Legal(v, w) /\ w.status = "in_progress"
            /\ K \in Ledgers /\ Agrees(w, K, n) /\ DoneIn(w) = DoneIn(v)
<1> DEFINE w == Read(v, Telling(ledger[p].index, d))
           at == ledger[p].index + 1
           item == GrownItem(ledger[p], d, FALSE)
<1>1. ledger[p] \in Lines BY DEF Ledgers
<1>2. ledger[p].said \o d \in Seq(Texts) BY <1>1 DEF Lines
<1>3. item \in Shown BY <1>1, <1>2 DEF Lines, Shown, GrownItem
<1>4. v.items \in Seq(Shown) /\ Len(v.items) = n BY DEF Views, Agrees
<1>5. ledger[p].index \in 0..(n - 1) /\ v.items[at] = ShownLine(ledger[p]) BY DEF Agrees
<1>6. at \in 1..n BY <1>5
<1>7. w = [v EXCEPT !.items[at].said = v.items[at].said \o d]
  BY DEF Read, Telling
<1>8. w = [v EXCEPT !.items = [v.items EXCEPT ![at] = [v.items[at] EXCEPT !.said = v.items[at].said \o d]]]
  BY <1>7
<1>9. [v.items[at] EXCEPT !.said = v.items[at].said \o d] = item
  <2>1. /\ v.items[at].kind = ledger[p].kind /\ v.items[at].call = ledger[p].call
        /\ v.items[at].said = ledger[p].said /\ v.items[at].done = FALSE
    BY <1>5, <1>1 DEF ShownLine, Lines
  <2>2. v.items[at] \in Shown BY <1>4, <1>6
  <2> HIDE DEF at
  <2>3. item = [kind |-> v.items[at].kind, call |-> v.items[at].call,
                said |-> v.items[at].said \o d, done |-> v.items[at].done]
    BY <2>1 DEF GrownItem
  <2> HIDE DEF item
  <2> QED BY <2>2, <2>3, SaysMore
<1>10. w = [v EXCEPT !.items = [v.items EXCEPT ![at] = item]] BY <1>8, <1>9
<1>11. [v.items EXCEPT ![at] = item] \in Seq(Shown)
  <2>1. at \in 1..Len(v.items) BY <1>4, <1>6
  <2> HIDE DEF item, at
  <2> QED BY <1>3, <1>4, <2>1, OneReplaced
<1> HIDE DEF item, w, at
<1>12. w \in Views /\ w.status = "in_progress" /\ w.items = [v.items EXCEPT ![at] = item]
  BY <1>10, <1>11 DEF Views
<1>13. DoneIn(w) = DoneIn(v)
  <2>0. ~v.items[at].done /\ ~item.done BY <1>5 DEF ShownLine, item, GrownItem
  <2>1. Len(w.items) = n /\ w.items[at] = item /\ \A k \in 1..n \ {at} : w.items[k] = v.items[k]
    BY <1>12, <1>4, <1>6
  <2>2. ASSUME NEW o \in Outputs
        PROVE  (o.index + 1 \in 1..Len(w.items) /\ w.items[o.index + 1].done
                  /\ o.item = Plain(w.items[o.index + 1]))
               <=> (o.index + 1 \in 1..Len(v.items) /\ v.items[o.index + 1].done
                  /\ o.item = Plain(v.items[o.index + 1]))
    <3>1. CASE o.index + 1 = at BY <3>1, <2>0, <2>1
    <3>2. CASE o.index + 1 # at BY <3>2, <2>1, <1>4
    <3> QED BY <3>1, <3>2
  <2> QED BY <2>2 DEF DoneIn
<1> DEFINE K == [ledger EXCEPT ![p] = Grown(ledger[p], d, FALSE)]
<1>14. Legal(v, w) /\ K \in Ledgers /\ Agrees(w, K, n)
  <2>1. w.items = [v.items EXCEPT ![ledger[p].index + 1] = GrownItem(ledger[p], d, FALSE)]
    BY <1>12 DEF item, at
  <2> DEFINE f == FALSE
  <2>2. f \in BOOLEAN /\ w.items = [v.items EXCEPT ![ledger[p].index + 1] = GrownItem(ledger[p], d, f)]
    BY <2>1
  <2> HIDE DEF f, K
  <2>3. /\ Legal(v, w) /\ [ledger EXCEPT ![p] = Grown(ledger[p], d, f)] \in Ledgers
        /\ Agrees(w, [ledger EXCEPT ![p] = Grown(ledger[p], d, f)], n)
    BY <2>2, <1>12, LineChanges
  <2> QED BY <2>3 DEF f, K
<1> QED BY <1>12, <1>13, <1>14 DEF w

LEMMA FinishesLine ==
  ASSUME NEW v \in Views, v.status = "in_progress", NEW n \in Nat, NEW ledger \in Ledgers,
         Agrees(v, ledger, n), NEW p \in Places, ledger[p].index # Null, ~ledger[p].done,
         NEW d \in Seq(Texts)
  PROVE  LET w == Read(v, Closing(ledger[p].index, Whole(ledger[p], d)))
             K == [ledger EXCEPT ![p] = Grown(ledger[p], d, TRUE)]
         IN /\ Whole(ledger[p], d) \in Items /\ w \in Views /\ Legal(v, w) /\ w.status = "in_progress"
            /\ K \in Ledgers /\ Agrees(w, K, n)
            /\ DoneIn(w) = WithWhole(DoneIn(v), ledger[p], d)
<1> DEFINE whole == Whole(ledger[p], d)
           w == Read(v, Closing(ledger[p].index, whole))
           at == ledger[p].index + 1
           item == GrownItem(ledger[p], d, TRUE)
<1>1. ledger[p] \in Lines BY DEF Ledgers
<1>2. ledger[p].said \o d \in Seq(Texts) BY <1>1 DEF Lines
<1>3. item \in Shown /\ whole \in Items /\ Plain(item) = whole /\ item.done
  BY <1>1, <1>2 DEF Lines, Shown, Items, Plain, GrownItem, Whole
<1>4. v.items \in Seq(Shown) /\ Len(v.items) = n BY DEF Views, Agrees
<1>5. ledger[p].index \in 0..(n - 1) /\ v.items[at] = ShownLine(ledger[p]) BY DEF Agrees
<1>6. at \in 1..n BY <1>5
<1>7. w = [v EXCEPT !.items[at] = item, !.kept = Append(v.kept, whole)]
  BY DEF Read, Closing, Whole, GrownItem
<1>8. [v.items EXCEPT ![at] = item] \in Seq(Shown) /\ Append(v.kept, whole) \in Seq(Items)
  <2>1. at \in 1..Len(v.items) BY <1>4, <1>6
  <2>2. v.kept \in Seq(Items) BY DEF Views
  <2> HIDE DEF item, at, whole
  <2>3. Append(v.kept, whole) \in Seq(Items) BY <1>3, <2>2
  <2> QED BY <1>3, <1>4, <2>1, <2>3, OneReplaced
<1> HIDE DEF item, w, at, whole
<1>9. w \in Views /\ w.status = "in_progress" /\ w.items = [v.items EXCEPT ![at] = item]
  BY <1>7, <1>8 DEF Views
<1>10. DoneIn(w) = WithWhole(DoneIn(v), ledger[p], d)
  <2>0. ~v.items[at].done BY <1>5 DEF ShownLine
  <2>1. Len(w.items) = n /\ w.items[at] = item /\ \A k \in 1..n \ {at} : w.items[k] = v.items[k]
    BY <1>9, <1>4, <1>6
  <2>2. [index |-> ledger[p].index, item |-> whole] \in Outputs BY <1>3, <1>5 DEF Outputs
  <2>3. ASSUME NEW o \in Outputs
        PROVE  o \in DoneIn(w) <=> o \in DoneIn(v) \cup {[index |-> ledger[p].index, item |-> whole]}
    <3>0. o.index \in Nat /\ o = [index |-> o.index, item |-> o.item] BY DEF Outputs
    <3>1. CASE o.index + 1 = at
      BY <3>0, <3>1, <1>5, <2>0, <2>1, <1>3, <1>6 DEF at, DoneIn
    <3>2. CASE o.index + 1 # at
      BY <3>2, <2>1, <1>4 DEF at, DoneIn
    <3> QED BY <3>1, <3>2
  <2>4. DoneIn(w) \subseteq Outputs /\ DoneIn(v) \subseteq Outputs BY DEF DoneIn
  <2>5. DoneIn(w) = DoneIn(v) \cup {[index |-> ledger[p].index, item |-> whole]}
    BY <2>2, <2>3, <2>4
  <2> QED BY <2>5 DEF WithWhole, whole
<1> DEFINE K == [ledger EXCEPT ![p] = Grown(ledger[p], d, TRUE)]
<1>11. Legal(v, w) /\ K \in Ledgers /\ Agrees(w, K, n)
  <2>1. w.items = [v.items EXCEPT ![ledger[p].index + 1] = GrownItem(ledger[p], d, TRUE)]
    BY <1>9 DEF item, at
  <2> DEFINE f == TRUE
  <2>2. f \in BOOLEAN /\ w.items = [v.items EXCEPT ![ledger[p].index + 1] = GrownItem(ledger[p], d, f)]
    BY <2>1
  <2> HIDE DEF f, K
  <2>3. /\ Legal(v, w) /\ [ledger EXCEPT ![p] = Grown(ledger[p], d, f)] \in Ledgers
        /\ Agrees(w, [ledger EXCEPT ![p] = Grown(ledger[p], d, f)], n)
    BY <2>2, <1>9, LineChanges
  <2> QED BY <2>3 DEF f, K
<1> QED BY <1>3, <1>9, <1>10, <1>11 DEF w, whole

----
(* The converter, and how its parts are set. *)
Spoken == [index : Nat \cup {Null}, said : Seq(Texts), done : BOOLEAN]
Tools  == [index : Nat \cup {Null}, call : Ids, name : Names, said : Seq(Texts), done : BOOLEAN]
Events == [type : {"created"}] \cup [type : {"failed"}]
            \cup [type : {"added"}, index : Nat, kind : Kinds, call : Ids]
            \cup [type : {"delta"}, index : Nat, said : Seq(Texts)]
            \cup [type : {"done"}, index : Nat, item : Items]
            \cup [type : {"completed"}, output : Seq(Items)]
Conv   == [started : BOOLEAN, completed : BOOLEAN, failed : BOOLEAN, next : Nat,
           reasoning : Spoken, message : Spoken, mode : {"detecting", "reasoning", "text"},
           buffer : Seq(Texts), tools : [Indexes -> Tools], output : SUBSET Outputs,
           custom : BOOLEAN, out : Seq(Events)]
Spokens == {"reasoning", "message"}
Other(kind) == IF kind = "reasoning" THEN "message" ELSE "reasoning"

SameControl(s, t) ==
  /\ t.started = s.started /\ t.completed = s.completed /\ t.failed = s.failed
  /\ t.custom = s.custom /\ t.mode = s.mode /\ t.buffer = s.buffer
SameSpoken(s, t) == t.reasoning = s.reasoning /\ t.message = s.message
SameTold(s, t) == t.next = s.next /\ t.output = s.output /\ t.out = s.out

LEMMA SetStarted ==
  ASSUME NEW s \in Conv, NEW x \in BOOLEAN
  PROVE  LET t == [s EXCEPT !.started = x] IN
         /\ t \in Conv /\ t.started = x /\ t.completed = s.completed
         /\ t.failed = s.failed /\ t.custom = s.custom /\ t.mode = s.mode
         /\ t.buffer = s.buffer /\ SameSpoken(s, t) /\ t.tools = s.tools
         /\ SameTold(s, t)
BY DEF Conv, SameControl, SameSpoken, SameTold

LEMMA SetCompleted ==
  ASSUME NEW s \in Conv, NEW x \in BOOLEAN
  PROVE  LET t == [s EXCEPT !.completed = x] IN
         /\ t \in Conv /\ t.completed = x /\ t.started = s.started
         /\ t.failed = s.failed /\ t.custom = s.custom /\ t.mode = s.mode
         /\ t.buffer = s.buffer /\ SameSpoken(s, t) /\ t.tools = s.tools
         /\ SameTold(s, t)
BY DEF Conv, SameControl, SameSpoken, SameTold

LEMMA SetFailed ==
  ASSUME NEW s \in Conv, NEW x \in BOOLEAN
  PROVE  LET t == [s EXCEPT !.failed = x] IN
         /\ t \in Conv /\ t.failed = x /\ t.started = s.started
         /\ t.completed = s.completed /\ t.custom = s.custom
         /\ t.mode = s.mode /\ t.buffer = s.buffer /\ SameSpoken(s, t)
         /\ t.tools = s.tools /\ SameTold(s, t)
BY DEF Conv, SameControl, SameSpoken, SameTold

LEMMA SetNext ==
  ASSUME NEW s \in Conv, NEW x \in Nat
  PROVE  LET t == [s EXCEPT !.next = x] IN
         /\ t \in Conv /\ t.next = x /\ SameControl(s, t) /\ SameSpoken(s, t)
         /\ t.tools = s.tools /\ t.output = s.output /\ t.out = s.out
BY DEF Conv, SameControl, SameSpoken, SameTold

LEMMA SetReasoning ==
  ASSUME NEW s \in Conv, NEW x \in Spoken
  PROVE  LET t == [s EXCEPT !.reasoning = x] IN
         /\ t \in Conv /\ t.reasoning = x /\ SameControl(s, t)
         /\ t.message = s.message /\ t.tools = s.tools /\ SameTold(s, t)
BY DEF Conv, SameControl, SameSpoken, SameTold

LEMMA SetMessage ==
  ASSUME NEW s \in Conv, NEW x \in Spoken
  PROVE  LET t == [s EXCEPT !.message = x] IN
         /\ t \in Conv /\ t.message = x /\ SameControl(s, t)
         /\ t.reasoning = s.reasoning /\ t.tools = s.tools /\ SameTold(s, t)
BY DEF Conv, SameControl, SameSpoken, SameTold

LEMMA SetMode ==
  ASSUME NEW s \in Conv, NEW x \in {"detecting", "reasoning", "text"}
  PROVE  LET t == [s EXCEPT !.mode = x] IN
         /\ t \in Conv /\ t.mode = x /\ t.started = s.started
         /\ t.completed = s.completed /\ t.failed = s.failed
         /\ t.custom = s.custom /\ t.buffer = s.buffer /\ SameSpoken(s, t)
         /\ t.tools = s.tools /\ SameTold(s, t)
BY DEF Conv, SameControl, SameSpoken, SameTold

LEMMA SetBuffer ==
  ASSUME NEW s \in Conv, NEW x \in Seq(Texts)
  PROVE  LET t == [s EXCEPT !.buffer = x] IN
         /\ t \in Conv /\ t.buffer = x /\ t.started = s.started
         /\ t.completed = s.completed /\ t.failed = s.failed
         /\ t.custom = s.custom /\ t.mode = s.mode /\ SameSpoken(s, t)
         /\ t.tools = s.tools /\ SameTold(s, t)
BY DEF Conv, SameControl, SameSpoken, SameTold

LEMMA SetOutput ==
  ASSUME NEW s \in Conv, NEW x \in SUBSET Outputs
  PROVE  LET t == [s EXCEPT !.output = x] IN
         /\ t \in Conv /\ t.output = x /\ SameControl(s, t)
         /\ SameSpoken(s, t) /\ t.tools = s.tools /\ t.next = s.next
         /\ t.out = s.out
BY DEF Conv, SameControl, SameSpoken, SameTold

LEMMA SetOut ==
  ASSUME NEW s \in Conv, NEW x \in Seq(Events)
  PROVE  LET t == [s EXCEPT !.out = x] IN
         /\ t \in Conv /\ t.out = x /\ SameControl(s, t) /\ SameSpoken(s, t)
         /\ t.tools = s.tools /\ t.next = s.next /\ t.output = s.output
BY DEF Conv, SameControl, SameSpoken, SameTold

LEMMA SetSpoken ==
  ASSUME NEW s \in Conv, NEW kind \in Spokens, NEW x \in Spoken
  PROVE  LET t == [s EXCEPT ![kind] = x] IN
         /\ t \in Conv /\ t[kind] = x
         /\ (kind = "reasoning" => t.message = s.message)
         /\ (kind = "message" => t.reasoning = s.reasoning)
         /\ SameControl(s, t) /\ t.tools = s.tools /\ SameTold(s, t)
<1>1. CASE kind = "reasoning"
  <2> SUFFICES LET t == [s EXCEPT !["reasoning"] = x] IN
         /\ t \in Conv /\ t["reasoning"] = x
         /\ (kind = "reasoning" => t.message = s.message)
         /\ (kind = "message" => t.reasoning = s.reasoning)
         /\ SameControl(s, t) /\ t.tools = s.tools /\ SameTold(s, t)
    BY <1>1
  <2> QED BY <1>1, SetReasoning
<1>2. CASE kind = "message"
  <2> SUFFICES LET t == [s EXCEPT !["message"] = x] IN
         /\ t \in Conv /\ t["message"] = x
         /\ (kind = "reasoning" => t.message = s.message)
         /\ (kind = "message" => t.reasoning = s.reasoning)
         /\ SameControl(s, t) /\ t.tools = s.tools /\ SameTold(s, t)
    BY <1>2
  <2> QED BY <1>2, SetMessage
<1> QED BY <1>1, <1>2 DEF Spokens

LEMMA SpokenIs ==
  ASSUME NEW s \in Conv, NEW kind \in Spokens
  PROVE  s[kind] \in Spoken
<1>1. s["reasoning"] \in Spoken /\ s["message"] \in Spoken
  BY DEF Conv
<1>2. CASE kind = "reasoning"
  BY <1>1, <1>2
<1>3. CASE kind = "message"
  BY <1>1, <1>3
<1> QED BY <1>2, <1>3 DEF Spokens

(* One part of what is said or of a tool. *)
LEMMA SetSaid ==
  ASSUME NEW x \in Spoken
  PROVE  /\ \A n \in Nat : LET y == [x EXCEPT !.index = n]
                            IN y \in Spoken /\ y.index = n /\ y.said = x.said /\ y.done = x.done
         /\ \A d \in Seq(Texts) : LET y == [x EXCEPT !.said = d]
                            IN y \in Spoken /\ y.index = x.index /\ y.said = d /\ y.done = x.done
         /\ LET y == [x EXCEPT !.done = TRUE]
            IN y \in Spoken /\ y.index = x.index /\ y.said = x.said /\ y.done = TRUE
BY DEF Spoken

LEMMA SetTool ==
  ASSUME NEW s \in Conv, NEW i \in Indexes, NEW x \in Tools
  PROVE  LET t == [s EXCEPT !.tools[i] = x] IN
         /\ t \in Conv /\ t.tools = [s.tools EXCEPT ![i] = x]
         /\ t.tools[i] = x /\ \A j \in Indexes \ {i} : t.tools[j] = s.tools[j]
         /\ SameControl(s, t) /\ SameSpoken(s, t) /\ SameTold(s, t)
BY DEF Conv, SameControl, SameSpoken, SameTold

LEMMA EmitIs ==
  ASSUME NEW s \in Conv, NEW e \in Events
  PROVE  LET t == Emit(s, e) IN
         /\ t \in Conv /\ t.out = Append(s.out, e)
         /\ SameControl(s, t) /\ SameSpoken(s, t) /\ t.tools = s.tools
         /\ t.next = s.next /\ t.output = s.output
<1>1. s.out \in Seq(Events)
  BY DEF Conv
<1>2. Append(s.out, e) \in Seq(Events)
  BY <1>1
<1> QED BY <1>2, SetOut DEF Emit

LEMMA EventsAre ==
  ASSUME NEW index \in Nat
  PROVE  /\ Created \in Events /\ Error \in Events
         /\ \A kind \in Kinds, call \in Ids : Adding(index, kind, call) \in Events
         /\ \A d \in Seq(Texts) : Telling(index, d) \in Events
         /\ \A item \in Items : Closing(index, item) \in Events
         /\ \A output \in Seq(Items) : Completing(output) \in Events
<1>1. Created \in Events /\ Error \in Events
  BY DEF Events, Created, Error
<1>2. ASSUME NEW kind \in Kinds, NEW call \in Ids PROVE Adding(index, kind, call) \in Events
  BY DEF Adding, Events
<1>3. ASSUME NEW d \in Seq(Texts) PROVE Telling(index, d) \in Events
  BY DEF Telling, Events
<1>4. ASSUME NEW item \in Items PROVE Closing(index, item) \in Events
  BY DEF Closing, Events
<1>5. ASSUME NEW output \in Seq(Items) PROVE Completing(output) \in Events
  BY DEF Completing, Events
<1> QED BY <1>1, <1>2, <1>3, <1>4, <1>5

----
(* The ledger of a converter. *)
SpokenLine(x, kind) ==
  [index |-> x.index, kind |-> kind, call |-> Null, said |-> x.said, done |-> x.done]
ToolLine(x) ==
  [index |-> x.index, kind |-> Kind(x.name), call |-> x.call,
   said |-> IF Kind(x.name) = "custom_tool_call" /\ ~x.done THEN <<>> ELSE x.said,
   done |-> x.done]
Ledger(s) ==
  [p \in Places |-> IF p[1] = "tool" THEN ToolLine(s.tools[p[2]])
                    ELSE IF p[1] = "reasoning" THEN SpokenLine(s.reasoning, "reasoning")
                    ELSE SpokenLine(s.message, "message")]

LEMMA LinesAre ==
  /\ \A x \in Spoken, kind \in Spokens : SpokenLine(x, kind) \in Lines
  /\ \A x \in Tools : ToolLine(x) \in Lines
<1>1. ASSUME NEW x \in Spoken, NEW kind \in Spokens PROVE SpokenLine(x, kind) \in Lines
  BY DEF Spoken, Spokens, SpokenLine, Lines, Kinds, Ids
<1>2. ASSUME NEW x \in Tools PROVE ToolLine(x) \in Lines
  <2>1. Kind(x.name) \in Kinds BY DEF Kind, Kinds
  <2>2. <<>> \in Seq(Texts) OBVIOUS
  <2> QED BY <2>1, <2>2 DEF Tools, ToolLine, Lines
<1> QED BY <1>1, <1>2

LEMMA PlacesAre ==
  /\ \A kind \in Spokens : <<kind, 0>> \in Places
  /\ \A i \in Indexes : <<"tool", i>> \in Places
  /\ \A p \in Places : p = <<"reasoning", 0>> \/ p = <<"message", 0>> \/ \E i \in Indexes : p = <<"tool", i>>
BY DEF Places, Spokens

LEMMA LedgerIs ==
  ASSUME NEW s \in Conv
  PROVE  /\ Ledger(s) \in Ledgers
         /\ Ledger(s)[<<"reasoning", 0>>] = SpokenLine(s.reasoning, "reasoning")
         /\ Ledger(s)[<<"message", 0>>] = SpokenLine(s.message, "message")
         /\ \A kind \in Spokens : Ledger(s)[<<kind, 0>>] = SpokenLine(s[kind], kind)
         /\ \A i \in Indexes : Ledger(s)[<<"tool", i>>] = ToolLine(s.tools[i])
<1>1. Ledger(s)[<<"reasoning", 0>>] = SpokenLine(s.reasoning, "reasoning")
      /\ Ledger(s)[<<"message", 0>>] = SpokenLine(s.message, "message")
  BY PlacesAre DEF Ledger, Spokens
<1>2. \A i \in Indexes : Ledger(s)[<<"tool", i>>] = ToolLine(s.tools[i])
  BY PlacesAre DEF Ledger
<1>3. ASSUME NEW kind \in Spokens PROVE Ledger(s)[<<kind, 0>>] = SpokenLine(s[kind], kind)
  <2>1. Ledger(s)[<<"reasoning", 0>>] = SpokenLine(s["reasoning"], "reasoning")
        /\ Ledger(s)[<<"message", 0>>] = SpokenLine(s["message"], "message")
    BY <1>1
  <2>2. CASE kind = "reasoning" BY <2>1, <2>2
  <2>3. CASE kind = "message" BY <2>1, <2>3
  <2> QED BY <2>2, <2>3 DEF Spokens
<1>4. ASSUME NEW p \in Places PROVE Ledger(s)[p] \in Lines
  <2>1. CASE \E i \in Indexes : p = <<"tool", i>>
    <3>1. PICK i \in Indexes : p = <<"tool", i>> BY <2>1
    <3>2. s.tools[i] \in Tools BY DEF Conv
    <3> QED BY <3>1, <3>2, <1>2, LinesAre
  <2>2. s.reasoning \in Spoken /\ s.message \in Spoken BY DEF Conv
  <2> QED BY <2>1, <2>2, <1>1, LinesAre, PlacesAre DEF Spokens
<1>5. Ledger(s) \in Ledgers BY <1>4 DEF Ledger, Ledgers
<1> QED BY <1>1, <1>2, <1>3, <1>5

LEMMA SameLedger ==
  ASSUME NEW s \in Conv, NEW t \in Conv, SameSpoken(s, t), t.tools = s.tools
  PROVE  Ledger(t) = Ledger(s)
BY DEF Ledger, SameSpoken

LEMMA LedgersEqual ==
  ASSUME NEW K \in Ledgers, NEW L \in Ledgers,
         K[<<"reasoning", 0>>] = L[<<"reasoning", 0>>], K[<<"message", 0>>] = L[<<"message", 0>>],
         \A i \in Indexes : K[<<"tool", i>>] = L[<<"tool", i>>]
  PROVE  K = L
<1>1. \A p \in Places : K[p] = L[p] BY PlacesAre
<1> QED BY <1>1 DEF Ledgers

LEMMA OnePlace ==
  ASSUME NEW L \in Ledgers, NEW p \in Places, NEW line \in Lines
  PROVE  LET K == [L EXCEPT ![p] = line]
         IN K \in Ledgers /\ K[p] = line /\ \A q \in Places \ {p} : K[q] = L[q]
BY DEF Ledgers

LEMMA SpokenLedger ==
  ASSUME NEW s \in Conv, NEW t \in Conv, NEW kind \in Spokens, t.tools = s.tools,
         kind = "reasoning" => t.message = s.message,
         kind = "message" => t.reasoning = s.reasoning
  PROVE  Ledger(t) = [Ledger(s) EXCEPT ![<<kind, 0>>] = SpokenLine(t[kind], kind)]
<1> DEFINE K == [Ledger(s) EXCEPT ![<<kind, 0>>] = SpokenLine(t[kind], kind)]
<1>0. SpokenLine(t[kind], kind) \in Lines /\ <<kind, 0>> \in Places
  BY SpokenIs, LinesAre, PlacesAre
<1>1. /\ K \in Ledgers /\ K[<<kind, 0>>] = SpokenLine(t[kind], kind)
      /\ \A q \in Places \ {<<kind, 0>>} : K[q] = Ledger(s)[q]
  BY <1>0, OnePlace, LedgerIs
<1> HIDE DEF K
<1>2. \A i \in Indexes : K[<<"tool", i>>] = Ledger(t)[<<"tool", i>>]
  <2> TAKE i \in Indexes
  <2>1. <<"tool", i>> \in Places \ {<<kind, 0>>} BY PlacesAre DEF Spokens
  <2> QED BY <2>1, <1>1, LedgerIs
<1>3. Ledger(t) = K
  <2>1. CASE kind = "reasoning"
    BY <2>1, PlacesAre, <1>1, LedgerIs, <1>2, LedgersEqual DEF Spokens
  <2>2. CASE kind = "message"
    BY <2>2, PlacesAre, <1>1, LedgerIs, <1>2, LedgersEqual DEF Spokens
  <2> QED BY <2>1, <2>2 DEF Spokens
<1> QED BY <1>3 DEF K

LEMMA ToolLedger ==
  ASSUME NEW s \in Conv, NEW t \in Conv, NEW i \in Indexes, SameSpoken(s, t),
         \A j \in Indexes \ {i} : t.tools[j] = s.tools[j]
  PROVE  Ledger(t) = [Ledger(s) EXCEPT ![<<"tool", i>>] = ToolLine(t.tools[i])]
<1> DEFINE K == [Ledger(s) EXCEPT ![<<"tool", i>>] = ToolLine(t.tools[i])]
<1>0. t.tools[i] \in Tools BY DEF Conv
<1>1. /\ K \in Ledgers /\ K[<<"tool", i>>] = ToolLine(t.tools[i])
      /\ \A q \in Places \ {<<"tool", i>>} : K[q] = Ledger(s)[q]
  BY <1>0, OnePlace, LedgerIs, LinesAre, PlacesAre
<1> HIDE DEF K
<1>2. ASSUME NEW j \in Indexes PROVE K[<<"tool", j>>] = Ledger(t)[<<"tool", j>>]
  <2>1. CASE j = i BY <2>1, <1>1, LedgerIs
  <2>2. CASE j # i
    BY <2>2, PlacesAre, <1>1, LedgerIs
  <2> QED BY <2>1, <2>2
<1>3. \A kind \in Spokens : <<kind, 0>> \in Places \ {<<"tool", i>>} BY PlacesAre DEF Spokens
<1>4. /\ K[<<"reasoning", 0>>] = Ledger(t)[<<"reasoning", 0>>]
      /\ K[<<"message", 0>>] = Ledger(t)[<<"message", 0>>]
  BY <1>1, <1>3, LedgerIs DEF SameSpoken, Spokens
<1>5. Ledger(t) = K BY <1>1, <1>2, <1>4, LedgersEqual, LedgerIs
<1> QED BY <1>5 DEF K

----
(* What was written since Codex had v0 makes a view that has the items of  *)
(* the ledger.                                                             *)
StatusOf(s) == IF s.failed THEN "failed" ELSE IF s.completed THEN "completed"
               ELSE IF s.started THEN "in_progress" ELSE "none"
Busy(s) == s \in Conv /\ s.started /\ ~s.completed /\ ~s.failed
ToldAs(v0, s, L) ==
  \E v \in Views : /\ Reads(v0, s.out, v) /\ v.status = StatusOf(s)
                   /\ Agrees(v, L, s.next) /\ s.output = DoneIn(v)
Told(v0, s) == ToldAs(v0, s, Ledger(s))

LEMMA BusyControl ==
  ASSUME NEW s, NEW t \in Conv, Busy(s), SameControl(s, t)
  PROVE  Busy(t)
BY DEF Busy, SameControl

LEMMA BusyStatus ==
  ASSUME NEW s, Busy(s)
  PROVE  StatusOf(s) = "in_progress" /\ s \in Conv /\ s.next \in Nat /\ s.out \in Seq(Events)
BY DEF Busy, StatusOf, Conv

LEMMA ToldSame ==
  ASSUME NEW v0, NEW s \in Conv, NEW t \in Conv, NEW L, ToldAs(v0, s, L), StatusOf(t) = StatusOf(s),
         SameTold(s, t)
  PROVE  ToldAs(v0, t, L)
BY DEF ToldAs, SameTold

LEMMA ToldAdds ==
  ASSUME NEW v0 \in Views, NEW s, NEW t, NEW L \in Ledgers, Busy(s), Busy(t), ToldAs(v0, s, L),
         NEW p \in Places, L[p].index = Null, NEW kind \in Kinds, NEW call \in Ids,
         t.out = Append(s.out, Adding(s.next, kind, call)), t.next = s.next + 1,
         t.output = s.output,
         NEW line, line = [index |-> s.next, kind |-> kind, call |-> call, said |-> <<>>, done |-> FALSE]
  PROVE  [L EXCEPT ![p] = line] \in Ledgers /\ ToldAs(v0, t, [L EXCEPT ![p] = line])
<1>1. PICK v \in Views : /\ Reads(v0, s.out, v) /\ v.status = StatusOf(s)
                         /\ Agrees(v, L, s.next) /\ s.output = DoneIn(v)
  BY DEF ToldAs
<1> DEFINE e == Adding(s.next, kind, call)
           w == Read(v, e)
           K == [L EXCEPT ![p] = line]
<1>2. s.next \in Nat /\ s.out \in Seq(Events) /\ e \in Events BY BusyStatus, EventsAre
<1>3. /\ w \in Views /\ Legal(v, w) /\ w.status = "in_progress"
      /\ K \in Ledgers /\ Agrees(w, K, s.next + 1) /\ DoneIn(w) = DoneIn(v)
  BY <1>1, <1>2, AddsLine, BusyStatus
<1> HIDE DEF w, K, e
<1>4. Reads(v0, Append(s.out, e), w)
  BY <1>1, <1>2, <1>3, ReadsOne DEF w
<1>5. ToldAs(v0, t, K)
  BY <1>1, <1>3, <1>4, BusyStatus DEF ToldAs, e
<1> QED BY <1>3, <1>5 DEF K

LEMMA ToldStreams ==
  ASSUME NEW v0 \in Views, NEW s, NEW t, NEW L \in Ledgers, Busy(s), Busy(t), ToldAs(v0, s, L),
         NEW p \in Places, L[p].index # Null, ~L[p].done, NEW d \in Seq(Texts),
         t.out = Append(s.out, Telling(L[p].index, d)), t.next = s.next, t.output = s.output
  PROVE  /\ [L EXCEPT ![p] = Grown(L[p], d, FALSE)] \in Ledgers
         /\ ToldAs(v0, t, [L EXCEPT ![p] = Grown(L[p], d, FALSE)])
<1>1. PICK v \in Views : /\ Reads(v0, s.out, v) /\ v.status = StatusOf(s)
                         /\ Agrees(v, L, s.next) /\ s.output = DoneIn(v)
  BY DEF ToldAs
<1> DEFINE e == Telling(L[p].index, d)
           w == Read(v, e)
           K == [L EXCEPT ![p] = Grown(L[p], d, FALSE)]
<1>2. L[p].index \in Nat BY DEF Ledgers, Lines
<1>3. s.next \in Nat /\ s.out \in Seq(Events) /\ e \in Events BY <1>2, BusyStatus, EventsAre
<1>4. /\ w \in Views /\ Legal(v, w) /\ w.status = "in_progress"
      /\ K \in Ledgers /\ Agrees(w, K, s.next) /\ DoneIn(w) = DoneIn(v)
  BY <1>1, <1>3, StreamsLine, BusyStatus
<1> HIDE DEF w, K, e
<1>5. Reads(v0, Append(s.out, e), w)
  BY <1>1, <1>3, <1>4, ReadsOne DEF w
<1>6. ToldAs(v0, t, K)
  BY <1>1, <1>4, <1>5, BusyStatus DEF ToldAs, e
<1> QED BY <1>4, <1>6 DEF K

LEMMA ToldFinishes ==
  ASSUME NEW v0 \in Views, NEW s, NEW t, NEW L \in Ledgers, Busy(s), Busy(t), ToldAs(v0, s, L),
         NEW p \in Places, L[p].index # Null, ~L[p].done, NEW d \in Seq(Texts),
         t.out = Append(s.out, Closing(L[p].index, Whole(L[p], d))), t.next = s.next,
         t.output = WithWhole(s.output, L[p], d)
  PROVE  /\ [L EXCEPT ![p] = Grown(L[p], d, TRUE)] \in Ledgers
         /\ ToldAs(v0, t, [L EXCEPT ![p] = Grown(L[p], d, TRUE)])
<1>1. PICK v \in Views : /\ Reads(v0, s.out, v) /\ v.status = StatusOf(s)
                         /\ Agrees(v, L, s.next) /\ s.output = DoneIn(v)
  BY DEF ToldAs
<1> DEFINE e == Closing(L[p].index, Whole(L[p], d))
           w == Read(v, e)
           K == [L EXCEPT ![p] = Grown(L[p], d, TRUE)]
<1>2. L[p].index \in Nat BY DEF Ledgers, Lines
<1>3. s.next \in Nat /\ s.out \in Seq(Events) BY BusyStatus
<1>4. /\ w \in Views /\ Legal(v, w) /\ w.status = "in_progress" /\ Whole(L[p], d) \in Items
      /\ K \in Ledgers /\ Agrees(w, K, s.next)
      /\ DoneIn(w) = WithWhole(DoneIn(v), L[p], d)
  BY <1>1, <1>3, FinishesLine, BusyStatus
<1>5. e \in Events BY <1>2, <1>4, EventsAre
<1> HIDE DEF w, K, e
<1>6. Reads(v0, Append(s.out, e), w)
  BY <1>1, <1>3, <1>4, <1>5, ReadsOne DEF w
<1>7. ToldAs(v0, t, K)
  BY <1>1, <1>4, <1>6, BusyStatus DEF ToldAs, e
<1> QED BY <1>4, <1>7 DEF K

----
(* Reasoning and text. *)
OtherSame(s, t, kind) ==
  /\ t.tools = s.tools
  /\ (kind = "reasoning" => t.message = s.message)
  /\ (kind = "message" => t.reasoning = s.reasoning)
Fresh(x) == x.index = Null => x.said = <<>> /\ ~x.done

LEMMA SameSpokenAt ==
  ASSUME NEW s, NEW t, NEW kind \in Spokens, SameSpoken(s, t)
  PROVE  t[kind] = s[kind]
<1>1. t["reasoning"] = s["reasoning"] /\ t["message"] = s["message"] BY DEF SameSpoken
<1>2. CASE kind = "reasoning" BY <1>1, <1>2
<1>3. CASE kind = "message" BY <1>1, <1>3
<1> QED BY <1>2, <1>3 DEF Spokens

LEMMA AddedIs ==
  ASSUME NEW s \in Conv, NEW kind \in Kinds, NEW call \in Ids
  PROVE  LET t == Added(s, kind, call) IN
         /\ t \in Conv /\ t.out = Append(s.out, Adding(s.next, kind, call)) /\ t.next = s.next + 1
         /\ SameControl(s, t) /\ SameSpoken(s, t) /\ t.tools = s.tools /\ t.output = s.output
<1> DEFINE a == [s EXCEPT !.next = s.next + 1]
<1>1. s.next \in Nat /\ s.next + 1 \in Nat BY DEF Conv
<1>2. a \in Conv /\ a.next = s.next + 1 /\ SameControl(s, a) /\ SameSpoken(s, a)
      /\ a.tools = s.tools /\ a.output = s.output /\ a.out = s.out
  BY <1>1, SetNext
<1>3. Adding(s.next, kind, call) \in Events BY <1>1, EventsAre
<1>4. Added(s, kind, call) = Emit(a, Adding(s.next, kind, call)) BY DEF Added, Adding
<1> HIDE DEF a
<1>5. LET t == Emit(a, Adding(s.next, kind, call)) IN
         /\ t \in Conv /\ t.out = Append(s.out, Adding(s.next, kind, call)) /\ t.next = s.next + 1
         /\ SameControl(a, t) /\ SameSpoken(a, t) /\ t.tools = s.tools /\ t.output = s.output
  BY <1>2, <1>3, EmitIs
<1> QED BY <1>2, <1>4, <1>5 DEF SameControl, SameSpoken

LEMMA DeltaIs ==
  ASSUME NEW s \in Conv, NEW index \in Nat, NEW d \in Seq(Texts)
  PROVE  LET t == Delta(s, index, d) IN
         /\ t \in Conv /\ t.out = Append(s.out, Telling(index, d)) /\ t.next = s.next
         /\ SameControl(s, t) /\ SameSpoken(s, t) /\ t.tools = s.tools /\ t.output = s.output
<1>1. Telling(index, d) \in Events BY EventsAre
<1>2. Delta(s, index, d) = Emit(s, Telling(index, d)) BY DEF Delta, Telling
<1> QED BY <1>1, <1>2, EmitIs

LEMMA DoneIs ==
  ASSUME NEW s \in Conv, NEW index \in Nat, NEW item \in Items
  PROVE  LET t == Done(s, index, item) IN
         /\ t \in Conv /\ t.out = Append(s.out, Closing(index, item)) /\ t.next = s.next
         /\ SameControl(s, t) /\ SameSpoken(s, t) /\ t.tools = s.tools
         /\ t.output = s.output \cup {[index |-> index, item |-> item]}
<1> DEFINE o == s.output \cup {[index |-> index, item |-> item]}
           a == [s EXCEPT !.output = o]
<1>1. o \in SUBSET Outputs
  BY DEF Outputs, Conv
<1> HIDE DEF o
<1>2. a \in Conv /\ a.output = o /\ SameControl(s, a) /\ SameSpoken(s, a)
      /\ a.tools = s.tools /\ a.next = s.next /\ a.out = s.out
  BY <1>1, SetOutput
<1>3. Closing(index, item) \in Events BY EventsAre
<1>4. Done(s, index, item) = Emit(a, Closing(index, item)) BY DEF Done, Closing, o
<1> HIDE DEF a
<1>5. LET t == Emit(a, Closing(index, item)) IN
         /\ t \in Conv /\ t.out = Append(s.out, Closing(index, item)) /\ t.next = s.next
         /\ SameControl(a, t) /\ SameSpoken(a, t) /\ t.tools = s.tools /\ t.output = o
  BY <1>2, <1>3, EmitIs
<1> QED BY <1>2, <1>4, <1>5 DEF SameControl, SameSpoken, o

(* An item of its kind is opened. *)
LEMMA OpensSpoken ==
  ASSUME NEW v0 \in Views, NEW s, Busy(s), Told(v0, s), NEW kind \in Spokens,
         s[kind].index = Null, Fresh(s[kind])
  PROVE  LET t == [Added(s, kind, Null) EXCEPT ![kind].index = s.next] IN
         /\ Busy(t) /\ Told(v0, t) /\ SameControl(s, t) /\ OtherSame(s, t, kind)
         /\ t[kind].index = s.next /\ s.next \in Nat /\ t[kind].said = <<>> /\ ~t[kind].done
<1> DEFINE a == Added(s, kind, Null)
           x == [a[kind] EXCEPT !.index = s.next]
           t == [a EXCEPT ![kind] = x]
           L == Ledger(s)
           line == [index |-> s.next, kind |-> kind, call |-> Null, said |-> <<>>, done |-> FALSE]
<1>0. /\ s \in Conv /\ s.next \in Nat /\ kind \in Kinds /\ Null \in Ids /\ <<kind, 0>> \in Places
      /\ L \in Ledgers /\ L[<<kind, 0>>] = SpokenLine(s[kind], kind)
  BY BusyStatus, PlacesAre, LedgerIs DEF Spokens, Kinds, Ids
<1>1. /\ a \in Conv /\ a.out = Append(s.out, Adding(s.next, kind, Null)) /\ a.next = s.next + 1
      /\ SameControl(s, a) /\ SameSpoken(s, a) /\ a.tools = s.tools /\ a.output = s.output
  BY <1>0, AddedIs
<1>2. a[kind] = s[kind] /\ a[kind] \in Spoken BY <1>0, <1>1, SameSpokenAt, SpokenIs
<1>3. x \in Spoken /\ x.index = s.next /\ x.said = <<>> /\ x.done = FALSE
  BY <1>2, <1>0, SetSaid DEF Fresh, Spoken
<1> HIDE DEF a, x
<1>4. /\ t \in Conv /\ t[kind] = x /\ SameControl(a, t) /\ t.tools = a.tools /\ SameTold(a, t)
      /\ (kind = "reasoning" => t.message = a.message)
      /\ (kind = "message" => t.reasoning = a.reasoning)
  BY <1>1, <1>3, SetSpoken
<1>5. [Added(s, kind, Null) EXCEPT ![kind].index = s.next] = t BY DEF a, x
<1> HIDE DEF t
<1>6. SameControl(s, t) /\ OtherSame(s, t, kind) /\ Busy(t)
  BY <1>1, <1>4, BusyControl DEF SameControl, OtherSame, SameSpoken
<1>7. L[<<kind, 0>>].index = Null BY <1>0 DEF SpokenLine
<1>8. t.out = Append(s.out, Adding(s.next, kind, Null)) /\ t.next = s.next + 1 /\ t.output = s.output
  BY <1>1, <1>4 DEF SameTold
<1> HIDE DEF L, line
<1>9. ToldAs(v0, t, [L EXCEPT ![<<kind, 0>>] = line])
  <2>1. ToldAs(v0, s, L) BY DEF Told, L
  <2> QED BY <1>0, <1>6, <1>7, <1>8, <2>1, ToldAdds DEF line
<1>10. Ledger(t) = [L EXCEPT ![<<kind, 0>>] = line]
  <2>1. SpokenLine(t[kind], kind) = line BY <1>3, <1>4 DEF SpokenLine, line
  <2> QED BY <1>0, <1>4, <1>6, <2>1, SpokenLedger DEF L, OtherSame
<1> QED BY <1>0, <1>3, <1>4, <1>5, <1>6, <1>9, <1>10 DEF Told

(* More is said of it. *)
LEMMA SaysSpoken ==
  ASSUME NEW v0 \in Views, NEW s, Busy(s), Told(v0, s), NEW kind \in Spokens,
         s[kind].index # Null, ~s[kind].done, NEW d \in Seq(Texts)
  PROVE  LET t == Delta([s EXCEPT ![kind].said = s[kind].said \o d], s[kind].index, d) IN
         /\ Busy(t) /\ Told(v0, t) /\ SameControl(s, t) /\ OtherSame(s, t, kind)
         /\ t[kind].index # Null /\ ~t[kind].done
<1> DEFINE x == [s[kind] EXCEPT !.said = s[kind].said \o d]
           a == [s EXCEPT ![kind] = x]
           t == Delta(a, s[kind].index, d)
           L == Ledger(s)
           p == <<kind, 0>>
<1>0. /\ s \in Conv /\ p \in Places /\ L \in Ledgers /\ L[p] = SpokenLine(s[kind], kind)
      /\ s[kind] \in Spoken
  BY BusyStatus, PlacesAre, LedgerIs, SpokenIs
<1>1. s[kind].index \in Nat /\ s[kind].said \o d \in Seq(Texts) BY <1>0 DEF Spoken
<1>2. x \in Spoken /\ x.index = s[kind].index /\ x.said = s[kind].said \o d /\ x.done = s[kind].done
  BY <1>0, <1>1, SetSaid
<1> HIDE DEF x
<1>3. /\ a \in Conv /\ a[kind] = x /\ SameControl(s, a) /\ OtherSame(s, a, kind) /\ SameTold(s, a)
  BY <1>0, <1>2, SetSpoken DEF OtherSame
<1> HIDE DEF a
<1>4. /\ t \in Conv /\ t.out = Append(a.out, Telling(s[kind].index, d)) /\ t.next = a.next
      /\ SameControl(a, t) /\ SameSpoken(a, t) /\ t.tools = a.tools /\ t.output = a.output
  BY <1>1, <1>3, DeltaIs
<1>5. Delta([s EXCEPT ![kind].said = s[kind].said \o d], s[kind].index, d) = t BY DEF a, x
<1> HIDE DEF t
<1>6. t[kind] = x BY <1>3, <1>4, SameSpokenAt
<1>7. SameControl(s, t) /\ OtherSame(s, t, kind) /\ Busy(t)
  BY <1>3, <1>4, BusyControl DEF SameControl, OtherSame, SameSpoken
<1> HIDE DEF L, p
<1>8. L[p].index = s[kind].index /\ L[p].index # Null /\ ~L[p].done BY <1>0 DEF SpokenLine
<1>9. t.out = Append(s.out, Telling(L[p].index, d)) /\ t.next = s.next /\ t.output = s.output
  BY <1>3, <1>4, <1>8 DEF SameTold
<1>10. ToldAs(v0, t, [L EXCEPT ![p] = Grown(L[p], d, FALSE)])
  <2>1. ToldAs(v0, s, L) BY DEF Told, L
  <2> QED BY <1>0, <1>7, <1>8, <1>9, <2>1, ToldStreams
<1>11. Ledger(t) = [L EXCEPT ![p] = Grown(L[p], d, FALSE)]
  <2>1. SpokenLine(t[kind], kind) = Grown(L[p], d, FALSE)
    <3>1. s[kind].done = FALSE BY <1>0 DEF Spoken
    <3>2. L[p].index = s[kind].index /\ L[p].kind = kind /\ L[p].call = Null /\ L[p].said = s[kind].said
      BY <1>0 DEF SpokenLine
    <3>3. SpokenLine(x, kind) = [index |-> s[kind].index, kind |-> kind, call |-> Null,
                                 said |-> s[kind].said \o d, done |-> FALSE]
      BY <1>2, <3>1 DEF SpokenLine
    <3> QED BY <1>6, <3>2, <3>3 DEF Grown
  <2>2. Ledger(t) = [Ledger(s) EXCEPT ![<<kind, 0>>] = SpokenLine(t[kind], kind)]
    BY <1>0, <1>4, <1>7, SpokenLedger DEF OtherSame
  <2> QED BY <2>1, <2>2 DEF L, p
<1> QED BY <1>2, <1>5, <1>6, <1>7, <1>10, <1>11 DEF Told

LEMMA PushTold ==
  ASSUME NEW v0 \in Views, NEW s, Busy(s), Told(v0, s), NEW kind \in Spokens,
         Fresh(s[kind]), ~s[kind].done, NEW d \in Seq(Texts)
  PROVE  LET t == Push(s, kind, d) IN
         /\ Busy(t) /\ Told(v0, t) /\ SameControl(s, t) /\ OtherSame(s, t, kind)
         /\ t[kind].index # Null /\ ~t[kind].done
<1> DEFINE o == [Added(s, kind, Null) EXCEPT ![kind].index = s.next]
<1>1. CASE s[kind].index # Null
  <2>1. Push(s, kind, d) = Delta([s EXCEPT ![kind].said = s[kind].said \o d], s[kind].index, d)
    BY <1>1 DEF Push
  <2> QED BY <1>1, <2>1, SaysSpoken
<1>2. CASE s[kind].index = Null
  <2>1. Push(s, kind, d) = Delta([o EXCEPT ![kind].said = o[kind].said \o d], o[kind].index, d)
    BY <1>2 DEF Push
  <2>2. /\ Busy(o) /\ Told(v0, o) /\ SameControl(s, o) /\ OtherSame(s, o, kind)
        /\ o[kind].index # Null /\ ~o[kind].done
    BY <1>2, OpensSpoken, NoneIsNoNumber
  <2> HIDE DEF o
  <2> DEFINE t == Delta([o EXCEPT ![kind].said = o[kind].said \o d], o[kind].index, d)
  <2>3. /\ Busy(t) /\ Told(v0, t) /\ SameControl(o, t) /\ OtherSame(o, t, kind)
        /\ t[kind].index # Null /\ ~t[kind].done
    BY <2>2, SaysSpoken
  <2> HIDE DEF t
  <2>4. SameControl(s, t) /\ OtherSame(s, t, kind) BY <2>2, <2>3 DEF SameControl, OtherSame
  <2>5. Push(s, kind, d) = t BY <2>1 DEF t
  <2> QED BY <2>3, <2>4, <2>5
<1> QED BY <1>1, <1>2

LEMMA FinalizeTold ==
  ASSUME NEW v0 \in Views, NEW s, Busy(s), Told(v0, s), NEW kind \in Spokens
  PROVE  LET t == Finalize(s, kind) IN
         /\ Busy(t) /\ Told(v0, t) /\ SameControl(s, t) /\ OtherSame(s, t, kind)
         /\ t[kind].index = s[kind].index /\ (t[kind].index # Null => t[kind].done)
         /\ (Fresh(s[kind]) => Fresh(t[kind]))
<1>1. CASE s[kind].index = Null \/ s[kind].done
  BY <1>1 DEF Finalize, SameControl, OtherSame
<1>2. CASE s[kind].index # Null /\ ~s[kind].done
  <2> DEFINE x == [s[kind] EXCEPT !.done = TRUE]
             a == [s EXCEPT ![kind] = x]
             item == [kind |-> kind, call |-> Null, said |-> s[kind].said]
             t == Done(a, s[kind].index, item)
             L == Ledger(s)
             p == <<kind, 0>>
  <2>0. /\ s \in Conv /\ p \in Places /\ L \in Ledgers /\ L[p] = SpokenLine(s[kind], kind)
        /\ s[kind] \in Spoken
    BY BusyStatus, PlacesAre, LedgerIs, SpokenIs
  <2>1. s[kind].index \in Nat /\ s[kind].said \in Seq(Texts) /\ <<>> \in Seq(Texts)
        /\ s[kind].said \o <<>> = s[kind].said
    BY <1>2, <2>0 DEF Spoken
  <2>2. x \in Spoken /\ x.index = s[kind].index /\ x.said = s[kind].said /\ x.done = TRUE
    BY <2>0, SetSaid
  <2>3. item \in Items BY <2>1 DEF Items, Spokens, Kinds, Ids
  <2>4. Finalize(s, kind) = t
    BY <1>2 DEF Finalize
  <2> HIDE DEF x
  <2>5. /\ a \in Conv /\ a[kind] = x /\ SameControl(s, a) /\ OtherSame(s, a, kind) /\ SameTold(s, a)
    BY <2>0, <2>2, SetSpoken DEF OtherSame
  <2> HIDE DEF a, item
  <2>6. /\ t \in Conv /\ t.out = Append(a.out, Closing(s[kind].index, item)) /\ t.next = a.next
        /\ SameControl(a, t) /\ SameSpoken(a, t) /\ t.tools = a.tools
        /\ t.output = a.output \cup {[index |-> s[kind].index, item |-> item]}
    BY <2>1, <2>3, <2>5, DoneIs
  <2> HIDE DEF t
  <2>7. t[kind] = x BY <2>5, <2>6, SameSpokenAt
  <2>8. SameControl(s, t) /\ OtherSame(s, t, kind) /\ Busy(t)
    <3>1. SameControl(s, t) BY <2>5, <2>6 DEF SameControl
    <3>2. OtherSame(s, t, kind) BY <2>5, <2>6 DEF OtherSame, SameSpoken
    <3> QED BY <2>6, <3>1, <3>2, BusyControl
  <2> HIDE DEF L, p
  <2>9. L[p].index = s[kind].index /\ L[p].index # Null /\ ~L[p].done BY <1>2, <2>0 DEF SpokenLine
  <2>10. Whole(L[p], <<>>) = item /\ WithWhole(s.output, L[p], <<>>) = t.output
    BY <2>0, <2>1, <2>5, <2>6, <2>9 DEF SpokenLine, Whole, item, WithWhole, SameTold
  <2>11. t.out = Append(s.out, Closing(L[p].index, Whole(L[p], <<>>))) /\ t.next = s.next
    BY <2>5, <2>6, <2>9, <2>10 DEF SameTold
  <2>12. ToldAs(v0, t, [L EXCEPT ![p] = Grown(L[p], <<>>, TRUE)])
    <3>1. ToldAs(v0, s, L) BY DEF Told, L
    <3> QED BY <2>0, <2>1, <2>8, <2>9, <2>10, <2>11, <3>1, ToldFinishes
  <2>13. Ledger(t) = [L EXCEPT ![p] = Grown(L[p], <<>>, TRUE)]
    <3>1. SpokenLine(t[kind], kind) = Grown(L[p], <<>>, TRUE)
      <4>1. L[p].index = s[kind].index /\ L[p].kind = kind /\ L[p].call = Null
            /\ L[p].said \o <<>> = s[kind].said
        BY <2>0, <2>1 DEF SpokenLine
      <4>2. SpokenLine(x, kind) = [index |-> s[kind].index, kind |-> kind, call |-> Null,
                                   said |-> s[kind].said, done |-> TRUE]
        BY <2>2 DEF SpokenLine
      <4> QED BY <2>7, <4>1, <4>2 DEF Grown
    <3>2. Ledger(t) = [Ledger(s) EXCEPT ![<<kind, 0>>] = SpokenLine(t[kind], kind)]
      BY <2>0, <2>6, <2>8, SpokenLedger DEF OtherSame
    <3> QED BY <3>1, <3>2 DEF L, p
  <2>14. Fresh(t[kind]) /\ t[kind].index = s[kind].index /\ t[kind].done
    BY <1>2, <2>2, <2>7 DEF Fresh
  <2> QED BY <2>4, <2>8, <2>12, <2>13, <2>14 DEF Told
<1> QED BY <1>1, <1>2

LEMMA PushSomeTold ==
  ASSUME NEW v0 \in Views, NEW s, Busy(s), Told(v0, s), NEW kind \in Spokens,
         Fresh(s[kind]), ~s[kind].done, NEW d \in Seq(Texts)
  PROVE  LET t == PushSome(s, kind, d) IN
         /\ Busy(t) /\ Told(v0, t) /\ SameControl(s, t) /\ OtherSame(s, t, kind)
         /\ Fresh(t[kind]) /\ ~t[kind].done
<1>1. CASE d = <<>>
  BY <1>1 DEF PushSome, SameControl, OtherSame
<1>2. CASE d # <<>>
  <2>1. PushSome(s, kind, d) = Push(s, kind, d) BY <1>2 DEF PushSome
  <2>2. LET t == Push(s, kind, d) IN
         /\ Busy(t) /\ Told(v0, t) /\ SameControl(s, t) /\ OtherSame(s, t, kind)
         /\ t[kind].index # Null /\ ~t[kind].done
    BY PushTold
  <2> QED BY <2>1, <2>2 DEF Fresh
<1> QED BY <1>1, <1>2

----
(* Tool calls. *)
ToolsOf(s, t, i) == SameSpoken(s, t) /\ \A j \in Indexes \ {i} : t.tools[j] = s.tools[j]

(* The line of a tool whose input is not all told yet. *)
Behind(line, tool) ==
  /\ line \in Lines /\ line.index = tool.index /\ line.index # Null
  /\ line.kind = Kind(tool.name) /\ line.call = tool.call /\ line.done = FALSE

LEMMA ToolIs ==
  ASSUME NEW s \in Conv, NEW i \in Indexes
  PROVE  /\ s.tools[i] \in Tools /\ <<"tool", i>> \in Places
         /\ Ledger(s) \in Ledgers /\ Ledger(s)[<<"tool", i>>] = ToolLine(s.tools[i])
BY PlacesAre, LedgerIs DEF Conv

LEMMA ToolsLedger ==
  ASSUME NEW s \in Conv, NEW t \in Conv, NEW i \in Indexes, ToolsOf(s, t, i)
  PROVE  Ledger(t) = [Ledger(s) EXCEPT ![<<"tool", i>>] = ToolLine(t.tools[i])]
BY ToolLedger DEF ToolsOf

LEMMA KindIsKind ==
  /\ \A name \in Names : Kind(name) \in Kinds
  /\ Kind("unknown") = "function_call" /\ Kind("function") = "function_call"
  /\ Kind("custom") = "custom_tool_call" /\ Kind(Null) = "function_call"
<1>1. Null # "custom" BY StreamAssumption
<1> QED BY <1>1 DEF Kind, Kinds

LEMMA Twice ==
  ASSUME NEW L, NEW p, NEW x, NEW y
  PROVE  [[L EXCEPT ![p] = x] EXCEPT ![p] = y] = [L EXCEPT ![p] = y]
OBVIOUS

LEMMA GrownIs ==
  ASSUME NEW line, NEW tool, NEW d, NEW done \in BOOLEAN, Behind(line, tool), tool.done = done,
         ToolLine(tool).said = line.said \o d
  PROVE  ToolLine(tool) = Grown(line, d, done)
BY DEF Behind, ToolLine, Grown

LEMMA TellsTool ==
  ASSUME NEW v0 \in Views, NEW s, Busy(s), NEW i \in Indexes, NEW L \in Ledgers, ToldAs(v0, s, L),
         Ledger(s) = [L EXCEPT ![<<"tool", i>>] = ToolLine(s.tools[i])],
         Behind(L[<<"tool", i>>], s.tools[i]), s.tools[i].done = FALSE, NEW d \in Seq(Texts),
         Kind(s.tools[i].name) = "custom_tool_call" => L[<<"tool", i>>].said = <<>>,
         Kind(s.tools[i].name) # "custom_tool_call" =>
           s.tools[i].said = L[<<"tool", i>>].said \o d
  PROVE  LET t == ToolDelta(s, i, d) IN
         /\ Busy(t) /\ Told(v0, t) /\ SameControl(s, t) /\ SameSpoken(s, t) /\ t.tools = s.tools
<1> DEFINE p == <<"tool", i>>
           tool == s.tools[i]
<1>0. /\ s \in Conv /\ tool \in Tools /\ p \in Places /\ L[p] \in Lines
  BY BusyStatus, ToolIs DEF Ledgers
<1>1. CASE d = <<>> \/ Kind(tool.name) = "custom_tool_call"
  <2>1. ToolDelta(s, i, d) = s BY <1>1 DEF ToolDelta
  <2>2. ToolLine(tool) = L[p]
    <3>1. L[p].said \in Seq(Texts) BY <1>0 DEF Lines
    <3>2. ToolLine(tool).said = L[p].said
      <4>1. CASE Kind(tool.name) = "custom_tool_call" BY <4>1 DEF ToolLine
      <4>2. CASE Kind(tool.name) # "custom_tool_call" /\ d = <<>>
        BY <3>1, <4>2 DEF ToolLine
      <4> QED BY <1>1, <4>1, <4>2
    <3>3. L[p] = [index |-> L[p].index, kind |-> L[p].kind, call |-> L[p].call,
                  said |-> L[p].said, done |-> L[p].done]
      BY <1>0 DEF Lines
    <3> QED BY <3>2, <3>3 DEF ToolLine, Behind
  <2>3. Ledger(s) = L
    BY <2>2 DEF Ledgers
  <2> QED BY <2>1, <2>3 DEF Told, SameControl, SameSpoken
<1>2. CASE d # <<>> /\ Kind(tool.name) # "custom_tool_call"
  <2> DEFINE t == Delta(s, tool.index, d)
  <2>1. ToolDelta(s, i, d) = t BY <1>2 DEF ToolDelta
  <2>2. tool.index \in Nat /\ L[p].index = tool.index /\ L[p].index # Null /\ ~L[p].done
    BY <1>0 DEF Behind, Tools
  <2>3. /\ t \in Conv /\ t.out = Append(s.out, Telling(L[p].index, d)) /\ t.next = s.next
        /\ SameControl(s, t) /\ SameSpoken(s, t) /\ t.tools = s.tools /\ t.output = s.output
    BY <1>0, <2>2, DeltaIs
  <2> HIDE DEF t
  <2>4. Busy(t) BY <2>3, BusyControl
  <2>5. ToldAs(v0, t, [L EXCEPT ![p] = Grown(L[p], d, FALSE)])
    <3> HIDE DEF p, tool
    <3> QED BY <1>0, <2>2, <2>3, <2>4, ToldStreams
  <2>6. ToolLine(tool) = Grown(L[p], d, FALSE)
    BY <1>2, GrownIs DEF ToolLine
  <2>7. Ledger(t) = [L EXCEPT ![p] = Grown(L[p], d, FALSE)]
    BY <1>0, <2>3, <2>6, SameLedger
  <2> QED BY <2>1, <2>3, <2>4, <2>5, <2>7 DEF Told
<1> QED BY <1>1, <1>2

LEMMA FinishesTool ==
  ASSUME NEW v0 \in Views, NEW s, Busy(s), NEW i \in Indexes, NEW L \in Ledgers, ToldAs(v0, s, L),
         Ledger(s) = [L EXCEPT ![<<"tool", i>>] = ToolLine(s.tools[i])],
         Behind(L[<<"tool", i>>], s.tools[i]), NEW d \in Seq(Texts),
         s.tools[i].said = L[<<"tool", i>>].said \o d
  PROVE  LET tool == s.tools[i]
             t == Done([s EXCEPT !.tools[i].done = TRUE], tool.index,
                       [kind |-> Kind(tool.name), call |-> tool.call, said |-> tool.said]) IN
         /\ Busy(t) /\ Told(v0, t) /\ SameControl(s, t) /\ ToolsOf(s, t, i)
         /\ t.tools[i].index # Null /\ t.tools[i].done
<1> DEFINE p == <<"tool", i>>
           tool == s.tools[i]
           x == [tool EXCEPT !.done = TRUE]
           a == [s EXCEPT !.tools[i] = x]
           item == [kind |-> Kind(tool.name), call |-> tool.call, said |-> tool.said]
           t == Done(a, tool.index, item)
<1>0. /\ s \in Conv /\ tool \in Tools /\ p \in Places /\ L[p] \in Lines
  BY BusyStatus, ToolIs DEF Ledgers
<1>1. /\ x \in Tools /\ x.index = tool.index /\ x.name = tool.name /\ x.call = tool.call
      /\ x.said = tool.said /\ x.done = TRUE
  BY <1>0 DEF Tools
<1>2. tool.index \in Nat /\ item \in Items
  BY <1>0, KindIsKind DEF Tools, Items, Behind
<1>3. [s EXCEPT !.tools[i].done = TRUE] = a OBVIOUS
<1> HIDE DEF x
<1>4. /\ a \in Conv /\ a.tools[i] = x /\ ToolsOf(s, a, i) /\ SameControl(s, a) /\ SameTold(s, a)
  <2>0. s \in Conv /\ x \in Tools BY <1>0, <1>1
  <2> HIDE DEF tool, p
  <2>1. /\ a \in Conv /\ a.tools[i] = x /\ (\A j \in Indexes \ {i} : a.tools[j] = s.tools[j])
        /\ SameControl(s, a) /\ SameSpoken(s, a) /\ SameTold(s, a)
    BY <2>0, SetTool
  <2> QED BY <2>1 DEF ToolsOf
<1> HIDE DEF a, item
<1>5. /\ t \in Conv /\ t.out = Append(a.out, Closing(tool.index, item)) /\ t.next = a.next
      /\ SameControl(a, t) /\ SameSpoken(a, t) /\ t.tools = a.tools
      /\ t.output = a.output \cup {[index |-> tool.index, item |-> item]}
  BY <1>2, <1>4, DoneIs
<1> HIDE DEF t
<1>6. SameControl(s, t) /\ ToolsOf(s, t, i) /\ t.tools[i] = x /\ Busy(t)
  BY <1>4, <1>5, BusyControl DEF SameControl, ToolsOf, SameSpoken
<1>7. L[p].index = tool.index /\ L[p].index # Null /\ ~L[p].done BY DEF Behind
<1>8. Whole(L[p], d) = item /\ WithWhole(s.output, L[p], d) = t.output
  BY <1>4, <1>5, <1>7 DEF Whole, item, Behind, WithWhole, SameTold
<1>9. t.out = Append(s.out, Closing(L[p].index, Whole(L[p], d))) /\ t.next = s.next
  BY <1>4, <1>5, <1>7, <1>8 DEF SameTold
<1>10. ToldAs(v0, t, [L EXCEPT ![p] = Grown(L[p], d, TRUE)])
  <2> HIDE DEF p, tool
  <2> QED BY <1>0, <1>6, <1>7, <1>8, <1>9, ToldFinishes
<1>11. ToolLine(x) = Grown(L[p], d, TRUE)
  BY <1>1 DEF ToolLine, Grown, Behind
<1>12. Ledger(t) = [L EXCEPT ![p] = Grown(L[p], d, TRUE)]
  <2>1. Ledger(t) = [Ledger(s) EXCEPT ![p] = ToolLine(x)]
    <3>1. SameSpoken(s, t) /\ \A j \in Indexes \ {i} : t.tools[j] = s.tools[j] BY <1>6 DEF ToolsOf
    <3>2. Ledger(t) = [Ledger(s) EXCEPT ![<<"tool", i>>] = ToolLine(t.tools[i])]
      <4>1. s \in Conv /\ t \in Conv /\ ToolsOf(s, t, i) BY <1>0, <1>5, <1>6
      <4> HIDE DEF tool
      <4> QED BY ONLY <4>1, i \in Indexes, ToolsLedger
    <3> QED BY <1>6, <3>2
  <2> QED BY <2>1, <1>11, Twice
<1>13. Done([s EXCEPT !.tools[i].done = TRUE], tool.index,
            [kind |-> Kind(tool.name), call |-> tool.call, said |-> tool.said]) = t
  BY <1>3 DEF t, item
<1>14. t.tools[i].index # Null /\ t.tools[i].done BY <1>1, <1>6, <1>7
<1> QED BY <1>6, <1>10, <1>12, <1>13, <1>14 DEF Told

(* The item of a call is opened, its input not yet told. *)
Opened(v0, t, i) ==
  \E L \in Ledgers :
    /\ ToldAs(v0, t, L) /\ Ledger(t) = [L EXCEPT ![<<"tool", i>>] = ToolLine(t.tools[i])]
    /\ Behind(L[<<"tool", i>>], t.tools[i]) /\ L[<<"tool", i>>].said = <<>>

LEMMA OpensTool ==
  ASSUME NEW v0 \in Views, NEW s, Busy(s), Told(v0, s), NEW i \in Indexes,
         s.tools[i].index = Null, s.tools[i].done = FALSE
  PROVE  LET t == AddTool(s, i) IN
         /\ Busy(t) /\ SameControl(s, t) /\ ToolsOf(s, t, i)
         /\ Opened(v0, t, i) /\ t.tools[i].said = s.tools[i].said /\ t.tools[i].done = FALSE
         /\ t.tools[i].name = IF s.tools[i].name = Null THEN "unknown" ELSE s.tools[i].name
<1> DEFINE p == <<"tool", i>>
           tool == s.tools[i]
           kind == Kind(tool.name)
           call == IF tool.call = Null THEN IdAt(i) ELSE tool.call
           name == IF tool.name = Null THEN "unknown" ELSE tool.name
           x == [index |-> s.next, call |-> call, name |-> name, said |-> tool.said, done |-> FALSE]
           a == Added(s, kind, call)
           t == AddTool(s, i)
           line == [index |-> s.next, kind |-> kind, call |-> call, said |-> <<>>, done |-> FALSE]
           K == Ledger(s)
           L == [K EXCEPT ![p] = line]
<1>0. /\ s \in Conv /\ s.next \in Nat /\ tool \in Tools /\ p \in Places /\ K \in Ledgers
      /\ K[p] = ToolLine(tool)
  BY BusyStatus, ToolIs
<1>1. kind \in Kinds /\ call \in Ids /\ name \in Names /\ kind = Kind(name)
  BY <1>0, KindIsKind DEF Tools, Ids, Names
<1>2. x \in Tools BY <1>0, <1>1 DEF Tools
<1>3. /\ a \in Conv /\ a.out = Append(s.out, Adding(s.next, kind, call)) /\ a.next = s.next + 1
      /\ SameControl(s, a) /\ SameSpoken(s, a) /\ a.tools = s.tools /\ a.output = s.output
  <2> HIDE DEF kind, call
  <2> QED BY <1>0, <1>1, AddedIs
<1>4. /\ t \in Conv /\ t.tools[i] = x /\ ToolsOf(a, t, i) /\ SameControl(a, t) /\ SameTold(a, t)
  <2>1. a.tools[i] = tool BY <1>3
  <2> HIDE DEF a
  <2> DEFINE x1 == [tool EXCEPT !.index = s.next]
             x2 == [x1 EXCEPT !.call = call]
             x3 == [x2 EXCEPT !.name = name]
             a1 == [a EXCEPT !.tools[i] = x1]
             a2 == [a1 EXCEPT !.tools[i] = x2]
             a3 == [a2 EXCEPT !.tools[i] = x3]
  <2>2. x1 \in Tools /\ x1.name = tool.name 
    BY <1>0 DEF Tools
  <2>3. x2 \in Tools /\ x2.name = tool.name 
    BY <1>0, <1>1 DEF Tools
  <2>4. x3 \in Tools /\ x3 = x
    <3>1. /\ x3.index = s.next /\ x3.call = call /\ x3.name = name /\ x3.said = tool.said
          /\ x3.done = FALSE /\ x3 \in Tools
      BY <1>0, <1>1, <2>3 DEF Tools
    <3> HIDE DEF x1, x2, x3
    <3>2. x3 = [index |-> x3.index, call |-> x3.call, name |-> x3.name, said |-> x3.said, done |-> x3.done]
      BY <3>1 DEF Tools
    <3> QED BY <3>1, <3>2
  <2> HIDE DEF x1, x2, x3
  <2>5. a1 \in Conv /\ a1.tools[i] = x1 /\ ToolsOf(a, a1, i) /\ SameControl(a, a1) /\ SameTold(a, a1)
    BY <1>3, <2>2, SetTool DEF ToolsOf
  <2>6. a1 = [a EXCEPT !.tools[i].index = s.next] BY <2>1 DEF x1
  <2> HIDE DEF a1
  <2>7. a2 \in Conv /\ a2.tools[i] = x2 /\ ToolsOf(a1, a2, i) /\ SameControl(a1, a2) /\ SameTold(a1, a2)
    BY <2>5, <2>3, SetTool DEF ToolsOf
  <2>8. a2 = [a1 EXCEPT !.tools[i].call = call] BY <2>5 DEF x2
  <2> HIDE DEF a2
  <2>9. a3 \in Conv /\ a3.tools[i] = x3 /\ ToolsOf(a2, a3, i) /\ SameControl(a2, a3) /\ SameTold(a2, a3)
    <3>1. a2 \in Conv /\ x3 \in Tools BY <2>7, <2>4
    <3> HIDE DEF x
    <3>2. /\ a3 \in Conv /\ a3.tools[i] = x3 /\ (\A j \in Indexes \ {i} : a3.tools[j] = a2.tools[j])
          /\ SameControl(a2, a3) /\ SameSpoken(a2, a3) /\ SameTold(a2, a3)
      BY <3>1, SetTool
    <3> QED BY <3>2 DEF ToolsOf
  <2>10. a3 = [a2 EXCEPT !.tools[i].name = name]
    BY <2>7 DEF x3
  <2> HIDE DEF a3
  <2>11. AddTool(s, i) = a3
    BY <2>6, <2>8, <2>10, <2>1 DEF AddTool, a
  <2>12. ToolsOf(a, a3, i) /\ SameControl(a, a3) /\ SameTold(a, a3)
    BY <2>5, <2>7, <2>9 DEF ToolsOf, SameSpoken, SameControl, SameTold
  <2> QED BY <2>4, <2>9, <2>11, <2>12 DEF t
<1> HIDE DEF a, x, t
<1>6. SameControl(s, t) /\ ToolsOf(s, t, i) /\ Busy(t)
  BY <1>3, <1>4, BusyControl DEF SameControl, ToolsOf, SameSpoken
<1>7. t.out = Append(s.out, Adding(s.next, kind, call)) /\ t.next = s.next + 1 /\ t.output = s.output
  BY <1>3, <1>4 DEF SameTold
<1>8. /\ x.index = s.next /\ x.call = call /\ x.name = name /\ x.said = tool.said /\ x.done = FALSE
  BY DEF x
<1>9. K[p].index = Null BY <1>0 DEF ToolLine
<1>10. L \in Ledgers /\ ToldAs(v0, t, L) /\ line \in Lines
  <2>1. ToldAs(v0, s, K) BY DEF Told
  <2>2. line \in Lines BY <1>0, <1>1 DEF Lines
  <2> HIDE DEF p, tool, kind, call, name, K
  <2>3. [K EXCEPT ![p] = line] \in Ledgers /\ ToldAs(v0, t, [K EXCEPT ![p] = line])
    BY <1>0, <1>1, <1>6, <1>7, <1>9, <2>1, ToldAdds
  <2> QED BY <2>2, <2>3
<1>11. L[p] = line BY <1>0 DEF Ledgers
<1>12. Ledger(t) = [L EXCEPT ![p] = ToolLine(x)]
  <2>1. Ledger(t) = [K EXCEPT ![p] = ToolLine(x)]
    BY <1>0, <1>4, <1>6, ToolLedger DEF ToolsOf
  <2> HIDE DEF K, p, line
  <2> QED BY <2>1, Twice
<1>13. Behind(line, x) /\ line.said = <<>>
  BY <1>0, <1>1, <1>8, <1>10, NoneIsNoNumber DEF Behind
<1>14. t.tools[i].name = IF s.tools[i].name = Null THEN "unknown" ELSE s.tools[i].name
  BY <1>4, <1>8
<1>15. /\ Busy(t) /\ SameControl(s, t) /\ ToolsOf(s, t, i) /\ L \in Ledgers /\ ToldAs(v0, t, L)
       /\ Ledger(t) = [L EXCEPT ![<<"tool", i>>] = ToolLine(t.tools[i])]
       /\ Behind(L[<<"tool", i>>], t.tools[i]) /\ L[<<"tool", i>>].said = <<>>
       /\ t.tools[i].said = s.tools[i].said /\ t.tools[i].done = FALSE
  <2> HIDE DEF L, line, K
  <2> QED BY <1>4, <1>6, <1>8, <1>10, <1>11, <1>12, <1>13
<1> HIDE DEF L
<1>16. Opened(v0, t, i) BY <1>15 DEF Opened
<1> QED BY <1>14, <1>15, <1>16 DEF t

(* Induction over a set of naturals: it has a least element. *)

LEMMA Least ==
  ASSUME NEW T, T \subseteq Nat, T # {}
  PROVE  \E x \in T : \A y \in T : x <= y
<1> DEFINE U == {1 .. n : n \in T}
<1>1. U \subseteq FiniteSubsetsOf(Nat) /\ U # {}
  <2>1. \A n \in T : 1 .. n \in SUBSET Nat
    OBVIOUS
  <2>2. \A n \in T : IsFiniteSet(1 .. n)
    BY FS_Interval
  <2>3. QED
    BY <2>1, <2>2 DEF FiniteSubsetsOf
<1>2. IsWellFoundedOn(StrictSubsetOrdering(Nat), FiniteSubsetsOf(Nat))
  BY FS_StrictSubsetOrderingWellFounded
<1>3. PICK u \in U : \A v \in U : <<v, u>> \notin StrictSubsetOrdering(Nat)
  BY <1>1, <1>2, WFMin
<1>4. PICK x \in T : u = 1 .. x
  OBVIOUS
<1>5. ASSUME NEW y \in T PROVE x <= y
  <2>1. SUFFICES ASSUME y < x PROVE FALSE
    BY <1>5
  <2>2. 1 .. y \subseteq 1 .. x /\ x \in 1 .. x /\ x \notin 1 .. y
    BY <2>1
  <2>3. 1 .. y \in SUBSET Nat /\ 1 .. x \in SUBSET Nat
    OBVIOUS
  <2>4. <<1 .. y, 1 .. x>> \in StrictSubsetOrdering(Nat)
    BY <2>2, <2>3 DEF StrictSubsetOrdering
  <2>5. QED
    BY <1>3, <1>4, <2>4
<1>6. QED
  BY <1>5

(* A set of naturals that holds 0 and with each number the next holds all. *)
LEMMA Induction ==
  ASSUME NEW n \in Nat, NEW T, 0 \in T,
         \A i \in 0 .. n - 1 : i \in T => i + 1 \in T
  PROVE  \A i \in 0 .. n : i \in T
<1> DEFINE Bad == {i \in 0 .. n : i \notin T}
<1>1. SUFFICES ASSUME Bad # {} PROVE FALSE
  OBVIOUS
<1>2. PICK x \in Bad : \A y \in Bad : x <= y
  <2>1. Bad \subseteq Nat
    OBVIOUS
  <2> HIDE DEF Bad
  <2>2. QED
    BY <1>1, <2>1, Least
<1>3. x # 0 /\ x - 1 \in 0 .. n - 1 /\ x - 1 \notin Bad
  BY <1>2
<1>4. QED
  BY <1>2, <1>3


----
(* A piece of a call. *)
PieceSet == [index : Indexes, call : Ids, name : Names, said : Seq(Texts)]

(* An open item stays of its kind. *)
Tidy(custom, tool) ==
  /\ tool.index # Null => tool.name # Null
  /\ tool.name = "unknown" => tool.index # Null /\ ~custom
  /\ tool.name = "custom" => custom
  /\ tool.done = FALSE
Fits(custom, tool, piece) ==
  /\ piece.name # Null => /\ piece.name \in {"function", "custom"}
                          /\ piece.name = "custom" => custom
                          /\ tool.index # Null => Kind(piece.name) = Kind(tool.name)
  /\ piece.call # Null => tool.index = Null \/ piece.call = tool.call

LEMMA MergedIs ==
  ASSUME NEW tool \in Tools, NEW piece \in PieceSet
  PROVE  LET x == Merged(tool, piece) IN
         /\ x \in Tools /\ x.index = tool.index /\ x.done = tool.done
         /\ x.said = tool.said \o piece.said
         /\ x.call = IF piece.call = Null THEN tool.call ELSE piece.call
         /\ x.name = IF piece.name = Null THEN tool.name ELSE piece.name
<1>1. tool.said \in Seq(Texts) /\ piece.said \in Seq(Texts) BY DEF Tools, PieceSet
<1>2. tool.said \o piece.said \in Seq(Texts) BY <1>1
<1> DEFINE c == IF piece.call = Null THEN tool.call ELSE piece.call
           n == IF piece.name = Null THEN tool.name ELSE piece.name
           d == tool.said \o piece.said
<1>3. c \in Ids /\ n \in Names BY DEF Tools, PieceSet
<1>4. Merged(tool, piece) = [tool EXCEPT !.call = c, !.name = n, !.said = d] BY DEF Merged
<1> HIDE DEF c, n, d
<1>5. LET x == [tool EXCEPT !.call = c, !.name = n, !.said = d] IN
      /\ x \in Tools /\ x.index = tool.index /\ x.done = tool.done /\ x.said = d /\ x.call = c /\ x.name = n
  BY <1>2, <1>3 DEF Tools, d
<1> QED BY <1>4, <1>5 DEF c, n, d

LEMMA ToldOther ==
  ASSUME NEW v0 \in Views, NEW s, NEW t, Busy(s), Busy(t), Told(v0, s), NEW i \in Indexes,
         ToolsOf(s, t, i), SameTold(s, t), s.tools[i].index = Null, t.tools[i].index = Null
  PROVE  Told(v0, t)
<1>1. PICK v \in Views : /\ Reads(v0, s.out, v) /\ v.status = StatusOf(s)
                         /\ Agrees(v, Ledger(s), s.next) /\ s.output = DoneIn(v)
  BY DEF Told, ToldAs
<1> DEFINE p == <<"tool", i>>
           K == [Ledger(s) EXCEPT ![p] = ToolLine(t.tools[i])]
<1>2. /\ s \in Conv /\ t \in Conv /\ s.next \in Nat /\ Ledger(s) \in Ledgers /\ p \in Places
      /\ Ledger(s)[p] = ToolLine(s.tools[i]) /\ t.tools[i] \in Tools /\ ToolLine(t.tools[i]) \in Lines
  BY BusyStatus, ToolIs, LinesAre
<1>3. Ledger(s)[p].index = Null /\ ToolLine(t.tools[i]).index = Null
  BY <1>2 DEF ToolLine
<1>4. Agrees(v, K, s.next)
  <2> HIDE DEF p
  <2> QED BY <1>1, <1>2, <1>3, OtherLine
<1>5. Ledger(t) = K BY <1>2, ToolsLedger
<1> QED BY <1>1, <1>4, <1>5, BusyStatus DEF Told, ToldAs, SameTold

LEMMA PushToolTold ==
  ASSUME NEW v0 \in Views, NEW s, Busy(s), Told(v0, s), NEW piece \in PieceSet,
         Tidy(s.custom, s.tools[piece.index]), Fits(s.custom, s.tools[piece.index], piece)
  PROVE  LET t == PushTool(s, piece) IN
         /\ Busy(t) /\ Told(v0, t) /\ SameControl(s, t) /\ ToolsOf(s, t, piece.index)
         /\ Tidy(t.custom, t.tools[piece.index])
<1> DEFINE i == piece.index
           old == s.tools[i]
           tool == Merged(old, piece)
           a == [s EXCEPT !.tools[i] = tool]
<1>0. /\ s \in Conv /\ i \in Indexes /\ old \in Tools /\ piece.said \in Seq(Texts)
      /\ s.custom \in BOOLEAN /\ old.said \in Seq(Texts)
  BY BusyStatus, ToolIs DEF PieceSet, Conv, Tools
<1>1. /\ tool \in Tools /\ tool.index = old.index /\ tool.done = FALSE
      /\ tool.said = old.said \o piece.said /\ tool.said \in Seq(Texts)
      /\ tool.call = (IF piece.call = Null THEN old.call ELSE piece.call)
      /\ tool.name = (IF piece.name = Null THEN old.name ELSE piece.name)
  BY <1>0, MergedIs DEF Tidy, Tools
<1>t. Tidy(s.custom, old) /\ Fits(s.custom, old, piece) OBVIOUS
<1>p. PushTool(s, piece) =
        IF a.tools[i].index # Null THEN ToolDelta(a, i, piece.said)
        ELSE IF (a.tools[i].call # Null \/ a.tools[i].name # Null) /\ ~(a.custom /\ a.tools[i].name = Null)
             THEN ToolDelta(AddTool(a, i), i, a.tools[i].said)
             ELSE a
  BY DEF PushTool
<1> HIDE DEF tool
<1>2. a \in Conv /\ a.tools[i] = tool /\ ToolsOf(s, a, i) /\ SameControl(s, a) /\ SameTold(s, a)
  <2>1. s \in Conv /\ tool \in Tools /\ i \in Indexes BY <1>0, <1>1
  <2> HIDE DEF i, old
  <2>2. /\ a \in Conv /\ a.tools[i] = tool /\ (\A j \in Indexes \ {i} : a.tools[j] = s.tools[j])
        /\ SameControl(s, a) /\ SameSpoken(s, a) /\ SameTold(s, a)
    BY <2>1, SetTool
  <2> QED BY <2>2 DEF ToolsOf
<1> HIDE DEF a
<1>3. Busy(a) /\ a.custom = s.custom BY <1>2, BusyControl DEF SameControl
<1>5. /\ tool.name = "custom" => s.custom
      /\ tool.name = "unknown" => old.index # Null /\ ~s.custom
  <2>1. CASE piece.name = Null BY <2>1, <1>1, <1>t DEF Tidy
  <2>2. CASE piece.name # Null BY <2>2, <1>1, <1>t DEF Fits
  <2> QED BY <2>1, <2>2
<1>6. CASE tool.index # Null
  <2> DEFINE L == Ledger(s)
             p == <<"tool", i>>
             t == ToolDelta(a, i, piece.said)
  <2>1. L \in Ledgers /\ L[p] = ToolLine(old) /\ L[p] \in Lines BY <1>0, ToolIs DEF Ledgers
  <2>3. old.done = FALSE BY <1>t DEF Tidy
  <2>n. old.name # Null /\ tool.name # Null
    <3>1. old.name # Null BY <1>1, <1>6, <1>t DEF Tidy
    <3> QED BY <3>1, <1>1
  <2>2. tool.call = old.call /\ Kind(tool.name) = Kind(old.name)
    BY <1>1, <1>6, <1>t DEF Fits
  <2>4. Behind(L[p], tool)
    BY <1>1, <1>6, <2>1, <2>2, <2>3 DEF Behind, ToolLine
  <2>5. Kind(tool.name) = "custom_tool_call" => L[p].said = <<>>
    BY <2>1, <2>2, <2>3 DEF ToolLine
  <2>6. Kind(tool.name) # "custom_tool_call" => tool.said = L[p].said \o piece.said
    <3>1. Kind(old.name) # "custom_tool_call" => L[p].said = old.said BY <2>1 DEF ToolLine
    <3> QED BY <3>1, <1>1, <2>2
  <2>7. ToldAs(v0, a, L)
    BY <1>0, <1>2, <1>3, BusyStatus, ToldSame DEF Told
  <2>8. Ledger(a) = [L EXCEPT ![p] = ToolLine(a.tools[i])]
    <3>1. ToolsOf(s, a, i) BY <1>2
    <3> HIDE DEF i, old
    <3> QED BY <1>0, <1>2, <3>1, ToolsLedger
  <2> HIDE DEF L
  <2>9. /\ Busy(t) /\ Told(v0, t) /\ SameControl(a, t) /\ SameSpoken(a, t) /\ t.tools = a.tools
    <3>1. /\ Busy(a) /\ i \in Indexes /\ L \in Ledgers /\ ToldAs(v0, a, L)
          /\ Ledger(a) = [L EXCEPT ![<<"tool", i>>] = ToolLine(a.tools[i])]
          /\ Behind(L[<<"tool", i>>], a.tools[i]) /\ a.tools[i].done = FALSE
          /\ piece.said \in Seq(Texts)
          /\ (Kind(a.tools[i].name) = "custom_tool_call" => L[<<"tool", i>>].said = <<>>)
          /\ (Kind(a.tools[i].name) # "custom_tool_call" =>
                a.tools[i].said = L[<<"tool", i>>].said \o piece.said)
      BY <1>0, <1>1, <1>2, <1>3, <2>1, <2>4, <2>5, <2>6, <2>7, <2>8
    <3> HIDE DEF i, old
    <3> QED BY ONLY <3>1, v0 \in Views, TellsTool
  <2> HIDE DEF t
  <2>10. SameControl(s, t) /\ ToolsOf(s, t, i)
    BY <1>2, <2>9 DEF SameControl, ToolsOf, SameSpoken
  <2>11. Tidy(t.custom, t.tools[i])
    BY <1>2, <2>9, <2>10, <2>n, <1>1, <1>5, <1>6 DEF SameControl, Tidy
  <2> QED BY <1>2, <1>p, <1>6, <2>9, <2>10, <2>11 DEF t
<1>7. CASE tool.index = Null
  <2>1. Told(v0, a)
    <3>1. /\ Busy(a) /\ ToolsOf(s, a, i) /\ SameTold(s, a) /\ s.tools[i].index = Null
          /\ a.tools[i].index = Null /\ i \in Indexes
      BY <1>0, <1>1, <1>2, <1>3, <1>7
    <3> HIDE DEF i, old
    <3> QED BY <3>1, ToldOther
  <2>2. CASE (tool.call # Null \/ tool.name # Null) /\ ~(a.custom /\ tool.name = Null)
    <3> DEFINE b == AddTool(a, i)
               t == ToolDelta(b, i, tool.said)
               p == <<"tool", i>>
    <3>0. /\ Busy(b) /\ SameControl(a, b) /\ ToolsOf(a, b, i)
          /\ Opened(v0, b, i) /\ b.tools[i].said = a.tools[i].said /\ b.tools[i].done = FALSE
          /\ b.tools[i].name = (IF a.tools[i].name = Null THEN "unknown" ELSE a.tools[i].name)
      <4>1. Busy(a) /\ i \in Indexes /\ a.tools[i].index = Null /\ a.tools[i].done = FALSE
        BY <1>0, <1>1, <1>2, <1>3, <1>7
      <4> HIDE DEF i, old
      <4> QED BY ONLY <4>1, <2>1, v0 \in Views, OpensTool
    <3> HIDE DEF b
    <3>1. PICK L \in Ledgers :
               /\ ToldAs(v0, b, L) /\ Ledger(b) = [L EXCEPT ![p] = ToolLine(b.tools[i])]
               /\ Behind(L[p], b.tools[i]) /\ L[p].said = <<>>
      BY <3>0 DEF Opened
    <3>2. /\ b.tools[i].said = tool.said /\ b.tools[i].said = L[p].said \o tool.said
          /\ b.tools[i].name = (IF tool.name = Null THEN "unknown" ELSE tool.name)
      <4>1. b.tools[i].said = tool.said BY <3>0, <1>2
      <4>2. <<>> \o tool.said = tool.said BY <1>1
      <4> QED BY <3>0, <3>1, <4>1, <4>2, <1>2
    <3>3. /\ Busy(t) /\ Told(v0, t) /\ SameControl(b, t) /\ SameSpoken(b, t) /\ t.tools = b.tools
      <4>1. i \in Indexes /\ tool.said \in Seq(Texts) BY <1>0, <1>1
      <4> HIDE DEF i, old
      <4>2. /\ Busy(b) /\ ToldAs(v0, b, L) /\ b.tools[i].done = FALSE
            /\ Ledger(b) = [L EXCEPT ![<<"tool", i>>] = ToolLine(b.tools[i])]
            /\ Behind(L[<<"tool", i>>], b.tools[i]) /\ L[<<"tool", i>>].said = <<>>
            /\ b.tools[i].said = L[<<"tool", i>>].said \o tool.said
        BY <3>0, <3>1, <3>2
      <4>3. /\ (Kind(b.tools[i].name) = "custom_tool_call" => L[<<"tool", i>>].said = <<>>)
            /\ (Kind(b.tools[i].name) # "custom_tool_call" =>
                  b.tools[i].said = L[<<"tool", i>>].said \o tool.said)
        BY <4>2
      <4> DEFINE d == tool.said
      <4>4. d = tool.said OBVIOUS
      <4> HIDE DEF p, d
      <4>5. LET y == ToolDelta(b, i, d) IN
            Busy(y) /\ Told(v0, y) /\ SameControl(b, y) /\ SameSpoken(b, y) /\ y.tools = b.tools
        BY ONLY <4>1, <4>2, <4>3, <4>4, L \in Ledgers, v0 \in Views, TellsTool
      <4> QED BY <4>4, <4>5
    <3> HIDE DEF t
    <3>4. SameControl(s, t) /\ ToolsOf(s, t, i)
      BY <1>2, <3>0, <3>3 DEF SameControl, ToolsOf, SameSpoken
    <3>5. Tidy(t.custom, t.tools[i])
      <4>1. t.tools[i] = b.tools[i] /\ t.custom = s.custom BY <3>3, <3>4 DEF SameControl
      <4>2. b.tools[i].name # Null /\ (b.tools[i].name = "custom" => s.custom)
        BY <3>2, <1>5, StreamAssumption
      <4>3. b.tools[i].name = "unknown" => ~s.custom /\ b.tools[i].index # Null
        BY <3>1, <2>2, <1>3, <3>2, <1>1, <1>5, <1>7 DEF Behind
      <4> QED BY <3>0, <4>1, <4>2, <4>3 DEF Tidy
    <3> QED BY <1>2, <1>p, <1>7, <2>2, <3>3, <3>4, <3>5 DEF t, b
  <2>3. CASE ~((tool.call # Null \/ tool.name # Null) /\ ~(a.custom /\ tool.name = Null))
    BY <1>1, <1>2, <1>3, <1>5, <1>7, <1>p, <2>3, <2>1 DEF Tidy
  <2> QED BY <2>2, <2>3
<1> QED BY <1>6, <1>7

LEMMA FinalizeToolTold ==
  ASSUME NEW v0 \in Views, NEW s, Busy(s), Told(v0, s), NEW i \in Indexes,
         s.tools[i].index = Null => s.tools[i].done = FALSE
  PROVE  LET t == FinalizeTool(s, i) IN
         /\ Busy(t) /\ Told(v0, t) /\ SameControl(s, t) /\ ToolsOf(s, t, i)
         /\ (t.tools[i].index # Null => t.tools[i].done)
         /\ (t.tools[i].index = Null => t.tools[i].done = FALSE)
<1>0. s \in Conv /\ s.tools[i] \in Tools /\ s.tools[i].said \in Seq(Texts) /\ <<>> \in Seq(Texts)
  <2>1. s \in Conv /\ s.tools[i] \in Tools BY BusyStatus, ToolIs
  <2>2. s.tools[i].said \in Seq(Texts) BY <2>1 DEF Tools
  <2>3. <<>> \in Seq(Texts) OBVIOUS
  <2> QED BY <2>1, <2>2, <2>3
<1>1. CASE s.tools[i] = NoTool \/ s.tools[i].done
  <2>1. FinalizeTool(s, i) = s BY <1>1 DEF FinalizeTool
  <2>2. s.tools[i].index # Null => s.tools[i].done BY <1>1 DEF NoTool
  <2>3. s.tools[i].index = Null => s.tools[i].done = FALSE OBVIOUS
  <2> QED BY <2>1, <2>2, <2>3 DEF SameControl, ToolsOf, SameSpoken
<1>2. CASE s.tools[i] # NoTool /\ ~s.tools[i].done
  <2> DEFINE a == IF s.tools[i].index = Null THEN AddTool(s, i) ELSE s
             tool == a.tools[i]
             t == Done([a EXCEPT !.tools[i].done = TRUE], tool.index,
                       [kind |-> Kind(tool.name), call |-> tool.call, said |-> tool.said])
             p == <<"tool", i>>
  <2>1. FinalizeTool(s, i) = t BY <1>2 DEF FinalizeTool
  <2>2. \E L \in Ledgers, d \in Seq(Texts) :
          /\ Busy(a) /\ SameControl(s, a) /\ ToolsOf(s, a, i) /\ ToldAs(v0, a, L)
          /\ Ledger(a) = [L EXCEPT ![p] = ToolLine(tool)]
          /\ Behind(L[p], tool) /\ tool.said = L[p].said \o d
    <3>1. CASE s.tools[i].index = Null
      <4> DEFINE b == AddTool(s, i)
      <4>0. a = b BY <3>1
      <4> HIDE DEF a
      <4>1. /\ Busy(b) /\ SameControl(s, b) /\ ToolsOf(s, b, i)
            /\ Opened(v0, b, i) /\ b.tools[i].said = s.tools[i].said
        BY <3>1, OpensTool
      <4> HIDE DEF b
      <4>2. PICK L \in Ledgers :
                 /\ ToldAs(v0, b, L) /\ Ledger(b) = [L EXCEPT ![p] = ToolLine(b.tools[i])]
                 /\ Behind(L[p], b.tools[i]) /\ L[p].said = <<>>
        BY <4>1 DEF Opened
      <4>3. <<>> \o s.tools[i].said = s.tools[i].said BY <1>0
      <4>4. tool.said = L[p].said \o s.tools[i].said BY <4>0, <4>1, <4>2, <4>3
      <4> QED BY <1>0, <4>0, <4>1, <4>2, <4>4
    <3>2. CASE s.tools[i].index # Null
      <4> DEFINE L == Ledger(s)
      <4>1. a = s BY <3>2
      <4> HIDE DEF a
      <4>2. L \in Ledgers /\ L[p] = ToolLine(tool) /\ L[p] \in Lines /\ p \in Places
        BY <4>1, <1>0, ToolIs DEF Ledgers
      <4>3. tool.done = FALSE /\ tool.said \in Seq(Texts) BY <1>0, <1>2, <4>1 DEF Tools
      <4>4. Behind(L[p], tool) BY <3>2, <4>1, <4>2, <4>3 DEF Behind, ToolLine
      <4>5. \E d \in Seq(Texts) : tool.said = L[p].said \o d
        <5>1. CASE Kind(tool.name) = "custom_tool_call"
          <6>1. L[p].said = <<>> BY <5>1, <4>2, <4>3 DEF ToolLine
          <6>2. <<>> \o tool.said = tool.said BY <4>3
          <6>3. tool.said = L[p].said \o tool.said BY <6>1, <6>2
          <6> HIDE DEF L, tool
          <6> QED BY <6>3, <4>3
        <5>2. CASE Kind(tool.name) # "custom_tool_call"
          <6>1. L[p].said = tool.said BY <5>2, <4>2, <4>3 DEF ToolLine
          <6>2. tool.said \o <<>> = tool.said BY <4>3
          <6>3. tool.said = L[p].said \o <<>> BY <6>1, <6>2
          <6> HIDE DEF L, tool
          <6> QED BY <6>3, <1>0
        <5> QED BY <5>1, <5>2
      <4>6. Ledger(a) = [L EXCEPT ![p] = ToolLine(tool)]
        BY <4>2, <4>1 DEF Ledgers
      <4>7. ToldAs(v0, a, L) /\ Busy(a) /\ SameControl(s, a) /\ ToolsOf(s, a, i)
        BY <4>1 DEF Told, SameControl, ToolsOf, SameSpoken
      <4> HIDE DEF L
      <4> QED BY <4>2, <4>4, <4>5, <4>6, <4>7
    <3> QED BY <3>1, <3>2
  <2> HIDE DEF a
  <2>3. PICK L \in Ledgers, d \in Seq(Texts) :
          /\ Busy(a) /\ SameControl(s, a) /\ ToolsOf(s, a, i) /\ ToldAs(v0, a, L)
          /\ Ledger(a) = [L EXCEPT ![p] = ToolLine(tool)]
          /\ Behind(L[p], tool) /\ tool.said = L[p].said \o d
    BY <2>2
  <2>4. /\ Busy(t) /\ Told(v0, t) /\ SameControl(a, t) /\ ToolsOf(a, t, i)
        /\ t.tools[i].index # Null /\ t.tools[i].done
    BY <2>3, FinishesTool
  <2> HIDE DEF t
  <2>5. SameControl(s, t) /\ ToolsOf(s, t, i)
    BY <2>3, <2>4 DEF SameControl, ToolsOf, SameSpoken
  <2> QED BY <2>1, <2>4, <2>5
<1> QED BY <1>1, <1>2

----
(* Folds over pieces and over positions. *)
PushedBy(s, q) ==
  CHOOSE g : g = [n \in 0..Len(q) |-> IF n = 0 THEN s ELSE PushTool(g[n - 1], q[n])]

LEMMA PushesEach ==
  ASSUME NEW s, NEW q, NEW k \in Nat, Len(q) = k
  PROVE  /\ PushedBy(s, q)[0] = s
         /\ \A n \in 0..(k - 1) : PushedBy(s, q)[n + 1] = PushTool(PushedBy(s, q)[n], q[n + 1])
<1> DEFINE Body(g, i) == IF i = 0 THEN s ELSE PushTool(g[i - 1], q[i])
           T == {m \in Nat : \E g : g = [i \in 0..m |-> Body(g, i)]}
<1>1. 0 \in T
  <2> DEFINE g == [i \in 0..0 |-> s]
  <2>1. g = [i \in 0..0 |-> Body(g, i)]
    <3>1. \A i \in 0..0 : Body(g, i) = s OBVIOUS
    <3> HIDE DEF Body
    <3> QED BY <3>1
  <2> HIDE DEF g
  <2> QED BY <2>1
<1>2. ASSUME NEW m \in 0..(k - 1), m \in T PROVE m + 1 \in T
  <2>1. PICK g : g = [i \in 0..m |-> Body(g, i)] BY <1>2
  <2> DEFINE h == [i \in 0..(m + 1) |-> IF i <= m THEN g[i] ELSE Body(g, i)]
  <2>2. ASSUME NEW i \in 0..(m + 1) PROVE h[i] = Body(h, i)
    <3>1. h[i] = Body(g, i)
      <4>1. CASE i <= m
        <5>1. i \in 0..m BY <4>1
        <5> HIDE DEF Body
        <5>2. g[i] = Body(g, i) BY <5>1, <2>1
        <5> QED BY <4>1, <5>2
      <4>2. CASE ~(i <= m)
        <5> HIDE DEF Body
        <5> QED BY <4>2
      <4> QED BY <4>1, <4>2
    <3>2. i # 0 => h[i - 1] = g[i - 1]
      <4>1. SUFFICES ASSUME i # 0 PROVE h[i - 1] = g[i - 1]
        OBVIOUS
      <4>2. i - 1 \in 0..(m + 1) /\ i - 1 <= m BY <4>1
      <4> HIDE DEF Body
      <4> QED BY <4>2
    <3>3. Body(h, i) = Body(g, i)
      <4> HIDE DEF h
      <4> QED BY <3>2
    <3> QED BY <3>1, <3>3
  <2>3. h = [i \in 0..(m + 1) |-> Body(h, i)]
    <3> DEFINE H == [i \in 0..(m + 1) |-> Body(h, i)]
    <3>1. DOMAIN h = 0..(m + 1) /\ h = [i \in DOMAIN h |-> h[i]] OBVIOUS
    <3> HIDE DEF h, Body
    <3>2. h = H BY <3>1, <2>2
    <3> QED BY <3>2
  <2>4. m + 1 \in Nat OBVIOUS
  <2> HIDE DEF h, Body
  <2> QED BY <2>3, <2>4
<1>3. k \in T
  <2> HIDE DEF T
  <2>1. \A i \in 0..k : i \in T BY <1>1, <1>2, Induction
  <2> QED BY <2>1
<1>4. PICK F : F = [i \in 0..k |-> Body(F, i)] BY <1>3
<1> DEFINE C == CHOOSE g : g = [n \in 0..Len(q) |-> IF n = 0 THEN s ELSE PushTool(g[n - 1], q[n])]
<1>5. C = [n \in 0..Len(q) |-> IF n = 0 THEN s ELSE PushTool(C[n - 1], q[n])]
  <2> DEFINE P(g) == g = [n \in 0..Len(q) |-> IF n = 0 THEN s ELSE PushTool(g[n - 1], q[n])]
  <2>1. P(F) BY <1>4
  <2>2. P(CHOOSE g : P(g))
    <3> HIDE DEF P
    <3> QED BY <2>1
  <2> QED BY <2>2
<1> HIDE DEF C, Body, T
<1>6. \A n \in 0..k : C[n] = IF n = 0 THEN s ELSE PushTool(C[n - 1], q[n]) BY <1>5, Zenon
<1>7. C[0] = s BY <1>6
<1>8. ASSUME NEW n \in 0..(k - 1) PROVE C[n + 1] = PushTool(C[n], q[n + 1])
  BY <1>6
<1> QED BY <1>7, <1>8 DEF C, PushedBy

FinalizedBy(s, q) ==
  CHOOSE g : g = [n \in 0..Len(q) |-> IF n = 0 THEN s ELSE FinalizeTool(g[n - 1], q[n])]

LEMMA FinalizesEach ==
  ASSUME NEW s, NEW q, NEW k \in Nat, Len(q) = k
  PROVE  /\ FinalizedBy(s, q)[0] = s
         /\ \A n \in 0..(k - 1) : FinalizedBy(s, q)[n + 1] = FinalizeTool(FinalizedBy(s, q)[n], q[n + 1])
<1> DEFINE Body(g, i) == IF i = 0 THEN s ELSE FinalizeTool(g[i - 1], q[i])
           T == {m \in Nat : \E g : g = [i \in 0..m |-> Body(g, i)]}
<1>1. 0 \in T
  <2> DEFINE g == [i \in 0..0 |-> s]
  <2>1. g = [i \in 0..0 |-> Body(g, i)]
    <3>1. \A i \in 0..0 : Body(g, i) = s OBVIOUS
    <3> HIDE DEF Body
    <3> QED BY <3>1
  <2> HIDE DEF g
  <2> QED BY <2>1
<1>2. ASSUME NEW m \in 0..(k - 1), m \in T PROVE m + 1 \in T
  <2>1. PICK g : g = [i \in 0..m |-> Body(g, i)] BY <1>2
  <2> DEFINE h == [i \in 0..(m + 1) |-> IF i <= m THEN g[i] ELSE Body(g, i)]
  <2>2. ASSUME NEW i \in 0..(m + 1) PROVE h[i] = Body(h, i)
    <3>1. h[i] = Body(g, i)
      <4>1. CASE i <= m
        <5>1. i \in 0..m BY <4>1
        <5> HIDE DEF Body
        <5>2. g[i] = Body(g, i) BY <5>1, <2>1
        <5> QED BY <4>1, <5>2
      <4>2. CASE ~(i <= m)
        <5> HIDE DEF Body
        <5> QED BY <4>2
      <4> QED BY <4>1, <4>2
    <3>2. i # 0 => h[i - 1] = g[i - 1]
      <4>1. SUFFICES ASSUME i # 0 PROVE h[i - 1] = g[i - 1]
        OBVIOUS
      <4>2. i - 1 \in 0..(m + 1) /\ i - 1 <= m BY <4>1
      <4> HIDE DEF Body
      <4> QED BY <4>2
    <3>3. Body(h, i) = Body(g, i)
      <4> HIDE DEF h
      <4> QED BY <3>2
    <3> QED BY <3>1, <3>3
  <2>3. h = [i \in 0..(m + 1) |-> Body(h, i)]
    <3> DEFINE H == [i \in 0..(m + 1) |-> Body(h, i)]
    <3>1. DOMAIN h = 0..(m + 1) /\ h = [i \in DOMAIN h |-> h[i]] OBVIOUS
    <3> HIDE DEF h, Body
    <3>2. h = H BY <3>1, <2>2
    <3> QED BY <3>2
  <2>4. m + 1 \in Nat OBVIOUS
  <2> HIDE DEF h, Body
  <2> QED BY <2>3, <2>4
<1>3. k \in T
  <2> HIDE DEF T
  <2>1. \A i \in 0..k : i \in T BY <1>1, <1>2, Induction
  <2> QED BY <2>1
<1>4. PICK F : F = [i \in 0..k |-> Body(F, i)] BY <1>3
<1> DEFINE C == CHOOSE g : g = [n \in 0..Len(q) |-> IF n = 0 THEN s ELSE FinalizeTool(g[n - 1], q[n])]
<1>5. C = [n \in 0..Len(q) |-> IF n = 0 THEN s ELSE FinalizeTool(C[n - 1], q[n])]
  <2> DEFINE P(g) == g = [n \in 0..Len(q) |-> IF n = 0 THEN s ELSE FinalizeTool(g[n - 1], q[n])]
  <2>1. P(F) BY <1>4
  <2>2. P(CHOOSE g : P(g))
    <3> HIDE DEF P
    <3> QED BY <2>1
  <2> QED BY <2>2
<1> HIDE DEF C, Body, T
<1>6. \A n \in 0..k : C[n] = IF n = 0 THEN s ELSE FinalizeTool(C[n - 1], q[n]) BY <1>5, Zenon
<1>7. C[0] = s BY <1>6
<1>8. ASSUME NEW n \in 0..(k - 1) PROVE C[n + 1] = FinalizeTool(C[n], q[n + 1])
  BY <1>6
<1> QED BY <1>7, <1>8 DEF C, FinalizedBy


LEMMA PushToolsTold ==
  ASSUME NEW v0 \in Views, NEW s, Busy(s), Told(v0, s), NEW q \in Seq(PieceSet),
         \A m, n \in 1..Len(q) : q[m].index = q[n].index => m = n,
         \A i \in Indexes : Tidy(s.custom, s.tools[i]),
         \A n \in 1..Len(q) : Fits(s.custom, s.tools[q[n].index], q[n])
  PROVE  LET t == PushTools(s, q) IN
         /\ Busy(t) /\ Told(v0, t) /\ SameControl(s, t) /\ SameSpoken(s, t)
         /\ \A i \in Indexes : Tidy(t.custom, t.tools[i])
<1> DEFINE k == Len(q)
           F == PushedBy(s, q)
           Good(n) == /\ Busy(F[n]) /\ Told(v0, F[n]) /\ SameControl(s, F[n]) /\ SameSpoken(s, F[n])
                      /\ \A i \in Indexes : Tidy(F[n].custom, F[n].tools[i])
                      /\ \A m \in (n + 1)..k : F[n].tools[q[m].index] = s.tools[q[m].index]
           T == {n \in Nat : Good(n)}
<1>0. k \in Nat /\ \A n \in 1..k : q[n] \in PieceSet OBVIOUS
<1>1. F[0] = s /\ \A n \in 0..(k - 1) : F[n + 1] = PushTool(F[n], q[n + 1])
  <2>1. k \in Nat /\ Len(q) = k BY <1>0
  <2> HIDE DEF k
  <2> QED BY ONLY <2>1, PushesEach
<1>2. PushTools(s, q) = F[k] BY DEF PushTools, PushedBy
<1> HIDE DEF F, k
<1>3. 0 \in T BY <1>1 DEF SameControl, SameSpoken
<1>4. ASSUME NEW n \in 0..(k - 1), n \in T PROVE n + 1 \in T
  <2> DEFINE r == F[n]
             piece == q[n + 1]
             t == PushTool(r, piece)
  <2>0. n + 1 \in (n + 1)..k /\ n + 1 \in 1..k /\ n + 1 \in Nat BY <1>0
  <2>1. piece \in PieceSet /\ piece.index \in Indexes BY <2>0, <1>0 DEF PieceSet
  <2>2. Good(n) BY <1>4
  <2>3. /\ Tidy(r.custom, r.tools[piece.index]) /\ r.tools[piece.index] = s.tools[piece.index]
        /\ r.custom = s.custom
    BY <2>0, <2>1, <2>2 DEF SameControl
  <2>4. Fits(r.custom, r.tools[piece.index], piece) BY <2>0, <2>3 DEF k
  <2>5. F[n + 1] = t BY <1>1
  <2>6. Busy(r) /\ Told(v0, r) BY <2>2
  <2> HIDE DEF r, piece
  <2>7. /\ Busy(t) /\ Told(v0, t) /\ SameControl(r, t) /\ ToolsOf(r, t, piece.index)
        /\ Tidy(t.custom, t.tools[piece.index])
    BY <2>1, <2>3, <2>4, <2>6, PushToolTold
  <2> HIDE DEF t
  <2>8. SameControl(s, t) /\ SameSpoken(s, t)
    BY <2>2, <2>7 DEF SameControl, SameSpoken, ToolsOf, r
  <2>9. ASSUME NEW i \in Indexes PROVE Tidy(t.custom, t.tools[i])
    <3>1. CASE i = piece.index BY <3>1, <2>7
    <3>2. CASE i # piece.index
      BY <3>2, <2>7, <2>2 DEF ToolsOf, SameControl, r
    <3> QED BY <3>1, <3>2
  <2>10. ASSUME NEW m \in (n + 2)..k PROVE t.tools[q[m].index] = s.tools[q[m].index]
    <3>1. m \in 1..k /\ m # n + 1 /\ m \in (n + 1)..k BY <1>0
    <3>2. q[m].index # piece.index BY <3>1, <2>0 DEF k, piece
    <3>3. q[m].index \in Indexes BY <3>1, <1>0 DEF PieceSet
    <3>4. t.tools[q[m].index] = r.tools[q[m].index] BY <3>2, <3>3, <2>7 DEF ToolsOf
    <3>5. r.tools[q[m].index] = s.tools[q[m].index] BY <3>1, <2>2 DEF r
    <3> QED BY <3>4, <3>5
  <2>11. Good(n + 1)
    BY <2>5, <2>7, <2>8, <2>9, <2>10
  <2> HIDE DEF Good
  <2> QED BY <2>0, <2>11
<1>5. k \in T
  <2> HIDE DEF T
  <2>1. \A n \in 0..k : n \in T BY <1>0, <1>3, <1>4, Induction
  <2> QED BY <2>1, <1>0
<1>6. Good(k) BY <1>5
<1> QED BY <1>2, <1>6

----
(* The order of positions. *)
Below(S, x) == {y \in S : y < x}

LEMMA RanksAre ==
  ASSUME NEW S, S \subseteq Nat, IsFiniteSet(S)
  PROVE  /\ Cardinality(S) \in Nat
         /\ \A x \in S : Cardinality(Below(S, x)) \in 0..(Cardinality(S) - 1)
         /\ \A x, y \in S : Cardinality(Below(S, x)) = Cardinality(Below(S, y)) => x = y
<1>0. Cardinality(S) \in Nat BY FS_CardinalityType
<1>1. ASSUME NEW x \in S
      PROVE  /\ IsFiniteSet(Below(S, x)) /\ Cardinality(Below(S, x)) \in Nat
             /\ Cardinality(Below(S, x)) < Cardinality(S)
  BY FS_Subset, FS_CardinalityType, <1>0 DEF Below
<1>2. ASSUME NEW x \in S, NEW y \in S, x < y
      PROVE  Cardinality(Below(S, x)) < Cardinality(Below(S, y))
  <2>1. Below(S, x) \in SUBSET Below(S, y) /\ x \in Below(S, y) /\ x \notin Below(S, x)
    <3>1. x \in Nat /\ y \in Nat /\ (\A z \in S : z \in Nat) /\ x < y BY <1>2
    <3>2. ASSUME NEW z \in S, z < x PROVE z < y BY <3>1, <3>2
    <3>3. ~(x < x) BY <3>1
    <3> QED BY <3>1, <3>2, <3>3 DEF Below
  <2>2. Cardinality(Below(S, x)) <= Cardinality(Below(S, y))
        /\ (Cardinality(Below(S, y)) = Cardinality(Below(S, x)) => Below(S, y) = Below(S, x))
    BY <1>1, <2>1, FS_Subset
  <2> QED BY <1>1, <2>1, <2>2
<1>3. ASSUME NEW x \in S, NEW y \in S, Cardinality(Below(S, x)) = Cardinality(Below(S, y))
      PROVE  x = y
  <2>1. CASE x < y BY <2>1, <1>1, <1>2, <1>3
  <2>2. CASE y < x BY <2>2, <1>1, <1>2, <1>3
  <2>3. x \in Nat /\ y \in Nat OBVIOUS
  <2> QED BY <2>1, <2>2, <2>3
<1> QED BY <1>0, <1>1, <1>3

LEMMA EveryRank ==
  ASSUME NEW S, S \subseteq Nat, IsFiniteSet(S), NEW k \in 0..(Cardinality(S) - 1)
  PROVE  \E x \in S : Cardinality(Below(S, x)) = k
<1> DEFINE n == Cardinality(S)
           U == 0..(n - 1)
           f == [x \in S |-> Cardinality(Below(S, x))]
<1>0. n \in Nat BY RanksAre
<1>1. f \in Injection(S, U)
  BY RanksAre DEF Injection, IsInjective
<1>2. IsFiniteSet(U) /\ Cardinality(U) = n
  <2>1. CASE n = 0
    <3>1. U = {} BY <2>1
    <3> HIDE DEF U
    <3> QED BY <2>1, <3>1, FS_EmptySet
  <2>2. CASE n # 0
    <3>1. n - 1 \in Int /\ 0 \in Int /\ ~(0 > n - 1) /\ (n - 1) - 0 + 1 = n BY <1>0, <2>2
    <3> HIDE DEF n
    <3>2. Cardinality(0..(n - 1)) = (n - 1) - 0 + 1 /\ IsFiniteSet(0..(n - 1)) BY <3>1, FS_Interval
    <3> QED BY <3>1, <3>2
  <2> QED BY <2>1, <2>2
<1>3. f \in Surjection(S, U)
  <2> HIDE DEF f, U
  <2> QED BY <1>1, <1>2, FS_Injection
<1>4. \E x \in S : f[x] = k BY <1>3 DEF Surjection
<1> QED BY <1>4

LEMMA InOrderIs ==
  ASSUME NEW S, S \subseteq Nat, IsFiniteSet(S)
  PROVE  /\ Len(InOrder(S)) = Cardinality(S) /\ Cardinality(S) \in Nat
         /\ DOMAIN InOrder(S) = 1..Cardinality(S)
         /\ \A n \in 1..Cardinality(S) : InOrder(S)[n] \in S /\ Cardinality(Below(S, InOrder(S)[n])) = n - 1
         /\ \A x \in S : \E n \in 1..Cardinality(S) : InOrder(S)[n] = x
<1> DEFINE k == Cardinality(S)
           o == InOrder(S)
<1>0. k \in Nat BY RanksAre
<1>1. o = [n \in 1..k |-> CHOOSE x \in S : Cardinality(Below(S, x)) = n - 1]
  BY DEF InOrder, Below
<1> HIDE DEF o, k
<1>2. DOMAIN o = 1..k /\ Len(o) = k BY <1>0, <1>1
<1>3. ASSUME NEW n \in 1..k PROVE o[n] \in S /\ Cardinality(Below(S, o[n])) = n - 1
  <2>1. n - 1 \in 0..(Cardinality(S) - 1) BY <1>0 DEF k
  <2>2. \E x \in S : Cardinality(Below(S, x)) = n - 1 BY <2>1, EveryRank
  <2>3. o[n] = CHOOSE x \in S : Cardinality(Below(S, x)) = n - 1 BY <1>1
  <2> QED BY <2>2, <2>3
<1>4. ASSUME NEW x \in S PROVE \E n \in 1..k : o[n] = x
  <2> DEFINE r == Cardinality(Below(S, x))
  <2>1. r \in 0..(k - 1) BY RanksAre DEF k
  <2>2. r + 1 \in 1..k /\ (r + 1) - 1 = r BY <2>1, <1>0
  <2>3. o[r + 1] \in S /\ Cardinality(Below(S, o[r + 1])) = r
    <3> HIDE DEF r
    <3> QED BY <1>3, <2>2
  <2>4. o[r + 1] = x BY <2>3, RanksAre
  <2> HIDE DEF r
  <2> QED BY <2>2, <2>4
<1> QED BY <1>0, <1>2, <1>3, <1>4 DEF k, o

LEMMA FinalizeToolsTold ==
  ASSUME NEW v0 \in Views, NEW s, Busy(s), Told(v0, s),
         \A i \in Indexes : s.tools[i].index = Null => s.tools[i].done = FALSE
  PROVE  LET t == FinalizeTools(s) IN
         /\ Busy(t) /\ Told(v0, t) /\ SameControl(s, t) /\ SameSpoken(s, t)
         /\ \A i \in Indexes : t.tools[i].index # Null => t.tools[i].done
<1> DEFINE q == InOrder(Indexes)
           k == Len(q)
           F == FinalizedBy(s, q)
           Good(n) == /\ Busy(F[n]) /\ Told(v0, F[n]) /\ SameControl(s, F[n]) /\ SameSpoken(s, F[n])
                      /\ \A i \in Indexes : F[n].tools[i].index = Null => F[n].tools[i].done = FALSE
                      /\ \A m \in 1..n : F[n].tools[q[m]].index # Null => F[n].tools[q[m]].done
           T == {n \in Nat : Good(n)}
<1>0. /\ k \in Nat /\ (\A n \in 1..k : q[n] \in Indexes)
      /\ \A i \in Indexes : \E n \in 1..k : q[n] = i
  BY StreamAssumption, InOrderIs
<1>2. FinalizeTools(s) = F[k] BY DEF FinalizeTools, FinalizedBy
<1> HIDE DEF q
<1>1. F[0] = s /\ \A n \in 0..(k - 1) : F[n + 1] = FinalizeTool(F[n], q[n + 1])
  <2>1. k \in Nat /\ Len(q) = k BY <1>0
  <2> HIDE DEF k
  <2> QED BY ONLY <2>1, FinalizesEach
<1> HIDE DEF F, k
<1>3. 0 \in T BY <1>1 DEF SameControl, SameSpoken
<1>4. ASSUME NEW n \in 0..(k - 1), n \in T PROVE n + 1 \in T
  <2> DEFINE r == F[n]
             i == q[n + 1]
             t == FinalizeTool(r, i)
  <2>0. n + 1 \in 1..k /\ n + 1 \in Nat BY <1>0
  <2>1. i \in Indexes BY <2>0, <1>0
  <2>2. Good(n) BY <1>4
  <2>5. F[n + 1] = t BY <1>1
  <2>6. Busy(r) /\ Told(v0, r) /\ (r.tools[i].index = Null => r.tools[i].done = FALSE) BY <2>1, <2>2
  <2> HIDE DEF r, i
  <2>7. /\ Busy(t) /\ Told(v0, t) /\ SameControl(r, t) /\ ToolsOf(r, t, i)
        /\ (t.tools[i].index # Null => t.tools[i].done)
        /\ (t.tools[i].index = Null => t.tools[i].done = FALSE)
    BY <2>1, <2>6, FinalizeToolTold
  <2> HIDE DEF t
  <2>8. SameControl(s, t) /\ SameSpoken(s, t)
    BY <2>2, <2>7 DEF SameControl, SameSpoken, ToolsOf, r
  <2>9. ASSUME NEW j \in Indexes PROVE t.tools[j].index = Null => t.tools[j].done = FALSE
    <3>1. CASE j = i BY <3>1, <2>7
    <3>2. CASE j # i
      BY <3>2, <2>7, <2>2 DEF ToolsOf, r
    <3> QED BY <3>1, <3>2
  <2>10. ASSUME NEW m \in 1..(n + 1) PROVE t.tools[q[m]].index # Null => t.tools[q[m]].done
    <3>1. CASE q[m] = i BY <3>1, <2>7
    <3>2. CASE q[m] # i
      BY <3>2, <1>0, <2>7, <2>2 DEF i, ToolsOf, r
    <3> QED BY <3>1, <3>2
  <2>11. Good(n + 1) BY <2>5, <2>7, <2>8, <2>9, <2>10
  <2> HIDE DEF Good
  <2> QED BY <2>0, <2>11
<1>5. k \in T
  <2> HIDE DEF T
  <2>1. \A n \in 0..k : n \in T BY <1>0, <1>3, <1>4, Induction
  <2> QED BY <2>1, <1>0
<1>6. Good(k) BY <1>5
<1>7. ASSUME NEW i \in Indexes PROVE F[k].tools[i].index # Null => F[k].tools[i].done
  <2>1. PICK m \in 1..k : q[m] = i BY <1>0
  <2> QED BY <2>1, <1>6
<1> QED BY <1>2, <1>6, <1>7

----
(* Text and the think block at its head. *)
Calm(s) ==
  /\ Fresh(s.reasoning) /\ Fresh(s.message) /\ ~s.message.done
  /\ s.reasoning.done => s.mode = "text"

(* What a step of the text leaves alone. *)
Beside(s, t) == t.custom = s.custom /\ t.tools = s.tools
Modes == {"detecting", "reasoning", "text"}

LEMMA EmptyText == <<>> \in Seq(Texts)
OBVIOUS

Turned(s, m, b) == [s EXCEPT !.mode = m, !.buffer = b]

LEMMA SetText ==
  ASSUME NEW v0 \in Views, NEW s, Busy(s), Told(v0, s), NEW m \in Modes, NEW b \in Seq(Texts)
  PROVE  LET t == Turned(s, m, b) IN
         /\ Busy(t) /\ Told(v0, t) /\ Beside(s, t) /\ SameSpoken(s, t)
         /\ t.mode = m /\ t.buffer = b
<1> DEFINE a == [s EXCEPT !.mode = m]
           t == [a EXCEPT !.buffer = b]
<1>0. s \in Conv BY BusyStatus
<1>1. /\ a \in Conv /\ a.mode = m /\ a.started = s.started /\ a.completed = s.completed
      /\ a.failed = s.failed /\ a.custom = s.custom /\ SameSpoken(s, a) /\ a.tools = s.tools
      /\ SameTold(s, a)
  BY <1>0, SetMode DEF Modes
<1> HIDE DEF a
<1>2. /\ t \in Conv /\ t.mode = m /\ t.buffer = b /\ t.started = s.started /\ t.completed = s.completed
      /\ t.failed = s.failed /\ t.custom = s.custom /\ SameSpoken(s, t) /\ t.tools = s.tools
      /\ SameTold(s, t)
  BY <1>1, SetBuffer DEF SameSpoken, SameTold
<1>3. Turned(s, m, b) = t BY DEF a, Turned
<1> HIDE DEF t
<1>4. Busy(t) BY <1>2 DEF Busy
<1>5. Ledger(t) = Ledger(s) BY <1>0, <1>2, SameLedger
<1>6. ToldAs(v0, t, Ledger(s)) BY <1>0, <1>2, <1>4, BusyStatus, ToldSame DEF Told
<1> QED BY <1>2, <1>3, <1>4, <1>5, <1>6 DEF Told, Beside

LEMMA SetSpeaking ==
  ASSUME NEW v0 \in Views, NEW s, Busy(s), Told(v0, s)
  PROVE  LET t == Turned(s, "text", <<>>) IN
         Busy(t) /\ Told(v0, t) /\ Beside(s, t) /\ SameSpoken(s, t) /\ t.mode = "text"
<1> DEFINE b == <<>>
           m == "text"
<1>1. b \in Seq(Texts) /\ m \in Modes BY DEF Modes
<1> HIDE DEF b, m
<1>2. LET t == Turned(s, m, b) IN
         Busy(t) /\ Told(v0, t) /\ Beside(s, t) /\ SameSpoken(s, t) /\ t.mode = m
  BY <1>1, SetText
<1> QED BY <1>2 DEF b, m

LEMMA ClosedIs ==
  ASSUME NEW b \in Seq(Texts), Closed(b)
  PROVE  Thought(b) \in Seq(Texts) /\ Answer(b) \in Seq(Texts)
<1>1. FirstClose(b) \in Closes(b)
  <2>1. Closes(b) \subseteq Nat /\ Closes(b) # {} BY DEF Closed, Closes
  <2>2. \E i \in Closes(b) : \A j \in Closes(b) : i <= j BY <2>1, Least
  <2> QED BY <2>2 DEF FirstClose
<1>2. Len(b) \in Nat /\ FirstClose(b) \in 3..(Len(b) - 1) BY <1>1 DEF Closes
<1>3. Thought(b) \in Seq(Texts)
  <2>1. FirstClose(b) - 1 \in Int /\ \A i \in 3..(FirstClose(b) - 1) : b[i] \in Texts BY <1>2
  <2> QED BY <2>1, SubSeqProperties DEF Thought
<1>4. Answer(b) \in Seq(Texts)
  BY <1>2, SubSeqProperties DEF Answer
<1> QED BY <1>3, <1>4

(* Reasoning ends, and the text goes on. *)
LEMMA SpeaksAfter ==
  ASSUME NEW v0 \in Views, NEW s, Busy(s), Told(v0, s), Calm(s), s.mode = "text", NEW d \in Seq(Texts)
  PROVE  LET t == Push(Finalize(s, "reasoning"), "message", d) IN
         Busy(t) /\ Told(v0, t) /\ Calm(t) /\ Beside(s, t) /\ t.mode = "text"
<1> DEFINE a == Finalize(s, "reasoning")
           t == Push(a, "message", d)
<1>1. /\ Busy(a) /\ Told(v0, a) /\ SameControl(s, a) /\ OtherSame(s, a, "reasoning")
      /\ (Fresh(s["reasoning"]) => Fresh(a["reasoning"]))
  BY FinalizeTold DEF Spokens
<1>2. Fresh(a["reasoning"]) /\ Fresh(a["message"]) /\ ~a["message"].done
  BY <1>1 DEF Calm, OtherSame
<1> HIDE DEF a
<1>3. /\ Busy(t) /\ Told(v0, t) /\ SameControl(a, t) /\ OtherSame(a, t, "message")
      /\ t["message"].index # Null /\ ~t["message"].done
  BY <1>1, <1>2, PushTold DEF Spokens
<1> HIDE DEF t
<1>4. t.mode = "text" /\ Beside(s, t) BY <1>1, <1>3 DEF SameControl, OtherSame, Beside
<1>5. Calm(t) BY <1>2, <1>3, <1>4 DEF Calm, OtherSame, Fresh
<1> QED BY <1>3, <1>4, <1>5 DEF t, a

(* A thought, whole. *)
LEMMA ThinksWhole ==
  ASSUME NEW v0 \in Views, NEW s, Busy(s), Told(v0, s), Calm(s), s.mode = "text",
         ~s.reasoning.done, NEW d \in Seq(Texts)
  PROVE  LET t == Finalize(Push(s, "reasoning", d), "reasoning") IN
         Busy(t) /\ Told(v0, t) /\ Calm(t) /\ Beside(s, t) /\ t.mode = "text"
<1> DEFINE a == Push(s, "reasoning", d)
           t == Finalize(a, "reasoning")
<1>1. /\ Busy(a) /\ Told(v0, a) /\ SameControl(s, a) /\ OtherSame(s, a, "reasoning")
      /\ a["reasoning"].index # Null /\ ~a["reasoning"].done
  BY PushTold DEF Calm, Spokens
<1> HIDE DEF a
<1>2. /\ Busy(t) /\ Told(v0, t) /\ SameControl(a, t) /\ OtherSame(a, t, "reasoning")
      /\ t["reasoning"].index = a["reasoning"].index
  BY <1>1, FinalizeTold DEF Spokens
<1> HIDE DEF t
<1>3. t.mode = "text" /\ Beside(s, t) BY <1>1, <1>2 DEF SameControl, OtherSame, Beside
<1>4. Calm(t) BY <1>1, <1>2, <1>3 DEF Calm, OtherSame, Fresh
<1> QED BY <1>2, <1>3, <1>4 DEF t, a

LEMMA SplitTold ==
  ASSUME NEW v0 \in Views, NEW s, Busy(s), Told(v0, s), Calm(s), s.mode = "text",
         ~s.reasoning.done, NEW b \in Seq(Texts), Closed(b)
  PROVE  LET t == Split(s, b) IN
         Busy(t) /\ Told(v0, t) /\ Calm(t) /\ Beside(s, t) /\ t.mode = "text"
<1> DEFINE a == IF Thought(b) = <<>> THEN s
                ELSE Finalize(Push(s, "reasoning", Thought(b)), "reasoning")
           t == PushSome(a, "message", Answer(b))
<1>0. Thought(b) \in Seq(Texts) /\ Answer(b) \in Seq(Texts) BY ClosedIs
<1>1. Busy(a) /\ Told(v0, a) /\ Calm(a) /\ Beside(s, a) /\ a.mode = "text"
  <2>1. CASE Thought(b) = <<>> BY <2>1 DEF Beside
  <2>2. CASE Thought(b) # <<>>
    <3>1. a = Finalize(Push(s, "reasoning", Thought(b)), "reasoning") BY <2>2
    <3> HIDE DEF a
    <3> QED BY <3>1, <1>0, ThinksWhole
  <2> QED BY <2>1, <2>2
<1>2. Split(s, b) = t BY DEF Split
<1> HIDE DEF a
<1>3. /\ Busy(t) /\ Told(v0, t) /\ SameControl(a, t) /\ OtherSame(a, t, "message")
      /\ Fresh(t["message"]) /\ ~t["message"].done
  BY <1>1, <1>0, PushSomeTold DEF Calm, Spokens
<1> HIDE DEF t
<1>4. t.mode = "text" /\ Beside(s, t) BY <1>1, <1>3 DEF SameControl, OtherSame, Beside
<1>5. Calm(t) BY <1>1, <1>3, <1>4 DEF Calm, OtherSame
<1> QED BY <1>2, <1>3, <1>4, <1>5

LEMMA CalmSame ==
  ASSUME NEW s, NEW t, Calm(s), SameSpoken(s, t), s.reasoning.done => t.mode = "text"
  PROVE  Calm(t)
BY DEF Calm, SameSpoken

LEMMA DrainedTold ==
  ASSUME NEW v0 \in Views, NEW s, Busy(s), Told(v0, s), Calm(s), s.mode = "reasoning"
  PROVE  LET t == Drained(s) IN
         Busy(t) /\ Told(v0, t) /\ Calm(t) /\ Beside(s, t)
<1>0. s \in Conv /\ s.buffer \in Seq(Texts) /\ ~s.reasoning.done BY BusyStatus DEF Conv, Calm
<1>1. CASE ~Closed(s.buffer) BY <1>1 DEF Drained, Beside
<1>2. CASE Closed(s.buffer)
  <2> DEFINE a == [s EXCEPT !.mode = "text", !.buffer = <<>>]
             t == Split(a, s.buffer)
  <2>1. /\ Busy(a) /\ Told(v0, a) /\ Beside(s, a) /\ SameSpoken(s, a) /\ a.mode = "text"
    <3>1. "text" \in Modes BY DEF Modes
    <3>2. a = Turned(s, "text", <<>>) BY DEF Turned
    <3> HIDE DEF a
    <3> QED BY <3>1, <3>2, SetSpeaking
  <2>2. Drained(s) = t BY <1>2 DEF Drained
  <2> HIDE DEF a
  <2>3. Calm(a) BY <2>1, CalmSame
  <2>4. ~a.reasoning.done BY <1>0, <2>1 DEF SameSpoken
  <2>5. Busy(t) /\ Told(v0, t) /\ Calm(t) /\ Beside(a, t)
    BY <1>0, <1>2, <2>1, <2>3, <2>4, SplitTold
  <2> HIDE DEF t
  <2> QED BY <2>1, <2>2, <2>5 DEF Beside
<1> QED BY <1>1, <1>2

LEMMA StartsOrMay ==
  ASSUME NEW b \in Seq(Texts), StartsThink(b)
  PROVE  ~MayStartThink(b)
<1> SUFFICES ASSUME MayStartThink(b) PROVE FALSE
  OBVIOUS
<1>1. Len(OpenTag) = 2 /\ OpenTag \in Seq(Marks) BY DEF OpenTag, Marks
<1>2. Len(b) = 2 /\ b # OpenTag
  BY <1>1 DEF StartsThink, MayStartThink, IsStrictPrefix, IsPrefix
<1>3. SubSeq(OpenTag, 1, 2) = SubSeq(b, 1, 2)
  BY <1>1, <1>2 DEF StartsThink, IsPrefix
<1>4. SubSeq(b, 1, 2) = b BY <1>2
<1>5. SubSeq(OpenTag, 1, 2) = OpenTag BY <1>1
<1> QED BY <1>2, <1>3, <1>4, <1>5

LEMMA ContentTold ==
  ASSUME NEW v0 \in Views, NEW s, Busy(s), Told(v0, s), Calm(s), NEW d \in Seq(Texts)
  PROVE  LET t == Content(s, d) IN
         Busy(t) /\ Told(v0, t) /\ Calm(t) /\ Beside(s, t)
<1> DEFINE b == s.buffer \o d
<1>0. s \in Conv /\ b \in Seq(Texts) /\ s.mode \in Modes
  BY BusyStatus DEF Conv, Modes
<1>m. "text" \in Modes /\ "reasoning" \in Modes /\ "detecting" \in Modes BY DEF Modes
<1>1. CASE s.mode = "text"
  BY <1>1, SpeaksAfter DEF Content
<1>2. CASE s.mode = "reasoning"
  <2> DEFINE a == [s EXCEPT !.buffer = b]
  <2>0. a = Turned(s, "reasoning", b)
    BY <1>0, <1>2 DEF Conv, Turned
  <2>1. Content(s, d) = Drained(a) BY <1>2 DEF Content
  <2> HIDE DEF a, b
  <2>2. /\ Busy(a) /\ Told(v0, a) /\ Beside(s, a) /\ SameSpoken(s, a) /\ a.mode = "reasoning"
    BY <2>0, <1>0, <1>m, SetText
  <2>3. Calm(a) BY <1>2, <2>2, CalmSame DEF Calm
  <2>4. LET t == Drained(a) IN Busy(t) /\ Told(v0, t) /\ Calm(t) /\ Beside(a, t)
    BY <2>2, <2>3, DrainedTold
  <2> QED BY <2>1, <2>2, <2>4 DEF Beside
<1>3. CASE s.mode = "detecting" /\ StartsThink(b)
  <2> DEFINE a == [s EXCEPT !.mode = "reasoning", !.buffer = b]
  <2>0. a = Turned(s, "reasoning", b) BY DEF Turned
  <2>1. Content(s, d) = Drained(a)
    BY <1>0, <1>3, StartsOrMay DEF Content
  <2> HIDE DEF a, b
  <2>2. /\ Busy(a) /\ Told(v0, a) /\ Beside(s, a) /\ SameSpoken(s, a) /\ a.mode = "reasoning"
    BY <2>0, <1>0, <1>m, SetText
  <2>3. Calm(a) BY <1>3, <2>2, CalmSame DEF Calm
  <2>4. LET t == Drained(a) IN Busy(t) /\ Told(v0, t) /\ Calm(t) /\ Beside(a, t)
    BY <2>2, <2>3, DrainedTold
  <2> QED BY <2>1, <2>2, <2>4 DEF Beside
<1>4. CASE s.mode = "detecting" /\ ~StartsThink(b) /\ MayStartThink(b)
  <2> DEFINE a == [s EXCEPT !.buffer = b]
  <2>0. a = Turned(s, "detecting", b)
    BY <1>0, <1>4 DEF Conv, Turned
  <2>1. Content(s, d) = a BY <1>4 DEF Content
  <2> HIDE DEF a, b
  <2>2. /\ Busy(a) /\ Told(v0, a) /\ Beside(s, a) /\ SameSpoken(s, a) /\ a.mode = "detecting"
    BY <2>0, <1>0, <1>m, SetText
  <2>3. Calm(a) BY <1>4, <2>2, CalmSame DEF Calm
  <2> QED BY <2>1, <2>2, <2>3
<1>5. CASE s.mode = "detecting" /\ ~StartsThink(b) /\ ~MayStartThink(b)
  <2> DEFINE a == [s EXCEPT !.mode = "text", !.buffer = <<>>]
             t == Push(Finalize(a, "reasoning"), "message", b)
  <2>1. Content(s, d) = t BY <1>5 DEF Content
  <2>0. a = Turned(s, "text", <<>>) BY DEF Turned
  <2> HIDE DEF a, b
  <2>2. /\ Busy(a) /\ Told(v0, a) /\ Beside(s, a) /\ SameSpoken(s, a) /\ a.mode = "text"
    BY <2>0, SetSpeaking
  <2>3. Calm(a) BY <1>5, <2>2, CalmSame DEF Calm
  <2>4. Busy(t) /\ Told(v0, t) /\ Calm(t) /\ Beside(a, t)
    BY <1>0, <2>2, <2>3, SpeaksAfter
  <2> HIDE DEF t
  <2> QED BY <2>1, <2>2, <2>4 DEF Beside
<1> QED BY <1>0, <1>1, <1>2, <1>3, <1>4, <1>5 DEF Modes

LEMMA FlushedTold ==
  ASSUME NEW v0 \in Views, NEW s, Busy(s), Told(v0, s), Calm(s)
  PROVE  LET t == Flushed(s) IN
         Busy(t) /\ Told(v0, t) /\ Calm(t) /\ Beside(s, t) /\ t.mode = "text"
<1> DEFINE b == s.buffer
           a == [s EXCEPT !.mode = "text", !.buffer = <<>>]
           thought == SubSeq(b, 3, Len(b))
<1>0. s \in Conv /\ b \in Seq(Texts) /\ s.mode \in Modes
  BY BusyStatus DEF Conv, Modes
<1>1. /\ Busy(a) /\ Told(v0, a) /\ Beside(s, a) /\ SameSpoken(s, a) /\ a.mode = "text"
  <2>1. "text" \in Modes BY DEF Modes
  <2>2. a = Turned(s, "text", <<>>) BY DEF Turned
  <2> HIDE DEF a
  <2> QED BY <2>1, <2>2, SetSpeaking
<1>2. Flushed(s) =
        CASE s.mode = "text" \/ b = <<>> -> a
          [] s.mode = "detecting" /\ b # <<>> -> Push(Finalize(a, "reasoning"), "message", b)
          [] s.mode = "reasoning" /\ b # <<>> /\ Closed(b) -> Split(a, b)
          [] OTHER -> IF thought = <<>> THEN a
                      ELSE Finalize(Push(a, "reasoning", thought), "reasoning")
  BY DEF Flushed
<1>c. Calm(a) BY <1>1, CalmSame
<1>d. s.mode # "text" => ~a.reasoning.done BY <1>1 DEF Calm, SameSpoken
<1>t. thought \in Seq(Texts)
  BY <1>0, SubSeqProperties
<1> HIDE DEF a, b, thought
<1>3. CASE s.mode = "text" \/ b = <<>>
  <2>1. Flushed(s) = a BY <1>2, <1>3
  <2> QED BY <2>1, <1>1, <1>c
<1>4. CASE s.mode = "detecting" /\ b # <<>>
  <2>1. Flushed(s) = Push(Finalize(a, "reasoning"), "message", b) BY <1>2, <1>4
  <2>2. LET t == Push(Finalize(a, "reasoning"), "message", b) IN
        Busy(t) /\ Told(v0, t) /\ Calm(t) /\ Beside(a, t) /\ t.mode = "text"
    BY <1>0, <1>1, <1>c, SpeaksAfter
  <2> QED BY <2>1, <2>2, <1>1 DEF Beside
<1>5. CASE s.mode = "reasoning" /\ b # <<>> /\ Closed(b)
  <2>1. Flushed(s) = Split(a, b) BY <1>2, <1>5
  <2>2. LET t == Split(a, b) IN
        Busy(t) /\ Told(v0, t) /\ Calm(t) /\ Beside(a, t) /\ t.mode = "text"
    BY <1>0, <1>1, <1>c, <1>d, <1>5, SplitTold
  <2> QED BY <2>1, <2>2, <1>1 DEF Beside
<1>6. CASE s.mode = "reasoning" /\ b # <<>> /\ ~Closed(b)
  <2>1. Flushed(s) = IF thought = <<>> THEN a
                     ELSE Finalize(Push(a, "reasoning", thought), "reasoning")
    BY <1>2, <1>6
  <2>2. LET t == Finalize(Push(a, "reasoning", thought), "reasoning") IN
        Busy(t) /\ Told(v0, t) /\ Calm(t) /\ Beside(a, t) /\ t.mode = "text"
    BY <1>t, <1>1, <1>c, <1>d, <1>6, ThinksWhole
  <2>3. CASE thought = <<>> BY <2>1, <2>3, <1>1, <1>c
  <2>4. CASE thought # <<>> BY <2>1, <2>4, <2>2, <1>1 DEF Beside
  <2> QED BY <2>3, <2>4
<1> QED BY <1>0, <1>3, <1>4, <1>5, <1>6 DEF Modes

----
(* A chunk, and the end of the answer. *)
Going(s) == s \in Conv /\ ~s.completed /\ ~s.failed
Ended(v0, s) ==
  /\ s \in Conv /\ s.completed
  /\ \E v \in Views : Reads(v0, s.out, v) /\ v.status = StatusOf(s)

LEMMA SameItems ==
  ASSUME NEW v, NEW w, w.items = v.items, NEW L, NEW n
  PROVE  Agrees(w, L, n) = Agrees(v, L, n) /\ DoneIn(w) = DoneIn(v)
BY DEF Agrees, DoneIn

LEMMA SetStatus ==
  ASSUME NEW v \in Views, NEW x \in Statuses
  PROVE  LET w == [v EXCEPT !.status = x] IN w \in Views /\ w.items = v.items /\ w.status = x
BY DEF Views

LEMMA StartedTold ==
  ASSUME NEW v0 \in Views, NEW s, Going(s), Told(v0, s), Calm(s)
  PROVE  LET t == Started(s) IN
         Busy(t) /\ Told(v0, t) /\ Calm(t) /\ Beside(s, t) /\ SameSpoken(s, t) /\ t.mode = s.mode
<1>1. CASE s.started
  BY <1>1 DEF Started, Going, Busy, Beside, SameSpoken
<1>2. CASE ~s.started
  <2> DEFINE a == [s EXCEPT !.started = TRUE]
             t == Emit(a, Created)
  <2>0. s \in Conv /\ s.out \in Seq(Events) /\ Created \in Events
    BY EventsAre DEF Going, Conv
  <2>1. Started(s) = t BY <1>2 DEF Started, Created
  <2>2. /\ a \in Conv /\ a.started = TRUE /\ a.completed = s.completed
        /\ a.failed = s.failed /\ a.custom = s.custom /\ a.mode = s.mode
        /\ SameSpoken(s, a) /\ a.tools = s.tools /\ SameTold(s, a)
    BY <2>0, SetStarted
  <2> HIDE DEF a
  <2>3. /\ t \in Conv /\ t.out = Append(a.out, Created)
        /\ SameControl(a, t) /\ SameSpoken(a, t) /\ t.tools = a.tools
        /\ t.next = a.next /\ t.output = a.output
    BY <2>0, <2>2, EmitIs
  <2> HIDE DEF t
  <2>4. Busy(t) BY <2>2, <2>3 DEF Busy, SameControl, Going
  <2>5. Beside(s, t) /\ SameSpoken(s, t) /\ t.mode = s.mode /\ t.tools = s.tools
    BY <2>2, <2>3 DEF Beside, SameSpoken, SameControl
  <2>6. Calm(t) BY <2>5, CalmSame DEF Calm
  <2>7. PICK v \in Views : /\ Reads(v0, s.out, v) /\ v.status = StatusOf(s)
                           /\ Agrees(v, Ledger(s), s.next) /\ s.output = DoneIn(v)
    BY DEF Told, ToldAs
  <2>8. v.status = "none" BY <1>2, <2>7 DEF StatusOf, Going
  <2> DEFINE w == Read(v, Created)
  <2>9. w = [v EXCEPT !.status = "in_progress"] BY DEF Read, Created
  <2>10. w \in Views /\ w.items = v.items /\ w.status = "in_progress"
    BY <2>9 DEF Views, Statuses
  <2> HIDE DEF w
  <2>11. Legal(v, w) BY <2>8, <2>10 DEF Legal, Creates
  <2>12. Reads(v0, Append(s.out, Created), w)
    BY <2>0, <2>7, <2>10, <2>11, ReadsOne DEF w
  <2>13. Ledger(t) = Ledger(s) BY <2>0, <2>3, <2>5, SameLedger
  <2>14. t.out = Append(s.out, Created) /\ t.next = s.next /\ t.output = s.output
    BY <2>2, <2>3 DEF SameTold
  <2>15. Agrees(w, Ledger(t), t.next) /\ t.output = DoneIn(w)
    BY <2>7, <2>10, <2>13, <2>14, SameItems
  <2>16. Told(v0, t) BY <2>4, <2>10, <2>12, <2>14, <2>15, BusyStatus DEF Told, ToldAs
  <2> QED BY <2>1, <2>4, <2>5, <2>6, <2>16
<1> QED BY <1>1, <1>2

(* A chunk as the provider may send it to s. *)
Calls(s, q) ==
  /\ q \in Seq(PieceSet)
  /\ \A m, n \in 1..Len(q) : q[m].index = q[n].index => m = n
  /\ \A n \in 1..Len(q) : Fits(s.custom, s.tools[q[n].index], q[n])
Sendable(s, chunk) ==
  /\ chunk.reasoning \in Seq(Texts) /\ chunk.content \in Seq(Texts)
  /\ chunk.reasoning # <<>> => ~s.reasoning.done
  /\ chunk.calls # Null => Calls(s, chunk.calls)
AllTidy(s) == \A i \in Indexes : Tidy(s.custom, s.tools[i])

LEMMA ChunkTold ==
  ASSUME NEW v0 \in Views, NEW s, Going(s), Told(v0, s), Calm(s), AllTidy(s),
         NEW chunk, Sendable(s, chunk)
  PROVE  LET t == HandleChunk(s, chunk) IN
         Busy(t) /\ Told(v0, t) /\ Calm(t) /\ AllTidy(t) /\ t.custom = s.custom
<1> DEFINE z == Started(s)
           a == PushSome(z, "reasoning", chunk.reasoning)
           b == IF chunk.content = <<>> THEN a ELSE Content(a, chunk.content)
           c == Flushed(b)
           e == Finalize(c, "reasoning")
           t == PushTools(e, chunk.calls)
<1>0. chunk.reasoning \in Seq(Texts) /\ chunk.content \in Seq(Texts) BY DEF Sendable
<1>1. HandleChunk(s, chunk) = IF chunk.calls = Null THEN b ELSE t BY DEF HandleChunk
<1>2. Busy(z) /\ Told(v0, z) /\ Calm(z) /\ Beside(s, z) /\ SameSpoken(s, z) /\ z.mode = s.mode
  BY StartedTold
<1> HIDE DEF z
<1>3. Busy(a) /\ Told(v0, a) /\ Calm(a) /\ Beside(s, a) /\ a.mode = s.mode
  <2>1. CASE chunk.reasoning = <<>>
    <3>1. a = z BY <2>1 DEF PushSome
    <3> QED BY <3>1, <1>2
  <2>2. CASE chunk.reasoning # <<>>
    <3>1. Fresh(z["reasoning"]) /\ ~z["reasoning"].done
      BY <2>2, <1>2 DEF Calm, SameSpoken, Sendable
    <3>2. /\ Busy(a) /\ Told(v0, a) /\ SameControl(z, a) /\ OtherSame(z, a, "reasoning")
          /\ Fresh(a["reasoning"]) /\ ~a["reasoning"].done
      BY <3>1, <1>0, <1>2, PushSomeTold DEF Spokens
    <3> HIDE DEF a
    <3>3. Calm(a) BY <1>2, <3>2 DEF Calm, OtherSame
    <3> QED BY <1>2, <3>2, <3>3 DEF Beside, SameControl, OtherSame
  <2> QED BY <2>1, <2>2
<1> HIDE DEF a
<1>4. Busy(b) /\ Told(v0, b) /\ Calm(b) /\ Beside(s, b)
  <2>1. CASE chunk.content = <<>> BY <2>1, <1>3
  <2>2. CASE chunk.content # <<>>
    <3>1. b = Content(a, chunk.content) BY <2>2
    <3> HIDE DEF b
    <3>2. Busy(b) /\ Told(v0, b) /\ Calm(b) /\ Beside(a, b) BY <3>1, <1>0, <1>3, ContentTold
    <3> QED BY <2>2, <3>2, <1>3 DEF Beside
  <2> QED BY <2>1, <2>2
<1> HIDE DEF b
<1>5. Busy(c) /\ Told(v0, c) /\ Calm(c) /\ Beside(b, c) /\ c.mode = "text" BY <1>4, FlushedTold
<1> HIDE DEF c
<1>6. Busy(e) /\ Told(v0, e) /\ Calm(e) /\ Beside(s, e)
  <2>1. /\ Busy(e) /\ Told(v0, e) /\ SameControl(c, e) /\ OtherSame(c, e, "reasoning")
        /\ (Fresh(c["reasoning"]) => Fresh(e["reasoning"]))
    BY <1>5, FinalizeTold DEF Spokens
  <2> HIDE DEF e
  <2>2. Calm(e) BY <1>5, <2>1 DEF Calm, OtherSame, SameControl
  <2> QED BY <1>4, <1>5, <2>1, <2>2 DEF Beside, SameControl, OtherSame
<1> HIDE DEF e
<1>7. CASE chunk.calls = Null
  BY <1>1, <1>4, <1>7 DEF AllTidy, Beside
<1>8. CASE chunk.calls # Null
  <2>1. Calls(s, chunk.calls) BY <1>8 DEF Sendable
  <2> DEFINE q == chunk.calls
  <2>2. /\ q \in Seq(PieceSet) /\ (\A m, n \in 1..Len(q) : q[m].index = q[n].index => m = n)
        /\ (\A i \in Indexes : Tidy(e.custom, e.tools[i]))
        /\ (\A n \in 1..Len(q) : Fits(e.custom, e.tools[q[n].index], q[n]))
    BY <1>6, <2>1 DEF Calls, AllTidy, Beside
  <2>3. t = PushTools(e, q) OBVIOUS
  <2> HIDE DEF q, t
  <2>4. /\ Busy(t) /\ Told(v0, t) /\ SameControl(e, t) /\ SameSpoken(e, t)
        /\ \A i \in Indexes : Tidy(t.custom, t.tools[i])
    BY <1>6, <2>2, <2>3, PushToolsTold
  <2>5. Calm(t) BY <1>6, <2>4 DEF Calm, SameSpoken, SameControl
  <2>6. t.custom = s.custom BY <1>6, <2>4 DEF SameControl, Beside
  <2> QED BY <1>1, <1>8, <2>4, <2>5, <2>6 DEF AllTidy
<1> QED BY <1>7, <1>8

LEMMA FailedTold ==
  ASSUME NEW v0 \in Views, NEW s, Going(s), Told(v0, s)
  PROVE  Ended(v0, Failed(s)) /\ Failed(s).failed /\ Failed(s).custom = s.custom
<1> DEFINE a == [s EXCEPT !.completed = TRUE]
           b == [a EXCEPT !.failed = TRUE]
           t == Emit(b, Error)
<1>0. s \in Conv /\ s.out \in Seq(Events) /\ Error \in Events
  BY EventsAre DEF Going, Conv
<1>1. Failed(s) = t BY DEF Failed, Error
<1>2. a \in Conv /\ a.completed = TRUE /\ a.out = s.out /\ a.custom = s.custom BY <1>0, SetCompleted DEF SameTold
<1> HIDE DEF a
<1>3. b \in Conv /\ b.completed = TRUE /\ b.failed = TRUE /\ b.out = s.out /\ b.custom = s.custom
  BY <1>2, SetFailed DEF SameTold
<1> HIDE DEF b
<1>4. /\ t \in Conv /\ t.completed = TRUE /\ t.failed = TRUE /\ t.out = Append(s.out, Error)
      /\ t.custom = s.custom
  <2>1. t \in Conv /\ t.out = Append(b.out, Error) /\ SameControl(b, t) BY <1>0, <1>3, EmitIs
  <2> HIDE DEF t
  <2> QED BY <2>1, <1>3 DEF SameControl
<1> HIDE DEF t
<1>5. PICK v \in Views : /\ Reads(v0, s.out, v) /\ v.status = StatusOf(s)
                         /\ Agrees(v, Ledger(s), s.next) /\ s.output = DoneIn(v)
  BY DEF Told, ToldAs
<1>6. v.status \in {"none", "in_progress"} BY <1>5 DEF StatusOf, Going
<1> DEFINE w == Read(v, Error)
<1>7. w = [v EXCEPT !.status = "failed"] BY DEF Read, Error
<1>8. w \in Views /\ w.items = v.items /\ w.status = "failed"
  BY <1>7, SetStatus DEF Statuses
<1> HIDE DEF w
<1>9. Legal(v, w) BY <1>6, <1>8 DEF Legal, Failing
<1>10. Reads(v0, Append(s.out, Error), w) BY <1>0, <1>5, <1>8, <1>9, ReadsOne DEF w
<1>11. StatusOf(t) = "failed" BY <1>4 DEF StatusOf
<1> QED BY <1>1, <1>4, <1>8, <1>10, <1>11 DEF Ended

LEMMA InOrderTo ==
  ASSUME NEW n \in Nat
  PROVE  InOrder(0..(n - 1)) = [m \in 1..n |-> m - 1]
<1> DEFINE S == 0..(n - 1)
<1>1. S \subseteq Nat /\ IsFiniteSet(S) BY FS_Interval
<1>2. ASSUME NEW x \in S PROVE Cardinality(Below(S, x)) = x
  <2>1. Below(S, x) = 0..(x - 1) BY DEF Below
  <2>2. CASE x = 0
    <3>1. Below(S, x) = {} BY <2>1, <2>2
    <3> HIDE DEF S
    <3> QED BY <3>1, <2>2, FS_EmptySet
  <2>3. CASE x # 0
    <3>1. x - 1 \in Int /\ 0 \in Int /\ ~(0 > x - 1) /\ (x - 1) - 0 + 1 = x BY <2>3
    <3>2. Cardinality(0..(x - 1)) = (x - 1) - 0 + 1
      <4> HIDE DEF S
      <4> QED BY <3>1, FS_Interval
    <3> QED BY <3>1, <3>2, <2>1
  <2> QED BY <2>2, <2>3
<1>3. Cardinality(S) = n
  <2>1. CASE n = 0
    <3>1. S = {} BY <2>1
    <3> HIDE DEF S
    <3> QED BY <2>1, <3>1, FS_EmptySet
  <2>2. CASE n # 0
    BY <2>2, FS_Interval
  <2> QED BY <2>1, <2>2
<1> DEFINE o == InOrder(S)
<1> HIDE DEF S
<1>4. DOMAIN o = 1..n /\ \A m \in 1..n : o[m] \in S /\ Cardinality(Below(S, o[m])) = m - 1
  BY <1>1, <1>3, InOrderIs
<1>5. \A m \in 1..n : o[m] = m - 1 BY <1>2, <1>4
<1>6. o = [m \in 1..n |-> CHOOSE x \in S : Cardinality({y \in S : y < x}) = m - 1]
  BY <1>3 DEF InOrder
<1> HIDE DEF o
<1>7. o = [m \in 1..n |-> m - 1]
  BY <1>6, <1>4, <1>5
<1> QED BY <1>7 DEF o, S

(* The items of the whole response are those Codex has. *)
LEMMA OutputIs ==
  ASSUME NEW v \in Views, NEW n \in Nat, NEW L \in Ledgers, Agrees(v, L, n),
         \A p \in Places : L[p].index # Null => L[p].done,
         NEW s, s.output = DoneIn(v)
  PROVE  /\ \A k \in 1..Len(v.items) : v.items[k].done
         /\ Output(s) \in Seq(Items)
         /\ \A w : w = Read(v, Completing(Output(s))) =>
              w \in Views /\ w.status = "completed" /\ w.items = v.items
<1>0. v.items \in Seq(Shown) /\ Len(v.items) = n BY DEF Views, Agrees
<1>1. ASSUME NEW k \in 1..n PROVE v.items[k].done /\ v.items[k] \in Shown
  <2>1. k - 1 \in 0..(n - 1) OBVIOUS
  <2>2. PICK p \in Places : L[p].index = k - 1 BY <2>1 DEF Agrees
  <2>3. L[p].index # Null BY <2>1, <2>2, NoneIsNoNumber
  <2>4. v.items[L[p].index + 1] = ShownLine(L[p]) BY <2>3 DEF Agrees
  <2>5. L[p].index + 1 = k BY <2>2
  <2> QED BY <1>0, <2>3, <2>4, <2>5 DEF ShownLine
<1> DEFINE entry(k) == [index |-> k, item |-> Plain(v.items[k + 1])]
<1>2. ASSUME NEW k \in 0..(n - 1)
      PROVE  Plain(v.items[k + 1]) \in Items /\ entry(k) \in s.output
  <2>1. k + 1 \in 1..n OBVIOUS
  <2>2. v.items[k + 1].done /\ v.items[k + 1] \in Shown BY <2>1, <1>1
  <2>3. Plain(v.items[k + 1]) \in Items BY <2>2 DEF Plain, Shown, Items
  <2>4. entry(k) \in Outputs BY <2>3 DEF Outputs
  <2>5. entry(k).index = k /\ entry(k).item = Plain(v.items[k + 1]) OBVIOUS
  <2> HIDE DEF entry
  <2>6. entry(k) \in DoneIn(v) BY <2>1, <2>2, <2>4, <2>5, <1>0 DEF DoneIn
  <2> QED BY <2>3, <2>6
<1>3. ASSUME NEW o \in s.output
      PROVE  o.index \in 0..(n - 1) /\ o.item = Plain(v.items[o.index + 1])
  BY <1>0 DEF DoneIn, Outputs
<1>4. {o.index : o \in s.output} = 0..(n - 1)
  <2>1. ASSUME NEW k \in 0..(n - 1) PROVE \E o \in s.output : o.index = k
    <3>1. entry(k).index = k OBVIOUS
    <3> HIDE DEF entry
    <3> QED BY <3>1, <1>2
  <2> QED BY <2>1, <1>3
<1> DEFINE at(k) == CHOOSE o \in s.output : o.index = k
           out == Output(s)
<1>5. ASSUME NEW k \in 0..(n - 1) PROVE at(k).item = Plain(v.items[k + 1])
  <2>1. \E o \in s.output : o.index = k BY <1>4
  <2>2. at(k) \in s.output /\ at(k).index = k BY <2>1
  <2> HIDE DEF at
  <2> QED BY <2>2, <1>3
<1>6. out = [m \in 1..n |-> at(m - 1).item]
  <2>1. InOrder({o.index : o \in s.output}) = [m \in 1..n |-> m - 1] BY <1>4, InOrderTo
  <2> DEFINE indexes == InOrder({o.index : o \in s.output})
  <2>2. out = [m \in DOMAIN indexes |-> at(indexes[m]).item] BY DEF Output
  <2>3. DOMAIN indexes = 1..n /\ \A m \in 1..n : indexes[m] = m - 1 BY <2>1
  <2> HIDE DEF indexes, at, out
  <2> QED BY <2>2, <2>3
<1> HIDE DEF at, out
<1>7. ASSUME NEW m \in 1..n PROVE out[m] = Plain(v.items[m]) /\ out[m] \in Items
  <2>1. m - 1 \in 0..(n - 1) /\ (m - 1) + 1 = m OBVIOUS
  <2>2. at(m - 1).item = Plain(v.items[(m - 1) + 1]) BY <2>1, <1>5
  <2>3. Plain(v.items[(m - 1) + 1]) \in Items BY <2>1, <1>2
  <2> QED BY <2>1, <2>2, <2>3, <1>6
<1>8. out \in Seq(Items) /\ DOMAIN out = 1..n
  <2>1. out \in [1..n -> Items] BY <1>6, <1>7
  <2> QED BY <2>1
<1> DEFINE shown == [m \in DOMAIN out |-> [kind |-> out[m].kind, call |-> out[m].call,
                                         said |-> out[m].said, done |-> TRUE]]
<1>9. shown = v.items
  <2>1. ASSUME NEW m \in 1..n PROVE shown[m] = v.items[m]
    <3>1. shown[m] = [kind |-> out[m].kind, call |-> out[m].call, said |-> out[m].said, done |-> TRUE]
      BY <1>8
    <3>2. v.items[m].done = TRUE /\ v.items[m] \in Shown BY <1>1 DEF Shown
    <3>3. out[m].kind = v.items[m].kind /\ out[m].call = v.items[m].call /\ out[m].said = v.items[m].said
      <4>1. out[m] = Plain(v.items[m]) BY <1>7
      <4> HIDE DEF shown
      <4> QED BY <4>1 DEF Plain
    <3>4. v.items[m] = [kind |-> v.items[m].kind, call |-> v.items[m].call,
                        said |-> v.items[m].said, done |-> v.items[m].done]
      BY <3>2 DEF Shown
    <3> HIDE DEF shown
    <3> QED BY <3>1, <3>2, <3>3, <3>4
  <2>2. DOMAIN shown = 1..n /\ DOMAIN v.items = 1..n BY <1>0, <1>8
  <2>3. shown = [m \in 1..n |-> shown[m]] /\ v.items = [m \in 1..n |-> v.items[m]]
    BY <1>0, <2>2
  <2> HIDE DEF shown
  <2> QED BY <2>1, <2>3
<1>10. ASSUME NEW w, w = Read(v, Completing(out))
       PROVE  w \in Views /\ w.status = "completed" /\ w.items = v.items
  <2>1. w = [v EXCEPT !.status = "completed", !.items = shown] BY <1>10 DEF Read, Completing
  <2> HIDE DEF shown
  <2>2. w = [v EXCEPT !.status = "completed", !.items = v.items] BY <2>1, <1>9
  <2> QED BY <2>2 DEF Views, Statuses
<1> QED BY <1>0, <1>1, <1>8, <1>10 DEF out

LEMMA FinalizedTold ==
  ASSUME NEW v0 \in Views, NEW s, Going(s), Told(v0, s), Calm(s), AllTidy(s)
  PROVE  Ended(v0, Finalized(s)) /\ ~Finalized(s).failed /\ Finalized(s).custom = s.custom
<1> DEFINE z == Started(s)
           f == Flushed(z)
           g == Finalize(f, "reasoning")
           h == Finalize(g, "message")
           a == FinalizeTools(h)
           e == Completing(Output(a))
           b == [a EXCEPT !.completed = TRUE]
           t == Emit(b, e)
<1>1. Finalized(s) = t BY DEF Finalized, Going, Completing
<1>2. Busy(z) /\ Told(v0, z) /\ Calm(z) /\ Beside(s, z) BY StartedTold
<1> HIDE DEF z
<1>3. Busy(f) /\ Told(v0, f) /\ Calm(f) /\ Beside(z, f) BY <1>2, FlushedTold
<1> HIDE DEF f
<1>4. /\ Busy(g) /\ Told(v0, g) /\ OtherSame(f, g, "reasoning") /\ SameControl(f, g)
      /\ (g["reasoning"].index # Null => g["reasoning"].done)
  BY <1>3, FinalizeTold DEF Spokens
<1> HIDE DEF g
<1>5. /\ Busy(h) /\ Told(v0, h) /\ OtherSame(g, h, "message") /\ SameControl(g, h)
      /\ (h["message"].index # Null => h["message"].done)
  BY <1>4, FinalizeTold DEF Spokens
<1> HIDE DEF h
<1>6. /\ (h.reasoning.index # Null => h.reasoning.done)
      /\ (h.message.index # Null => h.message.done)
      /\ \A i \in Indexes : h.tools[i].index = Null => h.tools[i].done = FALSE
  BY <1>2, <1>3, <1>4, <1>5 DEF OtherSame, Beside, AllTidy, Tidy
<1>7. /\ Busy(a) /\ Told(v0, a) /\ SameControl(h, a) /\ SameSpoken(h, a)
      /\ \A i \in Indexes : a.tools[i].index # Null => a.tools[i].done
  BY <1>5, <1>6, FinalizeToolsTold
<1> HIDE DEF a
<1>c. a.custom = s.custom BY <1>2, <1>3, <1>4, <1>5, <1>7 DEF SameControl, Beside
<1>8. a \in Conv /\ a.next \in Nat /\ a.out \in Seq(Events) /\ StatusOf(a) = "in_progress"
  BY <1>7, BusyStatus
<1> DEFINE L == Ledger(a)
<1>9. L \in Ledgers /\ \A p \in Places : L[p].index # Null => L[p].done
  <2>1. L \in Ledgers /\ L[<<"reasoning", 0>>] = SpokenLine(a.reasoning, "reasoning")
        /\ L[<<"message", 0>>] = SpokenLine(a.message, "message")
        /\ \A i \in Indexes : L[<<"tool", i>>] = ToolLine(a.tools[i])
    BY <1>8, LedgerIs
  <2>2. L[<<"reasoning", 0>>].index # Null => L[<<"reasoning", 0>>].done
    BY <2>1, <1>6, <1>7 DEF SpokenLine, SameSpoken
  <2>3. L[<<"message", 0>>].index # Null => L[<<"message", 0>>].done
    BY <2>1, <1>6, <1>7 DEF SpokenLine, SameSpoken
  <2> HIDE DEF L
  <2>4. ASSUME NEW i \in Indexes PROVE L[<<"tool", i>>].index # Null => L[<<"tool", i>>].done
    <3>1. L[<<"tool", i>>] = ToolLine(a.tools[i]) BY <2>1
    <3>2. ToolLine(a.tools[i]).index = a.tools[i].index /\ ToolLine(a.tools[i]).done = a.tools[i].done
      BY DEF ToolLine
    <3> QED BY <3>1, <3>2, <1>7
  <2> QED BY <2>1, <2>2, <2>3, <2>4, PlacesAre
<1>10. PICK v \in Views : /\ Reads(v0, a.out, v) /\ v.status = StatusOf(a)
                          /\ Agrees(v, L, a.next) /\ a.output = DoneIn(v)
  BY <1>7 DEF Told, ToldAs
<1> HIDE DEF L
<1>11. /\ \A k \in 1..Len(v.items) : v.items[k].done
       /\ Output(a) \in Seq(Items)
       /\ \A w : w = Read(v, Completing(Output(a))) =>
            w \in Views /\ w.status = "completed" /\ w.items = v.items
  BY <1>8, <1>9, <1>10, OutputIs
<1> DEFINE w == Read(v, e)
<1>12. w \in Views /\ w.status = "completed" /\ w.items = v.items BY <1>11
<1>13. e \in Events
  <2>1. 0 \in Nat OBVIOUS
  <2> QED BY <2>1, <1>11, EventsAre
<1> HIDE DEF w, e
<1>14. Legal(v, w) BY <1>8, <1>10, <1>11, <1>12 DEF Legal, Completed
<1>15. Reads(v0, Append(a.out, e), w) BY <1>8, <1>10, <1>12, <1>13, <1>14, ReadsOne DEF w
<1>16. b \in Conv /\ b.completed = TRUE /\ b.failed = a.failed /\ b.out = a.out /\ b.custom = a.custom
  BY <1>8, SetCompleted DEF SameTold
<1> HIDE DEF b
<1>17. /\ t \in Conv /\ t.completed = TRUE /\ t.failed = a.failed /\ t.out = Append(a.out, e)
       /\ t.custom = a.custom
  BY <1>13, <1>16, EmitIs DEF SameControl
<1> HIDE DEF t
<1>18. ~t.failed /\ StatusOf(t) = "completed" BY <1>7, <1>17 DEF Busy, StatusOf
<1> QED BY <1>1, <1>c, <1>12, <1>15, <1>17, <1>18 DEF Ended

----
(* The inductive invariant. *)
StreamTyped ==
  /\ tools_known \in BOOLEAN
  /\ chat \in Conv /\ chat.out = <<>> /\ chat.custom = tools_known
  /\ wire \in Seq(Events) /\ view \in Views
  /\ upstream \in {"open", "done", "failed", "over"} /\ sent.chunks \in Nat

(* The answer is over for the converter when it is over for the proxy. *)
EndsAgree ==
  /\ upstream = "open" <=> ~chat.completed
  /\ chat.failed => chat.completed

(* What is written and not yet read brings Codex to what the converter     *)
(* knows it has told.                                                      *)
WireTells ==
  \E v \in Views : /\ Reads(view, wire, v) /\ v.status = StatusOf(chat)
                   /\ ~chat.completed => /\ Agrees(v, Ledger(chat), chat.next)
                                         /\ chat.output = DoneIn(v)

(* While the answer goes on no item is done but reasoning, and no          *)
(* reasoning before the head of the text is decided.                       *)
GoesOn == ~chat.completed => Calm(chat) /\ AllTidy(chat)

StreamInv == StreamTyped /\ EndsAgree /\ WireTells /\ GoesOn

LEMMA InvInit == StreamInit => StreamInv
<1> SUFFICES ASSUME StreamInit PROVE StreamInv
  OBVIOUS
<1>1. NoItem \in Spoken /\ NoTool \in Tools /\ Fresh(NoItem) /\ ~NoItem.done
  BY EmptyText DEF Ids, Names, NoItem, NoTool, Spoken, Tools, Fresh
<1>2. /\ chat.started = FALSE /\ chat.completed = FALSE /\ chat.failed = FALSE /\ chat.next = 0
      /\ chat.reasoning = NoItem /\ chat.message = NoItem /\ chat.mode = "detecting"
      /\ chat.tools = [i \in Indexes |-> NoTool] /\ chat.output = {} /\ chat.custom = tools_known
      /\ chat.out = <<>> /\ chat.buffer = <<>>
  BY DEF StreamInit
<1>3. chat \in Conv
  <2>1. [i \in Indexes |-> NoTool] \in [Indexes -> Tools] BY <1>1
  <2>2. <<>> \in Seq(Events) OBVIOUS
  <2> DEFINE tools == [i \in Indexes |-> NoTool]
  <2>3. chat = [started |-> FALSE, completed |-> FALSE, failed |-> FALSE, next |-> 0,
             reasoning |-> NoItem, message |-> NoItem, mode |-> "detecting", buffer |-> <<>>,
             tools |-> tools, output |-> {}, custom |-> tools_known, out |-> <<>>]
        /\ tools_known \in BOOLEAN
    BY DEF StreamInit
  <2> HIDE DEF tools
  <2> QED BY <2>1, <2>2, <2>3, <1>1, EmptyText DEF Conv, tools
<1>4. view \in Views /\ view.status = "none" /\ view.items = <<>> /\ Len(view.items) = 0
  <2>1. <<>> \in Seq(Shown) /\ <<>> \in Seq(Items) OBVIOUS
  <2> QED BY <2>1 DEF StreamInit, Views, Statuses
<1>5. StreamTyped
  <2>1. <<>> \in Seq(Events) OBVIOUS
  <2> QED BY <1>2, <1>3, <1>4, <2>1, EmptyText DEF StreamInit, StreamTyped
<1>6. EndsAgree BY <1>2 DEF StreamInit, EndsAgree
<1>7. GoesOn
  BY StreamAssumption, <1>2, <1>1 DEF Tidy, NoTool, AllTidy, GoesOn, Calm
<1>8. WireTells
  <2>1. Reads(view, wire, view) BY <1>4, ReadsNothing DEF StreamInit
  <2>2. StatusOf(chat) = "none" BY <1>2 DEF StatusOf
  <2>3. \A p \in Places : Ledger(chat)[p].index = Null
    <3>1. /\ Ledger(chat)[<<"reasoning", 0>>].index = Null /\ Ledger(chat)[<<"message", 0>>].index = Null
          /\ \A i \in Indexes : Ledger(chat)[<<"tool", i>>].index = Null
      <4>1. SpokenLine(NoItem, "reasoning").index = Null /\ SpokenLine(NoItem, "message").index = Null
            /\ ToolLine(NoTool).index = Null
        BY DEF SpokenLine, ToolLine, NoItem, NoTool
      <4>2. \A i \in Indexes : chat.tools[i] = NoTool BY <1>2
      <4> QED BY <1>2, <1>3, <4>1, <4>2, LedgerIs
    <3> QED BY <3>1, PlacesAre
  <2>4. Agrees(view, Ledger(chat), 0) BY <2>3, <1>4 DEF Agrees
  <2>5. DoneIn(view) = {} BY <1>4 DEF DoneIn
  <2> QED BY <1>2, <1>4, <2>1, <2>2, <2>4, <2>5 DEF WireTells
<1> QED BY <1>5, <1>6, <1>7, <1>8 DEF StreamInv

(* Codex reads: what it does then is a step of a proper stream. *)
LEMMA InvReceive ==
  ASSUME StreamInv, Receive
  PROVE  StreamInv' /\ view \in Views /\ view' \in Views /\ Legal(view, view')
<1>1. PICK v \in Views : /\ Reads(view, wire, v) /\ v.status = StatusOf(chat)
                         /\ ~chat.completed => /\ Agrees(v, Ledger(chat), chat.next)
                                               /\ chat.output = DoneIn(v)
  BY DEF StreamInv, WireTells
<1>2. wire \in Seq(Events) /\ wire # <<>> /\ view \in Views BY DEF StreamInv, StreamTyped, Receive
<1>3. view' = Read(view, Head(wire)) /\ wire' = Tail(wire) BY DEF Receive
<1>4. view' \in Views /\ Legal(view, view') /\ Reads(view', wire', v) BY <1>1, <1>2, <1>3, ReadsOn
<1>5. wire' \in Seq(Events) BY <1>2, <1>3
<1>6. UNCHANGED <<tools_known, chat, sent, upstream>> BY DEF Receive
<1>7. StreamTyped' BY <1>4, <1>5, <1>6 DEF StreamInv, StreamTyped
<1>8. EndsAgree' BY <1>6 DEF StreamInv, EndsAgree
<1>9. GoesOn' BY <1>6 DEF StreamInv, GoesOn
<1>10. WireTells' BY <1>1, <1>4, <1>6 DEF WireTells
<1> QED BY <1>2, <1>4, <1>7, <1>8, <1>9, <1>10 DEF StreamInv

(* What the converter has told when all of it is read. *)
LEMMA AllRead ==
  ASSUME StreamInv, wire = <<>>
  PROVE  /\ view \in Views /\ chat \in Conv /\ view.status = StatusOf(chat)
         /\ Reads(view, chat.out, view) /\ chat.out = <<>>
         /\ ~chat.completed => /\ Going(chat) /\ Told(view, chat) /\ Calm(chat) /\ AllTidy(chat)
                               /\ upstream = "open"
<1>1. PICK v \in Views : /\ Reads(view, wire, v) /\ v.status = StatusOf(chat)
                         /\ ~chat.completed => /\ Agrees(v, Ledger(chat), chat.next)
                                               /\ chat.output = DoneIn(v)
  BY DEF StreamInv, WireTells
<1>2. view = v BY <1>1, ReadsEnd
<1>3. view \in Views /\ chat \in Conv /\ chat.out = <<>> BY DEF StreamInv, StreamTyped
<1>4. Reads(view, chat.out, view) BY <1>3, ReadsNothing
<1>5. ASSUME ~chat.completed
      PROVE  Going(chat) /\ Told(view, chat) /\ Calm(chat) /\ AllTidy(chat) /\ upstream = "open"
  BY <1>3, <1>5, <1>1, <1>2, <1>4 DEF Going, StreamInv, EndsAgree, Told, ToldAs, GoesOn
<1> QED BY <1>1, <1>2, <1>3, <1>4, <1>5

(* The converter writes what it has made, and goes on. *)
LEMMA WritesOn ==
  ASSUME StreamInv, NEW s, Busy(s), Told(view, s), s.custom = chat.custom, Converts(s)
  PROVE  /\ chat' \in Conv /\ chat'.out = <<>> /\ chat'.custom = tools_known' /\ tools_known' \in BOOLEAN
         /\ ~chat'.completed /\ ~chat'.failed
         /\ wire' \in Seq(Events) /\ view' \in Views /\ WireTells'
         /\ SameSpoken(s, chat') /\ chat'.tools = s.tools /\ chat'.mode = s.mode
<1>0. s \in Conv /\ s.out \in Seq(Events) /\ ~s.completed /\ ~s.failed BY BusyStatus DEF Busy
<1> DEFINE empty == <<>>
           c == [s EXCEPT !.out = empty]
<1>1. empty \in Seq(Events) /\ empty = <<>> OBVIOUS
<1>2. chat' = c BY DEF Converts
<1> HIDE DEF empty
<1>3. /\ c \in Conv /\ c.out = empty /\ SameControl(s, c) /\ SameSpoken(s, c)
      /\ c.tools = s.tools /\ c.next = s.next /\ c.output = s.output
  BY <1>0, <1>1, SetOut
<1> HIDE DEF c
<1>4. wire' = s.out /\ tools_known' = tools_known /\ view' = view BY DEF Converts
<1>5. PICK v \in Views : /\ Reads(view, s.out, v) /\ v.status = StatusOf(s)
                         /\ Agrees(v, Ledger(s), s.next) /\ s.output = DoneIn(v)
  BY DEF Told, ToldAs
<1>6. Ledger(c) = Ledger(s) BY <1>0, <1>3, SameLedger
<1>7. StatusOf(c) = StatusOf(s) BY <1>3 DEF StatusOf, SameControl
<1>8. /\ Reads(view', wire', v) /\ v.status = StatusOf(chat') /\ Agrees(v, Ledger(chat'), chat'.next)
      /\ chat'.output = DoneIn(v)
  BY <1>2, <1>3, <1>4, <1>5, <1>6, <1>7
<1>9. WireTells' BY <1>8 DEF WireTells
<1>10. tools_known \in BOOLEAN /\ view \in Views /\ chat.custom = tools_known BY DEF StreamInv, StreamTyped
<1> QED BY <1>0, <1>1, <1>2, <1>3, <1>4, <1>9, <1>10 DEF SameControl

(* ... and has ended. *)
LEMMA WritesEnd ==
  ASSUME StreamInv, NEW s, Ended(view, s), s.custom = chat.custom, Converts(s), UNCHANGED sent,
         upstream' \in {"done", "failed", "over"}
  PROVE  StreamInv'
<1>0. s \in Conv /\ s.completed BY DEF Ended
<1>o. s.out \in Seq(Events) BY <1>0 DEF Conv
<1> DEFINE empty == <<>>
           c == [s EXCEPT !.out = empty]
<1>1. empty \in Seq(Events) /\ empty = <<>> OBVIOUS
<1>2. chat' = c BY DEF Converts
<1> HIDE DEF empty
<1>3. c \in Conv /\ c.out = empty /\ SameControl(s, c) BY <1>0, <1>1, SetOut
<1> HIDE DEF c
<1>4. wire' = s.out /\ tools_known' = tools_known /\ view' = view BY DEF Converts
<1>5. PICK v \in Views : Reads(view, s.out, v) /\ v.status = StatusOf(s) BY DEF Ended
<1>6. chat'.completed /\ chat'.custom = s.custom /\ StatusOf(chat') = StatusOf(s)
  BY <1>0, <1>2, <1>3 DEF StatusOf, SameControl
<1>7. WireTells' BY <1>4, <1>5, <1>6 DEF WireTells
<1>8. EndsAgree' BY <1>6 DEF EndsAgree
<1>9. GoesOn' BY <1>6 DEF GoesOn
<1>10. StreamTyped' BY <1>o, <1>1, <1>2, <1>3, <1>4, <1>6 DEF StreamInv, StreamTyped
<1> QED BY <1>7, <1>8, <1>9, <1>10 DEF StreamInv

LEMMA InvGets ==
  ASSUME StreamInv, Departures = {}, NEW chunk, Gets(chunk), Sendable(chat, chunk)
  PROVE  StreamInv' /\ view' = view
<1> DEFINE s == HandleChunk(chat, chunk)
<1>1. /\ wire = <<>> /\ upstream = "open" /\ upstream' = upstream /\ Converts(s)
      /\ sent' = Heard(sent, chunk) /\ view' = view
  BY DEF Gets, Reading, Converts, Departs
<1>2. ~chat.completed BY <1>1 DEF StreamInv, EndsAgree
<1>3. view \in Views /\ Going(chat) /\ Told(view, chat) /\ Calm(chat) /\ AllTidy(chat)
  BY <1>1, <1>2, AllRead
<1>4. Busy(s) /\ Told(view, s) /\ Calm(s) /\ AllTidy(s) /\ s.custom = chat.custom
  BY <1>3, ChunkTold
<1> HIDE DEF s
<1>5. /\ chat' \in Conv /\ chat'.out = <<>> /\ chat'.custom = tools_known' /\ tools_known' \in BOOLEAN
      /\ ~chat'.completed /\ ~chat'.failed
      /\ wire' \in Seq(Events) /\ view' \in Views /\ WireTells'
      /\ SameSpoken(s, chat') /\ chat'.tools = s.tools /\ chat'.mode = s.mode
  BY <1>1, <1>4, WritesOn
<1>6. sent.chunks \in Nat /\ chat.custom = tools_known BY DEF StreamInv, StreamTyped
<1>8. sent'.chunks \in Nat BY <1>1, <1>6 DEF Heard
<1>9. StreamTyped' BY <1>1, <1>5, <1>8 DEF StreamTyped, StreamInv
<1>10. EndsAgree' BY <1>1, <1>5 DEF EndsAgree
<1>11. GoesOn'
  <2>1. Calm(chat') BY <1>4, <1>5, CalmSame DEF Calm
  <2>2. AllTidy(chat')
    <3>1. chat'.custom = s.custom
      BY <1>1, <1>4, <1>5, <1>6 DEF Converts
    <3> QED BY <3>1, <1>4, <1>5 DEF AllTidy
  <2> QED BY <2>1, <2>2 DEF GoesOn
<1> QED BY <1>1, <1>5, <1>9, <1>10, <1>11 DEF StreamInv

----
(* The chunks of the provider. *)
LEMMA EmptyIs ==
  /\ Empty.reasoning = <<>> /\ Empty.content = <<>> /\ Empty.calls = Null
  /\ \A d : LET c == [Empty EXCEPT !.reasoning = d]
            IN c.reasoning = d /\ c.content = <<>> /\ c.calls = Null
  /\ \A d : LET c == [Empty EXCEPT !.content = d]
            IN c.reasoning = <<>> /\ c.content = d /\ c.calls = Null
  /\ \A q : LET c == [Empty EXCEPT !.calls = q]
            IN c.reasoning = <<>> /\ c.content = <<>> /\ c.calls = q
BY DEF Empty

LEMMA WordIs ==
  ASSUME StreamInv
  PROVE  Word \in Texts
<1>1. sent.chunks + 1 \in Nat BY DEF StreamInv, StreamTyped
<1> QED BY <1>1 DEF Word, Texts

LEMMA InvReasons ==
  ASSUME StreamInv, Departures = {}, Reasons
  PROVE  StreamInv' /\ view' = view
<1> DEFINE d == <<Word>>
           chunk == [Empty EXCEPT !.reasoning = d]
<1>1. d \in Seq(Texts) BY WordIs
<1>2. chunk.reasoning = d /\ chunk.content = <<>> /\ chunk.calls = Null BY EmptyIs
<1>3. Gets(chunk) BY DEF Reasons
<1>4. ~chat.reasoning.done
  BY DEF Reasons, Departs
<1> HIDE DEF chunk, d
<1>5. Sendable(chat, chunk) BY <1>1, <1>2, <1>4, EmptyText DEF Sendable
<1> QED BY <1>3, <1>5, InvGets

LEMMA InvSpeaks ==
  ASSUME StreamInv, Departures = {},
         NEW d \in {<<m>> : m \in Marks} \cup {<<Word>>, OpenTag, CloseTag}, Speaks(d)
  PROVE  StreamInv' /\ view' = view
<1>1. d \in Seq(Texts)
  <2>1. Word \in Texts /\ Marks \subseteq Texts BY WordIs DEF Texts
  <2>2. CASE d \in {<<m>> : m \in Marks}
    <3>1. PICK m \in Marks : d = <<m>> BY <2>2
    <3>2. m \in Texts BY <2>1, <3>1
    <3>3. <<m>> \in Seq(Texts) BY ONLY <3>2
    <3> QED BY ONLY <3>1, <3>3
  <2>3. CASE d = <<Word>> BY <2>1, <2>3
  <2>4. OpenTag \in Seq(Marks) /\ CloseTag \in Seq(Marks) BY DEF OpenTag, CloseTag, Marks
  <2>5. CASE d \in {OpenTag, CloseTag} BY <2>1, <2>4, <2>5
  <2> QED BY <2>2, <2>3, <2>5
<1> DEFINE chunk == [Empty EXCEPT !.content = d]
<1>2. chunk.reasoning = <<>> /\ chunk.content = d /\ chunk.calls = Null BY EmptyIs
<1>3. Gets(chunk) BY DEF Speaks
<1> HIDE DEF chunk
<1>4. Sendable(chat, chunk) BY <1>1, <1>2, EmptyText DEF Sendable
<1> QED BY <1>3, <1>4, InvGets

LEMMA PiecesFit ==
  ASSUME StreamInv, Departures = {}, NEW i \in Indexes, NEW piece \in Pieces(i)
  PROVE  piece \in PieceSet /\ piece.index = i /\ Fits(chat.custom, chat.tools[i], piece)
<1> DEFINE tool  == chat.tools[i]
           names == {"function"} \cup (IF tools_known THEN {"custom"} ELSE {})
           word  == <<ToString(<<i, sent.chunks + 1>>)>>
           none  == <<>>
           own   == ToString(<<"id", i>>)
<1>1. chat \in Conv /\ sent.chunks + 1 \in Nat /\ chat.custom = tools_known
  BY DEF StreamInv, StreamTyped
<1>2. word \in Seq(Texts) /\ none \in Seq(Texts) /\ own \in Ids /\ Null \in Ids
  BY <1>1 DEF Texts, Ids
<1>3. /\ piece \in [index : {i}, call : {Null, own}, name : names \cup {Null}, said : {none, word}]
      /\ Settled(tool, piece)
  BY DEF Pieces, Departs
<1>4. names \cup {Null} \subseteq Names BY DEF Names
<1>5. \A n \in names : n \in {"function", "custom"} /\ (n = "custom" => chat.custom) BY <1>1
<1>6. tool \in Tools BY <1>1 DEF Conv
<1> HIDE DEF tool, names, word, none, own
<1>7. piece \in PieceSet /\ piece.index = i /\ (piece.name # Null => piece.name \in names)
  BY <1>2, <1>3, <1>4 DEF PieceSet
<1>8. Fits(chat.custom, tool, piece) BY <1>3, <1>5, <1>6, <1>7, MergedIs DEF Fits, Settled
<1> QED BY <1>7, <1>8 DEF tool

LEMMA InvCalls ==
  ASSUME StreamInv, Departures = {}, CallsTools
  PROVE  StreamInv' /\ view' = view
<1>1. ASSUME NEW q \in Seq(PieceSet), Gets([Empty EXCEPT !.calls = q]),
             \A m, n \in 1..Len(q) : q[m].index = q[n].index => m = n,
             \A n \in 1..Len(q) : Fits(chat.custom, chat.tools[q[n].index], q[n])
      PROVE  StreamInv' /\ view' = view
  <2> DEFINE chunk == [Empty EXCEPT !.calls = q]
  <2>1. chunk.reasoning = <<>> /\ chunk.content = <<>> /\ chunk.calls = q BY EmptyIs
  <2>2. Gets(chunk) BY <1>1
  <2> HIDE DEF chunk
  <2>3. Calls(chat, chunk.calls) BY <1>1, <2>1 DEF Calls
  <2>4. Sendable(chat, chunk) BY <2>1, <2>3, EmptyText DEF Sendable
  <2> QED BY <2>2, <2>4, InvGets
<1>3. CASE \E i \in Indexes : \E piece \in Pieces(i) : Gets([Empty EXCEPT !.calls = <<piece>>])
  <2>1. PICK i \in Indexes : \E piece \in Pieces(i) : Gets([Empty EXCEPT !.calls = <<piece>>]) BY <1>3
  <2>2. PICK piece \in Pieces(i) : Gets([Empty EXCEPT !.calls = <<piece>>]) BY <2>1
  <2> DEFINE q == <<piece>>
  <2>3. piece \in PieceSet /\ piece.index = i /\ Fits(chat.custom, chat.tools[i], piece)
    BY <2>2, PiecesFit
  <2>4. q \in Seq(PieceSet) /\ Len(q) = 1 /\ q[1] = piece BY <2>3
  <2>5. Gets([Empty EXCEPT !.calls = q]) BY <2>2
  <2> HIDE DEF q
  <2> QED BY <2>3, <2>4, <2>5, <1>1
<1>4. CASE \E i, j \in Indexes :
             /\ i < j
             /\ \E p \in {piece \in Pieces(i) : piece.call # Null /\ piece.said = <<>>},
                   q \in {piece \in Pieces(j) : piece.call # Null /\ piece.said = <<>>} :
                  p.name # Null /\ Gets([Empty EXCEPT !.calls = <<p, q>>])
  <2>1. PICK i \in Indexes, j \in Indexes : i < j /\ \E p \in Pieces(i), q \in Pieces(j) :
             Gets([Empty EXCEPT !.calls = <<p, q>>])
    BY <1>4
  <2>2. PICK p \in Pieces(i), r \in Pieces(j) : Gets([Empty EXCEPT !.calls = <<p, r>>]) BY <2>1
  <2> DEFINE q == <<p, r>>
  <2>3. p \in PieceSet /\ p.index = i /\ Fits(chat.custom, chat.tools[i], p)
    BY <2>2, PiecesFit
  <2>4. r \in PieceSet /\ r.index = j /\ Fits(chat.custom, chat.tools[j], r)
    BY <2>2, PiecesFit
  <2>5. q \in Seq(PieceSet) /\ Len(q) = 2 /\ q[1] = p /\ q[2] = r BY <2>3, <2>4
  <2>6. Gets([Empty EXCEPT !.calls = q]) BY <2>2
  <2>7. i # j BY <2>1, StreamAssumption
  <2> HIDE DEF q
  <2>8. \A n \in 1..Len(q) : n = 1 \/ n = 2 BY <2>5
  <2> QED BY <2>3, <2>4, <2>5, <2>6, <2>7, <2>8, <1>1
<1>5. CASE Gets([Empty EXCEPT !.calls = <<>>])
  <2> DEFINE q == <<>>
  <2>1. q \in Seq(PieceSet) /\ Len(q) = 0 OBVIOUS
  <2>2. Gets([Empty EXCEPT !.calls = q]) BY <1>5
  <2> HIDE DEF q
  <2>3. 1..Len(q) = {} BY <2>1
  <2>4. \A m, n \in 1..Len(q) : q[m].index = q[n].index => m = n BY <2>3
  <2>5. \A n \in 1..Len(q) : Fits(chat.custom, chat.tools[q[n].index], q[n]) BY <2>3
  <2>6. q \in Seq(PieceSet) BY <2>1
  <2> QED BY ONLY <2>2, <2>4, <2>5, <2>6, <1>1
<1> QED BY <1>3, <1>4, <1>5 DEF CallsTools

----
(* The end. *)
LEMMA StaysEnded ==
  ASSUME StreamInv, wire = <<>>, chat.completed
  PROVE  Ended(view, chat)
BY AllRead DEF Ended

(* Completing and failing end the stream for Codex, whatever is open. *)
LEMMA EndsWell ==
  ASSUME StreamInv, wire = <<>>
  PROVE  Ended(view, Finalized(chat)) /\ Finalized(chat).custom = chat.custom
<1>1. CASE chat.completed
  BY <1>1, StaysEnded DEF Finalized
<1>2. CASE ~chat.completed
  BY <1>2, AllRead, FinalizedTold
<1> QED BY <1>1, <1>2

LEMMA EndsBadly ==
  ASSUME StreamInv, wire = <<>>, upstream = "open"
  PROVE  Ended(view, Failed(chat)) /\ Failed(chat).custom = chat.custom
<1>1. ~chat.completed BY DEF StreamInv, EndsAgree
<1>2. view \in Views /\ Going(chat) /\ Told(view, chat) BY <1>1, AllRead
<1> QED BY <1>2, FailedTold

LEMMA InvEnds ==
  ASSUME StreamInv, Departures = {}, Completes \/ Errs \/ Ends \/ Breaks
  PROVE  StreamInv' /\ view' = view
<1>1. CASE Completes
  BY <1>1, EndsWell, WritesEnd DEF Completes, Reading, StreamInv, StreamTyped, Converts
<1>2. CASE Errs
  BY <1>2, EndsBadly, WritesEnd DEF Errs, Reading, Departs, Converts
<1>3. CASE Ends
  <2>1. wire = <<>> /\ Converts(Finished(chat)) /\ UNCHANGED sent /\ upstream' \in {"done", "failed", "over"}
    BY <1>3 DEF Ends, Reading
  <2>2. Ended(view, Finished(chat)) /\ Finished(chat).custom = chat.custom
    <3>1. CASE chat.failed
      BY <3>1, <2>1, StaysEnded DEF StreamInv, EndsAgree, Finished
    <3>2. CASE ~chat.failed
      BY <3>2, <2>1, EndsWell DEF Finished
    <3> QED BY <3>1, <3>2
  <2> QED BY <2>1, <2>2, WritesEnd DEF Converts
<1>4. CASE Breaks
  BY <1>4, EndsBadly, WritesEnd DEF Breaks, Reading, Departs, Converts
<1> QED BY <1>1, <1>2, <1>3, <1>4

(* Every step keeps the invariant, and Codex sees a legal step or none. *)
LEMMA InvNext ==
  ASSUME StreamInv, Departures = {}, [StreamNext]_stream_vars
  PROVE  /\ StreamInv'
         /\ view' = view \/ (view \in Views /\ view' \in Views /\ Legal(view, view'))
<1>1. CASE Receive BY <1>1, InvReceive
<1>2. CASE Reasons BY <1>2, InvReasons
<1>3. CASE CallsTools BY <1>3, InvCalls
<1>4. CASE \E d \in {<<m>> : m \in Marks} \cup {<<Word>>, OpenTag, CloseTag} : Speaks(d)
  <2>1. PICK d \in {<<m>> : m \in Marks} \cup {<<Word>>, OpenTag, CloseTag} : Speaks(d) BY <1>4
  <2> QED BY <2>1, InvSpeaks
<1>5. CASE Completes \/ Errs \/ Ends \/ Breaks BY <1>5, InvEnds
<1>6. CASE UNCHANGED stream_vars
  <2>1. UNCHANGED <<tools_known, chat, wire, view, sent, upstream>> BY <1>6 DEF stream_vars
  <2>2. StreamTyped' /\ EndsAgree' /\ GoesOn' /\ WireTells'
    <3>1. StreamTyped' BY <2>1 DEF StreamInv, StreamTyped
    <3>2. EndsAgree' BY <2>1 DEF StreamInv, EndsAgree
    <3>3. GoesOn' BY <2>1 DEF StreamInv, GoesOn
    <3>4. WireTells' BY <2>1 DEF StreamInv, WireTells
    <3> QED BY <3>1, <3>2, <3>3, <3>4
  <2> QED BY <2>1, <2>2 DEF StreamInv
<1> QED BY <1>1, <1>2, <1>3, <1>4, <1>5, <1>6 DEF StreamNext

----
(* The proper stream. *)
LEMMA PrefixOfMore ==
  ASSUME NEW E, NEW a \in Seq(E), NEW b \in Seq(E)
  PROVE  Responses!IsPrefix(a, a \o b)
<1> DEFINE c == a \o b
           k == Len(a)
<1>1. c \in Seq(E) /\ k \in Nat /\ Len(c) = k + Len(b) /\ Len(b) \in Nat
      /\ \A n \in 1..k : c[n] = a[n]
  OBVIOUS
<1>2. SubSeq(a, 1, k) = [n \in 1..k |-> a[n]] /\ SubSeq(c, 1, k) = [n \in 1..k |-> c[n]]
  <2> HIDE DEF c
  <2>1. k <= Len(c) BY <1>1
  <2> QED BY <1>1, <2>1
<1> HIDE DEF c, k
<1>3. SubSeq(a, 1, k) = SubSeq(c, 1, k) BY <1>1, <1>2
<1>4. k <= Len(c) BY <1>1
<1> QED BY <1>3, <1>4 DEF Responses!IsPrefix, c, k

LEMMA LegalIsNext ==
  ASSUME view \in Views, view' \in Views, Legal(view, view')
  PROVE  Responses!Next
<1>0. view.items \in Seq(Shown) /\ view'.items \in Seq(Shown) BY DEF Views
<1>1. CASE Creates(view, view') BY <1>1 DEF Creates, Responses!Next, Responses!Create
<1>2. CASE Completed(view, view')
  BY <1>0, <1>2 DEF Completed, Responses!Next, Responses!Complete, Responses!Open
<1>3. CASE Failing(view, view') BY <1>3 DEF Failing, Responses!Next, Responses!Fail
<1>4. CASE Adds(view, view')
  <2>1. PICK item \in Shown : ~item.done /\ item.said = <<>> /\ view'.items = Append(view.items, item)
    BY <1>4 DEF Adds
  <2> DEFINE a == view.items
             b == view'.items
  <2>2. b = a \o <<item>> /\ Len(b) = Len(a) + 1 /\ b[Len(b)] = item BY <1>0, <2>1
  <2>3. Responses!IsPrefix(a, b)
    <3>1. <<item>> \in Seq(Shown) BY <2>1
    <3> DEFINE c == <<item>>
    <3> HIDE DEF a, b, c
    <3>2. a \in Seq(Shown) BY <1>0 DEF a
    <3> QED BY <2>2, <3>1, <3>2, PrefixOfMore DEF c
  <2>4. Responses!Last(b) = item BY <2>2 DEF Responses!Last
  <2>5. view.status = "in_progress" /\ view'.status = view.status BY <1>4 DEF Adds
  <2>6. Responses!AddItem
    BY ONLY <2>1, <2>2, <2>3, <2>4, <2>5 DEF Responses!AddItem, Responses!Open
  <2> QED BY <2>6 DEF Responses!Next
<1>5. CASE Changes(view, view')
  <2>1. view.status = "in_progress" /\ view'.status = view.status BY <1>5 DEF Changes
  <2>2. PICK n \in 1..Len(view.items), item \in Shown :
          /\ view'.items = [view.items EXCEPT ![n] = item]
          /\ ~view.items[n].done /\ item.kind = view.items[n].kind /\ item.call = view.items[n].call
          /\ \E d \in Seq(Texts) : item.said = view.items[n].said \o d
    BY <1>5 DEF Changes
  <2> DEFINE a == view.items
             b == view'.items
  <2>3. /\ Len(b) = Len(a) /\ b[n] = item /\ \A j \in DOMAIN a \ {n} : b[j] = a[j]
        /\ n \in DOMAIN a /\ a[n] \in Shown
    BY <1>0, <2>2
  <2>4. Responses!IsPrefix(a[n].said, b[n].said)
    <3>1. PICK d \in Seq(Texts) : item.said = a[n].said \o d BY <2>2
    <3>2. a[n].said \in Seq(Texts) BY <2>3 DEF Shown
    <3> DEFINE said == a[n].said
    <3> HIDE DEF said
    <3>3. item.said = said \o d /\ said \in Seq(Texts) BY <3>1, <3>2 DEF said
    <3>4. Responses!IsPrefix(said, item.said) BY <3>3, PrefixOfMore
    <3> QED BY <2>3, <3>4 DEF said
  <2>5. Responses!Changes(n)
    BY <2>2, <2>3, <2>4 DEF Responses!Changes, Responses!Open, Responses!Same
  <2>6. Responses!Stream(n) \/ Responses!Finish(n)
    BY <2>1, <2>5 DEF Responses!Stream, Responses!Finish
  <2>7. n \in DOMAIN view.items BY <2>3
  <2> QED BY <2>6, <2>7 DEF Responses!Next
<1> QED BY <1>1, <1>2, <1>3, <1>4, <1>5 DEF Legal

(* While the provider keeps to the protocol, the converter, the events on  *)
(* their way and what Codex has read of them fit together, and all are of  *)
(* their types.                                                            *)
THEOREM StreamKept ==
  ASSUME Departures = {}
  PROVE  StreamSpec => []StreamInv
<1>1. StreamInv /\ [StreamNext]_stream_vars => StreamInv' BY InvNext
<1> QED BY <1>1, InvInit, PTL DEF StreamSpec

(* The converter, the response Codex makes of its events and the state of  *)
(* the stream of a provider that keeps to the protocol keep their types.   *)
THEOREM StreamTypeCorrect ==
  ASSUME Departures = {}
  PROVE  StreamSpec => []StreamTypeOK
<1>1. StreamInv => StreamTypeOK
  <2> SUFFICES ASSUME StreamInv PROVE StreamTypeOK
    OBVIOUS
  <2>1. chat \in Conv /\ view \in Views BY DEF StreamInv, StreamTyped
  <2>2. chat.mode \in {"detecting", "reasoning", "text"} /\ chat.next \in Nat BY <2>1 DEF Conv
  <2>3. \A i \in Indexes : chat.tools[i].index \in {Null} \cup Nat
    BY <2>1 DEF Conv, Tools
  <2>4. view.status \in Statuses /\ view.items \in Seq(Shown) BY <2>1 DEF Views
  <2>5. ASSUME NEW n \in DOMAIN view.items
        PROVE  view.items[n].kind \in Kinds /\ view.items[n].done \in BOOLEAN
    <3>1. view.items[n] \in Shown BY <2>4
    <3> QED BY <3>1 DEF Shown
  <2> QED BY <2>2, <2>3, <2>4, <2>5 DEF StreamInv, StreamTyped, StreamTypeOK, Statuses, Kinds
<1> QED BY <1>1, StreamKept, PTL

(* What Codex reads of a provider that keeps to the protocol is a proper   *)
(* stream: items open one after the other, only an open item is streamed   *)
(* to, an item that is done stays as it is, the response completes with    *)
(* the items Codex has, and nothing follows its end.                       *)
THEOREM StreamIsProper ==
  ASSUME Departures = {}
  PROVE  StreamSpec => ImplementsResponses
<1>1. StreamInit => Responses!Init BY DEF StreamInit, Responses!Init
<1>2. StreamInv /\ [StreamNext]_stream_vars => [Responses!Next]_(Responses!vars)
  <2> SUFFICES ASSUME StreamInv, [StreamNext]_stream_vars PROVE [Responses!Next]_(Responses!vars)
    OBVIOUS
  <2>1. CASE view' = view BY <2>1 DEF Responses!vars
  <2>2. CASE view' # view
    <3>1. Responses!Next BY <2>2, InvNext, LegalIsNext
    <3> QED BY <3>1
  <2> QED BY <2>1, <2>2
<1> QED BY <1>1, <1>2, StreamKept, PTL DEF StreamSpec, ImplementsResponses, Responses!Spec

(* A response that failed is never completed as well, nor the other way    *)
(* round, when the provider keeps to the protocol.                         *)
THEOREM EndStays ==
  ASSUME Departures = {}
  PROVE  StreamSpec => EndIsFinal
<1>1. StreamInv /\ [StreamNext]_stream_vars
        => [view.status \in {"completed", "failed"} => view'.status = view.status]_stream_vars
  <2> SUFFICES ASSUME StreamInv, [StreamNext]_stream_vars, view.status \in {"completed", "failed"}
               PROVE  view'.status = view.status
    OBVIOUS
  <2> QED BY InvNext DEF Legal, Creates, Adds, Changes, Completed, Failing
<1> QED BY <1>1, StreamKept, PTL DEF StreamSpec, EndIsFinal

(* Codex learns how a response ended, whether the provider said [DONE],    *)
(* failed, or just closed or lost the connection, if it kept to the        *)
(* protocol.                                                               *)
THEOREM EndGetsTold ==
  ASSUME Departures = {}
  PROVE  StreamSpec => []EndIsTold
<1>1. StreamInv => EndIsTold
  <2> SUFFICES ASSUME StreamInv, upstream = "over", wire = <<>>
               PROVE  view.status \in {"completed", "failed"}
    BY DEF EndIsTold
  <2>1. chat.completed BY DEF StreamInv, EndsAgree
  <2>2. view.status = StatusOf(chat) BY AllRead
  <2> QED BY <2>1, <2>2 DEF StatusOf
<1> QED BY <1>1, StreamKept, PTL
================================================================================

-------------------------- MODULE MirrorAccessProofs ---------------------------
(***************************************************************************)
(* Proofs about MirrorAccess, for any groups, homes, contents and bounds.  *)
(* Every variable has its type.  As long as one operation runs at a time,  *)
(* a managed state always has a baseline of its own home to go back to,    *)
(* whatever write fails and wherever a process is killed; a complete       *)
(* rollback changes nothing, the keys Mirror does not manage are kept, the *)
(* baseline stays while the cycle is open.  In one home and with one       *)
(* failed write in an operation, the baseline is the user's, a restore     *)
(* leaves nothing of Mirror's behind, and a new cycle begins on clean      *)
(* files.                                                                  *)
(***************************************************************************)
EXTENDS MirrorAccess, FiniteSetTheorems, SequenceTheorems, TLAPS

----
(* The pure functions of AccessFiles return contents. *)

(* Merging the groups of the settings into a request gives a request. *)
LEMMA MergedIsAccess ==
  ASSUME NEW s \in Settings, s # Corrupt, NEW a \in Access, NEW replace \in BOOLEAN
  PROVE  [a EXCEPT !.groups = MergedGroups(s, @, replace)] \in Access
BY DEF Settings, SettingsRecords, Access, MergedGroups, SettingsGroups

(* Rewriting a config that parses for an access gives a config. *)
LEMMA ManagedConfigTyped ==
  ASSUME NEW current \in Configs, NEW base \in Configs, NEW a \in Access,
         SeedParses(current, base, a.mode)
  PROVE  BuildManagedConfig(ConfigSeed(current, base, a.mode), a) \in Configs
<1> DEFINE seed == ConfigSeed(current, base, a.mode)
<1>1. seed \in ConfigRecords
  BY DEF SeedParses, ConfigSeed, Configs, ConfigRecords, Own
<1>2. BuildManagedConfig(seed, a) \in Configs
  <2> HIDE DEF seed
  <2> QED BY <1>1 DEF BuildManagedConfig, Configs, ConfigRecords, Own
<1> QED BY <1>2

(* ... and so do the auth.json and the settings of an access. *)
LEMMA ManagedAuthTyped ==
  ASSUME NEW current \in Auths, NEW base \in Auths, NEW a \in Access, NEW fromPure
  PROVE  ManagedAuth(current, base, a, fromPure) \in Auths
<1>1. CASE a.mode = "pure"
  BY <1>1 DEF ManagedAuth, Auths, AuthRecords, Access, Own
<1>2. CASE a.mode # "pure" /\ a.mode = "mixed" /\ fromPure
  BY <1>2 DEF ManagedAuth
<1>3. CASE a.mode # "pure" /\ ~(a.mode = "mixed" /\ fromPure)
  BY <1>3 DEF ManagedAuth
<1> QED BY <1>1, <1>2, <1>3

LEMMA ManagedSettingsTyped ==
  ASSUME NEW current \in Settings, current # Corrupt, NEW a \in Access
  PROVE  ManagedSettings(current, a) \in Settings
BY DEF ManagedSettings, Settings, SettingsRecords, Own

(* Restoring files that parse, and recovering any files, gives contents. *)
LEMMA RestoredTyped ==
  /\ \A current, base \in Configs :
       /\ BothParse(current, base) => RestoredConfig(current, base) \in Configs
       /\ RecoveredConfig(current, base) \in Configs
  /\ \A current, base \in Auths :
       /\ BothParse(current, base) => RestoredAuth(current, base) \in Auths
       /\ RecoveredAuth(current, base) \in Auths
  /\ \A current, base \in Settings :
       /\ BothParse(current, base) => RestoredSettings(current, base) \in Settings
       /\ RecoveredSettings(current, base) \in Settings
<1>1. \A current, base \in Configs :
        BothParse(current, base) => RestoredConfig(current, base) \in Configs
  BY DEF BothParse, RestoredConfig, Configs, ConfigRecords, Own
<1>2. \A current, base \in Auths :
        BothParse(current, base) => RestoredAuth(current, base) \in Auths
  BY DEF BothParse, RestoredAuth, Auths, AuthRecords, Own
<1>3. \A current, base \in Settings :
        BothParse(current, base) => RestoredSettings(current, base) \in Settings
  BY DEF BothParse, RestoredSettings, Settings, SettingsRecords, Own
<1> QED BY <1>1, <1>2, <1>3 DEF RecoveredConfig, RecoveredAuth, RecoveredSettings

(* The models of an access are counted, and listed, in a catalog. *)
LEMMA AccessCounted ==
  ASSUME NEW a \in Access
  PROVE  /\ CatalogOf(a.groups) \in Catalogs
         /\ Cardinality(a.groups) \in Nat
<1>1. a.groups \in SUBSET Groups
  BY DEF Access
<1>2. IsFiniteSet(a.groups)
  BY <1>1, GroupsAssumption, FS_Subset
<1> QED BY <1>1, <1>2, FS_CardinalityType DEF Catalogs

----
(* Type correctness. *)

(* What TypeOK needs to be inductive: an operation that has begun knows    *)
(* its home, and an enable its access.                                     *)
JobsKnown ==
  \A p \in Procs :
    /\ pc[p] # "idle" => job[p].home \in Homes
    /\ pc[p] \in {"stage", "publish", "load"} => job[p].access \in Access

Typed == TypeOK /\ JobsKnown

LEMMA NoJobTyped == NoJob \in Jobs /\ DefaultState \in StateRecords
<1>1. DefaultState \in StateRecords
  BY DEF DefaultState, StateRecords, SyncStatuses
<1>2. NoImage \in Images
  BY <1>1 DEF NoImage, Images, Configs, Auths, Settings, Catalogs, Own, ManagedStates
<1> QED BY <1>1, <1>2 DEF NoJob, Jobs, Kinds, Baselines

LEMMA ImageTyped ==
  ASSUME TypeOK, NEW h \in Homes
  PROVE  ImageOf(h) \in Images
BY DEF TypeOK, ImageOf, Images

(* Writing any file of an image keeps the files typed. *)
LEMMA PutTyped ==
  ASSUME TypeOK, NEW f, NEW h \in Homes, NEW image \in Images, Put(f, h, image)
  PROVE  /\ config' \in [Homes -> Configs] /\ auth' \in [Homes -> Auths]
         /\ catalog' \in [Homes -> Catalogs] /\ settings' \in Settings
         /\ state' \in ManagedStates
BY DEF TypeOK, Put, Images

LEMMA BaselineTyped ==
  ASSUME NEW h \in Homes, NEW image \in Images
  PROVE  BaselineOf(h, image) \in BaselineRecords
BY DEF BaselineOf, BaselineRecords, Images

LEMMA RecordedTyped ==
  ASSUME TypeOK, NEW h \in Homes
  PROVE  /\ RestoreFailed(state) \in ManagedStates
         /\ \A synced \in BOOLEAN :
              Recordable(h) => Recorded(h, synced) \in ManagedStates
<1>1. state \in ManagedStates
  BY DEF TypeOK
<1>2. RestoreFailed(state) \in ManagedStates
  BY <1>1 DEF RestoreFailed, ManagedStates, StateRecords, SyncStatuses
<1>3. ASSUME NEW synced \in BOOLEAN, Recordable(h)
      PROVE  Recorded(h, synced) \in ManagedStates
  <2>1. state \in StateRecords
    BY <1>1, <1>3 DEF Recordable, ManagedStates
  <2> DEFINE s == CASE synced -> "synced"
                [] ~synced /\ ~state.active
                   /\ state.sync \in {"pending_restore", "restore_failed"} -> "restore_failed"
                [] OTHER -> "degraded"
  <2>2. s \in SyncStatuses
    BY <2>1 DEF SyncStatuses, StateRecords
  <2>3. Recorded(h, synced) = [state EXCEPT !.home = h, !.sync = s]
    BY DEF Recorded
  <2> HIDE DEF s
  <2> QED BY <2>1, <2>2, <2>3 DEF ManagedStates, StateRecords
<1> QED BY <1>2, <1>3

(* The contents an enable, a launch repair and a restore set out to write. *)
LEMMA EnabledTyped ==
  ASSUME Typed, NEW p \in Procs, pc[p] = "load",
         baseline \in BaselineRecords, settings # Corrupt,
         SeedParses(config[job[p].home], baseline.config, job[p].access.mode)
  PROVE  EnabledImage(p, baseline) \in Images
<1> DEFINE h == job[p].home
           a == job[p].access
           s == job[p].old.state
           fromPure == s.active /\ s.mode = "pure"
           record == [active |-> TRUE, mode |-> a.mode, count |-> Cardinality(a.groups),
                      default |-> a.default, sync |-> "pending", home |-> h]
<1>1. h \in Homes /\ a \in Access
  BY DEF Typed, JobsKnown
<1>2. /\ config[h] \in Configs /\ auth[h] \in Auths /\ settings \in Settings
      /\ baseline.config \in Configs /\ baseline.auth \in Auths
  BY <1>1 DEF Typed, TypeOK, BaselineRecords
<1>3. a.mode \in Modes /\ a.default \in Groups
  BY <1>1 DEF Access
<1>4. record \in ManagedStates
  BY <1>1, <1>3, AccessCounted DEF ManagedStates, StateRecords, SyncStatuses
<1>5. BuildManagedConfig(ConfigSeed(config[h], baseline.config, a.mode), a) \in Configs
  BY <1>1, <1>2, ManagedConfigTyped
<1>6. ManagedAuth(auth[h], baseline.auth, a, fromPure) \in Auths
  BY <1>1, <1>2, ManagedAuthTyped
<1>7. ManagedSettings(settings, a) \in Settings
  BY <1>1, <1>2, ManagedSettingsTyped
<1>8. CatalogOf(a.groups) \in Catalogs
  BY <1>1, AccessCounted
<1> QED BY <1>4, <1>5, <1>6, <1>7, <1>8 DEF EnabledImage, Images

LEMMA RepairedTyped ==
  ASSUME TypeOK, NEW h \in Homes, state # Corrupt, RepairAllowed(h)
  PROVE  RepairedImage(h) \in Images
<1>1. RepairAccess \in Access
  BY DEF TypeOK, RepairAllowed, RepairAccess, Access, Settings, SettingsRecords,
         ManagedStates, StateRecords
<1>2. RepairAccess.mode = state.mode
  BY DEF RepairAccess
<1>3. baseline \in BaselineRecords
  BY DEF TypeOK, RepairAllowed, HasBaseline, Baselines
<1>4. /\ config[h] \in Configs /\ auth[h] \in Auths
      /\ baseline.config \in Configs /\ baseline.auth \in Auths
  BY <1>3 DEF TypeOK, BaselineRecords
<1>5. BuildManagedConfig(ConfigSeed(config[h], baseline.config, state.mode), RepairAccess)
        \in Configs
  BY <1>1, <1>2, <1>4, ManagedConfigTyped DEF RepairAllowed
<1>6. ManagedAuth(auth[h], baseline.auth, RepairAccess, FALSE) \in Auths
  BY <1>1, <1>4, ManagedAuthTyped
<1>7. CatalogOf(RepairAccess.groups) \in Catalogs
  BY <1>1, AccessCounted
<1> QED BY <1>5, <1>6, <1>7, ImageTyped DEF RepairedImage, Images

LEMMA RestoredImageTyped ==
  ASSUME TypeOK, NEW kind \in {"restore", "recover"}, NEW h \in Homes,
         RestoreAllowed(kind, h), kind = "recover" \/ RestoreState(kind).active
  PROVE  RestoredImage(kind, h) \in Images
<1> DEFINE pending == [DefaultState EXCEPT !.sync = "pending_restore", !.home = h]
<1>1. baseline \in BaselineRecords
  BY DEF TypeOK, RestoreAllowed, HasBaseline, Baselines
<1>2. /\ config[h] \in Configs /\ auth[h] \in Auths /\ settings \in Settings
      /\ baseline.config \in Configs /\ baseline.auth \in Auths
      /\ baseline.settings \in Settings /\ baseline.catalog \in Catalogs
  BY <1>1 DEF TypeOK, BaselineRecords
<1>3. pending \in ManagedStates
  BY NoJobTyped DEF ManagedStates, StateRecords, SyncStatuses
<1>4. CASE kind = "recover"
  BY <1>2, <1>3, <1>4, RestoredTyped DEF RestoredImage, Images
<1>5. CASE kind = "restore"
  <2>1. BothParse(config[h], baseline.config) /\ BothParse(settings, baseline.settings)
    BY <1>5 DEF RestoreAllowed
  <2>2. state.mode # "mixed" => BothParse(auth[h], baseline.auth)
    BY <1>5 DEF RestoreAllowed, RestoreState
  <2>3. RestoredImage(kind, h) =
          [config |-> RestoredConfig(config[h], baseline.config),
           auth |-> IF state.mode = "mixed" THEN auth[h] ELSE RestoredAuth(auth[h], baseline.auth),
           settings |-> RestoredSettings(settings, baseline.settings),
           catalog |-> baseline.catalog, state |-> pending]
    BY <1>5 DEF RestoredImage, RestoreState
  <2> QED BY <1>2, <1>3, <2>1, <2>2, <2>3, RestoredTyped DEF Images
<1> QED BY <1>4, <1>5

----
(* Every action keeps the types.  FilesTyped and the rest are the parts of *)
(* Typed, named for the actions that leave the others alone.               *)
FilesTyped ==
  /\ config \in [Homes -> Configs] /\ auth \in [Homes -> Auths]
  /\ catalog \in [Homes -> Catalogs] /\ settings \in Settings

OpsTyped ==
  /\ pc \in [Procs -> PCs] /\ job \in [Procs -> Jobs]
  /\ todo \in [Procs -> Seq(FileIds)]
  /\ faults \in [Procs -> 0..MaxFaults] /\ torn \in [Procs -> BOOLEAN]
  /\ JobsKnown

EnvTyped ==
  /\ codexHome \in Homes /\ running \in BOOLEAN
  /\ edits \in 0..MaxEdits /\ crashes \in 0..MaxCrashes /\ damage \in 0..MaxDamage

LEMMA TypedParts ==
  FilesTyped' /\ OpsTyped' /\ EnvTyped' /\ state' \in ManagedStates /\ baseline' \in Baselines
    => Typed'
BY DEF Typed, TypeOK, FilesTyped, OpsTyped, EnvTyped

(* Ending an operation, and moving it on, keep the bookkeeping typed. *)
LEMMA FinishTyped ==
  ASSUME Typed, NEW p \in Procs, Finish(p)
  PROVE  OpsTyped'
<1>1. 0 \in 0..MaxFaults /\ <<>> \in Seq(FileIds) /\ "idle" \in PCs
  BY BoundsAssumption DEF PCs
<1>2. /\ pc' \in [Procs -> PCs] /\ job' \in [Procs -> Jobs]
      /\ todo' \in [Procs -> Seq(FileIds)]
      /\ faults' \in [Procs -> 0..MaxFaults] /\ torn' \in [Procs -> BOOLEAN]
  BY <1>1, NoJobTyped DEF Typed, TypeOK, Finish
<1>3. JobsKnown'
  BY DEF Typed, TypeOK, JobsKnown, Finish
<1> QED BY <1>2, <1>3 DEF OpsTyped

LEMMA GotoTyped ==
  ASSUME Typed, NEW p \in Procs, pc[p] # "idle", NEW at \in PCs,
         at \notin {"stage", "publish", "load"} \/ pc[p] \in {"stage", "publish", "load"},
         NEW left \in Seq(FileIds), Goto(p, at, left)
  PROVE  OpsTyped'
BY DEF Typed, TypeOK, JobsKnown, OpsTyped, Goto

LEMMA TodoTyped ==
  ASSUME Typed, NEW p \in Procs
  PROVE  /\ AllFiles \in Seq(FileIds) /\ <<>> \in Seq(FileIds)
         /\ todo[p] # <<>> => Tail(todo[p]) \in Seq(FileIds)
<1>1. AllFiles \in Seq(FileIds)
  BY DEF AllFiles, FileIds
<1>2. todo[p] \in Seq(FileIds)
  BY DEF Typed, TypeOK
<1>3. todo[p] # <<>> => Tail(todo[p]) \in Seq(FileIds)
  BY <1>2, HeadTailProperties
<1> QED BY <1>1, <1>3

LEMMA RollbackTyped ==
  ASSUME Typed, NEW p \in Procs, pc[p] # "idle", BeginRollback(p),
         faults' \in [Procs -> 0..MaxFaults]
  PROVE  OpsTyped'
<1>1. Rollback(p) \in PCs /\ Rollback(p) \notin {"stage", "publish", "load"}
  BY DEF Rollback, PCs
<1>2. job[p].home \in Homes
  BY DEF Typed, JobsKnown
<1>3. ImageOf(job[p].home) \in Images
  BY <1>2, ImageTyped DEF Typed
<1>4. /\ job' \in [Procs -> Jobs]
      /\ \A q \in Procs : job'[q].home = job[q].home /\ job'[q].access = job[q].access
  <2>1. job \in [Procs -> Jobs]
    BY DEF Typed, TypeOK
  <2>2. CASE Launching(p)
    <3>1. job' = [job EXCEPT ![p].new = ImageOf(job[p].home)]
      BY <2>2 DEF BeginRollback
    <3> QED BY <1>3, <2>1, <3>1 DEF Jobs
  <2>3. CASE ~Launching(p)
    BY <2>1, <2>3 DEF BeginRollback
  <2> QED BY <2>2, <2>3
<1> QED BY <1>1, <1>2, <1>4, TodoTyped DEF Typed, TypeOK, JobsKnown, OpsTyped, BeginRollback

LEMMA FaultTyped ==
  ASSUME Typed, NEW p \in Procs, Fault(p)
  PROVE  faults' \in [Procs -> 0..MaxFaults]
BY BoundsAssumption DEF Typed, TypeOK, Fault

LEMMA StaysTyped ==
  ASSUME Typed
  PROVE  /\ UNCHANGED files => FilesTyped'
         /\ UNCHANGED env => EnvTyped'
         /\ UNCHANGED ops => OpsTyped'
         /\ UNCHANGED state => state' \in ManagedStates
         /\ UNCHANGED baseline => baseline' \in Baselines
BY DEF Typed, TypeOK, JobsKnown, FilesTyped, EnvTyped, OpsTyped, files, env, ops, bounds

(* Beginning an operation in the current home. *)
LEMMA BeginTyped ==
  ASSUME Typed, NEW p \in Procs, NEW at \in PCs, NEW j \in Jobs, Begin(p, at, j),
         j.home \in Homes, at \in {"stage", "publish", "load"} => j.access \in Access
  PROVE  OpsTyped'
<1>1. /\ pc' \in [Procs -> PCs] /\ job' \in [Procs -> Jobs]
      /\ UNCHANGED <<todo, faults, torn>>
  BY DEF Typed, TypeOK, Begin
<1>2. JobsKnown'
  BY DEF Typed, TypeOK, JobsKnown, Begin
<1> QED BY <1>1, <1>2 DEF Typed, TypeOK, OpsTyped

LEMMA StartEnableTyped ==
  ASSUME Typed, StartEnable
  PROVE  Typed'
<1>1. PICK a \in Access, replace \in BOOLEAN :
        LET wanted == [a EXCEPT !.groups = MergedGroups(settings, @, replace)]
            image  == ImageOf(codexHome)
        IN /\ settings # Corrupt
           /\ Begin("manager",
                    IF NewCycle(state) \/ baseline = None THEN "stage" ELSE "load",
                    [NoJob EXCEPT !.kind = "enable", !.home = codexHome,
                                  !.access = wanted, !.fresh = NewCycle(state),
                                  !.old = image, !.new = image])
           /\ UNCHANGED <<files, state, baseline, env>>
  BY DEF StartEnable
<1> DEFINE wanted == [a EXCEPT !.groups = MergedGroups(settings, @, replace)]
           image  == ImageOf(codexHome)
           at == IF NewCycle(state) \/ baseline = None THEN "stage" ELSE "load"
           j == [NoJob EXCEPT !.kind = "enable", !.home = codexHome,
                              !.access = wanted, !.fresh = NewCycle(state),
                              !.old = image, !.new = image]
<1>2. codexHome \in Homes /\ settings \in Settings
  BY DEF Typed, TypeOK
<1>3. wanted \in Access
  BY <1>1, <1>2, MergedIsAccess
<1>4. image \in Images
  BY <1>2, ImageTyped DEF Typed
<1>5. NewCycle(state) \in BOOLEAN
  BY DEF NewCycle
<1>6. j \in Jobs /\ j.home \in Homes /\ j.access \in Access
  <2> HIDE DEF wanted, image
  <2> QED BY <1>2, <1>3, <1>4, <1>5, NoJobTyped DEF Jobs, Kinds
<1>7. at \in PCs /\ Begin("manager", at, j)
  BY <1>1 DEF PCs
<1>8. OpsTyped'
  <2> HIDE DEF at, j
  <2> QED BY <1>6, <1>7, BeginTyped DEF Procs
<1> QED BY <1>1, <1>8, StaysTyped, TypedParts

LEMMA BaselineActionsTyped ==
  ASSUME Typed, NEW p \in Procs, RetireBaseline(p) \/ PublishBaseline(p)
  PROVE  Typed'
<1>1. pc[p] \in {"stage", "publish"}
  BY DEF RetireBaseline, PublishBaseline
<1>2. job[p] \in Jobs /\ job[p].home \in Homes /\ job[p].new \in Images /\ job[p].prev \in Baselines
  BY <1>1 DEF Typed, TypeOK, JobsKnown, Jobs
<1>3. baseline' \in Baselines
  <2>1. BaselineOf(job[p].home, job[p].new) \in Baselines
    BY <1>2, BaselineTyped DEF Baselines
  <2>2. baseline \in Baselines
    BY DEF Typed, TypeOK
  <2> QED BY <1>2, <2>1, <2>2 DEF RetireBaseline, PublishBaseline, Baselines
<1>4. OpsTyped'
  <2>1. CASE RetireBaseline(p) /\ baseline' = None /\ job' = [job EXCEPT ![p].prev = baseline]
             /\ pc' = [pc EXCEPT ![p] = "publish"] /\ UNCHANGED <<todo, faults, torn>>
    <3>1. job' \in [Procs -> Jobs]
      BY <2>1 DEF Typed, TypeOK, Jobs
    <3>2. pc' \in [Procs -> PCs]
      BY <2>1 DEF Typed, TypeOK, PCs
    <3>3. \A q \in Procs : job'[q].home = job[q].home /\ job'[q].access = job[q].access
      BY <2>1 DEF Typed, TypeOK, Jobs
    <3> QED BY <1>1, <2>1, <3>1, <3>2, <3>3 DEF Typed, TypeOK, JobsKnown, OpsTyped
  <2>2. CASE Finish(p)
    BY <2>2, FinishTyped
  <2>3. CASE Goto(p, "load", <<>>)
    BY <1>1, <2>3, GotoTyped, TodoTyped DEF PCs
  <2> QED BY <2>1, <2>2, <2>3 DEF RetireBaseline, PublishBaseline
<1>5. UNCHANGED <<files, state, env>>
  BY DEF RetireBaseline, PublishBaseline
<1> QED BY <1>3, <1>4, <1>5, StaysTyped, TypedParts

LEMMA LoadEnableTyped ==
  ASSUME Typed, NEW p \in Procs, LoadEnable(p)
  PROVE  Typed'
<1> DEFINE h == job[p].home
           old == [ImageOf(h) EXCEPT !.state = job[p].old.state]
           new == EnabledImage(p, baseline)
<1>1. pc[p] = "load" /\ UNCHANGED <<files, state, baseline, env>>
  BY DEF LoadEnable
<1>2. CASE Finish(p)
  BY <1>1, <1>2, FinishTyped, StaysTyped, TypedParts
<1>3. CASE ~Finish(p)
  <2>1. /\ HasBaseline /\ settings # Corrupt
        /\ SeedParses(config[h], baseline.config, job[p].access.mode)
        /\ pc' = [pc EXCEPT ![p] = "write"]
        /\ todo' = [todo EXCEPT ![p] = <<"catalog", "auth", "config", "settings">>]
        /\ job' = [job EXCEPT ![p].old = old, ![p].new = new]
        /\ UNCHANGED <<faults, torn>>
    BY <1>3 DEF LoadEnable
  <2>2. baseline \in BaselineRecords
    BY <2>1 DEF Typed, TypeOK, HasBaseline, Baselines
  <2>3. new \in Images
    BY <1>1, <2>1, <2>2, EnabledTyped
  <2>4. job[p] \in Jobs /\ h \in Homes
    BY <1>1 DEF Typed, TypeOK, JobsKnown
  <2>5. old \in Images
    BY <2>4, ImageTyped DEF Typed, Jobs, Images
  <2>6. /\ job' \in [Procs -> Jobs]
        /\ \A q \in Procs : job'[q].home = job[q].home /\ job'[q].access = job[q].access
    <3>1. job \in [Procs -> Jobs]
      BY DEF Typed, TypeOK
    <3> HIDE DEF old, new
    <3> QED BY <2>1, <2>3, <2>5, <3>1 DEF Jobs
  <2>7. pc' \in [Procs -> PCs] /\ todo' \in [Procs -> Seq(FileIds)]
    BY <2>1 DEF Typed, TypeOK, PCs, FileIds
  <2>8. OpsTyped'
    <3>1. JobsKnown'
      <4>1. pc' = [pc EXCEPT ![p] = "write"] /\ pc \in [Procs -> PCs]
        BY <2>1 DEF Typed, TypeOK
      <4> QED BY <1>1, <2>6, <4>1 DEF Typed, JobsKnown
    <3>2. UNCHANGED <<faults, torn>>
      BY <2>1
    <3> QED BY <2>6, <2>7, <3>1, <3>2 DEF Typed, TypeOK, OpsTyped
  <2> QED BY <1>1, <2>8, StaysTyped, TypedParts
<1> QED BY <1>2, <1>3

(* A busy process has a home and two images. *)
LEMMA BusyJob ==
  ASSUME Typed, NEW p \in Procs, pc[p] # "idle"
  PROVE  /\ job[p] \in Jobs /\ job[p].home \in Homes
         /\ job[p].old \in Images /\ job[p].new \in Images
BY DEF Typed, TypeOK, JobsKnown, Jobs

(* One file written, or none, and the operation moved on. *)
LEMMA PutsTyped ==
  ASSUME Typed, NEW p \in Procs, pc[p] # "idle", NEW f,
         \/ Put(f, job[p].home, job[p].new)
         \/ Put(f, job[p].home, job[p].old)
         \/ UNCHANGED <<files, state>>,
         UNCHANGED <<baseline, env>>, OpsTyped'
  PROVE  Typed'
<1>1. FilesTyped' /\ state' \in ManagedStates
  <2>1. CASE UNCHANGED <<files, state>>
    BY <2>1, StaysTyped
  <2>2. CASE Put(f, job[p].home, job[p].new) \/ Put(f, job[p].home, job[p].old)
    BY <2>2, BusyJob, PutTyped DEF Typed, FilesTyped
  <2> QED BY <2>1, <2>2
<1> QED BY <1>1, StaysTyped, TypedParts

LEMMA WriteNextTyped ==
  ASSUME Typed, NEW p \in Procs, WriteNext(p)
  PROVE  Typed'
<1> DEFINE at == IF Tail(todo[p]) = <<>> THEN "verify" ELSE "write"
<1>1. pc[p] = "write" /\ todo[p] # <<>> /\ UNCHANGED <<baseline, env>>
  BY DEF WriteNext
<1>2. CASE Put(Head(todo[p]), job[p].home, job[p].new) /\ Goto(p, at, Tail(todo[p]))
  <2>1. at \in PCs /\ at \notin {"stage", "publish", "load"}
    BY DEF PCs
  <2>2. OpsTyped'
    <3> HIDE DEF at
    <3> QED BY <1>1, <1>2, <2>1, TodoTyped, GotoTyped
  <2> QED BY <1>1, <1>2, <2>2, PutsTyped
<1>3. CASE Fault(p) /\ BeginRollback(p) /\ UNCHANGED <<files, state>>
  <2>1. OpsTyped'
    BY <1>1, <1>3, FaultTyped, RollbackTyped
  <2> QED BY <1>1, <1>3, <2>1, PutsTyped
<1> QED BY <1>2, <1>3 DEF WriteNext

LEMMA VerifyTyped ==
  ASSUME Typed, NEW p \in Procs, Verify(p)
  PROVE  Typed'
<1> DEFINE at == IF job[p].kind = "launch1" THEN "check" ELSE "spawn"
           next == [NoJob EXCEPT !.kind = "launch2", !.home = job[p].home]
<1>1. pc[p] = "verify" /\ UNCHANGED <<files, state, baseline, env>>
  BY DEF Verify
<1>2. faults \in [Procs -> 0..MaxFaults]
  BY DEF Typed, TypeOK
<1>3. OpsTyped'
  <2>1. CASE /\ pc' = [pc EXCEPT ![p] = at] /\ job' = [job EXCEPT ![p] = next]
             /\ UNCHANGED <<todo, faults, torn>>
    <3>1. at \in PCs /\ at \notin {"stage", "publish", "load"} /\ next \in Jobs /\ next.home \in Homes
      BY <1>1, BusyJob, NoJobTyped DEF PCs, Jobs, Kinds
    <3>2. Begin(p, at, next)
      BY <2>1 DEF Begin
    <3> HIDE DEF at, next
    <3> QED BY <3>1, <3>2, BeginTyped
  <2>2. CASE Goto(p, "commit", <<>>)
    BY <1>1, <2>2, GotoTyped, TodoTyped DEF PCs
  <2>3. CASE BeginRollback(p) /\ UNCHANGED faults
    BY <1>1, <1>2, <2>3, RollbackTyped
  <2> QED BY <2>1, <2>2, <2>3 DEF Verify
<1> QED BY <1>1, <1>3, StaysTyped, TypedParts

LEMMA CommitTyped ==
  ASSUME Typed, NEW p \in Procs, Commit(p) \/ Confirm(p)
  PROVE  Typed'
<1>1. pc[p] \in {"commit", "confirm"} /\ UNCHANGED <<files, baseline, env>>
  BY DEF Commit, Confirm
<1>2. faults \in [Procs -> 0..MaxFaults]
  BY DEF Typed, TypeOK
<1>3. OpsTyped'
  <2>1. CASE Goto(p, "confirm", <<>>) \/ Goto(p, "image", <<>>) \/ Goto(p, "market", <<>>)
    BY <1>1, <2>1, GotoTyped, TodoTyped DEF PCs
  <2>2. CASE BeginRollback(p) /\ (Fault(p) \/ UNCHANGED faults)
    BY <1>1, <1>2, <2>2, RollbackTyped, FaultTyped
  <2> QED BY <2>1, <2>2 DEF Commit, Confirm
<1>4. state' \in ManagedStates
  <2>1. job[p].new.state \in ManagedStates
    BY <1>1, BusyJob DEF Images
  <2> QED BY <2>1, StaysTyped DEF Commit, Confirm
<1> QED BY <1>1, <1>3, <1>4, StaysTyped, TypedParts

(* Moving on to a place that is no part of an enable's beginning. *)
LEMMA MoveTyped ==
  ASSUME Typed, NEW p \in Procs, pc[p] # "idle",
         NEW at \in PCs, at \notin {"stage", "publish", "load"},
         pc' = [pc EXCEPT ![p] = at], todo' \in [Procs -> Seq(FileIds)],
         job' \in [Procs -> Jobs], \A q \in Procs : job'[q].home = job[q].home
                                                /\ job'[q].access = job[q].access,
         faults' \in [Procs -> 0..MaxFaults], torn' \in [Procs -> BOOLEAN]
  PROVE  OpsTyped'
BY DEF Typed, TypeOK, JobsKnown, OpsTyped

LEMMA UndoNextTyped ==
  ASSUME Typed, NEW p \in Procs, UndoNext(p)
  PROVE  Typed'
<1> DEFINE at == IF Tail(todo[p]) = <<>> THEN "undone" ELSE "undo"
<1>1. /\ pc[p] = "undo" /\ todo[p] # <<>> /\ UNCHANGED <<job, baseline, env>>
      /\ pc' = [pc EXCEPT ![p] = at] /\ todo' = [todo EXCEPT ![p] = Tail(@)]
  BY DEF UndoNext
<1>2. at \in PCs /\ at \notin {"stage", "publish", "load"}
  BY DEF PCs
<1>3. /\ todo' \in [Procs -> Seq(FileIds)]
      /\ job' \in [Procs -> Jobs]
      /\ \A q \in Procs : job'[q].home = job[q].home /\ job'[q].access = job[q].access
  BY <1>1, TodoTyped DEF Typed, TypeOK
<1>4. faults' \in [Procs -> 0..MaxFaults] /\ torn' \in [Procs -> BOOLEAN]
  BY FaultTyped DEF UndoNext, Typed, TypeOK
<1>5. OpsTyped'
  <2> HIDE DEF at
  <2> QED BY <1>1, <1>2, <1>3, <1>4, MoveTyped
<1>6. Put(Head(todo[p]), job[p].home, job[p].old) \/ UNCHANGED <<files, state>>
  BY DEF UndoNext
<1> QED BY <1>1, <1>5, <1>6, PutsTyped

LEMMA RedoNextTyped ==
  ASSUME Typed, NEW p \in Procs, RedoNext(p)
  PROVE  Typed'
<1> DEFINE at == IF Tail(todo[p]) = <<>> THEN "undone" ELSE "redo"
<1>1. /\ pc[p] = "redo" /\ todo[p] # <<>> /\ UNCHANGED <<job, torn, baseline, env>>
      /\ pc' = [pc EXCEPT ![p] = at] /\ todo' = [todo EXCEPT ![p] = Tail(@)]
  BY DEF RedoNext
<1>2. at \in PCs /\ at \notin {"stage", "publish", "load"}
  BY DEF PCs
<1>3. /\ todo' \in [Procs -> Seq(FileIds)]
      /\ job' \in [Procs -> Jobs]
      /\ \A q \in Procs : job'[q].home = job[q].home /\ job'[q].access = job[q].access
  BY <1>1, TodoTyped DEF Typed, TypeOK
<1>4. faults' \in [Procs -> 0..MaxFaults] /\ torn' \in [Procs -> BOOLEAN]
  BY <1>1, FaultTyped DEF RedoNext, Typed, TypeOK
<1>5. OpsTyped'
  <2> HIDE DEF at
  <2> QED BY <1>1, <1>2, <1>3, <1>4, MoveTyped
<1>6. Put(Head(todo[p]), job[p].home, job[p].new) \/ UNCHANGED <<files, state>>
  BY DEF RedoNext
<1> QED BY <1>1, <1>5, <1>6, PutsTyped

LEMMA TurnRoundTyped ==
  ASSUME Typed, NEW p \in Procs, pc[p] # "idle", TurnRound(p),
         faults' \in [Procs -> 0..MaxFaults]
  PROVE  OpsTyped'
<1>1. /\ pc' = [pc EXCEPT ![p] = "redo"] /\ UNCHANGED job
      /\ todo' \in [Procs -> Seq(FileIds)] /\ torn' \in [Procs -> BOOLEAN]
      /\ job \in [Procs -> Jobs]
  BY TodoTyped DEF TurnRound, Typed, TypeOK
<1> QED BY <1>1, MoveTyped DEF PCs

LEMMA RewindNextTyped ==
  ASSUME Typed, NEW p \in Procs, RewindNext(p)
  PROVE  Typed'
<1>1. pc[p] = "rewind" /\ UNCHANGED <<baseline, env>>
  BY DEF RewindNext
<1>2. faults \in [Procs -> 0..MaxFaults]
  BY DEF Typed, TypeOK
<1>3. CASE /\ todo[p] # <<>> /\ Put(Head(todo[p]), job[p].home, job[p].old)
           /\ Goto(p, "rewind", Tail(todo[p]))
  <2>1. OpsTyped'
    BY <1>1, <1>3, GotoTyped, TodoTyped DEF PCs
  <2> QED BY <1>1, <1>3, <2>1, PutsTyped
<1>4. CASE TurnRound(p) /\ (Fault(p) \/ UNCHANGED faults)
  <2>1. OpsTyped'
    BY <1>1, <1>2, <1>4, TurnRoundTyped, FaultTyped
  <2>2. UNCHANGED <<files, state>>
    BY <1>4 DEF TurnRound
  <2> QED BY <1>1, <2>1, <2>2, PutsTyped
<1>5. CASE Goto(p, "undone", <<>>) /\ UNCHANGED <<files, state>>
  <2>1. OpsTyped'
    BY <1>1, <1>5, GotoTyped, TodoTyped DEF PCs
  <2> QED BY <1>1, <1>5, <2>1, PutsTyped
<1> QED BY <1>3, <1>4, <1>5 DEF RewindNext

LEMMA AbandonTyped ==
  ASSUME Typed, NEW p \in Procs, pc[p] # "idle", Abandon(p)
  PROVE  OpsTyped'
<1>1. job \in [Procs -> Jobs] /\ ImageOf(job[p].home) \in Images
  BY BusyJob, ImageTyped DEF Typed, TypeOK
<1>2. /\ job' \in [Procs -> Jobs]
      /\ \A q \in Procs : job'[q].home = job[q].home /\ job'[q].access = job[q].access
  BY <1>1 DEF Abandon, Jobs
<1>3. /\ pc' = [pc EXCEPT ![p] = "rewind"] /\ todo' \in [Procs -> Seq(FileIds)]
      /\ faults' \in [Procs -> 0..MaxFaults] /\ torn' \in [Procs -> BOOLEAN]
  BY TodoTyped DEF Abandon, Typed, TypeOK
<1> QED BY <1>2, <1>3, MoveTyped DEF PCs

(* The steps after the commit, and the report of a failure. *)
LEMMA AftermathTyped ==
  ASSUME Typed, NEW p \in Procs,
         Report(p) \/ Pause(p) \/ Marketplace(p) \/ ImageSkill(p) \/ SyncSessions(p)
  PROVE  Typed'
<1>1. pc[p] # "idle" /\ UNCHANGED <<files, baseline, env>>
  BY DEF Report, Pause, Marketplace, ImageSkill, SyncSessions
<1>2. OpsTyped'
  <2>1. CASE Finish(p)
    BY <2>1, FinishTyped
  <2>2. CASE Goto(p, "image", <<>>) \/ Goto(p, "sync", <<>>)
    BY <1>1, <2>2, GotoTyped, TodoTyped DEF PCs
  <2>3. CASE Abandon(p)
    BY <1>1, <2>3, AbandonTyped
  <2> QED BY <2>1, <2>2, <2>3 DEF Report, Pause, Marketplace, ImageSkill, SyncSessions
<1>3. state' \in ManagedStates
  <2>1. job[p].home \in Homes /\ state \in ManagedStates /\ FALSE \in BOOLEAN
    BY <1>1, BusyJob DEF Typed, TypeOK
  <2>2. RestoreFailed(state) \in ManagedStates
    BY <2>1, RecordedTyped DEF Typed
  <2>3. \A synced \in BOOLEAN : Recordable(job[p].home) => Recorded(job[p].home, synced) \in ManagedStates
    BY <2>1, RecordedTyped DEF Typed
  <2> QED BY <2>1, <2>2, <2>3 DEF Report, Pause, Marketplace, ImageSkill, SyncSessions
<1> QED BY <1>1, <1>2, <1>3, StaysTyped, TypedParts

(* The other ways an operation begins. *)
LEMMA StartsTyped ==
  ASSUME Typed, StartRepair \/ StartLaunch
  PROVE  Typed'
<1> DEFINE j(kind) == [NoJob EXCEPT !.kind = kind, !.home = codexHome]
<1>1. \A kind \in Kinds : j(kind) \in Jobs /\ j(kind).home \in Homes
  BY NoJobTyped DEF Typed, TypeOK, Jobs
<1>2. OpsTyped'
  <2>1. CASE Begin("manager", "sync", j("repair"))
    <3>1. "repair" \in Kinds /\ "sync" \in PCs /\ "manager" \in Procs
      BY DEF Kinds, PCs, Procs
    <3> HIDE DEF j
    <3> QED BY <1>1, <2>1, <3>1, BeginTyped
  <2>2. CASE Begin("launcher", "check", j("launch1"))
    <3>1. "launch1" \in Kinds /\ "check" \in PCs /\ "launcher" \in Procs
      BY DEF Kinds, PCs, Procs
    <3> HIDE DEF j
    <3> QED BY <1>1, <2>2, <3>1, BeginTyped
  <2> QED BY <2>1, <2>2 DEF StartRepair, StartLaunch
<1>3. UNCHANGED <<files, state, baseline, env>>
  BY DEF StartRepair, StartLaunch
<1> QED BY <1>2, <1>3, StaysTyped, TypedParts

LEMMA RefuseRestoreTyped ==
  ASSUME Typed, RefuseRestore
  PROVE  Typed'
<1>1. UNCHANGED <<files, baseline, ops, env>> /\ state' = RestoreFailed(state)
  BY DEF RefuseRestore
<1>2. RestoreFailed(state) \in ManagedStates
  BY RecordedTyped DEF Typed, TypeOK
<1> QED BY <1>1, <1>2, StaysTyped, TypedParts

LEMMA StartRestoreTyped ==
  ASSUME Typed, NEW kind \in {"restore", "recover"}, StartRestore(kind)
  PROVE  Typed'
<1> DEFINE h == codexHome
           touches == kind = "recover" \/ RestoreState(kind).active
           pending == [DefaultState EXCEPT !.sync = "pending_restore", !.home = h]
           new == IF touches THEN RestoredImage(kind, h) ELSE [ImageOf(h) EXCEPT !.state = pending]
           at == IF touches THEN "write" ELSE "commit"
           left == IF touches THEN <<"config", "auth", "settings", "catalog">> ELSE <<>>
           j == [NoJob EXCEPT !.kind = kind, !.home = h, !.old = ImageOf(h), !.new = new]
<1>1. /\ RestoreAllowed(kind, h)
      /\ pc' = [pc EXCEPT !["manager"] = at] /\ todo' = [todo EXCEPT !["manager"] = left]
      /\ job' = [job EXCEPT !["manager"] = j]
      /\ UNCHANGED <<files, state, baseline, faults, torn, env>>
  BY DEF StartRestore
<1>2. h \in Homes /\ ImageOf(h) \in Images
  BY ImageTyped DEF Typed, TypeOK
<1>3. pending \in ManagedStates
  BY <1>2, NoJobTyped DEF ManagedStates, StateRecords, SyncStatuses
<1>4. new \in Images
  <2>1. touches => RestoredImage(kind, h) \in Images
    BY <1>1, <1>2, RestoredImageTyped DEF Typed
  <2>2. [ImageOf(h) EXCEPT !.state = pending] \in Images
    <3> HIDE DEF pending
    <3> QED BY <1>2, <1>3 DEF Images
  <2> QED BY <2>1, <2>2
<1>5. j \in Jobs /\ j.home \in Homes
  <2> HIDE DEF new
  <2> QED BY <1>2, <1>4, NoJobTyped DEF Jobs, Kinds
<1>6. at \in PCs /\ at \notin {"stage", "publish", "load"} /\ left \in Seq(FileIds)
  <2>1. /\ <<"config", "auth", "settings", "catalog">> \in Seq(FileIds)
        /\ <<>> \in Seq(FileIds)
    BY DEF FileIds
  <2>2. at \in PCs /\ at \notin {"stage", "publish", "load"}
    BY DEF PCs
  <2> QED BY <2>1, <2>2
<1>7. OpsTyped'
  <2> HIDE DEF at, left, j
  <2>1. /\ pc' \in [Procs -> PCs] /\ todo' \in [Procs -> Seq(FileIds)] /\ job' \in [Procs -> Jobs]
        /\ UNCHANGED <<faults, torn>>
    BY <1>1, <1>5, <1>6 DEF Typed, TypeOK
  <2>2. JobsKnown'
    BY <1>1, <1>5, <1>6 DEF Typed, TypeOK, JobsKnown
  <2> QED BY <2>1, <2>2 DEF Typed, TypeOK, OpsTyped
<1> QED BY <1>1, <1>7, StaysTyped, TypedParts

LEMMA DifferingTyped ==
  ASSUME NEW h, NEW image
  PROVE  Differing(h, image) \in Seq(FileIds)
<1> DEFINE IfDiffers(f) == IF ImageOf(h)[f] # image[f] THEN <<f>> ELSE <<>>
<1>1. \A f \in FileIds : IfDiffers(f) \in Seq(FileIds)
  OBVIOUS
<1>2. "catalog" \in FileIds /\ "auth" \in FileIds /\ "config" \in FileIds
  BY DEF FileIds
<1>3. Differing(h, image) = IfDiffers("catalog") \o IfDiffers("auth") \o IfDiffers("config")
  BY DEF Differing
<1> HIDE DEF IfDiffers
<1>4. IfDiffers("catalog") \o IfDiffers("auth") \in Seq(FileIds)
  BY <1>1, <1>2, ConcatProperties
<1> QED BY <1>1, <1>2, <1>3, <1>4, ConcatProperties

LEMMA CheckProviderTyped ==
  ASSUME Typed, NEW p \in Procs, CheckProvider(p)
  PROVE  Typed'
<1> DEFINE h == job[p].home
           image == RepairedImage(h)
           next == IF job[p].kind = "launch1" THEN "check" ELSE "spawn"
           Passed == /\ pc' = [pc EXCEPT ![p] = next]
                     /\ job' = [job EXCEPT ![p].kind = "launch2"]
                     /\ UNCHANGED <<todo, faults, torn>>
           Repairs == /\ state # Corrupt /\ RepairAllowed(h)
                      /\ pc' = [pc EXCEPT ![p] = "write"]
                      /\ todo' = [todo EXCEPT ![p] = Differing(h, image)]
                      /\ job' = [job EXCEPT ![p].old = ImageOf(h), ![p].new = image]
                      /\ UNCHANGED <<faults, torn>>
<1>1. pc[p] = "check" /\ UNCHANGED <<files, state, baseline, env>>
  BY DEF CheckProvider
<1>2. /\ job \in [Procs -> Jobs] /\ h \in Homes /\ todo \in [Procs -> Seq(FileIds)]
      /\ faults \in [Procs -> 0..MaxFaults] /\ torn \in [Procs -> BOOLEAN]
  BY <1>1, BusyJob DEF Typed, TypeOK
<1>3. Passed \/ Repairs \/ Finish(p)
  <2>1. CASE state # Corrupt /\ ~state.active
    BY <2>1 DEF CheckProvider
  <2>2. CASE state # Corrupt /\ state.active /\ RepairAllowed(h)
    BY <2>2 DEF CheckProvider
  <2>3. CASE ~(state # Corrupt /\ ~state.active)
             /\ ~(state # Corrupt /\ state.active /\ RepairAllowed(h))
    BY <2>3 DEF CheckProvider
  <2> QED BY <2>1, <2>2, <2>3
<1>4. OpsTyped'
  <2>1. CASE Passed
    <3>1. next \in PCs /\ next \notin {"stage", "publish", "load"}
      BY DEF PCs
    <3>2. /\ job' \in [Procs -> Jobs]
          /\ \A q \in Procs : job'[q].home = job[q].home /\ job'[q].access = job[q].access
      BY <1>2, <2>1 DEF Jobs, Kinds
    <3>3. pc' = [pc EXCEPT ![p] = next] /\ UNCHANGED <<todo, faults, torn>>
      BY <2>1
    <3> HIDE DEF next
    <3> QED BY <1>1, <1>2, <3>1, <3>2, <3>3, MoveTyped
  <2>2. CASE Repairs
    <3>1. image \in Images /\ ImageOf(h) \in Images
      BY <1>2, <2>2, RepairedTyped, ImageTyped DEF Typed
    <3>2. job' = [job EXCEPT ![p].old = ImageOf(h), ![p].new = image]
      BY <2>2
    <3>3. /\ job' \in [Procs -> Jobs]
          /\ \A q \in Procs : job'[q].home = job[q].home /\ job'[q].access = job[q].access
      <4> HIDE DEF image
      <4> QED BY <1>2, <3>1, <3>2 DEF Jobs
    <3>4. /\ pc' = [pc EXCEPT ![p] = "write"] /\ todo' \in [Procs -> Seq(FileIds)]
          /\ UNCHANGED <<faults, torn>>
      BY <1>2, <2>2, DifferingTyped
    <3> QED BY <1>1, <1>2, <3>3, <3>4, MoveTyped DEF PCs
  <2>3. CASE Finish(p)
    BY <2>3, FinishTyped
  <2> QED BY <1>3, <2>1, <2>2, <2>3
<1> QED BY <1>1, <1>4, StaysTyped, TypedParts

(* Spawning Codex, and the process that dies. *)
LEMMA SpawnTyped ==
  ASSUME Typed, NEW p \in Procs, Spawn(p) \/ Crash(p)
  PROVE  Typed'
<1>1. OpsTyped' /\ UNCHANGED <<files, state, baseline>>
  BY FinishTyped DEF Spawn, Crash
<1>2. CASE Spawn(p)
  <2>1. running' = TRUE /\ UNCHANGED <<codexHome, edits, crashes, damage>>
    BY <1>2 DEF Spawn, bounds
  <2>2. EnvTyped'
    BY <2>1 DEF Typed, TypeOK, EnvTyped
  <2> QED BY <1>1, <2>2, StaysTyped, TypedParts
<1>3. CASE Crash(p)
  <2>1. crashes < MaxCrashes /\ crashes' = crashes + 1
        /\ UNCHANGED <<codexHome, running, edits, damage>>
    BY <1>3 DEF Crash
  <2>2. crashes' \in 0..MaxCrashes
    BY <2>1, BoundsAssumption DEF Typed, TypeOK
  <2>3. EnvTyped'
    BY <2>1, <2>2 DEF Typed, TypeOK, EnvTyped
  <2> QED BY <1>1, <2>3, StaysTyped, TypedParts
<1> QED BY <1>2, <1>3

(* The world outside. *)
LEMMA EditTyped ==
  ASSUME Typed, Edit, UNCHANGED <<codexHome, running>>
  PROVE  EnvTyped'
BY BoundsAssumption DEF Typed, TypeOK, Edit, EnvTyped

LEMMA UserTyped ==
  ASSUME Typed, NEW h \in Homes, NEW v \in UserValues,
         UserEditsConfig(h, v) \/ UserLogsIn(h, v) \/ UserEditsSettings(v)
  PROVE  Typed'
<1>1. Edit /\ UNCHANGED <<codexHome, state, baseline, running, ops>>
  BY DEF UserEditsConfig, UserLogsIn, UserEditsSettings, Elsewhere
<1>2. FilesTyped'
  <2>1. v \in Own
    BY DEF Own
  <2>2. CASE UserEditsConfig(h, v)
    <3>1. config[h] \in ConfigRecords /\ UNCHANGED <<auth, catalog, settings>>
      BY <2>2 DEF UserEditsConfig, Typed, TypeOK, Configs
    <3>2. /\ [config[h] EXCEPT !.access = v, !.login = v] \in Configs
          /\ [config[h] EXCEPT !.other = v] \in Configs
      BY <2>1, <3>1 DEF Configs, ConfigRecords
    <3>3. \E c \in Configs : config' = [config EXCEPT ![h] = c]
      <4>1. CASE config' = [config EXCEPT ![h].access = v, ![h].login = v]
        BY <3>2, <4>1 DEF Typed, TypeOK
      <4>2. CASE config' = [config EXCEPT ![h].other = v]
        BY <3>2, <4>2
      <4> QED BY <2>2, <4>1, <4>2 DEF UserEditsConfig
    <3>4. config' \in [Homes -> Configs]
      BY <3>3 DEF Typed, TypeOK
    <3> QED BY <3>1, <3>4 DEF Typed, TypeOK, FilesTyped
  <2>3. CASE UserLogsIn(h, v)
    <3>1. [key |-> Unset, login |-> v] \in Auths
      BY <2>1 DEF Auths, AuthRecords, Own
    <3> QED BY <2>3, <3>1 DEF UserLogsIn, Typed, TypeOK, FilesTyped
  <2>4. CASE UserEditsSettings(v)
    <3>1. settings' \in Settings
      BY <2>1, <2>4 DEF UserEditsSettings, Typed, TypeOK, Settings, SettingsRecords
    <3> QED BY <2>4, <3>1 DEF UserEditsSettings, Typed, TypeOK, FilesTyped
  <2> QED BY <2>2, <2>3, <2>4
<1> QED BY <1>1, <1>2, EditTyped, StaysTyped, TypedParts

LEMMA FileBreaksTyped ==
  ASSUME Typed, FileBreaks
  PROVE  Typed'
<1>1. UNCHANGED <<codexHome, catalog, running, ops, edits, crashes>> /\ damage' = damage + 1 /\ damage < MaxDamage
  BY DEF FileBreaks
<1>2. EnvTyped'
  BY <1>1, BoundsAssumption DEF Typed, TypeOK, EnvTyped
<1>3. Corrupt \in Configs /\ Corrupt \in Auths /\ Corrupt \in Settings
      /\ Corrupt \in ManagedStates /\ Corrupt \in Baselines
  BY DEF Configs, Auths, Settings, ManagedStates, Baselines
<1>4. FilesTyped' /\ state' \in ManagedStates /\ baseline' \in Baselines
  BY <1>1, <1>3 DEF FileBreaks, Typed, TypeOK, FilesTyped
<1> QED BY <1>1, <1>2, <1>4, StaysTyped, TypedParts

LEMMA SurroundingsTyped ==
  ASSUME Typed, (\E h \in Homes : HomeMoves(h)) \/ CodexStarts \/ CodexExits
  PROVE  Typed'
<1>1. UNCHANGED <<files, state, baseline, ops>>
  BY DEF HomeMoves, CodexStarts, CodexExits
<1>2. EnvTyped'
  BY DEF HomeMoves, CodexStarts, CodexExits, Typed, TypeOK, EnvTyped, bounds
<1> QED BY <1>1, <1>2, StaysTyped, TypedParts

----
LEMMA TypedInit == Init => Typed
<1> SUFFICES ASSUME Init PROVE Typed
  OBVIOUS
<1>1. /\ config \in [Homes -> Configs] /\ auth \in [Homes -> Auths]
      /\ catalog \in [Homes -> Catalogs] /\ settings \in Settings
  <2>1. \A v \in Own : /\ [access |-> v, login |-> v, other |-> v] \in Configs
                       /\ [key |-> v, login |-> v] \in Auths
                       /\ [access |-> v, other |-> v] \in Settings
                       /\ v \in Catalogs
    BY DEF Configs, ConfigRecords, Auths, AuthRecords, Settings, SettingsRecords, Catalogs
  <2>2. Unset \in Own
    BY DEF Own
  <2>3. config \in [Homes -> Configs]
    <3> DEFINE owned == {[access |-> v, login |-> v, other |-> v] : v \in Own}
    <3>1. owned \subseteq Configs
      BY <2>1
    <3>2. config \in [Homes -> owned]
      BY DEF Init
    <3> HIDE DEF owned
    <3> QED BY <3>1, <3>2
  <2>4. auth \in [Homes -> Auths]
    <3> DEFINE owned == {[key |-> v, login |-> v] : v \in Own}
    <3>1. owned \subseteq Auths
      BY <2>1
    <3>2. auth \in [Homes -> owned]
      BY DEF Init
    <3> HIDE DEF owned
    <3> QED BY <3>1, <3>2
  <2>5. settings \in Settings /\ catalog \in [Homes -> Catalogs]
    BY <2>1, <2>2 DEF Init
  <2> QED BY <2>3, <2>4, <2>5
<1>2. /\ state \in ManagedStates /\ baseline \in Baselines
      /\ codexHome \in Homes /\ running \in BOOLEAN
  BY NoJobTyped DEF Init, ManagedStates, Baselines
<1>3. /\ pc \in [Procs -> PCs] /\ job \in [Procs -> Jobs]
      /\ todo \in [Procs -> Seq(FileIds)]
      /\ faults \in [Procs -> 0..MaxFaults] /\ torn \in [Procs -> BOOLEAN]
  BY NoJobTyped, BoundsAssumption DEF Init, PCs
<1>4. edits \in 0..MaxEdits /\ crashes \in 0..MaxCrashes /\ damage \in 0..MaxDamage
  BY BoundsAssumption DEF Init
<1>5. JobsKnown
  BY DEF Init, JobsKnown
<1> QED BY <1>1, <1>2, <1>3, <1>4, <1>5 DEF Typed, TypeOK

LEMMA TypedNext == Typed /\ [Next]_vars => Typed'
<1> SUFFICES ASSUME Typed, [Next]_vars PROVE Typed'
  OBVIOUS
<1>1. CASE Start
  BY <1>1, StartEnableTyped, StartRestoreTyped, RefuseRestoreTyped, StartsTyped DEF Start
<1>2. CASE World
  <2>1. CASE \E h \in Homes, v \in UserValues : UserEditsConfig(h, v) \/ UserLogsIn(h, v)
    BY <2>1, UserTyped
  <2>2. CASE \E v \in UserValues : UserEditsSettings(v)
    BY <2>2, UserTyped DEF Typed, TypeOK
  <2> QED BY <1>2, <2>1, <2>2, FileBreaksTyped, SurroundingsTyped DEF World
<1>3. ASSUME NEW p \in Procs, Step(p) PROVE Typed'
  BY <1>3, BaselineActionsTyped, LoadEnableTyped, WriteNextTyped, VerifyTyped, CommitTyped,
     UndoNextTyped, RewindNextTyped, RedoNextTyped, AftermathTyped, CheckProviderTyped,
     SpawnTyped DEF Step
<1>4. ASSUME NEW p \in Procs, Crash(p) PROVE Typed'
  BY <1>4, SpawnTyped
<1>5. CASE UNCHANGED vars
  <2>1. UNCHANGED <<files, state, baseline, ops, env>>
    BY <1>5 DEF vars, files, ops, env
  <2> QED BY <2>1, StaysTyped, TypedParts
<1> QED BY <1>1, <1>2, <1>3, <1>4, <1>5 DEF Next

(* Every operation, failure, rollback and edit keeps every variable typed. *)
THEOREM TypeCorrect == Spec => []TypeOK
<1>1. Typed => TypeOK
  BY DEF Typed
<1> QED BY <1>1, TypedInit, TypedNext, PTL DEF Spec

----

(* s is not managed, or b is a baseline of its home (or one that has       *)
(* stopped validating since).                                              *)
Managed(s) == s # Corrupt /\ s.active

Covered(s, b) == Managed(s) => b = Corrupt \/ (b # None /\ s.home = b.home)

(* One operation runs at a time; the state, and the states an operation    *)
(* may still write, are covered; while the baseline is being replaced none *)
(* of them is managed.                                                     *)
OneAtATime == \A p, q \in Procs : ~Idle(p) /\ ~Idle(q) => p = q

AllCovered ==
  /\ Covered(state, baseline)
  /\ \A p \in Procs : ~Idle(p) => /\ Covered(job[p].old.state, baseline)
                                  /\ Covered(job[p].new.state, baseline)

NoneManagedWhileReplacing ==
  \A p \in Procs : pc[p] \in {"stage", "publish"} =>
    ~Managed(state) /\ ~Managed(job[p].old.state) /\ ~Managed(job[p].new.state)

Kept == Typed /\ OneAtATime /\ AllCovered /\ NoneManagedWhileReplacing

----
(* A step of the only busy process: what it must establish. *)
LEMMA AloneKeeps ==
  ASSUME Typed', NEW p \in Procs, \A q \in Procs : q # p => Idle(q),
         pc \in [Procs -> PCs], NEW at, pc' = [pc EXCEPT ![p] = at],
         Covered(state', baseline'),
         at # "idle" => /\ Covered(job'[p].old.state, baseline')
                        /\ Covered(job'[p].new.state, baseline'),
         at \notin {"stage", "publish"}
  PROVE  Kept'
<1>1. \A q \in Procs : q # p => pc'[q] = "idle"
  BY DEF Idle
<1>2. pc'[p] = at
  OBVIOUS
<1> QED BY <1>1, <1>2 DEF Kept, OneAtATime, AllCovered, NoneManagedWhileReplacing, Idle

LEMMA OthersIdle ==
  ASSUME Kept, NEW p \in Procs, ~Idle(p)
  PROVE  \A q \in Procs : q # p => Idle(q)
BY DEF Kept, OneAtATime

(* Ending, moving on and turning to the rollback, the baseline untouched. *)
LEMMA FinishKeeps ==
  ASSUME Kept, Typed', NEW p \in Procs, ~Idle(p), Finish(p),
         Covered(state', baseline')
  PROVE  Kept'
<1>1. pc' = [pc EXCEPT ![p] = "idle"] /\ pc \in [Procs -> PCs]
  BY DEF Finish, Kept, Typed, TypeOK
<1> QED BY <1>1, OthersIdle, AloneKeeps

LEMMA MoveKeeps ==
  ASSUME Kept, Typed', NEW p \in Procs, ~Idle(p), NEW at,
         pc' = [pc EXCEPT ![p] = at], at \notin {"stage", "publish"},
         UNCHANGED <<job, baseline>>, Covered(state', baseline')
  PROVE  Kept'
<1>1. /\ Covered(job'[p].old.state, baseline') /\ Covered(job'[p].new.state, baseline')
      /\ pc \in [Procs -> PCs]
  BY DEF Kept, AllCovered, Typed, TypeOK
<1> QED BY <1>1, OthersIdle, AloneKeeps

LEMMA RollbackKeeps ==
  ASSUME Kept, Typed', NEW p \in Procs, ~Idle(p), BeginRollback(p) \/ Abandon(p),
         UNCHANGED <<state, baseline>>
  PROVE  Kept'
<1>1. /\ job \in [Procs -> Jobs] /\ pc \in [Procs -> PCs]
      /\ Covered(state, baseline)
      /\ Covered(job[p].old.state, baseline) /\ Covered(job[p].new.state, baseline)
  BY DEF Kept, Typed, TypeOK, AllCovered
<1>2. job' = job \/ job' = [job EXCEPT ![p].new = ImageOf(job[p].home)]
  BY DEF BeginRollback, Abandon
<1>3. job'[p].old = job[p].old /\ (job'[p].new = job[p].new \/ job'[p].new.state = state)
  <2>1. ImageOf(job[p].home).state = state
    BY DEF ImageOf
  <2> QED BY <1>1, <1>2, <2>1 DEF Jobs
<1>4. PICK at \in {"rewind", "undo"} : pc' = [pc EXCEPT ![p] = at]
  BY DEF BeginRollback, Abandon, Rollback
<1> QED BY <1>1, <1>3, <1>4, OthersIdle, AloneKeeps

(* What an operation writes is covered. *)
LEMMA PutCovered ==
  ASSUME Kept, NEW p \in Procs, ~Idle(p), NEW f,
         \/ Put(f, job[p].home, job[p].new)
         \/ Put(f, job[p].home, job[p].old)
         \/ UNCHANGED <<files, state>>,
         UNCHANGED baseline
  PROVE  Covered(state', baseline')
<1>1. state' \in {state, job[p].new.state, job[p].old.state}
  BY DEF Put
<1> QED BY <1>1 DEF Kept, AllCovered

LEMMA RecordedCovered ==
  ASSUME Kept, NEW h \in Homes
  PROVE  /\ Covered(RestoreFailed(state), baseline)
         /\ \A synced \in BOOLEAN : Recordable(h) => Covered(Recorded(h, synced), baseline)
<1>1. Covered(state, baseline) /\ state \in ManagedStates
  BY DEF Kept, AllCovered, Typed, TypeOK
<1>2. Covered(RestoreFailed(state), baseline)
  BY <1>1 DEF Covered, Managed, RestoreFailed, ManagedStates, StateRecords
<1>3. ASSUME NEW synced \in BOOLEAN, Recordable(h)
      PROVE  Covered(Recorded(h, synced), baseline)
  <2> DEFINE s == Recorded(h, synced)
  <2>1. s.home = h /\ s.active = state.active /\ state # Corrupt
    BY <1>1, <1>3 DEF Recordable, Recorded, ManagedStates, StateRecords
  <2>2. CASE baseline = None
    BY <1>1, <2>1, <2>2, NullAssumption DEF Covered, Managed
  <2>3. CASE baseline # None
    <3>1. baseline.home = h
      BY <1>3, <2>3 DEF Recordable, Bound
    <3> QED BY <2>1, <2>3, <3>1 DEF Covered, Managed
  <2> QED BY <2>2, <2>3
<1> QED BY <1>2, <1>3

----
(* Beginning an operation: every process is idle. *)
LEMMA StartIsAlone ==
  ASSUME ~Overlap, NEW p \in Procs, CanStart(p)
  PROVE  \A q \in Procs : Idle(q)
BY DEF CanStart, Quiet

LEMMA StartEnableKeeps ==
  ASSUME ~Overlap, Kept, Typed', StartEnable
  PROVE  Kept'
<1> DEFINE at == IF NewCycle(state) \/ baseline = None THEN "stage" ELSE "load"
<1>1. /\ CanStart("manager") /\ state # Corrupt /\ baseline # Corrupt
      /\ UNCHANGED <<files, state, baseline, env>>
      /\ \E j : Begin("manager", at, j) /\ j.old.state = state /\ j.new.state = state
  <2>1. PICK a \in Access, replace \in BOOLEAN :
          LET wanted == [a EXCEPT !.groups = MergedGroups(settings, @, replace)]
              image  == ImageOf(codexHome)
          IN /\ CanStart("manager")
             /\ state # Corrupt /\ settings # Corrupt /\ baseline # Corrupt
             /\ Begin("manager", at,
                      [NoJob EXCEPT !.kind = "enable", !.home = codexHome,
                                    !.access = wanted, !.fresh = NewCycle(state),
                                    !.old = image, !.new = image])
             /\ UNCHANGED <<files, state, baseline, env>>
    BY DEF StartEnable
  <2> DEFINE wanted == [a EXCEPT !.groups = MergedGroups(settings, @, replace)]
             image == ImageOf(codexHome)
             j == [NoJob EXCEPT !.kind = "enable", !.home = codexHome,
                                !.access = wanted, !.fresh = NewCycle(state),
                                !.old = image, !.new = image]
  <2>2. Begin("manager", at, j)
    BY <2>1
  <2>3. image.state = state
    BY DEF ImageOf
  <2>4. j.old = image /\ j.new = image
    <3> HIDE DEF wanted, image
    <3> QED BY DEF NoJob
  <2> HIDE DEF at, j, image
  <2> QED BY <2>1, <2>2, <2>3, <2>4
<1>2. PICK j : Begin("manager", at, j) /\ j.old.state = state /\ j.new.state = state
  BY <1>1
<1>3. "manager" \in Procs
  BY DEF Procs
<1>4. \A q \in Procs : Idle(q)
  BY <1>1, <1>3, StartIsAlone
<1>5. /\ pc \in [Procs -> PCs] /\ job \in [Procs -> Jobs] /\ Covered(state, baseline)
  BY DEF Kept, AllCovered, Typed, TypeOK
<1>6. pc'["manager"] = at /\ job'["manager"] = j /\ \A q \in Procs : q # "manager" => pc'[q] = "idle"
  BY <1>2, <1>3, <1>4, <1>5 DEF Begin, Idle
<1>7. at = "stage" => ~Managed(state)
  BY <1>1, <1>5, NullAssumption DEF NewCycle, Covered, Managed
<1> HIDE DEF at
<1>8. OneAtATime'
  BY <1>6 DEF OneAtATime, Idle
<1>9. AllCovered'
  BY <1>1, <1>2, <1>5, <1>6 DEF AllCovered, Idle
<1>10. NoneManagedWhileReplacing'
  BY <1>1, <1>2, <1>6, <1>7 DEF NoneManagedWhileReplacing, at
<1> QED BY <1>8, <1>9, <1>10 DEF Kept

LEMMA StartsKeep ==
  ASSUME ~Overlap, Kept, Typed', StartRepair \/ StartLaunch
  PROVE  Kept'
<1>1. PICK p \in Procs, at \in {"sync", "check"}, kind \in Kinds :
        CanStart(p) /\ Begin(p, at, [NoJob EXCEPT !.kind = kind, !.home = codexHome])
  <2>1. "manager" \in Procs /\ "launcher" \in Procs /\ "repair" \in Kinds /\ "launch1" \in Kinds
    BY DEF Procs, Kinds
  <2> QED BY <2>1 DEF StartRepair, StartLaunch
<1> DEFINE j == [NoJob EXCEPT !.kind = kind, !.home = codexHome]
<1>2. UNCHANGED <<state, baseline>>
  BY DEF StartRepair, StartLaunch
<1>3. pc \in [Procs -> PCs] /\ job \in [Procs -> Jobs] /\ Covered(state, baseline)
  BY DEF Kept, AllCovered, Typed, TypeOK
<1>4. j.old.state = DefaultState /\ j.new.state = DefaultState
  BY DEF NoJob, NoImage
<1>5. ~Managed(DefaultState)
  BY DEF Managed, DefaultState
<1>6. job'[p] = j /\ pc' = [pc EXCEPT ![p] = at]
  BY <1>1, <1>3 DEF Begin
<1>7. Covered(job'[p].old.state, baseline') /\ Covered(job'[p].new.state, baseline')
  BY <1>4, <1>5, <1>6 DEF Covered
<1> QED BY <1>1, <1>2, <1>3, <1>6, <1>7, StartIsAlone, AloneKeeps

LEMMA StartRestoreKeeps ==
  ASSUME ~Overlap, Kept, Typed', NEW kind \in {"restore", "recover"}, StartRestore(kind)
  PROVE  Kept'
<1> DEFINE pending == [DefaultState EXCEPT !.sync = "pending_restore", !.home = codexHome]
<1>1. CanStart("manager") /\ "manager" \in Procs /\ UNCHANGED <<state, baseline>>
  BY DEF StartRestore, Procs
<1>2. PICK at \in {"write", "commit"} : pc' = [pc EXCEPT !["manager"] = at]
  BY DEF StartRestore
<1>3. pc \in [Procs -> PCs] /\ job \in [Procs -> Jobs] /\ Covered(state, baseline)
  BY DEF Kept, AllCovered, Typed, TypeOK
<1>4. ~Managed(pending)
  BY DEF Managed, DefaultState
<1>5. job'["manager"].old.state = state /\ job'["manager"].new.state = pending
  <2>1. ImageOf(codexHome).state = state
    BY DEF ImageOf
  <2>2. RestoredImage(kind, codexHome).state = pending
    BY DEF RestoredImage
  <2>3. [ImageOf(codexHome) EXCEPT !.state = pending].state = pending
    BY DEF ImageOf
  <2> DEFINE new == IF kind = "recover" \/ RestoreState(kind).active
                    THEN RestoredImage(kind, codexHome)
                    ELSE [ImageOf(codexHome) EXCEPT !.state = pending]
             j == [NoJob EXCEPT !.kind = kind, !.home = codexHome,
                                !.old = ImageOf(codexHome), !.new = new]
  <2>4. job'["manager"] = j
    BY <1>1, <1>3 DEF StartRestore
  <2>5. new.state = pending
    BY <2>2, <2>3
  <2>6. j.old = ImageOf(codexHome) /\ j.new = new
    <3> HIDE DEF new
    <3> QED BY DEF NoJob
  <2> HIDE DEF new, j, pending
  <2> QED BY <2>1, <2>4, <2>5, <2>6
<1>6. /\ Covered(job'["manager"].old.state, baseline')
      /\ Covered(job'["manager"].new.state, baseline')
  BY <1>1, <1>3, <1>4, <1>5 DEF Covered
<1> QED BY <1>1, <1>2, <1>3, <1>6, StartIsAlone, AloneKeeps

LEMMA RefuseRestoreKeeps ==
  ASSUME ~Overlap, Kept, Typed', RefuseRestore
  PROVE  Kept'
<1>1. /\ CanStart("manager") /\ "manager" \in Procs
      /\ state' = RestoreFailed(state) /\ UNCHANGED <<baseline, pc, job>>
  BY DEF RefuseRestore, Procs, ops
<1>2. \A q \in Procs : Idle(q) /\ pc'[q] = "idle"
  BY <1>1, StartIsAlone DEF Idle
<1>3. Covered(state', baseline')
  BY <1>1, RecordedCovered DEF Kept, Typed, TypeOK
<1> QED BY <1>2, <1>3 DEF Kept, OneAtATime, AllCovered, NoneManagedWhileReplacing, Idle

----
(* The steps of an operation. *)

(* The baseline is replaced while no state needs it. *)
LEMMA RetireKeeps ==
  ASSUME Kept, Typed', NEW p \in Procs, RetireBaseline(p)
  PROVE  Kept'
<1>1. pc[p] = "stage" /\ ~Idle(p) /\ UNCHANGED state
  BY DEF RetireBaseline, Idle
<1>2. ~Managed(state) /\ ~Managed(job[p].old.state) /\ ~Managed(job[p].new.state)
  BY <1>1 DEF Kept, NoneManagedWhileReplacing
<1>3. Covered(state', baseline')
  BY <1>1, <1>2 DEF Covered
<1>4. CASE Finish(p)
  BY <1>1, <1>3, <1>4, FinishKeeps
<1>5. CASE pc' = [pc EXCEPT ![p] = "publish"] /\ job' = [job EXCEPT ![p].prev = baseline]
  <2>1. pc \in [Procs -> PCs] /\ job \in [Procs -> Jobs]
    BY DEF Kept, Typed, TypeOK
  <2>2. job'[p].old = job[p].old /\ job'[p].new = job[p].new
    BY <1>5, <2>1 DEF Jobs
  <2>3. \A q \in Procs : q # p => pc'[q] = "idle"
    BY <1>1, <1>5, <2>1, OthersIdle DEF Idle
  <2> QED BY <1>1, <1>2, <1>3, <1>5, <2>1, <2>2, <2>3
          DEF Kept, OneAtATime, AllCovered, NoneManagedWhileReplacing, Covered, Idle
<1> QED BY <1>4, <1>5 DEF RetireBaseline

LEMMA PublishKeeps ==
  ASSUME Kept, Typed', NEW p \in Procs, PublishBaseline(p)
  PROVE  Kept'
<1>1. pc[p] \in {"stage", "publish"} /\ ~Idle(p) /\ UNCHANGED state
  BY DEF PublishBaseline, Idle
<1>2. ~Managed(state) /\ ~Managed(job[p].old.state) /\ ~Managed(job[p].new.state)
  BY <1>1 DEF Kept, NoneManagedWhileReplacing
<1>3. Covered(state', baseline')
  BY <1>1, <1>2 DEF Covered
<1>4. CASE Finish(p)
  BY <1>1, <1>3, <1>4, FinishKeeps
<1>5. CASE Goto(p, "load", <<>>)
  <2>1. /\ pc' = [pc EXCEPT ![p] = "load"] /\ job' = job
        /\ Covered(job'[p].old.state, baseline') /\ Covered(job'[p].new.state, baseline')
    BY <1>2, <1>5 DEF Goto, Covered
  <2> QED BY <1>1, <1>3, <2>1, OthersIdle, AloneKeeps DEF Kept, Typed, TypeOK
<1> QED BY <1>4, <1>5 DEF PublishBaseline

(* What an enable will commit names the home of the baseline it checked. *)
LEMMA LoadEnableKeeps ==
  ASSUME Kept, Typed', NEW p \in Procs, LoadEnable(p)
  PROVE  Kept'
<1> DEFINE h == job[p].home
           old == [ImageOf(h) EXCEPT !.state = job[p].old.state]
           new == EnabledImage(p, baseline)
<1>1. pc[p] = "load" /\ ~Idle(p) /\ UNCHANGED <<state, baseline>>
  BY DEF LoadEnable, Idle
<1>2. /\ pc \in [Procs -> PCs] /\ job \in [Procs -> Jobs]
      /\ Covered(state, baseline) /\ Covered(job[p].old.state, baseline)
  BY <1>1 DEF Kept, AllCovered, Typed, TypeOK
<1>3. CASE Finish(p)
  BY <1>1, <1>2, <1>3, FinishKeeps
<1>4. CASE ~Finish(p)
  <2>1. /\ HasBaseline /\ baseline.home = h
        /\ pc' = [pc EXCEPT ![p] = "write"]
        /\ job' = [job EXCEPT ![p].old = old, ![p].new = new]
    BY <1>4 DEF LoadEnable, Bound
  <2>2. old.state = job[p].old.state
    BY DEF ImageOf
  <2>3. new.state.home = h
    BY DEF EnabledImage
  <2>4. job'[p].old = old /\ job'[p].new = new
    <3> HIDE DEF old, new
    <3> QED BY <1>2, <2>1 DEF Jobs
  <2>5. Covered(new.state, baseline)
    <3> HIDE DEF new
    <3> QED BY <2>1, <2>3 DEF Covered, HasBaseline
  <2>6. Covered(job'[p].old.state, baseline') /\ Covered(job'[p].new.state, baseline')
    <3> HIDE DEF old, new
    <3> QED BY <1>1, <1>2, <2>2, <2>4, <2>5
  <2> QED BY <1>1, <1>2, <2>1, <2>6, OthersIdle, AloneKeeps
<1> QED BY <1>3, <1>4

LEMMA WriteNextKeeps ==
  ASSUME Kept, Typed', NEW p \in Procs, WriteNext(p)
  PROVE  Kept'
<1>1. ~Idle(p) /\ UNCHANGED baseline
  BY DEF WriteNext, Idle
<1>2. CASE BeginRollback(p) /\ UNCHANGED <<files, state>>
  BY <1>1, <1>2, RollbackKeeps
<1>3. CASE /\ Put(Head(todo[p]), job[p].home, job[p].new)
           /\ \E at \in {"verify", "write"} : Goto(p, at, Tail(todo[p]))
  <2>1. PICK at \in {"verify", "write"} : Goto(p, at, Tail(todo[p]))
    BY <1>3
  <2>2. Covered(state', baseline')
    BY <1>1, <1>3, PutCovered
  <2> QED BY <1>1, <2>1, <2>2, MoveKeeps DEF Goto
<1> QED BY <1>2, <1>3 DEF WriteNext

LEMMA VerifyKeeps ==
  ASSUME Kept, Typed', NEW p \in Procs, Verify(p)
  PROVE  Kept'
<1> DEFINE next == [NoJob EXCEPT !.kind = "launch2", !.home = job[p].home]
<1>1. ~Idle(p) /\ UNCHANGED <<state, baseline>>
  BY DEF Verify, Idle
<1>2. pc \in [Procs -> PCs] /\ job \in [Procs -> Jobs] /\ Covered(state, baseline)
  BY DEF Kept, AllCovered, Typed, TypeOK
<1>3. CASE BeginRollback(p)
  BY <1>1, <1>3, RollbackKeeps
<1>4. CASE Goto(p, "commit", <<>>)
  BY <1>1, <1>2, <1>4, MoveKeeps DEF Goto
<1>5. CASE /\ \E at \in {"check", "spawn"} : pc' = [pc EXCEPT ![p] = at]
           /\ job' = [job EXCEPT ![p] = next]
  <2>1. next.old.state = DefaultState /\ next.new.state = DefaultState
    BY DEF NoJob, NoImage
  <2>2. ~Managed(DefaultState)
    BY DEF Managed, DefaultState
  <2>3. Covered(job'[p].old.state, baseline') /\ Covered(job'[p].new.state, baseline')
    BY <1>2, <1>5, <2>1, <2>2 DEF Covered
  <2> QED BY <1>1, <1>2, <1>5, <2>3, OthersIdle, AloneKeeps
<1> QED BY <1>3, <1>4, <1>5 DEF Verify

LEMMA CommitKeeps ==
  ASSUME Kept, Typed', NEW p \in Procs, Commit(p) \/ Confirm(p)
  PROVE  Kept'
<1>1. ~Idle(p) /\ UNCHANGED baseline
  BY DEF Commit, Confirm, Idle
<1>2. Covered(state, baseline) /\ Covered(job[p].new.state, baseline)
  BY <1>1 DEF Kept, AllCovered
<1>3. CASE BeginRollback(p) /\ UNCHANGED state
  BY <1>1, <1>3, RollbackKeeps
<1>4. CASE /\ state' \in {state, job[p].new.state}
           /\ \E at \in {"confirm", "image", "market"} : Goto(p, at, <<>>)
  <2>1. PICK at \in {"confirm", "image", "market"} : Goto(p, at, <<>>)
    BY <1>4
  <2> QED BY <1>1, <1>2, <1>4, <2>1, MoveKeeps DEF Goto
<1> QED BY <1>3, <1>4 DEF Commit, Confirm

LEMMA UndoKeeps ==
  ASSUME Kept, Typed', NEW p \in Procs, UndoNext(p) \/ RewindNext(p) \/ RedoNext(p)
  PROVE  Kept'
<1>1. ~Idle(p) /\ UNCHANGED <<job, baseline>>
  BY DEF UndoNext, RewindNext, RedoNext, Idle, TurnRound, Goto
<1>2. Covered(state', baseline')
  BY <1>1, PutCovered DEF UndoNext, RewindNext, RedoNext, TurnRound
<1>3. PICK at \in {"undone", "undo", "redo", "rewind"} : pc' = [pc EXCEPT ![p] = at]
  BY DEF UndoNext, RewindNext, RedoNext, TurnRound, Goto
<1> QED BY <1>1, <1>2, <1>3, MoveKeeps

LEMMA AftermathKeeps ==
  ASSUME Kept, Typed', NEW p \in Procs,
         Report(p) \/ Pause(p) \/ Marketplace(p) \/ ImageSkill(p) \/ SyncSessions(p)
  PROVE  Kept'
<1>1. ~Idle(p) /\ UNCHANGED baseline
  BY DEF Report, Pause, Marketplace, ImageSkill, SyncSessions, Idle
<1>2. job[p].home \in Homes /\ Covered(state, baseline) /\ FALSE \in BOOLEAN
  BY <1>1, BusyJob DEF Kept, AllCovered, Idle
<1>3. Covered(state', baseline')
  BY <1>1, <1>2, RecordedCovered DEF Report, Pause, Marketplace, ImageSkill, SyncSessions
<1>4. CASE Finish(p)
  BY <1>1, <1>3, <1>4, FinishKeeps
<1>5. CASE Goto(p, "image", <<>>) \/ Goto(p, "sync", <<>>)
  BY <1>1, <1>3, <1>5, MoveKeeps DEF Goto
<1>6. CASE Abandon(p) /\ UNCHANGED state
  BY <1>1, <1>6, RollbackKeeps
<1> QED BY <1>4, <1>5, <1>6 DEF Report, Pause, Marketplace, ImageSkill, SyncSessions

LEMMA CheckProviderKeeps ==
  ASSUME Kept, Typed', NEW p \in Procs, CheckProvider(p)
  PROVE  Kept'
<1> DEFINE h == job[p].home
           image == RepairedImage(h)
           next == IF job[p].kind = "launch1" THEN "check" ELSE "spawn"
           Passed == /\ pc' = [pc EXCEPT ![p] = next]
                     /\ job' = [job EXCEPT ![p].kind = "launch2"]
           Repairs == /\ pc' = [pc EXCEPT ![p] = "write"]
                      /\ job' = [job EXCEPT ![p].old = ImageOf(h), ![p].new = image]
<1>1. ~Idle(p) /\ UNCHANGED <<state, baseline>>
  BY DEF CheckProvider, Idle
<1>2. /\ pc \in [Procs -> PCs] /\ job \in [Procs -> Jobs] /\ Covered(state, baseline)
      /\ Covered(job[p].old.state, baseline) /\ Covered(job[p].new.state, baseline)
  BY <1>1 DEF Kept, AllCovered, Typed, TypeOK
<1>3. Passed \/ Repairs \/ Finish(p)
  <2>1. CASE state # Corrupt /\ ~state.active
    BY <2>1 DEF CheckProvider
  <2>2. CASE state # Corrupt /\ state.active /\ RepairAllowed(h)
    BY <2>2 DEF CheckProvider
  <2>3. CASE ~(state # Corrupt /\ ~state.active)
             /\ ~(state # Corrupt /\ state.active /\ RepairAllowed(h))
    BY <2>3 DEF CheckProvider
  <2> QED BY <2>1, <2>2, <2>3
<1>4. CASE Passed
  <2>1. job'[p].old = job[p].old /\ job'[p].new = job[p].new
    BY <1>2, <1>4 DEF Jobs
  <2>2. next \notin {"stage", "publish"} /\ pc' = [pc EXCEPT ![p] = next]
    BY <1>4
  <2> HIDE DEF next
  <2> QED BY <1>1, <1>2, <2>1, <2>2, OthersIdle, AloneKeeps
<1>5. CASE Repairs
  <2>1. ImageOf(h).state = state /\ image.state = state
    BY DEF ImageOf, RepairedImage
  <2>2. job'[p].old = ImageOf(h) /\ job'[p].new = image
    <3>1. job' = [job EXCEPT ![p].old = ImageOf(h), ![p].new = image]
      BY <1>5
    <3> HIDE DEF image
    <3> QED BY <1>2, <3>1 DEF Jobs
  <2>3. pc' = [pc EXCEPT ![p] = "write"]
    BY <1>5
  <2> HIDE DEF image
  <2> QED BY <1>1, <1>2, <2>1, <2>2, <2>3, OthersIdle, AloneKeeps
<1>6. CASE Finish(p)
  BY <1>1, <1>2, <1>6, FinishKeeps
<1> QED BY <1>3, <1>4, <1>5, <1>6

LEMMA EndsKeep ==
  ASSUME Kept, Typed', NEW p \in Procs, Spawn(p) \/ Crash(p)
  PROVE  Kept'
<1>1. ~Idle(p) /\ Finish(p) /\ UNCHANGED <<state, baseline>>
  BY DEF Spawn, Crash, Idle
<1> QED BY <1>1, FinishKeeps DEF Kept, AllCovered

(* The world leaves state and baseline alone, or breaks one of them while  *)
(* nothing runs.                                                           *)
LEMMA WorldKeeps ==
  ASSUME ~Overlap, Kept, Typed', World \/ UNCHANGED vars
  PROVE  Kept'
<1>1. UNCHANGED <<pc, job>>
  BY DEF World, UserEditsConfig, UserLogsIn, UserEditsSettings, FileBreaks, HomeMoves,
         CodexStarts, CodexExits, Elsewhere, vars, ops
<1>2. CASE UNCHANGED <<state, baseline>>
  BY <1>1, <1>2 DEF Kept, OneAtATime, AllCovered, NoneManagedWhileReplacing, Idle
<1>3. CASE FileBreaks
  <2>1. \A q \in Procs : Idle(q)
    BY <1>3 DEF FileBreaks, Outside, Quiet
  <2>2. state' \in {state, Corrupt} /\ baseline' \in {baseline, Corrupt}
    BY <1>3 DEF FileBreaks
  <2>3. Covered(state', baseline')
    BY <2>2 DEF Kept, AllCovered, Covered, Managed
  <2> QED BY <1>1, <2>1, <2>3
          DEF Kept, OneAtATime, AllCovered, NoneManagedWhileReplacing, Idle
<1>4. FileBreaks \/ UNCHANGED <<state, baseline>>
  BY DEF World, UserEditsConfig, UserLogsIn, UserEditsSettings, HomeMoves,
         CodexStarts, CodexExits, Elsewhere, vars
<1> QED BY <1>2, <1>3, <1>4

----
LEMMA KeptInit == Init => Kept
<1> SUFFICES ASSUME Init PROVE Kept
  OBVIOUS
<1>1. Typed
  BY TypedInit
<1>2. \A p \in Procs : Idle(p)
  BY DEF Init, Idle
<1>3. Covered(state, baseline)
  BY DEF Init, Covered, Managed, DefaultState
<1> QED BY <1>1, <1>2, <1>3 DEF Kept, OneAtATime, AllCovered, NoneManagedWhileReplacing, Idle

LEMMA KeptNext == ~Overlap /\ Kept /\ [Next]_vars => Kept'
<1> SUFFICES ASSUME ~Overlap, Kept, [Next]_vars PROVE Kept'
  OBVIOUS
<1>1. Typed'
  BY TypedNext DEF Kept
<1>2. CASE Start
  BY <1>1, <1>2, StartEnableKeeps, StartRestoreKeeps, RefuseRestoreKeeps, StartsKeep DEF Start
<1>3. CASE World \/ UNCHANGED vars
  BY <1>1, <1>3, WorldKeeps
<1>4. ASSUME NEW p \in Procs, Step(p) PROVE Kept'
  BY <1>1, <1>4, RetireKeeps, PublishKeeps, LoadEnableKeeps, WriteNextKeeps, VerifyKeeps,
     CommitKeeps, UndoKeeps, AftermathKeeps, CheckProviderKeeps, EndsKeep DEF Step
<1>5. ASSUME NEW p \in Procs, Crash(p) PROVE Kept'
  BY <1>1, <1>5, EndsKeep
<1> QED BY <1>2, <1>3, <1>4, <1>5 DEF Next

(* With one operation at a time, a managed state always has a baseline of  *)
(* its own home (or one that no longer validates): an enable that is       *)
(* killed or fails between staging, publishing, writing and committing, a  *)
(* rollback, a restore or a session record never leaves it without.        *)
THEOREM ManagedKeepsItsBaseline == ~Overlap => (Spec => []ActiveHasBaseline)
<1>1. Kept => ActiveHasBaseline
  BY DEF Kept, AllCovered, Covered, Managed, ActiveHasBaseline
<1> SUFFICES ASSUME ~Overlap PROVE Spec => []ActiveHasBaseline
  OBVIOUS
<1>2. Kept /\ [Next]_vars => Kept'
  BY KeptNext
<1> QED BY <1>1, <1>2, KeptInit, PTL DEF Spec

----
(* What is left to write. *)
Listed(f, s) == \E i \in 1..Len(s) : s[i] = f

Contents == FileIds \ {"state"}

LEMMA HeadIsWritten ==
  ASSUME NEW s \in Seq(FileIds), s # <<>>
  PROVE  /\ Head(s) \in FileIds /\ Tail(s) \in Seq(FileIds)
         /\ Listed(Head(s), s)
         /\ \A f : Listed(f, s) => f = Head(s) \/ Listed(f, Tail(s))
         /\ \A f : Listed(f, Tail(s)) => Listed(f, s)
<1>1. /\ Head(s) \in FileIds /\ Tail(s) \in Seq(FileIds)
      /\ Len(s) \in Nat \ {0} /\ Len(Tail(s)) = Len(s) - 1 /\ Head(s) = s[1]
      /\ \A i \in 1..Len(Tail(s)) : Tail(s)[i] = s[i+1]
  BY HeadTailProperties, LenProperties, EmptySeq
<1>2. ASSUME NEW f, Listed(f, s), f # Head(s)
      PROVE  Listed(f, Tail(s))
  <2>1. PICK i \in 1..Len(s) : s[i] = f
    BY <1>2 DEF Listed
  <2>2. i - 1 \in 1..Len(Tail(s)) /\ Tail(s)[i - 1] = s[(i - 1) + 1] /\ (i - 1) + 1 = i
    BY <1>1, <1>2, <2>1
  <2> QED BY <2>1, <2>2 DEF Listed
<1>3. ASSUME NEW f, Listed(f, Tail(s))
      PROVE  Listed(f, s)
  <2>1. PICK i \in 1..Len(Tail(s)) : Tail(s)[i] = f
    BY <1>3 DEF Listed
  <2>2. i + 1 \in 1..Len(s) /\ s[i + 1] = f
    BY <1>1, <2>1
  <2> QED BY <2>2 DEF Listed
<1>4. Listed(Head(s), s)
  BY <1>1 DEF Listed
<1> QED BY <1>1, <1>2, <1>3, <1>4

(* The lists the operations start from. *)
LEMMA Lists ==
  /\ \A f : ~Listed(f, <<>>)
  /\ \A f \in FileIds : Listed(f, AllFiles)
  /\ \A s \in {<<"catalog", "auth", "config", "settings">>, <<"config", "auth", "settings", "catalog">>} :
       ~Listed("state", s) /\ \A f \in Contents : Listed(f, s)
<1>1. \A f : ~Listed(f, <<>>)
  BY DEF Listed
<1>2. ASSUME NEW f \in FileIds PROVE Listed(f, AllFiles)
  <2>1. /\ Len(AllFiles) = 5 /\ AllFiles[1] = "config" /\ AllFiles[2] = "auth"
        /\ AllFiles[3] = "settings" /\ AllFiles[4] = "catalog" /\ AllFiles[5] = "state"
    BY DEF AllFiles
  <2> QED BY <2>1 DEF Listed, FileIds
<1>3. ASSUME NEW s \in {<<"catalog", "auth", "config", "settings">>,
                        <<"config", "auth", "settings", "catalog">>}
      PROVE  ~Listed("state", s) /\ \A f \in Contents : Listed(f, s)
  <2>1. Len(s) = 4
    BY <1>3
  <2>2. CASE s = <<"catalog", "auth", "config", "settings">>
    <3>1. s[1] = "catalog" /\ s[2] = "auth" /\ s[3] = "config" /\ s[4] = "settings"
      BY <2>2
    <3>2. \A i \in 1..4 : s[i] # "state"
      BY <3>1
    <3> QED BY <2>1, <3>1, <3>2 DEF Listed, Contents, FileIds
  <2>3. CASE s = <<"config", "auth", "settings", "catalog">>
    <3>1. s[1] = "config" /\ s[2] = "auth" /\ s[3] = "settings" /\ s[4] = "catalog"
      BY <2>3
    <3>2. \A i \in 1..4 : s[i] # "state"
      BY <3>1
    <3> QED BY <2>1, <3>1, <3>2 DEF Listed, Contents, FileIds
  <2> QED BY <2>2, <2>3
<1> QED BY <1>1, <1>2, <1>3

(* The launcher's repair lists what differs. *)
LEMMA DifferingListed ==
  ASSUME NEW h, NEW image
  PROVE  /\ \A f \in {"catalog", "auth", "config"} :
              ImageOf(h)[f] = image[f] \/ Listed(f, Differing(h, image))
         /\ ~Listed("state", Differing(h, image))
<1> DEFINE IfDiffers(f) == IF ImageOf(h)[f] # image[f] THEN <<f>> ELSE <<>>
<1>1. Differing(h, image) = IfDiffers("catalog") \o IfDiffers("auth") \o IfDiffers("config")
  BY DEF Differing
<1>2. ASSUME NEW f
      PROVE  \/ IfDiffers(f) = <<f>> /\ ImageOf(h)[f] # image[f]
             \/ IfDiffers(f) = <<>> /\ ImageOf(h)[f] = image[f]
  <2>1. CASE ImageOf(h)[f] # image[f]
    BY <2>1
  <2>2. CASE ~(ImageOf(h)[f] # image[f])
    BY <2>2
  <2> QED BY <2>1, <2>2
<1>3. \A f \in FileIds : IfDiffers(f) \in Seq(FileIds)
  OBVIOUS
<1> HIDE DEF IfDiffers
<1>4. "catalog" \in FileIds /\ "auth" \in FileIds /\ "config" \in FileIds
  BY DEF FileIds
<1>5. \A s, t \in Seq(FileIds) : /\ s \o t \in Seq(FileIds)
                                 /\ \A f : Listed(f, s \o t) <=> Listed(f, s) \/ Listed(f, t)
  <2> SUFFICES ASSUME NEW s \in Seq(FileIds), NEW t \in Seq(FileIds)
               PROVE  /\ s \o t \in Seq(FileIds)
                      /\ \A f : Listed(f, s \o t) <=> Listed(f, s) \/ Listed(f, t)
    OBVIOUS
  <2>1. /\ s \o t \in Seq(FileIds) /\ Len(s \o t) = Len(s) + Len(t)
        /\ Len(s) \in Nat /\ Len(t) \in Nat
        /\ \A i \in 1..Len(s) + Len(t) :
             (s \o t)[i] = IF i <= Len(s) THEN s[i] ELSE t[i - Len(s)]
    BY ConcatProperties, LenProperties
  <2>2. ASSUME NEW f, Listed(f, s \o t) PROVE Listed(f, s) \/ Listed(f, t)
    <3>1. PICK i \in 1..Len(s) + Len(t) : (s \o t)[i] = f
      BY <2>1, <2>2 DEF Listed
    <3>2. CASE i <= Len(s)
      BY <2>1, <3>1, <3>2 DEF Listed
    <3>3. CASE ~(i <= Len(s))
      <4>1. i - Len(s) \in 1..Len(t) /\ t[i - Len(s)] = f
        BY <2>1, <3>1, <3>3
      <4> QED BY <4>1 DEF Listed
    <3> QED BY <3>2, <3>3
  <2>3. ASSUME NEW f, Listed(f, s) PROVE Listed(f, s \o t)
    <3>1. PICK i \in 1..Len(s) : s[i] = f
      BY <2>3 DEF Listed
    <3>2. i \in 1..Len(s) + Len(t) /\ (s \o t)[i] = f
      BY <2>1, <3>1
    <3> QED BY <2>1, <3>2 DEF Listed
  <2>4. ASSUME NEW f, Listed(f, t) PROVE Listed(f, s \o t)
    <3>1. PICK i \in 1..Len(t) : t[i] = f
      BY <2>4 DEF Listed
    <3>2. /\ i + Len(s) \in 1..Len(s) + Len(t) /\ ~(i + Len(s) <= Len(s))
          /\ (i + Len(s)) - Len(s) = i
      BY <2>1, <3>1
    <3>3. (s \o t)[i + Len(s)] = f
      BY <2>1, <3>1, <3>2
    <3> QED BY <2>1, <3>2, <3>3 DEF Listed
  <2> QED BY <2>1, <2>2, <2>3, <2>4
<1>6. \A f : Listed(f, Differing(h, image)) <=>
             Listed(f, IfDiffers("catalog")) \/ Listed(f, IfDiffers("auth"))
               \/ Listed(f, IfDiffers("config"))
  <2>1. /\ IfDiffers("catalog") \in Seq(FileIds) /\ IfDiffers("auth") \in Seq(FileIds)
        /\ IfDiffers("config") \in Seq(FileIds)
    BY <1>3, <1>4
  <2> DEFINE s == IfDiffers("catalog")
             t == IfDiffers("auth")
             u == IfDiffers("config")
  <2>2. Differing(h, image) = (s \o t) \o u
    BY <1>1
  <2> HIDE DEF s, t, u
  <2>3. s \in Seq(FileIds) /\ t \in Seq(FileIds) /\ u \in Seq(FileIds)
    BY <2>1 DEF s, t, u
  <2>4. \A f : Listed(f, Differing(h, image)) <=> Listed(f, s) \/ Listed(f, t) \/ Listed(f, u)
    <3>1. /\ s \o t \in Seq(FileIds)
          /\ \A f : Listed(f, s \o t) <=> Listed(f, s) \/ Listed(f, t)
      BY <1>5, <2>3
    <3> DEFINE st == s \o t
    <3>2. st \in Seq(FileIds) /\ Differing(h, image) = st \o u
      BY <2>2, <3>1
    <3> HIDE DEF st
    <3>3. \A f : Listed(f, Differing(h, image)) <=> Listed(f, st) \/ Listed(f, u)
      BY <1>5, <2>3, <3>2
    <3> QED BY <3>1, <3>3 DEF st
  <2> QED BY <2>4 DEF s, t, u
<1>7. \A f, g : Listed(f, IfDiffers(g)) <=> (f = g /\ ImageOf(h)[g] # image[g])
  <2> TAKE f, g
  <2>1. CASE IfDiffers(g) = <<g>> /\ ImageOf(h)[g] # image[g]
    <3>1. Len(<<g>>) = 1 /\ <<g>>[1] = g
      OBVIOUS
    <3> QED BY <2>1, <3>1 DEF Listed
  <2>2. CASE IfDiffers(g) = <<>> /\ ImageOf(h)[g] = image[g]
    BY <2>2, Lists
  <2> QED BY <1>2, <2>1, <2>2
<1> QED BY <1>6, <1>7

----
(* What an operation knows of the files. *)
Now(p) == ImageOf(job[p].home)

(* Every file of fs has its content of the image, or is still to be written. *)
Written(p, image, fs) == \A f \in fs : Listed(f, todo[p]) \/ Now(p)[f] = image[f]

(* An enable holds the files as they are until it begins to write, ... *)
Preparing(p) ==
  pc[p] \in {"stage", "publish", "load"} => job[p].old = Now(p) /\ job[p].new = Now(p)

(* ... the contents are written before the state is, ... *)
Writing(p) ==
  /\ pc[p] \in {"write", "verify", "commit", "confirm"} => Written(p, job[p].new, Contents)
  /\ pc[p] = "write" => ~Listed("state", todo[p])
  /\ pc[p] \in {"verify", "commit", "confirm"} => todo[p] = <<>>
  /\ pc[p] \in {"write", "verify", "commit"} => state = job[p].old.state
  /\ pc[p] = "confirm" => state = job[p].new.state

(* ... and a rollback that has not failed has written what it no longer    *)
(* has before it.                                                          *)
RollingBack(p) ==
  /\ pc[p] = "rewind" \/ (pc[p] \in {"undo", "undone"} /\ ~torn[p])
       => Written(p, job[p].old, FileIds)
  /\ pc[p] = "undone" => todo[p] = <<>>
  /\ pc[p] = "redo" => torn[p]
  /\ torn[p] => pc[p] \in {"undo", "redo", "undone"}

Tracked(p) == Preparing(p) /\ Writing(p) /\ RollingBack(p)

(* Two images of a home have the same unmanaged keys, where they parse. *)
Agree(x, y) == x = Corrupt \/ y = Corrupt \/ x.other = y.other

SameOthers(i, k) == Agree(i.config, k.config) /\ Agree(i.settings, k.settings)

OthersAgree(p) ==
  /\ SameOthers(Now(p), job[p].old) /\ SameOthers(Now(p), job[p].new)
  /\ SameOthers(job[p].old, job[p].new)

(* The baseline is being replaced only where a new cycle begins. *)
Replacing(p) ==
  /\ pc[p] = "stage" => baseline = None \/ (state # Corrupt /\ NewCycle(state))
  /\ pc[p] = "publish" => baseline = None

(* A process that is idle has forgotten its last failure. *)
Calm == \A p \in Procs : Idle(p) => ~torn[p]

Held == Kept /\ Calm

Follows ==
  Held /\ \A p \in Procs : ~Idle(p) => Tracked(p) /\ OthersAgree(p) /\ Replacing(p)

----
LEMMA SameOthersSymmetric ==
  /\ \A i : SameOthers(i, i)
  /\ \A i, k : SameOthers(i, k) => SameOthers(k, i)
BY DEF SameOthers, Agree

LEMMA PutWrites ==
  ASSUME Typed, NEW h \in Homes, NEW image \in Images, NEW f \in FileIds, Put(f, h, image)
  PROVE  \A g \in FileIds : ImageOf(h)'[g] = IF g = f THEN image[g] ELSE ImageOf(h)[g]
<1>1. /\ config \in [Homes -> Configs] /\ auth \in [Homes -> Auths]
      /\ catalog \in [Homes -> Catalogs]
  BY DEF Typed, TypeOK
<1>2. /\ config'[h] = IF f = "config" THEN image.config ELSE config[h]
      /\ auth'[h] = IF f = "auth" THEN image.auth ELSE auth[h]
      /\ catalog'[h] = IF f = "catalog" THEN image.catalog ELSE catalog[h]
      /\ settings' = IF f = "settings" THEN image.settings ELSE settings
      /\ state' = IF f = "state" THEN image.state ELSE state
  BY <1>1 DEF Put
<1> QED BY <1>2 DEF ImageOf, FileIds

(* Writing the next file of an image. *)
LEMMA WriteGoesOn ==
  ASSUME Typed, NEW p \in Procs, NEW h \in Homes, NEW image \in Images,
         NEW fs \in SUBSET FileIds, job[p].home = h, job'[p].home = h,
         Written(p, image, fs), todo[p] # <<>>, Put(Head(todo[p]), h, image),
         todo'[p] = Tail(todo[p])
  PROVE  Written(p, image, fs)'
<1>1. todo[p] \in Seq(FileIds)
  BY DEF Typed, TypeOK
<1>2. \A g \in FileIds : ImageOf(h)'[g] = IF g = Head(todo[p]) THEN image[g] ELSE ImageOf(h)[g]
  BY <1>1, HeadIsWritten, PutWrites
<1>3. Now(p) = ImageOf(h) /\ Now(p)' = ImageOf(h)'
  BY DEF Now
<1>4. \A f \in fs : Listed(f, Tail(todo[p])) \/ ImageOf(h)'[f] = image[f]
  BY <1>1, <1>2, <1>3, HeadIsWritten DEF Written
<1> QED BY <1>3, <1>4 DEF Written

LEMMA NowStays ==
  ASSUME UNCHANGED <<files, state>>, NEW p, job'[p].home = job[p].home
  PROVE  Now(p)' = Now(p)
BY DEF Now, ImageOf, files

(* The keys Mirror does not manage, over a write from an image. *)
LEMMA PutAgrees ==
  ASSUME Typed, NEW h \in Homes, NEW image \in Images, NEW f \in FileIds, Put(f, h, image),
         NEW i \in Images, SameOthers(ImageOf(h), i), SameOthers(image, i)
  PROVE  SameOthers(ImageOf(h)', i)
<1>1. /\ ImageOf(h)'.config \in {image.config, ImageOf(h).config}
      /\ ImageOf(h)'.settings \in {image.settings, ImageOf(h).settings}
  <2>1. \A g \in FileIds : ImageOf(h)'[g] \in {image[g], ImageOf(h)[g]}
    BY PutWrites
  <2>2. "config" \in FileIds /\ "settings" \in FileIds
    BY DEF FileIds
  <2> QED BY <2>1, <2>2
<1> QED BY <1>1 DEF SameOthers

LEMMA CalmNext == Kept /\ Calm /\ [Next]_vars => Calm'
<1> SUFFICES ASSUME Kept, Calm, [Next]_vars PROVE Calm'
  OBVIOUS
<1>1. pc \in [Procs -> PCs] /\ torn \in [Procs -> BOOLEAN]
  BY DEF Kept, Typed, TypeOK
<1>2. ASSUME NEW p \in Procs, Finish(p) PROVE Calm'
  BY <1>1, <1>2 DEF Finish, Calm, Idle
<1>3. ASSUME NEW p \in Procs, NEW at, at # "idle", pc' = [pc EXCEPT ![p] = at],
             torn' = torn \/ torn' = [torn EXCEPT ![p] = TRUE]
      PROVE  Calm'
  BY <1>1, <1>3 DEF Calm, Idle
<1>4. CASE UNCHANGED <<pc, torn>>
  BY <1>4 DEF Calm, Idle
<1>5. CASE Start
  <2>1. "manager" \in Procs /\ "launcher" \in Procs
    BY DEF Procs
  <2>2. CASE StartEnable
    <3>1. \E at \in {"stage", "load"} : pc' = [pc EXCEPT !["manager"] = at] /\ torn' = torn
      BY <2>2 DEF StartEnable, Begin
    <3> QED BY <1>3, <2>1, <3>1
  <2>3. CASE StartRepair \/ StartLaunch
    <3>1. \E p \in Procs, at \in {"sync", "check"} : pc' = [pc EXCEPT ![p] = at] /\ torn' = torn
      BY <2>1, <2>3 DEF StartRepair, StartLaunch, Begin
    <3> QED BY <1>3, <3>1
  <2>4. CASE \E k \in {"restore", "recover"} : StartRestore(k)
    <3>1. \E at \in {"write", "commit"} : pc' = [pc EXCEPT !["manager"] = at] /\ torn' = torn
      BY <2>4 DEF StartRestore
    <3> QED BY <1>3, <2>1, <3>1
  <2>5. CASE RefuseRestore
    BY <1>4, <2>5 DEF RefuseRestore, ops
  <2> QED BY <1>5, <2>2, <2>3, <2>4, <2>5 DEF Start
<1>6. CASE World \/ UNCHANGED vars
  BY <1>4, <1>6 DEF World, UserEditsConfig, UserLogsIn, UserEditsSettings, FileBreaks, HomeMoves,
     CodexStarts, CodexExits, Elsewhere, vars, ops
<1>7. ASSUME NEW p \in Procs, Step(p) PROVE Calm'
  <2> DEFINE Moves == \E at \in PCs \ {"idle"} :
                        /\ pc' = [pc EXCEPT ![p] = at]
                        /\ torn' = torn \/ torn' = [torn EXCEPT ![p] = TRUE]
  <2>1. CASE RetireBaseline(p) \/ PublishBaseline(p) \/ LoadEnable(p)
    <3>1. Finish(p) \/ Moves
      BY <2>1 DEF RetireBaseline, PublishBaseline, LoadEnable, Goto, PCs
    <3> QED BY <1>2, <1>3, <3>1
  <2>2. CASE WriteNext(p) \/ Verify(p) \/ Commit(p) \/ Confirm(p)
    <3>1. Finish(p) \/ Moves
      BY <2>2 DEF WriteNext, Verify, Commit, Confirm, Goto, BeginRollback, Rollback, PCs
    <3> QED BY <1>2, <1>3, <3>1
  <2>3. CASE UndoNext(p) \/ RewindNext(p) \/ RedoNext(p)
    <3>1. Finish(p) \/ Moves
      BY <2>3 DEF UndoNext, RewindNext, RedoNext, Goto, TurnRound, PCs
    <3> QED BY <1>2, <1>3, <3>1
  <2>4. CASE Report(p) \/ Pause(p) \/ Marketplace(p) \/ ImageSkill(p) \/ SyncSessions(p)
    <3>1. Finish(p) \/ Moves
      BY <2>4 DEF Report, Pause, Marketplace, ImageSkill, SyncSessions, Goto, Abandon, PCs
    <3> QED BY <1>2, <1>3, <3>1
  <2>5. CASE CheckProvider(p)
    <3>1. Finish(p) \/ Moves
      <4>1. CASE state # Corrupt /\ ~state.active
        BY <2>5, <4>1 DEF CheckProvider, PCs
      <4>2. CASE state # Corrupt /\ state.active /\ RepairAllowed(job[p].home)
        BY <2>5, <4>2 DEF CheckProvider, PCs
      <4>3. CASE ~(state # Corrupt /\ ~state.active)
                 /\ ~(state # Corrupt /\ state.active /\ RepairAllowed(job[p].home))
        BY <2>5, <4>3 DEF CheckProvider
      <4> QED BY <4>1, <4>2, <4>3
    <3> QED BY <1>2, <1>3, <3>1
  <2>6. CASE Spawn(p)
    BY <1>2, <2>6 DEF Spawn
  <2> QED BY <1>7, <2>1, <2>2, <2>3, <2>4, <2>5, <2>6 DEF Step
<1>8. ASSUME NEW p \in Procs, Crash(p) PROVE Calm'
  BY <1>2, <1>8 DEF Crash
<1> QED BY <1>5, <1>6, <1>7, <1>8 DEF Next

(* A step of the only busy process. *)
LEMMA StepFollows ==
  ASSUME Follows, Held', NEW p \in Procs, ~Idle(p), NEW at, pc' = [pc EXCEPT ![p] = at],
         at # "idle" => Tracked(p)' /\ OthersAgree(p)' /\ Replacing(p)'
  PROVE  Follows'
<1>1. \A q \in Procs : q # p => Idle(q)
  BY OthersIdle DEF Follows, Held
<1>2. pc \in [Procs -> PCs]
  BY DEF Follows, Held, Kept, Typed, TypeOK
<1>3. pc'[p] = at /\ \A q \in Procs : q # p => pc'[q] = "idle"
  BY <1>1, <1>2 DEF Idle
<1> QED BY <1>3 DEF Follows, Idle

LEMMA StartFollows ==
  ASSUME Follows, Held', NEW p \in Procs, \A q \in Procs : Idle(q), NEW at,
         pc' = [pc EXCEPT ![p] = at],
         at # "idle" => Tracked(p)' /\ OthersAgree(p)' /\ Replacing(p)'
  PROVE  Follows'
<1>1. pc \in [Procs -> PCs]
  BY DEF Follows, Held, Kept, Typed, TypeOK
<1>2. pc'[p] = at /\ \A q \in Procs : q # p => pc'[q] = "idle"
  BY <1>1 DEF Idle
<1> QED BY <1>2 DEF Follows, Idle

LEMMA FinishFollows ==
  ASSUME Follows, Held', NEW p \in Procs, ~Idle(p), Finish(p)
  PROVE  Follows'
<1>1. pc' = [pc EXCEPT ![p] = "idle"]
  BY DEF Finish
<1> QED BY <1>1, StepFollows

(* A busy process: its job, as it is and in the types. *)
LEMMA Busy ==
  ASSUME Follows, NEW p \in Procs, ~Idle(p)
  PROVE  /\ Typed /\ Tracked(p) /\ OthersAgree(p) /\ Replacing(p)
         /\ job \in [Procs -> Jobs] /\ pc \in [Procs -> PCs] /\ torn \in [Procs -> BOOLEAN]
         /\ todo \in [Procs -> Seq(FileIds)]
         /\ \E j \in Jobs : /\ j = job[p] /\ j.home \in Homes
                            /\ j.old \in Images /\ j.new \in Images
                            /\ Now(p) = ImageOf(j.home) /\ Now(p) \in Images
<1>1. Typed /\ pc[p] # "idle"
  BY DEF Follows, Held, Kept, Idle
<1>2. /\ job[p] \in Jobs /\ job[p].home \in Homes
      /\ job[p].old \in Images /\ job[p].new \in Images
  BY <1>1, BusyJob
<1>3. Now(p) \in Images
  BY <1>1, <1>2, ImageTyped DEF Now, Typed
<1> QED BY <1>1, <1>2, <1>3 DEF Follows, Now, Typed, TypeOK

----
(* The steps of an operation. *)
LEMMA RollbackFollows ==
  ASSUME Follows, Held', NEW p \in Procs, ~Idle(p), ~torn[p],
         BeginRollback(p) \/ Abandon(p), UNCHANGED <<files, state>>
  PROVE  Follows'
<1>1. PICK j \in Jobs : /\ j = job[p] /\ j.home \in Homes /\ j.old \in Images /\ j.new \in Images
                        /\ Now(p) = ImageOf(j.home) /\ Now(p) \in Images
  BY Busy
<1>2. PICK at \in {"rewind", "undo"} : pc' = [pc EXCEPT ![p] = at]
  BY DEF BeginRollback, Abandon, Rollback
<1>3. /\ pc'[p] = at /\ todo'[p] = AllFiles /\ ~torn'[p]
  BY <1>2, Busy DEF BeginRollback, Abandon
<1>4. job' = job \/ job' = [job EXCEPT ![p].new = Now(p)]
  BY DEF BeginRollback, Abandon, Now
<1>5. /\ job'[p].home = j.home /\ job'[p].old = j.old
      /\ job'[p].new = j.new \/ job'[p].new = Now(p)
  <2>1. job \in [Procs -> Jobs]
    BY Busy
  <2> QED BY <1>1, <1>4, <2>1 DEF Jobs
<1>6. Now(p)' = Now(p)
  BY <1>1, <1>5, NowStays
<1>7. Tracked(p)'
  BY <1>2, <1>3, Lists DEF Tracked, Preparing, Writing, RollingBack, Written
<1>8. OthersAgree(p)'
  <2>1. OthersAgree(p)
    BY Busy
  <2> QED BY <1>1, <1>5, <1>6, <2>1, SameOthersSymmetric DEF OthersAgree
<1>9. Replacing(p)'
  BY <1>2, <1>3 DEF Replacing
<1> QED BY <1>2, <1>7, <1>8, <1>9, StepFollows

(* No step but those of a rollback finds it torn. *)
LEMMA NotTorn ==
  ASSUME Follows, NEW p \in Procs, ~Idle(p), pc[p] \notin {"undo", "redo", "undone"}
  PROVE  ~torn[p]
BY Busy DEF Tracked, RollingBack

LEMMA BaselineFollows ==
  ASSUME Follows, Held', NEW p \in Procs, RetireBaseline(p) \/ PublishBaseline(p)
  PROVE  Follows'
<1>1. pc[p] \in {"stage", "publish"} /\ ~Idle(p) /\ UNCHANGED <<files, state>>
  BY DEF RetireBaseline, PublishBaseline, Idle
<1>2. PICK j \in Jobs : /\ j = job[p] /\ j.home \in Homes /\ j.old \in Images /\ j.new \in Images
                        /\ Now(p) = ImageOf(j.home) /\ Now(p) \in Images
  BY <1>1, Busy
<1>3. CASE Finish(p)
  BY <1>1, <1>3, FinishFollows
<1>4. CASE ~Finish(p)
  <2>1. /\ UNCHANGED torn
        /\ \/ /\ pc' = [pc EXCEPT ![p] = "publish"] /\ job' = [job EXCEPT ![p].prev = baseline]
              /\ baseline' = None
           \/ /\ pc' = [pc EXCEPT ![p] = "load"] /\ UNCHANGED job
    BY <1>4 DEF RetireBaseline, PublishBaseline, Goto
  <2>2. PICK at \in {"publish", "load"} :
          pc' = [pc EXCEPT ![p] = at] /\ (at = "publish" => baseline' = None)
    BY <2>1
  <2>3. pc'[p] = at
    BY <1>1, <2>2, Busy
  <2>4. job'[p].home = j.home /\ job'[p].old = j.old /\ job'[p].new = j.new
    BY <1>1, <1>2, <2>1, Busy DEF Jobs
  <2>5. Now(p)' = Now(p)
    BY <1>1, <1>2, <2>4, NowStays
  <2>6. j.old = Now(p) /\ j.new = Now(p) /\ ~torn'[p]
    BY <1>1, <1>2, <2>1, Busy, NotTorn DEF Tracked, Preparing
  <2>7. Tracked(p)'
    BY <2>2, <2>3, <2>4, <2>5, <2>6 DEF Tracked, Preparing, Writing, RollingBack
  <2>8. OthersAgree(p)'
    BY <2>4, <2>5, <2>6, SameOthersSymmetric DEF OthersAgree
  <2>9. Replacing(p)'
    BY <2>2, <2>3 DEF Replacing
  <2> QED BY <1>1, <2>2, <2>7, <2>8, <2>9, StepFollows
<1> QED BY <1>3, <1>4

LEMMA LoadEnableFollows ==
  ASSUME Follows, Held', NEW p \in Procs, LoadEnable(p)
  PROVE  Follows'
<1> DEFINE old == [ImageOf(job[p].home) EXCEPT !.state = job[p].old.state]
           new == EnabledImage(p, baseline)
           all == <<"catalog", "auth", "config", "settings">>
<1>1. pc[p] = "load" /\ ~Idle(p) /\ UNCHANGED <<files, state>>
  BY DEF LoadEnable, Idle
<1>2. PICK j \in Jobs : /\ j = job[p] /\ j.home \in Homes /\ j.old \in Images /\ j.new \in Images
                        /\ Now(p) = ImageOf(j.home) /\ Now(p) \in Images
  BY <1>1, Busy
<1>3. CASE Finish(p)
  BY <1>1, <1>3, FinishFollows
<1>4. CASE ~Finish(p)
  <2>1. /\ SeedParses(config[j.home], baseline.config, j.access.mode)
        /\ settings # Corrupt
        /\ pc' = [pc EXCEPT ![p] = "write"] /\ todo' = [todo EXCEPT ![p] = all]
        /\ job' = [job EXCEPT ![p].old = old, ![p].new = new] /\ UNCHANGED torn
    BY <1>2, <1>4 DEF LoadEnable
  <2>2. j.old = Now(p) /\ ~torn'[p]
    BY <1>1, <1>2, <2>1, Busy, NotTorn DEF Tracked, Preparing
  <2>3. old = Now(p) /\ old.state = state
    BY <1>2, <2>2 DEF ImageOf
  <2>4. job'[p].home = j.home /\ job'[p].old = old /\ job'[p].new = new
    <3>1. job \in [Procs -> Jobs]
      BY <1>1, Busy
    <3> HIDE DEF old, new
    <3> QED BY <1>2, <2>1, <3>1 DEF Jobs
  <2>5. SameOthers(Now(p), new)
    <3>1. /\ Now(p).config = config[j.home] /\ Now(p).settings = settings
          /\ new.settings = ManagedSettings(settings, j.access)
          /\ new.config = BuildManagedConfig(
                            ConfigSeed(config[j.home], baseline.config, j.access.mode), j.access)
      BY <1>2 DEF ImageOf, EnabledImage
    <3>2. config[j.home] \in ConfigRecords /\ settings \in SettingsRecords
      BY <1>1, <1>2, <2>1, Busy DEF Typed, TypeOK, SeedParses, Configs, Settings
    <3>3. new.config.other = config[j.home].other
      BY <3>1, <3>2 DEF BuildManagedConfig, ConfigSeed, ConfigRecords
    <3>4. new.settings.other = settings.other
      BY <3>1, <3>2 DEF ManagedSettings, SettingsRecords
    <3> HIDE DEF new
    <3> QED BY <3>1, <3>3, <3>4 DEF SameOthers, Agree
  <2> HIDE DEF old, new, all
  <2>6. Now(p)' = Now(p)
    BY <1>1, <1>2, <2>4, NowStays
  <2>7. pc'[p] = "write" /\ todo'[p] = all
    BY <1>1, <2>1, Busy
  <2>8. ~Listed("state", all) /\ \A f \in Contents : Listed(f, all)
    BY Lists DEF all
  <2>9. Tracked(p)'
    BY <1>1, <2>2, <2>3, <2>4, <2>7, <2>8 DEF Tracked, Preparing, Writing, RollingBack, Written
  <2>10. OthersAgree(p)'
    BY <2>3, <2>4, <2>5, <2>6, SameOthersSymmetric DEF OthersAgree
  <2>11. Replacing(p)'
    BY <2>7 DEF Replacing
  <2> QED BY <1>1, <2>1, <2>9, <2>10, <2>11, StepFollows
<1> QED BY <1>3, <1>4

LEMMA WriteNextFollows ==
  ASSUME Follows, Held', NEW p \in Procs, WriteNext(p)
  PROVE  Follows'
<1>1. pc[p] = "write" /\ ~Idle(p) /\ todo[p] # <<>>
  BY DEF WriteNext, Idle
<1>2. PICK j \in Jobs : /\ j = job[p] /\ j.home \in Homes /\ j.old \in Images /\ j.new \in Images
                        /\ Now(p) = ImageOf(j.home) /\ Now(p) \in Images
  BY <1>1, Busy
<1>3. CASE BeginRollback(p) /\ UNCHANGED <<files, state>>
  BY <1>1, <1>3, NotTorn, RollbackFollows
<1>4. CASE /\ Put(Head(todo[p]), job[p].home, job[p].new)
           /\ Goto(p, IF Tail(todo[p]) = <<>> THEN "verify" ELSE "write", Tail(todo[p]))
  <2>1. PICK at \in {"verify", "write"} : /\ pc' = [pc EXCEPT ![p] = at]
                                          /\ at = "verify" => Tail(todo[p]) = <<>>
    BY <1>4 DEF Goto
  <2>2. /\ pc'[p] = at /\ todo'[p] = Tail(todo[p]) /\ job' = job /\ torn' = torn
    BY <1>1, <1>4, <2>1, Busy DEF Goto
  <2>3. /\ todo[p] \in Seq(FileIds) /\ Tracked(p) /\ OthersAgree(p) /\ Typed /\ ~torn[p]
    BY <1>1, Busy, NotTorn
  <2>4. Put(Head(todo[p]), j.home, j.new)
    BY <1>2, <1>4
  <2>5. Head(todo[p]) # "state" /\ ~Listed("state", Tail(todo[p])) /\ Head(todo[p]) \in FileIds
    BY <1>1, <2>3, HeadIsWritten DEF Tracked, Writing
  <2>6. state' = state
    BY <2>4, <2>5 DEF Put
  <2>7. Written(p, j.new, Contents)'
    <3>1. Written(p, j.new, Contents) /\ Contents \in SUBSET FileIds
      BY <1>1, <1>2, <2>3 DEF Tracked, Writing, Contents
    <3> QED BY <1>1, <1>2, <2>2, <2>3, <2>4, <3>1, WriteGoesOn
  <2>8. Tracked(p)'
    <3>1. state = j.old.state
      BY <1>1, <1>2, <2>3 DEF Tracked, Writing
    <3>2. job'[p] = j
      BY <1>2, <2>2
    <3> QED BY <2>1, <2>2, <2>3, <2>5, <2>6, <2>7, <3>1, <3>2
            DEF Tracked, Preparing, Writing, RollingBack, Written
  <2>9. OthersAgree(p)'
    <3>1. /\ SameOthers(ImageOf(j.home), j.old) /\ SameOthers(ImageOf(j.home), j.new)
          /\ SameOthers(j.old, j.new) /\ SameOthers(j.new, j.new) /\ SameOthers(j.new, j.old)
      BY <1>2, <2>3, SameOthersSymmetric DEF OthersAgree
    <3>2. SameOthers(ImageOf(j.home)', j.old) /\ SameOthers(ImageOf(j.home)', j.new)
      BY <1>2, <2>3, <2>4, <2>5, <3>1, PutAgrees
    <3>3. job'[p] = j /\ Now(p)' = ImageOf(j.home)'
      BY <1>2, <2>2 DEF Now
    <3> QED BY <3>1, <3>2, <3>3 DEF OthersAgree
  <2>10. Replacing(p)'
    BY <2>1, <2>2 DEF Replacing
  <2> QED BY <1>1, <2>1, <2>8, <2>9, <2>10, StepFollows
<1> QED BY <1>3, <1>4 DEF WriteNext

(* Moving on to where nothing is written or rolled back. *)
LEMMA CalmlyOn ==
  ASSUME Follows, Held', NEW p \in Procs, ~Idle(p), ~torn[p],
         NEW at \in {"check", "spawn", "market", "image", "sync"},
         pc' = [pc EXCEPT ![p] = at], UNCHANGED <<files, torn>>,
         job'[p].home = job[p].home, job'[p].old = job[p].old, job'[p].new = job[p].new
  PROVE  Follows'
<1>1. PICK j \in Jobs : /\ j = job[p] /\ j.home \in Homes /\ j.old \in Images /\ j.new \in Images
                        /\ Now(p) = ImageOf(j.home) /\ Now(p) \in Images
  BY Busy
<1>2. pc'[p] = at
  BY Busy
<1>3. Tracked(p)' /\ Replacing(p)'
  BY <1>2 DEF Tracked, Preparing, Writing, RollingBack, Replacing
<1>4. OthersAgree(p)'
  <2>1. OthersAgree(p)
    BY Busy
  <2>2. Now(p)'.config = Now(p).config /\ Now(p)'.settings = Now(p).settings
    BY <1>1 DEF Now, ImageOf, files
  <2> QED BY <2>1, <2>2 DEF OthersAgree, SameOthers
<1> QED BY <1>3, <1>4, StepFollows

LEMMA VerifyFollows ==
  ASSUME Follows, Held', NEW p \in Procs, Verify(p)
  PROVE  Follows'
<1>1. pc[p] = "verify" /\ ~Idle(p) /\ UNCHANGED <<files, state>>
  BY DEF Verify, Idle
<1>2. PICK j \in Jobs : /\ j = job[p] /\ j.home \in Homes /\ j.old \in Images /\ j.new \in Images
                        /\ Now(p) = ImageOf(j.home) /\ Now(p) \in Images
  BY <1>1, Busy
<1>3. CASE BeginRollback(p)
  BY <1>1, <1>3, NotTorn, RollbackFollows
<1>4. CASE Goto(p, "commit", <<>>)
  <2>1. /\ pc' = [pc EXCEPT ![p] = "commit"] /\ pc'[p] = "commit" /\ todo'[p] = <<>>
        /\ job' = job /\ torn' = torn
    BY <1>1, <1>4, Busy DEF Goto
  <2>2. Now(p)' = Now(p) /\ ~torn[p] /\ Tracked(p) /\ OthersAgree(p)
    BY <1>1, <2>1, NowStays, NotTorn, Busy
  <2>3. Tracked(p)'
    BY <1>1, <2>1, <2>2 DEF Tracked, Preparing, Writing, RollingBack, Written
  <2>4. OthersAgree(p)' /\ Replacing(p)'
    BY <2>1, <2>2 DEF OthersAgree, Replacing
  <2> QED BY <1>1, <2>1, <2>3, <2>4, StepFollows
<1>5. CASE /\ \E at \in {"check", "spawn"} : pc' = [pc EXCEPT ![p] = at]
           /\ job' = [job EXCEPT ![p] = [NoJob EXCEPT !.kind = "launch2", !.home = job[p].home]]
           /\ UNCHANGED torn
  <2>1. PICK at \in {"check", "spawn"} : pc' = [pc EXCEPT ![p] = at]
    BY <1>5
  <2>2. pc'[p] = at /\ ~torn'[p] /\ job'[p].old = NoImage /\ job'[p].new = NoImage
    BY <1>1, <1>5, <2>1, NotTorn, Busy DEF NoJob
  <2>3. Tracked(p)' /\ Replacing(p)'
    BY <2>1, <2>2 DEF Tracked, Preparing, Writing, RollingBack, Replacing
  <2>4. OthersAgree(p)'
    BY <2>2 DEF OthersAgree, SameOthers, Agree, NoImage
  <2> QED BY <1>1, <2>1, <2>3, <2>4, StepFollows
<1> QED BY <1>3, <1>4, <1>5 DEF Verify

LEMMA CommitFollows ==
  ASSUME Follows, Held', NEW p \in Procs, Commit(p)
  PROVE  Follows'
<1>1. pc[p] = "commit" /\ ~Idle(p) /\ UNCHANGED files
  BY DEF Commit, Idle
<1>2. PICK j \in Jobs : /\ j = job[p] /\ j.home \in Homes /\ j.old \in Images /\ j.new \in Images
                        /\ Now(p) = ImageOf(j.home) /\ Now(p) \in Images
  BY <1>1, Busy
<1>3. CASE BeginRollback(p) /\ UNCHANGED state
  BY <1>1, <1>3, NotTorn, RollbackFollows
<1>4. CASE state' = job[p].new.state /\ Goto(p, "confirm", <<>>)
  <2>1. /\ pc' = [pc EXCEPT ![p] = "confirm"] /\ pc'[p] = "confirm" /\ todo'[p] = <<>>
        /\ job' = job /\ torn' = torn
    BY <1>1, <1>4, Busy DEF Goto
  <2>2. ~torn[p] /\ Tracked(p) /\ OthersAgree(p)
    BY <1>1, NotTorn, Busy
  <2>3. /\ \A f \in Contents : Now(p)'[f] = Now(p)[f]
        /\ Now(p)'.config = Now(p).config /\ Now(p)'.settings = Now(p).settings
    BY <1>1, <2>1 DEF Now, ImageOf, files, Contents, FileIds
  <2>4. Tracked(p)'
    BY <1>1, <1>4, <2>1, <2>2, <2>3 DEF Tracked, Preparing, Writing, RollingBack, Written
  <2>5. OthersAgree(p)' /\ Replacing(p)'
    BY <2>1, <2>2, <2>3 DEF OthersAgree, SameOthers, Replacing
  <2> QED BY <1>1, <2>1, <2>4, <2>5, StepFollows
<1> QED BY <1>3, <1>4 DEF Commit

LEMMA ConfirmFollows ==
  ASSUME Follows, Held', NEW p \in Procs, Confirm(p)
  PROVE  Follows'
<1>1. pc[p] = "confirm" /\ ~Idle(p) /\ UNCHANGED <<files, state>>
  BY DEF Confirm, Idle
<1>2. CASE BeginRollback(p)
  BY <1>1, <1>2, NotTorn, RollbackFollows
<1>3. CASE Goto(p, "image", <<>>) \/ Goto(p, "market", <<>>)
  <2>1. \E at \in {"image", "market"} : pc' = [pc EXCEPT ![p] = at]
    BY <1>3 DEF Goto
  <2>2. UNCHANGED <<job, torn>>
    BY <1>3 DEF Goto
  <2> QED BY <1>1, <2>1, <2>2, NotTorn, CalmlyOn
<1> QED BY <1>2, <1>3 DEF Confirm

(* One file written back, from the image kept for it or the one found. *)
LEMMA PutBackFollows ==
  ASSUME Follows, Held', NEW p \in Procs, ~Idle(p), todo[p] # <<>>,
         NEW image \in Images, image = job[p].old \/ image = job[p].new,
         Put(Head(todo[p]), job[p].home, image), UNCHANGED job
  PROVE  OthersAgree(p)'
<1>1. PICK j \in Jobs : /\ j = job[p] /\ j.home \in Homes /\ j.old \in Images /\ j.new \in Images
                        /\ Now(p) = ImageOf(j.home) /\ Now(p) \in Images
  BY Busy
<1>2. Typed /\ OthersAgree(p) /\ Head(todo[p]) \in FileIds
  BY Busy, HeadIsWritten
<1>3. /\ SameOthers(ImageOf(j.home), j.old) /\ SameOthers(ImageOf(j.home), j.new)
      /\ SameOthers(j.old, j.new) /\ SameOthers(image, j.new) /\ SameOthers(image, j.old)
  BY <1>1, <1>2, SameOthersSymmetric DEF OthersAgree
<1>4. SameOthers(ImageOf(j.home)', j.old) /\ SameOthers(ImageOf(j.home)', j.new)
  BY <1>1, <1>2, <1>3, PutAgrees
<1>5. job'[p] = j /\ Now(p)' = ImageOf(j.home)'
  BY <1>1 DEF Now
<1> QED BY <1>3, <1>4, <1>5 DEF OthersAgree

LEMMA AgreeStays ==
  ASSUME Follows, NEW p \in Procs, ~Idle(p), UNCHANGED <<files, state, job>>
  PROVE  OthersAgree(p)' /\ Now(p)' = Now(p)
<1>1. Now(p)' = Now(p) /\ OthersAgree(p)
  BY NowStays, Busy
<1> QED BY <1>1 DEF OthersAgree

LEMMA UndoNextFollows ==
  ASSUME Follows, Held', NEW p \in Procs, UndoNext(p)
  PROVE  Follows'
<1>1. /\ pc[p] = "undo" /\ ~Idle(p) /\ todo[p] # <<>> /\ UNCHANGED job
      /\ todo' = [todo EXCEPT ![p] = Tail(@)]
  BY DEF UndoNext, Idle
<1>2. PICK at \in {"undo", "undone"} : /\ pc' = [pc EXCEPT ![p] = at]
                                       /\ at = "undone" => Tail(todo[p]) = <<>>
  BY DEF UndoNext
<1>3. PICK j \in Jobs : /\ j = job[p] /\ j.home \in Homes /\ j.old \in Images /\ j.new \in Images
                        /\ Now(p) = ImageOf(j.home) /\ Now(p) \in Images
  BY <1>1, Busy
<1>4. pc'[p] = at /\ todo'[p] = Tail(todo[p]) /\ job'[p] = j /\ Tracked(p) /\ Typed
  BY <1>1, <1>2, <1>3, Busy
<1>5. CASE Put(Head(todo[p]), job[p].home, job[p].old) /\ UNCHANGED torn
  <2>1. ~torn[p] => Written(p, j.old, FileIds)'
    <3> SUFFICES ASSUME ~torn[p] PROVE Written(p, j.old, FileIds)'
      OBVIOUS
    <3>1. Written(p, j.old, FileIds)
      BY <1>1, <1>3, <1>4 DEF Tracked, RollingBack
    <3> QED BY <1>1, <1>3, <1>4, <1>5, <3>1, WriteGoesOn
  <2>2. Tracked(p)'
    BY <1>2, <1>4, <1>5, <2>1 DEF Tracked, Preparing, Writing, RollingBack, Written
  <2>3. OthersAgree(p)'
    BY <1>1, <1>3, <1>5, PutBackFollows
  <2>4. Replacing(p)'
    BY <1>2, <1>4 DEF Replacing
  <2> QED BY <1>1, <1>2, <2>2, <2>3, <2>4, StepFollows
<1>6. CASE torn' = [torn EXCEPT ![p] = TRUE] /\ UNCHANGED <<files, state>>
  <2>1. torn'[p]
    BY <1>1, <1>6, Busy
  <2>2. Tracked(p)' /\ Replacing(p)'
    BY <1>2, <1>4, <2>1 DEF Tracked, Preparing, Writing, RollingBack, Replacing
  <2>3. OthersAgree(p)'
    BY <1>1, <1>6, AgreeStays
  <2> QED BY <1>1, <1>2, <2>2, <2>3, StepFollows
<1> QED BY <1>5, <1>6 DEF UndoNext

LEMMA RewindNextFollows ==
  ASSUME Follows, Held', NEW p \in Procs, RewindNext(p)
  PROVE  Follows'
<1>1. pc[p] = "rewind" /\ ~Idle(p)
  BY DEF RewindNext, Idle
<1>2. PICK j \in Jobs : /\ j = job[p] /\ j.home \in Homes /\ j.old \in Images /\ j.new \in Images
                        /\ Now(p) = ImageOf(j.home) /\ Now(p) \in Images
  BY <1>1, Busy
<1>3. Tracked(p) /\ Typed /\ Written(p, j.old, FileIds) /\ ~torn[p]
  BY <1>1, <1>2, Busy, NotTorn DEF Tracked, RollingBack
<1>4. CASE /\ todo[p] # <<>> /\ Put(Head(todo[p]), job[p].home, job[p].old)
           /\ Goto(p, "rewind", Tail(todo[p]))
  <2>1. /\ pc' = [pc EXCEPT ![p] = "rewind"] /\ pc'[p] = "rewind"
        /\ todo'[p] = Tail(todo[p]) /\ job' = job /\ torn' = torn /\ job'[p] = j
    BY <1>1, <1>2, <1>4, Busy DEF Goto
  <2>2. Written(p, j.old, FileIds)'
    BY <1>2, <1>3, <1>4, <2>1, WriteGoesOn
  <2>3. Tracked(p)'
    BY <1>3, <2>1, <2>2 DEF Tracked, Preparing, Writing, RollingBack, Written
  <2>4. OthersAgree(p)'
    BY <1>1, <1>2, <1>4, <2>1, PutBackFollows
  <2>5. Replacing(p)'
    BY <2>1 DEF Replacing
  <2> QED BY <1>1, <2>1, <2>3, <2>4, <2>5, StepFollows
<1>5. CASE TurnRound(p)
  <2>1. /\ pc' = [pc EXCEPT ![p] = "redo"] /\ pc'[p] = "redo" /\ torn'[p]
        /\ UNCHANGED <<job, files, state>>
    BY <1>1, <1>5, Busy DEF TurnRound
  <2>2. Tracked(p)' /\ Replacing(p)'
    BY <2>1 DEF Tracked, Preparing, Writing, RollingBack, Replacing
  <2>3. OthersAgree(p)'
    BY <1>1, <2>1, AgreeStays
  <2> QED BY <1>1, <2>1, <2>2, <2>3, StepFollows
<1>6. CASE todo[p] = <<>> /\ Goto(p, "undone", <<>>) /\ UNCHANGED <<files, state>>
  <2>1. /\ pc' = [pc EXCEPT ![p] = "undone"] /\ pc'[p] = "undone"
        /\ todo'[p] = <<>> /\ job' = job /\ torn' = torn /\ job'[p] = j
    BY <1>1, <1>2, <1>6, Busy DEF Goto
  <2>2. OthersAgree(p)' /\ Now(p)' = Now(p)
    BY <1>1, <1>6, <2>1, AgreeStays
  <2>3. Tracked(p)' /\ Replacing(p)'
    BY <1>3, <1>6, <2>1, <2>2
       DEF Tracked, Preparing, Writing, RollingBack, Replacing, Written
  <2> QED BY <1>1, <2>1, <2>2, <2>3, StepFollows
<1> QED BY <1>4, <1>5, <1>6 DEF RewindNext

LEMMA RedoNextFollows ==
  ASSUME Follows, Held', NEW p \in Procs, RedoNext(p)
  PROVE  Follows'
<1>1. /\ pc[p] = "redo" /\ ~Idle(p) /\ todo[p] # <<>> /\ UNCHANGED <<job, torn>>
      /\ todo' = [todo EXCEPT ![p] = Tail(@)]
  BY DEF RedoNext, Idle
<1>2. PICK at \in {"redo", "undone"} : /\ pc' = [pc EXCEPT ![p] = at]
                                       /\ at = "undone" => Tail(todo[p]) = <<>>
  BY DEF RedoNext
<1>3. pc'[p] = at /\ todo'[p] = Tail(todo[p]) /\ torn'[p]
  BY <1>1, <1>2, Busy DEF Tracked, RollingBack
<1>4. Tracked(p)' /\ Replacing(p)'
  BY <1>2, <1>3 DEF Tracked, Preparing, Writing, RollingBack, Replacing
<1>5. OthersAgree(p)'
  <2>1. CASE Put(Head(todo[p]), job[p].home, job[p].new)
    <3>1. job[p].new \in Images
      BY <1>1, Busy
    <3> QED BY <1>1, <2>1, <3>1, PutBackFollows
  <2>2. CASE UNCHANGED <<files, state>>
    BY <1>1, <2>2, AgreeStays
  <2> QED BY <2>1, <2>2 DEF RedoNext
<1> QED BY <1>1, <1>2, <1>4, <1>5, StepFollows

LEMMA AftermathFollows ==
  ASSUME Follows, Held', NEW p \in Procs,
         Report(p) \/ Pause(p) \/ Marketplace(p) \/ ImageSkill(p) \/ SyncSessions(p)
  PROVE  Follows'
<1>1. ~Idle(p) /\ UNCHANGED files
  BY DEF Report, Pause, Marketplace, ImageSkill, SyncSessions, Idle
<1>2. CASE Finish(p)
  BY <1>1, <1>2, FinishFollows
<1>3. CASE ~Finish(p)
  <2>1. pc[p] \in {"market", "image"}
    BY <1>3 DEF Report, Pause, Marketplace, ImageSkill, SyncSessions
  <2>2. UNCHANGED state
    BY <1>3 DEF Report, Pause, Marketplace, ImageSkill, SyncSessions
  <2>3. CASE Abandon(p)
    BY <1>1, <2>1, <2>2, <2>3, NotTorn, RollbackFollows
  <2>4. CASE Goto(p, "image", <<>>) \/ Goto(p, "sync", <<>>)
    <3>1. \E at \in {"image", "sync"} : pc' = [pc EXCEPT ![p] = at]
      BY <2>4 DEF Goto
    <3>2. UNCHANGED <<job, torn>>
      BY <2>4 DEF Goto
    <3> QED BY <1>1, <2>1, <3>1, <3>2, NotTorn, CalmlyOn
  <2> QED BY <1>3, <2>3, <2>4 DEF Report, Pause, Marketplace, ImageSkill, SyncSessions
<1> QED BY <1>2, <1>3

LEMMA CheckProviderFollows ==
  ASSUME Follows, Held', NEW p \in Procs, CheckProvider(p)
  PROVE  Follows'
<1> DEFINE h == job[p].home
           image == RepairedImage(h)
           next == IF job[p].kind = "launch1" THEN "check" ELSE "spawn"
           Passed == /\ pc' = [pc EXCEPT ![p] = next]
                     /\ job' = [job EXCEPT ![p].kind = "launch2"]
                     /\ UNCHANGED torn
           Repairs == /\ pc' = [pc EXCEPT ![p] = "write"]
                      /\ todo' = [todo EXCEPT ![p] = Differing(h, image)]
                      /\ job' = [job EXCEPT ![p].old = ImageOf(h), ![p].new = image]
                      /\ UNCHANGED torn
                      /\ SeedParses(config[h], baseline.config, state.mode)
<1>1. pc[p] = "check" /\ ~Idle(p) /\ UNCHANGED <<files, state>>
  BY DEF CheckProvider, Idle
<1>2. PICK j \in Jobs : /\ j = job[p] /\ j.home \in Homes /\ j.old \in Images /\ j.new \in Images
                        /\ Now(p) = ImageOf(j.home) /\ Now(p) \in Images
  BY <1>1, Busy
<1>3. ~torn[p] /\ job \in [Procs -> Jobs]
  BY <1>1, Busy, NotTorn
<1>4. Passed \/ Repairs \/ Finish(p)
  <2>1. CASE state # Corrupt /\ ~state.active
    BY <2>1 DEF CheckProvider
  <2>2. CASE state # Corrupt /\ state.active /\ RepairAllowed(h)
    BY <2>2 DEF CheckProvider, RepairAllowed
  <2>3. CASE ~(state # Corrupt /\ ~state.active)
             /\ ~(state # Corrupt /\ state.active /\ RepairAllowed(h))
    BY <2>3 DEF CheckProvider
  <2> QED BY <2>1, <2>2, <2>3
<1>5. CASE Finish(p)
  BY <1>1, <1>5, FinishFollows
<1>6. CASE Passed
  <2>1. /\ job'[p].home = job[p].home /\ job'[p].old = job[p].old
        /\ job'[p].new = job[p].new
    BY <1>3, <1>6 DEF Jobs
  <2>2. next \in {"check", "spawn"} /\ pc' = [pc EXCEPT ![p] = next] /\ UNCHANGED torn
    BY <1>6
  <2> HIDE DEF next
  <2> QED BY <1>1, <1>3, <2>1, <2>2, CalmlyOn
<1>7. CASE Repairs
  <2>1. job'[p].home = j.home /\ job'[p].old = ImageOf(j.home) /\ job'[p].new = image
    <3>1. job' = [job EXCEPT ![p].old = ImageOf(h), ![p].new = image]
      BY <1>7
    <3> HIDE DEF image
    <3> QED BY <1>2, <1>3, <3>1 DEF Jobs
  <2>2. h = j.home /\ SeedParses(config[j.home], baseline.config, state.mode)
    BY <1>2, <1>7
  <2>3. image.settings = settings /\ image.state = state
    BY DEF RepairedImage, ImageOf
  <2>4. image.config =
          BuildManagedConfig(ConfigSeed(config[j.home], baseline.config, state.mode), RepairAccess)
    BY <2>2 DEF RepairedImage, ImageOf
  <2>5. config[j.home] \in ConfigRecords
    BY <1>1, <1>2, <2>2, Busy DEF Typed, TypeOK, SeedParses, Configs
  <2>6. image.config.other = config[j.home].other
    <3> HIDE DEF image
    <3> QED BY <2>4, <2>5 DEF BuildManagedConfig, ConfigSeed, ConfigRecords
  <2>7. Now(p).config = config[j.home] /\ Now(p).settings = settings /\ Now(p).state = state
    BY <1>2 DEF ImageOf
  <2>8. SameOthers(Now(p), image)
    <3> HIDE DEF image
    <3> QED BY <2>3, <2>6, <2>7 DEF SameOthers, Agree
  <2>9. /\ \A f \in Contents : Now(p)[f] = image[f] \/ Listed(f, Differing(h, image))
        /\ ~Listed("state", Differing(h, image))
    <3>1. \A f \in {"catalog", "auth", "config"} :
            ImageOf(h)[f] = image[f] \/ Listed(f, Differing(h, image))
      BY DifferingListed
    <3>2. ~Listed("state", Differing(h, image))
      BY DifferingListed
    <3>3. Now(p)["settings"] = image["settings"] /\ ImageOf(h) = Now(p)
      BY <1>2, <2>2, <2>3, <2>7
    <3> HIDE DEF image
    <3> QED BY <3>1, <3>2, <3>3 DEF Contents, FileIds
  <2>10. /\ pc' = [pc EXCEPT ![p] = "write"] /\ pc'[p] = "write"
         /\ todo'[p] = Differing(h, image) /\ ~torn'[p]
    BY <1>1, <1>3, <1>7, Busy
  <2> HIDE DEF image
  <2>11. Now(p)' = Now(p)
    BY <1>1, <1>2, <2>1, NowStays
  <2>12. Tracked(p)'
    BY <1>1, <1>2, <2>1, <2>7, <2>9, <2>10, <2>11
       DEF Tracked, Preparing, Writing, RollingBack, Written
  <2>13. OthersAgree(p)'
    BY <1>2, <2>1, <2>8, <2>11, SameOthersSymmetric DEF OthersAgree
  <2>14. Replacing(p)'
    BY <2>10 DEF Replacing
  <2> QED BY <1>1, <2>10, <2>12, <2>13, <2>14, StepFollows
<1> QED BY <1>4, <1>5, <1>6, <1>7

LEMMA EndsFollow ==
  ASSUME Follows, Held', NEW p \in Procs, Spawn(p) \/ Crash(p)
  PROVE  Follows'
<1>1. ~Idle(p) /\ Finish(p)
  BY DEF Spawn, Crash, Idle
<1> QED BY <1>1, FinishFollows

----
(* Beginning an operation, while nothing runs. *)
LEMMA StartEnableFollows ==
  ASSUME ~Overlap, Follows, Held', StartEnable
  PROVE  Follows'
<1> DEFINE at == IF NewCycle(state) \/ baseline = None THEN "stage" ELSE "load"
<1>1. /\ CanStart("manager") /\ state # Corrupt /\ UNCHANGED <<files, state, baseline>>
      /\ \E j : /\ Begin("manager", at, j)
                /\ j.home = codexHome /\ j.old = ImageOf(codexHome) /\ j.new = ImageOf(codexHome)
  <2>1. PICK a \in Access, replace \in BOOLEAN :
          LET wanted == [a EXCEPT !.groups = MergedGroups(settings, @, replace)]
              image  == ImageOf(codexHome)
          IN /\ CanStart("manager")
             /\ state # Corrupt
             /\ Begin("manager", at,
                      [NoJob EXCEPT !.kind = "enable", !.home = codexHome,
                                    !.access = wanted, !.fresh = NewCycle(state),
                                    !.old = image, !.new = image])
             /\ UNCHANGED <<files, state, baseline, env>>
    BY DEF StartEnable
  <2> DEFINE wanted == [a EXCEPT !.groups = MergedGroups(settings, @, replace)]
             image == ImageOf(codexHome)
             j == [NoJob EXCEPT !.kind = "enable", !.home = codexHome,
                                !.access = wanted, !.fresh = NewCycle(state),
                                !.old = image, !.new = image]
  <2>2. Begin("manager", at, j)
    BY <2>1
  <2>3. j.home = codexHome /\ j.old = image /\ j.new = image
    <3> HIDE DEF wanted, image
    <3> QED BY DEF NoJob
  <2> HIDE DEF at, j
  <2> QED BY <2>1, <2>2, <2>3
<1>2. PICK j : /\ Begin("manager", at, j)
               /\ j.home = codexHome /\ j.old = ImageOf(codexHome) /\ j.new = ImageOf(codexHome)
  BY <1>1
<1>3. "manager" \in Procs /\ \A q \in Procs : Idle(q)
  BY <1>1, StartIsAlone DEF Procs
<1>4. /\ pc' = [pc EXCEPT !["manager"] = at] /\ pc'["manager"] = at
      /\ job'["manager"] = j /\ ~torn'["manager"]
  BY <1>2, <1>3 DEF Begin, Follows, Held, Calm, Kept, Typed, TypeOK
<1>5. Now("manager")' = ImageOf(codexHome)
  BY <1>1, <1>2, <1>4 DEF Now, ImageOf, files
<1>6. at \in {"stage", "load"} /\ (at = "stage" => baseline' = None \/ NewCycle(state'))
  BY <1>1
<1>7. state' # Corrupt
  BY <1>1
<1> HIDE DEF at
<1>8. Tracked("manager")'
  BY <1>2, <1>4, <1>5, <1>6 DEF Tracked, Preparing, Writing, RollingBack
<1>9. OthersAgree("manager")'
  BY <1>2, <1>4, <1>5, SameOthersSymmetric DEF OthersAgree
<1>10. Replacing("manager")'
  BY <1>4, <1>6, <1>7 DEF Replacing
<1> QED BY <1>3, <1>4, <1>8, <1>9, <1>10, StartFollows

LEMMA StartsFollow ==
  ASSUME ~Overlap, Follows, Held', StartRepair \/ StartLaunch
  PROVE  Follows'
<1>1. PICK p \in Procs, at \in {"sync", "check"}, kind \in Kinds :
        CanStart(p) /\ Begin(p, at, [NoJob EXCEPT !.kind = kind, !.home = codexHome])
  <2>1. "manager" \in Procs /\ "launcher" \in Procs /\ "repair" \in Kinds /\ "launch1" \in Kinds
    BY DEF Procs, Kinds
  <2> QED BY <2>1 DEF StartRepair, StartLaunch
<1>2. \A q \in Procs : Idle(q)
  BY <1>1, StartIsAlone
<1>3. /\ pc' = [pc EXCEPT ![p] = at] /\ pc'[p] = at /\ ~torn'[p]
      /\ job'[p].old = NoImage /\ job'[p].new = NoImage
  BY <1>1, <1>2 DEF Begin, NoJob, Follows, Held, Calm, Kept, Typed, TypeOK
<1>4. Tracked(p)' /\ Replacing(p)'
  BY <1>3 DEF Tracked, Preparing, Writing, RollingBack, Replacing
<1>5. OthersAgree(p)'
  BY <1>3 DEF OthersAgree, SameOthers, Agree, NoImage
<1> QED BY <1>2, <1>3, <1>4, <1>5, StartFollows

(* What a restore sets out to write keeps the other keys. *)
LEMMA RestoredAgrees ==
  ASSUME Typed, NEW kind \in {"restore", "recover"}, NEW h \in Homes,
         RestoreAllowed(kind, h), kind = "recover" \/ RestoreState(kind).active
  PROVE  SameOthers(ImageOf(h), RestoredImage(kind, h))
<1>1. /\ ImageOf(h).config = config[h] /\ ImageOf(h).settings = settings
      /\ RestoredImage(kind, h).config = (IF kind = "recover"
                                          THEN RecoveredConfig(config[h], baseline.config)
                                          ELSE RestoredConfig(config[h], baseline.config))
      /\ RestoredImage(kind, h).settings = (IF kind = "recover"
                                            THEN RecoveredSettings(settings, baseline.settings)
                                            ELSE RestoredSettings(settings, baseline.settings))
  BY DEF ImageOf, RestoredImage
<1>2. baseline \in BaselineRecords
  BY DEF Typed, TypeOK, RestoreAllowed, HasBaseline, Baselines
<1>3. /\ config[h] \in Configs /\ settings \in Settings
      /\ baseline.config \in Configs /\ baseline.settings \in Settings
  BY <1>2 DEF Typed, TypeOK, BaselineRecords
<1>4. kind = "restore" => BothParse(config[h], baseline.config)
                          /\ BothParse(settings, baseline.settings)
  BY DEF RestoreAllowed
<1>5. BothParse(config[h], baseline.config)
        => RestoredConfig(config[h], baseline.config).other = config[h].other
  BY <1>3 DEF BothParse, RestoredConfig, Configs, ConfigRecords
<1>6. BothParse(settings, baseline.settings)
        => RestoredSettings(settings, baseline.settings).other = settings.other
  BY <1>3 DEF BothParse, RestoredSettings, Settings, SettingsRecords
<1>7. Agree(ImageOf(h).config, RestoredImage(kind, h).config)
  BY <1>1, <1>4, <1>5 DEF Agree, RecoveredConfig, BothParse
<1>8. Agree(ImageOf(h).settings, RestoredImage(kind, h).settings)
  BY <1>1, <1>4, <1>6 DEF Agree, RecoveredSettings, BothParse
<1> QED BY <1>7, <1>8 DEF SameOthers

LEMMA StartRestoreFollows ==
  ASSUME ~Overlap, Follows, Held', NEW kind \in {"restore", "recover"}, StartRestore(kind)
  PROVE  Follows'
<1> DEFINE h == codexHome
           touches == kind = "recover" \/ RestoreState(kind).active
           pending == [DefaultState EXCEPT !.sync = "pending_restore", !.home = h]
           new == IF touches THEN RestoredImage(kind, h) ELSE [ImageOf(h) EXCEPT !.state = pending]
           at == IF touches THEN "write" ELSE "commit"
           left == IF touches THEN <<"config", "auth", "settings", "catalog">> ELSE <<>>
           j == [NoJob EXCEPT !.kind = kind, !.home = h, !.old = ImageOf(h), !.new = new]
<1>1. /\ CanStart("manager") /\ RestoreAllowed(kind, h)
      /\ pc' = [pc EXCEPT !["manager"] = at] /\ todo' = [todo EXCEPT !["manager"] = left]
      /\ job' = [job EXCEPT !["manager"] = j]
      /\ UNCHANGED <<files, state, torn>>
  BY DEF StartRestore
<1>2. "manager" \in Procs /\ \A q \in Procs : Idle(q)
  BY <1>1, StartIsAlone DEF Procs
<1>3. Typed /\ h \in Homes
  BY DEF Follows, Held, Kept, Typed, TypeOK
<1>4. SameOthers(ImageOf(h), new)
  <2>1. touches => SameOthers(ImageOf(h), RestoredImage(kind, h))
    BY <1>1, <1>3, RestoredAgrees
  <2>2. SameOthers(ImageOf(h), [ImageOf(h) EXCEPT !.state = pending])
    <3> HIDE DEF pending
    <3> QED BY DEF SameOthers, Agree, ImageOf
  <2> QED BY <2>1, <2>2
<1>5. ~touches => \A f \in Contents : ImageOf(h)[f] = new[f]
  <2> HIDE DEF pending
  <2> QED BY DEF ImageOf, Contents, FileIds
<1>6. at \in {"write", "commit"} /\ (at = "write" => touches) /\ (at = "commit" => ~touches)
  OBVIOUS
<1>7. ~Listed("state", left) /\ (touches => \A f \in Contents : Listed(f, left))
      /\ (~touches => left = <<>>)
  <2>1. CASE touches
    BY <2>1, Lists
  <2>2. CASE ~touches
    BY <2>2, Lists
  <2> QED BY <2>1, <2>2
<1>8. j.home = h /\ j.old = ImageOf(h) /\ j.new = new
  <2> HIDE DEF new
  <2> QED BY DEF NoJob
<1> HIDE DEF touches, new, at, left, j
<1>9. /\ pc'["manager"] = at /\ todo'["manager"] = left /\ job'["manager"] = j
      /\ ~torn'["manager"]
  BY <1>1, <1>2 DEF Follows, Held, Calm, Kept, Typed, TypeOK
<1>10. Now("manager")' = ImageOf(h)
  BY <1>1, <1>8, <1>9 DEF Now, ImageOf, files
<1>11. Tracked("manager")'
  <2>1. ImageOf(h).state = state
    BY DEF ImageOf
  <2> QED BY <1>1, <1>5, <1>6, <1>7, <1>8, <1>9, <1>10, <2>1
          DEF Tracked, Preparing, Writing, RollingBack, Written
<1>12. OthersAgree("manager")'
  BY <1>4, <1>8, <1>9, <1>10, SameOthersSymmetric DEF OthersAgree
<1>13. Replacing("manager")'
  BY <1>6, <1>9 DEF Replacing
<1> QED BY <1>1, <1>2, <1>11, <1>12, <1>13, StartFollows

(* While an operation runs the world leaves the files alone. *)
LEMMA WorldFollows ==
  ASSUME ~Overlap, Follows, Held', World \/ RefuseRestore \/ UNCHANGED vars
  PROVE  Follows'
<1>1. UNCHANGED <<pc, job, todo, torn>>
  BY DEF World, UserEditsConfig, UserLogsIn, UserEditsSettings, FileBreaks, HomeMoves,
         CodexStarts, CodexExits, RefuseRestore, Elsewhere, vars, ops
<1>2. CASE Quiet
  BY <1>1, <1>2 DEF Follows, Quiet, Idle
<1>3. CASE ~Quiet
  <2>1. UNCHANGED <<files, state, baseline>>
    BY <1>3 DEF World, UserEditsConfig, UserLogsIn, UserEditsSettings, FileBreaks, HomeMoves,
         CodexStarts, CodexExits, RefuseRestore, CanStart, Outside, vars
  <2>2. ASSUME NEW p \in Procs, ~Idle(p)
        PROVE  Tracked(p)' /\ OthersAgree(p)' /\ Replacing(p)'
    <3>1. Now(p)' = Now(p)
      BY <1>1, <2>1, NowStays
    <3>2. Tracked(p) /\ OthersAgree(p) /\ Replacing(p)
      BY <2>2, Busy
    <3>3. Tracked(p)'
      BY <1>1, <2>1, <3>1, <3>2 DEF Tracked, Preparing, Writing, RollingBack, Written
    <3>4. OthersAgree(p)'
      BY <1>1, <3>1, <3>2 DEF OthersAgree
    <3>5. Replacing(p)'
      BY <1>1, <2>1, <3>2 DEF Replacing, NewCycle
    <3> QED BY <3>3, <3>4, <3>5
  <2> QED BY <1>1, <2>2 DEF Follows, Idle
<1> QED BY <1>2, <1>3

LEMMA FollowsInit == Init => Follows
<1> SUFFICES ASSUME Init PROVE Follows
  OBVIOUS
<1>1. Kept
  BY KeptInit
<1>2. \A p \in Procs : Idle(p) /\ ~torn[p]
  BY DEF Init, Idle
<1> QED BY <1>1, <1>2 DEF Follows, Held, Calm

LEMMA FollowsNext == ~Overlap /\ Follows /\ [Next]_vars => Follows'
<1> SUFFICES ASSUME ~Overlap, Follows, [Next]_vars PROVE Follows'
  OBVIOUS
<1>1. Held'
  BY KeptNext, CalmNext DEF Follows, Held
<1>2. CASE Start
  BY <1>1, <1>2, StartEnableFollows, StartRestoreFollows, StartsFollow, WorldFollows DEF Start
<1>3. CASE World \/ UNCHANGED vars
  BY <1>1, <1>3, WorldFollows
<1>4. ASSUME NEW p \in Procs, Step(p) PROVE Follows'
  BY <1>1, <1>4, BaselineFollows, LoadEnableFollows, WriteNextFollows, VerifyFollows,
     CommitFollows, ConfirmFollows, UndoNextFollows, RewindNextFollows, RedoNextFollows,
     AftermathFollows, CheckProviderFollows, EndsFollow DEF Step
<1>5. ASSUME NEW p \in Procs, Crash(p) PROVE Follows'
  BY <1>1, <1>5, EndsFollow
<1> QED BY <1>2, <1>3, <1>4, <1>5 DEF Next

----
(* An image is its five files. *)
LEMMA ImagesByFile ==
  ASSUME NEW i \in Images, NEW k \in Images, \A f \in FileIds : i[f] = k[f]
  PROVE  i = k
<1>1. /\ i.config = k.config /\ i.auth = k.auth /\ i.settings = k.settings
      /\ i.catalog = k.catalog /\ i.state = k.state
  BY DEF FileIds
<1> QED BY <1>1 DEF Images

(* With one operation at a time, an operation that reports a complete      *)
(* rollback has put all five files back as it found them, whichever write, *)
(* verification or save failed, through either of the two rollbacks.       *)
THEOREM RollbacksAreComplete == ~Overlap => (Spec => []FailedOperationChangesNothing)
<1>1. Follows => FailedOperationChangesNothing
  <2> SUFFICES ASSUME Follows, NEW p \in Procs, pc[p] = "undone", ~torn[p]
               PROVE  ImageOf(job[p].home) = job[p].old
    BY DEF FailedOperationChangesNothing
  <2>1. ~Idle(p)
    BY DEF Idle
  <2>2. Now(p) \in Images /\ job[p].old \in Images /\ Written(p, job[p].old, FileIds)
        /\ todo[p] = <<>>
    BY <2>1, Busy DEF Tracked, RollingBack
  <2>3. Now(p) = job[p].old
    BY <2>2, Lists, ImagesByFile DEF Written
  <2> QED BY <2>3 DEF Now
<1> SUFFICES ASSUME ~Overlap PROVE Spec => []FailedOperationChangesNothing
  OBVIOUS
<1>2. Follows /\ [Next]_vars => Follows'
  BY FollowsNext
<1> QED BY <1>1, <1>2, FollowsInit, PTL DEF Spec

----
(* Who writes a file: an operation, from an image it holds; the user; or   *)
(* what breaks it.                                                         *)
LEMMA WhoWrites ==
  ASSUME Typed, [Next]_vars
  PROVE  \/ UNCHANGED <<config, auth, catalog, settings>>
         \/ edits' # edits
         \/ FileBreaks
         \/ \E p \in Procs, f \in FileIds :
              /\ ~Idle(p) /\ UNCHANGED <<codexHome, edits>>
              /\ Put(f, job[p].home, job[p].new) \/ Put(f, job[p].home, job[p].old)
<1>1. CASE Start \/ UNCHANGED vars
  BY <1>1 DEF Start, StartEnable, StartRestore, RefuseRestore, StartRepair, StartLaunch,
     files, vars
<1>2. CASE World
  <2>1. CASE Edit
    <3>1. edits \in Nat /\ edits' = edits + 1
      BY <2>1, BoundsAssumption DEF Edit, Typed, TypeOK
    <3> QED BY <3>1
  <2>2. CASE (\E h \in Homes : HomeMoves(h)) \/ CodexStarts \/ CodexExits
    BY <2>2 DEF HomeMoves, CodexStarts, CodexExits, files
  <2> QED BY <1>2, <2>1, <2>2 DEF World, UserEditsConfig, UserLogsIn, UserEditsSettings
<1>3. ASSUME NEW p \in Procs, Crash(p) PROVE UNCHANGED <<config, auth, catalog, settings>>
  BY <1>3 DEF Crash, files
<1>4. ASSUME NEW p \in Procs, Step(p)
      PROVE  \/ UNCHANGED <<config, auth, catalog, settings>>
             \/ \E f \in FileIds :
                  /\ ~Idle(p) /\ UNCHANGED <<codexHome, edits>>
                  /\ Put(f, job[p].home, job[p].new) \/ Put(f, job[p].home, job[p].old)
  <2>1. CASE UNCHANGED files
    BY <2>1 DEF files
  <2>2. CASE WriteNext(p) \/ UndoNext(p) \/ RewindNext(p) \/ RedoNext(p)
    <3>1. /\ UNCHANGED <<codexHome, edits>> /\ ~Idle(p)
          /\ \/ UNCHANGED files
             \/ /\ todo[p] # <<>>
                /\ \/ Put(Head(todo[p]), job[p].home, job[p].new)
                   \/ Put(Head(todo[p]), job[p].home, job[p].old)
      BY <2>2 DEF WriteNext, UndoNext, RewindNext, RedoNext, TurnRound, env, bounds, Idle
    <3>2. todo[p] # <<>> => Head(todo[p]) \in FileIds
      BY HeadIsWritten DEF Typed, TypeOK
    <3> QED BY <3>1, <3>2 DEF files
  <2> QED BY <1>4, <2>1, <2>2
          DEF Step, RetireBaseline, PublishBaseline, LoadEnable, Verify, Commit, Confirm,
              Report, Pause, Marketplace, ImageSkill, SyncSessions, CheckProvider, Spawn
<1> QED BY <1>1, <1>2, <1>3, <1>4 DEF Next

(* Unmanaged: one step of the system that is no edit keeps the other keys. *)
OthersKept ==
  edits' = edits =>
    /\ \A h \in Homes :
         config[h] # Corrupt /\ config'[h] # Corrupt => config'[h].other = config[h].other
    /\ settings # Corrupt /\ settings' # Corrupt => settings'.other = settings.other

LEMMA StepKeepsOthers == Follows /\ [Next]_vars => OthersKept
<1> SUFFICES ASSUME Follows, [Next]_vars, edits' = edits
             PROVE  /\ \A h \in Homes : Agree(config[h], config'[h])
                    /\ Agree(settings, settings')
  BY DEF OthersKept, Agree
<1>1. /\ Typed /\ config \in [Homes -> Configs]
  BY DEF Follows, Held, Kept, Typed, TypeOK
<1>2. CASE UNCHANGED <<config, auth, catalog, settings>>
  BY <1>2 DEF Agree
<1>3. CASE FileBreaks
  <2>1. config' = config \/ config' = [config EXCEPT ![codexHome] = Corrupt]
    BY <1>3 DEF FileBreaks
  <2>2. settings' = settings \/ settings' = Corrupt
    BY <1>3 DEF FileBreaks
  <2> QED BY <1>1, <2>1, <2>2 DEF Agree
<1>4. ASSUME NEW p \in Procs, NEW f \in FileIds, ~Idle(p),
             NEW image, image = job[p].new \/ image = job[p].old,
             Put(f, job[p].home, image)
      PROVE  /\ \A h \in Homes : Agree(config[h], config'[h])
             /\ Agree(settings, settings')
  <2>1. OthersAgree(p)
    BY <1>4, Busy
  <2>2. Agree(config[job[p].home], image.config) /\ Agree(settings, image.settings)
    BY <1>4, <2>1 DEF OthersAgree, SameOthers, Now, ImageOf
  <2>3. /\ config' = config \/ config' = [config EXCEPT ![job[p].home] = image.config]
        /\ settings' = settings \/ settings' = image.settings
    BY <1>4 DEF Put
  <2>4. \A c : Agree(c, c)
    BY DEF Agree
  <2> QED BY <1>1, <2>2, <2>3, <2>4
<1> QED BY <1>1, <1>2, <1>3, <1>4, WhoWrites

(* With one operation at a time, whatever an enable, a mode switch, a      *)
(* restore, a recovery, a repair or their rollbacks write, killed or       *)
(* failing anywhere, the keys Mirror does not manage stay as the user last *)
(* wrote them.                                                             *)
THEOREM OtherKeysAreKept == ~Overlap => (Spec => UnmanagedKept)
<1> SUFFICES ASSUME ~Overlap PROVE Spec => UnmanagedKept
  OBVIOUS
<1>1. Follows /\ [Next]_vars => Follows'
  BY FollowsNext
<1>2. Follows /\ [Next]_vars =>
        [edits' = edits =>
           /\ \A h \in Homes :
                config[h] # Corrupt /\ config'[h] # Corrupt => config'[h].other = config[h].other
           /\ settings # Corrupt /\ settings' # Corrupt => settings'.other = settings.other]_vars
  BY StepKeepsOthers DEF OthersKept
<1> QED BY <1>1, <1>2, FollowsInit, PTL DEF Spec, UnmanagedKept

----
(* The baseline moves where a new cycle begins, or it breaks. *)
LEMMA StepKeepsBaseline ==
  ASSUME Follows, [Next]_vars,
         state # Corrupt, state.active \/ state.sync \notin {"not_run", "synced"}, HasBaseline
  PROVE  baseline' \in {baseline, Corrupt}
<1>1. ASSUME NEW p \in Procs, RetireBaseline(p) \/ PublishBaseline(p)
      PROVE  baseline' \in {baseline, Corrupt}
  <2>1. ~Idle(p) /\ pc[p] \in {"stage", "publish"}
    BY <1>1 DEF RetireBaseline, PublishBaseline, Idle
  <2>2. Replacing(p)
    BY <2>1, Busy
  <2> QED BY <2>1, <2>2 DEF Replacing, NewCycle, HasBaseline
<1>2. CASE Start \/ World \/ UNCHANGED vars
  BY <1>2 DEF Start, StartEnable, StartRestore, RefuseRestore, StartRepair, StartLaunch,
     World, UserEditsConfig, UserLogsIn, UserEditsSettings, FileBreaks, HomeMoves,
     CodexStarts, CodexExits, Elsewhere, vars
<1>3. ASSUME NEW p \in Procs, Step(p) \/ Crash(p), ~RetireBaseline(p), ~PublishBaseline(p)
      PROVE  baseline' = baseline
  BY <1>3 DEF Step, Crash, LoadEnable, WriteNext, Verify, Commit, Confirm, UndoNext, RewindNext,
     RedoNext, Report, Pause, Marketplace, ImageSkill, SyncSessions, CheckProvider, Spawn
<1> QED BY <1>1, <1>2, <1>3 DEF Next

(* With one operation at a time, from the commit of an enable until a      *)
(* restore and its session repair are complete no mode switch, re-enabling *)
(* or failed operation replaces the baseline, in whichever home.           *)
THEOREM BaselineStays == ~Overlap => (Spec => BaselineFixedWhileOpen)
<1> SUFFICES ASSUME ~Overlap PROVE Spec => BaselineFixedWhileOpen
  OBVIOUS
<1>1. Follows /\ [Next]_vars => Follows'
  BY FollowsNext
<1>2. Follows /\ [Next]_vars =>
        [state # Corrupt /\ (state.active \/ state.sync \notin {"not_run", "synced"})
           /\ HasBaseline
         => baseline' \in {baseline, Corrupt}]_vars
  BY StepKeepsBaseline
<1> QED BY <1>1, <1>2, FollowsInit, PTL DEF Spec, BaselineFixedWhileOpen

----
(* Whose contents the files are.  From here on CODEX_HOME stays where it   *)
(* is, at most one write fails in an operation and no process is killed    *)
(* inside an enable: a second failed write leaves a torn rollback behind,  *)
(* a killed enable its first files, under a state that knows of neither.   *)
Mild == ~Overlap /\ MaxFaults <= 1 /\ "enable" \notin Exposed

StayingSpec == Spec /\ [][codexHome' = codexHome]_vars

CleanImage(i) ==
  /\ ~MirrorConfig(i.config) /\ ~MirrorAuth(i.auth)
  /\ ~MirrorSettings(i.settings) /\ ~MirrorCatalog(i.catalog)

(* Under a state that is not active there is no Mirror content; under one  *)
(* of the mixed mode the login is the user's.                              *)
SaneUnder(s, i) ==
  s # Corrupt => IF s.active THEN s.mode \in Modes /\ (s.mode = "mixed" => ~MirrorAuth(i.auth))
                 ELSE CleanImage(i)

Sane(i) == SaneUnder(i.state, i)

Owned(b) == b \notin {None, Corrupt} => CleanImage(b)

(* Which operations are where. *)
Kinded(p) ==
  /\ pc[p] \in {"stage", "publish", "load", "market"} => job[p].kind = "enable"
  /\ pc[p] \in {"commit", "confirm", "undo"} => job[p].kind = "enable" \/ Restoring(p)
  /\ pc[p] \in {"write", "verify"} => job[p].kind = "enable" \/ Restoring(p) \/ Launching(p)
  /\ pc[p] \in {"rewind", "redo"} => job[p].kind = "enable" \/ Launching(p)
  /\ pc[p] = "check" => Launching(p)

(* What an enable will copy into the baseline is the user's. *)
Copies(p) ==
  /\ pc[p] \in {"stage", "publish"} => CleanImage(job[p].new)
  /\ pc[p] \in {"stage", "publish", "load"} => state # Corrupt

(* What will be committed is of this home, and so is the baseline. *)
Based(p) ==
  pc[p] \in {"write", "verify", "commit", "confirm"} /\ ~Launching(p) =>
    /\ HasBaseline /\ baseline.home = job[p].home
    /\ job[p].new.state # Corrupt /\ job[p].new.state.home = job[p].home

Restores(p) ==
  Restoring(p) =>
    /\ job[p].new.state # Corrupt /\ ~job[p].new.state.active
    /\ pc[p] \in {"image", "sync"} => state # Corrupt /\ ~state.active

(* An operation that is no enable may stop after any of its writes. *)
MayStop(p) ==
  /\ job[p].kind # "enable"
       /\ pc[p] \in {"write", "verify", "commit", "undo", "rewind", "redo"}
     => state = job[p].old.state /\ SaneUnder(state, job[p].new)
  /\ Launching(p) /\ pc[p] \in {"write", "verify", "rewind", "redo"}
     => state = job[p].new.state

(* One failed write at most: the rollback it leads to does not fail. *)
OneFault(p) ==
  /\ pc[p] \in {"undo", "redo"} => ~(faults[p] < MaxFaults)
  /\ pc[p] = "undo" => ~torn[p]
  /\ pc[p] = "redo" \/ (pc[p] = "undone" /\ torn[p]) => Written(p, job[p].new, FileIds)

Purposed(p) ==
  /\ Sane(job[p].old) /\ Sane(job[p].new) /\ Owned(job[p].prev)
  /\ Kinded(p) /\ Copies(p) /\ Based(p) /\ Restores(p) /\ MayStop(p) /\ OneFault(p)

(* An enable between its first write and its confirmation or rollback. *)
Enabling(p) ==
  /\ job[p].kind = "enable"
  /\ pc[p] \in {"write", "verify", "commit", "confirm", "undo", "rewind", "redo"}

Settled == (\A p \in Procs : ~Enabling(p)) => Sane(ImageOf(codexHome))

AtHome ==
  /\ \A h \in Homes : h # codexHome => ~MirrorIn(h)
  /\ \A p \in Procs : ~Idle(p) => job[p].home = codexHome

Ownership ==
  /\ Follows /\ AtHome /\ Owned(baseline) /\ Settled
  /\ \A p \in Procs : ~Idle(p) => Purposed(p)

----
LEMMA SaneMix ==
  ASSUME NEW s, NEW i, NEW k, NEW m, SaneUnder(s, i), SaneUnder(s, k),
         m.config \in {i.config, k.config}, m.auth \in {i.auth, k.auth},
         m.settings \in {i.settings, k.settings}, m.catalog \in {i.catalog, k.catalog}
  PROVE  SaneUnder(s, m)
<1> DEFINE ci == MirrorConfig(i.config)
<1>1. CASE s = Corrupt
  BY <1>1 DEF SaneUnder
<1>2. CASE s # Corrupt /\ s.active
  BY <1>2 DEF SaneUnder
<1>3. CASE s # Corrupt /\ ~s.active
  <2>1. CleanImage(i) /\ CleanImage(k)
    BY <1>3 DEF SaneUnder
  <2>2. CleanImage(m)
    BY <2>1 DEF CleanImage
  <2> QED BY <1>3, <2>2 DEF SaneUnder
<1> QED BY <1>1, <1>2, <1>3

(* A record of the session repair or of a refused restore stays sane. *)
LEMMA SaneRecord ==
  ASSUME Typed, NEW i, SaneUnder(state, i)
  PROVE  /\ SaneUnder(RestoreFailed(state), i)
         /\ \A h, synced : Recordable(h) => SaneUnder(Recorded(h, synced), i)
<1>1. state \in ManagedStates
  BY DEF Typed, TypeOK
<1>2. CASE state = Corrupt
  BY <1>2 DEF RestoreFailed, Recordable
<1>3. CASE state # Corrupt
  <2>1. state \in StateRecords
    BY <1>1, <1>3 DEF ManagedStates
  <2>2. RestoreFailed(state).active = state.active /\ RestoreFailed(state).mode = state.mode
    BY <1>3, <2>1 DEF RestoreFailed, StateRecords
  <2>3. \A h, synced : /\ Recorded(h, synced).active = state.active
                       /\ Recorded(h, synced).mode = state.mode
    BY <2>1 DEF Recorded, StateRecords
  <2> QED BY <1>3, <2>2, <2>3 DEF SaneUnder
<1> QED BY <1>2, <1>3

LEMMA NoImageSane == Sane(NoImage) /\ Owned(None)
BY DEF Sane, SaneUnder, NoImage, DefaultState, CleanImage, MirrorConfig, MirrorAuth,
       MirrorSettings, MirrorCatalog, Own, Owned

(* A busy process is the only one, and in the home the environment names. *)
LEMMA Mine ==
  ASSUME Ownership, NEW p \in Procs, ~Idle(p)
  PROVE  /\ Follows /\ Typed /\ Tracked(p) /\ Purposed(p) /\ Owned(baseline)
         /\ job \in [Procs -> Jobs] /\ pc \in [Procs -> PCs] /\ torn \in [Procs -> BOOLEAN]
         /\ todo \in [Procs -> Seq(FileIds)] /\ faults \in [Procs -> 0..MaxFaults]
         /\ \E j \in Jobs : /\ j = job[p] /\ j.home = codexHome /\ j.home \in Homes
                            /\ j.old \in Images /\ j.new \in Images
                            /\ Now(p) = ImageOf(codexHome) /\ Now(p) \in Images
         /\ Enabling(p) \/ Sane(Now(p))
<1>1. Follows /\ Typed /\ Purposed(p) /\ job[p].home = codexHome /\ Owned(baseline)
  BY DEF Ownership, AtHome, Follows, Held, Kept
<1>2. /\ Tracked(p)
      /\ job \in [Procs -> Jobs] /\ pc \in [Procs -> PCs] /\ torn \in [Procs -> BOOLEAN]
      /\ todo \in [Procs -> Seq(FileIds)]
      /\ \E j \in Jobs : /\ j = job[p] /\ j.home \in Homes
                         /\ j.old \in Images /\ j.new \in Images
                         /\ Now(p) = ImageOf(j.home) /\ Now(p) \in Images
  BY <1>1, Busy
<1>3. faults \in [Procs -> 0..MaxFaults]
  BY <1>1 DEF Typed, TypeOK
<1>4. Enabling(p) \/ Sane(Now(p))
  <2>1. \A q \in Procs : q # p => ~Enabling(q)
    BY <1>1, OthersIdle DEF Follows, Held, Enabling, Idle
  <2>2. Now(p) = ImageOf(codexHome)
    BY <1>1 DEF Now
  <2> QED BY <2>1, <2>2 DEF Ownership, Settled
<1> QED BY <1>1, <1>2, <1>3, <1>4

(* A step of the only busy process. *)
LEMMA StepOwns ==
  ASSUME Ownership, Follows', NEW p \in Procs, ~Idle(p), NEW at, pc' = [pc EXCEPT ![p] = at],
         UNCHANGED codexHome,
         UNCHANGED files \/ (\E f, image : Put(f, job[p].home, image)),
         Owned(baseline'), Enabling(p)' \/ Sane(ImageOf(codexHome)'),
         at # "idle" => job'[p].home = job[p].home /\ Purposed(p)'
  PROVE  Ownership'
<1>1. \A q \in Procs : q # p => Idle(q)
  BY OthersIdle DEF Ownership, Follows, Held
<1>2. pc'[p] = at /\ \A q \in Procs : q # p => pc'[q] = "idle"
  BY <1>1, Mine DEF Idle
<1>3. job[p].home = codexHome
  BY DEF Ownership, AtHome
<1>4. \A h \in Homes : h # codexHome => config'[h] = config[h] /\ auth'[h] = auth[h]
                                        /\ catalog'[h] = catalog[h]
  <2>1. /\ config \in [Homes -> Configs] /\ auth \in [Homes -> Auths]
        /\ catalog \in [Homes -> Catalogs]
    BY DEF Ownership, Follows, Held, Kept, Typed, TypeOK
  <2>2. CASE UNCHANGED files
    BY <2>2 DEF files
  <2>3. ASSUME NEW f, NEW image, Put(f, job[p].home, image)
        PROVE  \A h \in Homes : h # codexHome => config'[h] = config[h] /\ auth'[h] = auth[h]
                                                 /\ catalog'[h] = catalog[h]
    BY <1>3, <2>1, <2>3 DEF Put
  <2> QED BY <2>2, <2>3
<1>5. AtHome'
  BY <1>2, <1>3, <1>4 DEF Ownership, AtHome, MirrorIn, Idle
<1>6. Settled'
  BY DEF Settled
<1>7. \A q \in Procs : ~Idle(q)' => q = p /\ at # "idle"
  BY <1>2 DEF Idle
<1> QED BY <1>5, <1>6, <1>7 DEF Ownership

(* Ending: what is left behind is sane. *)
LEMMA FinishOwns ==
  ASSUME Ownership, Follows', NEW p \in Procs, ~Idle(p), ~Enabling(p), Finish(p),
         UNCHANGED <<codexHome, files>>, Owned(baseline'),
         \/ state' = state \/ state' = RestoreFailed(state)
         \/ \E h, synced : Recordable(h) /\ state' = Recorded(h, synced)
  PROVE  Ownership'
<1>1. SaneUnder(state, Now(p)) /\ Typed /\ Now(p) = ImageOf(codexHome)
  BY Mine DEF Sane, Now, ImageOf
<1>2. SaneUnder(state', Now(p))
  BY <1>1, SaneRecord
<1>3. /\ ImageOf(codexHome)'.state = state' /\ ImageOf(codexHome)'.config = Now(p).config
      /\ ImageOf(codexHome)'.auth = Now(p).auth /\ ImageOf(codexHome)'.settings = Now(p).settings
      /\ ImageOf(codexHome)'.catalog = Now(p).catalog
  BY <1>1 DEF ImageOf, files
<1>4. Sane(ImageOf(codexHome)')
  BY <1>2, <1>3, SaneMix DEF Sane
<1>5. pc' = [pc EXCEPT ![p] = "idle"]
  BY DEF Finish
<1> QED BY <1>4, <1>5, StepOwns

LEMMA CurrentStays ==
  UNCHANGED <<files, state, codexHome>> => ImageOf(codexHome)' = ImageOf(codexHome)
BY DEF ImageOf, files

----
(* The steps of an operation. *)

(* Turning to the rollback after a failed write. *)
LEMMA FailedWriteOwns ==
  ASSUME Mild, Ownership, Follows', NEW p \in Procs, pc[p] \in {"write", "commit"},
         Fault(p), BeginRollback(p), UNCHANGED <<files, state, codexHome, baseline>>
  PROVE  Ownership'
<1>1. ~Idle(p) /\ ~torn[p]
  BY NotTorn DEF Idle, Ownership
<1>2. PICK j \in Jobs : /\ j = job[p] /\ j.home = codexHome /\ j.home \in Homes
                        /\ j.old \in Images /\ j.new \in Images
                        /\ Now(p) = ImageOf(codexHome) /\ Now(p) \in Images
  BY <1>1, Mine
<1>3. Tracked(p) /\ Purposed(p) /\ Owned(baseline) /\ (Enabling(p) \/ Sane(Now(p)))
  BY <1>1, Mine
<1>4. ~(faults'[p] < MaxFaults)
  <2>1. faults[p] \in 0..MaxFaults /\ faults'[p] = faults[p] + 1 /\ MaxFaults \in Nat /\ MaxFaults <= 1
        /\ faults[p] < MaxFaults
    BY <1>1, Mine, BoundsAssumption DEF Fault, Mild
  <2> QED BY <2>1
<1>5. state = j.old.state /\ Now(p).state = state
  BY <1>2, <1>3 DEF Tracked, Writing, ImageOf
<1>6. ImageOf(codexHome)' = Now(p)
  BY <1>2, CurrentStays
<1>7. /\ todo'[p] = AllFiles /\ torn' = torn
  BY <1>1, Mine DEF BeginRollback
<1>8. CASE Launching(p)
  <2>1. /\ pc' = [pc EXCEPT ![p] = "rewind"] /\ pc'[p] = "rewind"
        /\ job' = [job EXCEPT ![p].new = Now(p)]
    BY <1>1, <1>8, Mine DEF BeginRollback, Rollback, Now
  <2>2. /\ job'[p].home = j.home /\ job'[p].kind = j.kind /\ job'[p].old = j.old
        /\ job'[p].prev = j.prev /\ job'[p].new = Now(p)
    BY <1>1, <1>2, <2>1, Mine DEF Jobs
  <2>3. Sane(Now(p))
    BY <1>3, <1>8 DEF Enabling, Launching
  <2>4. Purposed(p)'
    BY <1>2, <1>3, <1>4, <1>5, <1>7, <1>8, <2>1, <2>2, <2>3
       DEF Purposed, Kinded, Copies, Based, Restores, MayStop, OneFault, Launching, Restoring, Sane
  <2> QED BY <1>1, <1>2, <1>3, <1>6, <2>1, <2>2, <2>3, <2>4, StepOwns
<1>9. CASE ~Launching(p)
  <2>1. /\ pc' = [pc EXCEPT ![p] = "undo"] /\ pc'[p] = "undo" /\ job' = job /\ job'[p] = j
    BY <1>1, <1>2, <1>9, Mine DEF BeginRollback, Rollback
  <2>2. j.kind = "enable" \/ Restoring(p)
    BY <1>2, <1>3, <1>9 DEF Purposed, Kinded
  <2>3. Purposed(p)'
    BY <1>1, <1>2, <1>3, <1>4, <1>5, <1>7, <1>9, <2>1, <2>2
       DEF Purposed, Kinded, Copies, Based, Restores, MayStop, OneFault, Launching, Restoring
  <2>4. Enabling(p)' \/ Sane(ImageOf(codexHome)')
    BY <1>2, <1>3, <1>6, <2>1 DEF Enabling
  <2> QED BY <1>1, <1>2, <1>3, <2>1, <2>3, <2>4, StepOwns
<1> QED BY <1>8, <1>9

(* Abandoning an access that was applied. *)
LEMMA AbandonOwns ==
  ASSUME Mild, Ownership, Follows', NEW p \in Procs, pc[p] \in {"market", "image"},
         job[p].kind = "enable", Abandon(p), UNCHANGED <<files, state, codexHome, baseline>>
  PROVE  Ownership'
<1>1. ~Idle(p) /\ ~torn[p]
  BY NotTorn DEF Idle, Ownership
<1>2. PICK j \in Jobs : /\ j = job[p] /\ j.home = codexHome /\ j.home \in Homes
                        /\ j.old \in Images /\ j.new \in Images
                        /\ Now(p) = ImageOf(codexHome) /\ Now(p) \in Images
  BY <1>1, Mine
<1>3. Purposed(p) /\ Owned(baseline) /\ Sane(Now(p))
  BY <1>1, Mine DEF Enabling
<1>4. /\ pc' = [pc EXCEPT ![p] = "rewind"] /\ pc'[p] = "rewind" /\ torn' = torn
      /\ job' = [job EXCEPT ![p].new = Now(p)]
  BY <1>1, Mine DEF Abandon, Now
<1>5. /\ job'[p].home = j.home /\ job'[p].kind = "enable" /\ job'[p].old = j.old
      /\ job'[p].prev = j.prev /\ job'[p].new = Now(p)
  BY <1>1, <1>2, <1>4, Mine DEF Jobs
<1>6. Purposed(p)'
  BY <1>1, <1>2, <1>3, <1>4, <1>5
     DEF Purposed, Kinded, Copies, Based, Restores, MayStop, OneFault, Launching, Restoring
<1>7. Enabling(p)'
  BY <1>4, <1>5 DEF Enabling
<1> QED BY <1>1, <1>2, <1>3, <1>4, <1>5, <1>6, <1>7, StepOwns

(* The previous baseline out of the way, the files as they are in its place. *)
LEMMA BaselineOwns ==
  ASSUME Mild, Ownership, Follows', NEW p \in Procs, RetireBaseline(p) \/ PublishBaseline(p)
  PROVE  Ownership'
<1>1. /\ pc[p] \in {"stage", "publish"} /\ ~Idle(p) /\ ~Enabling(p)
      /\ UNCHANGED <<files, state, codexHome>>
  BY DEF RetireBaseline, PublishBaseline, Idle, Enabling, env
<1>2. PICK j \in Jobs : /\ j = job[p] /\ j.home = codexHome /\ j.home \in Homes
                        /\ j.old \in Images /\ j.new \in Images
                        /\ Now(p) = ImageOf(codexHome) /\ Now(p) \in Images
  BY <1>1, Mine
<1>3. Purposed(p) /\ Owned(baseline) /\ Sane(Now(p)) /\ CleanImage(j.new)
  BY <1>1, <1>2, Mine DEF Purposed, Copies
<1>4. Owned(BaselineOf(j.home, j.new))
  BY <1>3 DEF Owned, BaselineOf, CleanImage
<1>5. Owned(baseline')
  <2>1. baseline' \in {baseline, None, j.prev, BaselineOf(j.home, j.new)}
    BY <1>2 DEF RetireBaseline, PublishBaseline
  <2> QED BY <1>2, <1>3, <1>4, <2>1, NoImageSane DEF Purposed
<1>6. CASE Finish(p)
  BY <1>1, <1>5, <1>6, FinishOwns
<1>7. CASE ~Finish(p)
  <2>1. \E at \in {"publish", "load"} : pc' = [pc EXCEPT ![p] = at]
    BY <1>7 DEF RetireBaseline, PublishBaseline, Goto
  <2>2. PICK at \in {"publish", "load"} : pc' = [pc EXCEPT ![p] = at]
    BY <2>1
  <2>3. UNCHANGED torn /\ (job' = job \/ job' = [job EXCEPT ![p].prev = baseline])
    BY <1>7 DEF RetireBaseline, PublishBaseline, Goto
  <2>4. /\ job'[p].home = j.home /\ job'[p].kind = j.kind /\ job'[p].old = j.old
        /\ job'[p].new = j.new /\ job'[p].prev \in {j.prev, baseline}
    BY <1>1, <1>2, <2>3, Mine DEF Jobs
  <2>5. pc'[p] = at /\ ~torn'[p]
    BY <1>1, <2>2, <2>3, Mine, NotTorn
  <2>6. Purposed(p)'
    BY <1>1, <1>2, <1>3, <2>2, <2>4, <2>5
       DEF Purposed, Kinded, Copies, Based, Restores, MayStop, OneFault, Launching, Restoring
  <2>7. Sane(ImageOf(codexHome)')
    BY <1>1, <1>2, <1>3, CurrentStays
  <2> QED BY <1>1, <1>2, <1>5, <2>2, <2>4, <2>6, <2>7, StepOwns
<1> QED BY <1>6, <1>7

(* What an enable sets out to write. *)
LEMMA EnabledSane ==
  ASSUME Typed, NEW p \in Procs, pc[p] = "load", Owned(baseline), HasBaseline,
         job[p].old = Now(p), Sane(Now(p)), state # Corrupt
  PROVE  Sane(EnabledImage(p, baseline))
<1> DEFINE h == job[p].home
           a == job[p].access
           s == job[p].old.state
           fromPure == s.active /\ s.mode = "pure"
           new == EnabledImage(p, baseline)
<1>1. a \in Access
  BY DEF Typed, JobsKnown
<1>2. new.state.active /\ new.state.mode = a.mode /\ a.mode \in Modes
  BY <1>1 DEF EnabledImage, Access
<1>3. new.auth = ManagedAuth(auth[h], baseline.auth, a, fromPure)
  BY DEF EnabledImage
<1>4. s = state /\ SaneUnder(state, Now(p)) /\ Now(p).auth = auth[h]
  BY DEF Now, ImageOf, Sane
<1>5. ~MirrorAuth(baseline.auth)
  BY DEF Owned, CleanImage, HasBaseline
<1>6. ~fromPure => ~MirrorAuth(auth[h])
  <2>1. CASE state.active
    BY <1>4, <2>1 DEF SaneUnder, Modes
  <2>2. CASE ~state.active
    BY <1>4, <2>2 DEF SaneUnder, CleanImage
  <2> QED BY <2>1, <2>2
<1>7. a.mode = "mixed" => ~MirrorAuth(new.auth)
  <2> HIDE DEF new, fromPure
  <2> QED BY <1>3, <1>5, <1>6 DEF ManagedAuth
<1> HIDE DEF new
<1>8. Sane(new)
  BY <1>2, <1>7 DEF Sane, SaneUnder
<1> QED BY <1>8 DEF new

LEMMA LoadEnableOwns ==
  ASSUME Mild, Ownership, Follows', NEW p \in Procs, LoadEnable(p)
  PROVE  Ownership'
<1> DEFINE old == [ImageOf(job[p].home) EXCEPT !.state = job[p].old.state]
           new == EnabledImage(p, baseline)
<1>1. /\ pc[p] = "load" /\ ~Idle(p) /\ ~Enabling(p)
      /\ UNCHANGED <<files, state, codexHome, baseline>>
  BY DEF LoadEnable, Idle, Enabling, env
<1>2. PICK j \in Jobs : /\ j = job[p] /\ j.home = codexHome /\ j.home \in Homes
                        /\ j.old \in Images /\ j.new \in Images
                        /\ Now(p) = ImageOf(codexHome) /\ Now(p) \in Images
  BY <1>1, Mine
<1>3. Purposed(p) /\ Owned(baseline) /\ Sane(Now(p)) /\ Typed /\ state # Corrupt
      /\ j.kind = "enable" /\ j.old = Now(p)
  BY <1>1, <1>2, Mine DEF Purposed, Copies, Kinded, Tracked, Preparing
<1>4. CASE Finish(p)
  BY <1>1, <1>3, <1>4, FinishOwns
<1>5. CASE ~Finish(p)
  <2>1. /\ HasBaseline /\ baseline.home = j.home
        /\ pc' = [pc EXCEPT ![p] = "write"]
        /\ job' = [job EXCEPT ![p].old = old, ![p].new = new] /\ UNCHANGED torn
    BY <1>2, <1>5 DEF LoadEnable, Bound
  <2>2. old = Now(p)
    BY <1>2, <1>3 DEF ImageOf
  <2>3. Sane(new)
    BY <1>1, <1>2, <1>3, <2>1, EnabledSane
  <2>4. new.state # Corrupt /\ new.state.home = j.home
    <3> DEFINE record == [active |-> TRUE, mode |-> j.access.mode,
                          count |-> Cardinality(j.access.groups),
                          default |-> j.access.default, sync |-> "pending", home |-> j.home]
    <3>1. new.state = record
      BY <1>2 DEF EnabledImage
    <3>2. j.access \in Access
      BY <1>1, <1>2, <1>3 DEF Typed, JobsKnown
    <3>3. record \in StateRecords /\ record.home = j.home
      BY <1>2, <3>2, AccessCounted DEF StateRecords, SyncStatuses, Access
    <3> HIDE DEF new, record
    <3> QED BY <3>1, <3>3, NullAssumption
  <2>5. job'[p].home = j.home /\ job'[p].kind = "enable" /\ job'[p].old = old
        /\ job'[p].new = new /\ job'[p].prev = j.prev
    <3> HIDE DEF old, new
    <3> QED BY <1>1, <1>2, <1>3, <2>1, Mine DEF Jobs
  <2> HIDE DEF old, new
  <2>6. pc'[p] = "write" /\ ~torn'[p]
    BY <1>1, <2>1, Mine, NotTorn
  <2>7. HasBaseline' /\ baseline'.home = j.home
    BY <1>1, <2>1 DEF HasBaseline
  <2>8. Purposed(p)'
    BY <1>2, <1>3, <2>2, <2>3, <2>4, <2>5, <2>6, <2>7
       DEF Purposed, Kinded, Copies, Based, Restores, MayStop, OneFault, Launching, Restoring
  <2>9. Enabling(p)'
    BY <2>5, <2>6 DEF Enabling
  <2> QED BY <1>1, <1>2, <1>3, <2>1, <2>5, <2>8, <2>9, StepOwns
<1> QED BY <1>4, <1>5

(* A file written from a sane image, and an image written in full. *)
LEMMA PutSane ==
  ASSUME Typed, NEW h \in Homes, NEW image \in Images, NEW f \in FileIds, Put(f, h, image),
         NEW s, SaneUnder(s, ImageOf(h)), SaneUnder(s, image)
  PROVE  SaneUnder(s, ImageOf(h)')
<1>1. \A g \in FileIds : ImageOf(h)'[g] \in {ImageOf(h)[g], image[g]}
  BY PutWrites
<1>2. "config" \in FileIds /\ "auth" \in FileIds /\ "settings" \in FileIds /\ "catalog" \in FileIds
  BY DEF FileIds
<1>3. /\ ImageOf(h)'.config \in {ImageOf(h).config, image.config}
      /\ ImageOf(h)'.auth \in {ImageOf(h).auth, image.auth}
      /\ ImageOf(h)'.settings \in {ImageOf(h).settings, image.settings}
      /\ ImageOf(h)'.catalog \in {ImageOf(h).catalog, image.catalog}
  BY <1>1, <1>2
<1> QED BY <1>3, SaneMix

LEMMA CopySane ==
  ASSUME NEW i, Sane(i), NEW k, \A f \in FileIds : k[f] = i[f]
  PROVE  Sane(k)
<1>1. k.config = i.config /\ k.auth = i.auth /\ k.settings = i.settings
      /\ k.catalog = i.catalog /\ k.state = i.state
  BY DEF FileIds
<1>2. SaneUnder(k.state, i)
  BY <1>1 DEF Sane
<1> QED BY <1>1, <1>2, SaneMix DEF Sane

LEMMA CurrentIsNow ==
  ASSUME Ownership, NEW p \in Procs, ~Idle(p), job'[p].home = job[p].home, UNCHANGED codexHome
  PROVE  ImageOf(codexHome)' = Now(p)'
<1>1. job'[p].home = codexHome'
  BY DEF Ownership, AtHome
<1> QED BY <1>1 DEF Now, ImageOf

LEMMA WriteNextOwns ==
  ASSUME Mild, Ownership, Follows', NEW p \in Procs, WriteNext(p)
  PROVE  Ownership'
<1>1. pc[p] = "write" /\ ~Idle(p) /\ todo[p] # <<>> /\ UNCHANGED <<baseline, codexHome>>
  BY DEF WriteNext, Idle, env
<1>2. PICK j \in Jobs : /\ j = job[p] /\ j.home = codexHome /\ j.home \in Homes
                        /\ j.old \in Images /\ j.new \in Images
                        /\ Now(p) = ImageOf(codexHome) /\ Now(p) \in Images
  BY <1>1, Mine
<1>3. /\ Tracked(p) /\ Purposed(p) /\ Owned(baseline) /\ (Enabling(p) \/ Sane(Now(p))) /\ Typed
      /\ todo[p] \in Seq(FileIds) /\ ~torn[p]
  BY <1>1, Mine, NotTorn DEF Ownership
<1>4. CASE Fault(p) /\ BeginRollback(p) /\ UNCHANGED <<files, state>>
  BY <1>1, <1>4, FailedWriteOwns
<1>5. CASE /\ Put(Head(todo[p]), job[p].home, job[p].new)
           /\ Goto(p, IF Tail(todo[p]) = <<>> THEN "verify" ELSE "write", Tail(todo[p]))
  <2>1. PICK at \in {"verify", "write"} : pc' = [pc EXCEPT ![p] = at]
    BY <1>5 DEF Goto
  <2>2. pc'[p] = at /\ job'[p] = j /\ torn' = torn /\ job' = job
    BY <1>1, <1>2, <1>5, <2>1, Mine DEF Goto
  <2>3. Head(todo[p]) # "state" /\ Head(todo[p]) \in FileIds
    BY <1>1, <1>3, HeadIsWritten DEF Tracked, Writing
  <2>4. Put(Head(todo[p]), j.home, j.new) /\ state' = state
    BY <1>2, <1>5, <2>3 DEF Put
  <2>5. Purposed(p)'
    <3>1. HasBaseline' = HasBaseline
      BY <1>1 DEF HasBaseline
    <3> QED BY <1>1, <1>2, <1>3, <2>1, <2>2, <2>4, <3>1
            DEF Purposed, Kinded, Copies, Based, Restores, MayStop, OneFault, Launching, Restoring
  <2>6. Enabling(p)' \/ Sane(ImageOf(codexHome)')
    <3>1. CASE j.kind = "enable"
      BY <2>1, <2>2, <3>1 DEF Enabling
    <3>2. CASE j.kind # "enable"
      <4>1. SaneUnder(state, ImageOf(j.home)) /\ SaneUnder(state, j.new)
        BY <1>1, <1>2, <1>3, <3>2 DEF Enabling, Purposed, MayStop, Sane, ImageOf
      <4>2. SaneUnder(state, ImageOf(j.home)')
        BY <1>2, <1>3, <2>3, <2>4, <4>1, PutSane
      <4>3. ImageOf(codexHome)' = ImageOf(j.home)' /\ ImageOf(j.home)'.state = state
        BY <1>1, <1>2, <2>4 DEF ImageOf
      <4> QED BY <4>2, <4>3 DEF Sane
    <3> QED BY <3>1, <3>2
  <2>7. \E f, image : Put(f, job[p].home, image)
    BY <1>5
  <2> QED BY <1>1, <1>2, <1>3, <2>1, <2>2, <2>5, <2>6, <2>7, StepOwns
<1> QED BY <1>4, <1>5 DEF WriteNext

LEMMA VerifyOwns ==
  ASSUME Mild, Ownership, Follows', NEW p \in Procs, Verify(p)
  PROVE  Ownership'
<1>1. /\ pc[p] = "verify" /\ ~Idle(p)
      /\ UNCHANGED <<files, state, baseline, codexHome>>
  BY DEF Verify, Idle, env
<1>2. PICK j \in Jobs : /\ j = job[p] /\ j.home = codexHome /\ j.home \in Homes
                        /\ j.old \in Images /\ j.new \in Images
                        /\ Now(p) = ImageOf(codexHome) /\ Now(p) \in Images
  BY <1>1, Mine
<1>3. /\ Tracked(p) /\ Purposed(p) /\ Owned(baseline) /\ (Enabling(p) \/ Sane(Now(p))) /\ Typed
      /\ ~torn[p]
  BY <1>1, Mine, NotTorn DEF Ownership
<1>4. \A f \in VerifiedFiles(p) : ImageOf(job[p].home)[f] = job[p].new[f]
  <2>1. VerifiedFiles(p) \subseteq Contents
    BY DEF VerifiedFiles, Contents, FileIds
  <2>2. \A f \in Contents : Now(p)[f] = j.new[f]
    BY <1>1, <1>2, <1>3, Lists DEF Tracked, Writing, Written
  <2> QED BY <1>2, <2>1, <2>2
<1>5. ImageOf(codexHome)' = Now(p)
  BY <1>1, <1>2, CurrentStays
<1>6. CASE Launching(p)
  <2>1. PICK at \in {"check", "spawn"} : pc' = [pc EXCEPT ![p] = at]
    BY <1>4, <1>6 DEF Verify
  <2>2. /\ job' = [job EXCEPT ![p] = [NoJob EXCEPT !.kind = "launch2", !.home = job[p].home]]
        /\ UNCHANGED torn
    BY <1>4, <1>6 DEF Verify
  <2>3. /\ pc'[p] = at /\ job'[p].kind = "launch2" /\ job'[p].home = job[p].home
        /\ job'[p].old = NoImage /\ job'[p].new = NoImage /\ job'[p].prev = None
    BY <1>1, <2>1, <2>2, Mine DEF NoJob
  <2>4. Purposed(p)'
    BY <1>3, <2>1, <2>2, <2>3, NoImageSane
       DEF Purposed, Kinded, Copies, Based, Restores, MayStop, OneFault, Launching, Restoring
  <2>5. Sane(Now(p))
    BY <1>3, <1>6 DEF Enabling, Launching
  <2> QED BY <1>1, <1>3, <1>5, <2>1, <2>3, <2>4, <2>5, StepOwns
<1>7. CASE ~Launching(p)
  <2>1. /\ pc' = [pc EXCEPT ![p] = "commit"] /\ pc'[p] = "commit" /\ job' = job /\ torn' = torn
    BY <1>1, <1>4, <1>7, Mine DEF Verify, Goto
  <2>2. j.kind = "enable" \/ Restoring(p)
    BY <1>1, <1>2, <1>3, <1>7 DEF Purposed, Kinded
  <2>3. HasBaseline' = HasBaseline
    BY <1>1 DEF HasBaseline
  <2>4. Purposed(p)'
    BY <1>1, <1>2, <1>3, <1>7, <2>1, <2>2, <2>3
       DEF Purposed, Kinded, Copies, Based, Restores, MayStop, OneFault, Launching, Restoring
  <2>5. Enabling(p)' \/ Sane(ImageOf(codexHome)')
    BY <1>2, <1>3, <1>5, <2>1 DEF Enabling
  <2> QED BY <1>1, <1>3, <2>1, <2>4, <2>5, StepOwns
<1> QED BY <1>6, <1>7

LEMMA CommitOwns ==
  ASSUME Mild, Ownership, Follows', NEW p \in Procs, Commit(p)
  PROVE  Ownership'
<1>1. pc[p] = "commit" /\ ~Idle(p) /\ UNCHANGED <<files, baseline, codexHome>>
  BY DEF Commit, Idle, env
<1>2. PICK j \in Jobs : /\ j = job[p] /\ j.home = codexHome /\ j.home \in Homes
                        /\ j.old \in Images /\ j.new \in Images
                        /\ Now(p) = ImageOf(codexHome) /\ Now(p) \in Images
  BY <1>1, Mine
<1>3. /\ Tracked(p) /\ Purposed(p) /\ Owned(baseline) /\ (Enabling(p) \/ Sane(Now(p))) /\ Typed
      /\ ~torn[p]
  BY <1>1, Mine, NotTorn DEF Ownership
<1>4. CASE Fault(p) /\ BeginRollback(p) /\ UNCHANGED state
  BY <1>1, <1>4, FailedWriteOwns
<1>5. CASE state' = job[p].new.state /\ Goto(p, "confirm", <<>>)
  <2>1. /\ pc' = [pc EXCEPT ![p] = "confirm"] /\ pc'[p] = "confirm" /\ job' = job /\ torn' = torn
        /\ job'[p] = j
    BY <1>1, <1>2, <1>5, Mine DEF Goto
  <2>2. HasBaseline' = HasBaseline
    BY <1>1 DEF HasBaseline
  <2>3. Purposed(p)'
    BY <1>1, <1>2, <1>3, <2>1, <2>2
       DEF Purposed, Kinded, Copies, Based, Restores, MayStop, OneFault, Launching, Restoring
  <2>4. Enabling(p)' \/ Sane(ImageOf(codexHome)')
    <3>1. \A f \in Contents : Now(p)[f] = j.new[f]
      BY <1>1, <1>2, <1>3, Lists DEF Tracked, Writing, Written
    <3>2. /\ ImageOf(codexHome)'["state"] = j.new["state"]
          /\ \A f \in Contents : ImageOf(codexHome)'[f] = Now(p)[f]
      BY <1>1, <1>2, <1>5 DEF ImageOf, files, Contents, FileIds
    <3>3. \A f \in FileIds : ImageOf(codexHome)'[f] = j.new[f]
      BY <3>1, <3>2 DEF Contents
    <3>4. Sane(j.new)
      BY <1>2, <1>3 DEF Purposed
    <3> QED BY <3>3, <3>4, CopySane
  <2> QED BY <1>1, <1>3, <2>1, <2>3, <2>4, StepOwns
<1> QED BY <1>4, <1>5 DEF Commit

LEMMA ConfirmOwns ==
  ASSUME Mild, Ownership, Follows', NEW p \in Procs, Confirm(p)
  PROVE  Ownership'
<1>1. /\ pc[p] = "confirm" /\ ~Idle(p)
      /\ UNCHANGED <<files, state, baseline, codexHome>>
  BY DEF Confirm, Idle, env
<1>2. PICK j \in Jobs : /\ j = job[p] /\ j.home = codexHome /\ j.home \in Homes
                        /\ j.old \in Images /\ j.new \in Images
                        /\ Now(p) = ImageOf(codexHome) /\ Now(p) \in Images
  BY <1>1, Mine
<1>3. /\ Tracked(p) /\ Purposed(p) /\ Owned(baseline) /\ Typed /\ ~torn[p]
  BY <1>1, Mine, NotTorn DEF Ownership
<1>4. state = j.new.state /\ (j.kind = "enable" \/ Restoring(p))
  BY <1>1, <1>2, <1>3 DEF Tracked, Writing, Purposed, Kinded
<1>5. StatusReadable(j.home)
  <2>1. /\ HasBaseline /\ baseline.home = j.home /\ state # Corrupt /\ state.home = j.home
    BY <1>1, <1>2, <1>3, <1>4 DEF Purposed, Based, Launching, Restoring
  <2> QED BY <2>1 DEF StatusReadable, HasBaseline, Bound, StateBound
<1>6. /\ pc' = [pc EXCEPT ![p] = IF Restoring(p) THEN "image" ELSE "market"]
      /\ job' = job /\ torn' = torn
  BY <1>2, <1>4, <1>5 DEF Confirm, Goto
<1>7. PICK at \in {"image", "market"} : /\ pc' = [pc EXCEPT ![p] = at]
                                        /\ at = "image" <=> Restoring(p)
  BY <1>6
<1>8. pc'[p] = at /\ job'[p] = j
  BY <1>1, <1>2, <1>6, <1>7, Mine
<1>9. Purposed(p)'
  BY <1>1, <1>2, <1>3, <1>4, <1>6, <1>7, <1>8
     DEF Purposed, Kinded, Copies, Based, Restores, MayStop, OneFault, Launching, Restoring
<1>10. Sane(ImageOf(codexHome)')
  <2>1. \A f \in Contents : Now(p)[f] = j.new[f]
    BY <1>1, <1>2, <1>3, Lists DEF Tracked, Writing, Written
  <2>2. Now(p)["state"] = j.new["state"]
    BY <1>2, <1>4 DEF ImageOf
  <2>3. \A f \in FileIds : Now(p)[f] = j.new[f]
    BY <2>1, <2>2 DEF Contents
  <2>4. Sane(j.new) /\ ImageOf(codexHome)' = Now(p)
    BY <1>1, <1>2, <1>3, CurrentStays DEF Purposed
  <2> QED BY <2>3, <2>4, CopySane
<1> QED BY <1>1, <1>3, <1>6, <1>7, <1>9, <1>10, StepOwns

(* Putting one file back where the state stays what it was. *)
LEMMA PutStays ==
  ASSUME Mild, Ownership, NEW p \in Procs, ~Idle(p), ~Enabling(p), UNCHANGED <<codexHome, job>>,
         todo[p] # <<>>, NEW image \in Images, image \in {job[p].old, job[p].new},
         image.state = state, SaneUnder(state, image),
         Put(Head(todo[p]), job[p].home, image)
  PROVE  state' = state /\ Sane(ImageOf(codexHome)')
<1>1. PICK j \in Jobs : /\ j = job[p] /\ j.home = codexHome /\ j.home \in Homes
                        /\ j.old \in Images /\ j.new \in Images
                        /\ Now(p) = ImageOf(codexHome) /\ Now(p) \in Images
  BY Mine
<1>2. /\ Sane(Now(p)) /\ Typed /\ todo[p] \in Seq(FileIds)
  BY Mine
<1>3. Head(todo[p]) \in FileIds /\ Put(Head(todo[p]), j.home, image) /\ state' = state
  BY <1>1, <1>2, HeadIsWritten DEF Put
<1>4. SaneUnder(state, ImageOf(j.home))
  BY <1>1, <1>2 DEF Sane, ImageOf
<1>5. SaneUnder(state, ImageOf(j.home)')
  BY <1>1, <1>2, <1>3, <1>4, PutSane
<1>6. ImageOf(codexHome)' = ImageOf(j.home)' /\ ImageOf(j.home)'.state = state
  BY <1>1, <1>3 DEF ImageOf
<1> QED BY <1>3, <1>5, <1>6 DEF Sane

(* A file image written in full, of an image that is sane. *)
LEMMA WrittenSane ==
  ASSUME Ownership, NEW p \in Procs, ~Idle(p), NEW image, Sane(image),
         job'[p].home = job[p].home, UNCHANGED codexHome,
         Written(p, image, FileIds)', todo'[p] = <<>>
  PROVE  Sane(ImageOf(codexHome)')
<1>1. ImageOf(codexHome)' = Now(p)'
  BY CurrentIsNow
<1>2. \A f \in FileIds : Now(p)'[f] = image[f]
  BY Lists DEF Written
<1> QED BY <1>1, <1>2, CopySane

LEMMA UndoNextOwns ==
  ASSUME Mild, Ownership, Follows', NEW p \in Procs, UndoNext(p)
  PROVE  Ownership'
<1>1. /\ pc[p] = "undo" /\ ~Idle(p) /\ todo[p] # <<>> /\ UNCHANGED <<job, baseline, codexHome>>
      /\ todo' = [todo EXCEPT ![p] = Tail(@)]
  BY DEF UndoNext, Idle, env
<1>2. PICK j \in Jobs : /\ j = job[p] /\ j.home = codexHome /\ j.home \in Homes
                        /\ j.old \in Images /\ j.new \in Images
                        /\ Now(p) = ImageOf(codexHome) /\ Now(p) \in Images
  BY <1>1, Mine
<1>3. /\ Purposed(p) /\ Owned(baseline) /\ ~torn[p] /\ (j.kind = "enable" \/ Restoring(p))
      /\ Sane(j.old)
  BY <1>1, <1>2, Mine DEF Purposed, Kinded, OneFault
<1>4. Put(Head(todo[p]), job[p].home, job[p].old) /\ UNCHANGED <<faults, torn>>
  BY <1>1, <1>3 DEF UndoNext, Purposed, OneFault, Fault
<1>5. PICK at \in {"undo", "undone"} : /\ pc' = [pc EXCEPT ![p] = at]
                                       /\ at = "undone" => Tail(todo[p]) = <<>>
  BY DEF UndoNext
<1>6. pc'[p] = at /\ todo'[p] = Tail(todo[p]) /\ job'[p] = j
  BY <1>1, <1>2, <1>5, Mine
<1>7. j.kind # "enable" => state' = state /\ Sane(ImageOf(codexHome)')
  <2> SUFFICES ASSUME j.kind # "enable" PROVE state' = state /\ Sane(ImageOf(codexHome)')
    OBVIOUS
  <2>1. ~Enabling(p) /\ state = j.old.state /\ SaneUnder(state, j.old)
    BY <1>1, <1>2, <1>3 DEF Enabling, Purposed, MayStop, Sane
  <2> QED BY <1>1, <1>2, <1>4, <2>1, PutStays
<1>8. Purposed(p)'
  BY <1>1, <1>2, <1>3, <1>4, <1>5, <1>6, <1>7
     DEF Purposed, Kinded, Copies, Based, Restores, MayStop, OneFault, Launching, Restoring
<1>9. Enabling(p)' \/ Sane(ImageOf(codexHome)')
  <2>1. CASE j.kind # "enable"
    BY <1>7, <2>1
  <2>2. CASE j.kind = "enable" /\ at = "undo"
    BY <1>6, <2>2 DEF Enabling
  <2>3. CASE at = "undone"
    <3>1. Tracked(p)' /\ ~torn'[p]
      BY <1>3, <1>4, <1>6, <2>3 DEF Follows, Idle
    <3>2. Written(p, j.old, FileIds)' /\ todo'[p] = <<>>
      BY <1>5, <1>6, <2>3, <3>1 DEF Tracked, RollingBack
    <3> QED BY <1>1, <1>2, <1>3, <1>6, <3>2, WrittenSane
  <2> QED BY <2>1, <2>2, <2>3
<1> QED BY <1>1, <1>2, <1>3, <1>4, <1>5, <1>6, <1>8, <1>9, StepOwns

LEMMA RedoNextOwns ==
  ASSUME Mild, Ownership, Follows', NEW p \in Procs, RedoNext(p)
  PROVE  Ownership'
<1>1. /\ pc[p] = "redo" /\ ~Idle(p) /\ todo[p] # <<>>
      /\ UNCHANGED <<job, torn, baseline, codexHome>>
      /\ todo' = [todo EXCEPT ![p] = Tail(@)]
  BY DEF RedoNext, Idle, env
<1>2. PICK j \in Jobs : /\ j = job[p] /\ j.home = codexHome /\ j.home \in Homes
                        /\ j.old \in Images /\ j.new \in Images
                        /\ Now(p) = ImageOf(codexHome) /\ Now(p) \in Images
  BY <1>1, Mine
<1>3. /\ Purposed(p) /\ Owned(baseline) /\ (j.kind = "enable" \/ Launching(p))
      /\ Sane(j.new) /\ Written(p, j.new, FileIds) /\ Typed
  BY <1>1, <1>2, Mine DEF Purposed, Kinded, OneFault
<1>4. Put(Head(todo[p]), job[p].home, job[p].new) /\ UNCHANGED faults
  BY <1>1, <1>3 DEF RedoNext, Purposed, OneFault, Fault
<1>5. PICK at \in {"redo", "undone"} : /\ pc' = [pc EXCEPT ![p] = at]
                                       /\ at = "undone" => Tail(todo[p]) = <<>>
  BY DEF RedoNext
<1>6. pc'[p] = at /\ todo'[p] = Tail(todo[p]) /\ job'[p] = j
  BY <1>1, <1>2, <1>5, Mine
<1>7. j.kind # "enable" => state' = state /\ Sane(ImageOf(codexHome)')
  <2> SUFFICES ASSUME j.kind # "enable" PROVE state' = state /\ Sane(ImageOf(codexHome)')
    OBVIOUS
  <2>1. ~Enabling(p) /\ state = j.new.state /\ SaneUnder(state, j.new)
    BY <1>1, <1>2, <1>3 DEF Enabling, Purposed, MayStop, Sane
  <2> QED BY <1>1, <1>2, <1>4, <2>1, PutStays
<1>8. Written(p, j.new, FileIds)'
  BY <1>1, <1>2, <1>3, <1>4, <1>6, WriteGoesOn
<1>9. Purposed(p)'
  BY <1>1, <1>2, <1>3, <1>4, <1>5, <1>6, <1>7, <1>8
     DEF Purposed, Kinded, Copies, Based, Restores, MayStop, OneFault, Launching, Restoring
<1>10. Enabling(p)' \/ Sane(ImageOf(codexHome)')
  <2>1. CASE j.kind # "enable"
    BY <1>7, <2>1
  <2>2. CASE j.kind = "enable" /\ at = "redo"
    BY <1>6, <2>2 DEF Enabling
  <2>3. CASE at = "undone"
    BY <1>1, <1>2, <1>3, <1>5, <1>6, <1>8, <2>3, WrittenSane
  <2> QED BY <2>1, <2>2, <2>3
<1> QED BY <1>1, <1>2, <1>3, <1>4, <1>5, <1>6, <1>9, <1>10, StepOwns

LEMMA RewindNextOwns ==
  ASSUME Mild, Ownership, Follows', NEW p \in Procs, RewindNext(p)
  PROVE  Ownership'
<1>1. pc[p] = "rewind" /\ ~Idle(p) /\ UNCHANGED <<baseline, codexHome>>
  BY DEF RewindNext, Idle, env
<1>2. PICK j \in Jobs : /\ j = job[p] /\ j.home = codexHome /\ j.home \in Homes
                        /\ j.old \in Images /\ j.new \in Images
                        /\ Now(p) = ImageOf(codexHome) /\ Now(p) \in Images
  BY <1>1, Mine
<1>3. /\ Purposed(p) /\ Owned(baseline) /\ (j.kind = "enable" \/ Launching(p))
      /\ Sane(j.old) /\ Written(p, j.old, FileIds) /\ ~torn[p] /\ (Enabling(p) \/ Sane(Now(p)))
  BY <1>1, <1>2, Mine, NotTorn DEF Purposed, Kinded, Tracked, RollingBack
<1>4. CASE /\ todo[p] # <<>> /\ Put(Head(todo[p]), job[p].home, job[p].old)
           /\ Goto(p, "rewind", Tail(todo[p]))
  <2>1. /\ pc' = [pc EXCEPT ![p] = "rewind"] /\ pc'[p] = "rewind"
        /\ UNCHANGED <<job, torn, faults>> /\ job'[p] = j
    BY <1>1, <1>2, <1>4, Mine DEF Goto
  <2>2. j.kind # "enable" => state' = state /\ Sane(ImageOf(codexHome)')
    <3> SUFFICES ASSUME j.kind # "enable" PROVE state' = state /\ Sane(ImageOf(codexHome)')
      OBVIOUS
    <3>1. ~Enabling(p) /\ state = j.old.state /\ SaneUnder(state, j.old)
      BY <1>1, <1>2, <1>3 DEF Enabling, Purposed, MayStop, Sane
    <3> QED BY <1>1, <1>2, <1>4, <2>1, <3>1, PutStays
  <2>3. Purposed(p)'
    BY <1>1, <1>2, <1>3, <2>1, <2>2
       DEF Purposed, Kinded, Copies, Based, Restores, MayStop, OneFault, Launching, Restoring
  <2>4. Enabling(p)' \/ Sane(ImageOf(codexHome)')
    BY <2>1, <2>2 DEF Enabling
  <2>5. \E f, image : Put(f, job[p].home, image)
    BY <1>4
  <2> QED BY <1>1, <1>2, <1>3, <2>1, <2>3, <2>4, <2>5, StepOwns
<1>5. CASE Fault(p) /\ TurnRound(p)
  <2>1. /\ pc' = [pc EXCEPT ![p] = "redo"] /\ pc'[p] = "redo" /\ todo'[p] = AllFiles
        /\ UNCHANGED <<job, files, state>> /\ job'[p] = j
    BY <1>1, <1>2, <1>5, Mine DEF TurnRound
  <2>2. ~(faults'[p] < MaxFaults)
    <3>1. /\ faults[p] \in 0..MaxFaults /\ faults'[p] = faults[p] + 1 /\ MaxFaults \in Nat
          /\ MaxFaults <= 1 /\ faults[p] < MaxFaults
      BY <1>1, <1>5, Mine, BoundsAssumption DEF Fault, Mild
    <3> QED BY <3>1
  <2>3. Written(p, j.new, FileIds)'
    BY <2>1, Lists DEF Written
  <2>4. Purposed(p)'
    BY <1>1, <1>2, <1>3, <2>1, <2>2, <2>3
       DEF Purposed, Kinded, Copies, Based, Restores, MayStop, OneFault, Launching, Restoring
  <2>5. Enabling(p)' \/ Sane(ImageOf(codexHome)')
    BY <1>1, <1>2, <1>3, <2>1, CurrentStays DEF Enabling
  <2> QED BY <1>1, <1>2, <1>3, <2>1, <2>4, <2>5, StepOwns
<1>6. CASE todo[p] = <<>>
  <2>1. Now(p) = j.old
    <3>1. \A f \in FileIds : Now(p)[f] = j.old[f]
      BY <1>3, <1>6, Lists DEF Written
    <3> QED BY <1>2, <3>1, ImagesByFile
  <2>2. Goto(p, "undone", <<>>) /\ UNCHANGED <<files, state>>
    BY <1>1, <1>2, <1>6, <2>1 DEF RewindNext, Now
  <2>3. /\ pc' = [pc EXCEPT ![p] = "undone"] /\ pc'[p] = "undone"
        /\ UNCHANGED <<job, torn>> /\ job'[p] = j
    BY <1>1, <1>2, <2>2, Mine DEF Goto
  <2>4. Purposed(p)'
    BY <1>1, <1>2, <1>3, <2>3
       DEF Purposed, Kinded, Copies, Based, Restores, MayStop, OneFault, Launching, Restoring
  <2>5. Sane(ImageOf(codexHome)')
    BY <1>1, <1>2, <1>3, <2>1, <2>2, CurrentStays
  <2> QED BY <1>1, <1>2, <1>3, <2>2, <2>3, <2>4, <2>5, StepOwns
<1> QED BY <1>1, <1>4, <1>5, <1>6 DEF RewindNext

LEMMA AftermathOwns ==
  ASSUME Mild, Ownership, Follows', NEW p \in Procs,
         Report(p) \/ Pause(p) \/ Marketplace(p) \/ ImageSkill(p) \/ SyncSessions(p)
  PROVE  Ownership'
<1>1. /\ ~Idle(p) /\ ~Enabling(p) /\ UNCHANGED <<files, codexHome, baseline>>
      /\ pc[p] \in {"undone", "market", "image", "sync"}
  BY DEF Report, Pause, Marketplace, ImageSkill, SyncSessions, Idle, Enabling, env
<1>2. PICK j \in Jobs : /\ j = job[p] /\ j.home = codexHome /\ j.home \in Homes
                        /\ j.old \in Images /\ j.new \in Images
                        /\ Now(p) = ImageOf(codexHome) /\ Now(p) \in Images
  BY <1>1, Mine
<1>3. Purposed(p) /\ Owned(baseline) /\ Sane(Now(p)) /\ Owned(baseline')
  BY <1>1, Mine
<1>4. CASE Finish(p)
  <2>1. \/ state' = state \/ state' = RestoreFailed(state)
        \/ \E h, synced : Recordable(h) /\ state' = Recorded(h, synced)
    BY DEF Report, Pause, Marketplace, ImageSkill, SyncSessions
  <2> QED BY <1>1, <1>3, <1>4, <2>1, FinishOwns
<1>5. CASE ~Finish(p)
  <2>1. pc[p] \in {"market", "image"} /\ UNCHANGED state
    BY <1>5 DEF Report, Pause, Marketplace, ImageSkill, SyncSessions
  <2>2. CASE Abandon(p)
    <3>1. j.kind = "enable"
      <4>1. pc'[p] = "rewind" /\ ~(pc' = [pc EXCEPT ![p] = "sync"])
        BY <1>1, <2>2, Mine DEF Abandon
      <4>2. CASE pc[p] = "market"
        BY <1>2, <1>3, <4>2 DEF Purposed, Kinded
      <4>3. CASE pc[p] = "image"
        BY <1>2, <1>5, <4>1, <4>3
           DEF Report, Pause, Marketplace, ImageSkill, SyncSessions, Goto
      <4> QED BY <2>1, <4>2, <4>3
    <3> QED BY <1>1, <1>2, <2>1, <2>2, <3>1, AbandonOwns
  <2>3. CASE ~Abandon(p)
    <3>1. PICK at \in {"image", "sync"} : /\ pc' = [pc EXCEPT ![p] = at]
                                          /\ at = "image" => pc[p] = "market"
      BY <1>5, <2>3 DEF Report, Pause, Marketplace, ImageSkill, SyncSessions, Goto
    <3>2. UNCHANGED <<job, torn>>
      BY <1>5, <2>3 DEF Report, Pause, Marketplace, ImageSkill, SyncSessions, Goto
    <3>3. pc'[p] = at /\ job'[p] = j /\ ~torn'[p]
      BY <1>1, <1>2, <2>1, <3>1, <3>2, Mine, NotTorn
    <3>4. Purposed(p)'
      BY <1>1, <1>2, <1>3, <2>1, <3>1, <3>2, <3>3
         DEF Purposed, Kinded, Copies, Based, Restores, MayStop, OneFault, Launching, Restoring
    <3>5. Sane(ImageOf(codexHome)')
      BY <1>1, <1>2, <1>3, <2>1, CurrentStays
    <3> QED BY <1>1, <1>2, <1>3, <3>1, <3>3, <3>4, <3>5, StepOwns
  <2> QED BY <2>2, <2>3
<1> QED BY <1>4, <1>5

(* What the launcher's repair sets out to write: in the mixed mode it      *)
(* leaves the login alone.                                                 *)
LEMMA RepairedSane ==
  ASSUME NEW h, Sane(ImageOf(h)), state # Corrupt, state.active
  PROVE  RepairedImage(h).state = state /\ Sane(RepairedImage(h))
<1> DEFINE new == RepairedImage(h)
<1>1. /\ ImageOf(h).state = state /\ ImageOf(h).auth = auth[h]
      /\ new.state = state /\ new.auth = ManagedAuth(auth[h], baseline.auth, RepairAccess, FALSE)
  BY DEF RepairedImage, ImageOf
<1>2. state.mode \in Modes /\ (state.mode = "mixed" => ~MirrorAuth(auth[h]))
  BY <1>1 DEF Sane, SaneUnder
<1>3. RepairAccess.mode = state.mode
  BY DEF RepairAccess
<1>4. state.mode = "mixed" => ManagedAuth(auth[h], baseline.auth, RepairAccess, FALSE) = auth[h]
  <2> HIDE DEF new
  <2> QED BY <1>3 DEF ManagedAuth
<1> HIDE DEF new
<1>5. new.state = state /\ Sane(new)
  BY <1>1, <1>2, <1>4 DEF Sane, SaneUnder
<1> QED BY <1>5 DEF new

LEMMA CheckProviderOwns ==
  ASSUME Mild, Ownership, Follows', NEW p \in Procs, CheckProvider(p)
  PROVE  Ownership'
<1> DEFINE h == job[p].home
           image == RepairedImage(h)
           next == IF job[p].kind = "launch1" THEN "check" ELSE "spawn"
           Passed == /\ pc' = [pc EXCEPT ![p] = next]
                     /\ job' = [job EXCEPT ![p].kind = "launch2"]
                     /\ UNCHANGED torn
           Repairs == /\ state # Corrupt /\ state.active
                      /\ pc' = [pc EXCEPT ![p] = "write"]
                      /\ job' = [job EXCEPT ![p].old = ImageOf(h), ![p].new = image]
                      /\ UNCHANGED torn
<1>1. pc[p] = "check" /\ ~Idle(p) /\ UNCHANGED <<files, state, baseline, codexHome>>
  BY DEF CheckProvider, Idle, env
<1>2. PICK j \in Jobs : /\ j = job[p] /\ j.home = codexHome /\ j.home \in Homes
                        /\ j.old \in Images /\ j.new \in Images
                        /\ Now(p) = ImageOf(codexHome) /\ Now(p) \in Images
  BY <1>1, Mine
<1>3. /\ Purposed(p) /\ Owned(baseline) /\ ~torn[p] /\ Sane(Now(p)) /\ ~Enabling(p)
      /\ j.kind \in {"launch1", "launch2"} /\ Sane(ImageOf(codexHome)')
  BY <1>1, <1>2, Mine, NotTorn, CurrentStays DEF Purposed, Kinded, Launching, Enabling
<1>4. Passed \/ Repairs \/ Finish(p)
  <2>1. CASE state # Corrupt /\ ~state.active
    BY <2>1 DEF CheckProvider
  <2>2. CASE state # Corrupt /\ state.active /\ RepairAllowed(h)
    BY <2>2 DEF CheckProvider
  <2>3. CASE ~(state # Corrupt /\ ~state.active)
             /\ ~(state # Corrupt /\ state.active /\ RepairAllowed(h))
    BY <2>3 DEF CheckProvider
  <2> QED BY <2>1, <2>2, <2>3
<1>5. CASE Finish(p)
  BY <1>1, <1>3, <1>5, FinishOwns
<1>6. CASE Passed
  <2>1. /\ job'[p].home = j.home /\ job'[p].old = j.old /\ job'[p].new = j.new
        /\ job'[p].prev = j.prev /\ job'[p].kind = "launch2"
    BY <1>1, <1>2, <1>6, Mine DEF Jobs
  <2>2. PICK at \in {"check", "spawn"} : pc' = [pc EXCEPT ![p] = at]
    BY <1>6
  <2>3. pc'[p] = at /\ ~torn'[p]
    BY <1>1, <1>3, <1>6, <2>2, Mine
  <2>4. Purposed(p)'
    BY <1>2, <1>3, <2>1, <2>2, <2>3
       DEF Purposed, Kinded, Copies, Based, Restores, MayStop, OneFault, Launching, Restoring
  <2> QED BY <1>1, <1>2, <1>3, <2>1, <2>2, <2>3, <2>4, StepOwns
<1>7. CASE Repairs
  <2>1. /\ job'[p].home = j.home /\ job'[p].old = ImageOf(codexHome) /\ job'[p].new = image
        /\ job'[p].prev = j.prev /\ job'[p].kind = j.kind
    <3>1. job' = [job EXCEPT ![p].old = ImageOf(codexHome), ![p].new = image]
      BY <1>2, <1>7
    <3> HIDE DEF image
    <3> QED BY <1>1, <1>2, <3>1, Mine DEF Jobs
  <2>2. image.state = state /\ Sane(image)
    BY <1>2, <1>3, <1>7, RepairedSane
  <2>3. ImageOf(codexHome).state = state
    BY DEF ImageOf
  <2> HIDE DEF image
  <2>4. pc' = [pc EXCEPT ![p] = "write"] /\ pc'[p] = "write" /\ ~torn'[p]
    BY <1>1, <1>3, <1>7, Mine
  <2>5. Purposed(p)'
    BY <1>1, <1>2, <1>3, <2>1, <2>2, <2>3, <2>4
       DEF Purposed, Kinded, Copies, Based, Restores, MayStop, OneFault, Launching, Restoring, Sane
  <2> QED BY <1>1, <1>2, <1>3, <2>1, <2>4, <2>5, StepOwns
<1> QED BY <1>4, <1>5, <1>6, <1>7

LEMMA EndsOwn ==
  ASSUME Mild, Ownership, Follows', NEW p \in Procs, Spawn(p) \/ Crash(p)
  PROVE  Ownership'
<1>1. ~Idle(p) /\ Finish(p) /\ UNCHANGED <<files, state, baseline, codexHome>>
  BY DEF Spawn, Crash, Idle
<1>2. ~Enabling(p)
  BY DEF Spawn, Crash, Mild, Enabling
<1>3. Owned(baseline')
  BY <1>1 DEF Ownership
<1> QED BY <1>1, <1>2, <1>3, FinishOwns

----
(* Beginning an operation, while nothing runs. *)
LEMMA StartOwns ==
  ASSUME Ownership, Follows', NEW p \in Procs, \A q \in Procs : Idle(q), NEW at,
         pc' = [pc EXCEPT ![p] = at], UNCHANGED <<files, state, baseline, codexHome>>,
         job'[p].home = codexHome, Purposed(p)'
  PROVE  Ownership'
<1>1. pc \in [Procs -> PCs]
  BY DEF Ownership, Follows, Held, Kept, Typed, TypeOK
<1>2. pc'[p] = at /\ \A q \in Procs : q # p => pc'[q] = "idle"
  BY <1>1 DEF Idle
<1>3. AtHome'
  BY <1>2 DEF Ownership, AtHome, MirrorIn, Idle, files
<1>4. Settled'
  <2>1. \A q \in Procs : ~Enabling(q)
    BY DEF Enabling, Idle
  <2> QED BY <2>1, CurrentStays DEF Ownership, Settled
<1> QED BY <1>2, <1>3, <1>4 DEF Ownership, Idle

LEMMA StartsOwn ==
  ASSUME Mild, Ownership, Follows', StartRepair \/ StartLaunch
  PROVE  Ownership'
<1>1. PICK p \in Procs, at \in {"sync", "check"}, kind \in {"repair", "launch1"} :
        /\ CanStart(p) /\ Begin(p, at, [NoJob EXCEPT !.kind = kind, !.home = codexHome])
        /\ at = "check" => kind = "launch1"
        /\ UNCHANGED <<files, state, baseline, codexHome>>
  <2>1. "manager" \in Procs /\ "launcher" \in Procs
    BY DEF Procs
  <2> QED BY <2>1 DEF StartRepair, StartLaunch, env
<1>2. \A q \in Procs : Idle(q)
  BY <1>1, StartIsAlone DEF Mild
<1>3. /\ pc' = [pc EXCEPT ![p] = at] /\ pc'[p] = at /\ ~torn'[p]
      /\ job'[p].old = NoImage /\ job'[p].new = NoImage /\ job'[p].prev = None
      /\ job'[p].kind = kind /\ job'[p].home = codexHome
  BY <1>1, <1>2 DEF Begin, NoJob, Ownership, Follows, Held, Calm, Kept, Typed, TypeOK
<1>4. Purposed(p)'
  BY <1>1, <1>3, NoImageSane
     DEF Purposed, Kinded, Copies, Based, Restores, MayStop, OneFault, Launching, Restoring
<1> QED BY <1>1, <1>2, <1>3, <1>4, StartOwns

LEMMA StartEnableOwns ==
  ASSUME Mild, Ownership, Follows', StartEnable
  PROVE  Ownership'
<1> DEFINE at == IF NewCycle(state) \/ baseline = None THEN "stage" ELSE "load"
<1>1. /\ CanStart("manager") /\ state # Corrupt
      /\ UNCHANGED <<files, state, baseline, codexHome>>
      /\ \E j : /\ Begin("manager", at, j)
                /\ j.home = codexHome /\ j.old = ImageOf(codexHome) /\ j.new = ImageOf(codexHome)
                /\ j.kind = "enable" /\ j.prev = None
  <2>1. PICK a \in Access, replace \in BOOLEAN :
          LET wanted == [a EXCEPT !.groups = MergedGroups(settings, @, replace)]
              image  == ImageOf(codexHome)
          IN /\ CanStart("manager")
             /\ state # Corrupt
             /\ Begin("manager", at,
                      [NoJob EXCEPT !.kind = "enable", !.home = codexHome,
                                    !.access = wanted, !.fresh = NewCycle(state),
                                    !.old = image, !.new = image])
             /\ UNCHANGED <<files, state, baseline, env>>
    BY DEF StartEnable
  <2> DEFINE wanted == [a EXCEPT !.groups = MergedGroups(settings, @, replace)]
             image == ImageOf(codexHome)
             j == [NoJob EXCEPT !.kind = "enable", !.home = codexHome,
                                !.access = wanted, !.fresh = NewCycle(state),
                                !.old = image, !.new = image]
  <2>2. Begin("manager", at, j)
    BY <2>1
  <2>3. /\ j.home = codexHome /\ j.old = image /\ j.new = image /\ j.kind = "enable"
        /\ j.prev = None
    <3> HIDE DEF wanted, image
    <3> QED BY DEF NoJob
  <2>4. UNCHANGED codexHome
    BY <2>1 DEF env
  <2> HIDE DEF at, j
  <2> QED BY <2>1, <2>2, <2>3, <2>4
<1>2. PICK j : /\ Begin("manager", at, j)
               /\ j.home = codexHome /\ j.old = ImageOf(codexHome) /\ j.new = ImageOf(codexHome)
               /\ j.kind = "enable" /\ j.prev = None
  BY <1>1
<1>3. "manager" \in Procs /\ \A q \in Procs : Idle(q)
  BY <1>1, StartIsAlone DEF Procs, Mild
<1>4. /\ pc' = [pc EXCEPT !["manager"] = at] /\ pc'["manager"] = at
      /\ job'["manager"] = j /\ ~torn'["manager"]
  BY <1>2, <1>3 DEF Begin, Ownership, Follows, Held, Calm, Kept, Typed, TypeOK
<1>5. Sane(ImageOf(codexHome))
  BY <1>3 DEF Ownership, Settled, Enabling, Idle
<1>6. at = "stage" => CleanImage(ImageOf(codexHome))
  <2>1. Covered(state, baseline) /\ ImageOf(codexHome).state = state
    BY DEF Ownership, Follows, Held, Kept, AllCovered, ImageOf
  <2>2. at = "stage" => ~state.active
    BY <1>1, <2>1, NullAssumption DEF Covered, Managed, NewCycle
  <2> QED BY <1>1, <1>5, <2>1, <2>2 DEF Sane, SaneUnder
<1>7. at \in {"stage", "load"} /\ state' # Corrupt
  BY <1>1
<1> HIDE DEF at
<1>8. Purposed("manager")'
  BY <1>2, <1>4, <1>5, <1>6, <1>7, NoImageSane
     DEF Purposed, Kinded, Copies, Based, Restores, MayStop, OneFault, Launching, Restoring
<1> QED BY <1>1, <1>2, <1>3, <1>4, <1>8, StartOwns

(* What a restore sets out to write is the user's. *)
LEMMA RestoredClean ==
  ASSUME Typed, NEW kind \in {"restore", "recover"}, NEW h \in Homes,
         RestoreAllowed(kind, h), kind = "recover" \/ RestoreState(kind).active,
         Owned(baseline), Sane(ImageOf(h))
  PROVE  CleanImage(RestoredImage(kind, h))
<1> DEFINE new == RestoredImage(kind, h)
<1>1. /\ new.config = (IF kind = "recover" THEN RecoveredConfig(config[h], baseline.config)
                       ELSE RestoredConfig(config[h], baseline.config))
      /\ new.auth = (CASE kind = "recover" -> RecoveredAuth(auth[h], baseline.auth)
                       [] kind = "restore" /\ RestoreState(kind).mode = "mixed" -> auth[h]
                       [] OTHER -> RestoredAuth(auth[h], baseline.auth))
      /\ new.settings = (IF kind = "recover"
                         THEN RecoveredSettings(settings, baseline.settings)
                         ELSE RestoredSettings(settings, baseline.settings))
      /\ new.catalog = baseline.catalog
  BY DEF RestoredImage
<1>2. baseline \in BaselineRecords
  BY DEF Typed, TypeOK, RestoreAllowed, HasBaseline, Baselines
<1>3. /\ baseline.config \in Configs /\ baseline.auth \in Auths
      /\ baseline.settings \in Settings
  BY <1>2 DEF BaselineRecords
<1>4. CleanImage(baseline)
  BY DEF RestoreAllowed, HasBaseline, Owned
<1>5. kind = "restore" => /\ BothParse(config[h], baseline.config)
                          /\ BothParse(settings, baseline.settings)
                          /\ state.mode # "mixed" => BothParse(auth[h], baseline.auth)
  BY DEF RestoreAllowed, RestoreState
<1>6. ~MirrorConfig(new.config)
  <2>1. BothParse(config[h], baseline.config)
          => ~MirrorConfig(RestoredConfig(config[h], baseline.config))
    BY <1>3, <1>4 DEF CleanImage, MirrorConfig, BothParse, RestoredConfig, Configs, ConfigRecords
  <2> HIDE DEF new
  <2> QED BY <1>1, <1>4, <1>5, <2>1 DEF RecoveredConfig, CleanImage
<1>7. ~MirrorSettings(new.settings)
  <2>1. BothParse(settings, baseline.settings)
          => ~MirrorSettings(RestoredSettings(settings, baseline.settings))
    BY <1>3, <1>4 DEF CleanImage, MirrorSettings, BothParse, RestoredSettings, Settings,
                      SettingsRecords
  <2> HIDE DEF new
  <2> QED BY <1>1, <1>4, <1>5, <2>1 DEF RecoveredSettings, CleanImage
<1>8. ~MirrorAuth(new.auth)
  <2>1. BothParse(auth[h], baseline.auth) => ~MirrorAuth(RestoredAuth(auth[h], baseline.auth))
    BY <1>3, <1>4 DEF CleanImage, MirrorAuth, BothParse, RestoredAuth, Auths, AuthRecords
  <2>2. kind = "restore" /\ state.mode = "mixed" => ~MirrorAuth(auth[h])
    BY DEF RestoreAllowed, RestoreState, Sane, SaneUnder, ImageOf
  <2> HIDE DEF new
  <2>3. CASE kind = "recover"
    BY <1>1, <1>4, <2>1, <2>3 DEF RecoveredAuth, CleanImage
  <2>4. CASE kind = "restore" /\ state.mode = "mixed"
    BY <1>1, <2>2, <2>4 DEF RestoreState
  <2>5. CASE kind = "restore" /\ state.mode # "mixed"
    BY <1>1, <1>5, <2>1, <2>5 DEF RestoreState
  <2> QED BY <2>3, <2>4, <2>5
<1>9. ~MirrorCatalog(new.catalog)
  BY <1>1, <1>4 DEF CleanImage
<1> HIDE DEF new
<1>10. CleanImage(new)
  BY <1>6, <1>7, <1>8, <1>9 DEF CleanImage
<1> QED BY <1>10 DEF new

LEMMA StartRestoreOwns ==
  ASSUME Mild, Ownership, Follows', NEW kind \in {"restore", "recover"}, StartRestore(kind)
  PROVE  Ownership'
<1> DEFINE h == codexHome
           touches == kind = "recover" \/ RestoreState(kind).active
           pending == [DefaultState EXCEPT !.sync = "pending_restore", !.home = h]
           new == IF touches THEN RestoredImage(kind, h) ELSE [ImageOf(h) EXCEPT !.state = pending]
           at == IF touches THEN "write" ELSE "commit"
           j == [NoJob EXCEPT !.kind = kind, !.home = h, !.old = ImageOf(h), !.new = new]
<1>1. /\ CanStart("manager") /\ RestoreAllowed(kind, h)
      /\ pc' = [pc EXCEPT !["manager"] = at]
      /\ job' = [job EXCEPT !["manager"] = j]
      /\ UNCHANGED <<files, state, torn, baseline, codexHome>>
  BY DEF StartRestore, env
<1>2. "manager" \in Procs /\ \A q \in Procs : Idle(q)
  BY <1>1, StartIsAlone DEF Procs, Mild
<1>3. Typed /\ h \in Homes /\ Owned(baseline) /\ Sane(ImageOf(h)) /\ ImageOf(h).state = state
  BY <1>2 DEF Ownership, Follows, Held, Kept, Typed, TypeOK, Settled, Enabling, Idle, ImageOf
<1>4. HasBaseline /\ baseline.home = h
  BY <1>1 DEF RestoreAllowed, Bound
<1>5. pending.home = h /\ ~pending.active /\ pending # Corrupt
  <2>1. pending \in StateRecords
    BY <1>3 DEF DefaultState, StateRecords, SyncStatuses
  <2>2. pending.home = h /\ ~pending.active
    BY DEF DefaultState
  <2> HIDE DEF pending
  <2> QED BY <2>1, <2>2, NullAssumption
<1>6. new.state = pending
  <2>1. RestoredImage(kind, h).state = pending
    BY DEF RestoredImage
  <2>2. [ImageOf(h) EXCEPT !.state = pending].state = pending
    <3> HIDE DEF pending
    <3> QED BY DEF ImageOf
  <2> QED BY <2>1, <2>2
<1>7. CleanImage(new)
  <2>1. touches => CleanImage(RestoredImage(kind, h))
    BY <1>1, <1>3, RestoredClean
  <2>2. ~touches => CleanImage([ImageOf(h) EXCEPT !.state = pending])
    <3> SUFFICES ASSUME ~touches PROVE CleanImage([ImageOf(h) EXCEPT !.state = pending])
      OBVIOUS
    <3>1. CleanImage(ImageOf(h))
      BY <1>1, <1>3 DEF RestoreAllowed, RestoreState, Sane, SaneUnder
    <3> HIDE DEF pending
    <3> QED BY <3>1 DEF CleanImage, ImageOf
  <2> QED BY <2>1, <2>2
<1>8. Sane(new) /\ SaneUnder(state, new)
  <2> HIDE DEF new, pending
  <2> QED BY <1>3, <1>5, <1>6, <1>7 DEF Sane, SaneUnder, CleanImage
<1>9. at \in {"write", "commit"}
  OBVIOUS
<1>10. j.home = h /\ j.old = ImageOf(h) /\ j.new = new /\ j.kind = kind /\ j.prev = None
  <2> HIDE DEF new
  <2> QED BY DEF NoJob
<1> HIDE DEF touches, new, at, j, pending
<1>11. /\ pc'["manager"] = at /\ job'["manager"] = j /\ ~torn'["manager"]
  BY <1>1, <1>2 DEF Ownership, Follows, Held, Calm, Kept, Typed, TypeOK
<1>12. Purposed("manager")'
  <2>1. HasBaseline' /\ baseline'.home = h /\ state' = state
    BY <1>1, <1>4 DEF HasBaseline
  <2> QED BY <1>3, <1>5, <1>6, <1>8, <1>9, <1>10, <1>11, <2>1, NoImageSane
          DEF Purposed, Kinded, Copies, Based, Restores, MayStop, OneFault, Launching, Restoring
<1> QED BY <1>1, <1>2, <1>10, <1>11, <1>12, StartOwns

(* What the world does to the files while no operation runs. *)
LEMMA QuietOwns ==
  ASSUME Ownership, Follows', Quiet, UNCHANGED <<pc, job, codexHome, catalog>>,
         \A h \in Homes : /\ MirrorConfig(config[h])' => MirrorConfig(config[h])
                          /\ MirrorAuth(auth[h])' => MirrorAuth(auth[h]),
         MirrorSettings(settings)' => MirrorSettings(settings),
         \/ UNCHANGED state \/ state' = Corrupt
         \/ state' = RestoreFailed(state) /\ UNCHANGED files,
         Owned(baseline')
  PROVE  Ownership'
<1>1. Typed /\ codexHome \in Homes /\ Sane(ImageOf(codexHome))
  BY DEF Ownership, Follows, Held, Kept, Typed, TypeOK, Settled, Quiet, Enabling, Idle
<1>2. AtHome'
  BY DEF Ownership, AtHome, MirrorIn, Idle, Quiet
<1>3. Sane(ImageOf(codexHome)')
  <2>1. CASE UNCHANGED state
    BY <1>1, <2>1 DEF Sane, SaneUnder, ImageOf, CleanImage
  <2>2. CASE state' = Corrupt
    BY <2>2 DEF Sane, SaneUnder, ImageOf
  <2>3. CASE state' = RestoreFailed(state) /\ UNCHANGED files
    <3>1. SaneUnder(state, ImageOf(codexHome))
      BY <1>1 DEF Sane, ImageOf
    <3>2. SaneUnder(state', ImageOf(codexHome))
      BY <1>1, <2>3, <3>1, SaneRecord
    <3>3. /\ ImageOf(codexHome)'.state = state'
          /\ ImageOf(codexHome)'.config = ImageOf(codexHome).config
          /\ ImageOf(codexHome)'.auth = ImageOf(codexHome).auth
          /\ ImageOf(codexHome)'.settings = ImageOf(codexHome).settings
          /\ ImageOf(codexHome)'.catalog = ImageOf(codexHome).catalog
      BY <2>3 DEF ImageOf, files
    <3> QED BY <3>2, <3>3, SaneMix DEF Sane
  <2> QED BY <2>1, <2>2, <2>3
<1> QED BY <1>2, <1>3 DEF Ownership, Settled, Quiet, Idle

LEMMA WorldOwns ==
  ASSUME Mild, Ownership, Follows', World \/ RefuseRestore \/ UNCHANGED vars,
         UNCHANGED codexHome
  PROVE  Ownership'
<1>1. Typed /\ Owned(baseline) /\ Owned(Corrupt)
  BY DEF Ownership, Follows, Held, Kept, Owned
<1>2. UNCHANGED <<pc, job, todo, torn, faults>>
  BY DEF World, UserEditsConfig, UserLogsIn, UserEditsSettings, FileBreaks, HomeMoves,
         CodexStarts, CodexExits, RefuseRestore, Elsewhere, vars, ops
<1>3. UNCHANGED catalog
  BY DEF World, UserEditsConfig, UserLogsIn, UserEditsSettings, FileBreaks, HomeMoves,
         CodexStarts, CodexExits, RefuseRestore, Elsewhere, vars, files
<1>4. /\ config \in [Homes -> Configs] /\ auth \in [Homes -> Auths]
      /\ settings \in Settings /\ UserValues \subseteq Own /\ Unset \in Own
  BY <1>1 DEF Typed, TypeOK, Own
<1>5. CASE UNCHANGED <<files, state, baseline>>
  <2>1. \A p \in Procs : ~Idle(p) => Purposed(p)'
    <3> SUFFICES ASSUME NEW p \in Procs, ~Idle(p) PROVE Purposed(p)'
      OBVIOUS
    <3>1. Purposed(p)
      BY DEF Ownership
    <3>2. Now(p)' = Now(p)
      BY <1>2, <1>5, NowStays
    <3> QED BY <1>2, <1>5, <3>1, <3>2
            DEF Purposed, Kinded, Copies, Based, Restores, MayStop, OneFault, Launching,
                Restoring, Written, HasBaseline
  <2>2. ImageOf(codexHome)' = ImageOf(codexHome)
    BY <1>5, CurrentStays
  <2> QED BY <1>2, <1>5, <2>1, <2>2
          DEF Ownership, AtHome, MirrorIn, Settled, Enabling, Idle, files
<1>6. ASSUME NEW h \in Homes, NEW v \in UserValues, UserEditsConfig(h, v) PROVE Ownership'
  <2>1. config[h] \in ConfigRecords
    BY <1>4, <1>6 DEF UserEditsConfig, Configs
  <2>2. \E c \in {[config[h] EXCEPT !.access = v, !.login = v], [config[h] EXCEPT !.other = v]} :
          config' = [config EXCEPT ![h] = c]
    BY <1>6 DEF UserEditsConfig
  <2>3. PICK c \in {[config[h] EXCEPT !.access = v, !.login = v], [config[h] EXCEPT !.other = v]} :
          config' = [config EXCEPT ![h] = c]
    BY <2>2
  <2>4. MirrorConfig(c) => MirrorConfig(config[h])
    <3>1. config[h] # Corrupt /\ v \notin Access /\ v # ApiLogin
      BY <1>4, <1>6, AuthorshipAssumption DEF UserEditsConfig
    <3>2. /\ c.access \in {v, config[h].access} /\ c.login \in {v, config[h].login}
      BY <2>1, <2>3 DEF ConfigRecords
    <3> QED BY <3>1, <3>2 DEF MirrorConfig
  <2>5. \A g \in Homes : MirrorConfig(config[g])' => MirrorConfig(config[g])
    BY <1>4, <2>3, <2>4
  <2>6. Quiet /\ UNCHANGED <<auth, settings, state, baseline>>
    BY <1>6 DEF UserEditsConfig, Outside, Mild, Elsewhere
  <2> QED BY <1>1, <1>2, <1>3, <2>5, <2>6, QuietOwns
<1>7. ASSUME NEW h \in Homes, NEW v \in UserValues, UserLogsIn(h, v) PROVE Ownership'
  <2>1. /\ Quiet /\ UNCHANGED <<config, settings, state, baseline>>
        /\ auth' = [auth EXCEPT ![h] = [key |-> Unset, login |-> v]]
    BY <1>7 DEF UserLogsIn, Outside, Mild, Elsewhere
  <2>2. ~MirrorAuth([key |-> Unset, login |-> v])
    BY <1>4, AuthorshipAssumption DEF MirrorAuth
  <2>3. \A g \in Homes : MirrorAuth(auth[g])' => MirrorAuth(auth[g])
    BY <1>4, <2>1, <2>2
  <2> QED BY <1>1, <1>2, <1>3, <2>1, <2>3, QuietOwns
<1>8. ASSUME NEW v \in UserValues, UserEditsSettings(v) PROVE Ownership'
  <2>1. /\ Quiet /\ UNCHANGED <<config, auth, state, baseline>> /\ settings # Corrupt
        /\ settings' = [settings EXCEPT !.other = v]
    BY <1>8 DEF UserEditsSettings, Outside, Mild, Elsewhere
  <2>2. settings \in SettingsRecords
    BY <1>4, <2>1 DEF Settings
  <2>3. settings'.access = settings.access
    BY <2>1, <2>2 DEF SettingsRecords
  <2>4. MirrorSettings(settings)' => MirrorSettings(settings)
    BY <2>1, <2>3 DEF MirrorSettings
  <2> QED BY <1>1, <1>2, <1>3, <2>1, <2>4, QuietOwns
<1>9. CASE FileBreaks
  <2>1. /\ Quiet /\ config' \in {config, [config EXCEPT ![codexHome] = Corrupt]}
        /\ auth' \in {auth, [auth EXCEPT ![codexHome] = Corrupt]}
        /\ settings' \in {settings, Corrupt} /\ state' \in {state, Corrupt}
        /\ baseline' \in {baseline, Corrupt}
    BY <1>9 DEF FileBreaks, Outside, Mild
  <2>2. \A g \in Homes : /\ MirrorConfig(config[g])' => MirrorConfig(config[g])
                         /\ MirrorAuth(auth[g])' => MirrorAuth(auth[g])
    BY <1>4, <2>1 DEF MirrorConfig, MirrorAuth
  <2>3. MirrorSettings(settings)' => MirrorSettings(settings)
    BY <2>1 DEF MirrorSettings
  <2> QED BY <1>1, <1>2, <1>3, <2>1, <2>2, <2>3, QuietOwns
<1>10. CASE RefuseRestore
  <2>1. Quiet /\ UNCHANGED <<files, baseline>> /\ state' = RestoreFailed(state)
    BY <1>10 DEF RefuseRestore, CanStart, Mild
  <2>2. UNCHANGED <<config, auth, settings>>
    BY <2>1 DEF files
  <2> QED BY <1>1, <1>2, <1>3, <2>1, <2>2, QuietOwns
<1>11. CASE (\E h \in Homes : HomeMoves(h)) \/ CodexStarts \/ CodexExits \/ UNCHANGED vars
  BY <1>5, <1>11 DEF HomeMoves, CodexStarts, CodexExits, vars
<1> QED BY <1>6, <1>7, <1>8, <1>9, <1>10, <1>11 DEF World

LEMMA OwnershipInit == Init => Ownership
<1> SUFFICES ASSUME Init PROVE Ownership
  OBVIOUS
<1>1. Follows
  BY FollowsInit
<1>2. \A p \in Procs : Idle(p) /\ ~Enabling(p)
  BY DEF Init, Idle, Enabling
<1>3. \A h \in Homes : ~MirrorIn(h) /\ ~MirrorConfig(config[h]) /\ ~MirrorAuth(auth[h])
                       /\ ~MirrorCatalog(catalog[h])
  <2> TAKE h \in Homes
  <2>1. PICK v \in Own : config[h] = [access |-> v, login |-> v, other |-> v]
    BY DEF Init
  <2>2. PICK w \in Own : auth[h] = [key |-> w, login |-> w]
    BY DEF Init
  <2>3. catalog[h] \in Own
    BY DEF Init, Own
  <2> QED BY <2>1, <2>2, <2>3, AuthorshipAssumption
          DEF MirrorIn, MirrorConfig, MirrorAuth, MirrorCatalog
<1>4. ~MirrorSettings(settings)
  <2>1. PICK v \in Own : settings = [access |-> v, other |-> v]
    BY DEF Init
  <2> QED BY <2>1, AuthorshipAssumption DEF MirrorSettings
<1>5. codexHome \in Homes /\ baseline = None
  BY DEF Init
<1>6. CleanImage(ImageOf(codexHome)) /\ ~DefaultState.active /\ ImageOf(codexHome).state = DefaultState
  BY <1>3, <1>4, <1>5 DEF CleanImage, ImageOf, DefaultState, Init
<1>7. Sane(ImageOf(codexHome))
  BY <1>6 DEF Sane, SaneUnder
<1> QED BY <1>1, <1>2, <1>3, <1>5, <1>7, NoImageSane DEF Ownership, AtHome, Settled

LEMMA OwnershipNext ==
  Mild /\ Ownership /\ [Next]_vars /\ codexHome' = codexHome => Ownership'
<1> SUFFICES ASSUME Mild, Ownership, [Next]_vars, UNCHANGED codexHome PROVE Ownership'
  OBVIOUS
<1>1. Follows'
  BY FollowsNext DEF Mild, Ownership
<1>2. CASE Start
  BY <1>1, <1>2, StartEnableOwns, StartRestoreOwns, StartsOwn, WorldOwns DEF Start
<1>3. CASE World \/ UNCHANGED vars
  BY <1>1, <1>3, WorldOwns
<1>4. ASSUME NEW p \in Procs, Step(p) PROVE Ownership'
  BY <1>1, <1>4, BaselineOwns, LoadEnableOwns, WriteNextOwns, VerifyOwns, CommitOwns,
     ConfirmOwns, UndoNextOwns, RewindNextOwns, RedoNextOwns, AftermathOwns,
     CheckProviderOwns, EndsOwn DEF Step
<1>5. ASSUME NEW p \in Procs, Crash(p) PROVE Ownership'
  BY <1>1, <1>5, EndsOwn
<1> QED BY <1>2, <1>3, <1>4, <1>5 DEF Next

LEMMA StayingOwns == Mild => (StayingSpec => []Ownership)
<1> SUFFICES ASSUME Mild PROVE StayingSpec => []Ownership
  OBVIOUS
<1>1. Ownership /\ [Next]_vars /\ [codexHome' = codexHome]_vars => Ownership'
  <2> SUFFICES ASSUME Ownership, [Next]_vars, [codexHome' = codexHome]_vars
               PROVE  Ownership'
    OBVIOUS
  <2>1. codexHome' = codexHome
    BY DEF vars
  <2> QED BY <2>1, OwnershipNext
<1> QED BY <1>1, OwnershipInit, PTL DEF StayingSpec, Spec

----
(* The baseline never holds Mirror's routing, key, settings or catalog, so *)
(* no restore can bring them back: refresh_baseline copies files only      *)
(* under a state whose files are clean.                                    *)
THEOREM BaselinesAreUserOwned == Mild => (StayingSpec => []BaselineIsUserOwned)
<1>1. Ownership => BaselineIsUserOwned
  BY DEF Ownership, Owned, CleanImage, BaselineIsUserOwned, HasBaseline
<1> QED BY <1>1, StayingOwns, PTL

(* A restore or a recovery that passed its read-back (the return of        *)
(* restore_access_transaction) has left nothing of Mirror's behind, while  *)
(* the image skill and the sessions are put back and until it ends.        *)
THEOREM RestoresAreComplete == Mild => (StayingSpec => []RestoreUndoesTakeover)
<1>1. Ownership => RestoreUndoesTakeover
  <2> SUFFICES ASSUME Ownership, NEW p \in Procs, Restoring(p), pc[p] \in {"image", "sync"}
               PROVE  ~MirrorIn(job[p].home) /\ ~MirrorSettings(settings)
    BY DEF RestoreUndoesTakeover
  <2>1. ~Idle(p) /\ ~Enabling(p)
    BY DEF Idle, Enabling, Restoring
  <2>2. Sane(Now(p)) /\ Purposed(p)
    BY <2>1, Mine
  <2>3. state # Corrupt /\ ~state.active /\ Now(p).state = state
    BY <2>2 DEF Purposed, Restores, Now, ImageOf
  <2>4. CleanImage(Now(p))
    BY <2>2, <2>3 DEF Sane, SaneUnder
  <2> QED BY <2>4 DEF CleanImage, Now, ImageOf, MirrorIn
<1> QED BY <1>1, StayingOwns, PTL

(* Where baseline_needs_refresh_for_new_cycle holds, and the next enable   *)
(* will copy the files as the user's, no file of any home holds anything   *)
(* of Mirror's.                                                            *)
THEOREM NewCyclesAreClean == Mild => (StayingSpec => []ClosedCycleIsClean)
<1>1. Ownership => ClosedCycleIsClean
  <2> SUFFICES ASSUME Ownership, Quiet, state # Corrupt, ~state.active
               PROVE  (\A h \in Homes : ~MirrorIn(h)) /\ ~MirrorSettings(settings)
    BY DEF ClosedCycleIsClean
  <2>1. Sane(ImageOf(codexHome)) /\ ImageOf(codexHome).state = state
    BY DEF Ownership, Settled, Quiet, Enabling, Idle, ImageOf
  <2>2. CleanImage(ImageOf(codexHome))
    BY <2>1 DEF Sane, SaneUnder
  <2>3. ~MirrorIn(codexHome) /\ ~MirrorSettings(settings)
    BY <2>2 DEF CleanImage, ImageOf, MirrorIn
  <2> QED BY <2>3 DEF Ownership, AtHome
<1> QED BY <1>1, StayingOwns, PTL
=============================================================================

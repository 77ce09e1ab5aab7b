----------------------------- MODULE MirrorAccess -----------------------------
(***************************************************************************)
(* Applying and undoing the Mirror access: enable, restore, recover, the   *)
(* session repair and the launcher's provider repair, one file write per   *)
(* step, over the files of one or several CODEX_HOMEs, the Manager's       *)
(* settings, the durable managed state and the baseline directory.         *)
(*                                                                         *)
(* Two processes run these operations: the Manager, whose commands take    *)
(* mirror_access_mutex, and the launcher, which takes no lock the Manager  *)
(* knows of.  Between two steps a write may fail, the process may die, and *)
(* Codex may be started by hand.                                           *)
(***************************************************************************)
EXTENDS AccessFiles, Sequences

CONSTANTS
  Homes,       \* the directories CODEX_HOME may name
  None,        \* no baseline directory
  Overlap,     \* may the launcher and the user act while a command runs?
  Exposed,     \* the kinds of operation a crash may hit
  MaxFaults,   \* bound: failed writes in one operation
  MaxCrashes,  \* bound: processes killed in a behaviour
  MaxEdits,    \* bound: edits by the user or Codex in a behaviour
  MaxDamage    \* bound: files that stop parsing in a behaviour

----
SyncStatuses == {"not_run", "pending", "synced", "degraded",
                 "pending_restore", "restore_failed"}

(* managed-access.json: the mode, models, session repair and home of the   *)
(* access in force.                                                        *)
StateRecords ==
  [active : BOOLEAN, mode : Modes \cup {Unset}, count : Nat,
   default : Groups \cup {Unset}, sync : SyncStatuses, home : Homes \cup {Unset}]

(* baseline-v1/: the manifest's home and the four files it copied. *)
BaselineRecords ==
  [home : Homes, config : Configs, auth : Auths, settings : Settings,
   catalog : Catalogs]

ManagedStates == StateRecords \cup {Corrupt}
Baselines     == BaselineRecords \cup {None, Corrupt}

ASSUME BoundsAssumption ==
  /\ Overlap \in BOOLEAN
  /\ MaxFaults \in Nat /\ MaxCrashes \in Nat
  /\ MaxEdits \in Nat /\ MaxDamage \in Nat

ASSUME GroupsAssumption == IsFiniteSet(Groups)

(* The values that stand for nothing are no home and no record. *)
ASSUME NullAssumption ==
  /\ None # Corrupt /\ Unset \notin Homes
  /\ \A nothing \in {None, Corrupt} :
       nothing \notin StateRecords \cup BaselineRecords

VARIABLES
  codexHome,   \* the home the environment names
  config, auth, catalog,   \* the three files of each home
  settings,    \* the Manager's settings.json
  state,       \* managed-access.json
  baseline,    \* baseline-v1/
  running,     \* a Codex process exists
  pc, todo, job, faults, torn,  \* the operation each process is in
  edits, crashes, damage        \* what the bounds have left

files == <<config, auth, catalog, settings>>
ops   == <<pc, todo, job, faults, torn>>
bounds == <<edits, crashes, damage>>
vars  == <<codexHome, files, state, baseline, running, ops, bounds>>

----
Procs == {"manager", "launcher"}

Kinds == {"none", "enable", "restore", "recover", "repair", "launch1", "launch2"}

PCs == {"idle", "stage", "publish", "load", "write", "verify", "commit",
        "confirm", "undo", "undone", "market", "image", "rewind", "redo",
        "sync", "check", "spawn"}

FileIds == {"config", "auth", "settings", "catalog", "state"}

(* Mutant: the rollback forgets the model catalog. *)
AllFilesButCatalog == <<"config", "auth", "settings", "state">>

(* The order of the rollback array and of the snapshot's manifest. *)
AllFiles == <<"config", "auth", "settings", "catalog", "state">>

(* A missing managed-access.json reads as the default state. *)
DefaultState ==
  [active |-> FALSE, mode |-> Unset, count |-> 0, default |-> Unset,
   sync |-> "not_run", home |-> Unset]

Images == [config : Configs, auth : Auths, settings : Settings,
           catalog : Catalogs, state : ManagedStates]

(* The five files an operation reads, keeps for its rollback and writes. *)
ImageOf(h) == [config |-> config[h], auth |-> auth[h], settings |-> settings,
               catalog |-> catalog[h], state |-> state]

NoImage == [config |-> Corrupt, auth |-> Corrupt, settings |-> Corrupt,
            catalog |-> Unset, state |-> DefaultState]

NoJob == [kind |-> "none", home |-> None, access |-> None, fresh |-> FALSE,
          old |-> NoImage, new |-> NoImage, prev |-> None]

Jobs == [kind : Kinds, home : Homes \cup {None}, access : Access \cup {None},
         fresh : BOOLEAN, old : Images, new : Images, prev : Baselines]

BaselineOf(h, image) ==
  [home |-> h, config |-> image.config, auth |-> image.auth,
   settings |-> image.settings, catalog |-> image.catalog]

----
(* What the code reads off the durable state. *)

(* Mutants: a new cycle whenever the sessions are, or the access is, done. *)
NewCycleWhenSynced(s)   == s.sync \in {"not_run", "synced"}
NewCycleWhenInactive(s) == ~s.active

(* baseline_needs_refresh_for_new_cycle *)
NewCycle(s) == ~s.active /\ s.sync \in {"not_run", "synced"}

(* state_requires_home_binding *)
RequiresBinding(s) == s.active \/ s.sync \notin {"not_run", "synced"}

StateBound(h, s) == s.home \in {Unset, h}

(* Mutant: only the state's home is compared with the current one. *)
BoundByState(h, s, b, required) == required => StateBound(h, s)

(* validate_access_home_binding *)
Bound(h, s, b, required) ==
  /\ required => StateBound(h, s) /\ b.home = h
  /\ s.home # Unset => s.home = b.home

HasBaseline == baseline \notin {None, Corrupt}

(* try_access_status returns Ok *)
StatusReadable(h) ==
  /\ state # Corrupt
  /\ baseline # Corrupt
  /\ IF baseline # None
     THEN Bound(h, state, baseline, RequiresBinding(state))
     ELSE (RequiresBinding(state) => StateBound(h, state)) /\ ~state.active

(* record_session_sync: where it can be recorded, and what it writes. *)
Recordable(h) ==
  /\ state # Corrupt
  /\ baseline # Corrupt
  /\ IF baseline # None THEN Bound(h, state, baseline, TRUE) ELSE StateBound(h, state)

Recorded(h, synced) ==
  [state EXCEPT
     !.home = h,
     !.sync = CASE synced -> "synced"
                [] ~synced /\ ~state.active
                   /\ state.sync \in {"pending_restore", "restore_failed"} -> "restore_failed"
                [] OTHER -> "degraded"]

(* record_restore_failure *)
RestoreFailed(s) == IF s = Corrupt THEN s ELSE [s EXCEPT !.sync = "restore_failed"]

----
(* The operations' bookkeeping. *)

Idle(p) == pc[p] = "idle"
Quiet   == \A p \in Procs : Idle(p)

(* The mutex serialises the Manager's commands; both programs refuse to    *)
(* begin while a Codex process exists.                                     *)
CanStart(p) == Idle(p) /\ ~running /\ (Quiet \/ Overlap)

Begin(p, at, j) ==
  /\ pc' = [pc EXCEPT ![p] = at]
  /\ job' = [job EXCEPT ![p] = j]
  /\ UNCHANGED <<todo, faults, torn>>

Goto(p, at, files_left) ==
  /\ pc' = [pc EXCEPT ![p] = at]
  /\ todo' = [todo EXCEPT ![p] = files_left]
  /\ UNCHANGED <<job, faults, torn>>

Finish(p) ==
  /\ pc' = [pc EXCEPT ![p] = "idle"]
  /\ todo' = [todo EXCEPT ![p] = <<>>]
  /\ job' = [job EXCEPT ![p] = NoJob]
  /\ faults' = [faults EXCEPT ![p] = 0]
  /\ torn' = [torn EXCEPT ![p] = FALSE]

Fault(p) == faults[p] < MaxFaults /\ faults' = [faults EXCEPT ![p] = @ + 1]

(* atomic_write or remove_file of one of the five files. *)
Put(f, h, image) ==
  /\ config'   = IF f = "config" THEN [config EXCEPT ![h] = image.config] ELSE config
  /\ auth'     = IF f = "auth" THEN [auth EXCEPT ![h] = image.auth] ELSE auth
  /\ catalog'  = IF f = "catalog" THEN [catalog EXCEPT ![h] = image.catalog] ELSE catalog
  /\ settings' = IF f = "settings" THEN image.settings ELSE settings
  /\ state'    = IF f = "state" THEN image.state ELSE state

env == <<codexHome, running, bounds>>

----
Init ==
  /\ codexHome \in Homes
  /\ config \in [Homes -> {[access |-> v, login |-> v, other |-> v] : v \in Own}]
  /\ auth \in [Homes -> {[key |-> v, login |-> v] : v \in Own}]
  /\ catalog = [h \in Homes |-> Unset]
  /\ settings \in {[access |-> v, other |-> v] : v \in Own}
  /\ state = DefaultState
  /\ baseline = None
  /\ running = FALSE
  /\ pc = [p \in Procs |-> "idle"]
  /\ todo = [p \in Procs |-> <<>>]
  /\ job = [p \in Procs |-> NoJob]
  /\ faults = [p \in Procs |-> 0]
  /\ torn = [p \in Procs |-> FALSE]
  /\ edits = 0 /\ crashes = 0 /\ damage = 0

----
(* Enabling. *)

(* enable_grouped_access_transaction up to the choice of the baseline: the *)
(* state and the settings must parse, and an existing baseline must        *)
(* validate; the staging directory is filled from the files as they are.   *)
StartEnable ==
  \E a \in Access, replace \in BOOLEAN :
    LET wanted == [a EXCEPT !.groups = MergedGroups(settings, @, replace)]
        image  == ImageOf(codexHome)
    IN /\ CanStart("manager")
       /\ state # Corrupt /\ settings # Corrupt /\ baseline # Corrupt
       /\ Begin("manager",
                IF NewCycle(state) \/ baseline = None THEN "stage" ELSE "load",
                [NoJob EXCEPT !.kind = "enable", !.home = codexHome,
                              !.access = wanted, !.fresh = NewCycle(state),
                              !.old = image, !.new = image])
       /\ UNCHANGED <<files, state, baseline, env>>

(* refresh_baseline moves the previous cycle's baseline out of the way ... *)
RetireBaseline(p) ==
  /\ pc[p] = "stage" /\ baseline # None
  /\ \/ /\ baseline' = None
        /\ pc' = [pc EXCEPT ![p] = "publish"]
        /\ job' = [job EXCEPT ![p].prev = baseline]
        /\ UNCHANGED <<todo, faults, torn>>
     \/ /\ faults[p] < MaxFaults
        /\ Finish(p)
        /\ UNCHANGED baseline
  /\ UNCHANGED <<files, state, env>>

(* ... and the staged one into place, or the previous one back, which may  *)
(* fail in turn.                                                           *)
PublishBaseline(p) ==
  /\ pc[p] = "publish" \/ (pc[p] = "stage" /\ baseline = None)
  /\ \/ /\ baseline' = BaselineOf(job[p].home, job[p].new)
        /\ Goto(p, "load", <<>>)
     \/ /\ faults[p] < MaxFaults
        /\ baseline' \in {job[p].prev, None}
        /\ Finish(p)
  /\ UNCHANGED <<files, state, env>>

(* The binding check, the operation snapshot, the files read for the       *)
(* rollback and the contents to write.  A failure here writes nothing.     *)
EnabledImage(p, base) ==
  LET h == job[p].home
      a == job[p].access
      s == job[p].old.state
      fromPure == s.active /\ s.mode = "pure"
  IN [config   |-> BuildManagedConfig(ConfigSeed(config[h], base.config, a.mode), a),
      auth     |-> ManagedAuth(auth[h], base.auth, a, fromPure),
      settings |-> ManagedSettings(settings, a),
      catalog  |-> CatalogOf(a.groups),
      state    |-> [active |-> TRUE, mode |-> a.mode, count |-> Cardinality(a.groups),
                    default |-> a.default, sync |-> "pending", home |-> h]]

LoadEnable(p) ==
  LET h == job[p].home
      s == IF job[p].fresh THEN DefaultState ELSE job[p].old.state
  IN /\ pc[p] = "load"
     /\ IF /\ HasBaseline /\ Bound(h, s, baseline, TRUE)
           /\ settings # Corrupt
           /\ SeedParses(config[h], baseline.config, job[p].access.mode)
        THEN /\ pc' = [pc EXCEPT ![p] = "write"]
             /\ todo' = [todo EXCEPT ![p] = <<"catalog", "auth", "config", "settings">>]
             /\ job' = [job EXCEPT ![p].old = [ImageOf(h) EXCEPT !.state = job[p].old.state],
                                   ![p].new = EnabledImage(p, baseline)]
             /\ UNCHANGED <<faults, torn>>
        ELSE Finish(p)
     /\ UNCHANGED <<files, state, baseline, env>>

----
(* The write loop every operation shares. *)

Launching(p) == job[p].kind \in {"launch1", "launch2"}
Restoring(p) == job[p].kind \in {"restore", "recover"}

(* The launcher's repair rolls back through its snapshot, the others from  *)
(* the contents they hold.                                                 *)
Rollback(p) == IF Launching(p) THEN "rewind" ELSE "undo"

(* Leaving for the snapshot, restore_operation_snapshot first reads what   *)
(* it is about to overwrite.                                               *)
BeginRollback(p) ==
  /\ pc' = [pc EXCEPT ![p] = Rollback(p)]
  /\ todo' = [todo EXCEPT ![p] = AllFiles]
  /\ job' = IF Launching(p) THEN [job EXCEPT ![p].new = ImageOf(job[p].home)] ELSE job
  /\ UNCHANGED torn

WriteNext(p) ==
  /\ pc[p] = "write" /\ todo[p] # <<>>
  /\ \/ /\ Put(Head(todo[p]), job[p].home, job[p].new)
        /\ Goto(p, IF Tail(todo[p]) = <<>> THEN "verify" ELSE "write", Tail(todo[p]))
     \/ /\ Fault(p)
        /\ BeginRollback(p)
        /\ UNCHANGED <<files, state>>
  /\ UNCHANGED <<baseline, env>>

(* verify_managed_config, verify_managed_settings and                      *)
(* verify_optional_file_contents read the files back.                      *)
VerifiedFiles(p) ==
  CASE Launching(p) -> {"config", "auth", "catalog"}
    [] Restoring(p) -> {"config", "auth", "settings"}
    [] OTHER        -> {"config", "auth", "catalog", "settings"}

Verify(p) ==
  /\ pc[p] = "verify"
  /\ IF \A f \in VerifiedFiles(p) : ImageOf(job[p].home)[f] = job[p].new[f]
     THEN IF Launching(p)
          THEN /\ pc' = [pc EXCEPT ![p] = IF job[p].kind = "launch1" THEN "check" ELSE "spawn"]
               /\ job' = [job EXCEPT ![p] = [NoJob EXCEPT !.kind = "launch2", !.home = job[p].home]]
               /\ UNCHANGED <<todo, faults, torn>>
          ELSE Goto(p, "commit", <<>>)
     ELSE BeginRollback(p) /\ UNCHANGED faults
  /\ UNCHANGED <<files, state, baseline, env>>

(* save_managed_state *)
Commit(p) ==
  /\ pc[p] = "commit"
  /\ \/ /\ state' = job[p].new.state
        /\ Goto(p, "confirm", <<>>)
     \/ /\ Fault(p)
        /\ BeginRollback(p)
        /\ UNCHANGED state
  /\ UNCHANGED <<files, baseline, env>>

(* The saved state is read back and try_access_status must succeed. *)
Confirm(p) ==
  /\ pc[p] = "confirm"
  /\ IF state = job[p].new.state /\ StatusReadable(job[p].home)
     THEN Goto(p, IF Restoring(p) THEN "image" ELSE "market", <<>>)
     ELSE BeginRollback(p) /\ UNCHANGED faults
  /\ UNCHANGED <<files, state, baseline, env>>

----
(* Rolling back. *)

(* The rollback array: all five are tried, a failure is only remembered. *)
UndoNext(p) ==
  /\ pc[p] = "undo" /\ todo[p] # <<>>
  /\ pc' = [pc EXCEPT ![p] = IF Tail(todo[p]) = <<>> THEN "undone" ELSE "undo"]
  /\ todo' = [todo EXCEPT ![p] = Tail(@)]
  /\ \/ /\ Put(Head(todo[p]), job[p].home, job[p].old)
        /\ UNCHANGED <<faults, torn>>
     \/ /\ Fault(p)
        /\ torn' = [torn EXCEPT ![p] = TRUE]
        /\ UNCHANGED <<files, state>>
  /\ UNCHANGED <<job, baseline, env>>

(* restore_operation_snapshot: the files are written back and compared; the *)
(* first failure turns it round.                                           *)
TurnRound(p) ==
  /\ pc' = [pc EXCEPT ![p] = "redo"]
  /\ todo' = [todo EXCEPT ![p] = AllFiles]
  /\ torn' = [torn EXCEPT ![p] = TRUE]
  /\ UNCHANGED <<job, files, state>>

RewindNext(p) ==
  /\ pc[p] = "rewind"
  /\ \/ /\ todo[p] # <<>>
        /\ Put(Head(todo[p]), job[p].home, job[p].old)
        /\ Goto(p, "rewind", Tail(todo[p]))
     \/ /\ todo[p] # <<>>
        /\ Fault(p)
        /\ TurnRound(p)
     \/ /\ todo[p] = <<>>
        /\ IF ImageOf(job[p].home) = job[p].old
           THEN Goto(p, "undone", <<>>) /\ UNCHANGED <<files, state>>
           ELSE TurnRound(p) /\ UNCHANGED faults
  /\ UNCHANGED <<baseline, env>>

RedoNext(p) ==
  /\ pc[p] = "redo" /\ todo[p] # <<>>
  /\ pc' = [pc EXCEPT ![p] = IF Tail(todo[p]) = <<>> THEN "undone" ELSE "redo"]
  /\ todo' = [todo EXCEPT ![p] = Tail(@)]
  /\ \/ /\ Put(Head(todo[p]), job[p].home, job[p].new)
        /\ UNCHANGED faults
     \/ /\ Fault(p)
        /\ UNCHANGED <<files, state>>
  /\ UNCHANGED <<job, torn, baseline, env>>

(* The error is returned; restore_access also records it in the state. *)
Report(p) ==
  /\ pc[p] = "undone"
  /\ \/ state' = IF job[p].kind = "restore" THEN RestoreFailed(state) ELSE state
     \/ faults[p] < MaxFaults /\ UNCHANGED state
  /\ Finish(p)
  /\ UNCHANGED <<files, baseline, env>>

----
(* After the commit: plugin marketplace, image skill and session repair. *)

(* enable_mirror_access looks for a Codex process before each of them and  *)
(* stops there, leaving the access applied.                                *)
Pause(p) ==
  /\ job[p].kind = "enable" /\ running
  /\ pc[p] \in {"market", "image", "sync"}
  /\ Finish(p)
  /\ UNCHANGED <<files, state, baseline, env>>

(* MirrorEnableTransaction::rollback *)
Abandon(p) ==
  /\ pc' = [pc EXCEPT ![p] = "rewind"]
  /\ todo' = [todo EXCEPT ![p] = AllFiles]
  /\ job' = [job EXCEPT ![p].new = ImageOf(job[p].home)]
  /\ UNCHANGED <<faults, torn>>

(* The marketplace tables live in config.toml's other keys, which nothing  *)
(* here reads: only the outcome matters.                                   *)
Marketplace(p) ==
  /\ pc[p] = "market" /\ ~running
  /\ Goto(p, "image", <<>>) \/ Abandon(p)
  /\ UNCHANGED <<files, state, baseline, env>>

(* The image skill is enabled (an error abandons the access) or, after a   *)
(* restore, put back (an error is recorded and ends the command).          *)
ImageSkill(p) ==
  /\ pc[p] = "image"
  /\ job[p].kind = "enable" => ~running
  /\ \/ Goto(p, "sync", <<>>) /\ UNCHANGED state
     \/ /\ job[p].kind = "enable"
        /\ Abandon(p)
        /\ UNCHANGED state
     \/ /\ Restoring(p)
        /\ state' = IF Recordable(job[p].home) THEN Recorded(job[p].home, FALSE) ELSE state
        /\ Finish(p)
  /\ UNCHANGED <<files, baseline, env>>

(* run_provider_sync_with_target, then record_session_sync. *)
SyncSessions(p) ==
  /\ pc[p] = "sync"
  /\ job[p].kind = "enable" => ~running
  /\ \/ \E synced \in BOOLEAN :
          state' = IF Recordable(job[p].home) THEN Recorded(job[p].home, synced) ELSE state
     \/ faults[p] < MaxFaults /\ UNCHANGED state
  /\ Finish(p)
  /\ UNCHANGED <<files, baseline, env>>

(* repair_mirror_sessions *)
StartRepair ==
  /\ CanStart("manager")
  /\ StatusReadable(codexHome)
  /\ Begin("manager", "sync", [NoJob EXCEPT !.kind = "repair", !.home = codexHome])
  /\ UNCHANGED <<files, state, baseline, env>>

----
(* Restoring (policy ManagedState) and recovering (VerifiedBaseline). *)

RestoreState(kind) == IF kind = "recover" THEN DefaultState ELSE state

(* What restore_access_transaction requires before it writes. *)
RestoreAllowed(kind, h) ==
  LET s == RestoreState(kind)
      touches == kind = "recover" \/ s.active
  IN /\ s # Corrupt
     /\ HasBaseline
     /\ Bound(h, s, baseline, TRUE)
     /\ kind = "restore" /\ touches =>
          /\ BothParse(config[h], baseline.config)
          /\ s.mode # "mixed" => BothParse(auth[h], baseline.auth)
          /\ BothParse(settings, baseline.settings)

RestoredImage(kind, h) ==
  LET s == RestoreState(kind)
  IN [config   |-> IF kind = "recover" THEN RecoveredConfig(config[h], baseline.config)
                   ELSE RestoredConfig(config[h], baseline.config),
      auth     |-> CASE kind = "recover" -> RecoveredAuth(auth[h], baseline.auth)
                     [] kind = "restore" /\ s.mode = "mixed" -> auth[h]
                     [] OTHER -> RestoredAuth(auth[h], baseline.auth),
      settings |-> IF kind = "recover" THEN RecoveredSettings(settings, baseline.settings)
                   ELSE RestoredSettings(settings, baseline.settings),
      catalog  |-> baseline.catalog,
      state    |-> [DefaultState EXCEPT !.sync = "pending_restore", !.home = h]]

(* A restore of a state that is not active only rewrites the state. *)
StartRestore(kind) ==
  LET h == codexHome
      s == RestoreState(kind)
      touches == kind = "recover" \/ s.active
  IN /\ CanStart("manager")
     /\ RestoreAllowed(kind, h)
     /\ pc' = [pc EXCEPT !["manager"] = IF touches THEN "write" ELSE "commit"]
     /\ todo' = [todo EXCEPT !["manager"] =
                   IF touches THEN <<"config", "auth", "settings", "catalog">> ELSE <<>>]
     /\ job' = [job EXCEPT !["manager"] =
                  [NoJob EXCEPT !.kind = kind, !.home = h, !.old = ImageOf(h),
                     !.new = IF touches THEN RestoredImage(kind, h)
                             ELSE [ImageOf(h) EXCEPT !.state =
                                     [DefaultState EXCEPT !.sync = "pending_restore", !.home = h]]]]
     /\ UNCHANGED <<files, state, baseline, faults, torn, env>>

(* restore_access refused before any write (no baseline, another home, a   *)
(* file that does not parse, a full disk): the refusal is recorded.        *)
RefuseRestore ==
  /\ CanStart("manager")
  /\ ~RestoreAllowed("restore", codexHome) \/ MaxFaults > 0
  /\ state' = RestoreFailed(state)
  /\ UNCHANGED <<files, baseline, ops, env>>

----
(* The launcher. *)

StartLaunch ==
  /\ CanStart("launcher")
  /\ Begin("launcher", "check", [NoJob EXCEPT !.kind = "launch1", !.home = codexHome])
  /\ UNCHANGED <<files, state, baseline, env>>

(* ensure_managed_provider_ready runs only for a state, settings and a     *)
(* baseline that agree; nothing compares the home with the state's.        *)
RepairAllowed(h) ==
  /\ state.mode # Unset
  /\ settings # Corrupt /\ settings.access \in Access
  /\ HasBaseline
  /\ state.count = Cardinality(settings.access.groups)
  /\ state.default \in settings.access.groups
  /\ SeedParses(config[h], baseline.config, state.mode)

RepairAccess ==
  [mode |-> state.mode, groups |-> settings.access.groups, default |-> state.default]

RepairedImage(h) ==
  [ImageOf(h) EXCEPT
     !.config  = BuildManagedConfig(ConfigSeed(config[h], baseline.config, state.mode), RepairAccess),
     !.auth    = ManagedAuth(auth[h], baseline.auth, RepairAccess, FALSE),
     !.catalog = CatalogOf(RepairAccess.groups)]

(* Only the files that differ are written, the config last. *)
Differing(h, image) ==
  LET IfDiffers(f) == IF ImageOf(h)[f] # image[f] THEN <<f>> ELSE <<>>
  IN IfDiffers("catalog") \o IfDiffers("auth") \o IfDiffers("config")

(* A healthy or unmanaged configuration is not written. *)
CheckProvider(p) ==
  LET h == job[p].home
      image == RepairedImage(h)
      next == IF job[p].kind = "launch1" THEN "check" ELSE "spawn"
  IN /\ pc[p] = "check"
     /\ CASE state # Corrupt /\ ~state.active ->
              /\ pc' = [pc EXCEPT ![p] = next]
              /\ job' = [job EXCEPT ![p].kind = "launch2"]
              /\ UNCHANGED <<todo, faults, torn>>
          [] state # Corrupt /\ state.active /\ RepairAllowed(h) ->
              IF Differing(h, image) = <<>>
              THEN /\ pc' = [pc EXCEPT ![p] = next]
                   /\ job' = [job EXCEPT ![p].kind = "launch2"]
                   /\ UNCHANGED <<todo, faults, torn>>
              ELSE /\ pc' = [pc EXCEPT ![p] = "write"]
                   /\ todo' = [todo EXCEPT ![p] = Differing(h, image)]
                   /\ job' = [job EXCEPT ![p].old = ImageOf(h), ![p].new = image]
                   /\ UNCHANGED <<faults, torn>>
          [] OTHER -> Finish(p)
     /\ UNCHANGED <<files, state, baseline, env>>

Spawn(p) ==
  /\ pc[p] = "spawn"
  /\ running' = TRUE
  /\ Finish(p)
  /\ UNCHANGED <<codexHome, files, state, baseline, bounds>>

----
(* The world outside. *)

Outside == Quiet \/ Overlap

Edit == edits < MaxEdits /\ edits' = edits + 1 /\ UNCHANGED <<crashes, damage>>

Elsewhere == <<codexHome, state, baseline, running, ops>>

(* The user edits config.toml by hand: the managed or the other keys. *)
UserEditsConfig(h, v) ==
  /\ Outside /\ Edit /\ config[h] # Corrupt
  /\ \/ config' = [config EXCEPT ![h].access = v, ![h].login = v]
     \/ config' = [config EXCEPT ![h].other = v]
  /\ UNCHANGED <<auth, catalog, settings, Elsewhere>>

(* A ChatGPT login through Codex, where the config does not force the API. *)
UserLogsIn(h, v) ==
  /\ Outside /\ Edit /\ config[h] # Corrupt /\ config[h].login # ApiLogin
  /\ auth' = [auth EXCEPT ![h] = [key |-> Unset, login |-> v]]
  /\ UNCHANGED <<config, catalog, settings, Elsewhere>>

UserEditsSettings(v) ==
  /\ Outside /\ Edit /\ settings # Corrupt
  /\ settings' = [settings EXCEPT !.other = v]
  /\ UNCHANGED <<config, auth, catalog, Elsewhere>>

(* A file stops parsing: a bad edit, another tool, a bad disk. *)
FileBreaks ==
  /\ Outside /\ damage < MaxDamage /\ damage' = damage + 1
  /\ \/ config' = [config EXCEPT ![codexHome] = Corrupt] /\ UNCHANGED <<auth, settings, state, baseline>>
     \/ auth' = [auth EXCEPT ![codexHome] = Corrupt] /\ UNCHANGED <<config, settings, state, baseline>>
     \/ settings' = Corrupt /\ UNCHANGED <<config, auth, state, baseline>>
     \/ state' = Corrupt /\ UNCHANGED <<config, auth, settings, baseline>>
     \/ HasBaseline /\ baseline' = Corrupt /\ UNCHANGED <<config, auth, settings, state>>
  /\ UNCHANGED <<codexHome, catalog, running, ops, edits, crashes>>

HomeMoves(h) ==
  /\ Quiet
  /\ codexHome' = h
  /\ UNCHANGED <<files, state, baseline, running, ops, bounds>>

CodexStarts ==
  /\ ~running /\ running' = TRUE
  /\ UNCHANGED <<codexHome, files, state, baseline, ops, bounds>>

CodexExits ==
  /\ running /\ running' = FALSE
  /\ UNCHANGED <<codexHome, files, state, baseline, ops, bounds>>

(* The process dies; what it wrote stays. *)
Crash(p) ==
  /\ ~Idle(p) /\ job[p].kind \in Exposed /\ crashes < MaxCrashes
  /\ crashes' = crashes + 1
  /\ Finish(p)
  /\ UNCHANGED <<codexHome, files, state, baseline, running, edits, damage>>

----
Start == StartEnable \/ (\E k \in {"restore", "recover"} : StartRestore(k))
           \/ RefuseRestore \/ StartRepair \/ StartLaunch

Step(p) ==
  \/ RetireBaseline(p) \/ PublishBaseline(p) \/ LoadEnable(p)
  \/ WriteNext(p) \/ Verify(p) \/ Commit(p) \/ Confirm(p)
  \/ UndoNext(p) \/ RewindNext(p) \/ RedoNext(p) \/ Report(p)
  \/ Pause(p) \/ Marketplace(p) \/ ImageSkill(p) \/ SyncSessions(p)
  \/ CheckProvider(p) \/ Spawn(p)

World ==
  \/ \E h \in Homes, v \in UserValues : UserEditsConfig(h, v) \/ UserLogsIn(h, v)
  \/ \E v \in UserValues : UserEditsSettings(v)
  \/ FileBreaks
  \/ \E h \in Homes : HomeMoves(h)
  \/ CodexStarts \/ CodexExits

Next == Start \/ World \/ \E p \in Procs : Step(p) \/ Crash(p)

Spec == Init /\ [][Next]_vars

----
(* Properties. *)

(* Every variable has its type. *)
TypeOK ==
  /\ codexHome \in Homes
  /\ config \in [Homes -> Configs] /\ auth \in [Homes -> Auths]
  /\ catalog \in [Homes -> Catalogs] /\ settings \in Settings
  /\ state \in ManagedStates /\ baseline \in Baselines
  /\ running \in BOOLEAN
  /\ pc \in [Procs -> PCs] /\ job \in [Procs -> Jobs]
  /\ todo \in [Procs -> Seq(FileIds)]
  /\ faults \in [Procs -> 0..MaxFaults] /\ torn \in [Procs -> BOOLEAN]
  /\ edits \in 0..MaxEdits /\ crashes \in 0..MaxCrashes /\ damage \in 0..MaxDamage

MirrorIn(h) == MirrorConfig(config[h]) \/ MirrorAuth(auth[h]) \/ MirrorCatalog(catalog[h])

(* The baseline only ever holds what the user had: refresh_baseline never  *)
(* copies a file that still carries Mirror's routing, key or catalog, so a *)
(* later restore cannot bring Mirror back.                                 *)
BaselineIsUserOwned ==
  HasBaseline =>
    /\ ~MirrorConfig(baseline.config) /\ ~MirrorAuth(baseline.auth)
    /\ ~MirrorSettings(baseline.settings) /\ ~MirrorCatalog(baseline.catalog)

(* Whenever a restore or a recovery has passed its final status read-back  *)
(* (restore_access_transaction returned Ok), nothing Mirror wrote is left  *)
(* in the config, the login, the catalog or the Manager settings.          *)
RestoreUndoesTakeover ==
  \A p \in Procs :
    Restoring(p) /\ pc[p] \in {"image", "sync"} =>
      ~MirrorIn(job[p].home) /\ ~MirrorSettings(settings)

(* A state the next enable takes for the start of a new cycle, and will    *)
(* take a new baseline under, is one under which no Mirror content exists. *)
ClosedCycleIsClean ==
  Quiet /\ state # Corrupt /\ ~state.active /\ state.sync \in {"not_run", "synced"} =>
    (\A h \in Homes : ~MirrorIn(h)) /\ ~MirrorSettings(settings)

(* An operation that reports a complete rollback has put all five files    *)
(* back as it found them, whichever write, verification or save failed.    *)
FailedOperationChangesNothing ==
  \A p \in Procs :
    pc[p] = "undone" /\ ~torn[p] => ImageOf(job[p].home) = job[p].old

(* Enabling, switching modes, restoring, recovering, repairing and rolling *)
(* back leave the keys Mirror does not manage as the user last wrote them; *)
(* only replacing a file that does not parse may lose them.                *)
UnmanagedKept ==
  [][edits' = edits =>
       /\ \A h \in Homes :
            config[h] # Corrupt /\ config'[h] # Corrupt => config'[h].other = config[h].other
       /\ settings # Corrupt /\ settings' # Corrupt => settings'.other = settings.other]_vars

(* A managed state always has a baseline of the same home to go back to,   *)
(* whatever write failed and wherever a process was killed; it can only    *)
(* have stopped validating since.                                          *)
ActiveHasBaseline ==
  state # Corrupt /\ state.active =>
    baseline = Corrupt \/ (baseline # None /\ state.home = baseline.home)

(* From the commit of an enable until a restore and its session repair are *)
(* complete the baseline is not replaced: mode switches, re-enabling after *)
(* an unfinished restore and failed operations keep the first one.         *)
BaselineFixedWhileOpen ==
  [][state # Corrupt /\ (state.active \/ state.sync \notin {"not_run", "synced"})
       /\ HasBaseline
     => baseline' \in {baseline, Corrupt}]_vars

(* "Repair is allowed only when the durable managed state, recovery        *)
(* baseline, and active Manager profile all agree that Mirror owns the     *)
(* live provider" (ensure_managed_provider_ready): the home the launcher   *)
(* sets out to repair is the one the state and the baseline were made in.  *)
RepairInManagedHome ==
  \A p \in Procs :
    Launching(p) /\ pc[p] = "write" =>
      state.home = job[p].home /\ baseline.home = job[p].home

(* The same sentence at the moment of each write: what the launcher writes *)
(* into the live config, it writes while the state says Mirror owns it.    *)
RepairWhileManaged ==
  [][\A p \in Procs, h \in Homes :
       Launching(p) /\ pc[p] = "write" /\ config'[h] # config[h] /\ edits' = edits
         => state # Corrupt /\ state.active]_vars
=============================================================================

----------------------------- MODULE ProviderSync ------------------------------
(***************************************************************************)
(* The session provider sync, crates/codex-plus-data/src/provider_sync.rs: *)
(* every session of the user is given the provider Codex is to use now, in *)
(* its rollout file and in the rows of each session database, and the      *)
(* workspace lists of the global state are tidied, or all of it is put     *)
(* back from a backup.  A directory with an owner file in it is the lock   *)
(* between processes.  Codex may be started while a sync runs and append   *)
(* to a rollout; a process may be killed; an operating-system call may     *)
(* fail.                                                                   *)
(***************************************************************************)
EXTENDS Naturals, FiniteSets

CONSTANTS
  Procs,       \* processes that sync: the Manager, its uninstaller, ...
  Threads,     \* the sessions, each with one rollout file
  Dbs,         \* the session databases of the home
  Providers,
  MarkedByRow,     \* threads a database row marks as a subagent's
  MarkedByRollout, \* threads whose session_meta does
  UserThreads,     \* threads a row marks as the user's
  Free,        \* no lock directory
  Gone,        \* an owner that died before the behaviour begins
  Nobody,      \* a lock directory without a readable owner
  NoRow,       \* a database does not list the thread
  NoThread,
  NoBackup,
  MaxAppends,  \* bound: messages Codex appends in a behaviour
  MaxFaults,   \* bound: failed calls
  MaxCrashes   \* bound: processes killed

GlobalNames == {"main", "bak"}
GlobalTexts == {"raw", "tidy", "absent"}

Rollouts == [provider : Providers, lines : Nat]
Tables   == [Threads -> Providers \cup {NoRow}]

(* Where a process is in run_provider_sync_with_target. *)
PCs == {"idle", "lock", "reclaim", "create", "own", "scan", "backup", "apply",
        "replace", "rows", "main", "bak", "prune", "undo", "release", "unlock"}

Backups == [rollout : [Threads -> Rollouts], rows : [Dbs -> Tables],
            global : [GlobalNames -> GlobalTexts]]

ASSUME SyncAssumption ==
  /\ MaxAppends \in Nat /\ MaxFaults \in Nat /\ MaxCrashes \in Nat
  /\ MarkedByRow \subseteq Threads /\ MarkedByRollout \subseteq Threads
  /\ UserThreads \subseteq Threads
  /\ Free \notin Procs \cup {Gone, Nobody}
  /\ Nobody \notin Procs \cup {Gone} /\ Gone \notin Procs
  /\ Providers # {}
  /\ NoBackup \notin Backups /\ NoRow \notin Providers /\ NoThread \notin Threads
  /\ GlobalNames \cap Dbs = {}

VARIABLES
  rollout,   \* each thread's file: its provider and how many lines it has
  rows,      \* each database: the provider of each thread it lists
  global,    \* .codex-global-state.json and its .bak
  lock,      \* tmp/provider-sync.lock: free, or the owner written in it
  dead,      \* processes that were killed
  leftover,  \* the lock directory there is nobody's who still runs for it
  pc, job,   \* the sync each process is in
  faults, appended, crashes  \* what the bounds have left

vars == <<rollout, rows, global, lock, dead, leftover, pc, job, faults, appended, crashes>>

Artifacts == <<rollout, rows, global>>

Current == [rollout |-> rollout, rows |-> rows, global |-> global]

(* One run's own data: what it found, what it has left to write or to put  *)
(* back, its backup and what it will report.                               *)
Jobs == [target : Providers, seen : [Threads -> Rollouts], readable : SUBSET Threads,
         todo : SUBSET Threads, at : Threads \cup {NoThread},
         applied : SUBSET Threads, left : SUBSET (Dbs \cup GlobalNames),
         backup : Backups \cup {NoBackup}, result : {"failed", "partial", "synced"}, torn : BOOLEAN]

Fresh(target) ==
  [target |-> target,
   seen |-> [t \in Threads |-> [provider |-> target, lines |-> 0]],
   readable |-> {}, todo |-> {}, at |-> NoThread, applied |-> {}, left |-> {},
   backup |-> NoBackup, result |-> "failed", torn |-> FALSE]

NoJob == Fresh(CHOOSE provider \in Providers : TRUE)

Init ==
  /\ rollout \in [Threads -> [provider : Providers, lines : {0}]]
  /\ rows \in [Dbs -> Tables]
  /\ global \in [GlobalNames -> {"raw", "absent"}]
  /\ lock \in {Free, Nobody, Gone}
  /\ dead = {} /\ leftover = (lock # Free)
  /\ pc = [p \in Procs |-> "idle"]
  /\ job = [p \in Procs |-> NoJob]
  /\ faults = 0 /\ appended = 0 /\ crashes = 0

----
Goto(p, at) == pc' = [pc EXCEPT ![p] = at]

Fails == faults < MaxFaults /\ faults' = faults + 1

Bounds == <<appended, crashes, dead>>

End(p) == Goto(p, "idle") /\ job' = [job EXCEPT ![p] = NoJob]

----
(* The lock. *)

Start(p) ==
  /\ pc[p] = "idle" /\ p \notin dead
  /\ \E target \in Providers :
       job' = [job EXCEPT ![p] = Fresh(target)]
  /\ Goto(p, "lock")
  /\ UNCHANGED <<Artifacts, lock, leftover, faults, Bounds>>

(* Mutant: a directory without an owner is taken at once, whatever its age. *)
StaleWithoutOwner == lock \in dead \cup {Gone, Nobody}

(* The owner is not running (process_is_running), or ten minutes have      *)
(* passed and no owner is written (lock_is_stale_by_age); a live process   *)
(* writes its owner sooner than that.                                      *)
Stale ==
  \/ lock \in dead \cup {Gone}
  \/ lock = Nobody /\ \A p \in Procs \ dead : pc[p] \notin {"own", "unlock"}

(* acquire_lock_with: create_dir, or a look at whose lock is there.  Any   *)
(* error, and a lock that is in use, ends the sync as skipped.             *)
TryLock(p) ==
  /\ pc[p] = "lock"
  /\ \/ lock = Free /\ lock' = Nobody /\ Goto(p, "own") /\ UNCHANGED job
     \/ lock # Free /\ Stale /\ Goto(p, "reclaim") /\ UNCHANGED <<lock, job>>
     \/ End(p) /\ UNCHANGED lock
  /\ UNCHANGED <<Artifacts, leftover, faults, Bounds>>

(* remove_dir_all of the lock directory by its name, whoever has it now;   *)
(* an error may leave it with or without its owner.                        *)
Removed == lock' = Free /\ leftover' = FALSE /\ UNCHANGED faults
NotRemoved ==
  /\ Fails /\ lock # Free
  /\ lock' \in {lock, Nobody}
  /\ leftover' = TRUE

(* reclaim_stale_lock, having judged the lock stale. *)
Reclaim(p) ==
  /\ pc[p] = "reclaim"
  /\ \/ lock # Free /\ Removed /\ Goto(p, "create") /\ UNCHANGED job
     \/ lock = Free /\ End(p) /\ UNCHANGED <<lock, leftover, faults>>
     \/ NotRemoved /\ End(p)
  /\ UNCHANGED <<Artifacts, Bounds>>

CreateAgain(p) ==
  /\ pc[p] = "create"
  /\ \/ lock = Free /\ lock' = Nobody /\ Goto(p, "own") /\ UNCHANGED job
     \/ End(p) /\ UNCHANGED lock
  /\ UNCHANGED <<Artifacts, leftover, faults, Bounds>>

(* Mutant: a lock whose owner could not be written stays. *)
LeftAfterFailedOwner == "idle"

AfterFailedOwner == "unlock"

(* write_lock_owner, into whatever directory has the name now; when it     *)
(* fails, or there is none, the directory is removed by its name.          *)
WriteOwner(p) ==
  /\ pc[p] = "own"
  /\ \/ lock # Free /\ lock' = p /\ Goto(p, "scan") /\ UNCHANGED faults
     \/ lock = Free /\ Goto(p, AfterFailedOwner) /\ UNCHANGED <<lock, faults>>
     \/ Fails /\ Goto(p, AfterFailedOwner) /\ UNCHANGED lock
  /\ UNCHANGED <<Artifacts, leftover, job, Bounds>>

(* release_lock, and the removal after a failed write_lock_owner. *)
Release(p) ==
  /\ pc[p] \in {"release", "unlock"}
  /\ Removed \/ NotRemoved
  /\ End(p)
  /\ UNCHANGED <<Artifacts, Bounds>>

----
(* Finding out what to change. *)

(* Mutant: what a rollout says of its thread is not looked at. *)
ExcludedByRow(readable) == MarkedByRow \ UserThreads

(* sqlite_provider_sync_thread_kinds and collect_session_changes: threads  *)
(* of subagents, as far as the databases and the readable rollouts tell.   *)
Excluded(readable) ==
  (MarkedByRow \ UserThreads) \cup (MarkedByRollout \cap readable)

(* The rollouts a sync rewrites, the rows it updates. *)
ToRewrite(readable, target) ==
  {t \in readable \ Excluded(readable) : rollout[t].provider # target}

Updated(table, readable, target) ==
  [t \in Threads |->
     IF table[t] = NoRow \/ t \in Excluded(readable) THEN table[t] ELSE target]

NothingToDo(readable, target) ==
  /\ ToRewrite(readable, target) = {}
  /\ \A d \in Dbs : Updated(rows[d], readable, target) = rows[d]
  /\ global["main"] # "raw"

(* Mutant: locked rollouts are not reported. *)
OutcomeAlways(complete) == "synced"

Outcome(complete) == IF complete THEN "synced" ELSE "partial"

(* Rollouts another process has locked are passed over; any other error    *)
(* ends the sync before its first write.                                   *)
Scan(p) ==
  /\ pc[p] = "scan"
  /\ \/ \E readable \in SUBSET Threads :
          LET target == job[p].target
              idle == NothingToDo(readable, target)
          IN /\ Goto(p, IF idle THEN "release" ELSE "backup")
             /\ job' = [job EXCEPT ![p] =
                          [@ EXCEPT !.seen = rollout, !.readable = readable,
                                    !.todo = ToRewrite(readable, target),
                                    !.left = Dbs,
                                    !.result = IF idle THEN Outcome(readable = Threads)
                                              ELSE job[p].result]]
             /\ UNCHANGED faults
     \/ Fails /\ Goto(p, "release") /\ UNCHANGED job
  /\ UNCHANGED <<Artifacts, lock, leftover, Bounds>>

(* create_backup, the headroom checks before it included. *)
Backup(p) ==
  /\ pc[p] = "backup"
  /\ \/ /\ job' = [job EXCEPT ![p].backup = Current]
        /\ Goto(p, IF job[p].todo = {} THEN "rows" ELSE "apply")
        /\ UNCHANGED faults
     \/ Fails /\ Goto(p, "release") /\ UNCHANGED job
  /\ UNCHANGED <<Artifacts, lock, leftover, Bounds>>

----
(* Writing. *)

(* apply_session_changes passes a file by: it is locked. *)
PassBy(p, t) ==
  LET todo == job[p].todo \ {t}
  IN /\ job' = [job EXCEPT ![p] = [@ EXCEPT !.todo = todo, !.at = NoThread,
                                            !.readable = job[p].readable \ {t}]]
     /\ Goto(p, IF todo = {} THEN "rows" ELSE "apply")

(* rollback_partial_session_changes: only rollouts were written so far. *)
Unapply(p) ==
  /\ job' = [job EXCEPT ![p] = [@ EXCEPT !.left = {}, !.at = NoThread]]
  /\ Goto(p, "undo")

(* rewrite_rollout_file streams the file to a temporary one and checks     *)
(* once more that length and mtime are those of the scan ...               *)
Recheck(p) ==
  /\ pc[p] = "apply"
  /\ \E t \in job[p].todo :
       \/ /\ rollout[t] = job[p].seen[t]
          /\ job' = [job EXCEPT ![p].at = t]
          /\ Goto(p, "replace")
          /\ UNCHANGED faults
       \/ rollout[t] # job[p].seen[t] /\ Unapply(p) /\ UNCHANGED faults
       \/ PassBy(p, t) /\ UNCHANGED faults
       \/ Fails /\ Unapply(p)
  /\ UNCHANGED <<Artifacts, lock, leftover, Bounds>>

(* ... before it moves the temporary file over the rollout. *)
Replace(p) ==
  LET t == job[p].at
      todo == job[p].todo \ {t}
  IN /\ pc[p] = "replace"
     /\ \/ /\ rollout' = [rollout EXCEPT ![t] =
                            [job[p].seen[t] EXCEPT !.provider = job[p].target]]
           /\ job' = [job EXCEPT ![p] = [@ EXCEPT !.todo = todo, !.at = NoThread,
                                                  !.applied = job[p].applied \cup {t}]]
           /\ Goto(p, IF todo = {} THEN "rows" ELSE "apply")
           /\ UNCHANGED faults
        \/ PassBy(p, t) /\ UNCHANGED <<rollout, faults>>
        \/ Fails /\ Unapply(p) /\ UNCHANGED rollout
     /\ UNCHANGED <<rows, global, lock, leftover, Bounds>>

(* Mutant: the rollback leaves the databases out. *)
RollBackFiles(p) ==
  /\ job' = [job EXCEPT ![p].left = GlobalNames]
  /\ Goto(p, "undo")

(* restore_provider_sync_backup: everything the backup holds. *)
RollBack(p) ==
  /\ job' = [job EXCEPT ![p].left = Dbs \cup GlobalNames]
  /\ Goto(p, "undo")

(* apply_sqlite_update: one transaction per database. *)
UpdateRows(p) ==
  /\ pc[p] = "rows"
  /\ \/ \E d \in job[p].left :
          /\ rows' = [rows EXCEPT ![d] = Updated(@, job[p].readable, job[p].target)]
          /\ job' = [job EXCEPT ![p].left = @ \ {d}]
          /\ UNCHANGED <<pc, faults>>
     \/ /\ job[p].left = {}
        /\ Goto(p, IF global["main"] = "raw" THEN "main" ELSE "prune")
        /\ UNCHANGED <<rows, job, faults>>
     \/ Fails /\ RollBack(p) /\ UNCHANGED rows
  /\ UNCHANGED <<rollout, global, lock, leftover, Bounds>>

(* apply_global_state_update: the file, then its .bak. *)
TidyGlobal(p) ==
  /\ pc[p] \in GlobalNames
  /\ \/ /\ global' = [global EXCEPT ![pc[p]] = "tidy"]
        /\ Goto(p, IF pc[p] = "main" THEN "bak" ELSE "prune")
        /\ UNCHANGED <<job, faults>>
     \/ Fails /\ RollBack(p) /\ UNCHANGED global
  /\ UNCHANGED <<rollout, rows, lock, leftover, Bounds>>

(* prune_backups, whose failure also undoes the sync; the newest backup,   *)
(* this sync's own, is always kept.                                        *)
Prune(p) ==
  /\ pc[p] = "prune"
  /\ \/ /\ job' = [job EXCEPT ![p].result = Outcome(job[p].readable = Threads)]
        /\ Goto(p, "release")
        /\ UNCHANGED faults
     \/ Fails /\ RollBack(p)
  /\ UNCHANGED <<Artifacts, lock, leftover, Bounds>>

----
(* Putting back. *)

(* restore_session_changes stops at its first error. *)
UndoRollout(p) ==
  /\ pc[p] = "undo"
  /\ \E t \in job[p].applied :
       \/ /\ rollout' = [rollout EXCEPT ![t] = job[p].backup.rollout[t]]
          /\ job' = [job EXCEPT ![p].applied = @ \ {t}]
          /\ UNCHANGED faults
       \/ /\ Fails
          /\ job' = [job EXCEPT ![p] = [@ EXCEPT !.applied = {}, !.torn = TRUE]]
          /\ UNCHANGED rollout
  /\ UNCHANGED <<rows, global, lock, leftover, pc, Bounds>>

(* The global state files, then the databases: all are tried, errors are   *)
(* collected.                                                              *)
UndoOther(p) ==
  /\ pc[p] = "undo" /\ job[p].applied = {}
  /\ \E a \in job[p].left :
       /\ a \in Dbs => job[p].left \cap GlobalNames = {}
       /\ \/ /\ rows' = IF a \in Dbs THEN [rows EXCEPT ![a] = job[p].backup.rows[a]]
                        ELSE rows
             /\ global' = IF a \in GlobalNames
                          THEN [global EXCEPT ![a] = job[p].backup.global[a]] ELSE global
             /\ job' = [job EXCEPT ![p].left = @ \ {a}]
             /\ UNCHANGED faults
          \/ /\ Fails
             /\ job' = [job EXCEPT ![p] = [@ EXCEPT !.left = job[p].left \ {a}, !.torn = TRUE]]
             /\ UNCHANGED <<rows, global>>
  /\ UNCHANGED <<rollout, lock, leftover, pc, Bounds>>

(* The metadata or a path in it cannot be read. *)
AbandonUndo(p) ==
  /\ pc[p] = "undo" /\ job[p].left # {} /\ Fails
  /\ job' = [job EXCEPT ![p] = [@ EXCEPT !.applied = {}, !.left = {}, !.torn = TRUE]]
  /\ UNCHANGED <<Artifacts, lock, leftover, pc, Bounds>>

Undone(p) ==
  /\ pc[p] = "undo" /\ job[p].applied = {} /\ job[p].left = {}
  /\ Goto(p, "release")
  /\ UNCHANGED <<Artifacts, lock, leftover, job, faults, Bounds>>

----
(* The world outside. *)

(* Codex, started meanwhile, adds a message to a session. *)
AppendMessage(t) ==
  /\ appended < MaxAppends
  /\ appended' = appended + 1
  /\ rollout' = [rollout EXCEPT ![t].lines = @ + 1]
  /\ UNCHANGED <<rows, global, lock, dead, leftover, pc, job, faults, crashes>>

Crash(p) ==
  /\ pc[p] # "idle" /\ p \notin dead /\ crashes < MaxCrashes
  /\ crashes' = crashes + 1
  /\ dead' = dead \cup {p}
  /\ End(p)
  /\ leftover' = (leftover \/ pc[p] \notin {"lock", "reclaim", "create"})
  /\ UNCHANGED <<Artifacts, lock, faults, appended>>

Step(p) ==
  \/ Start(p) \/ TryLock(p) \/ Reclaim(p) \/ CreateAgain(p) \/ WriteOwner(p)
  \/ Scan(p) \/ Backup(p) \/ Recheck(p) \/ Replace(p) \/ UpdateRows(p)
  \/ TidyGlobal(p) \/ Prune(p) \/ UndoRollout(p) \/ UndoOther(p) \/ AbandonUndo(p)
  \/ Undone(p)
  \/ Release(p) \/ Crash(p)

Next == (\E p \in Procs : Step(p)) \/ \E t \in Threads : AppendMessage(t)

Spec == Init /\ [][Next]_vars

(* No other process makes a lock directory between the look at a stale one *)
(* and the making of one's own in its place.  The code has nothing to      *)
(* prevent that: what holds of UndisturbedSpec holds as long as two        *)
(* processes do not meet at the same stale lock.                           *)
Undisturbed ==
  \A p \in Procs :
    pc[p] \in {"reclaim", "create"} /\ pc'[p] = pc[p] => lock' \in {lock, Free}

UndisturbedSpec == Init /\ [][Next /\ Undisturbed]_vars

----
(* Properties. *)

(* Every variable has its type. *)
TypeOK ==
  /\ rollout \in [Threads -> Rollouts] /\ rows \in [Dbs -> Tables]
  /\ global \in [GlobalNames -> GlobalTexts]
  /\ lock \in Procs \cup {Free, Nobody, Gone} /\ leftover \in BOOLEAN /\ dead \subseteq Procs
  /\ pc \in [Procs -> PCs] /\ job \in [Procs -> Jobs]
  /\ faults \in 0..MaxFaults /\ appended \in 0..MaxAppends /\ crashes \in 0..MaxCrashes

Inside(p) == pc[p] \notin {"idle", "lock", "reclaim", "create", "own", "unlock"}

(* The lock directory does its work: no two processes are past it at once, *)
(* not even when one of them took it over from a third that died.          *)
OneSyncer == \A p, q \in Procs : Inside(p) /\ Inside(q) => p = q

(* A sync that ends, however it ends, takes its lock with it: once no      *)
(* process is in one the directory is gone, unless a process was killed    *)
(* with it or the directory would not be removed.                          *)
LockIsReturned ==
  (\A p \in Procs : pc[p] = "idle") => lock = Free \/ leftover

(* A sync reports "synced" only when every session that is not a           *)
(* subagent's has the target provider in its rollout and in every database *)
(* that lists it, and "partial" only when the rollouts it could not open   *)
(* are all that is missing.                                                *)
ReportIsTrue ==
  \A p \in Procs :
    LET j == job[p]
    IN pc[p] = "release" /\ j.result # "failed" =>
         /\ j.result = "synced" => j.readable = Threads
         /\ \A t \in Threads \ Excluded(j.readable) :
              /\ t \in j.readable => rollout[t].provider = j.target
              /\ \A d \in Dbs : rows[d][t] \in {j.target, NoRow}
         /\ global["main"] # "raw"

(* A sync that failed and says everything was restored has put back the    *)
(* providers of the rollouts, the databases and the global state, at       *)
(* whichever write it failed.                                              *)
FailureRestoresAll ==
  \A p \in Procs :
    LET j == job[p]
    IN pc[p] = "release" /\ j.result = "failed" /\ ~j.torn /\ j.backup # NoBackup =>
         /\ \A t \in Threads : rollout[t].provider = j.backup.rollout[t].provider
         /\ rows = j.backup.rows /\ global = j.backup.global

(* The history of subagents keeps its provider: no step rewrites a rollout *)
(* whose session_meta or whose row marks a subagent, nor such a row.       *)
SubagentsUntouched ==
  [][\A t \in MarkedByRow \cup MarkedByRollout :
       /\ t \in MarkedByRollout \/ t \notin UserThreads =>
            rollout'[t].provider = rollout[t].provider
       /\ t \notin UserThreads /\ t \in MarkedByRow =>
            \A d \in Dbs : rows'[d][t] = rows[d][t]]_vars

(* "Recheck immediately before commit so messages appended during the      *)
(* rewrite are never lost." (rewrite_rollout_file)                         *)
AppendedKept == [][\A t \in Threads : rollout'[t].lines >= rollout[t].lines]_vars
=============================================================================

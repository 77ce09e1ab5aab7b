--------------------------- MODULE ProviderSyncProofs --------------------------
(***************************************************************************)
(* What the providers' modules keep.                                       *)
(*   The provider sync, for any processes, sessions and databases: types,  *)
(* what it never touches, what its lock is good for and what becomes of    *)
(* it, that its report is true, and that a failure puts everything back.   *)
(*   The rotation between the members of an aggregate provider, for any    *)
(* relays, requests and settings: types, that turns are shared as they     *)
(* are configured and conversations stay, and where failures lead.  What   *)
(* goes through a list is proved by induction over a set of naturals,      *)
(* which holds because such a set has a least element.                     *)
(***************************************************************************)
EXTENDS ProviderSync, Rotation, FiniteSetTheorems, SequenceTheorems, TLAPS

(* Sessions whose rollout, and sessions whose rows, no sync may rewrite. *)
RowProtected == MarkedByRow \ UserThreads
Protected    == RowProtected \cup MarkedByRollout

Writing == {"apply", "replace", "rows", "main", "bak", "prune", "undo"}

(* What a sync holds in its hands to write never is of a protected session *)
(* and its backup agrees with the databases about their rows.              *)
Harmless(p) ==
  /\ job[p].todo \cap Protected = {} /\ job[p].applied \cap Protected = {}
  /\ pc[p] = "replace" => job[p].at \in Threads \ Protected
  /\ pc[p] \in Writing => job[p].backup \in Backups
  /\ job[p].backup \in Backups =>
       \A d \in Dbs, t \in RowProtected : job[p].backup.rows[d][t] = rows[d][t]

Inv == TypeOK /\ \A p \in Procs : Harmless(p)

----
LEMMA FreshTyped ==
  /\ \A target \in Providers : Fresh(target) \in Jobs
  /\ NoJob \in Jobs
<1>1. ASSUME NEW target \in Providers PROVE Fresh(target) \in Jobs
  BY <1>1 DEF Fresh, Jobs, Rollouts
<1>2. (CHOOSE provider \in Providers : TRUE) \in Providers
  BY SyncAssumption
<1> QED BY <1>1, <1>2 DEF NoJob

(* A fresh job is harmless wherever it is at rest. *)
LEMMA FreshHarmless ==
  ASSUME NEW target, NEW j, j = Fresh(target) \/ j = NoJob
  PROVE  /\ j.todo = {} /\ j.applied = {} /\ j.left = {}
         /\ j.backup = NoBackup
BY DEF Fresh, NoJob

LEMMA BackupTyped == ASSUME TypeOK PROVE Current \in Backups
BY DEF TypeOK, Current, Backups

LEMMA ToRewriteTyped ==
  ASSUME NEW readable \in SUBSET Threads, NEW target
  PROVE  /\ ToRewrite(readable, target) \in SUBSET Threads
         /\ ToRewrite(readable, target) \cap Protected = {}
BY DEF ToRewrite, Excluded, Protected, RowProtected

LEMMA UpdatedTyped ==
  ASSUME NEW table \in Tables, NEW readable, NEW target \in Providers
  PROVE  /\ Updated(table, readable, target) \in Tables
         /\ \A t \in RowProtected : Updated(table, readable, target)[t] = table[t]
BY SyncAssumption DEF Updated, Tables, Excluded, RowProtected

(* Replacing one process's job and place. *)
LEMMA JobReplaced ==
  ASSUME TypeOK, NEW p \in Procs, NEW j \in Jobs, job' = [job EXCEPT ![p] = j]
  PROVE  /\ job' \in [Procs -> Jobs]
         /\ job'[p] = j
         /\ \A q \in Procs : q # p => job'[q] = job[q]
BY DEF TypeOK

LEMMA PlaceReplaced ==
  ASSUME TypeOK, NEW p \in Procs, NEW at \in PCs, Goto(p, at)
  PROVE  /\ pc' \in [Procs -> PCs]
         /\ pc'[p] = at
         /\ \A q \in Procs : q # p => pc'[q] = pc[q]
BY DEF TypeOK, Goto

LEMMA EndIs ==
  ASSUME TypeOK, NEW p \in Procs, End(p)
  PROVE  /\ pc' \in [Procs -> PCs] /\ job' \in [Procs -> Jobs]
         /\ pc'[p] = "idle" /\ job'[p] = NoJob
         /\ \A q \in Procs : q # p => pc'[q] = pc[q] /\ job'[q] = job[q]
<1>1. "idle" \in PCs /\ Goto(p, "idle") /\ job' = [job EXCEPT ![p] = NoJob]
  BY DEF PCs, End
<1> QED BY <1>1, JobReplaced, PlaceReplaced, FreshTyped

LEMMA FailsTyped ==
  ASSUME TypeOK, Fails
  PROVE  faults' \in 0..MaxFaults
BY SyncAssumption DEF TypeOK, Fails

(* Processes other than the one that moves stay harmless as long as no row *)
(* of a protected session changes.                                         *)
LEMMA OthersHarmless ==
  ASSUME Inv, NEW p \in Procs,
         \A q \in Procs : q # p => pc'[q] = pc[q] /\ job'[q] = job[q],
         \A d \in Dbs, t \in RowProtected : rows'[d][t] = rows[d][t]
  PROVE  \A q \in Procs : q # p => Harmless(q)'
BY DEF Inv, Harmless

(* Nor does the one that moves, when it comes out with an untouched job. *)
LEMMA NoJobHarmless ==
  ASSUME NEW p \in Procs, job'[p] = NoJob, pc'[p] = "idle"
  PROVE  Harmless(p)'
BY FreshHarmless, SyncAssumption DEF Harmless, Writing

LEMMA AllHarmless ==
  ASSUME Inv, NEW p \in Procs, Harmless(p)',
         \A q \in Procs : q # p => pc'[q] = pc[q] /\ job'[q] = job[q],
         \A d \in Dbs, t \in RowProtected : rows'[d][t] = rows[d][t]
  PROVE  \A q \in Procs : Harmless(q)'
BY OthersHarmless

----
(* The steps that only concern the lock: the job is a new one, as it was,  *)
(* or over.                                                                *)
LEMMA Quiet ==
  ASSUME Inv, NEW p \in Procs, UNCHANGED Artifacts,
         faults' \in 0..MaxFaults, appended' \in 0..MaxAppends,
         crashes' \in 0..MaxCrashes, dead' \subseteq Procs,
         lock' \in Procs \cup {Free, Nobody, Gone}, leftover' \in BOOLEAN,
         \/ End(p)
         \/ \E at \in PCs \ Writing : Goto(p, at) /\ UNCHANGED job
  PROVE  Inv'
<1>1. CASE End(p)
  BY <1>1, EndIs, NoJobHarmless, AllHarmless DEF Inv, TypeOK, Artifacts
<1>2. ASSUME NEW at \in PCs \ Writing, Goto(p, at), UNCHANGED job
      PROVE  Inv'
  BY <1>2, PlaceReplaced, AllHarmless DEF Inv, Harmless, Writing, Artifacts, TypeOK
<1> QED BY <1>1, <1>2

LEMMA BoundsTyped ==
  ASSUME Inv, UNCHANGED Bounds
  PROVE  appended' \in 0..MaxAppends /\ crashes' \in 0..MaxCrashes /\ dead' \subseteq Procs
BY DEF Inv, TypeOK, Bounds

LEMMA RemovalTyped ==
  ASSUME Inv, Removed \/ NotRemoved
  PROVE  /\ faults' \in 0..MaxFaults
         /\ lock' \in Procs \cup {Free, Nobody, Gone} /\ leftover' \in BOOLEAN
BY FailsTyped DEF Inv, TypeOK, Removed, NotRemoved

LEMMA LockSteps ==
  ASSUME Inv, NEW p \in Procs,
         \/ TryLock(p) \/ Reclaim(p) \/ CreateAgain(p) \/ WriteOwner(p) \/ Release(p)
         \/ Undone(p) \/ Crash(p)
  PROVE  Inv'
<1> USE DEF PCs, Writing
<1>1. CASE TryLock(p)
  BY <1>1, Quiet, BoundsTyped DEF TryLock, Inv, TypeOK
<1>2. CASE Reclaim(p)
  BY <1>2, RemovalTyped, Quiet, BoundsTyped DEF Reclaim, Inv, TypeOK
<1>3. CASE CreateAgain(p)
  BY <1>3, Quiet, BoundsTyped DEF CreateAgain, Inv, TypeOK
<1>4. CASE WriteOwner(p)
  BY <1>4, FailsTyped, Quiet, BoundsTyped DEF WriteOwner, AfterFailedOwner, Inv, TypeOK
<1>5. CASE Release(p)
  BY <1>5, RemovalTyped, Quiet, BoundsTyped DEF Release
<1>6. CASE Undone(p)
  BY <1>6, Quiet, BoundsTyped DEF Undone, Inv, TypeOK
<1>7. CASE Crash(p)
  BY <1>7, SyncAssumption, Quiet DEF Crash, Inv, TypeOK
<1> QED BY <1>1, <1>2, <1>3, <1>4, <1>5, <1>6, <1>7

----
(* The steps that work: what the moving process holds afterwards decides. *)
LEMMA Moved ==
  ASSUME Inv, NEW p \in Procs, NEW j \in Jobs, NEW at \in PCs,
         job' = [job EXCEPT ![p] = j],
         Goto(p, at) \/ (pc' = pc /\ at = pc[p]),
         UNCHANGED <<lock, leftover, Bounds>>, faults' \in 0..MaxFaults,
         rollout' \in [Threads -> Rollouts], rows' \in [Dbs -> Tables],
         global' \in [GlobalNames -> GlobalTexts],
         \A d \in Dbs, t \in RowProtected : rows'[d][t] = rows[d][t],
         j.todo \cap Protected = {}, j.applied \cap Protected = {},
         at = "replace" => j.at \in Threads \ Protected,
         at \in Writing => j.backup \in Backups,
         j.backup \in Backups =>
           \A d \in Dbs, t \in RowProtected : j.backup.rows[d][t] = rows[d][t]
  PROVE  Inv'
<1>1. /\ job' \in [Procs -> Jobs] /\ job'[p] = j
      /\ \A q \in Procs : q # p => job'[q] = job[q]
  BY JobReplaced DEF Inv
<1>2. /\ pc' \in [Procs -> PCs] /\ pc'[p] = at
      /\ \A q \in Procs : q # p => pc'[q] = pc[q]
  BY PlaceReplaced DEF Inv, TypeOK
<1>3. Harmless(p)'
  BY <1>1, <1>2 DEF Harmless
<1>4. TypeOK'
  BY <1>1, <1>2, BoundsTyped DEF Inv, TypeOK
<1> QED BY <1>1, <1>2, <1>3, <1>4, AllHarmless DEF Inv

(* What a process holds before it moves. *)
LEMMA Holds ==
  ASSUME Inv, NEW p \in Procs
  PROVE  /\ job[p] \in Jobs /\ pc[p] \in PCs
         /\ rollout \in [Threads -> Rollouts] /\ rows \in [Dbs -> Tables]
         /\ global \in [GlobalNames -> GlobalTexts] /\ faults \in 0..MaxFaults
         /\ Harmless(p)
BY DEF Inv, TypeOK

LEMMA StartStep ==
  ASSUME Inv, NEW p \in Procs, Start(p)
  PROVE  Inv'
<1>1. PICK target \in Providers : job' = [job EXCEPT ![p] = Fresh(target)]
  BY DEF Start
<1> DEFINE j == Fresh(target)
<1>2. j \in Jobs /\ j.todo = {} /\ j.applied = {} /\ j.backup \notin Backups
  BY FreshTyped, FreshHarmless, SyncAssumption
<1> HIDE DEF j
<1> QED BY <1>1, <1>2, Holds, Moved DEF Start, Artifacts, PCs, Writing, j

(* When nothing is written and no protected row is backed up anew. *)
LEMMA MovedQuietly ==
  ASSUME Inv, NEW p \in Procs, NEW j \in Jobs, NEW at \in PCs,
         job' = [job EXCEPT ![p] = j],
         Goto(p, at) \/ (pc' = pc /\ at = pc[p]),
         UNCHANGED <<lock, leftover, Bounds>>, faults' \in 0..MaxFaults,
         UNCHANGED Artifacts,
         j.todo \subseteq job[p].todo, j.applied \subseteq job[p].applied,
         at = "replace" => j.at \in Threads \ Protected,
         at \in Writing => pc[p] \in Writing,
         j.backup = job[p].backup
  PROVE  Inv'
<1>1. /\ rollout' \in [Threads -> Rollouts] /\ rows' \in [Dbs -> Tables]
      /\ global' \in [GlobalNames -> GlobalTexts] /\ rows' = rows
      /\ Harmless(p)
  BY Holds DEF Artifacts
<1>2. /\ j.todo \cap Protected = {} /\ j.applied \cap Protected = {}
      /\ at \in Writing => j.backup \in Backups
      /\ j.backup \in Backups =>
           \A d \in Dbs, t \in RowProtected : j.backup.rows[d][t] = rows[d][t]
  BY <1>1 DEF Harmless
<1> QED BY <1>1, <1>2, Moved

LEMMA ScanStep ==
  ASSUME Inv, NEW p \in Procs, Scan(p)
  PROVE  Inv'
<1>1. CASE Fails /\ Goto(p, "release") /\ UNCHANGED job
  BY <1>1, FailsTyped, Quiet, BoundsTyped DEF Scan, Inv, TypeOK, PCs, Writing
<1>2. ASSUME NEW readable \in SUBSET Threads, NEW idle \in BOOLEAN,
             job' = [job EXCEPT ![p] =
                       [@ EXCEPT !.seen = rollout, !.readable = readable,
                                 !.todo = ToRewrite(readable, job[p].target), !.left = Dbs,
                                 !.result = IF idle THEN Outcome(readable = Threads)
                                           ELSE job[p].result]],
             Goto(p, IF idle THEN "release" ELSE "backup"), UNCHANGED faults
      PROVE  Inv'
  <2> DEFINE todo == ToRewrite(readable, job[p].target)
             result == IF idle THEN Outcome(readable = Threads) ELSE job[p].result
             j == [job[p] EXCEPT !.seen = rollout, !.readable = readable, !.todo = todo,
                                 !.left = Dbs, !.result = result]
             at == IF idle THEN "release" ELSE "backup"
  <2>1. todo \in SUBSET Threads /\ todo \cap Protected = {}
    BY ToRewriteTyped
  <2>2. result \in {"failed", "partial", "synced"}
    BY Holds DEF Jobs, Outcome
  <2>3. job' = [job EXCEPT ![p] = j]
    BY <1>2
  <2>4. at \in PCs /\ at \notin Writing /\ at # "replace" /\ Goto(p, at)
    BY <1>2 DEF PCs, Writing
  <2> HIDE DEF todo, result, at
  <2>5. /\ j \in Jobs /\ j.todo = todo
        /\ j.applied = job[p].applied /\ j.backup = job[p].backup
    BY <2>1, <2>2, Holds DEF Jobs
  <2>6. /\ j.applied \cap Protected = {} /\ rows' = rows
        /\ j.backup \in Backups =>
             \A d \in Dbs, t \in RowProtected : j.backup.rows[d][t] = rows[d][t]
    <3>1. Harmless(p) /\ rows' = rows
      BY Holds DEF Scan, Artifacts
    <3> HIDE DEF j
    <3> QED BY <2>5, <3>1 DEF Harmless
  <2>7. /\ UNCHANGED <<lock, leftover, Bounds>> /\ faults' \in 0..MaxFaults
        /\ rollout' \in [Threads -> Rollouts] /\ rows' \in [Dbs -> Tables]
        /\ global' \in [GlobalNames -> GlobalTexts]
    BY <1>2, Holds DEF Scan, Artifacts
  <2> HIDE DEF j
  <2> QED BY <2>1, <2>3, <2>4, <2>5, <2>6, <2>7, Moved
<1> QED BY <1>1, <1>2 DEF Scan

LEMMA BackupStep ==
  ASSUME Inv, NEW p \in Procs, Backup(p)
  PROVE  Inv'
<1>1. CASE Fails /\ Goto(p, "release") /\ UNCHANGED job
  BY <1>1, FailsTyped, Quiet, BoundsTyped DEF Backup, Inv, TypeOK, PCs, Writing
<1>2. CASE /\ job' = [job EXCEPT ![p].backup = Current] /\ UNCHANGED faults
           /\ Goto(p, IF job[p].todo = {} THEN "rows" ELSE "apply")
  <2> DEFINE j == [job[p] EXCEPT !.backup = Current]
             at == IF job[p].todo = {} THEN "rows" ELSE "apply"
  <2>1. /\ j \in Jobs /\ j.todo = job[p].todo
        /\ j.applied = job[p].applied /\ j.backup = Current
    BY Holds, BackupTyped DEF Inv, Jobs
  <2>2. Current \in Backups /\ Current.rows = rows
    BY BackupTyped DEF Inv, Current
  <2>3. at \in PCs /\ at # "replace" /\ Goto(p, at)
    BY <1>2 DEF PCs
  <2>4. job' = [job EXCEPT ![p] = j]
    BY <1>2
  <2>5. /\ UNCHANGED <<lock, leftover, Bounds>> /\ faults' \in 0..MaxFaults
        /\ rollout' \in [Threads -> Rollouts] /\ rows' \in [Dbs -> Tables]
        /\ global' \in [GlobalNames -> GlobalTexts] /\ rows' = rows
    BY <1>2, Holds DEF Backup, Artifacts
  <2>6. j.todo \cap Protected = {} /\ j.applied \cap Protected = {}
    BY <2>1, Holds DEF Harmless
  <2> HIDE DEF j, at
  <2> QED BY <2>1, <2>2, <2>3, <2>4, <2>5, <2>6, Moved
<1> QED BY <1>1, <1>2 DEF Backup

(* Passing a rollout by, giving the rewriting up, rolling all back. *)
LEMMA PassByStep ==
  ASSUME Inv, NEW p \in Procs, NEW t, PassBy(p, t), pc[p] \in {"apply", "replace"},
         UNCHANGED <<lock, leftover, Bounds>>, UNCHANGED Artifacts, UNCHANGED faults
  PROVE  Inv'
<1> DEFINE todo == job[p].todo \ {t}
           j == [job[p] EXCEPT !.todo = todo, !.at = NoThread,
                               !.readable = job[p].readable \ {t}]
           at == IF todo = {} THEN "rows" ELSE "apply"
<1>1. /\ j \in Jobs /\ j.todo = todo
      /\ j.applied = job[p].applied /\ j.backup = job[p].backup
  BY Holds DEF Jobs
<1>2. /\ at \in PCs /\ at # "replace" /\ Goto(p, at) /\ pc[p] \in Writing
      /\ job' = [job EXCEPT ![p] = j]
  BY DEF PCs, PassBy, Writing
<1>3. todo \subseteq job[p].todo /\ faults' \in 0..MaxFaults
  BY Holds
<1> HIDE DEF j, at, todo
<1> QED BY <1>1, <1>2, <1>3, MovedQuietly

LEMMA UnapplyStep ==
  ASSUME Inv, NEW p \in Procs, Unapply(p), pc[p] \in {"apply", "replace"},
         UNCHANGED <<lock, leftover, Bounds>>, UNCHANGED Artifacts,
         faults' \in 0..MaxFaults
  PROVE  Inv'
<1> DEFINE j == [job[p] EXCEPT !.left = {}, !.at = NoThread]
<1>1. /\ j \in Jobs /\ j.todo = job[p].todo
      /\ j.applied = job[p].applied /\ j.backup = job[p].backup
  BY Holds DEF Jobs
<1>2. /\ "undo" \in PCs /\ Goto(p, "undo") /\ pc[p] \in Writing
      /\ job' = [job EXCEPT ![p] = j]
  BY DEF PCs, Unapply, Writing
<1> HIDE DEF j
<1> QED BY <1>1, <1>2, MovedQuietly

LEMMA RollBackStep ==
  ASSUME Inv, NEW p \in Procs, RollBack(p), pc[p] \in Writing,
         UNCHANGED <<lock, leftover, Bounds>>, UNCHANGED Artifacts,
         faults' \in 0..MaxFaults
  PROVE  Inv'
<1> DEFINE j == [job[p] EXCEPT !.left = Dbs \cup GlobalNames]
<1>1. /\ j \in Jobs /\ j.todo = job[p].todo
      /\ j.applied = job[p].applied /\ j.backup = job[p].backup
  BY Holds DEF Jobs
<1>2. /\ "undo" \in PCs /\ Goto(p, "undo")
      /\ job' = [job EXCEPT ![p] = j]
  BY DEF PCs, RollBack
<1> HIDE DEF j
<1> QED BY <1>1, <1>2, MovedQuietly

LEMMA RecheckStep ==
  ASSUME Inv, NEW p \in Procs, Recheck(p)
  PROVE  Inv'
<1>1. /\ UNCHANGED <<lock, leftover, Bounds>> /\ UNCHANGED Artifacts
      /\ pc[p] \in {"apply", "replace"} /\ pc[p] \in Writing
  BY DEF Recheck, Writing
<1>2. ASSUME NEW t \in job[p].todo, job' = [job EXCEPT ![p].at = t],
             Goto(p, "replace"), UNCHANGED faults
      PROVE  Inv'
  <2> DEFINE j == [job[p] EXCEPT !.at = t]
  <2>1. t \in Threads \ Protected
    BY Holds DEF Jobs, Harmless
  <2>2. /\ j \in Jobs /\ j.todo = job[p].todo /\ j.at = t
        /\ j.applied = job[p].applied /\ j.backup = job[p].backup
    BY <2>1, Holds DEF Jobs
  <2>3. "replace" \in PCs /\ job' = [job EXCEPT ![p] = j] /\ faults' \in 0..MaxFaults
    BY <1>2, Holds DEF PCs
  <2> HIDE DEF j
  <2> QED BY <1>1, <1>2, <2>1, <2>2, <2>3, MovedQuietly
<1>3. ASSUME NEW t, PassBy(p, t), UNCHANGED faults PROVE Inv'
  BY <1>1, <1>3, PassByStep
<1>4. CASE Unapply(p) /\ (UNCHANGED faults \/ Fails)
  BY <1>1, <1>4, UnapplyStep, FailsTyped, Holds DEF Inv
<1> QED BY <1>2, <1>3, <1>4 DEF Recheck

LEMMA ReplaceStep ==
  ASSUME Inv, NEW p \in Procs, Replace(p)
  PROVE  Inv'
<1> DEFINE t == job[p].at
<1>1. /\ UNCHANGED <<lock, leftover, Bounds>> /\ UNCHANGED <<rows, global>>
      /\ pc[p] = "replace" /\ pc[p] \in {"apply", "replace"} /\ pc[p] \in Writing
  BY DEF Replace, Writing
<1>2. t \in Threads \ Protected /\ Harmless(p) /\ job[p] \in Jobs
  BY <1>1, Holds DEF Harmless
<1>3. CASE /\ rollout' = [rollout EXCEPT ![t] =
                            [job[p].seen[t] EXCEPT !.provider = job[p].target]]
           /\ job' = [job EXCEPT ![p] =
                        [@ EXCEPT !.todo = job[p].todo \ {t}, !.at = NoThread,
                                  !.applied = job[p].applied \cup {t}]]
           /\ Goto(p, IF job[p].todo \ {t} = {} THEN "rows" ELSE "apply")
           /\ UNCHANGED faults
  <2> DEFINE todo == job[p].todo \ {t}
             applied == job[p].applied \cup {t}
             j == [job[p] EXCEPT !.todo = todo, !.at = NoThread, !.applied = applied]
             at == IF todo = {} THEN "rows" ELSE "apply"
  <2>1. rollout' \in [Threads -> Rollouts]
    BY <1>2, <1>3, Holds DEF Jobs, Rollouts
  <2>2. /\ todo \in SUBSET Threads /\ applied \in SUBSET Threads
        /\ todo \cap Protected = {} /\ applied \cap Protected = {}
    BY <1>2 DEF Harmless, Jobs
  <2>3. /\ at \in PCs /\ at # "replace" /\ Goto(p, at)
        /\ job' = [job EXCEPT ![p] = j]
    BY <1>3 DEF PCs
  <2> HIDE DEF todo, applied, at
  <2>4. /\ j \in Jobs /\ j.todo = todo /\ j.applied = applied
        /\ j.backup = job[p].backup
    BY <1>2, <2>2 DEF Jobs
  <2> HIDE DEF j
  <2>5. /\ j.backup \in Backups
        /\ \A d \in Dbs, r \in RowProtected : j.backup.rows[d][r] = rows[d][r]
    BY <1>1, <1>2, <2>4 DEF Harmless
  <2>6. /\ faults' \in 0..MaxFaults /\ rows' \in [Dbs -> Tables] /\ rows' = rows
        /\ global' \in [GlobalNames -> GlobalTexts]
    BY <1>1, <1>3, Holds
  <2> QED BY <1>1, <2>1, <2>2, <2>3, <2>4, <2>5, <2>6, Moved
<1>4. CASE PassBy(p, t) /\ UNCHANGED <<rollout, faults>>
  BY <1>1, <1>4, PassByStep DEF Artifacts
<1>5. CASE Fails /\ Unapply(p) /\ UNCHANGED rollout
  BY <1>1, <1>5, UnapplyStep, FailsTyped DEF Artifacts, Inv
<1> QED BY <1>3, <1>4, <1>5 DEF Replace

LEMMA UpdateRowsStep ==
  ASSUME Inv, NEW p \in Procs, UpdateRows(p)
  PROVE  Inv'
<1>1. /\ UNCHANGED <<lock, leftover, Bounds>> /\ UNCHANGED <<rollout, global>>
      /\ pc[p] = "rows" /\ pc[p] \in Writing
  BY DEF UpdateRows, Writing
<1>2. ASSUME NEW d \in job[p].left,
             rows' = [rows EXCEPT ![d] = Updated(@, job[p].readable, job[p].target)],
             job' = [job EXCEPT ![p].left = @ \ {d}], UNCHANGED <<pc, faults>>
      PROVE  Inv'
  <2> DEFINE left == job[p].left \ {d}
             j == [job[p] EXCEPT !.left = left]
             table == Updated(rows[d], job[p].readable, job[p].target)
  <2>1. job[p] \in Jobs /\ Harmless(p) /\ job[p].target \in Providers
    BY Holds DEF Jobs
  <2>2. /\ j \in Jobs /\ j.todo = job[p].todo /\ j.applied = job[p].applied
        /\ j.backup = job[p].backup
    BY <2>1 DEF Jobs
  <2>3. rows' = [rows EXCEPT ![d] = table]
    BY <1>2
  <2>4. /\ rows' \in [Dbs -> Tables]
        /\ \A e \in Dbs, t \in RowProtected : rows'[e][t] = rows[e][t]
    <3>1. CASE d \in Dbs
      <4>1. /\ table \in Tables
            /\ \A t \in RowProtected : table[t] = rows[d][t]
        BY <2>1, <3>1, UpdatedTyped, Holds
      <4> HIDE DEF table
      <4> QED BY <2>3, <3>1, <4>1, Holds
    <3>2. CASE d \notin Dbs
      BY <2>3, <3>2, Holds
    <3> QED BY <3>1, <3>2
  <2>5. job' = [job EXCEPT ![p] = j] /\ faults' \in 0..MaxFaults
    BY <1>2, Holds
  <2>6. /\ rollout' \in [Threads -> Rollouts]
        /\ global' \in [GlobalNames -> GlobalTexts] /\ pc[p] \in PCs /\ pc' = pc
    BY <1>1, <1>2, Holds
  <2> HIDE DEF j
  <2>7. /\ j.todo \cap Protected = {} /\ j.applied \cap Protected = {}
        /\ j.backup \in Backups /\ pc[p] # "replace"
        /\ \A e \in Dbs, t \in RowProtected : j.backup.rows[e][t] = rows[e][t]
    BY <1>1, <2>1, <2>2 DEF Harmless
  <2> QED BY <1>1, <2>2, <2>4, <2>5, <2>6, <2>7, Moved
<1>3. CASE /\ Goto(p, IF global["main"] = "raw" THEN "main" ELSE "prune")
           /\ UNCHANGED <<rows, job, faults>>
  <2> DEFINE at == IF global["main"] = "raw" THEN "main" ELSE "prune"
  <2>1. at \in PCs /\ at # "replace" /\ Goto(p, at) /\ job' = [job EXCEPT ![p] = job[p]]
    BY <1>3, Holds DEF PCs, Inv, TypeOK
  <2> HIDE DEF at
  <2> QED BY <1>1, <1>3, <2>1, Holds, MovedQuietly DEF Artifacts
<1>4. CASE Fails /\ RollBack(p) /\ UNCHANGED rows
  BY <1>1, <1>4, RollBackStep, FailsTyped DEF Artifacts, Inv
<1> QED BY <1>2, <1>3, <1>4 DEF UpdateRows

LEMMA TidyGlobalStep ==
  ASSUME Inv, NEW p \in Procs, TidyGlobal(p)
  PROVE  Inv'
<1>1. /\ UNCHANGED <<lock, leftover, Bounds>> /\ UNCHANGED <<rollout, rows>>
      /\ pc[p] \in GlobalNames /\ pc[p] \in Writing
  BY DEF TidyGlobal, Writing, GlobalNames
<1>2. CASE /\ global' = [global EXCEPT ![pc[p]] = "tidy"]
           /\ Goto(p, IF pc[p] = "main" THEN "bak" ELSE "prune")
           /\ UNCHANGED <<job, faults>>
  <2> DEFINE at == IF pc[p] = "main" THEN "bak" ELSE "prune"
  <2>1. at \in PCs /\ at # "replace" /\ Goto(p, at) /\ job' = [job EXCEPT ![p] = job[p]]
    BY <1>2, Holds DEF PCs, Inv, TypeOK
  <2>2. /\ global' \in [GlobalNames -> GlobalTexts] /\ faults' \in 0..MaxFaults
        /\ rollout' \in [Threads -> Rollouts] /\ rows' \in [Dbs -> Tables] /\ rows' = rows
    BY <1>1, <1>2, Holds DEF GlobalTexts
  <2>3. /\ job[p] \in Jobs /\ job[p].todo \cap Protected = {}
        /\ job[p].applied \cap Protected = {} /\ job[p].backup \in Backups
        /\ \A d \in Dbs, t \in RowProtected : job[p].backup.rows[d][t] = rows[d][t]
    BY <1>1, Holds DEF Harmless
  <2> HIDE DEF at
  <2> QED BY <1>1, <2>1, <2>2, <2>3, Moved
<1>3. CASE Fails /\ RollBack(p) /\ UNCHANGED global
  BY <1>1, <1>3, RollBackStep, FailsTyped DEF Artifacts, Inv
<1> QED BY <1>2, <1>3 DEF TidyGlobal

LEMMA PruneStep ==
  ASSUME Inv, NEW p \in Procs, Prune(p)
  PROVE  Inv'
<1>1. /\ UNCHANGED <<lock, leftover, Bounds>> /\ UNCHANGED Artifacts
      /\ pc[p] = "prune" /\ pc[p] \in Writing
  BY DEF Prune, Writing
<1>2. CASE /\ job' = [job EXCEPT ![p].result = Outcome(job[p].readable = Threads)]
           /\ Goto(p, "release") /\ UNCHANGED faults
  <2> DEFINE result == Outcome(job[p].readable = Threads)
             j == [job[p] EXCEPT !.result = result]
  <2>1. result \in {"failed", "partial", "synced"}
    BY DEF Outcome
  <2>2. "release" \in PCs /\ job' = [job EXCEPT ![p] = j] /\ faults' \in 0..MaxFaults
    BY <1>2, Holds DEF PCs
  <2> HIDE DEF result
  <2>3. /\ j \in Jobs /\ j.todo = job[p].todo /\ j.applied = job[p].applied
        /\ j.backup = job[p].backup
    BY <2>1, Holds DEF Jobs
  <2> HIDE DEF j
  <2> QED BY <1>1, <1>2, <2>2, <2>3, MovedQuietly
<1>3. CASE Fails /\ RollBack(p)
  BY <1>1, <1>3, RollBackStep, FailsTyped DEF Inv
<1> QED BY <1>2, <1>3 DEF Prune

LEMMA UndoRolloutStep ==
  ASSUME Inv, NEW p \in Procs, UndoRollout(p)
  PROVE  Inv'
<1>1. /\ UNCHANGED <<lock, leftover, Bounds>> /\ UNCHANGED <<rows, global, pc>>
      /\ pc[p] = "undo" /\ pc[p] \in Writing /\ pc[p] \in PCs /\ pc[p] # "replace"
  BY DEF UndoRollout, Writing, PCs
<1>2. /\ job[p] \in Jobs /\ Harmless(p) /\ job[p].backup \in Backups
      /\ \A d \in Dbs, t \in RowProtected : job[p].backup.rows[d][t] = rows[d][t]
  BY <1>1, Holds DEF Harmless
<1>3. ASSUME NEW t \in job[p].applied,
             rollout' = [rollout EXCEPT ![t] = job[p].backup.rollout[t]],
             job' = [job EXCEPT ![p].applied = @ \ {t}], UNCHANGED faults
      PROVE  Inv'
  <2> DEFINE j == [job[p] EXCEPT !.applied = job[p].applied \ {t}]
  <2>1. /\ j \in Jobs /\ j.todo = job[p].todo /\ j.applied \subseteq job[p].applied
        /\ j.backup = job[p].backup
    BY <1>2 DEF Jobs
  <2>2. t \in Threads /\ job[p].backup.rollout[t] \in Rollouts
    BY <1>2 DEF Jobs, Backups
  <2>3. /\ rollout' \in [Threads -> Rollouts] /\ rows' \in [Dbs -> Tables] /\ rows' = rows
        /\ global' \in [GlobalNames -> GlobalTexts] /\ faults' \in 0..MaxFaults
    BY <1>1, <1>3, <2>2, Holds
  <2>4. job' = [job EXCEPT ![p] = j]
    BY <1>3
  <2> HIDE DEF j
  <2>5. /\ j.todo \cap Protected = {} /\ j.applied \cap Protected = {}
        /\ j.backup \in Backups
        /\ \A d \in Dbs, r \in RowProtected : j.backup.rows[d][r] = rows[d][r]
    BY <1>2, <2>1 DEF Harmless
  <2> QED BY <1>1, <2>1, <2>3, <2>4, <2>5, Moved
<1>4. CASE /\ Fails /\ UNCHANGED rollout
           /\ job' = [job EXCEPT ![p] = [@ EXCEPT !.applied = {}, !.torn = TRUE]]
  <2> DEFINE j == [job[p] EXCEPT !.applied = {}, !.torn = TRUE]
  <2>1. /\ j \in Jobs /\ j.todo = job[p].todo /\ j.applied = {}
        /\ j.backup = job[p].backup
    BY <1>2 DEF Jobs
  <2>2. job' = [job EXCEPT ![p] = j] /\ faults' \in 0..MaxFaults
    BY <1>4, FailsTyped DEF Inv
  <2> HIDE DEF j
  <2> QED BY <1>1, <1>4, <2>1, <2>2, MovedQuietly DEF Artifacts
<1> QED BY <1>3, <1>4 DEF UndoRollout

LEMMA UndoOtherStep ==
  ASSUME Inv, NEW p \in Procs, UndoOther(p)
  PROVE  Inv'
<1>1. /\ UNCHANGED <<lock, leftover, Bounds>> /\ UNCHANGED <<rollout, pc>>
      /\ pc[p] = "undo" /\ pc[p] \in Writing /\ pc[p] \in PCs /\ pc[p] # "replace"
  BY DEF UndoOther, Writing, PCs
<1>2. /\ job[p] \in Jobs /\ Harmless(p) /\ job[p].backup \in Backups
      /\ \A d \in Dbs, t \in RowProtected : job[p].backup.rows[d][t] = rows[d][t]
  BY <1>1, Holds DEF Harmless
<1>3. ASSUME NEW a \in job[p].left,
             rows' = IF a \in Dbs THEN [rows EXCEPT ![a] = job[p].backup.rows[a]]
                     ELSE rows,
             global' = IF a \in GlobalNames
                       THEN [global EXCEPT ![a] = job[p].backup.global[a]] ELSE global,
             job' = [job EXCEPT ![p].left = @ \ {a}], UNCHANGED faults
      PROVE  Inv'
  <2> DEFINE j == [job[p] EXCEPT !.left = job[p].left \ {a}]
  <2>1. /\ j \in Jobs /\ j.todo = job[p].todo /\ j.applied = job[p].applied
        /\ j.backup = job[p].backup
    BY <1>2 DEF Jobs
  <2>2. /\ rows' \in [Dbs -> Tables]
        /\ \A d \in Dbs, t \in RowProtected : rows'[d][t] = rows[d][t]
    <3>1. CASE a \in Dbs
      BY <1>2, <3>1, <1>3, Holds DEF Backups
    <3>2. CASE a \notin Dbs
      BY <1>3, <3>2, Holds
    <3> QED BY <3>1, <3>2
  <2>3. global' \in [GlobalNames -> GlobalTexts]
    <3>1. CASE a \in GlobalNames
      BY <1>2, <3>1, <1>3, Holds DEF Backups
    <3>2. CASE a \notin GlobalNames
      BY <1>3, <3>2, Holds
    <3> QED BY <3>1, <3>2
  <2>4. job' = [job EXCEPT ![p] = j] /\ rollout' \in [Threads -> Rollouts]
        /\ faults' \in 0..MaxFaults
    BY <1>1, <1>3, Holds
  <2> HIDE DEF j
  <2>5. /\ j.todo \cap Protected = {} /\ j.applied \cap Protected = {}
        /\ j.backup \in Backups
        /\ \A d \in Dbs, r \in RowProtected : j.backup.rows[d][r] = rows[d][r]
    BY <1>2, <2>1 DEF Harmless
  <2> QED BY <1>1, <2>1, <2>2, <2>3, <2>4, <2>5, Moved
<1>4. ASSUME NEW a \in job[p].left, Fails, UNCHANGED <<rows, global>>,
             job' = [job EXCEPT ![p] =
                       [@ EXCEPT !.left = job[p].left \ {a}, !.torn = TRUE]]
      PROVE  Inv'
  <2> DEFINE j == [job[p] EXCEPT !.left = job[p].left \ {a}, !.torn = TRUE]
  <2>1. /\ j \in Jobs /\ j.todo = job[p].todo /\ j.applied = job[p].applied
        /\ j.backup = job[p].backup
    BY <1>2 DEF Jobs
  <2>2. job' = [job EXCEPT ![p] = j] /\ faults' \in 0..MaxFaults
    BY <1>4, FailsTyped DEF Inv
  <2> HIDE DEF j
  <2> QED BY <1>1, <1>4, <2>1, <2>2, MovedQuietly DEF Artifacts
<1> QED BY <1>3, <1>4 DEF UndoOther

LEMMA AbandonUndoStep ==
  ASSUME Inv, NEW p \in Procs, AbandonUndo(p)
  PROVE  Inv'
<1> DEFINE j == [job[p] EXCEPT !.applied = {}, !.left = {}, !.torn = TRUE]
<1>1. /\ UNCHANGED <<lock, leftover, Bounds>> /\ UNCHANGED Artifacts /\ pc' = pc
      /\ pc[p] \in Writing /\ pc[p] \in PCs /\ pc[p] # "replace"
  BY DEF AbandonUndo, Writing, PCs
<1>2. /\ j \in Jobs /\ j.todo = job[p].todo /\ j.applied = {}
      /\ j.backup = job[p].backup
  BY Holds DEF Jobs
<1>3. job' = [job EXCEPT ![p] = j] /\ faults' \in 0..MaxFaults
  BY FailsTyped DEF AbandonUndo, Inv
<1> HIDE DEF j
<1> QED BY <1>1, <1>2, <1>3, MovedQuietly

LEMMA AppendStep ==
  ASSUME Inv, NEW t \in Threads, AppendMessage(t)
  PROVE  Inv'
<1>1. rollout' \in [Threads -> Rollouts] /\ appended' \in 0..MaxAppends
  BY SyncAssumption DEF AppendMessage, Inv, TypeOK, Rollouts
<1>2. TypeOK'
  BY <1>1 DEF AppendMessage, Inv, TypeOK
<1>3. \A p \in Procs : Harmless(p)'
  BY DEF AppendMessage, Inv, Harmless
<1> QED BY <1>2, <1>3 DEF Inv

LEMMA InvInit == Init => Inv
<1> SUFFICES ASSUME Init PROVE Inv
  OBVIOUS
<1>1. \A p \in Procs : /\ job[p] = NoJob /\ pc[p] = "idle"
                       /\ job[p].todo = {} /\ job[p].applied = {}
                       /\ job[p].backup = NoBackup
  BY DEF Init, NoJob, Fresh
<1>2. \A p \in Procs : Harmless(p)
  BY <1>1, SyncAssumption DEF Harmless, Writing
<1>3. TypeOK
  BY FreshTyped, SyncAssumption DEF Init, Rollouts, GlobalTexts, PCs, TypeOK
<1> QED BY <1>2, <1>3 DEF Inv

LEMMA InvNext == Inv /\ [Next]_vars => Inv'
<1> SUFFICES ASSUME Inv, [Next]_vars PROVE Inv'
  OBVIOUS
<1>1. ASSUME NEW p \in Procs, Step(p) PROVE Inv'
  BY <1>1, StartStep, LockSteps, ScanStep, BackupStep, RecheckStep, ReplaceStep,
     UpdateRowsStep, TidyGlobalStep, PruneStep, UndoRolloutStep, UndoOtherStep,
     AbandonUndoStep DEF Step
<1>2. ASSUME NEW t \in Threads, AppendMessage(t) PROVE Inv'
  BY <1>2, AppendStep
<1>3. CASE UNCHANGED vars
  BY <1>3 DEF vars, Inv, TypeOK, Harmless
<1> QED BY <1>1, <1>2, <1>3 DEF Next

(* Every reachable state of the sync is well typed, races for a stale lock *)
(* included.                                                               *)
THEOREM TypeCorrect == Spec => []TypeOK
<1>1. Inv => TypeOK
  BY DEF Inv
<1> QED BY <1>1, InvInit, InvNext, PTL DEF Spec

----
(* What a step writes. *)
LEMMA StepSpares ==
  ASSUME Inv, [Next]_vars
  PROVE  /\ \A t \in Protected : rollout'[t].provider = rollout[t].provider
         /\ \A d \in Dbs, t \in RowProtected : rows'[d][t] = rows[d][t]
<1>0. Protected \subseteq Threads
  BY SyncAssumption DEF Protected, RowProtected
<1>1. ASSUME NEW p \in Procs, Replace(p)
      PROVE  \A t \in Protected : rollout'[t].provider = rollout[t].provider
  BY <1>1, Holds, <1>0 DEF Harmless, Replace
<1>2. ASSUME NEW p \in Procs, UndoRollout(p)
      PROVE  \A t \in Protected : rollout'[t].provider = rollout[t].provider
  BY Holds, <1>2, <1>0 DEF Harmless, UndoRollout
<1>3. ASSUME NEW u \in Threads, AppendMessage(u)
      PROVE  \A t \in Threads : rollout'[t].provider = rollout[t].provider
  BY <1>3 DEF AppendMessage, Inv, TypeOK, Rollouts
<1>4. ASSUME NEW p \in Procs, UpdateRows(p)
      PROVE  \A d \in Dbs, t \in RowProtected : rows'[d][t] = rows[d][t]
  <2>1. job[p].target \in Providers /\ rows \in [Dbs -> Tables]
    BY Holds DEF Jobs
  <2>2. ASSUME NEW e, rows' = [rows EXCEPT ![e] = Updated(@, job[p].readable, job[p].target)]
        PROVE  \A d \in Dbs, t \in RowProtected : rows'[d][t] = rows[d][t]
    BY <2>1, <2>2, UpdatedTyped
  <2> QED BY <1>4, <2>2 DEF UpdateRows
<1>5. ASSUME NEW p \in Procs, UndoOther(p)
      PROVE  \A d \in Dbs, t \in RowProtected : rows'[d][t] = rows[d][t]
  BY <1>5, Holds DEF Harmless, UndoOther, Writing
<1>6. ASSUME NEW p \in Procs, Step(p), ~Replace(p), ~UndoRollout(p)
      PROVE  rollout' = rollout
  BY <1>6 DEF Step, Start, TryLock, Reclaim, CreateAgain, WriteOwner, Scan, Backup,
     Recheck, UpdateRows, TidyGlobal, Prune, UndoOther, AbandonUndo, Undone, Release,
     Crash, Artifacts
<1>7. ASSUME NEW p \in Procs, Step(p), ~UpdateRows(p), ~UndoOther(p)
      PROVE  rows' = rows
  BY <1>7 DEF Step, Start, TryLock, Reclaim, CreateAgain, WriteOwner, Scan, Backup,
     Recheck, Replace, TidyGlobal, Prune, UndoRollout, AbandonUndo, Undone, Release,
     Crash, Artifacts
<1>8. CASE \E t \in Threads : AppendMessage(t)
  BY <1>0, <1>3, <1>8 DEF AppendMessage
<1>9. CASE UNCHANGED vars
  BY <1>9 DEF vars
<1>10. CASE \E p \in Procs : Step(p)
  BY <1>1, <1>2, <1>4, <1>5, <1>6, <1>7, <1>10
<1> QED BY <1>8, <1>9, <1>10 DEF Next

(* However many processes sync, race, fail and die: no step gives another  *)
(* provider to a subagent's rollout, or to a row that marks a subagent.    *)
THEOREM SubagentsSpared == Spec => SubagentsUntouched
<1>1. ASSUME Inv, [Next]_vars
      PROVE  [\A t \in MarkedByRow \cup MarkedByRollout :
                /\ t \in MarkedByRollout \/ t \notin UserThreads =>
                     rollout'[t].provider = rollout[t].provider
                /\ t \notin UserThreads /\ t \in MarkedByRow =>
                     \A d \in Dbs : rows'[d][t] = rows[d][t]]_vars
  BY <1>1, StepSpares DEF Protected, RowProtected
<1> QED BY <1>1, InvInit, InvNext, PTL DEF Spec, SubagentsUntouched

----
(* The lock. *)

Holding(p) == pc[p] \in {"own", "unlock"} \/ Inside(p)
Taking(p)  == pc[p] \in {"reclaim", "create"}

(* Everything between the lock and its release. *)
Works(p) ==
  \/ Scan(p) \/ Backup(p) \/ Recheck(p) \/ Replace(p) \/ UpdateRows(p)
  \/ TidyGlobal(p) \/ Prune(p) \/ UndoRollout(p) \/ UndoOther(p)
  \/ AbandonUndo(p) \/ Undone(p)

LEMMA WorksInside ==
  ASSUME TypeOK, NEW p \in Procs, Works(p)
  PROVE  /\ Inside(p) /\ Inside(p)' /\ UNCHANGED <<lock, leftover, Bounds>>
         /\ \A q \in Procs : q # p => pc'[q] = pc[q]
<1>1. /\ pc[p] \in Writing \cup {"scan", "backup"}
      /\ UNCHANGED <<lock, leftover, Bounds>>
  BY DEF Works, Scan, Backup, Recheck, Replace, UpdateRows, TidyGlobal, Prune, UndoRollout,
     UndoOther, AbandonUndo, Undone, Writing, GlobalNames
<1>2. PICK at \in PCs \ {"idle", "lock", "reclaim", "create", "own", "unlock"} :
        Goto(p, at) \/ (pc' = pc /\ at = pc[p])
  <2>1. CASE Scan(p) \/ Backup(p)
    BY <2>1 DEF Scan, Backup, PCs
  <2>2. CASE Recheck(p) \/ Replace(p)
    BY <2>2 DEF Recheck, Replace, PassBy, Unapply, PCs
  <2>3. CASE UpdateRows(p)
    BY <2>3 DEF UpdateRows, RollBack, PCs
  <2>4. CASE TidyGlobal(p) \/ Prune(p)
    BY <2>4 DEF TidyGlobal, Prune, RollBack, PCs
  <2>5. CASE UndoRollout(p) \/ UndoOther(p) \/ AbandonUndo(p) \/ Undone(p)
    BY <2>5 DEF UndoRollout, UndoOther, AbandonUndo, Undone, PCs
  <2> QED BY <2>1, <2>2, <2>3, <2>4, <2>5 DEF Works
<1>3. pc'[p] = at /\ \A q \in Procs : q # p => pc'[q] = pc[q]
  BY <1>2, PlaceReplaced
<1> QED BY <1>1, <1>2, <1>3 DEF Inside, Writing

(* The directory names who is inside, or nobody while its owner is being   *)
(* written; whoever takes over a stale one finds nobody holding it.        *)
LockInv ==
  /\ TypeOK
  /\ \A p \in dead : pc[p] = "idle"
  /\ \A p \in Procs :
       /\ pc[p] \in {"own", "unlock"} => lock = Nobody
       /\ Inside(p) => lock = p
  /\ \A p, q \in Procs : Holding(p) /\ Holding(q) => p = q
  /\ \A p, q \in Procs : Taking(p) => ~Holding(q)

(* A stale lock has no holder. *)
LEMMA StaleIsUnheld ==
  ASSUME LockInv, Stale
  PROVE  \A q \in Procs : ~Holding(q)
<1>1. CASE lock \in dead \cup {Gone}
  <2>1. ASSUME NEW q \in Procs, Holding(q) PROVE FALSE
    BY <2>1, <1>1, SyncAssumption DEF LockInv, Holding, Inside, TypeOK
  <2> QED BY <2>1
<1>2. CASE lock = Nobody /\ \A p \in Procs \ dead : pc[p] \notin {"own", "unlock"}
  <2>1. ASSUME NEW q \in Procs, Holding(q) PROVE FALSE
    BY <2>1, <1>2, SyncAssumption DEF Holding, Inside, LockInv
  <2> QED BY <2>1
<1> QED BY <1>1, <1>2 DEF Stale

(* Nor has a free one. *)
LEMMA FreeIsUnheld ==
  ASSUME LockInv, lock = Free
  PROVE  \A q \in Procs : ~Holding(q)
BY SyncAssumption DEF LockInv, Holding

(* One process moves; what it and the directory are afterwards decides. *)
OneMoves(p) ==
  /\ \A q \in Procs : q # p => pc'[q] = pc[q]
  /\ dead' \subseteq dead \cup {p}
  /\ p \in dead' => pc'[p] = "idle"

LEMMA OthersAsBefore ==
  ASSUME NEW p \in Procs, OneMoves(p), NEW q \in Procs, q # p
  PROVE  /\ (Holding(q)' <=> Holding(q)) /\ (Inside(q)' <=> Inside(q))
         /\ (Taking(q)' <=> Taking(q))
         /\ pc'[q] \in {"own", "unlock"} <=> pc[q] \in {"own", "unlock"}
BY DEF OneMoves, Holding, Inside, Taking

LEMMA DeadStayIdle ==
  ASSUME LockInv, NEW p \in Procs, OneMoves(p)
  PROVE  \A q \in dead' : pc'[q] = "idle"
BY DEF LockInv, TypeOK, OneMoves

(* It holds the lock alone, nobody is about to take it over. *)
LEMMA Taken ==
  ASSUME LockInv, TypeOK', NEW p \in Procs, OneMoves(p),
         \A q \in Procs : q # p => ~Holding(q) /\ ~Taking(q),
         \/ pc'[p] \in {"own", "unlock"} /\ lock' = Nobody
         \/ Inside(p)' /\ lock' = p
  PROVE  LockInv'
<1>1. \A q \in Procs : q # p => ~Holding(q)' /\ ~Taking(q)'
  BY OthersAsBefore
<1>2. ~Taking(p)' /\ Holding(p)'
  BY DEF Holding, Inside, Taking
<1>3. \A q \in Procs : /\ pc'[q] \in {"own", "unlock"} => lock' = Nobody
                       /\ Inside(q)' => lock' = q
  BY <1>1 DEF Holding, Inside
<1>4. /\ \A r, q \in Procs : Holding(r)' /\ Holding(q)' => r = q
      /\ \A r, q \in Procs : Taking(r)' => ~Holding(q)'
  BY <1>1, <1>2
<1> QED BY <1>3, <1>4, DeadStayIdle DEF LockInv

(* Nobody holds it. *)
LEMMA Dropped ==
  ASSUME LockInv, TypeOK', NEW p \in Procs, OneMoves(p),
         \A q \in Procs : q # p => ~Holding(q), ~Holding(p)'
  PROVE  LockInv'
<1>1. \A q \in Procs : ~Holding(q)'
  BY OthersAsBefore
<1>2. \A q \in Procs : pc'[q] \notin {"own", "unlock"} /\ ~Inside(q)'
  BY <1>1 DEF Holding
<1> QED BY <1>1, <1>2, DeadStayIdle DEF LockInv

(* It has nothing to do with the lock. *)
LEMMA Aside ==
  ASSUME LockInv, TypeOK', NEW p \in Procs, OneMoves(p), lock' = lock,
         ~Holding(p)', ~Taking(p)'
  PROVE  LockInv'
<1>1. \A q \in Procs : Holding(q)' => Holding(q) /\ q # p
  BY OthersAsBefore
<1>2. \A q \in Procs : Taking(q)' => Taking(q)
  BY OthersAsBefore
<1>3. \A q \in Procs : /\ pc'[q] \in {"own", "unlock"} => lock' = Nobody
                       /\ Inside(q)' => lock' = q
  BY <1>1, OthersAsBefore DEF LockInv, Holding
<1> QED BY <1>1, <1>2, <1>3, DeadStayIdle DEF LockInv

(* A place of one's own in the code: the premises above, for Goto and End. *)
LEMMA GoneTo ==
  ASSUME LockInv, NEW p \in Procs, NEW at \in PCs, Goto(p, at),
         dead' = dead, pc[p] # "idle" \/ p \notin dead
  PROVE  OneMoves(p) /\ pc'[p] = at
BY PlaceReplaced DEF LockInv, OneMoves

(* Those who hold or take keep the others out. *)
LEMMA Alone ==
  ASSUME LockInv, NEW p \in Procs
  PROVE  /\ Holding(p) => \A q \in Procs : q # p => ~Holding(q) /\ ~Taking(q)
         /\ Taking(p) => \A q \in Procs : ~Holding(q)
BY DEF LockInv

(* A process that makes the directory is the only one at it. *)
LEMMA Made ==
  ASSUME LockInv, TypeOK', NEW p \in Procs, lock = Free, lock' = Nobody, Goto(p, "own"),
         pc[p] # "idle", dead' = dead, Undisturbed
  PROVE  LockInv'
<1>1. "own" \in PCs
  BY DEF PCs
<1>2. OneMoves(p) /\ pc'[p] = "own"
  BY <1>1, GoneTo
<1>3. \A q \in Procs : ~Holding(q)
  BY FreeIsUnheld
<1>4. \A q \in Procs : q # p => ~Taking(q)
  BY <1>2, SyncAssumption DEF OneMoves, Taking, Undisturbed
<1> QED BY <1>2, <1>3, <1>4, Taken

----
LEMMA TryLockHolds ==
  ASSUME LockInv, TypeOK', NEW p \in Procs, TryLock(p), Undisturbed
  PROVE  LockInv'
<1>1. pc[p] = "lock" /\ pc[p] # "idle" /\ dead' = dead
  BY DEF TryLock, Bounds
<1>2. CASE lock = Free /\ lock' = Nobody /\ Goto(p, "own")
  BY <1>1, <1>2, Made
<1>3. CASE Stale /\ Goto(p, "reclaim")
  BY <1>1, <1>3, GoneTo, StaleIsUnheld, Dropped DEF PCs, Holding, Inside
<1>4. CASE End(p) /\ UNCHANGED lock
  BY <1>1, <1>4, GoneTo, Aside DEF PCs, End, Holding, Inside, Taking
<1> QED BY <1>2, <1>3, <1>4 DEF TryLock

LEMMA ReclaimHolds ==
  ASSUME LockInv, TypeOK', NEW p \in Procs, Reclaim(p)
  PROVE  LockInv'
<1>1. pc[p] = "reclaim" /\ pc[p] # "idle" /\ dead' = dead
  BY DEF Reclaim, Bounds
<1>2. \A q \in Procs : ~Holding(q)
  BY <1>1, Alone DEF Taking
<1>3. PICK at \in {"idle", "create"} : Goto(p, at)
  BY DEF Reclaim, End
<1>4. at \in PCs
  BY <1>3 DEF PCs
<1>5. OneMoves(p) /\ pc'[p] = at
  BY <1>1, <1>3, <1>4, GoneTo
<1>6. ~Holding(p)'
  BY <1>5 DEF Holding, Inside
<1> QED BY <1>2, <1>5, <1>6, Dropped

LEMMA CreateAgainHolds ==
  ASSUME LockInv, TypeOK', NEW p \in Procs, CreateAgain(p), Undisturbed
  PROVE  LockInv'
<1>1. pc[p] = "create" /\ pc[p] # "idle" /\ dead' = dead
  BY DEF CreateAgain, Bounds
<1>2. CASE lock = Free /\ lock' = Nobody /\ Goto(p, "own")
  BY <1>1, <1>2, Made
<1>3. CASE End(p) /\ UNCHANGED lock
  BY <1>1, <1>3, GoneTo, Aside DEF PCs, End, Holding, Inside, Taking
<1> QED BY <1>2, <1>3 DEF CreateAgain

LEMMA WriteOwnerHolds ==
  ASSUME LockInv, TypeOK', NEW p \in Procs, WriteOwner(p)
  PROVE  LockInv'
<1>1. pc[p] = "own" /\ pc[p] # "idle" /\ dead' = dead /\ lock = Nobody /\ Holding(p)
  BY DEF WriteOwner, Bounds, LockInv, Holding
<1>2. \A q \in Procs : q # p => ~Holding(q) /\ ~Taking(q)
  BY <1>1, Alone
<1>3. CASE lock' = p /\ Goto(p, "scan")
  BY <1>1, <1>3, GoneTo, <1>2, Taken DEF PCs, Inside
<1>4. CASE Goto(p, "unlock") /\ UNCHANGED lock
  BY <1>1, <1>4, GoneTo, <1>2, Taken DEF PCs
<1> QED BY <1>1, <1>3, <1>4, SyncAssumption DEF WriteOwner, AfterFailedOwner

(* Ends of a sync: the lock is given back, or stays behind with the dead. *)
LEMMA EndHolds ==
  ASSUME LockInv, TypeOK', NEW p \in Procs, Release(p) \/ Crash(p)
  PROVE  LockInv'
<1>1. OneMoves(p) /\ pc'[p] = "idle"
  BY EndIs DEF Release, Crash, Bounds, OneMoves, LockInv
<1>2. ~Holding(p)' /\ ~Taking(p)'
  BY <1>1 DEF Holding, Inside, Taking
<1>3. CASE Holding(p)
  BY <1>1, <1>2, <1>3, Alone, Dropped
<1>4. CASE ~Holding(p)
  <2>1. lock' = lock
    BY <1>4 DEF Release, Crash, Holding, Inside
  <2> QED BY <1>1, <1>2, <2>1, Aside
<1> QED BY <1>3, <1>4

(* All that is done inside. *)
LEMMA InsideHolds ==
  ASSUME LockInv, TypeOK', NEW p \in Procs, Works(p)
  PROVE  LockInv'
<1>1. Inside(p) /\ Inside(p)' /\ lock' = lock /\ dead' = dead /\ OneMoves(p)
  BY WorksInside DEF LockInv, Inside, OneMoves, Bounds
<1>2. Holding(p) /\ lock = p
  BY <1>1 DEF Holding, LockInv
<1> QED BY <1>1, <1>2, Alone, Taken

LEMMA StartHolds ==
  ASSUME LockInv, TypeOK', NEW p \in Procs, Start(p)
  PROVE  LockInv'
<1>1. "lock" \in PCs
  BY DEF PCs
<1>2. OneMoves(p) /\ pc'[p] = "lock"
  BY <1>1, GoneTo DEF Start, Bounds
<1>3. ~Holding(p)' /\ ~Taking(p)'
  BY <1>2 DEF Holding, Inside, Taking
<1> QED BY <1>2, <1>3, Aside DEF Start

LEMMA LockInvInit == Init => LockInv
<1> SUFFICES ASSUME Init PROVE LockInv
  OBVIOUS
<1>1. TypeOK
  BY InvInit DEF Inv
<1>2. dead = {} /\ \A p \in Procs : pc[p] = "idle"
  BY DEF Init
<1>3. \A p \in Procs : ~Holding(p) /\ ~Taking(p) /\ ~Inside(p)
                       /\ pc[p] \notin {"own", "unlock"}
  BY <1>2 DEF Holding, Taking, Inside
<1> QED BY <1>1, <1>2, <1>3 DEF LockInv

LEMMA LockInvNext == Inv /\ LockInv /\ [Next /\ Undisturbed]_vars => LockInv'
<1> SUFFICES ASSUME Inv, LockInv, [Next /\ Undisturbed]_vars PROVE LockInv'
  OBVIOUS
<1>1. TypeOK'
  BY InvNext DEF Inv
<1>2. ASSUME NEW p \in Procs, Step(p), Undisturbed PROVE LockInv'
  BY <1>1, <1>2, StartHolds, TryLockHolds, ReclaimHolds, CreateAgainHolds,
     WriteOwnerHolds, InsideHolds, EndHolds DEF Step, Works
<1>3. CASE \E t \in Threads : AppendMessage(t)
  BY <1>1, <1>3 DEF AppendMessage, LockInv, Holding, Taking, Inside
<1>4. CASE UNCHANGED vars
  BY <1>1, <1>4 DEF vars, LockInv, Holding, Taking, Inside
<1> QED BY <1>2, <1>3, <1>4 DEF Next

(* The lock directory admits one process at a time, however many there     *)
(* are, whichever of them die with it and whatever fails, as long as no    *)
(* two of them are at the same stale lock.                                 *)
THEOREM OneAtATime == UndisturbedSpec => []OneSyncer
<1>1. LockInv => OneSyncer
  BY DEF LockInv, OneSyncer, Holding
<1>2. Init => Inv /\ LockInv
  BY InvInit, LockInvInit
<1>3. Inv /\ LockInv /\ [Next /\ Undisturbed]_vars => (Inv /\ LockInv)'
  BY InvNext, LockInvNext
<1> QED BY <1>1, <1>2, <1>3, PTL DEF UndisturbedSpec

----
(* What becomes of the lock directory. *)

(* It has a holder, or was left where nobody can remove it any more. *)
Returned == lock # Free => leftover \/ \E p \in Procs : Holding(p)

(* A step that leaves the directory alone, and whoever moves a holder. *)
LEMMA KeptReturned ==
  ASSUME Inv, Returned, NEW p \in Procs, UNCHANGED <<lock, leftover>>,
         \A q \in Procs : q # p => pc'[q] = pc[q], Holding(p) => Holding(p)'
  PROVE  Returned'
BY DEF Returned, Holding, Inside

LEMMA StepReturns ==
  ASSUME Inv, Returned, NEW p \in Procs, Step(p)
  PROVE  Returned'
<1>1. CASE Start(p)
  BY <1>1, PlaceReplaced, KeptReturned DEF PCs, Start, Inv, Holding, Inside
<1>2. CASE TryLock(p) \/ CreateAgain(p)
  <2>1. CASE Goto(p, "own")
    BY <2>1, PlaceReplaced DEF PCs, Inv, Returned, Holding
  <2>2. CASE lock' = lock
    <3>1. ~Holding(p) /\ UNCHANGED leftover
      BY <1>2 DEF TryLock, CreateAgain, Holding, Inside
    <3>2. PICK at \in {"idle", "reclaim", "own"} : Goto(p, at)
      BY <1>2 DEF TryLock, CreateAgain, End
    <3>3. at \in PCs
      BY <3>2 DEF PCs
    <3> QED BY <2>2, <3>1, <3>2, <3>3, PlaceReplaced, KeptReturned DEF Inv
  <2> QED BY <1>2, <2>1, <2>2 DEF TryLock, CreateAgain
<1>3. CASE WriteOwner(p)
  <2>1. PICK at \in {"scan", "unlock"} : Goto(p, at)
    BY <1>3 DEF WriteOwner, AfterFailedOwner
  <2>2. at \in PCs
    BY <2>1 DEF PCs
  <2> QED BY <2>1, <2>2, PlaceReplaced DEF Inv, Returned, Holding, Inside
<1>4. CASE Works(p)
  BY <1>4, WorksInside, KeptReturned DEF Inv, Holding
<1>5. CASE Reclaim(p) \/ Release(p)
  <2>1. CASE Removed \/ NotRemoved
    BY <2>1 DEF Removed, NotRemoved, Returned
  <2>2. CASE lock' = Free
    BY <2>2 DEF Returned
  <2> QED BY <1>5, <2>1, <2>2 DEF Reclaim, Release
<1>6. CASE Crash(p)
  <2>1. /\ UNCHANGED lock /\ \A q \in Procs : q # p => pc'[q] = pc[q]
        /\ Holding(p) => leftover'
        /\ ~Holding(p) => UNCHANGED leftover
        /\ leftover => leftover'
    BY <1>6, EndIs DEF Holding, Inside, Crash, Inv, TypeOK
  <2> QED BY <2>1 DEF Returned, Holding, Inside
<1> QED BY <1>1, <1>2, <1>3, <1>4, <1>5, <1>6 DEF Step, Works

(* However syncs race, fail and die, and however many at a stale lock: no  *)
(* sync that ends leaves the directory there, unless a process was killed  *)
(* with it or the removal failed.                                          *)
THEOREM LockComesBack == Spec => []LockIsReturned
<1>1. Init => Returned
  BY DEF Init, Returned
<1>2. Inv /\ Returned /\ [Next]_vars => Returned'
  <2>1. ASSUME NEW t \in Threads, AppendMessage(t), Returned PROVE Returned'
    BY <2>1 DEF AppendMessage, Returned, Holding, Inside
  <2>2. ASSUME UNCHANGED vars, Returned PROVE Returned'
    BY <2>2 DEF vars, Returned, Holding, Inside
  <2> QED BY <2>1, <2>2, StepReturns DEF Next
<1>3. Returned => LockIsReturned
  BY DEF Returned, LockIsReturned, Holding, Inside
<1> QED BY <1>1, <1>2, <1>3, InvInit, InvNext, PTL DEF Spec
----
(* What a sync has done and can still take back. *)

Advancing == {"backup", "apply", "replace", "rows", "main", "bak", "prune"}

(* Nothing is reported before the end; nothing is backed up or applied     *)
(* before the backup; the rollouts are done when the databases begin.      *)
InOrder(p) ==
  LET j == job[p]
  IN /\ pc[p] # "release" => j.result = "failed"
     /\ pc[p] \notin Writing \cup {"release"} => j.backup = NoBackup /\ j.applied = {}
     /\ pc[p] \in {"backup", "apply", "replace"} => j.left = Dbs
     /\ pc[p] \in {"rows", "main", "bak", "prune"} => j.todo = {}
     /\ pc[p] = "rows" => j.left \subseteq Dbs
     /\ pc[p] = "replace" => j.at \in j.todo

RolloutsSet(p) ==
  \A t \in job[p].readable \ Excluded(job[p].readable) :
    t \in job[p].todo \/ rollout[t].provider = job[p].target

RowsSet(p, dbs) ==
  \A d \in dbs, t \in Threads \ Excluded(job[p].readable) :
    rows[d][t] \in {job[p].target, NoRow}

(* What is behind it has the target provider, and what it reports is so. *)
OnTarget(p) ==
  /\ pc[p] \in Advancing => RolloutsSet(p)
  /\ pc[p] = "rows" => RowsSet(p, Dbs \ job[p].left)
  /\ pc[p] \in {"main", "bak", "prune"} => RowsSet(p, Dbs)
  /\ pc[p] \in {"bak", "prune"} => global["main"] # "raw"

Reported(p) ==
  LET j == job[p]
  IN pc[p] = "release" /\ j.result # "failed" =>
       /\ j.result = "synced" => j.readable = Threads
       /\ \A t \in Threads \ Excluded(j.readable) :
            /\ t \in j.readable => rollout[t].provider = j.target
            /\ \A d \in Dbs : rows[d][t] \in {j.target, NoRow}
       /\ global["main"] # "raw"

(* The databases and global files that may differ from the backup. *)
Written(p) ==
  {a \in Dbs \cup GlobalNames :
     \/ pc[p] = "rows" /\ a \in Dbs \ job[p].left
     \/ pc[p] \in {"main", "bak", "prune"} /\ a \in Dbs
     \/ pc[p] \in {"bak", "prune"} /\ a = "main"
     \/ pc[p] = "prune" /\ a = "bak"
     \/ pc[p] = "undo" /\ a \in job[p].left}

(* All else is as the backup has it, until a part of the undoing fails. *)
Restorable(p) ==
  LET j == job[p]
  IN j.backup # NoBackup /\ ~j.torn /\ j.result = "failed" =>
       /\ \A t \in Threads \ j.applied :
            rollout[t].provider = j.backup.rollout[t].provider
       /\ pc[p] = "release" => j.applied = {}
       /\ \A d \in Dbs \ Written(p) : rows[d] = j.backup.rows[d]
       /\ \A g \in GlobalNames \ Written(p) : global[g] = j.backup.global[g]

(* Everything this file shows of a process in its own sync. *)
Good(p) == InOrder(p) /\ OnTarget(p) /\ Reported(p) /\ Restorable(p)

WorkInv == \A p \in Procs : Good(p)

(* Who is inside is there alone: the files are nobody else's concern. *)
LEMMA OnlyItsOwn ==
  ASSUME LockInv, WorkInv, NEW p \in Procs, Good(p)',
         \A q \in Procs : q # p => pc'[q] = pc[q] /\ job'[q] = job[q],
         UNCHANGED Artifacts \/ Inside(p)
  PROVE  WorkInv'
<1>1. ASSUME NEW q \in Procs, q # p PROVE Good(q)'
  <2>1. Good(q) /\ pc'[q] = pc[q] /\ job'[q] = job[q]
    BY <1>1 DEF WorkInv
  <2>2. InOrder(q)'
    BY <2>1 DEF Good, InOrder
  <2>3. CASE UNCHANGED Artifacts
    BY <2>1, <2>3, <2>2 DEF Good, OnTarget, Reported, RolloutsSet, RowsSet, Artifacts, Restorable,
      Written
  <2>4. CASE Inside(p)
    BY <1>1, <2>1, <2>4, <2>2 DEF LockInv, Holding, Inside, OnTarget, Reported, Advancing, InOrder,
      Restorable, Writing, Good
  <2> QED BY <2>3, <2>4
<1> QED BY <1>1 DEF WorkInv

(* Before its backup a sync has nothing to answer for. *)
LEMMA GoodAtRest ==
  ASSUME NEW p \in Procs,
         pc'[p] \in {"idle", "lock", "reclaim", "create", "own", "unlock", "scan", "release"},
         job'[p].result = "failed", job'[p].backup = NoBackup, job'[p].applied = {}
  PROVE  Good(p)'
BY DEF Good, InOrder, OnTarget, Reported, Restorable, Writing, Advancing

LEMMA FreshAtRest ==
  ASSUME NEW j, j = NoJob \/ \E target \in Providers : j = Fresh(target)
  PROVE  j.result = "failed" /\ j.backup = NoBackup /\ j.applied = {}
BY DEF Fresh, NoJob

(* What a step may do to the files without losing the way back. *)
LEMMA StillRestorable ==
  ASSUME NEW p \in Procs, Restorable(p),
         pc'[p] # "release" \/ job'[p].applied = {},
         job'[p].backup = job[p].backup, job[p].result = "failed",
         job[p].torn => job'[p].torn,
         \A t \in Threads \ job'[p].applied :
           \/ t \notin job[p].applied /\ rollout'[t].provider = rollout[t].provider
           \/ rollout'[t].provider = job[p].backup.rollout[t].provider,
         \A d \in Dbs \ Written(p)' :
           \/ d \notin Written(p) /\ rows'[d] = rows[d]
           \/ rows'[d] = job[p].backup.rows[d],
         \A g \in GlobalNames \ Written(p)' :
           \/ g \notin Written(p) /\ global'[g] = global[g]
           \/ global'[g] = job[p].backup.global[g]
  PROVE  Restorable(p)'
BY DEF Restorable

----
(* The steps before the first write. *)

(* The steps about the lock, and the ends of a sync. *)
LEMMA RestingStep ==
  ASSUME Inv, LockInv, WorkInv, NEW p \in Procs,
         \/ Start(p) \/ TryLock(p) \/ Reclaim(p) \/ CreateAgain(p) \/ WriteOwner(p)
         \/ Release(p) \/ Crash(p)
  PROVE  WorkInv'
<1>1. UNCHANGED Artifacts /\ TypeOK
  BY DEF Start, TryLock, Reclaim, CreateAgain, WriteOwner, Release, Crash, Artifacts, Inv
<1>2. CASE End(p)
  BY <1>1, <1>2, EndIs, FreshAtRest, GoodAtRest, OnlyItsOwn
<1>3. CASE Start(p)
  <2>1. PICK target \in Providers : job' = [job EXCEPT ![p] = Fresh(target)]
    BY <1>3 DEF Start
  <2>2. "lock" \in PCs /\ Goto(p, "lock") /\ Fresh(target) \in Jobs
    BY <1>3, FreshTyped DEF Start, PCs
  <2>3. /\ pc'[p] = "lock" /\ job'[p] = Fresh(target)
        /\ \A q \in Procs : q # p => pc'[q] = pc[q] /\ job'[q] = job[q]
    BY <1>1, <2>1, <2>2, PlaceReplaced, JobReplaced
  <2>4. Good(p)'
    BY <2>3, FreshAtRest, GoodAtRest
  <2> QED BY <1>1, <2>3, <2>4, OnlyItsOwn
<1>4. CASE \E at \in {"reclaim", "create", "own", "unlock", "scan"} :
             /\ Goto(p, at) /\ UNCHANGED job
             /\ pc[p] \in {"lock", "reclaim", "create", "own"}
  <2>1. PICK at \in {"reclaim", "create", "own", "unlock", "scan"} : Goto(p, at)
    BY <1>4
  <2>2. at \in PCs
    BY <2>1 DEF PCs
  <2>3. pc'[p] = at /\ \A q \in Procs : q # p => pc'[q] = pc[q]
    BY <1>1, <2>1, <2>2, PlaceReplaced
  <2>4. /\ job'[p].result = "failed" /\ job'[p].backup = NoBackup
        /\ job'[p].applied = {}
    BY <1>4 DEF WorkInv, Good, InOrder, Writing
  <2>5. Good(p)'
    BY <2>3, <2>4, GoodAtRest
  <2> QED BY <1>1, <1>4, <2>3, <2>5, OnlyItsOwn
<1>5. Release(p) \/ Crash(p) => End(p)
  BY DEF Release, Crash
<1>6. ASSUME TryLock(p) \/ Reclaim(p) \/ CreateAgain(p) \/ WriteOwner(p), ~End(p)
      PROVE  \E at \in {"reclaim", "create", "own", "unlock", "scan"} :
               /\ Goto(p, at) /\ UNCHANGED job
               /\ pc[p] \in {"lock", "reclaim", "create", "own"}
  <2>1. CASE TryLock(p)
    BY <1>6, <2>1 DEF TryLock
  <2>2. CASE Reclaim(p)
    BY <1>6, <2>2 DEF Reclaim
  <2>3. CASE CreateAgain(p)
    BY <1>6, <2>3 DEF CreateAgain
  <2>4. CASE WriteOwner(p)
    BY <1>6, <2>4 DEF WriteOwner, AfterFailedOwner
  <2> QED BY <1>6, <2>1, <2>2, <2>3, <2>4
<1> QED BY <1>2, <1>3, <1>4, <1>5, <1>6

(* A sync that moves on with another job, or with the one it has. *)
LEMMA MovesOn ==
  ASSUME TypeOK, NEW p \in Procs, NEW j \in Jobs, NEW at \in PCs,
         job' = [job EXCEPT ![p] = j], Goto(p, at) \/ (pc' = pc /\ at = pc[p])
  PROVE  /\ job'[p] = j /\ pc'[p] = at
         /\ \A q \in Procs : q # p => pc'[q] = pc[q] /\ job'[q] = job[q]
<1>1. job'[p] = j /\ \A q \in Procs : q # p => job'[q] = job[q]
  BY JobReplaced
<1>2. pc'[p] = at /\ \A q \in Procs : q # p => pc'[q] = pc[q]
  BY PlaceReplaced
<1> QED BY <1>1, <1>2

(* It gives up before its backup. *)
LEMMA GivesUp ==
  ASSUME Inv, LockInv, WorkInv, NEW p \in Procs, pc[p] \in {"scan", "backup"},
         Goto(p, "release"), UNCHANGED job, UNCHANGED Artifacts
  PROVE  WorkInv'
<1>1. "release" \in PCs
  BY DEF PCs
<1>2. pc'[p] = "release" /\ \A q \in Procs : q # p => pc'[q] = pc[q]
  BY <1>1, PlaceReplaced DEF Inv
<1>3. job[p].result = "failed" /\ job[p].backup = NoBackup /\ job[p].applied = {}
  BY DEF WorkInv, Good, InOrder, Writing
<1>4. Good(p)'
  BY <1>2, <1>3, GoodAtRest
<1> QED BY <1>2, <1>4, OnlyItsOwn

(* With nothing to do everything has its target already. *)
LEMMA NothingToDoIsDone ==
  ASSUME TypeOK, NEW readable \in SUBSET Threads, NEW target \in Providers,
         NothingToDo(readable, target)
  PROVE  /\ \A t \in Threads \ Excluded(readable) :
              /\ t \in readable => rollout[t].provider = target
              /\ \A d \in Dbs : rows[d][t] \in {target, NoRow}
         /\ global["main"] # "raw"
<1>1. ASSUME NEW t \in Threads \ Excluded(readable), NEW d \in Dbs
      PROVE  rows[d][t] \in {target, NoRow}
  BY <1>1 DEF Updated, NothingToDo
<1>2. ASSUME NEW t \in readable \ Excluded(readable)
      PROVE  rollout[t].provider = target
  BY <1>2 DEF NothingToDo, ToRewrite
<1> QED BY <1>1, <1>2 DEF NothingToDo

LEMMA ScanWorks ==
  ASSUME Inv, LockInv, WorkInv, NEW p \in Procs, Scan(p)
  PROVE  WorkInv'
<1>1. /\ UNCHANGED Artifacts /\ pc[p] = "scan" /\ TypeOK
      /\ job[p] \in Jobs /\ job[p].target \in Providers
  BY Holds DEF Scan, Artifacts, Inv, Jobs
<1>2. job[p].result = "failed" /\ job[p].backup = NoBackup /\ job[p].applied = {}
  BY <1>1 DEF WorkInv, Good, InOrder, Writing
<1>3. ASSUME NEW readable \in SUBSET Threads, NEW idle \in BOOLEAN,
             idle = NothingToDo(readable, job[p].target),
             job' = [job EXCEPT ![p] =
                       [@ EXCEPT !.seen = rollout, !.readable = readable,
                                 !.todo = ToRewrite(readable, job[p].target), !.left = Dbs,
                                 !.result = IF idle THEN Outcome(readable = Threads)
                                           ELSE job[p].result]],
             Goto(p, IF idle THEN "release" ELSE "backup")
      PROVE  WorkInv'
  <2> DEFINE todo == ToRewrite(readable, job[p].target)
             result == IF idle THEN Outcome(readable = Threads) ELSE job[p].result
             j == [job[p] EXCEPT !.seen = rollout, !.readable = readable, !.todo = todo,
                                 !.left = Dbs, !.result = result]
             at == IF idle THEN "release" ELSE "backup"
  <2>1. /\ todo \in SUBSET Threads
        /\ \A t \in readable \ Excluded(readable) :
             t \in todo \/ rollout[t].provider = job[p].target
    BY DEF ToRewrite
  <2>2. /\ result \in {"failed", "partial", "synced"}
        /\ result = "synced" => readable = Threads
    BY <1>2 DEF Outcome
  <2>3. at \in PCs /\ Goto(p, at) /\ job' = [job EXCEPT ![p] = j]
    BY <1>3 DEF PCs
  <2>4. rollout \in [Threads -> Rollouts]
    BY <1>1 DEF TypeOK
  <2>5. ~idle => result = "failed" /\ at = "backup"
    BY <1>2
  <2>6. idle => at = "release"
    OBVIOUS
  <2> HIDE DEF todo, result, at
  <2>7. /\ j \in Jobs /\ j.todo = todo /\ j.readable = readable /\ j.left = Dbs
        /\ j.target = job[p].target /\ j.result = result
        /\ j.applied = {} /\ j.backup = NoBackup
    BY <1>1, <1>2, <2>1, <2>2, <2>4 DEF Jobs
  <2> HIDE DEF j
  <2>8. /\ job'[p] = j /\ pc'[p] = at
        /\ \A q \in Procs : q # p => pc'[q] = pc[q] /\ job'[q] = job[q]
    BY <1>1, <2>3, <2>7, MovesOn
  <2>9. CASE idle
    <3>1. pc'[p] = "release"
      BY <2>6, <2>8, <2>9
    <3>2. /\ \A t \in Threads \ Excluded(readable) :
               /\ t \in readable => rollout[t].provider = job[p].target
               /\ \A d \in Dbs : rows[d][t] \in {job[p].target, NoRow}
          /\ global["main"] # "raw"
      BY <1>1, <1>3, <2>9, NothingToDoIsDone
    <3>3. Reported(p)'
      BY <1>1, <2>2, <2>7, <2>8, <3>2 DEF Reported, Artifacts, Excluded
    <3>4. InOrder(p)' /\ OnTarget(p)' /\ Restorable(p)'
      BY <2>7, <2>8, <3>1 DEF InOrder, OnTarget, Restorable, Advancing
    <3>5. Good(p)'
      BY <3>3, <3>4 DEF Good
    <3> QED BY <1>1, <2>8, <3>5, OnlyItsOwn
  <2>10. CASE ~idle
    <3>1. pc'[p] = "backup" /\ job'[p].result = "failed"
      BY <2>5, <2>7, <2>8, <2>10
    <3>2. RolloutsSet(p)'
      BY <1>1, <2>1, <2>7, <2>8 DEF RolloutsSet, Artifacts, Excluded
    <3>3. InOrder(p)' /\ OnTarget(p)' /\ Restorable(p)' /\ Reported(p)'
      BY <2>7, <2>8, <3>1, <3>2 DEF InOrder, OnTarget, Restorable, Reported
    <3>4. Good(p)'
      BY <3>3 DEF Good
    <3> QED BY <1>1, <2>8, <3>4, OnlyItsOwn
  <2> QED BY <2>9, <2>10
<1>4. CASE Fails /\ Goto(p, "release") /\ UNCHANGED job
  BY <1>1, <1>4, GivesUp
<1> QED BY <1>3, <1>4 DEF Scan, NothingToDo

LEMMA BackupWorks ==
  ASSUME Inv, LockInv, WorkInv, NEW p \in Procs, Backup(p)
  PROVE  WorkInv'
<1>1. /\ UNCHANGED Artifacts /\ pc[p] = "backup" /\ TypeOK /\ job[p] \in Jobs
  BY Holds DEF Backup, Artifacts, Inv
<1>2. /\ job[p].result = "failed" /\ job[p].applied = {} /\ job[p].left = Dbs
      /\ RolloutsSet(p)
  BY <1>1 DEF WorkInv, Good, InOrder, OnTarget, Writing, Advancing
<1>3. CASE /\ job' = [job EXCEPT ![p].backup = Current]
           /\ Goto(p, IF job[p].todo = {} THEN "rows" ELSE "apply")
  <2> DEFINE j == [job[p] EXCEPT !.backup = Current]
             at == IF job[p].todo = {} THEN "rows" ELSE "apply"
  <2>1. /\ Current \in Backups /\ Current.rollout = rollout /\ Current.rows = rows
        /\ Current.global = global
    BY <1>1, BackupTyped DEF Current
  <2>2. /\ at \in PCs /\ Goto(p, at) /\ job' = [job EXCEPT ![p] = j]
        /\ at \in {"rows", "apply"} /\ (at = "rows" => job[p].todo = {})
    BY <1>3 DEF PCs
  <2>3. /\ j \in Jobs /\ j.todo = job[p].todo /\ j.readable = job[p].readable
        /\ j.left = Dbs /\ j.target = job[p].target /\ j.result = "failed"
        /\ j.applied = {} /\ j.backup = Current
    BY <1>1, <1>2, <2>1 DEF Jobs
  <2> HIDE DEF j, at
  <2>4. /\ job'[p] = j /\ pc'[p] = at
        /\ \A q \in Procs : q # p => pc'[q] = pc[q] /\ job'[q] = job[q]
    BY <1>1, <2>2, <2>3, MovesOn
  <2>5. InOrder(p)'
    BY <2>2, <2>3, <2>4 DEF InOrder, Writing
  <2>6. OnTarget(p)' /\ Reported(p)'
    BY <1>1, <1>2, <2>2, <2>3, <2>4
    DEF OnTarget, Reported, RolloutsSet, RowsSet, Excluded, Artifacts
  <2>7. Restorable(p)'
    BY <1>1, <2>1, <2>2, <2>3, <2>4 DEF Restorable, Artifacts
  <2> QED BY <1>1, <2>4, <2>5, <2>6, <2>7, OnlyItsOwn DEF Good
<1>4. CASE Fails /\ Goto(p, "release") /\ UNCHANGED job
  BY <1>1, <1>4, GivesUp
<1> QED BY <1>3, <1>4 DEF Backup

----
(* The rollouts. *)

(* What WorkInv says of a process that writes. *)
LEMMA AtWork ==
  ASSUME Inv, LockInv, WorkInv, NEW p \in Procs, pc[p] \in Writing
  PROVE  /\ TypeOK /\ job[p] \in Jobs /\ Inside(p)
         /\ job[p].result = "failed" /\ job[p].backup \in Backups
         /\ pc[p] \in {"apply", "replace"} => job[p].left = Dbs
         /\ pc[p] \in {"rows", "main", "bak", "prune"} => job[p].todo = {}
         /\ pc[p] # "undo" => RolloutsSet(p)
         /\ Restorable(p)
<1>1. Harmless(p) /\ job[p] \in Jobs /\ TypeOK
  BY Holds DEF Inv
<1>2. Inside(p) /\ pc[p] # "release" /\ (pc[p] # "undo" => pc[p] \in Advancing)
  BY DEF Inside, Writing, Advancing
<1>3. job[p].backup \in Backups
  BY <1>1 DEF Harmless
<1> QED BY <1>1, <1>2, <1>3 DEF WorkInv, Good, InOrder, OnTarget

(* While rollouts are rewritten nothing else differs from the backup. *)
LEMMA OnlyRollouts ==
  ASSUME NEW p \in Procs, pc[p] \in {"apply", "replace"}
  PROVE  Written(p) = {}
BY DEF Written

(* A step from one rollout to the next: what is no longer to be done is as *)
(* it should be, or is no longer asked for.                                *)
LEMMA RolloutStep ==
  ASSUME Inv, LockInv, WorkInv, NEW p \in Procs, pc[p] \in {"apply", "replace"},
         NEW j \in Jobs, NEW at \in {"apply", "replace", "rows"},
         job' = [job EXCEPT ![p] = j], Goto(p, at), UNCHANGED <<rows, global>>,
         j.target = job[p].target, j.left = job[p].left, j.result = job[p].result,
         j.backup = job[p].backup, j.torn = job[p].torn,
         job[p].applied \subseteq j.applied,
         at = "replace" => j.at \in j.todo,
         at = "rows" => j.todo = {},
         \A t \in j.readable \ Excluded(j.readable) :
           t \in j.todo \/ rollout'[t].provider = j.target,
         \A t \in Threads \ j.applied : rollout'[t] = rollout[t]
  PROVE  WorkInv'
<1>1. pc[p] \in Writing /\ at \in PCs
  BY DEF Writing, PCs
<1>2. /\ TypeOK /\ Inside(p) /\ job[p].result = "failed" /\ job[p].left = Dbs
      /\ Restorable(p)
  BY <1>1, AtWork
<1>3. /\ job'[p] = j /\ pc'[p] = at
      /\ \A q \in Procs : q # p => pc'[q] = pc[q] /\ job'[q] = job[q]
  BY <1>1, <1>2, MovesOn
<1>4. InOrder(p)'
  BY <1>2, <1>3 DEF InOrder, Writing
<1>5. OnTarget(p)' /\ Reported(p)'
  BY <1>2, <1>3 DEF OnTarget, Reported, RolloutsSet, RowsSet, Excluded
<1>6. Restorable(p)'
  BY OnlyRollouts, <1>3, <1>2, StillRestorable
<1> QED BY <1>2, <1>3, <1>4, <1>5, <1>6, OnlyItsOwn DEF Good

(* It starts to put back, with at least everything written in its list. *)
LEMMA TurnsBack ==
  ASSUME Inv, LockInv, WorkInv, NEW p \in Procs, pc[p] \in Writing \ {"undo"},
         NEW j \in Jobs, job' = [job EXCEPT ![p] = j], Goto(p, "undo"),
         UNCHANGED Artifacts, Written(p) \subseteq j.left,
         j.result = job[p].result, j.backup = job[p].backup, j.torn = job[p].torn,
         j.applied = job[p].applied
  PROVE  WorkInv'
<1>1. "undo" \in PCs /\ pc[p] \in Writing
  BY DEF PCs
<1>2. TypeOK /\ Inside(p) /\ job[p].result = "failed" /\ Restorable(p)
  BY <1>1, AtWork
<1>3. /\ job'[p] = j /\ pc'[p] = "undo"
      /\ \A q \in Procs : q # p => pc'[q] = pc[q] /\ job'[q] = job[q]
  BY <1>1, <1>2, MovesOn
<1>4. InOrder(p)' /\ OnTarget(p)' /\ Reported(p)'
  BY <1>2, <1>3 DEF InOrder, OnTarget, Reported, Writing, Advancing
<1>5. Restorable(p)'
  BY <1>3, <1>2, StillRestorable DEF Written, Artifacts
<1> QED BY <1>2, <1>3, <1>4, <1>5, OnlyItsOwn DEF Good

LEMMA PassByWorks ==
  ASSUME Inv, LockInv, WorkInv, NEW p \in Procs, NEW t, pc[p] \in {"apply", "replace"},
         PassBy(p, t), UNCHANGED Artifacts
  PROVE  WorkInv'
<1> DEFINE todo == job[p].todo \ {t}
           readable == job[p].readable \ {t}
           j == [job[p] EXCEPT !.todo = todo, !.at = NoThread, !.readable = readable]
           at == IF todo = {} THEN "rows" ELSE "apply"
<1>1. job[p] \in Jobs /\ RolloutsSet(p)
  BY AtWork DEF Writing
<1>2. /\ at \in {"apply", "replace", "rows"} /\ at # "replace" /\ (at = "rows" => todo = {})
      /\ Goto(p, at) /\ job' = [job EXCEPT ![p] = j]
  BY DEF PassBy
<1>3. \A r \in readable \ Excluded(readable) :
        r \in todo \/ rollout'[r].provider = job[p].target
  BY <1>1 DEF RolloutsSet, Excluded, Artifacts
<1>4. \A r \in Threads : rollout'[r] = rollout[r]
  BY DEF Artifacts
<1>5. UNCHANGED <<rows, global>>
  BY DEF Artifacts
<1>6. todo \in SUBSET Threads /\ readable \in SUBSET Threads
  BY <1>1 DEF Jobs
<1> HIDE DEF todo, readable, at
<1>7. /\ j \in Jobs /\ j.todo = todo /\ j.readable = readable /\ j.target = job[p].target
      /\ j.left = job[p].left /\ j.result = job[p].result /\ j.torn = job[p].torn
      /\ j.backup = job[p].backup /\ j.applied = job[p].applied
  BY <1>1, <1>6 DEF Jobs
<1> HIDE DEF j
<1> QED BY <1>2, <1>3, <1>4, <1>5, <1>7, RolloutStep

LEMMA UnapplyWorks ==
  ASSUME Inv, LockInv, WorkInv, NEW p \in Procs, pc[p] \in {"apply", "replace"},
         Unapply(p), UNCHANGED Artifacts
  PROVE  WorkInv'
<1> DEFINE j == [job[p] EXCEPT !.left = {}, !.at = NoThread]
<1>1. pc[p] \in Writing \ {"undo"} /\ job[p] \in Jobs
  BY AtWork DEF Writing
<1>2. /\ j \in Jobs /\ j.result = job[p].result /\ j.torn = job[p].torn
      /\ j.backup = job[p].backup /\ j.applied = job[p].applied /\ j.left = {}
  BY <1>1 DEF Jobs
<1>3. Goto(p, "undo") /\ job' = [job EXCEPT ![p] = j]
  BY DEF Unapply
<1> HIDE DEF j
<1> QED BY <1>1, <1>2, <1>3, OnlyRollouts, TurnsBack

LEMMA RollBackWorks ==
  ASSUME Inv, LockInv, WorkInv, NEW p \in Procs, pc[p] \in Writing \ {"undo"},
         RollBack(p), UNCHANGED Artifacts
  PROVE  WorkInv'
<1> DEFINE j == [job[p] EXCEPT !.left = Dbs \cup GlobalNames]
<1>1. job[p] \in Jobs
  BY AtWork
<1>2. /\ j \in Jobs /\ j.result = job[p].result /\ j.torn = job[p].torn
      /\ j.backup = job[p].backup /\ j.applied = job[p].applied
      /\ j.left = Dbs \cup GlobalNames
  BY <1>1 DEF Jobs
<1>3. Goto(p, "undo") /\ job' = [job EXCEPT ![p] = j]
  BY DEF RollBack
<1>4. Written(p) \subseteq j.left
  BY <1>2 DEF Written
<1> HIDE DEF j
<1> QED BY <1>2, <1>3, <1>4, TurnsBack

LEMMA RecheckWorks ==
  ASSUME Inv, LockInv, WorkInv, NEW p \in Procs, Recheck(p)
  PROVE  WorkInv'
<1>1. /\ UNCHANGED Artifacts /\ UNCHANGED <<rows, global>> /\ pc[p] \in {"apply", "replace"}
      /\ rollout' = rollout
  BY DEF Recheck, Artifacts
<1>2. job[p] \in Jobs /\ RolloutsSet(p)
  BY <1>1, AtWork DEF Writing
<1>3. ASSUME NEW t \in job[p].todo, job' = [job EXCEPT ![p].at = t], Goto(p, "replace")
      PROVE  WorkInv'
  <2> DEFINE j == [job[p] EXCEPT !.at = t]
  <2>1. /\ j \in Jobs /\ j.todo = job[p].todo /\ j.readable = job[p].readable
        /\ j.target = job[p].target /\ j.at = t
        /\ j.left = job[p].left /\ j.result = job[p].result /\ j.torn = job[p].torn
        /\ j.backup = job[p].backup /\ j.applied = job[p].applied
    BY <1>2, <1>3 DEF Jobs
  <2>2. job' = [job EXCEPT ![p] = j]
    BY <1>3
  <2>3. \A r \in j.readable \ Excluded(j.readable) :
          r \in j.todo \/ rollout'[r].provider = j.target
    BY <1>1, <1>2, <2>1 DEF RolloutsSet
  <2> HIDE DEF j
  <2> QED BY <1>1, <1>3, <2>1, <2>2, <2>3, RolloutStep
<1>4. ASSUME NEW t, PassBy(p, t) PROVE WorkInv'
  BY <1>1, <1>4, PassByWorks
<1>5. CASE Unapply(p)
  BY <1>1, <1>5, UnapplyWorks
<1> QED BY <1>3, <1>4, <1>5 DEF Recheck

LEMMA ReplaceWorks ==
  ASSUME Inv, LockInv, WorkInv, NEW p \in Procs, Replace(p)
  PROVE  WorkInv'
<1> DEFINE t == job[p].at
<1>1. UNCHANGED <<rows, global>> /\ pc[p] \in {"apply", "replace"} /\ pc[p] = "replace"
  BY DEF Replace
<1>2. job[p] \in Jobs /\ RolloutsSet(p) /\ rollout \in [Threads -> Rollouts]
  BY <1>1, AtWork DEF Writing, TypeOK
<1>3. t \in job[p].todo /\ t \in Threads
  BY <1>1, <1>2 DEF WorkInv, Good, InOrder, Jobs
<1>4. CASE /\ rollout' = [rollout EXCEPT ![t] =
                            [job[p].seen[t] EXCEPT !.provider = job[p].target]]
           /\ job' = [job EXCEPT ![p] =
                        [@ EXCEPT !.todo = job[p].todo \ {t}, !.at = NoThread,
                                  !.applied = job[p].applied \cup {t}]]
           /\ Goto(p, IF job[p].todo \ {t} = {} THEN "rows" ELSE "apply")
  <2> DEFINE todo == job[p].todo \ {t}
             applied == job[p].applied \cup {t}
             j == [job[p] EXCEPT !.todo = todo, !.at = NoThread, !.applied = applied]
             at == IF todo = {} THEN "rows" ELSE "apply"
  <2>1. rollout'[t].provider = job[p].target
    BY <1>2, <1>3, <1>4 DEF Jobs, Rollouts
  <2>2. \A r \in Threads \ {t} : rollout'[r] = rollout[r]
    BY <1>2, <1>4
  <2>3. /\ at \in {"apply", "replace", "rows"} /\ at # "replace"
        /\ at = "rows" => todo = {}
        /\ Goto(p, at) /\ job' = [job EXCEPT ![p] = j]
    BY <1>4
  <2>4. /\ todo \in SUBSET Threads /\ applied \in SUBSET Threads
        /\ job[p].applied \subseteq applied /\ t \in applied
    BY <1>2, <1>3 DEF Jobs
  <2>5. \A r \in job[p].readable \ Excluded(job[p].readable) :
          r \in todo \/ rollout'[r].provider = job[p].target
    BY <1>2, <2>1, <2>2 DEF Jobs, RolloutsSet
  <2> HIDE DEF todo, applied, at
  <2>6. /\ j \in Jobs /\ j.todo = todo /\ j.readable = job[p].readable
        /\ j.target = job[p].target
        /\ j.left = job[p].left /\ j.result = job[p].result /\ j.torn = job[p].torn
        /\ j.backup = job[p].backup /\ j.applied = applied
    BY <1>2, <2>4 DEF Jobs
  <2> HIDE DEF j, t
  <2> QED BY <1>1, <2>2, <2>3, <2>4, <2>5, <2>6, RolloutStep
<1>5. CASE PassBy(p, t) /\ UNCHANGED rollout
  BY <1>1, <1>5, PassByWorks DEF Artifacts
<1>6. CASE Unapply(p) /\ UNCHANGED rollout
  BY <1>1, <1>6, UnapplyWorks DEF Artifacts
<1> QED BY <1>4, <1>5, <1>6 DEF Replace

----
(* The databases and the global state. *)

LEMMA UpdateRowsWorks ==
  ASSUME Inv, LockInv, WorkInv, NEW p \in Procs, UpdateRows(p)
  PROVE  WorkInv'
<1>1. UNCHANGED <<rollout, global>> /\ pc[p] = "rows" /\ pc[p] \in Writing \ {"undo"}
  BY DEF UpdateRows, Writing
<1>2. /\ TypeOK /\ Inside(p) /\ job[p] \in Jobs /\ job[p].result = "failed"
      /\ job[p].todo = {} /\ RolloutsSet(p) /\ Restorable(p)
      /\ rows \in [Dbs -> Tables]
  BY <1>1, AtWork DEF TypeOK
<1>3. job[p].left \subseteq Dbs /\ RowsSet(p, Dbs \ job[p].left)
  BY <1>1 DEF WorkInv, Good, InOrder, OnTarget
<1>4. ASSUME NEW d \in job[p].left,
             rows' = [rows EXCEPT ![d] = Updated(@, job[p].readable, job[p].target)],
             job' = [job EXCEPT ![p].left = @ \ {d}], pc' = pc
      PROVE  WorkInv'
  <2> DEFINE left == job[p].left \ {d}
             j == [job[p] EXCEPT !.left = left]
  <2>1. job' = [job EXCEPT ![p] = j] /\ left \subseteq Dbs /\ d \in Dbs \ left
    BY <1>3, <1>4
  <2>2. Dbs \ left \subseteq (Dbs \ job[p].left) \cup {d}
    OBVIOUS
  <2>3. /\ \A e \in Dbs \ {d} : rows'[e] = rows[e]
        /\ \A t \in Threads \ Excluded(job[p].readable) :
             rows'[d][t] \in {job[p].target, NoRow}
    BY <1>2, <1>3, <1>4 DEF Updated
  <2>4. j \in Jobs /\ j.left = left /\ j.todo = job[p].todo
        /\ j.readable = job[p].readable /\ j.target = job[p].target
        /\ j.result = job[p].result /\ j.torn = job[p].torn
        /\ j.backup = job[p].backup /\ j.applied = job[p].applied
    BY <1>2 DEF Jobs
  <2>5. \A a \in left : a \in job[p].left
    OBVIOUS
  <2> HIDE DEF left, j
  <2>6. /\ job'[p] = j /\ pc'[p] = "rows"
        /\ \A q \in Procs : q # p => pc'[q] = pc[q] /\ job'[q] = job[q]
    BY <1>1, <1>2, <1>4, <2>1, <2>4, MovesOn DEF TypeOK
  <2>7. InOrder(p)' /\ Reported(p)'
    BY <1>2, <2>1, <2>4, <2>6 DEF InOrder, Reported, Writing
  <2>8. OnTarget(p)'
    <3>1. RolloutsSet(p)'
      BY <1>1, <1>2, <2>4, <2>6 DEF RolloutsSet, Excluded
    <3>2. ASSUME NEW e \in Dbs \ left, NEW t \in Threads \ Excluded(job[p].readable)
          PROVE  rows'[e][t] \in {job[p].target, NoRow}
      BY <1>3, <2>2, <2>3, <3>2 DEF RowsSet
    <3>3. RowsSet(p, Dbs \ job[p].left)'
      BY <2>4, <2>6, <3>2 DEF RowsSet, Excluded
    <3> QED BY <2>6, <3>1, <3>3 DEF OnTarget
  <2>9. Restorable(p)'
    BY <1>1, <2>1, <2>4, <2>5, <2>6, <2>3, <1>2, StillRestorable DEF Written
  <2> QED BY <1>2, <2>6, <2>7, <2>8, <2>9, OnlyItsOwn DEF Good
<1>5. CASE /\ job[p].left = {} /\ UNCHANGED <<rows, job>>
           /\ Goto(p, IF global["main"] = "raw" THEN "main" ELSE "prune")
  <2> DEFINE at == IF global["main"] = "raw" THEN "main" ELSE "prune"
  <2>1. /\ at \in PCs /\ at \in {"main", "prune"} /\ Goto(p, at)
        /\ at = "prune" => global["main"] # "raw"
    BY <1>5 DEF PCs
  <2> HIDE DEF at
  <2>2. pc'[p] = at /\ \A q \in Procs : q # p => pc'[q] = pc[q]
    BY <1>2, <2>1, PlaceReplaced
  <2>3. InOrder(p)' /\ Reported(p)'
    BY <1>2, <1>5, <2>1, <2>2 DEF InOrder, Reported, Writing
  <2>4. OnTarget(p)'
    BY <1>1, <1>2, <1>3, <1>5, <2>1, <2>2
    DEF OnTarget, RolloutsSet, RowsSet, Excluded
  <2>5. Restorable(p)'
    BY <1>1, <2>1, <2>2, SyncAssumption, <1>5, <1>2, StillRestorable DEF Written
  <2> QED BY <1>2, <1>5, <2>2, <2>3, <2>4, <2>5, OnlyItsOwn DEF Good
<1>6. CASE RollBack(p) /\ UNCHANGED rows
  BY <1>1, <1>6, RollBackWorks DEF Artifacts
<1> QED BY <1>4, <1>5, <1>6 DEF UpdateRows

LEMMA TidyGlobalWorks ==
  ASSUME Inv, LockInv, WorkInv, NEW p \in Procs, TidyGlobal(p)
  PROVE  WorkInv'
<1>1. /\ UNCHANGED <<rollout, rows>> /\ pc[p] \in {"main", "bak"}
      /\ pc[p] \in Writing \ {"undo"}
  BY DEF TidyGlobal, Writing, GlobalNames
<1>2. /\ TypeOK /\ Inside(p) /\ job[p].result = "failed"
      /\ job[p].todo = {} /\ RolloutsSet(p) /\ Restorable(p)
      /\ global \in [GlobalNames -> GlobalTexts]
  BY <1>1, AtWork DEF TypeOK
<1>3. RowsSet(p, Dbs) /\ (pc[p] = "bak" => global["main"] # "raw")
  BY <1>1 DEF WorkInv, Good, OnTarget
<1>4. CASE /\ global' = [global EXCEPT ![pc[p]] = "tidy"] /\ UNCHANGED job
           /\ Goto(p, IF pc[p] = "main" THEN "bak" ELSE "prune")
  <2> DEFINE at == IF pc[p] = "main" THEN "bak" ELSE "prune"
  <2>1. /\ at \in PCs /\ Goto(p, at) /\ at \in {"bak", "prune"}
        /\ (at = "bak" <=> pc[p] = "main")
    BY <1>1, <1>4 DEF PCs
  <2> HIDE DEF at
  <2>2. pc'[p] = at /\ \A q \in Procs : q # p => pc'[q] = pc[q]
    BY <1>2, <2>1, PlaceReplaced
  <2>3. /\ \A g \in GlobalNames : g # pc[p] => global'[g] = global[g]
        /\ global'["main"] # "raw"
    BY <1>1, <1>2, <1>3, <1>4 DEF GlobalNames
  <2>4. InOrder(p)' /\ Reported(p)'
    BY <1>2, <1>4, <2>1, <2>2 DEF InOrder, Reported, Writing
  <2>5. OnTarget(p)'
    BY <1>1, <1>2, <1>3, <1>4, <2>1, <2>2, <2>3
    DEF OnTarget, RolloutsSet, RowsSet, Excluded
  <2>6. Restorable(p)'
    BY <1>1, <2>1, <2>2, <1>4, <2>3, <1>2, StillRestorable DEF Written
  <2> QED BY <1>2, <1>4, <2>2, <2>4, <2>5, <2>6, OnlyItsOwn DEF Good
<1>5. CASE RollBack(p) /\ UNCHANGED global
  BY <1>1, <1>5, RollBackWorks DEF Artifacts
<1> QED BY <1>4, <1>5 DEF TidyGlobal

(* Where a sync says that it is done. *)
LEMMA PruneWorks ==
  ASSUME Inv, LockInv, WorkInv, NEW p \in Procs, Prune(p)
  PROVE  WorkInv'
<1>1. UNCHANGED Artifacts /\ pc[p] = "prune" /\ pc[p] \in Writing \ {"undo"}
  BY DEF Prune, Writing
<1>2. /\ TypeOK /\ Inside(p) /\ job[p] \in Jobs
      /\ job[p].todo = {} /\ RolloutsSet(p)
  BY <1>1, AtWork
<1>3. RowsSet(p, Dbs) /\ global["main"] # "raw"
  BY <1>1 DEF WorkInv, Good, OnTarget
<1>4. CASE /\ job' = [job EXCEPT ![p].result = Outcome(job[p].readable = Threads)]
           /\ Goto(p, "release")
  <2> DEFINE result == Outcome(job[p].readable = Threads)
             j == [job[p] EXCEPT !.result = result]
  <2>1. /\ result \in {"partial", "synced"}
        /\ result = "synced" => job[p].readable = Threads
    BY DEF Outcome
  <2>2. "release" \in PCs /\ Goto(p, "release") /\ job' = [job EXCEPT ![p] = j]
    BY <1>4 DEF PCs
  <2> HIDE DEF result
  <2>3. /\ j \in Jobs /\ j.result = result /\ j.readable = job[p].readable
        /\ j.target = job[p].target
    BY <1>2, <2>1 DEF Jobs
  <2> HIDE DEF j
  <2>4. /\ job'[p] = j /\ pc'[p] = "release"
        /\ \A q \in Procs : q # p => pc'[q] = pc[q] /\ job'[q] = job[q]
    BY <1>2, <2>2, <2>3, MovesOn
  <2>5. \A t \in Threads \ Excluded(job[p].readable) :
          /\ t \in job[p].readable => rollout[t].provider = job[p].target
          /\ \A d \in Dbs : rows[d][t] \in {job[p].target, NoRow}
    BY <1>2, <1>3 DEF RolloutsSet, RowsSet
  <2>6. Reported(p)'
    BY <1>1, <1>3, <2>1, <2>3, <2>4, <2>5 DEF Reported, Excluded, Artifacts
  <2>7. InOrder(p)' /\ OnTarget(p)' /\ Restorable(p)'
    BY <2>1, <2>3, <2>4 DEF InOrder, OnTarget, Restorable, Writing, Advancing
  <2> QED BY <1>2, <2>4, <2>6, <2>7, OnlyItsOwn DEF Good
<1>5. CASE RollBack(p)
  BY <1>1, <1>5, RollBackWorks
<1> QED BY <1>4, <1>5 DEF Prune

----
(* Putting back. *)

(* A step of the undoing, whether it succeeds or not. *)
LEMMA UndoStep ==
  ASSUME Inv, LockInv, WorkInv, NEW p \in Procs, pc[p] = "undo",
         NEW j \in Jobs, job' = [job EXCEPT ![p] = j], pc' = pc,
         j.result = job[p].result, j.backup = job[p].backup,
         \/ j.torn
         \/ /\ j.torn = job[p].torn
            /\ \A t \in Threads \ j.applied :
                 \/ t \notin job[p].applied /\ rollout'[t].provider = rollout[t].provider
                 \/ rollout'[t].provider = job[p].backup.rollout[t].provider
            /\ \A d \in Dbs \ j.left :
                 \/ d \notin job[p].left /\ rows'[d] = rows[d]
                 \/ rows'[d] = job[p].backup.rows[d]
            /\ \A g \in GlobalNames \ j.left :
                 \/ g \notin job[p].left /\ global'[g] = global[g]
                 \/ global'[g] = job[p].backup.global[g]
  PROVE  WorkInv'
<1>1. pc[p] \in Writing
  BY DEF Writing
<1>2. TypeOK /\ Inside(p) /\ job[p].result = "failed" /\ Restorable(p)
  BY <1>1, AtWork
<1>3. /\ job'[p] = j /\ pc'[p] = "undo"
      /\ \A q \in Procs : q # p => pc'[q] = pc[q] /\ job'[q] = job[q]
  BY <1>2, MovesOn DEF TypeOK
<1>4. InOrder(p)' /\ OnTarget(p)' /\ Reported(p)'
  BY <1>2, <1>3 DEF InOrder, OnTarget, Reported, Writing, Advancing
<1>5. Restorable(p)'
  <2>1. CASE j.torn
    BY <1>3, <2>1 DEF Restorable
  <2>2. CASE ~j.torn
    BY <1>3, <2>2, <1>2, StillRestorable DEF Written
  <2> QED BY <2>1, <2>2
<1> QED BY <1>2, <1>3, <1>4, <1>5, OnlyItsOwn DEF Good

LEMMA UndoRolloutWorks ==
  ASSUME Inv, LockInv, WorkInv, NEW p \in Procs, UndoRollout(p)
  PROVE  WorkInv'
<1>1. UNCHANGED <<rows, global, pc>> /\ pc[p] = "undo" /\ job[p] \in Jobs
  BY Holds DEF UndoRollout
<1>2. rollout \in [Threads -> Rollouts]
  BY DEF Inv, TypeOK
<1>3. ASSUME NEW t \in job[p].applied,
             rollout' = [rollout EXCEPT ![t] = job[p].backup.rollout[t]],
             job' = [job EXCEPT ![p].applied = @ \ {t}]
      PROVE  WorkInv'
  <2> DEFINE applied == job[p].applied \ {t}
             j == [job[p] EXCEPT !.applied = applied]
  <2>1. \A r \in Threads \ applied :
          \/ r \notin job[p].applied /\ rollout'[r].provider = rollout[r].provider
          \/ rollout'[r].provider = job[p].backup.rollout[r].provider
    BY <1>2, <1>3
  <2>2. applied \in SUBSET Threads
    BY <1>1 DEF Jobs
  <2> HIDE DEF applied
  <2>3. /\ j \in Jobs /\ j.result = job[p].result /\ j.backup = job[p].backup
        /\ j.torn = job[p].torn /\ j.left = job[p].left /\ j.applied = applied
    BY <1>1, <2>2 DEF Jobs
  <2>4. job' = [job EXCEPT ![p] = j]
    BY <1>3 DEF applied
  <2> HIDE DEF j
  <2> QED BY <1>1, <2>1, <2>3, <2>4, UndoStep
<1>4. CASE job' = [job EXCEPT ![p] = [@ EXCEPT !.applied = {}, !.torn = TRUE]]
  <2> DEFINE j == [job[p] EXCEPT !.applied = {}, !.torn = TRUE]
  <2>1. j \in Jobs /\ j.result = job[p].result /\ j.backup = job[p].backup /\ j.torn
    BY <1>1 DEF Jobs
  <2>2. job' = [job EXCEPT ![p] = j]
    BY <1>4
  <2> HIDE DEF j
  <2> QED BY <1>1, <2>1, <2>2, UndoStep
<1> QED BY <1>3, <1>4 DEF UndoRollout

LEMMA UndoOtherWorks ==
  ASSUME Inv, LockInv, WorkInv, NEW p \in Procs, UndoOther(p)
  PROVE  WorkInv'
<1>1. UNCHANGED <<rollout, pc>> /\ pc[p] = "undo" /\ job[p] \in Jobs
  BY Holds DEF UndoOther
<1>2. rows \in [Dbs -> Tables] /\ global \in [GlobalNames -> GlobalTexts]
  BY DEF Inv, TypeOK
<1>3. ASSUME NEW a \in job[p].left,
             rows' = IF a \in Dbs THEN [rows EXCEPT ![a] = job[p].backup.rows[a]]
                     ELSE rows,
             global' = IF a \in GlobalNames
                       THEN [global EXCEPT ![a] = job[p].backup.global[a]] ELSE global,
             job' = [job EXCEPT ![p].left = @ \ {a}]
      PROVE  WorkInv'
  <2> DEFINE left == job[p].left \ {a}
             j == [job[p] EXCEPT !.left = left]
  <2>1. \A d \in Dbs \ left :
          \/ d \notin job[p].left /\ rows'[d] = rows[d]
          \/ rows'[d] = job[p].backup.rows[d]
    BY <1>2, <1>3
  <2>2. \A g \in GlobalNames \ left :
          \/ g \notin job[p].left /\ global'[g] = global[g]
          \/ global'[g] = job[p].backup.global[g]
    BY <1>2, <1>3
  <2>3. left \in SUBSET (Dbs \cup GlobalNames)
    BY <1>1 DEF Jobs
  <2> HIDE DEF left
  <2>4. /\ j \in Jobs /\ j.result = job[p].result /\ j.backup = job[p].backup
        /\ j.torn = job[p].torn /\ j.left = left /\ j.applied = job[p].applied
    BY <1>1, <2>3 DEF Jobs
  <2>5. job' = [job EXCEPT ![p] = j]
    BY <1>3 DEF left
  <2> HIDE DEF j
  <2> QED BY <1>1, <2>1, <2>2, <2>4, <2>5, UndoStep
<1>4. ASSUME NEW a, job' = [job EXCEPT ![p] =
                               [@ EXCEPT !.left = job[p].left \ {a}, !.torn = TRUE]]
      PROVE  WorkInv'
  <2> DEFINE left == job[p].left \ {a}
             j == [job[p] EXCEPT !.left = left, !.torn = TRUE]
  <2>1. left \in SUBSET (Dbs \cup GlobalNames)
    BY <1>1 DEF Jobs
  <2>2. job' = [job EXCEPT ![p] = j]
    BY <1>4
  <2> HIDE DEF left
  <2>3. j \in Jobs /\ j.result = job[p].result /\ j.backup = job[p].backup /\ j.torn
    BY <1>1, <2>1 DEF Jobs
  <2> HIDE DEF j
  <2> QED BY <1>1, <2>2, <2>3, UndoStep
<1> QED BY <1>3, <1>4 DEF UndoOther

LEMMA AbandonUndoWorks ==
  ASSUME Inv, LockInv, WorkInv, NEW p \in Procs, AbandonUndo(p)
  PROVE  WorkInv'
<1> DEFINE j == [job[p] EXCEPT !.applied = {}, !.left = {}, !.torn = TRUE]
<1>1. /\ UNCHANGED pc /\ pc[p] = "undo" /\ job[p] \in Jobs
      /\ job' = [job EXCEPT ![p] = j]
  BY Holds DEF AbandonUndo
<1>2. j \in Jobs /\ j.result = job[p].result /\ j.backup = job[p].backup /\ j.torn
  BY <1>1 DEF Jobs
<1> HIDE DEF j
<1> QED BY <1>1, <1>2, UndoStep

(* Where a sync says that all is as it was. *)
LEMMA UndoneWorks ==
  ASSUME Inv, LockInv, WorkInv, NEW p \in Procs, Undone(p)
  PROVE  WorkInv'
<1>1. /\ UNCHANGED Artifacts /\ pc[p] = "undo" /\ pc[p] \in Writing /\ UNCHANGED job
      /\ job[p].applied = {} /\ job[p].left = {}
      /\ "release" \in PCs /\ Goto(p, "release")
  BY DEF Undone, Writing, PCs
<1>2. TypeOK /\ Inside(p) /\ job[p].result = "failed" /\ Restorable(p)
  BY <1>1, AtWork
<1>3. pc'[p] = "release" /\ \A q \in Procs : q # p => pc'[q] = pc[q]
  BY <1>1, <1>2, PlaceReplaced
<1>4. InOrder(p)' /\ OnTarget(p)' /\ Reported(p)'
  BY <1>1, <1>2, <1>3 DEF InOrder, OnTarget, Reported, Writing, Advancing
<1>5. Written(p) = {}
  BY <1>1 DEF Written
<1>6. Restorable(p)'
  BY <1>1, <1>2, <1>3, <1>5 DEF Restorable, Artifacts
<1> QED BY <1>1, <1>2, <1>3, <1>4, <1>6, OnlyItsOwn DEF Good

(* A message that Codex adds changes no provider. *)
LEMMA AppendWorks ==
  ASSUME Inv, WorkInv, NEW t \in Threads, AppendMessage(t)
  PROVE  WorkInv'
<1>1. \A r \in Threads : rollout'[r].provider = rollout[r].provider
  BY DEF AppendMessage, Inv, TypeOK, Rollouts
<1>2. UNCHANGED <<rows, global, pc, job>>
  BY DEF AppendMessage
<1>3. ASSUME NEW p \in Procs PROVE Good(p)'
  <2>1. Good(p) /\ job[p] \in Jobs
    BY Holds DEF WorkInv
  <2>2. InOrder(p)' /\ OnTarget(p)'
    BY <1>1, <1>2, <2>1
    DEF Good, InOrder, OnTarget, RolloutsSet, RowsSet, Excluded, Jobs
  <2>3. Reported(p)'
    BY <1>1, <1>2, <2>1 DEF Good, Reported, Excluded
  <2>4. Restorable(p)'
    BY <1>1, <1>2, <2>1 DEF Good, Restorable, Written
  <2> QED BY <2>2, <2>3, <2>4 DEF Good
<1> QED BY <1>3 DEF WorkInv

LEMMA WorkInvNext == Inv /\ LockInv /\ WorkInv /\ [Next]_vars => WorkInv'
<1> SUFFICES ASSUME Inv, LockInv, WorkInv, [Next]_vars PROVE WorkInv'
  OBVIOUS
<1>1. ASSUME NEW p \in Procs, Step(p) PROVE WorkInv'
  BY <1>1, RestingStep, ScanWorks, BackupWorks, RecheckWorks, ReplaceWorks,
     UpdateRowsWorks, TidyGlobalWorks, PruneWorks, UndoRolloutWorks, UndoOtherWorks,
     AbandonUndoWorks, UndoneWorks DEF Step
<1>2. CASE \E t \in Threads : AppendMessage(t)
  BY <1>2, AppendWorks
<1>3. CASE UNCHANGED vars
  BY <1>3 DEF vars, WorkInv, Good, InOrder, OnTarget, Reported, Restorable, RolloutsSet,
     RowsSet, Written
<1> QED BY <1>1, <1>2, <1>3 DEF Next

LEMMA WorkInvInit == Init => WorkInv
<1> SUFFICES ASSUME Init, NEW p \in Procs PROVE Good(p)
  BY DEF WorkInv
<1>1. pc[p] = "idle" /\ job[p] = NoJob
  BY DEF Init
<1>2. job[p].result = "failed" /\ job[p].backup = NoBackup /\ job[p].applied = {}
  BY <1>1, FreshAtRest
<1> QED BY <1>1, <1>2
    DEF Good, InOrder, OnTarget, Reported, Restorable, Writing, Advancing

(* Types, the lock and the work: all that holds of a sync alone inside. *)
LEMMA AllHold == UndisturbedSpec => [](Inv /\ LockInv /\ WorkInv)
<1>1. Init => Inv /\ LockInv /\ WorkInv
  BY InvInit, LockInvInit, WorkInvInit
<1>2. Inv /\ LockInv /\ WorkInv /\ [Next /\ Undisturbed]_vars => (Inv /\ LockInv /\ WorkInv)'
  BY InvNext, LockInvNext, WorkInvNext
<1> QED BY <1>1, <1>2, PTL DEF UndisturbedSpec

(* What a sync reports is so: whatever is locked, fails or is appended to, *)
(* "synced" means every session of the user's, "partial" all it could      *)
(* open.                                                                   *)
THEOREM ReportsAreTrue == UndisturbedSpec => []ReportIsTrue
<1>1. WorkInv => ReportIsTrue
  BY DEF WorkInv, Good, Reported, ReportIsTrue
<1> QED BY <1>1, AllHold, PTL

(* A sync that fails, at whichever write, and whose undoing does not fail  *)
(* leaves every provider and the global state as they were.                *)
THEOREM FailuresRestore == UndisturbedSpec => []FailureRestoresAll
<1>1. ASSUME WorkInv, NEW p \in Procs, pc[p] = "release", job[p].result = "failed",
             ~job[p].torn, job[p].backup # NoBackup, Inv
      PROVE  /\ \A t \in Threads : rollout[t].provider = job[p].backup.rollout[t].provider
             /\ rows = job[p].backup.rows /\ global = job[p].backup.global
  <2>1. Restorable(p) /\ Written(p) = {}
    BY <1>1 DEF WorkInv, Good, Written
  <2>2. /\ \A t \in Threads : rollout[t].provider = job[p].backup.rollout[t].provider
        /\ \A d \in Dbs : rows[d] = job[p].backup.rows[d]
        /\ \A g \in GlobalNames : global[g] = job[p].backup.global[g]
    BY <1>1, <2>1 DEF Restorable
  <2>3. job[p].backup \in Backups /\ rows \in [Dbs -> Tables]
        /\ global \in [GlobalNames -> GlobalTexts]
    BY <1>1, Holds DEF Jobs
  <2>4. rows = job[p].backup.rows /\ global = job[p].backup.global
    BY <2>2, <2>3 DEF Backups
  <2> QED BY <2>2, <2>4
<1>2. Inv /\ WorkInv => FailureRestoresAll
  BY <1>1 DEF FailureRestoresAll
<1> QED BY <1>2, AllHold, PTL

----
(***************************************************************************)
(* The rotation.                                                           *)
(***************************************************************************)
(* Induction over a set of naturals: it has a least element.               *)

LEMMA Least ==
  ASSUME NEW T, T \subseteq Nat, T # {}
  PROVE  \E x \in T : \A y \in T : x <= y
<1> DEFINE U == {1 .. n : n \in T}
<1>1. U \subseteq FiniteSubsetsOf(Nat) /\ U # {}
  <2>1. \A n \in T : 1 .. n \in SUBSET Nat
    OBVIOUS
  <2>2. \A n \in T : IsFiniteSet(1 .. n)
    BY FS_Interval
  <2>3. QED
    BY <2>1, <2>2 DEF FiniteSubsetsOf
<1>2. IsWellFoundedOn(StrictSubsetOrdering(Nat), FiniteSubsetsOf(Nat))
  BY FS_StrictSubsetOrderingWellFounded
<1>3. PICK u \in U : \A v \in U : <<v, u>> \notin StrictSubsetOrdering(Nat)
  BY <1>1, <1>2, WFMin
<1>4. PICK x \in T : u = 1 .. x
  OBVIOUS
<1>5. ASSUME NEW y \in T PROVE x <= y
  <2>1. SUFFICES ASSUME y < x PROVE FALSE
    BY <1>5
  <2>2. 1 .. y \subseteq 1 .. x /\ x \in 1 .. x /\ x \notin 1 .. y
    BY <2>1
  <2>3. 1 .. y \in SUBSET Nat /\ 1 .. x \in SUBSET Nat
    OBVIOUS
  <2>4. <<1 .. y, 1 .. x>> \in StrictSubsetOrdering(Nat)
    BY <2>2, <2>3 DEF StrictSubsetOrdering
  <2>5. QED
    BY <1>3, <1>4, <2>4
<1>6. QED
  BY <1>5

(* A set of naturals that holds 0 and with each number the next holds all. *)
LEMMA Induction ==
  ASSUME NEW n \in Nat, NEW T, 0 \in T,
         \A i \in 0 .. n - 1 : i \in T => i + 1 \in T
  PROVE  \A i \in 0 .. n : i \in T
<1> DEFINE Bad == {i \in 0 .. n : i \notin T}
<1>1. SUFFICES ASSUME Bad # {} PROVE FALSE
  OBVIOUS
<1>2. PICK x \in Bad : \A y \in Bad : x <= y
  <2>1. Bad \subseteq Nat
    OBVIOUS
  <2> HIDE DEF Bad
  <2>2. QED
    BY <1>1, <2>1, Least
<1>3. x # 0 /\ x - 1 \in 0 .. n - 1 /\ x - 1 \notin Bad
  BY <1>2
<1>4. QED
  BY <1>2, <1>3

----
(* A concatenation is built up list by list. *)

LEMMA FlattenSteps ==
  ASSUME NEW S, NEW seqs \in Seq(Seq(S)), seqs # <<>>
  PROVE  \E F \in [1 .. Len(seqs) -> Seq(S)] :
           /\ FlattenSeq(seqs) = F[Len(seqs)]
           /\ F[1] = seqs[1]
           /\ \A i \in 2 .. Len(seqs) : F[i] = F[i-1] \o seqs[i]
<1> DEFINE n == Len(seqs)
           Body(g, i) == IF i = 1 THEN seqs[i] ELSE g[i-1] \o seqs[i]
           T == {m \in Nat : m <= n => \E g \in [1 .. m -> Seq(S)] : \A i \in 1 .. m : g[i] = Body(g, i)}
<1>1. n \in Nat \ {0} /\ \A i \in 1 .. n : seqs[i] \in Seq(S)
  BY EmptySeq, ElementOfSeq
<1>2. 0 \in T
  <2>1. [i \in 1 .. 0 |-> seqs[i]] \in [1 .. 0 -> Seq(S)]
    OBVIOUS
  <2>2. \A i \in 1 .. 0 : FALSE
    OBVIOUS
  <2>3. QED
    BY <2>1, <2>2
<1>3. ASSUME NEW m \in 0 .. n - 1, m \in T PROVE m + 1 \in T
  <2>1. PICK g \in [1 .. m -> Seq(S)] : \A i \in 1 .. m : g[i] = Body(g, i)
    <3>1. m \in Nat /\ m <= n
      BY <1>1
    <3> HIDE DEF Body, n
    <3>2. QED
      BY <1>3, <3>1
  <2> DEFINE h == [i \in 1 .. m + 1 |-> IF i <= m THEN g[i] ELSE Body(g, i)]
  <2>2. Body(g, m + 1) \in Seq(S)
    <3>1. CASE m = 0
      BY <1>1, <3>1
    <3>2. CASE m # 0
      BY <1>1, <3>2, ConcatProperties
    <3>3. QED
      BY <3>1, <3>2
  <2>3. h \in [1 .. m + 1 -> Seq(S)]
    BY <2>2, <1>1
  <2>4. ASSUME NEW i \in 1 .. m + 1 PROVE h[i] = Body(h, i)
    <3>0. m \in Nat /\ i \in Nat /\ h[i] = IF i <= m THEN g[i] ELSE Body(g, i)
      BY <1>1
    <3>1. h[i] = Body(g, i)
      <4>1. CASE i <= m
        <5>1. i \in 1 .. m
          BY <3>0, <4>1
        <5>2. g[i] = Body(g, i)
          BY <5>1, <2>1
        <5> HIDE DEF Body, h
        <5>3. QED
          BY <3>0, <4>1, <5>2
      <4>2. CASE ~(i <= m)
        <5> HIDE DEF Body, h
        <5>1. QED
          BY <3>0, <4>2
      <4>3. QED
        BY <4>1, <4>2
    <3>2. i # 1 => h[i-1] = g[i-1]
      <4>1. SUFFICES ASSUME i # 1 PROVE h[i-1] = g[i-1]
        OBVIOUS
      <4>2. i - 1 \in 1 .. m + 1 /\ i - 1 <= m
        BY <3>0, <4>1
      <4> HIDE DEF Body
      <4>3. QED
        BY <4>2
    <3>3. Body(h, i) = Body(g, i)
      <4> HIDE DEF h
      <4>1. QED
        BY <3>2
    <3>4. QED
      BY <3>1, <3>3
  <2>5. m + 1 \in Nat
    BY <1>1
  <2>6. QED
    BY <2>3, <2>4, <2>5
<1>4. n \in T
  <2> HIDE DEF T
  <2>1. \A i \in 0 .. n : i \in T
    BY <1>1, <1>2, <1>3, Induction
  <2>2. QED
    BY <1>1, <2>1
<1>5. PICK F \in [1 .. n -> Seq(S)] : \A i \in 1 .. n : F[i] = Body(F, i)
  BY <1>1, <1>4
<1> DEFINE C == CHOOSE g : g = [i \in 1 .. n |-> IF i = 1 THEN seqs[i] ELSE g[i-1] \o seqs[i]]
<1>6. F = [i \in 1 .. n |-> IF i = 1 THEN seqs[i] ELSE F[i-1] \o seqs[i]]
  BY <1>5
<1>7. C = [i \in 1 .. n |-> IF i = 1 THEN seqs[i] ELSE C[i-1] \o seqs[i]]
  <2> DEFINE P(g) == g = [i \in 1 .. n |-> IF i = 1 THEN seqs[i] ELSE g[i-1] \o seqs[i]]
  <2>1. P(F)
    BY <1>6
  <2>2. P(CHOOSE g : P(g))
    <3> HIDE DEF P
    <3>1. QED
      BY <2>1
  <2>3. QED
    BY <2>2
<1>8. FlattenSeq(seqs) = C[n]
  BY <1>1 DEF FlattenSeq
<1>9. C \in [1 .. n -> Seq(S)] /\ C[1] = seqs[1] /\ \A i \in 2 .. n : C[i] = C[i-1] \o seqs[i]
  <2>1. C[1] = seqs[1] /\ \A i \in 2 .. n : C[i] = C[i-1] \o seqs[i]
    <3> HIDE DEF C
    <3>1. \A i \in 1 .. n : C[i] = IF i = 1 THEN seqs[i] ELSE C[i-1] \o seqs[i]
      BY <1>7, Zenon
    <3>2. 1 \in 1 .. n /\ \A i \in 2 .. n : i \in 1 .. n /\ i # 1
      BY <1>1
    <3> HIDE DEF n
    <3>3. QED
      BY <3>1, <3>2
  <2>2. DOMAIN C = 1 .. n
    <3> HIDE DEF C
    <3>1. QED
      BY <1>7
  <2> DEFINE G == {i \in Nat : i # 0 => C[i] \in Seq(S)}
  <2>3. 0 \in G
    OBVIOUS
  <2>4. ASSUME NEW i \in 0 .. n - 1, i \in G PROVE i + 1 \in G
    <3> HIDE DEF C
    <3>1. CASE i = 0
      BY <3>1, <2>1, <1>1
    <3>2. CASE i # 0
      <4>0. i + 1 \in 2 .. n /\ i + 1 \in 1 .. n /\ (i + 1) - 1 = i
        BY <3>2, <1>1
      <4>1. C[i + 1] = C[i] \o seqs[i + 1] /\ C[i] \in Seq(S) /\ seqs[i + 1] \in Seq(S)
        BY <4>0, <2>1, <3>2, <2>4, <1>1
      <4>2. C[i + 1] \in Seq(S)
        BY <4>1, ConcatProperties
      <4>3. QED
        BY <4>2, <1>1
    <3>3. QED
      BY <3>1, <3>2
  <2>5. \A i \in 1 .. n : C[i] \in Seq(S)
    <3> HIDE DEF C, G
    <3>1. \A i \in 0 .. n : i \in G
      BY <1>1, <2>3, <2>4, Induction
    <3>2. QED
      BY <3>1, <1>1 DEF G
  <2>6. C \in [1 .. n -> Seq(S)]
    <3> HIDE DEF C
    <3>1. C = [i \in 1 .. n |-> C[i]]
      BY <1>7
    <3>2. QED
      BY <3>1, <2>5
  <2>7. QED
    BY <2>1, <2>6
<1>10. QED
  BY <1>8, <1>9

----
(* The members of an aggregate. *)

LEMMA ModNext ==
  ASSUME NEW n \in Nat \ {0}, NEW x \in 0 .. n - 1, NEW k \in 0 .. n
  PROVE  (x + k) % n = IF x + k < n THEN x + k ELSE x + k - n
  OBVIOUS

Distinct(agg) == agg \in Aggregates /\ IsInjective(Members(agg))

LEMMA AggregateOK ==
  ASSUME NEW s \in Snapshots, s.agg # None
  PROVE  Distinct(s.agg)
  BY SnapshotsAreSound DEF Distinct, Members

LEMMA MembersSound ==
  ASSUME NEW agg, Distinct(agg)
  PROVE  /\ Members(agg) \in Seq(Relays)
         /\ Members(agg) \in Seq(Range(Members(agg)))
         /\ Len(Members(agg)) = Len(agg.members)
         /\ agg.members # <<>> <=> Members(agg) # <<>>
         /\ Range(Members(agg)) \subseteq Relays
         /\ IsInjective(Members(agg))
<1>1. agg.members \in Seq([relay : Relays, weight : Nat])
  BY DEF Distinct, Aggregates
<1> DEFINE n == Len(agg.members)
<1>2. n \in Nat /\ DOMAIN agg.members = 1 .. n /\ \A i \in 1 .. n : agg.members[i].relay \in Relays
  <2>1. n \in Nat /\ DOMAIN agg.members = 1 .. n
    BY <1>1, LenProperties
  <2>2. \A i \in 1 .. n : agg.members[i] \in [relay : Relays, weight : Nat]
    BY <1>1, ElementOfSeq
  <2>3. QED
    BY <2>1, <2>2
<1>3. Members(agg) = [i \in 1 .. n |-> agg.members[i].relay]
  BY <1>2 DEF Members
<1>4. Members(agg) \in Seq(Relays) /\ Len(Members(agg)) = n
  BY <1>2, <1>3
<1>5. \A i \in 1 .. n : Members(agg)[i] \in Range(Members(agg)) /\ Members(agg)[i] \in Relays
  BY <1>2, <1>3 DEF Range
<1>6. Members(agg) \in Seq(Range(Members(agg)))
  BY <1>2, <1>3, <1>5
<1>7. Range(Members(agg)) \subseteq Relays
  BY <1>2, <1>3 DEF Range
<1>8. agg.members # <<>> <=> n # 0
  BY <1>1
<1>9. Members(agg) # <<>> <=> n # 0
  BY <1>4
<1>10. QED
  BY <1>4, <1>6, <1>7, <1>8, <1>9 DEF Distinct

(* The members in turn, from the one at x on. *)
Cycle(list, x) == [k \in 1 .. Len(list) |-> At(list, x + k - 1)]

LEMMA CycleSound ==
  ASSUME NEW list \in Seq(Relays), list # <<>>, IsInjective(list), NEW x \in 0 .. Len(list) - 1
  PROVE  /\ Cycle(list, x) \in Seq(Relays) /\ Len(Cycle(list, x)) = Len(list)
         /\ Cycle(list, x)[1] = list[x + 1]
         /\ IsInjective(Cycle(list, x))
         /\ Range(Cycle(list, x)) = Range(list)
<1> DEFINE n == Len(list)
           pos(k) == IF x + k - 1 < n THEN x + k ELSE x + k - n
<1>1. n \in Nat \ {0} /\ DOMAIN list = 1 .. n /\ \A i \in 1 .. n : list[i] \in Relays
  BY LenProperties, EmptySeq, ElementOfSeq
<1>2. \A k \in 1 .. n : pos(k) \in 1 .. n /\ At(list, x + k - 1) = list[pos(k)]
  <2>1. SUFFICES ASSUME NEW k \in 1 .. n
                 PROVE pos(k) \in 1 .. n /\ At(list, x + k - 1) = list[pos(k)]
    OBVIOUS
  <2>2. k - 1 \in 0 .. n /\ x + (k - 1) = x + k - 1
    BY <1>1
  <2>3. (x + k - 1) % n = IF x + k - 1 < n THEN x + k - 1 ELSE x + k - 1 - n
    BY <1>1, <2>2, ModNext
  <2>4. pos(k) \in 1 .. n /\ ((x + k - 1) % n) + 1 = pos(k)
    BY <1>1, <2>3
  <2>5. QED
    BY <2>4 DEF At
<1>3. Cycle(list, x) = [k \in 1 .. n |-> list[pos(k)]]
  BY <1>2 DEF Cycle
<1>4. Cycle(list, x) \in Seq(Relays) /\ Len(Cycle(list, x)) = n
  BY <1>1, <1>2, <1>3
<1>5. Cycle(list, x)[1] = list[x + 1]
  BY <1>1, <1>3
<1>6. IsInjective(Cycle(list, x))
  <2>1. \A k, l \in 1 .. n : pos(k) = pos(l) => k = l
    BY <1>1
  <2>2. \A i, j \in 1 .. n : list[i] = list[j] => i = j
    BY <1>1 DEF IsInjective
  <2> HIDE DEF pos, n
  <2>3. ASSUME NEW k \in 1 .. n, NEW l \in 1 .. n, Cycle(list, x)[k] = Cycle(list, x)[l] PROVE k = l
    BY <1>3, <2>3, <1>2, <2>2, <2>1
  <2>4. DOMAIN Cycle(list, x) = 1 .. n
    BY <1>3
  <2>5. QED
    BY <2>3, <2>4 DEF IsInjective
<1>7. Range(Cycle(list, x)) = Range(list)
  <2>1. \A i \in 1 .. n : \E k \in 1 .. n : pos(k) = i
    <3>1. SUFFICES ASSUME NEW i \in 1 .. n PROVE \E k \in 1 .. n : pos(k) = i
      OBVIOUS
    <3>2. CASE i > x
      <4>1. i - x \in 1 .. n /\ pos(i - x) = i
        BY <1>1, <3>2
      <4>2. QED
        BY <4>1
    <3>3. CASE ~(i > x)
      <4>1. i - x + n \in 1 .. n /\ pos(i - x + n) = i
        BY <1>1, <3>3
      <4>2. QED
        BY <4>1
    <3>4. QED
      BY <3>2, <3>3
  <2> HIDE DEF pos, n
  <2>2. Range(Cycle(list, x)) = {list[pos(k)] : k \in 1 .. n}
    BY <1>3 DEF Range
  <2>3. Range(list) = {list[i] : i \in 1 .. n}
    BY <1>1 DEF Range
  <2>4. \A y : y \in Range(Cycle(list, x)) => y \in Range(list)
    BY <1>2, <2>2, <2>3
  <2>5. \A y : y \in Range(list) => y \in Range(Cycle(list, x))
    BY <2>1, <2>2, <2>3
  <2>6. QED
    BY <2>4, <2>5
<1>8. QED
  BY <1>4, <1>5, <1>6, <1>7

(* A member and then the others after it are the members in turn. *)
LEMMA AfterCycles ==
  ASSUME NEW list \in Seq(Relays), list # <<>>, IsInjective(list), NEW x \in 0 .. Len(list) - 1
  PROVE  <<list[x + 1]>> \o After(list, list[x + 1]) = Cycle(list, x)
<1> DEFINE n == Len(list)
           r == list[x + 1]
           I == {i \in 1 .. n : list[i] = r}
<1>1. n \in Nat \ {0} /\ DOMAIN list = 1 .. n /\ \A i \in 1 .. n : list[i] \in Relays
  BY LenProperties, EmptySeq, ElementOfSeq
<1>2. I = {x + 1}
  BY <1>1 DEF IsInjective
<1>3. SelectInSeq(list, LAMBDA y : y = r) = x + 1
  <2>1. SelectInSeq(list, LAMBDA y : y = r) = IF I # {} THEN Min(I) ELSE 0
    BY DEF SelectInSeq
  <2> HIDE DEF I
  <2>2. Min(I) = x + 1
    BY <1>2 DEF Min
  <2>3. QED
    BY <1>2, <2>1, <2>2
<1>4. After(list, r) = [k \in 1 .. n - 1 |-> At(list, x + k)]
  <2>1. After(list, r) = [k \in 1 .. n - 1 |-> At(list, SelectInSeq(list, LAMBDA y : y = r) + k - 1)]
    BY DEF After
  <2>2. \A k \in 1 .. n - 1 : x + 1 + k - 1 = x + k
    BY <1>1
  <2> HIDE DEF n, r
  <2>3. QED
    BY <2>1, <2>2, <1>3
<1>5. After(list, r) \in Seq(Relays) /\ Len(After(list, r)) = n - 1
  <2>1. \A k \in 1 .. n - 1 : At(list, x + k) \in Relays
    <3>1. SUFFICES ASSUME NEW k \in 1 .. n - 1 PROVE At(list, x + k) \in Relays
      OBVIOUS
    <3>2. (x + k) % n \in 0 .. n - 1
      <4>1. n \in Nat \ {0} /\ x \in 0 .. n - 1 /\ k \in 0 .. n
        BY <1>1
      <4> HIDE DEF n
      <4>2. (x + k) % n = IF x + k < n THEN x + k ELSE x + k - n
        BY <4>1, ModNext
      <4>3. QED
        BY <4>1, <4>2
    <3>3. QED
      BY <1>1, <3>2 DEF At
  <2>2. n - 1 \in Nat
    BY <1>1
  <2> HIDE DEF r
  <2>3. QED
    BY <1>4, <2>1, <2>2
<1>6. r \in Relays /\ <<r>> \in Seq(Relays) /\ Len(<<r>>) = 1
  BY <1>1
<1> DEFINE L == <<r>> \o After(list, r)
<1>7. L \in Seq(Relays) /\ Len(L) = n
      /\ \A k \in 1 .. n : L[k] = IF k = 1 THEN r ELSE After(list, r)[k - 1]
  <2> HIDE DEF r
  <2>1. L \in Seq(Relays) /\ Len(L) = 1 + (n - 1)
    BY <1>5, <1>6, ConcatProperties
  <2>2. \A k \in 1 .. n : L[k] = IF k = 1 THEN r ELSE After(list, r)[k - 1]
    BY <1>5, <1>6, <1>1
  <2>3. QED
    BY <2>1, <2>2, <1>1
<1>8. Cycle(list, x) \in Seq(Relays) /\ Len(Cycle(list, x)) = n /\ Cycle(list, x)[1] = r
  BY CycleSound
<1>9. \A k \in 1 .. n : L[k] = Cycle(list, x)[k]
  <2>1. SUFFICES ASSUME NEW k \in 1 .. n PROVE L[k] = Cycle(list, x)[k]
    OBVIOUS
  <2>2. CASE k = 1
    BY <1>7, <1>8, <2>2
  <2>3. CASE k # 1
    BY <1>1, <2>3, <1>4, <1>7 DEF Cycle
  <2>4. QED
    BY <2>2, <2>3
<1>10. QED
  <2> HIDE DEF L
  <2>1. L = Cycle(list, x)
    BY <1>7, <1>8, <1>9, SeqEqual
  <2>2. QED
    BY <2>1 DEF L

LEMMA ScheduleSound ==
  ASSUME NEW agg, Distinct(agg), agg.members # <<>>
  PROVE  Schedule(agg) \in Seq(Range(Members(agg))) /\ Schedule(agg) # <<>>
<1> DEFINE n == Len(agg.members)
           R == Range(Members(agg))
           w(i) == IF agg.members[i].weight = 0 THEN 1 ELSE agg.members[i].weight
           blocks == [i \in DOMAIN agg.members |-> [k \in 1 .. w(i) |-> agg.members[i].relay]]
<1>1. agg.members \in Seq([relay : Relays, weight : Nat])
  BY DEF Distinct, Aggregates
<1>2. n \in Nat \ {0} /\ DOMAIN agg.members = 1 .. n
  BY <1>1, LenProperties, EmptySeq
<1>3. \A i \in 1 .. n : w(i) \in Nat \ {0} /\ agg.members[i].relay \in R
  <2>1. \A i \in 1 .. n : agg.members[i] \in [relay : Relays, weight : Nat]
    BY <1>1, ElementOfSeq
  <2>2. \A i \in 1 .. n : agg.members[i].relay \in R
    BY <1>2 DEF Members, Range
  <2>3. QED
    BY <2>1, <2>2
<1>4. \A i \in 1 .. n : blocks[i] \in Seq(R) /\ Len(blocks[i]) = w(i)
  <2> HIDE DEF R, w
  <2>1. QED
    BY <1>2, <1>3
<1>5. blocks \in Seq(Seq(R)) /\ Len(blocks) = n /\ blocks # <<>>
  <2>1. blocks = [i \in 1 .. n |-> blocks[i]]
    BY <1>2
  <2> HIDE DEF blocks, R, n
  <2>2. blocks \in Seq(Seq(R)) /\ Len(blocks) = n
    BY <1>2, <1>4, <2>1
  <2>3. QED
    BY <2>2, <1>2, EmptySeq
<1>6. PICK F \in [1 .. n -> Seq(R)] :
        /\ FlattenSeq(blocks) = F[n]
        /\ F[1] = blocks[1]
        /\ \A i \in 2 .. n : F[i] = F[i-1] \o blocks[i]
  <2> HIDE DEF blocks, R, n
  <2>1. \E F \in [1 .. Len(blocks) -> Seq(R)] :
           /\ FlattenSeq(blocks) = F[Len(blocks)]
           /\ F[1] = blocks[1]
           /\ \A i \in 2 .. Len(blocks) : F[i] = F[i-1] \o blocks[i]
    BY <1>5, FlattenSteps
  <2>2. QED
    BY <1>5, <2>1
<1>7. Schedule(agg) = F[n]
  BY <1>6 DEF Schedule
<1>8. F[n] \in Seq(R) /\ Len(F[n]) # 0
  <2> HIDE DEF blocks, R, w, n
  <2>1. CASE n = 1
    BY <1>2, <1>3, <1>4, <1>6, <2>1
  <2>2. CASE n # 1
    <3>1. n \in 2 .. n /\ n - 1 \in 1 .. n /\ n \in 1 .. n
      BY <1>2, <2>2
    <3>2. F[n] = F[n-1] \o blocks[n] /\ F[n-1] \in Seq(R) /\ blocks[n] \in Seq(R)
      BY <3>1, <1>6, <1>4
    <3>3. F[n] \in Seq(R) /\ Len(F[n]) = Len(F[n-1]) + Len(blocks[n])
      BY <3>2, ConcatProperties
    <3>4. Len(F[n-1]) \in Nat /\ Len(blocks[n]) \in Nat \ {0}
      BY <3>1, <3>2, <1>3, <1>4, LenProperties
    <3>5. ASSUME NEW a \in Nat, NEW b \in Nat \ {0} PROVE a + b # 0
      OBVIOUS
    <3>6. Len(F[n]) # 0
      BY <3>3, <3>4, <3>5, Zenon
    <3>7. QED
      BY <3>3, <3>6
  <2>3. QED
    BY <2>1, <2>2
<1>9. QED
  BY <1>7, <1>8, EmptySeq

LEMMA EligibleSound ==
  ASSUME NEW s, Distinct(s.agg), NEW model
  PROVE  /\ Eligible(s, model) \in Seq(Relays)
         /\ IsInjective(Eligible(s, model))
         /\ Range(Eligible(s, model)) \subseteq Range(Members(s.agg))
<1> DEFINE M == Members(s.agg)
           n == Len(M)
           R == Range(M)
           take(i) == s.serves[M[i]] = {} \/ model \in s.serves[M[i]]
           blocks == [i \in 1 .. n |-> IF take(i) THEN <<M[i]>> ELSE <<>>]
<1>1. M \in Seq(R) /\ R \subseteq Relays /\ IsInjective(M)
  BY MembersSound
<1>2. n \in Nat /\ DOMAIN M = 1 .. n /\ \A i \in 1 .. n : M[i] \in R
  <2> HIDE DEF M, R
  <2>1. QED
    BY <1>1, LenProperties, ElementOfSeq
<1>3. Eligible(s, model) = FlattenSeq(blocks)
  <2>1. M = [i \in DOMAIN s.agg.members |-> s.agg.members[i].relay]
    BY DEF Members
  <2>2. DOMAIN s.agg.members = 1 .. n
    BY <1>2, <2>1
  <2>3. \A i \in 1 .. n : M[i] = s.agg.members[i].relay
    BY <2>1, <2>2
  <2>4. Eligible(s, model) =
          FlattenSeq([i \in 1 .. n |->
            IF s.serves[s.agg.members[i].relay] = {} \/ model \in s.serves[s.agg.members[i].relay]
            THEN <<s.agg.members[i].relay>> ELSE <<>>])
    BY <2>2 DEF Eligible
  <2>5. [i \in 1 .. n |->
            IF s.serves[s.agg.members[i].relay] = {} \/ model \in s.serves[s.agg.members[i].relay]
            THEN <<s.agg.members[i].relay>> ELSE <<>>] = blocks
    <3> HIDE DEF M, n
    <3>1. QED
      BY <2>3
  <2>6. QED
    BY <2>4, <2>5
<1> HIDE DEF M, n, R, take
<1>4. blocks \in Seq(Seq(R)) /\ Len(blocks) = n
      /\ \A i \in 1 .. n : blocks[i] = IF take(i) THEN <<M[i]>> ELSE <<>>
  BY <1>2
<1>5. CASE n = 0
  <2>1. blocks = <<>>
    BY <1>5
  <2>2. FlattenSeq(blocks) = <<>>
    BY <2>1 DEF FlattenSeq
  <2>3. <<>> \in Seq(Relays) /\ DOMAIN <<>> = {}
    OBVIOUS
  <2>4. IsInjective(<<>>) /\ Range(<<>>) = {}
    BY <2>3 DEF IsInjective, Range
  <2>5. QED
    BY <1>3, <2>2, <2>3, <2>4
<1>6. CASE n # 0
  <2> HIDE DEF blocks
  <2>1. blocks # <<>>
    BY <1>4, <1>6, EmptySeq
  <2>2. PICK F \in [1 .. n -> Seq(R)] :
          /\ FlattenSeq(blocks) = F[n]
          /\ F[1] = blocks[1]
          /\ \A i \in 2 .. n : F[i] = F[i-1] \o blocks[i]
    BY <1>4, <2>1, FlattenSteps
  <2> DEFINE Only(i) == \A j \in 1 .. Len(F[i]) : \E k \in 1 .. i : F[i][j] = M[k]
             Once(i) == \A j, l \in 1 .. Len(F[i]) : F[i][j] = F[i][l] => j = l
             T == {i \in Nat : i # 0 => Only(i) /\ Once(i)}
  <2>3. 0 \in T
    OBVIOUS
  <2>4. ASSUME NEW i \in 0 .. n - 1, i \in T PROVE i + 1 \in T
    <3>1. i + 1 \in 1 .. n /\ blocks[i + 1] = (IF take(i + 1) THEN <<M[i + 1]>> ELSE <<>>)
      BY <1>2, <1>4
    <3>2. CASE i = 0
      <4>1. F[1] = IF take(1) THEN <<M[1]>> ELSE <<>>
        BY <2>2, <3>1, <3>2
      <4>2. Only(1) /\ Once(1)
        <5> HIDE DEF T
        <5>1. CASE take(1)
          BY <4>1, <5>1
        <5>2. CASE ~take(1)
          BY <4>1, <5>2
        <5>3. QED
          BY <5>1, <5>2
      <4> HIDE DEF Only, Once
      <4>3. QED
        BY <3>2, <4>2
    <3>3. CASE i # 0
      <4>1. i \in 1 .. n /\ i + 1 \in 2 .. n /\ (i + 1) - 1 = i
        BY <3>3, <1>2
      <4>2. Only(i) /\ Once(i)
        BY <2>4, <3>3
      <4>3. F[i + 1] = F[i] \o blocks[i + 1] /\ F[i] \in Seq(R)
        BY <4>1, <2>2
      <4>4. CASE ~take(i + 1)
        <5>1. F[i + 1] = F[i]
          BY <4>3, <4>4, <3>1
        <5>2. Only(i + 1) /\ Once(i + 1)
          BY <5>1, <4>1, <4>2
        <5> HIDE DEF Only, Once
        <5>3. QED
          BY <5>2, <4>1
      <4>5. CASE take(i + 1)
        <5> DEFINE m == Len(F[i])
        <5>1. M[i + 1] \in R /\ m \in Nat
          BY <3>1, <1>2, <4>3
        <5>2. Len(F[i + 1]) = m + 1
              /\ \A j \in 1 .. m + 1 : F[i + 1][j] = IF j <= m THEN F[i][j] ELSE M[i + 1]
          <6>1. F[i + 1] = F[i] \o <<M[i + 1]>>
            BY <4>3, <4>5, <3>1
          <6>2. <<M[i + 1]>> \in Seq(R) /\ Len(<<M[i + 1]>>) = 1 /\ <<M[i + 1]>>[1] = M[i + 1]
            BY <5>1
          <6>3. Len(F[i] \o <<M[i + 1]>>) = Len(F[i]) + 1
            BY <6>2, <4>3, ConcatProperties
          <6>4. \A j \in 1 .. m + 1 : (F[i] \o <<M[i + 1]>>)[j] = IF j <= m THEN F[i][j] ELSE M[i + 1]
            BY <6>2, <4>3, ConcatProperties, <5>1
          <6>5. QED
            BY <6>1, <6>3, <6>4
        <5>3. \A k \in 1 .. i : M[k] # M[i + 1]
          <6>1. \A k, l \in 1 .. n : M[k] = M[l] => k = l
            BY <1>1, <1>2 DEF IsInjective
          <6>2. \A k \in 1 .. i : k \in 1 .. n /\ k # i + 1
            BY <4>1, <1>2
          <6>3. QED
            BY <6>1, <6>2, <3>1
        <5>4. \A j \in 1 .. m : \E k \in 1 .. i : F[i][j] = M[k]
          BY <4>2
        <5>5. \A j, l \in 1 .. m : F[i][j] = F[i][l] => j = l
          BY <4>2
        <5> HIDE DEF m
        <5>6. \A j \in 1 .. m + 1 : \E k \in 1 .. i + 1 : F[i + 1][j] = M[k]
          <6>1. SUFFICES ASSUME NEW j \in 1 .. m + 1 PROVE \E k \in 1 .. i + 1 : F[i + 1][j] = M[k]
            OBVIOUS
          <6>2. CASE j <= m
            <7>1. j \in 1 .. m /\ F[i + 1][j] = F[i][j]
              BY <5>1, <5>2, <6>2
            <7>2. PICK k \in 1 .. i : F[i][j] = M[k]
              BY <5>4, <7>1
            <7>3. k \in 1 .. i + 1
              BY <4>1
            <7>4. QED
              BY <7>1, <7>2, <7>3
          <6>3. CASE ~(j <= m)
            BY <5>2, <6>3, <4>1
          <6>4. QED
            BY <6>2, <6>3
        <5>7. \A j \in 1 .. m : F[i][j] # M[i + 1]
          BY <5>3, <5>4
        <5>8. \A j, l \in 1 .. m + 1 : F[i + 1][j] = F[i + 1][l] => j = l
          <6>1. \A j \in 1 .. m + 1 : ~(j <= m) => j = m + 1
            BY <5>1
          <6>2. \A j \in 1 .. m + 1 : j <= m => j \in 1 .. m
            BY <5>1
          <6>3. SUFFICES ASSUME NEW j \in 1 .. m + 1, NEW l \in 1 .. m + 1, F[i + 1][j] = F[i + 1][l]
                         PROVE j = l
            OBVIOUS
          <6>4. F[i + 1][j] = (IF j <= m THEN F[i][j] ELSE M[i + 1])
                /\ F[i + 1][l] = (IF l <= m THEN F[i][l] ELSE M[i + 1])
            BY <5>2
          <6>5. QED
            BY <6>1, <6>2, <6>3, <6>4, <5>5, <5>7
        <5>9. Only(i + 1) /\ Once(i + 1)
          BY <5>2, <5>6, <5>8
        <5> HIDE DEF Only, Once
        <5>10. QED
          BY <5>9, <4>1
      <4>6. QED
        BY <4>4, <4>5
    <3>4. QED
      BY <3>2, <3>3
  <2>5. n \in T
    <3> HIDE DEF T
    <3>1. \A i \in 0 .. n : i \in T
      BY <1>2, <2>3, <2>4, Induction
    <3>2. QED
      BY <1>2, <3>1
  <2>6. Only(n) /\ Once(n)
    BY <2>5, <1>6
  <2>7. F[n] \in Seq(R) /\ DOMAIN F[n] = 1 .. Len(F[n])
    BY <2>2, <1>2, <1>6
  <2>8. IsInjective(F[n])
    BY <2>6, <2>7 DEF IsInjective
  <2>9. Range(F[n]) \subseteq R
    BY <2>7 DEF Range
  <2>10. F[n] \in Seq(Relays)
    BY <2>7, <1>1, SeqMonotonic
  <2>11. QED
    BY <1>3, <2>2, <2>8, <2>9, <2>10 DEF R, M
<1>7. QED
  BY <1>5, <1>6

----
(* How often r is among the first n of a list. *)
Count(r, list, n) == Cardinality({i \in 1 .. n : list[i] = r})

LEMMA CountSteps ==
  ASSUME NEW r, NEW list, NEW n \in Nat
  PROVE  /\ Count(r, list, n) \in Nat
         /\ Count(r, list, 0) = 0
         /\ Count(r, list, n + 1) = Count(r, list, n) + (IF list[n + 1] = r THEN 1 ELSE 0)
<1> DEFINE S(m) == {i \in 1 .. m : list[i] = r}
<1>1. \A m \in Nat : IsFiniteSet(S(m)) /\ Cardinality(S(m)) \in Nat
  <2>1. SUFFICES ASSUME NEW m \in Nat PROVE IsFiniteSet(S(m)) /\ Cardinality(S(m)) \in Nat
    OBVIOUS
  <2>2. IsFiniteSet(1 .. m)
    BY FS_Interval
  <2>3. S(m) \in SUBSET (1 .. m)
    OBVIOUS
  <2>4. IsFiniteSet(S(m))
    BY <2>2, <2>3, FS_Subset
  <2>5. QED
    BY <2>4, FS_CardinalityType
<1>2. S(0) = {} /\ Cardinality({}) = 0
  BY FS_EmptySet
<1>3. CASE list[n + 1] = r
  <2>1. S(n + 1) = S(n) \cup {n + 1} /\ n + 1 \notin S(n)
    BY <1>3
  <2> HIDE DEF S
  <2>2. Cardinality(S(n + 1)) = Cardinality(S(n)) + 1
    BY <1>1, <2>1, FS_AddElement
  <2>3. QED
    BY <1>1, <1>2, <1>3, <2>2 DEF Count, S
<1>4. CASE list[n + 1] # r
  BY <1>4, <1>1, <1>2 DEF Count
<1>5. QED
  BY <1>3, <1>4

(* Fewer of the first are no more, and one of the list is there. *)
LEMMA CountWithin ==
  ASSUME NEW r, NEW list, NEW n \in Nat, NEW m \in 0 .. n
  PROVE  /\ Count(r, list, m) <= Count(r, list, n)
         /\ \A i \in 1 .. n : list[i] = r => Count(r, list, n) >= 1
<1> DEFINE S(k) == {i \in 1 .. k : list[i] = r}
<1>1. IsFiniteSet(1 .. n) /\ S(n) \in SUBSET (1 .. n) /\ S(m) \in SUBSET S(n)
  BY FS_Interval
<1>2. IsFiniteSet(S(n)) /\ Cardinality(S(m)) <= Cardinality(S(n)) /\ Cardinality(S(n)) \in Nat
  <2> HIDE DEF S
  <2>1. IsFiniteSet(S(n))
    BY <1>1, FS_Subset
  <2>2. QED
    BY <1>1, <2>1, FS_Subset, FS_CardinalityType
<1>3. \A i \in 1 .. n : list[i] = r => Cardinality(S(n)) # 0
  <2>1. \A i \in 1 .. n : list[i] = r => S(n) # {}
    OBVIOUS
  <2> HIDE DEF S
  <2>2. QED
    BY <1>2, <2>1, FS_EmptySet
<1>4. QED
  BY <1>2, <1>3 DEF Count

----
(* The selector. *)

Round(agg) == IF agg.strategy = "weighted" THEN Schedule(agg) ELSE Members(agg)
Turn(sel) == IF sel.agg.strategy = "weighted" THEN sel.weighted ELSE sel.request

SelectorOK(sel) ==
  /\ sel \in Selectors
  /\ Distinct(sel.agg) /\ sel.agg.members # <<>>
  /\ sel.failover \in 0 .. Len(sel.agg.members) - 1
  /\ sel.request \in 0 .. Len(sel.agg.members) - 1
  /\ sel.weighted \in 0 .. Len(Schedule(sel.agg)) - 1
  /\ \A c \in Conversations : sel.assigned[c] \in Range(Members(sel.agg)) \cup {None}
  /\ \E s \in Snapshots : s.agg # None /\ sel.agg = s.agg

(* Every relay has had its share of each full round, and in the round      *)
(* under way the places it had so far.                                     *)
FairTurns(sel, g) ==
  sel.agg.strategy # "failover" =>
    \E k \in Nat : \A r \in Relays :
       g[r] = k * Count(r, Round(sel.agg), Len(Round(sel.agg)))
                + Count(r, Round(sel.agg), Turn(sel))

LEMMA NoneIsNoSelector == \A sel : SelectorOK(sel) => sel # None
  BY NoneIsNothing DEF SelectorOK

LEMMA AtSound ==
  ASSUME NEW list, Len(list) \in Nat \ {0}, NEW x \in 0 .. Len(list) - 1
  PROVE  At(list, x) = list[x + 1]
<1>1. x % Len(list) = x
  <2> DEFINE n == Len(list)
  <2>1. n \in Nat \ {0} /\ x \in 0 .. n - 1 /\ 0 \in 0 .. n /\ x + 0 < n /\ x + 0 = x
    OBVIOUS
  <2> HIDE DEF n
  <2>2. (x + 0) % n = x
    BY <2>1, ModNext
  <2>3. QED
    BY <2>1, <2>2 DEF n
<1>2. QED
  BY <1>1 DEF At

LEMMA RoundSound ==
  ASSUME NEW sel, SelectorOK(sel)
  PROVE  LET round == Round(sel.agg)
         IN  /\ round \in Seq(Range(Members(sel.agg)))
             /\ Len(round) \in Nat \ {0}
             /\ Turn(sel) \in 0 .. Len(round) - 1
             /\ Range(Members(sel.agg)) \subseteq Relays
<1>1. Distinct(sel.agg) /\ sel.agg.members # <<>>
  BY DEF SelectorOK
<1>2. /\ Members(sel.agg) \in Seq(Range(Members(sel.agg)))
      /\ Len(Members(sel.agg)) = Len(sel.agg.members)
      /\ Members(sel.agg) # <<>> /\ Range(Members(sel.agg)) \subseteq Relays
  BY <1>1, MembersSound
<1>3. Schedule(sel.agg) \in Seq(Range(Members(sel.agg))) /\ Schedule(sel.agg) # <<>>
  BY <1>1, ScheduleSound
<1>4. Len(Members(sel.agg)) \in Nat \ {0} /\ Len(Schedule(sel.agg)) \in Nat \ {0}
  BY <1>2, <1>3, EmptySeq
<1>5. QED
  BY <1>2, <1>3, <1>4 DEF SelectorOK, Round, Turn

LEMMA PeekSound ==
  ASSUME NEW sel, SelectorOK(sel)
  PROVE  /\ Peek(sel) \in Range(Members(sel.agg))
         /\ sel.agg.strategy = "failover" => Peek(sel) = Members(sel.agg)[sel.failover + 1]
         /\ sel.agg.strategy # "failover" => Peek(sel) = Round(sel.agg)[Turn(sel) + 1]
<1> DEFINE M == Members(sel.agg)
           R == Round(sel.agg)
<1>1. sel.agg.strategy \in Strategies
  BY DEF SelectorOK, Distinct, Aggregates
<1>2. M \in Seq(Range(M)) /\ Len(M) \in Nat \ {0} /\ Len(M) = Len(sel.agg.members)
  BY MembersSound, EmptySeq DEF SelectorOK
<1>3. R \in Seq(Range(M)) /\ Len(R) \in Nat \ {0} /\ Turn(sel) \in 0 .. Len(R) - 1
  BY RoundSound
<1>4. CASE sel.agg.strategy = "failover"
  <2>1. Peek(sel) = At(M, sel.failover)
    BY <1>4 DEF Peek, MemberAt
  <2>2. sel.failover \in 0 .. Len(M) - 1
    BY <1>2 DEF SelectorOK
  <2>3. Peek(sel) = M[sel.failover + 1] /\ sel.failover + 1 \in 1 .. Len(M)
    BY <1>2, <2>1, <2>2, AtSound
  <2>4. M[sel.failover + 1] \in Range(M)
    BY <1>2, <2>3, ElementOfSeq
  <2>5. QED
    BY <1>4, <2>3, <2>4
<1>5. CASE sel.agg.strategy # "failover"
  BY <1>1, <1>5, <1>3, AtSound, ElementOfSeq DEF Peek, MemberAt, Round, Turn, Strategies
<1>6. QED
  BY <1>4, <1>5

(* A turn goes to the next place of the round, after the last to the first.*)
LEMMA TakeTurnSound ==
  ASSUME NEW sel, SelectorOK(sel)
  PROVE  /\ SelectorOK(TakeTurn(sel))
         /\ TakeTurn(sel).agg = sel.agg /\ TakeTurn(sel).assigned = sel.assigned
         /\ TakeTurn(sel).failover = sel.failover
         /\ Turn(TakeTurn(sel)) = IF Turn(sel) + 1 < Len(Round(sel.agg)) THEN Turn(sel) + 1 ELSE 0
<1>1. sel \in Selectors
  BY DEF SelectorOK
<1>2. Distinct(sel.agg) /\ sel.agg.members # <<>>
  BY DEF SelectorOK
<1>3. Len(Members(sel.agg)) = Len(sel.agg.members)
  BY <1>2, MembersSound
<1>4. Len(Round(sel.agg)) \in Nat \ {0} /\ Turn(sel) \in 0 .. Len(Round(sel.agg)) - 1
  BY RoundSound
<1> DEFINE n == Len(Round(sel.agg))
           t == (Turn(sel) + 1) % n
<1>5. t = (IF Turn(sel) + 1 < n THEN Turn(sel) + 1 ELSE 0) /\ t \in 0 .. n - 1
  <2> HIDE DEF n
  <2>1. 1 \in 0 .. n
    BY <1>4 DEF n
  <2>2. (Turn(sel) + 1) % n = IF Turn(sel) + 1 < n THEN Turn(sel) + 1 ELSE Turn(sel) + 1 - n
    BY <1>4, <2>1, ModNext DEF n
  <2>3. QED
    BY <1>4, <2>2 DEF n
<1>6. CASE sel.agg.strategy = "weighted"
  <2>1. TakeTurn(sel) = [sel EXCEPT !.weighted = t] /\ n = Len(Schedule(sel.agg))
    BY <1>1, <1>6 DEF TakeTurn, Round, Turn, Selectors
  <2> HIDE DEF t, n
  <2>2. TakeTurn(sel) \in Selectors /\ TakeTurn(sel).weighted = t
        /\ TakeTurn(sel).agg = sel.agg /\ TakeTurn(sel).assigned = sel.assigned
        /\ TakeTurn(sel).failover = sel.failover /\ TakeTurn(sel).request = sel.request
    BY <1>1, <2>1, <1>4, <1>5 DEF Selectors, n
  <2>3. SelectorOK(TakeTurn(sel))
    BY <2>1, <2>2, <1>5 DEF SelectorOK
  <2>4. Turn(TakeTurn(sel)) = t
    BY <1>6, <2>2 DEF Turn
  <2>5. QED
    BY <2>2, <2>3, <2>4, <1>5 DEF n
<1>7. CASE sel.agg.strategy # "weighted"
  <2>1. TakeTurn(sel) = [sel EXCEPT !.request = t] /\ n = Len(sel.agg.members)
    BY <1>1, <1>3, <1>7 DEF TakeTurn, Round, Turn, Selectors
  <2> HIDE DEF t, n
  <2>2. TakeTurn(sel) \in Selectors /\ TakeTurn(sel).request = t
        /\ TakeTurn(sel).agg = sel.agg /\ TakeTurn(sel).assigned = sel.assigned
        /\ TakeTurn(sel).failover = sel.failover /\ TakeTurn(sel).weighted = sel.weighted
    BY <1>1, <2>1, <1>4, <1>5 DEF Selectors, n
  <2>3. SelectorOK(TakeTurn(sel))
    BY <2>1, <2>2, <1>5 DEF SelectorOK
  <2>4. Turn(TakeTurn(sel)) = t
    BY <1>7, <2>2 DEF Turn
  <2>5. QED
    BY <2>2, <2>3, <2>4, <1>5 DEF n
<1>8. QED
  BY <1>6, <1>7

LEMMA SelectedSound ==
  ASSUME NEW sel, SelectorOK(sel), NEW conv \in Conversations \cup {None}
  PROVE  /\ Selected(sel, conv) \in Range(Members(sel.agg)) /\ Selected(sel, conv) \in Relays
         /\ TakesTurn(sel, conv) => Selected(sel, conv) = Round(sel.agg)[Turn(sel) + 1]
         /\ sel.agg.strategy = "failover" => Selected(sel, conv) = Members(sel.agg)[sel.failover + 1]
<1>1. CASE Assigned(sel, conv)
  BY <1>1, RoundSound DEF Assigned, Selected, SelectorOK, TakesTurn
<1>2. CASE ~Assigned(sel, conv)
  BY <1>2, PeekSound, RoundSound DEF Selected, TakesTurn
<1>3. QED
  BY <1>1, <1>2

LEMMA AfterSelectSound ==
  ASSUME NEW sel, SelectorOK(sel), NEW conv \in Conversations \cup {None}
  PROVE  LET after == AfterSelect(sel, conv)
         IN  /\ SelectorOK(after) /\ after.agg = sel.agg /\ after.failover = sel.failover
             /\ ~TakesTurn(sel, conv) => after = sel
             /\ TakesTurn(sel, conv) =>
                  Turn(after) = IF Turn(sel) + 1 < Len(Round(sel.agg)) THEN Turn(sel) + 1 ELSE 0
             /\ sel.agg.strategy = "conversation" =>
                  \A c \in Conversations :
                    after.assigned[c] = IF c = conv THEN Selected(sel, conv) ELSE sel.assigned[c]
<1> DEFINE after == AfterSelect(sel, conv)
           turned == TakeTurn(sel)
           first == Selected(sel, conv)
<1>1. first \in Range(Members(sel.agg)) /\ first \in Relays
  BY SelectedSound
<1>2. /\ SelectorOK(turned) /\ turned.agg = sel.agg /\ turned.assigned = sel.assigned
      /\ turned.failover = sel.failover
      /\ Turn(turned) = IF Turn(sel) + 1 < Len(Round(sel.agg)) THEN Turn(sel) + 1 ELSE 0
  BY TakeTurnSound
<1>3. CASE ~TakesTurn(sel, conv)
  BY <1>3 DEF AfterSelect, TakesTurn, Selected
<1>4. CASE TakesTurn(sel, conv)
  <2>1. after = Assign(turned, conv, first)
    BY <1>4 DEF AfterSelect
  <2>2. CASE sel.agg.strategy = "conversation" /\ conv # None
    <3>1. after = [turned EXCEPT !.assigned[conv] = first] /\ conv \in Conversations
      BY <1>2, <2>1, <2>2 DEF Assign
    <3> HIDE DEF turned, first
    <3>2. turned \in Selectors
      BY <1>2 DEF SelectorOK
    <3>3. /\ after \in Selectors /\ after.agg = turned.agg /\ after.failover = turned.failover
          /\ after.request = turned.request /\ after.weighted = turned.weighted
          /\ after.assigned = [turned.assigned EXCEPT ![conv] = first]
      BY <1>1, <3>1, <3>2 DEF Selectors
    <3>4. \A c \in Conversations : after.assigned[c] = IF c = conv THEN first ELSE turned.assigned[c]
      BY <3>2, <3>3 DEF Selectors
    <3> HIDE DEF after
    <3>5. SelectorOK(after)
      BY <1>1, <1>2, <3>3, <3>4 DEF SelectorOK
    <3>6. Turn(after) = Turn(turned)
      BY <3>3 DEF Turn
    <3>7. QED
      BY <1>2, <1>4, <3>3, <3>4, <3>5, <3>6 DEF after, first
  <2>3. CASE ~(sel.agg.strategy = "conversation" /\ conv # None)
    BY <1>2, <2>1, <2>3, NoneIsNothing, <1>4 DEF Assign
  <2>4. QED
    BY <2>2, <2>3
<1>5. QED
  BY <1>3, <1>4

LEMMA NewSelectorSound ==
  ASSUME NEW s \in Snapshots, s.agg # None, s.agg.members # <<>>
  PROVE  /\ SelectorOK(NewSelector(s.agg)) /\ NewSelector(s.agg).agg = s.agg
         /\ FairTurns(NewSelector(s.agg), NoTurns)
<1> DEFINE sel == NewSelector(s.agg)
<1>1. Distinct(s.agg)
  BY AggregateOK
<1>2. Len(s.agg.members) \in Nat \ {0}
  BY <1>1, EmptySeq DEF Distinct, Aggregates
<1>3. Len(Schedule(s.agg)) \in Nat \ {0}
  BY <1>1, ScheduleSound, EmptySeq
<1>4. /\ sel \in Selectors /\ sel.agg = s.agg
      /\ sel.failover = 0 /\ sel.request = 0 /\ sel.weighted = 0
      /\ \A c \in Conversations : sel.assigned[c] = None
  BY <1>1 DEF NewSelector, Selectors, Distinct
<1> HIDE DEF sel
<1>5. SelectorOK(sel)
  BY <1>1, <1>2, <1>3, <1>4 DEF SelectorOK
<1>6. FairTurns(sel, NoTurns)
  <2>1. Turn(sel) = 0
    BY <1>4 DEF Turn
  <2>2. Len(Round(sel.agg)) \in Nat
    BY <1>5, RoundSound
  <2>3. \A r \in Relays : NoTurns[r] = 0 /\ Count(r, Round(sel.agg), 0) = 0
                          /\ Count(r, Round(sel.agg), Len(Round(sel.agg))) \in Nat
    BY <2>2, CountSteps DEF NoTurns
  <2>4. \A r \in Relays :
          NoTurns[r] = 0 * Count(r, Round(sel.agg), Len(Round(sel.agg)))
                         + Count(r, Round(sel.agg), Turn(sel))
    BY <2>1, <2>3
  <2>5. QED
    BY <2>4 DEF FairTurns
<1>7. QED
  BY <1>4, <1>5, <1>6 DEF sel

LEMMA EnsuredSound ==
  ASSUME selector = None \/ SelectorOK(selector), NEW s \in Snapshots, s.agg # None, AllUsable(s),
         given \in [Relays -> Nat], selector # None => FairTurns(selector, given)
  PROVE  /\ SelectorOK(Ensured(s)) /\ Ensured(s).agg = s.agg
         /\ FairTurns(Ensured(s), IF MadeAnew(s) THEN NoTurns ELSE given)
         /\ (IF MadeAnew(s) THEN NoTurns ELSE given) \in [Relays -> Nat]
         /\ \A r \in Relays : (IF MadeAnew(s) THEN NoTurns ELSE given)[r] <= given[r]
<1>1. s.agg.members # <<>>
  BY DEF AllUsable
<1>2. NoTurns \in [Relays -> Nat] /\ \A r \in Relays : NoTurns[r] <= given[r] /\ given[r] <= given[r]
  BY DEF NoTurns
<1>3. CASE MadeAnew(s)
  BY <1>3, <1>1, <1>2, NewSelectorSound DEF MadeAnew, Ensured
<1>4. CASE ~MadeAnew(s)
  BY <1>4, <1>2 DEF MadeAnew, Ensured
<1>5. QED
  BY <1>3, <1>4

(* A turn that is taken keeps the turns fair. *)
LEMMA TurnIsFair ==
  ASSUME NEW sel, SelectorOK(sel), NEW conv \in Conversations \cup {None}, TakesTurn(sel, conv),
         NEW g \in [Relays -> Nat], FairTurns(sel, g)
  PROVE  FairTurns(AfterSelect(sel, conv), [g EXCEPT ![Selected(sel, conv)] = @ + 1])
<1> DEFINE round == Round(sel.agg)
           n == Len(round)
           t == Turn(sel)
           first == Selected(sel, conv)
           h == [g EXCEPT ![first] = @ + 1]
           after == AfterSelect(sel, conv)
<1>1. n \in Nat \ {0} /\ t \in 0 .. n - 1
  BY RoundSound
<1>2. first = round[t + 1] /\ first \in Relays
  BY SelectedSound
<1>3. after.agg = sel.agg /\ Turn(after) = IF t + 1 < n THEN t + 1 ELSE 0
  BY AfterSelectSound
<1>4. sel.agg.strategy # "failover"
  BY DEF TakesTurn
<1>5. PICK k \in Nat : \A r \in Relays : g[r] = k * Count(r, round, n) + Count(r, round, t)
  BY <1>4 DEF FairTurns
<1> HIDE DEF round, n, t, first, after
<1>6. \A r \in Relays : h[r] = g[r] + (IF round[t + 1] = r THEN 1 ELSE 0)
  BY <1>2
<1>7. \A r \in Relays : /\ Count(r, round, t) \in Nat /\ Count(r, round, n) \in Nat
                        /\ Count(r, round, 0) = 0
                        /\ Count(r, round, t + 1) = Count(r, round, t) + (IF round[t + 1] = r THEN 1 ELSE 0)
  BY <1>1, CountSteps
<1>8. \A r \in Relays : h[r] = k * Count(r, round, n) + Count(r, round, t + 1)
  BY <1>7, <1>5, <1>6
<1>9. CASE t + 1 < n
  BY <1>3, <1>8, <1>9 DEF FairTurns, round, n, h, first, after
<1>10. CASE ~(t + 1 < n)
  <2>1. t + 1 = n /\ Turn(after) = 0
    BY <1>1, <1>3, <1>10
  <2>2. \A c \in Nat : k * c + c = (k + 1) * c + 0
    OBVIOUS
  <2>3. \A r \in Relays : h[r] = (k + 1) * Count(r, round, n) + Count(r, round, Turn(after))
    BY <1>7, <1>8, <2>1, <2>2
  <2>4. k + 1 \in Nat
    OBVIOUS
  <2>5. QED
    BY <1>3, <2>3, <2>4 DEF FairTurns, round, n, h, first, after
<1>11. QED
  BY <1>9, <1>10

(* So the relays share the turns as they are to. *)
LEMMA FairIsFair ==
  ASSUME selector = None \/ SelectorOK(selector), selector # None => FairTurns(selector, given),
         given \in [Relays -> 0 .. MaxRequests]
  PROVE  TurnsAreFair
<1>1. SUFFICES ASSUME selector # None, selector.agg.strategy # "failover"
               PROVE \E rounds \in 0 .. MaxRequests : \A r \in Relays :
                       /\ given[r] >= rounds * Occurrences(r, Round(selector.agg))
                       /\ given[r] <= (rounds + 1) * Occurrences(r, Round(selector.agg))
  BY DEF TurnsAreFair, Round
<1> DEFINE round == Round(selector.agg)
           n == Len(round)
           t == Turn(selector)
<1>2. /\ round \in Seq(Range(Members(selector.agg))) /\ n \in Nat \ {0} /\ t \in 0 .. n - 1
      /\ Range(Members(selector.agg)) \subseteq Relays
  BY <1>1, RoundSound
<1>3. PICK k \in Nat : \A r \in Relays : given[r] = k * Count(r, round, n) + Count(r, round, t)
  BY <1>1 DEF FairTurns
<1>4. \A r \in Relays : Occurrences(r, round) = Count(r, round, n)
  BY <1>2, LenProperties DEF Occurrences, Count
<1> HIDE DEF round, n, t
<1>5. \A r \in Relays : /\ Count(r, round, n) \in Nat /\ Count(r, round, t) \in Nat
                        /\ Count(r, round, t) <= Count(r, round, n)
  BY <1>2, CountSteps, CountWithin
<1>6. round[1] \in Relays /\ Count(round[1], round, n) >= 1
  BY <1>2, ElementOfSeq, CountWithin DEF n
<1>7. k \in 0 .. MaxRequests
  BY <1>3, <1>5, <1>6, SizesAreFinite
<1>8. \A c \in Nat, d \in Nat : d <= c => k * c + d >= k * c /\ k * c + d <= (k + 1) * c
  OBVIOUS
<1>9. \A r \in Relays : given[r] >= k * Count(r, round, n) /\ given[r] <= (k + 1) * Count(r, round, n)
  BY <1>3, <1>5, <1>8
<1>10. QED
  BY <1>4, <1>7, <1>9 DEF round

(* The first n places of a, and on them the first p of b. *)
Joins(c, a, n, b, p) ==
  (\A i \in 1 .. n : c[i] = a[i]) /\ (\A i \in 1 .. p : c[n + i] = b[i])

LEMMA CountConcat ==
  ASSUME NEW a, NEW b, NEW c, NEW r, NEW n \in Nat, NEW p \in Nat, Joins(c, a, n, b, p),
         NEW z, z = n + p
  PROVE  Count(r, c, z) = Count(r, a, n) + Count(r, b, p)
<1> DEFINE T == {m \in Nat : m <= p => Count(r, c, n + m) = Count(r, a, n) + Count(r, b, m)}
<1>1. 0 \in T
  <2>1. {i \in 1 .. n : c[i] = r} = {i \in 1 .. n : a[i] = r}
    BY DEF Joins
  <2>2. Count(r, c, n) = Count(r, a, n)
    BY <2>1 DEF Count
  <2>3. Count(r, b, 0) = 0 /\ Count(r, a, n) \in Nat /\ n + 0 = n
    BY CountSteps
  <2>4. QED
    BY <2>2, <2>3
<1>2. ASSUME NEW m \in 0 .. p - 1, m \in T PROVE m + 1 \in T
  <2>1. m \in Nat /\ n + m \in Nat /\ (n + m) + 1 = n + (m + 1) /\ m + 1 \in 1 .. p
    OBVIOUS
  <2>2. Count(r, c, n + m) = Count(r, a, n) + Count(r, b, m)
    BY <1>2
  <2>3. Count(r, c, (n + m) + 1) = Count(r, c, n + m) + (IF c[(n + m) + 1] = r THEN 1 ELSE 0)
    BY <2>1, CountSteps
  <2>4. Count(r, b, m + 1) = Count(r, b, m) + (IF b[m + 1] = r THEN 1 ELSE 0)
    BY <2>1, CountSteps
  <2>5. c[(n + m) + 1] = b[m + 1]
    BY <2>1 DEF Joins
  <2>6. Count(r, a, n) \in Nat /\ Count(r, b, m) \in Nat
    BY <2>1, CountSteps
  <2>7. Count(r, c, n + (m + 1)) = Count(r, a, n) + Count(r, b, m + 1)
    BY <2>1, <2>2, <2>3, <2>4, <2>5, <2>6
  <2>8. QED
    BY <2>1, <2>7
<1> HIDE DEF T
<1>3. p \in T
  BY <1>1, <1>2, Induction
<1>4. QED
  BY <1>3 DEF T

(* A list of one relay only. *)
LEMMA CountSame ==
  ASSUME NEW r, NEW x, NEW n \in Nat, NEW list, Len(list) = n, \A i \in 1 .. n : list[i] = x
  PROVE  Count(r, list, Len(list)) = IF x = r THEN n ELSE 0
<1>1. CASE x = r
  <2>1. {i \in 1 .. n : list[i] = r} = 1 .. n
    BY <1>1
  <2>2. Cardinality(1 .. n) = n
    BY FS_Interval
  <2>3. QED
    BY <1>1, <2>1, <2>2 DEF Count
<1>2. CASE x # r
  BY <1>2, FS_EmptySet DEF Count
<1>3. QED
  BY <1>1, <1>2

(* In the round of a weighted aggregate (weighted_schedule) each member has *)
(* as many places as its weight, or one if that is 0; in any other it has   *)
(* one.                                                                     *)
THEOREM RoundShares ==
  ASSUME NEW agg, Distinct(agg), NEW i \in DOMAIN agg.members
  PROVE  /\ Occurrences(agg.members[i].relay, Members(agg)) = 1
         /\ Occurrences(agg.members[i].relay, Schedule(agg)) =
              IF agg.members[i].weight = 0 THEN 1 ELSE agg.members[i].weight
<1> DEFINE n == Len(agg.members)
           R == Range(Members(agg))
           w(j) == IF agg.members[j].weight = 0 THEN 1 ELSE agg.members[j].weight
           block(j) == [k \in 1 .. w(j) |-> agg.members[j].relay]
           blocks == [j \in DOMAIN agg.members |-> block(j)]
           r == agg.members[i].relay
<1>1. agg.members \in Seq([relay : Relays, weight : Nat])
  BY DEF Distinct, Aggregates
<1>2. n \in Nat \ {0} /\ DOMAIN agg.members = 1 .. n /\ i \in 1 .. n
  BY <1>1
<1>3. \A j \in 1 .. n : agg.members[j] \in [relay : Relays, weight : Nat]
  BY <1>1, ElementOfSeq
<1>4. /\ DOMAIN Members(agg) = 1 .. n
      /\ \A j \in 1 .. n : Members(agg)[j] = agg.members[j].relay
      /\ \A j \in 1 .. n : agg.members[j].relay = r <=> j = i
  BY <1>2 DEF Members, Distinct, IsInjective
<1>5. Occurrences(r, Members(agg)) = 1
  <2>1. {j \in DOMAIN Members(agg) : Members(agg)[j] = r} = {i}
    BY <1>2, <1>4
  <2>2. QED
    BY <2>1, FS_Singleton DEF Occurrences
<1>6. \A j \in 1 .. n : w(j) \in Nat \ {0} /\ agg.members[j].relay \in R
  <2>1. \A j \in 1 .. n : agg.members[j].weight \in Nat
    BY <1>3
  <2>2. \A j \in 1 .. n : agg.members[j].relay \in R
    BY <1>4 DEF Range
  <2>3. QED
    BY <2>1, <2>2
<1> HIDE DEF w
<1>7. ASSUME NEW j \in 1 .. n
      PROVE  block(j) \in Seq(R) /\ Len(block(j)) = w(j) /\ \A k \in 1 .. w(j) : block(j)[k] = agg.members[j].relay
  BY <1>6
<1> HIDE DEF block
<1>8. /\ blocks \in Seq(Seq(R)) /\ Len(blocks) = n /\ blocks # <<>>
      /\ \A j \in 1 .. n : blocks[j] = block(j)
  <2>1. blocks = [j \in 1 .. n |-> block(j)]
    BY <1>2
  <2> HIDE DEF blocks, R, n
  <2>2. blocks \in Seq(Seq(R)) /\ Len(blocks) = n /\ \A j \in 1 .. n : blocks[j] = block(j)
    BY <1>2, <1>7, <2>1
  <2>3. QED
    BY <1>2, <2>2, EmptySeq
<1>9. Schedule(agg) = FlattenSeq(blocks)
  BY DEF Schedule, block, w
<1> HIDE DEF blocks, R
<1>10. PICK F \in [1 .. n -> Seq(R)] :
         /\ FlattenSeq(blocks) = F[n]
         /\ F[1] = blocks[1]
         /\ \A j \in 2 .. n : F[j] = F[j-1] \o blocks[j]
  <2> HIDE DEF n
  <2>1. \E F \in [1 .. Len(blocks) -> Seq(R)] :
           /\ FlattenSeq(blocks) = F[Len(blocks)]
           /\ F[1] = blocks[1]
           /\ \A j \in 2 .. Len(blocks) : F[j] = F[j-1] \o blocks[j]
    BY <1>8, FlattenSteps
  <2>2. QED
    BY <1>8, <2>1
<1> HIDE DEF n, r
<1> DEFINE T == {m \in Nat : m \in 1 .. n => Count(r, F[m], Len(F[m])) = IF i <= m THEN w(i) ELSE 0}
<1>11. ASSUME NEW j \in 1 .. n
       PROVE Count(r, block(j), Len(block(j))) = IF j = i THEN w(i) ELSE 0
  <2>1. w(j) \in Nat /\ Len(block(j)) = w(j) /\ \A k \in 1 .. w(j) : block(j)[k] = agg.members[j].relay
    BY <1>6, <1>7
  <2>2. Count(r, block(j), Len(block(j))) = IF agg.members[j].relay = r THEN w(j) ELSE 0
    <3> DEFINE x == agg.members[j].relay
               l == block(j)
               m == w(j)
    <3>1. m \in Nat /\ Len(l) = m /\ \A k \in 1 .. m : l[k] = x
      BY <2>1
    <3> HIDE DEF x, l, m
    <3>2. Count(r, l, Len(l)) = IF x = r THEN m ELSE 0
      BY <3>1, CountSame
    <3>3. QED
      BY <3>2 DEF x, l, m
  <2>3. QED
    BY <1>4, <2>2
<1>12. 0 \in T
  OBVIOUS
<1>13. ASSUME NEW m \in 0 .. n - 1, m \in T PROVE m + 1 \in T
  <2>1. m + 1 \in 1 .. n
    BY <1>2
  <2>2. CASE m = 0
    BY <1>2, <1>8, <1>10, <2>1, <2>2, <1>11
  <2>3. CASE m # 0
    <3>1. m \in 1 .. n /\ m + 1 \in 2 .. n /\ (m + 1) - 1 = m
      BY <1>2, <2>3
    <3>2. F[m + 1] = F[m] \o block(m + 1) /\ F[m] \in Seq(R) /\ block(m + 1) \in Seq(R)
      BY <1>7, <1>8, <1>10, <2>1, <3>1
    <3>3. Count(r, F[m + 1], Len(F[m + 1])) =
            Count(r, F[m], Len(F[m])) + Count(r, block(m + 1), Len(block(m + 1)))
      <4> DEFINE a == F[m]
                 b == block(m + 1)
                 c == a \o b
      <4>1. Len(a) \in Nat /\ Len(b) \in Nat /\ Len(c) = Len(a) + Len(b)
            /\ \A k \in 1 .. Len(a) + Len(b) : c[k] = IF k <= Len(a) THEN a[k] ELSE b[k - Len(a)]
        <5>1. a \in Seq(R) /\ b \in Seq(R)
          BY <3>2
        <5> HIDE DEF a, b
        <5>2. QED
          BY <5>1, ConcatProperties, LenProperties
      <4>0. F[m + 1] = c
        BY <3>2
      <4> HIDE DEF a, b, c
      <4>2. (\A k \in 1 .. Len(a) : c[k] = a[k]) /\ \A k \in 1 .. Len(b) : c[Len(a) + k] = b[k]
        BY <4>1
      <4>3. Count(r, c, Len(a) + Len(b)) = Count(r, a, Len(a)) + Count(r, b, Len(b))
        <5> DEFINE la == Len(a)
                   lb == Len(b)
                   lc == Len(a) + Len(b)
        <5>1. la \in Nat /\ lb \in Nat /\ lc = la + lb /\ Joins(c, a, la, b, lb)
          BY <4>1, <4>2 DEF Joins
        <5> HIDE DEF la, lb, lc
        <5>2. Count(r, c, lc) = Count(r, a, la) + Count(r, b, lb)
          BY <5>1, CountConcat
        <5>3. QED
          BY <5>2 DEF la, lb, lc
      <4>4. Count(r, c, Len(c)) = Count(r, a, Len(a)) + Count(r, b, Len(b))
        BY <4>1, <4>3
      <4>5. QED
        BY <4>0, <4>4 DEF a, b
    <3>4. /\ Count(r, F[m], Len(F[m])) = IF i <= m THEN w(i) ELSE 0
          /\ Count(r, block(m + 1), Len(block(m + 1))) = IF m + 1 = i THEN w(i) ELSE 0
      BY <1>11, <1>13, <2>1, <3>1
    <3>5. w(i) \in Nat
      BY <1>2, <1>6
    <3>6. /\ i <= m => m + 1 # i /\ i <= m + 1
          /\ m + 1 = i => ~(i <= m) /\ i <= m + 1
          /\ ~(i <= m) /\ m + 1 # i => ~(i <= m + 1)
      BY <1>2, <3>1
    <3>7. Count(r, F[m + 1], Len(F[m + 1])) = IF i <= m + 1 THEN w(i) ELSE 0
      BY <3>3, <3>4, <3>5, <3>6
    <3>8. QED
      BY <3>7
  <2>4. QED
    BY <2>2, <2>3
<1> HIDE DEF T
<1>14. n \in T
  <2>1. \A j \in 0 .. n : j \in T
    BY <1>2, <1>12, <1>13, Induction
  <2>2. QED
    BY <1>2, <2>1
<1>15. Count(r, Schedule(agg), Len(Schedule(agg))) = w(i)
  <2>1. n \in 1 .. n /\ i <= n
    BY <1>2
  <2>2. QED
    BY <1>9, <1>10, <1>14, <2>1 DEF T
<1>16. Occurrences(r, Schedule(agg)) = Count(r, Schedule(agg), Len(Schedule(agg)))
  <2>1. Schedule(agg) \in Seq(R)
    BY <1>2, <1>9, <1>10
  <2>2. DOMAIN Schedule(agg) = 1 .. Len(Schedule(agg))
    BY <2>1, LenProperties
  <2>3. QED
    BY <2>2 DEF Occurrences, Count
<1>17. QED
  BY <1>5, <1>15, <1>16 DEF r, w

----
(* The inductive invariant. *)

Requested ==
  [pc : {"idle", "loaded", "trying", "answered", "failed", "refused"},
   probe : BOOLEAN, alone : BOOLEAN, read : Snapshots \cup {None},
   conv : Conversations \cup {None}, model : Models \cup {None},
   left : Seq(Relays), tried : Seq(Relays)]

Live(r) == r.pc \in {"loaded", "trying"}
Routes(r) == r.read.agg # None /\ Routed(r.read, r.model)
Turns(r) == r.read.agg # None /\ ~Routed(r.read, r.model)
MayGo(r) ==
  IF Routes(r) THEN Range(Eligible(r.read, r.model)) ELSE Range(Members(r.read.agg))

(* The members a request has tried and those it has before it. *)
Way(r) == r.tried \o r.left

RequestOK(r) ==
  /\ r \in Requested
  /\ Live(r) => r.read \in Snapshots
  /\ r.pc # "trying" => r.left = <<>> /\ r.tried = <<>>
  /\ r.pc = "trying" =>
       /\ r.left # <<>> /\ IsInjective(Way(r))
       /\ ~r.probe /\ r.read.agg # None => Range(Way(r)) = MayGo(r)
       /\ ~r.probe /\ Turns(r) => AllUsable(r.read)

RequestBasics ==
  /\ settings \in Snapshots
  /\ selector = None \/ SelectorOK(selector)
  /\ req \in [Requests -> Requested] /\ \A q \in Requests : RequestOK(req[q])
  /\ held \in [Conversations -> Relays \cup {None}] /\ overtaken \in BOOLEAN
  /\ budget \in [requests : 0 .. MaxRequests, saves : 0 .. MaxSaves]

LoadedIn(f) == {q \in Requests : f[q].pc = "loaded"}

(* A turn that was given is of a request that has been started, and one    *)
(* that has read its settings may still take one.                          *)
TurnsOK ==
  /\ given \in [Relays -> Nat]
  /\ \A r \in Relays : given[r] + Cardinality(LoadedIn(req)) + budget.requests <= MaxRequests
  /\ selector # None => FairTurns(selector, given)

AloneOK ==
  \A p, q \in Requests :
    Live(req[p]) /\ Live(req[q]) /\ ~req[p].probe /\ ~req[q].probe /\ req[q].alone => p = q

(* A request that is alone with a failover selector leads it: the selector *)
(* is at the member it tries.                                              *)
Led(r, sel) ==
  r.pc = "trying" /\ ~r.probe /\ Turns(r) /\ r.alone /\ r.read.agg.strategy = "failover" =>
    /\ sel # None /\ sel.agg = r.read.agg
    /\ Len(r.left) <= Len(Members(sel.agg))
    /\ \A k \in 1 .. Len(r.left) : r.left[k] = At(Members(sel.agg), sel.failover + k - 1)

(* While no save has come before a request had ended, all is of these      *)
(* settings.                                                               *)
Unovertaken ==
  ~overtaken =>
    /\ \A q \in Requests : Live(req[q]) => req[q].read = settings
    /\ \A q \in Requests : Led(req[q], selector)
    /\ settings.agg # None /\ settings.agg.strategy = "conversation" =>
         \A c \in Conversations : held[c] # None =>
           selector # None /\ selector.agg = settings.agg /\ selector.assigned[c] = held[c]

RotationInv == RequestBasics /\ TurnsOK /\ AloneOK /\ Unovertaken

LEMMA SameWords ==
  ASSUME NEW q
  PROVE  /\ UnderWay(q) <=> Live(req[q])
         /\ ByRoute(q) <=> Routes(req[q])
         /\ ByTurn(q) <=> Turns(req[q])
         /\ Candidates(q) = MayGo(req[q])
  BY DEF UnderWay, Live, ByRoute, Routes, ByTurn, Turns, Candidates, MayGo

LEMMA RotationInitOK == RotationInit => RotationInv
<1>1. SUFFICES ASSUME RotationInit PROVE RotationInv
  OBVIOUS
<1>2. NoRequest \in Requested /\ NoRequest.pc = "idle" /\ NoRequest.left = <<>> /\ NoRequest.tried = <<>>
  BY DEF NoRequest, Requested
<1>3. req \in [Requests -> Requested] /\ \A q \in Requests : req[q] = NoRequest
  BY <1>1, <1>2 DEF RotationInit
<1>4. \A q \in Requests : RequestOK(req[q]) /\ ~Live(req[q])
  BY <1>2, <1>3 DEF RequestOK, Live
<1>5. RequestBasics
  <2>1. budget \in [requests : 0 .. MaxRequests, saves : 0 .. MaxSaves]
    BY <1>1, SizesAreFinite DEF RotationInit
  <2>2. held \in [Conversations -> Relays \cup {None}] /\ overtaken \in BOOLEAN
    BY <1>1 DEF RotationInit, NotHeld
  <2>3. settings \in Snapshots /\ selector = None
    BY <1>1 DEF RotationInit
  <2>4. QED
    BY <1>3, <1>4, <2>1, <2>2, <2>3 DEF RequestBasics
<1>6. TurnsOK
  <2>1. LoadedIn(req) = {}
    BY <1>2, <1>3 DEF LoadedIn
  <2>2. Cardinality(LoadedIn(req)) = 0
    BY <2>1, FS_EmptySet
  <2>3. given \in [Relays -> Nat] /\ selector = None /\ budget.requests = MaxRequests /\ MaxRequests \in Nat
        /\ \A r \in Relays : given[r] = 0
    BY <1>1, SizesAreFinite DEF RotationInit, NoTurns
  <2>4. QED
    BY <2>2, <2>3 DEF TurnsOK
<1>7. AloneOK
  BY <1>4 DEF AloneOK
<1>8. Unovertaken
  BY <1>2, <1>3, <1>1, <1>4 DEF Led, RotationInit, NotHeld, Unovertaken
<1>9. QED
  BY <1>5, <1>6, <1>7, <1>8 DEF RotationInv

----
(* What the steps have in common. *)

LEMMA LoadedFinite ==
  ASSUME NEW f
  PROVE  IsFiniteSet(LoadedIn(f)) /\ Cardinality(LoadedIn(f)) \in Nat
<1>1. LoadedIn(f) \in SUBSET Requests
  BY DEF LoadedIn
<1>2. QED
  BY <1>1, SizesAreFinite, FS_Subset, FS_CardinalityType

LEMMA GoesOK ==
  ASSUME RequestBasics, NEW q \in Requests, NEW r, RequestOK(r), Goes(q, r)
  PROVE  /\ req' \in [Requests -> Requested] /\ \A p \in Requests : RequestOK(req'[p])
         /\ \A p \in Requests : req'[p] = IF p = q THEN r ELSE req[p]
         /\ Live(req[q]) /\ (Live(r) => r.probe = req[q].probe /\ r.alone = req[q].alone) /\ AloneOK => AloneOK'
<1>1. req \in [Requests -> Requested] /\ \A p \in Requests : RequestOK(req[p])
  BY DEF RequestBasics
<1>2. req' = [req EXCEPT ![q] = r] /\ r \in Requested
  BY DEF Goes, RequestOK
<1>3. req' \in [Requests -> Requested] /\ \A p \in Requests : req'[p] = IF p = q THEN r ELSE req[p]
  BY <1>1, <1>2
<1>4. ASSUME Live(req[q]), Live(r) => r.probe = req[q].probe /\ r.alone = req[q].alone, AloneOK
      PROVE AloneOK'
  BY <1>3, <1>4 DEF AloneOK
<1>5. QED
  BY <1>1, <1>3, <1>4

(* A request that has read its settings goes on or ends. *)
LEMMA Unloaded ==
  ASSUME RequestBasics, NEW q \in Requests, NEW r, RequestOK(r), Goes(q, r), r.pc # "loaded"
  PROVE  /\ Cardinality(LoadedIn(req')) \in Nat /\ Cardinality(LoadedIn(req)) \in Nat
         /\ req[q].pc = "loaded" => Cardinality(LoadedIn(req')) + 1 = Cardinality(LoadedIn(req))
         /\ req[q].pc # "loaded" => Cardinality(LoadedIn(req')) = Cardinality(LoadedIn(req))
<1>1. \A p \in Requests : req'[p] = IF p = q THEN r ELSE req[p]
  BY GoesOK
<1>2. LoadedIn(req') = LoadedIn(req) \ {q}
  BY <1>1 DEF LoadedIn
<1>3. q \in LoadedIn(req) <=> req[q].pc = "loaded"
  BY DEF LoadedIn
<1>4. IsFiniteSet(LoadedIn(req)) /\ Cardinality(LoadedIn(req)) \in Nat /\ Cardinality(LoadedIn(req')) \in Nat
  BY LoadedFinite
<1>5. Cardinality(LoadedIn(req) \ {q}) =
        IF q \in LoadedIn(req) THEN Cardinality(LoadedIn(req)) - 1 ELSE Cardinality(LoadedIn(req))
  BY <1>4, FS_RemoveElement
<1>6. QED
  BY <1>2, <1>3, <1>4, <1>5

LEMMA EndedOK ==
  \A how \in {"answered", "failed", "refused"} :
    RequestOK([NoRequest EXCEPT !.pc = how]) /\ ~Live([NoRequest EXCEPT !.pc = how])
      /\ [NoRequest EXCEPT !.pc = how].pc = how /\ [NoRequest EXCEPT !.pc = how].left = <<>>
<1>1. SUFFICES ASSUME NEW how \in {"answered", "failed", "refused"}
               PROVE RequestOK([NoRequest EXCEPT !.pc = how]) /\ ~Live([NoRequest EXCEPT !.pc = how])
                       /\ [NoRequest EXCEPT !.pc = how].pc = how /\ [NoRequest EXCEPT !.pc = how].left = <<>>
  OBVIOUS
<1> DEFINE r == [NoRequest EXCEPT !.pc = how]
<1>2. r \in Requested /\ r.pc = how /\ r.left = <<>> /\ r.tried = <<>>
  <2>1. NoRequest \in Requested /\ NoRequest.left = <<>> /\ NoRequest.tried = <<>>
    BY DEF NoRequest, Requested
  <2>2. QED
    BY <2>1 DEF Requested
<1> HIDE DEF r
<1>3. RequestOK(r) /\ ~Live(r)
  BY <1>2 DEF RequestOK, Live
<1>4. QED
  BY <1>2, <1>3 DEF r

(* Nobody else leads the selector while a request that is no probe is live.*)
LEMMA NobodyElseLeads ==
  ASSUME AloneOK, NEW q \in Requests, Live(req[q]), ~req[q].probe, NEW p \in Requests, p # q, NEW sel
  PROVE  Led(req[p], sel)
<1>1. req[p].pc = "trying" /\ ~req[p].probe => ~req[p].alone
  BY DEF AloneOK, Live
<1>2. QED
  BY <1>1 DEF Led

LEMMA QuietGoes ==
  ASSUME RequestBasics, Unovertaken, NEW q \in Requests, NEW r, RequestOK(r), Goes(q, r), Live(req[q]),
         Live(r) => r.read = req[q].read, UNCHANGED <<settings, selector, held, overtaken>>,
         ~overtaken => Led(r, selector)
  PROVE  Unovertaken'
<1>1. \A p \in Requests : req'[p] = IF p = q THEN r ELSE req[p]
  BY GoesOK
<1>2. SUFFICES ASSUME ~overtaken
               PROVE /\ \A p \in Requests : Live(req'[p]) => req'[p].read = settings
                     /\ \A p \in Requests : Led(req'[p], selector)
  BY DEF Unovertaken
<1>3. \A p \in Requests : Live(req[p]) => req[p].read = settings
  BY <1>2 DEF Unovertaken
<1>4. \A p \in Requests : Led(req[p], selector)
  BY <1>2 DEF Unovertaken
<1>5. QED
  BY <1>1, <1>2, <1>3, <1>4

LEMMA StartKeeps ==
  ASSUME RotationInv, NEW q \in Requests, NEW probe \in BOOLEAN, NEW conv \in Conversations \cup {None},
         NEW model \in Models \cup {None}, StartRequest(q, probe, conv, model)
  PROVE  RotationInv'
<1> DEFINE others == {p \in Requests : UnderWay(p) /\ ~req[p].probe}
           lonely == others = {}
           new == [NoRequest EXCEPT !.pc = "loaded", !.probe = probe, !.conv = conv,
                                    !.model = model, !.read = settings, !.alone = lonely]
<1>1. /\ settings \in Snapshots
      /\ selector = None \/ SelectorOK(selector)
      /\ req \in [Requests -> Requested] /\ \A p \in Requests : RequestOK(req[p])
      /\ held \in [Conversations -> Relays \cup {None}] /\ overtaken \in BOOLEAN
      /\ budget \in [requests : 0 .. MaxRequests, saves : 0 .. MaxSaves]
  BY DEF RotationInv, RequestBasics
<1>2. /\ ~Live(req[q]) /\ budget.requests > 0
      /\ budget' = [budget EXCEPT !.requests = @ - 1]
      /\ req' = [p \in Requests |->
            IF p = q THEN new ELSE IF probe THEN req[p] ELSE [req[p] EXCEPT !.alone = FALSE]]
      /\ UNCHANGED <<settings, selector, given, held, overtaken>>
  BY SameWords DEF StartRequest
<1>3. /\ new \in Requested /\ new.pc = "loaded" /\ new.probe = probe /\ new.read = settings
      /\ new.left = <<>> /\ new.tried = <<>> /\ new.alone = lonely
  <2>0. NoRequest \in Requested /\ NoRequest.left = <<>> /\ NoRequest.tried = <<>>
    BY DEF NoRequest, Requested
  <2>1. lonely \in BOOLEAN
    OBVIOUS
  <2>2. settings \in Snapshots
    BY <1>1
  <2>3. new = [NoRequest EXCEPT !.pc = "loaded", !.probe = probe, !.conv = conv,
                                !.model = model, !.read = settings, !.alone = lonely]
    OBVIOUS
  <2> HIDE DEF lonely, new
  <2>4. QED
    BY <2>1, <2>2, <2>3, <2>0 DEF Requested
<1> HIDE DEF new
<1>4. RequestOK(new)
  BY <1>1, <1>3 DEF RequestOK
<1>5. \A p \in Requests : p # q =>
        /\ req'[p] \in Requested /\ req'[p].pc = req[p].pc /\ req'[p].probe = req[p].probe
        /\ req'[p].read = req[p].read /\ req'[p].model = req[p].model
        /\ req'[p].left = req[p].left /\ req'[p].tried = req[p].tried
        /\ req'[p].alone => ~(~probe) /\ req[p].alone
  <2>1. SUFFICES ASSUME NEW p \in Requests, p # q
                 PROVE /\ req'[p] \in Requested /\ req'[p].pc = req[p].pc /\ req'[p].probe = req[p].probe
                       /\ req'[p].read = req[p].read /\ req'[p].model = req[p].model
                       /\ req'[p].left = req[p].left /\ req'[p].tried = req[p].tried
                       /\ req'[p].alone => ~(~probe) /\ req[p].alone
    OBVIOUS
  <2>2. req'[p] = IF probe THEN req[p] ELSE [req[p] EXCEPT !.alone = FALSE]
    BY <1>2, <2>1
  <2>3. req[p] \in Requested
    BY <1>1
  <2>4. QED
    BY <2>2, <2>3 DEF Requested
<1>6. \A p \in Requests : RequestOK(req'[p])
  <2>1. \A p \in Requests : p # q => RequestOK(req'[p])
    <3>1. SUFFICES ASSUME NEW p \in Requests, p # q PROVE RequestOK(req'[p])
      OBVIOUS
    <3>2. RequestOK(req[p])
      BY <1>1
    <3>3. Turns(req'[p]) = Turns(req[p]) /\ MayGo(req'[p]) = MayGo(req[p]) /\ Way(req'[p]) = Way(req[p])
      BY <1>5, <3>1 DEF Turns, MayGo, Way, Routes
    <3>4. QED
      BY <1>5, <3>1, <3>2, <3>3 DEF RequestOK, Live
  <2>2. req'[q] = new
    BY <1>2
  <2>3. QED
    BY <1>4, <2>1, <2>2
<1>7. RequestBasics'
  BY <1>2, <1>6, <1>1, SizesAreFinite DEF RequestOK, RequestBasics
<1>8. TurnsOK'
  <2>1. LoadedIn(req') = LoadedIn(req) \cup {q}
    BY <1>2, <1>3, <1>5 DEF LoadedIn
  <2>2. IsFiniteSet(LoadedIn(req)) /\ Cardinality(LoadedIn(req)) \in Nat
    BY LoadedFinite
  <2>3. q \notin LoadedIn(req)
    BY <1>2 DEF LoadedIn, Live
  <2>4. Cardinality(LoadedIn(req')) = Cardinality(LoadedIn(req)) + 1
    BY <2>1, <2>2, <2>3, FS_AddElement
  <2>5. budget'.requests = budget.requests - 1 /\ budget.requests \in Nat
    BY <1>1, <1>2
  <2>6. /\ given \in [Relays -> Nat]
        /\ \A r \in Relays : given[r] + Cardinality(LoadedIn(req)) + budget.requests <= MaxRequests
        /\ selector # None => FairTurns(selector, given)
    BY DEF RotationInv, TurnsOK
  <2>7. \A r \in Relays : given[r] + Cardinality(LoadedIn(req')) + budget'.requests <= MaxRequests
    <3>1. SUFFICES ASSUME NEW r \in Relays
                   PROVE given[r] + Cardinality(LoadedIn(req')) + budget'.requests <= MaxRequests
      OBVIOUS
    <3>2. given[r] \in Nat /\ MaxRequests \in Nat
      BY <2>6, SizesAreFinite
    <3>3. QED
      BY <2>2, <2>4, <2>5, <2>6, <3>2
  <2>8. QED
    BY <1>2, <2>6, <2>7 DEF TurnsOK
<1>9. AloneOK'
  <2>1. SUFFICES ASSUME NEW p1 \in Requests, NEW p2 \in Requests,
                        Live(req'[p1]), Live(req'[p2]), ~req'[p1].probe, ~req'[p2].probe, req'[p2].alone
                 PROVE p1 = p2
    BY DEF AloneOK
  <2>2. req'[q] = new
    BY <1>2
  <2>3. CASE p2 = q
    BY <2>1, <2>2, <2>3, <1>3, <1>5, SameWords DEF Live
  <2>4. CASE p2 # q
    BY <1>5, <2>1, <2>4, <1>3, <2>2 DEF Live, RotationInv, AloneOK
  <2>5. QED
    BY <2>3, <2>4
<1>10. Unovertaken'
  <2>1. SUFFICES ASSUME ~overtaken
                 PROVE /\ \A p \in Requests : Live(req'[p]) => req'[p].read = settings
                       /\ \A p \in Requests : Led(req'[p], selector)
    BY <1>2 DEF RotationInv, Unovertaken
  <2>2. /\ \A p \in Requests : Live(req[p]) => req[p].read = settings
        /\ \A p \in Requests : Led(req[p], selector)
    BY <2>1 DEF RotationInv, Unovertaken
  <2>3. req'[q] = new
    BY <1>2
  <2>4. \A p \in Requests : Live(req'[p]) => req'[p].read = settings
    BY <1>3, <1>5, <2>2, <2>3 DEF Live
  <2>5. Led(new, selector)
    BY <1>3 DEF Led
  <2>6. ASSUME NEW p \in Requests, p # q PROVE Led(req'[p], selector)
    BY <2>2, <1>5, <2>6 DEF Turns, Led
  <2>7. QED
    BY <2>3, <2>4, <2>5, <2>6
<1>11. QED
  BY <1>7, <1>8, <1>9, <1>10 DEF RotationInv

LEMMA SaveKeeps ==
  ASSUME RotationInv, NEW s \in Snapshots, Save(s)
  PROVE  RotationInv'
<1>1. /\ budget.saves > 0 /\ budget' = [budget EXCEPT !.saves = @ - 1]
      /\ settings' = s /\ held' = NotHeld
      /\ overtaken' = (\E q \in Requests : UnderWay(q))
      /\ UNCHANGED <<selector, req, given>>
  BY DEF Save
<1>2. /\ selector = None \/ SelectorOK(selector)
      /\ req \in [Requests -> Requested] /\ \A p \in Requests : RequestOK(req[p])
      /\ budget \in [requests : 0 .. MaxRequests, saves : 0 .. MaxSaves]
  BY DEF RotationInv, RequestBasics
<1>3. budget' \in [requests : 0 .. MaxRequests, saves : 0 .. MaxSaves] /\ budget'.requests = budget.requests
  BY <1>1, <1>2, SizesAreFinite
<1>4. held' \in [Conversations -> Relays \cup {None}] /\ \A c \in Conversations : held'[c] = None
  BY <1>1 DEF NotHeld
<1>5. overtaken' \in BOOLEAN
  BY <1>1
<1>6. RequestBasics'
  BY <1>1, <1>2, <1>3, <1>4, <1>5 DEF RequestBasics
<1>7. TurnsOK' /\ AloneOK'
  BY <1>1, <1>3 DEF RotationInv, TurnsOK, AloneOK
<1>8. Unovertaken'
  <2>1. SUFFICES ASSUME ~overtaken'
                 PROVE /\ \A p \in Requests : Live(req'[p]) => req'[p].read = settings'
                       /\ \A p \in Requests : Led(req'[p], selector')
    BY <1>4 DEF Unovertaken
  <2>2. \A p \in Requests : ~Live(req[p])
    BY <1>1, <2>1, SameWords
  <2>3. QED
    BY <1>1, <2>2 DEF Led, Live
<1>9. QED
  BY <1>6, <1>7, <1>8 DEF RotationInv

LEMMA RegularKeeps ==
  ASSUME RotationInv, NEW q \in Requests, SelectRegular(q)
  PROVE  RotationInv'
<1> DEFINE s == req[q].read
           r == [req[q] EXCEPT !.pc = "trying", !.left = <<s.regular>>]
<1>1. /\ req[q].pc = "loaded" /\ s.agg = None /\ selector' = None /\ Goes(q, r)
      /\ given' = NoTurns /\ UNCHANGED <<settings, held, overtaken, budget>>
  BY DEF SelectRegular
<1>2. RequestBasics /\ RequestOK(req[q]) /\ req[q] \in Requested /\ Live(req[q])
  BY <1>1 DEF RotationInv, RequestBasics, RequestOK, Live
<1>3. s \in Snapshots /\ req[q].tried = <<>> /\ s.regular \in Relays
  BY <1>1, <1>2, SnapshotsAreSound DEF RequestOK
<1>4. <<s.regular>> \in Seq(Relays) /\ <<s.regular>> # <<>>
  BY <1>3
<1>5. /\ r \in Requested /\ r.pc = "trying" /\ r.left = <<s.regular>> /\ r.tried = <<>>
      /\ r.read = s /\ r.probe = req[q].probe /\ r.alone = req[q].alone
  BY <1>2, <1>3, <1>4 DEF Requested
<1>6. IsInjective(Way(r))
  <2>1. Way(r) = <<s.regular>>
    BY <1>4, ConcatEmptySeq, <1>5 DEF Way
  <2>2. QED
    BY <2>1 DEF IsInjective
<1> HIDE DEF r
<1>7. RequestOK(r)
  BY <1>1, <1>3, <1>4, <1>5, <1>6 DEF RequestOK, Turns
<1>8. /\ req' \in [Requests -> Requested] /\ \A p \in Requests : RequestOK(req'[p])
      /\ \A p \in Requests : req'[p] = IF p = q THEN r ELSE req[p]
      /\ AloneOK'
  BY <1>1, <1>2, <1>5, <1>7, GoesOK DEF RotationInv
<1>9. RequestBasics'
  BY <1>1, <1>2, <1>8 DEF RequestBasics
<1>10. TurnsOK'
  <2>1. /\ Cardinality(LoadedIn(req')) \in Nat
        /\ Cardinality(LoadedIn(req')) + 1 = Cardinality(LoadedIn(req))
    BY <1>1, <1>2, <1>5, <1>7, Unloaded
  <2>2. \A x \in Relays : given[x] \in Nat /\ NoTurns[x] = 0
                          /\ given[x] + Cardinality(LoadedIn(req)) + budget.requests <= MaxRequests
    BY DEF RotationInv, TurnsOK, NoTurns
  <2>3. budget.requests \in Nat /\ MaxRequests \in Nat
    BY <1>2, SizesAreFinite DEF RequestBasics
  <2>4. \A x \in Relays : NoTurns[x] + Cardinality(LoadedIn(req')) + budget.requests <= MaxRequests
    BY <2>1, <2>2, <2>3
  <2>5. QED
    BY <1>1, <2>4 DEF TurnsOK, NoTurns
<1>11. Unovertaken'
  <2>1. SUFFICES ASSUME ~overtaken
                 PROVE /\ \A p \in Requests : Live(req'[p]) => req'[p].read = settings
                       /\ \A p \in Requests : Led(req'[p], selector')
                       /\ settings.agg = None
    BY <1>1 DEF Unovertaken
  <2>2. \A p \in Requests : Live(req[p]) => req[p].read = settings
    BY <2>1 DEF RotationInv, Unovertaken
  <2>3. settings = s
    BY <1>2, <2>2
  <2>4. \A p \in Requests : Live(req'[p]) => req'[p].read = settings
    BY <1>5, <1>8, <2>2, <2>3
  <2>5. \A p \in Requests : Led(req'[p], selector')
    BY <1>1, <2>3, <2>4 DEF Led, Live, Turns
  <2>6. QED
    BY <1>1, <2>3, <2>4, <2>5
<1>12. QED
  BY <1>8, <1>9, <1>10, <1>11 DEF RotationInv

(* The request ends, the selector as it was. *)
LEMMA EndKeeps ==
  ASSUME RotationInv, NEW q \in Requests, NEW how \in {"answered", "failed", "refused"}, Live(req[q]),
         Ends(q, how), UNCHANGED <<settings, selector, given, held, overtaken, budget>>
  PROVE  RotationInv'
<1> DEFINE r == [NoRequest EXCEPT !.pc = how]
<1>1. RequestOK(r) /\ ~Live(r) /\ r.pc = how /\ Goes(q, r)
  BY EndedOK DEF Ends
<1> HIDE DEF r
<1>2. RequestBasics
  BY DEF RotationInv
<1>3. req' \in [Requests -> Requested] /\ (\A p \in Requests : RequestOK(req'[p])) /\ AloneOK'
  BY <1>1, <1>2, GoesOK DEF RotationInv
<1>4. RequestBasics'
  BY <1>2, <1>3 DEF RequestBasics
<1>5. TurnsOK'
  <2>1. /\ Cardinality(LoadedIn(req')) \in Nat /\ Cardinality(LoadedIn(req)) \in Nat
        /\ Cardinality(LoadedIn(req')) <= Cardinality(LoadedIn(req))
    BY <1>1, <1>2, Unloaded
  <2>2. \A x \in Relays : given[x] \in Nat
          /\ given[x] + Cardinality(LoadedIn(req)) + budget.requests <= MaxRequests
    BY DEF RotationInv, TurnsOK
  <2>3. budget.requests \in Nat /\ MaxRequests \in Nat
    BY <1>2, SizesAreFinite DEF RequestBasics
  <2>4. \A x \in Relays : given[x] + Cardinality(LoadedIn(req')) + budget.requests <= MaxRequests
    BY <2>1, <2>2, <2>3
  <2>5. QED
    BY <2>4 DEF RotationInv, TurnsOK
<1>6. Unovertaken'
  BY <1>1, <1>2, QuietGoes DEF Led, Live, RotationInv
<1>7. QED
  BY <1>3, <1>4, <1>5, <1>6 DEF RotationInv

LEMMA ByModelKeeps ==
  ASSUME RotationInv, NEW q \in Requests, SelectByModel(q)
  PROVE  RotationInv'
<1> DEFINE s == req[q].read
           list == Eligible(s, req[q].model)
           r == [req[q] EXCEPT !.pc = "trying", !.left = list]
<1>1. /\ req[q].pc = "loaded" /\ Routes(req[q]) /\ UNCHANGED <<settings, selector, given, held, overtaken, budget>>
      /\ IF RouteFails(s, req[q].model) THEN Refuse(q) ELSE Goes(q, r)
  BY SameWords DEF SelectByModel
<1>2. RequestBasics /\ RequestOK(req[q]) /\ req[q] \in Requested /\ Live(req[q])
  BY <1>1 DEF RotationInv, RequestBasics, RequestOK, Live
<1>3. CASE RouteFails(s, req[q].model)
  BY <1>1, <1>2, <1>3, EndKeeps DEF Refuse
<1>4. CASE ~RouteFails(s, req[q].model)
  <2>1. s \in Snapshots /\ s.agg # None /\ req[q].tried = <<>>
    BY <1>1, <1>2 DEF RequestOK, Routes
  <2>2. Distinct(s.agg)
    BY <2>1, AggregateOK
  <2>3. list \in Seq(Relays) /\ IsInjective(list) /\ list # <<>>
    BY <1>4, <2>2, EligibleSound DEF RouteFails
  <2> HIDE DEF list
  <2>4. /\ r \in Requested /\ r.pc = "trying" /\ r.left = list /\ r.tried = <<>>
        /\ r.read = s /\ r.model = req[q].model /\ r.probe = req[q].probe /\ r.alone = req[q].alone
    BY <1>2, <2>1, <2>3 DEF Requested
  <2> HIDE DEF r
  <2>5. Way(r) = list
    BY <2>3, ConcatEmptySeq, <2>4 DEF Way
  <2>6. Routes(r) /\ ~Turns(r) /\ MayGo(r) = Range(list)
    BY <1>1, <2>4 DEF Routes, Turns, MayGo, list
  <2>7. RequestOK(r)
    BY <2>1, <2>3, <2>4, <2>5, <2>6 DEF RequestOK
  <2>8. Goes(q, r)
    BY <1>1, <1>4
  <2>9. /\ req' \in [Requests -> Requested] /\ (\A p \in Requests : RequestOK(req'[p])) /\ AloneOK'
    BY <1>2, <2>4, <2>7, <2>8, GoesOK DEF RotationInv
  <2>10. RequestBasics'
    BY <1>1, <1>2, <2>9 DEF RequestBasics
  <2>11. TurnsOK'
    <3>1. /\ Cardinality(LoadedIn(req')) \in Nat /\ Cardinality(LoadedIn(req)) \in Nat
          /\ Cardinality(LoadedIn(req')) + 1 = Cardinality(LoadedIn(req))
      BY <1>1, <1>2, <2>4, <2>7, <2>8, Unloaded
    <3>2. \A x \in Relays : given[x] \in Nat
            /\ given[x] + Cardinality(LoadedIn(req)) + budget.requests <= MaxRequests
      BY DEF RotationInv, TurnsOK
    <3>3. budget.requests \in Nat /\ MaxRequests \in Nat
      BY <1>2, SizesAreFinite DEF RequestBasics
    <3>4. \A x \in Relays : given[x] + Cardinality(LoadedIn(req')) + budget.requests <= MaxRequests
      BY <3>1, <3>2, <3>3
    <3>5. QED
      BY <1>1, <3>4 DEF RotationInv, TurnsOK
  <2>12. Unovertaken'
    BY <2>6, <1>1, <1>2, <2>4, <2>7, <2>8, QuietGoes DEF Led, RotationInv
  <2>13. QED
    BY <2>9, <2>10, <2>11, <2>12 DEF RotationInv
<1>5. QED
  BY <1>3, <1>4

LEMMA ForProbeKeeps ==
  ASSUME RotationInv, NEW q \in Requests, SelectForProbe(q)
  PROVE  RotationInv'
<1> DEFINE s == req[q].read
           sel == Ensured(s)
           list == <<Peek(sel)>>
           since == IF MadeAnew(s) THEN NoTurns ELSE given
           r == [req[q] EXCEPT !.pc = "trying", !.left = list]
<1>1. /\ req[q].pc = "loaded" /\ req[q].probe /\ s.agg # None
      /\ UNCHANGED <<settings, held, overtaken, budget>>
      /\ IF ~AllUsable(s) THEN Refuse(q) /\ UNCHANGED <<selector, given>>
         ELSE selector' = sel /\ given' = since /\ Goes(q, r)
  BY DEF SelectForProbe
<1>2. RequestBasics /\ RequestOK(req[q]) /\ req[q] \in Requested /\ Live(req[q])
  BY <1>1 DEF RotationInv, RequestBasics, RequestOK, Live
<1>3. CASE ~AllUsable(s)
  BY <1>1, <1>2, <1>3, EndKeeps DEF Refuse
<1>4. CASE AllUsable(s)
  <2>1. s \in Snapshots /\ req[q].tried = <<>>
    BY <1>1, <1>2 DEF RequestOK
  <2>2. selector = None \/ SelectorOK(selector)
    BY <1>2 DEF RequestBasics
  <2>3. given \in [Relays -> Nat] /\ (selector # None => FairTurns(selector, given))
    BY DEF RotationInv, TurnsOK
  <2>4. /\ SelectorOK(sel) /\ sel.agg = s.agg /\ FairTurns(sel, since)
        /\ since \in [Relays -> Nat] /\ \A x \in Relays : since[x] <= given[x]
    BY <1>1, <1>4, <2>1, <2>2, <2>3, EnsuredSound
  <2>5. ~MadeAnew(s) => sel = selector
    BY DEF MadeAnew, Ensured
  <2>6. selector' = sel /\ given' = since /\ Goes(q, r)
    BY <1>1, <1>4
  <2> HIDE DEF sel, since
  <2>7. Peek(sel) \in Relays
    BY <2>4, PeekSound, RoundSound
  <2>8. list \in Seq(Relays) /\ list # <<>> /\ IsInjective(list)
    BY <2>7 DEF IsInjective
  <2> HIDE DEF list
  <2>9. /\ r \in Requested /\ r.pc = "trying" /\ r.left = list /\ r.tried = <<>>
        /\ r.read = s /\ r.probe /\ r.probe = req[q].probe /\ r.alone = req[q].alone
    BY <1>1, <1>2, <2>1, <2>8 DEF Requested
  <2> HIDE DEF r
  <2>10. Way(r) = list
    BY <2>8, ConcatEmptySeq, <2>9 DEF Way
  <2>11. RequestOK(r)
    BY <2>1, <2>8, <2>9, <2>10 DEF RequestOK
  <2>12. /\ req' \in [Requests -> Requested] /\ (\A p \in Requests : RequestOK(req'[p]))
         /\ \A p \in Requests : req'[p] = IF p = q THEN r ELSE req[p]
         /\ AloneOK'
    BY <1>2, <2>6, <2>9, <2>11, GoesOK DEF RotationInv
  <2>13. RequestBasics'
    BY <1>1, <1>2, <2>4, <2>6, <2>12 DEF RequestBasics
  <2>14. TurnsOK'
    <3>1. /\ Cardinality(LoadedIn(req')) \in Nat /\ Cardinality(LoadedIn(req)) \in Nat
          /\ Cardinality(LoadedIn(req')) + 1 = Cardinality(LoadedIn(req))
      BY <1>1, <1>2, <2>6, <2>9, <2>11, Unloaded
    <3>2. \A x \in Relays : given[x] \in Nat /\ since[x] \in Nat /\ since[x] <= given[x]
            /\ given[x] + Cardinality(LoadedIn(req)) + budget.requests <= MaxRequests
      BY <2>4 DEF RotationInv, TurnsOK
    <3>3. budget.requests \in Nat /\ MaxRequests \in Nat
      BY <1>2, SizesAreFinite DEF RequestBasics
    <3>4. \A x \in Relays : since[x] + Cardinality(LoadedIn(req')) + budget.requests <= MaxRequests
      BY <3>1, <3>2, <3>3
    <3>5. QED
      BY <1>1, <2>4, <2>6, <3>4 DEF TurnsOK
  <2>15. Unovertaken'
    <3>1. SUFFICES ASSUME ~overtaken
                   PROVE /\ \A p \in Requests : Live(req'[p]) => req'[p].read = settings
                         /\ \A p \in Requests : Led(req'[p], sel)
                         /\ settings.agg # None /\ settings.agg.strategy = "conversation" =>
                              \A c \in Conversations : held[c] # None =>
                                sel # None /\ sel.agg = settings.agg /\ sel.assigned[c] = held[c]
      BY <1>1, <2>6 DEF Unovertaken
    <3>2. /\ \A p \in Requests : Live(req[p]) => req[p].read = settings
          /\ \A p \in Requests : Led(req[p], selector)
          /\ settings.agg # None /\ settings.agg.strategy = "conversation" =>
               \A c \in Conversations : held[c] # None =>
                 selector # None /\ selector.agg = settings.agg /\ selector.assigned[c] = held[c]
      BY <3>1 DEF RotationInv, Unovertaken
    <3>3. settings = s
      BY <1>2, <3>2
    <3>4. \A p \in Requests : Live(req'[p]) => req'[p].read = settings
      BY <2>9, <2>12, <3>2, <3>3
    <3>5. selector # None /\ selector.agg = s.agg => sel = selector
      BY <2>5 DEF MadeAnew
    <3>6. ASSUME NEW p \in Requests PROVE Led(req'[p], sel)
      <4>1. CASE p = q
        BY <2>9, <2>12, <4>1 DEF Led
      <4>2. CASE p # q
        BY <2>12, <3>2, <3>3, <4>2, <3>5 DEF Led, Live
      <4>3. QED
        BY <4>1, <4>2
    <3>7. QED
      BY <3>2, <3>3, <3>4, <3>5, <3>6
  <2>16. QED
    BY <2>12, <2>13, <2>14, <2>15 DEF RotationInv
<1>5. QED
  BY <1>3, <1>4

LEMMA ByTurnKeeps ==
  ASSUME RotationInv, NEW q \in Requests, SelectByTurn(q)
  PROVE  RotationInv'
<1> DEFINE s == req[q].read
           conv == req[q].conv
           sel == Ensured(s)
           first == Selected(sel, conv)
           since == IF MadeAnew(s) THEN NoTurns ELSE given
           after == AfterSelect(sel, conv)
           list == <<first>> \o After(Members(s.agg), first)
           r == [req[q] EXCEPT !.pc = "trying", !.left = list]
<1>1. /\ req[q].pc = "loaded" /\ ~req[q].probe /\ Turns(req[q])
      /\ UNCHANGED <<settings, overtaken, budget>>
      /\ IF ~AllUsable(s) THEN Refuse(q) /\ UNCHANGED <<selector, given, held>>
         ELSE /\ selector' = after /\ Goes(q, r)
              /\ given' = IF TakesTurn(sel, conv) THEN [since EXCEPT ![first] = @ + 1] ELSE since
              /\ held' = IF conv = None \/ s # settings THEN held ELSE [held EXCEPT ![conv] = first]
  BY SameWords DEF SelectByTurn
<1>2. RequestBasics /\ RequestOK(req[q]) /\ req[q] \in Requested /\ Live(req[q])
  BY <1>1 DEF RotationInv, RequestBasics, RequestOK, Live
<1>3. CASE ~AllUsable(s)
  BY <1>1, <1>2, <1>3, EndKeeps DEF Refuse
<1>4. CASE AllUsable(s)
  <2>1. s \in Snapshots /\ s.agg # None /\ req[q].tried = <<>> /\ conv \in Conversations \cup {None}
    BY <1>1, <1>2 DEF RequestOK, Turns, Requested
  <2>2. selector = None \/ SelectorOK(selector)
    BY <1>2 DEF RequestBasics
  <2>3. given \in [Relays -> Nat] /\ (selector # None => FairTurns(selector, given))
    BY DEF RotationInv, TurnsOK
  <2>4. /\ SelectorOK(sel) /\ sel.agg = s.agg /\ FairTurns(sel, since)
        /\ since \in [Relays -> Nat] /\ \A x \in Relays : since[x] <= given[x]
    BY <1>4, <2>1, <2>2, <2>3, EnsuredSound
  <2>5. ~MadeAnew(s) => sel = selector
    BY DEF MadeAnew, Ensured
  <2>6. /\ selector' = after /\ Goes(q, r)
        /\ given' = IF TakesTurn(sel, conv) THEN [since EXCEPT ![first] = @ + 1] ELSE since
        /\ held' = IF conv = None \/ s # settings THEN held ELSE [held EXCEPT ![conv] = first]
    BY <1>1, <1>4
  <2> HIDE DEF sel, since
  <2>7. /\ first \in Range(Members(s.agg)) /\ first \in Relays
        /\ s.agg.strategy = "failover" => first = Members(s.agg)[sel.failover + 1]
    BY <2>1, <2>4, SelectedSound
  <2>8. /\ SelectorOK(after) /\ after.agg = s.agg /\ after.failover = sel.failover
        /\ s.agg.strategy = "conversation" =>
             \A c \in Conversations : after.assigned[c] = IF c = conv THEN first ELSE sel.assigned[c]
        /\ ~TakesTurn(sel, conv) => after = sel
    BY <2>1, <2>4, AfterSelectSound
  <2>9. TakesTurn(sel, conv) => FairTurns(after, [since EXCEPT ![first] = @ + 1])
    BY <2>1, <2>4, TurnIsFair
  <2> HIDE DEF first, after
  <2> DEFINE M == Members(s.agg)
             n == Len(M)
  <2>10. M \in Seq(Relays) /\ M # <<>> /\ IsInjective(M) /\ n = Len(s.agg.members)
    BY <2>4, MembersSound DEF SelectorOK
  <2>11. n \in Nat \ {0} /\ DOMAIN M = 1 .. n
    <3> HIDE DEF M
    <3>1. QED
      BY <2>10, EmptySeq, LenProperties
  <2>12. \E x \in 0 .. n - 1 : M[x + 1] = first /\ (s.agg.strategy = "failover" => x = sel.failover)
    <3>1. CASE s.agg.strategy = "failover"
      BY <2>4, <2>10, <2>7, <3>1 DEF SelectorOK
    <3>2. CASE s.agg.strategy # "failover"
      <4>1. PICK i \in 1 .. n : M[i] = first
        BY <2>7, <2>11 DEF Range
      <4>2. i - 1 \in 0 .. n - 1 /\ (i - 1) + 1 = i
        BY <2>11
      <4>3. QED
        BY <3>2, <4>1, <4>2
    <3>3. QED
      BY <3>1, <3>2
  <2>13. PICK x \in 0 .. n - 1 : M[x + 1] = first /\ (s.agg.strategy = "failover" => x = sel.failover)
    BY <2>12
  <2>14. list = Cycle(M, x)
    BY <2>10, <2>13, AfterCycles
  <2>15. /\ list \in Seq(Relays) /\ Len(list) = n /\ IsInjective(list) /\ Range(list) = Range(M)
         /\ \A k \in 1 .. n : list[k] = At(M, x + k - 1)
    <3>1. /\ Cycle(M, x) \in Seq(Relays) /\ Len(Cycle(M, x)) = n /\ IsInjective(Cycle(M, x))
          /\ Range(Cycle(M, x)) = Range(M)
      BY <2>10, <2>13, CycleSound
    <3>2. \A k \in 1 .. n : Cycle(M, x)[k] = At(M, x + k - 1)
      BY DEF Cycle
    <3>3. QED
      BY <2>14, <3>1, <3>2
  <2>16. list # <<>>
    BY <2>11, <2>15, EmptySeq
  <2> HIDE DEF list
  <2>17. /\ r \in Requested /\ r.pc = "trying" /\ r.left = list /\ r.tried = <<>>
         /\ r.read = s /\ r.model = req[q].model /\ r.probe = req[q].probe /\ r.alone = req[q].alone
    BY <1>2, <2>1, <2>15 DEF Requested
  <2> HIDE DEF r
  <2>18. Way(r) = list
    BY <2>15, ConcatEmptySeq, <2>17 DEF Way
  <2>19. Turns(r) /\ MayGo(r) = Range(M)
    BY <1>1, <2>17 DEF Turns, MayGo, Routes
  <2> HIDE DEF M
  <2>20. RequestOK(r)
    BY <1>4, <2>1, <2>15, <2>16, <2>17, <2>18, <2>19 DEF RequestOK
  <2>21. /\ req' \in [Requests -> Requested] /\ (\A p \in Requests : RequestOK(req'[p]))
         /\ \A p \in Requests : req'[p] = IF p = q THEN r ELSE req[p]
         /\ AloneOK'
    BY <1>2, <2>6, <2>17, <2>20, GoesOK DEF RotationInv
  <2>22. held' \in [Conversations -> Relays \cup {None}]
    BY <1>2, <2>1, <2>6, <2>7 DEF RequestBasics
  <2>23. RequestBasics'
    BY <1>1, <1>2, <2>6, <2>8, <2>21, <2>22 DEF RequestBasics
  <2>24. TurnsOK'
    <3>1. /\ Cardinality(LoadedIn(req')) \in Nat /\ Cardinality(LoadedIn(req)) \in Nat
          /\ Cardinality(LoadedIn(req')) + 1 = Cardinality(LoadedIn(req))
      BY <1>1, <1>2, <2>6, <2>17, <2>20, Unloaded
    <3>2. given' \in [Relays -> Nat] /\ \A y \in Relays : given'[y] <= since[y] + 1
      BY <2>4, <2>6, <2>7
    <3>3. \A y \in Relays : given[y] \in Nat /\ since[y] \in Nat /\ since[y] <= given[y]
            /\ given[y] + Cardinality(LoadedIn(req)) + budget.requests <= MaxRequests
      BY <2>4 DEF RotationInv, TurnsOK
    <3>4. budget.requests \in Nat /\ MaxRequests \in Nat
      BY <1>2, SizesAreFinite DEF RequestBasics
    <3>5. ASSUME NEW y \in Relays
          PROVE given'[y] + Cardinality(LoadedIn(req')) + budget.requests <= MaxRequests
      <4>1. given'[y] \in Nat /\ given'[y] <= since[y] + 1
        BY <3>2
      <4>2. /\ given[y] \in Nat /\ since[y] \in Nat /\ since[y] <= given[y]
            /\ given[y] + Cardinality(LoadedIn(req)) + budget.requests <= MaxRequests
        BY <3>3
      <4>3. \A a, b, c, d, e, f, m \in Nat :
              a <= b + 1 /\ b <= c /\ d + 1 = e /\ c + e + f <= m => a + d + f <= m
        OBVIOUS
      <4>4. QED
        BY <3>1, <3>4, <4>1, <4>2, <4>3
    <3>6. FairTurns(after, given')
      BY <2>4, <2>6, <2>8, <2>9
    <3>7. QED
      BY <1>1, <2>6, <3>2, <3>5, <3>6 DEF TurnsOK
  <2>25. Unovertaken'
    <3>1. SUFFICES ASSUME ~overtaken
                   PROVE /\ \A p \in Requests : Live(req'[p]) => req'[p].read = settings
                         /\ \A p \in Requests : Led(req'[p], after)
                         /\ settings.agg # None /\ settings.agg.strategy = "conversation" =>
                              \A c \in Conversations : held'[c] # None =>
                                after # None /\ after.agg = settings.agg /\ after.assigned[c] = held'[c]
      BY <1>1, <2>6 DEF Unovertaken
    <3>2. /\ \A p \in Requests : Live(req[p]) => req[p].read = settings
          /\ settings.agg # None /\ settings.agg.strategy = "conversation" =>
               \A c \in Conversations : held[c] # None =>
                 selector # None /\ selector.agg = settings.agg /\ selector.assigned[c] = held[c]
      BY <3>1 DEF RotationInv, Unovertaken
    <3>3. settings = s
      BY <1>2, <3>2
    <3>4. \A p \in Requests : Live(req'[p]) => req'[p].read = settings
      BY <2>17, <2>21, <3>2, <3>3
    <3>5. after # None
      BY <2>8, NoneIsNoSelector
    <3>6. Led(r, after)
      <4>1. SUFFICES ASSUME s.agg.strategy = "failover"
                     PROVE \A k \in 1 .. Len(list) : list[k] = At(M, after.failover + k - 1)
        BY <2>8, <2>11, <2>15, <2>17, <3>5 DEF Led, M
      <4>2. QED
        BY <2>8, <2>13, <2>15, <4>1
    <3>7. ASSUME NEW p \in Requests PROVE Led(req'[p], after)
      <4>1. CASE p = q
        BY <2>21, <3>6, <4>1
      <4>2. CASE p # q
        BY <1>1, <1>2, <2>21, <4>2, NobodyElseLeads DEF RotationInv
      <4>3. QED
        BY <4>1, <4>2
    <3>8. ASSUME settings.agg.strategy = "conversation", NEW c \in Conversations, held'[c] # None
          PROVE after.agg = settings.agg /\ after.assigned[c] = held'[c]
      <4>1. held \in [Conversations -> Relays \cup {None}] /\ None \notin Conversations
        BY <1>2, NoneIsNothing DEF RequestBasics
      <4>2. CASE c = conv
        BY <2>6, <2>8, <3>3, <3>8, <4>1, <4>2
      <4>3. CASE c # conv
        BY <2>1, <2>6, <4>1, <4>3, <3>2, <3>3, <3>8, <2>5, <2>8 DEF MadeAnew
      <4>4. QED
        BY <4>2, <4>3
    <3>9. QED
      BY <3>4, <3>5, <3>7, <3>8
  <2>26. QED
    BY <2>21, <2>23, <2>24, <2>25 DEF RotationInv
<1>5. QED
  BY <1>3, <1>4

(* What is noted leaves the turns, the members and the conversations alone.*)
LEMMA NotedSound ==
  ASSUME selector = None \/ SelectorOK(selector), NEW s, NEW failed \in BOOLEAN
  PROVE  LET noted == Noted(s, failed)
         IN  /\ noted = None \/ SelectorOK(noted)
             /\ s.agg = None => noted = None
             /\ s.agg # None /\ selector = None => noted = None
             /\ noted # None =>
                  /\ selector # None /\ noted.agg = selector.agg
                  /\ noted.assigned = selector.assigned /\ Turn(noted) = Turn(selector)
             /\ s.agg # None /\ (~failed \/ selector.agg.strategy # "failover") => noted = selector
             /\ s.agg # None /\ failed /\ selector # None /\ selector.agg.strategy = "failover" =>
                  /\ noted # None /\ noted.agg = selector.agg
                  /\ noted.failover = IF selector.failover + 1 < Len(Members(selector.agg))
                                      THEN selector.failover + 1 ELSE 0
<1> DEFINE noted == Noted(s, failed)
<1>1. CASE s.agg = None
  BY <1>1 DEF Noted
<1>2. CASE s.agg # None /\ ~(failed /\ selector # None /\ selector.agg.strategy = "failover")
  BY <1>2 DEF Noted
<1>3. CASE s.agg # None /\ failed /\ selector # None /\ selector.agg.strategy = "failover"
  <2> DEFINE n == Len(selector.agg.members)
             f == (selector.failover + 1) % n
  <2>1. SelectorOK(selector)
    BY <1>3
  <2>2. selector \in Selectors /\ selector.failover \in 0 .. n - 1
    BY <2>1 DEF SelectorOK
  <2>3. n \in Nat \ {0} /\ n = Len(Members(selector.agg))
    BY <2>1, MembersSound, EmptySeq DEF SelectorOK
  <2>4. f = (IF selector.failover + 1 < n THEN selector.failover + 1 ELSE 0) /\ f \in 0 .. n - 1
    <3> HIDE DEF n
    <3>1. 1 \in 0 .. n
      BY <2>3
    <3>2. f = IF selector.failover + 1 < n THEN selector.failover + 1 ELSE selector.failover + 1 - n
      BY <2>2, <2>3, <3>1, ModNext
    <3>3. QED
      BY <2>2, <2>3, <3>2
  <2>5. noted = [selector EXCEPT !.failover = f]
    BY <1>3 DEF Noted
  <2> HIDE DEF f, noted, n
  <2>6. /\ noted \in Selectors /\ noted.agg = selector.agg /\ noted.assigned = selector.assigned
        /\ noted.failover = f /\ noted.request = selector.request
        /\ noted.weighted = selector.weighted
    BY <2>2, <2>4, <2>5 DEF Selectors
  <2>7. SelectorOK(noted)
    BY <2>1, <2>4, <2>6 DEF SelectorOK, n
  <2>8. Turn(noted) = Turn(selector)
    BY <2>6 DEF Turn
  <2>9. QED
    BY <1>3, <2>3, <2>4, <2>6, <2>7, <2>8, NoneIsNoSelector DEF noted
<1>4. QED
  BY <1>1, <1>2, <1>3

(* A request ends or goes on, and notes how it went. *)
LEMMA NotesKeep ==
  ASSUME RotationInv, NEW q \in Requests, req[q].pc = "trying", NEW failed \in BOOLEAN, Notes(q, failed),
         NEW r, RequestOK(r), Goes(q, r), r.pc # "loaded",
         Live(r) => r.read = req[q].read /\ r.probe = req[q].probe /\ r.alone = req[q].alone,
         ~overtaken => Led(r, selector')
  PROVE  RotationInv'
<1> DEFINE s == req[q].read
<1>1. /\ selector' = IF req[q].probe THEN selector ELSE Noted(s, failed)
      /\ given' = IF selector' = None THEN NoTurns ELSE given
      /\ UNCHANGED <<settings, held, overtaken, budget>>
  BY DEF Notes
<1>2. RequestBasics /\ Live(req[q]) /\ (selector = None \/ SelectorOK(selector))
  BY DEF RotationInv, RequestBasics, Live
<1>3. /\ selector' = None \/ SelectorOK(selector')
      /\ selector' # None => /\ selector # None /\ selector'.agg = selector.agg
                             /\ selector'.assigned = selector.assigned
                             /\ Turn(selector') = Turn(selector)
      /\ req[q].probe => selector' = selector
      /\ ~req[q].probe /\ s.agg # None /\ selector # None /\ selector.agg.strategy # "failover" =>
           selector' = selector
  <2>1. CASE req[q].probe
    BY <1>1, <1>2, <2>1
  <2>2. CASE ~req[q].probe
    BY <1>1, <1>2, <2>2, NotedSound
  <2>3. QED
    BY <2>1, <2>2
<1>4. /\ req' \in [Requests -> Requested] /\ (\A p \in Requests : RequestOK(req'[p]))
      /\ \A p \in Requests : req'[p] = IF p = q THEN r ELSE req[p]
      /\ AloneOK'
  BY <1>2, GoesOK DEF RotationInv
<1>5. RequestBasics'
  BY <1>1, <1>2, <1>3, <1>4 DEF RequestBasics
<1>6. TurnsOK'
  <2>1. /\ Cardinality(LoadedIn(req')) \in Nat
        /\ Cardinality(LoadedIn(req')) = Cardinality(LoadedIn(req))
    BY <1>2, Unloaded
  <2>2. /\ given \in [Relays -> Nat] /\ (selector # None => FairTurns(selector, given))
        /\ \A x \in Relays : given[x] + Cardinality(LoadedIn(req)) + budget.requests <= MaxRequests
    BY DEF RotationInv, TurnsOK
  <2>3. budget.requests \in Nat /\ MaxRequests \in Nat
    BY <1>2, SizesAreFinite DEF RequestBasics
  <2>4. given' \in [Relays -> Nat] /\ \A x \in Relays : given'[x] <= given[x]
    BY <1>1, <2>2 DEF NoTurns
  <2>5. \A x \in Relays : given'[x] + Cardinality(LoadedIn(req')) + budget.requests <= MaxRequests
    <3>1. SUFFICES ASSUME NEW x \in Relays
                   PROVE given'[x] + Cardinality(LoadedIn(req')) + budget.requests <= MaxRequests
      OBVIOUS
    <3>2. /\ given[x] \in Nat /\ given'[x] \in Nat /\ given'[x] <= given[x]
          /\ given[x] + Cardinality(LoadedIn(req)) + budget.requests <= MaxRequests
      BY <2>2, <2>4
    <3>3. QED
      BY <2>1, <2>3, <3>2
  <2>6. selector' # None => FairTurns(selector', given')
    <3>1. SUFFICES ASSUME selector' # None PROVE FairTurns(selector', given)
      BY <1>1
    <3>2. FairTurns(selector, given) /\ selector'.agg = selector.agg /\ Turn(selector') = Turn(selector)
      BY <1>3, <2>2, <3>1
    <3>3. QED
      BY <3>2 DEF FairTurns
  <2>7. QED
    BY <1>1, <2>4, <2>5, <2>6 DEF TurnsOK
<1>7. Unovertaken'
  <2>1. SUFFICES ASSUME ~overtaken
                 PROVE /\ \A p \in Requests : Live(req'[p]) => req'[p].read = settings
                       /\ \A p \in Requests : Led(req'[p], selector')
                       /\ settings.agg # None /\ settings.agg.strategy = "conversation" =>
                            \A c \in Conversations : held[c] # None =>
                              /\ selector' # None /\ selector'.agg = settings.agg
                              /\ selector'.assigned[c] = held[c]
    BY <1>1 DEF Unovertaken
  <2>2. /\ \A p \in Requests : Live(req[p]) => req[p].read = settings
        /\ \A p \in Requests : Led(req[p], selector)
        /\ settings.agg # None /\ settings.agg.strategy = "conversation" =>
             \A c \in Conversations : held[c] # None =>
               selector # None /\ selector.agg = settings.agg /\ selector.assigned[c] = held[c]
    BY <2>1 DEF RotationInv, Unovertaken
  <2>3. settings = s
    BY <1>2, <2>2
  <2>4. \A p \in Requests : Live(req'[p]) => req'[p].read = settings
    BY <1>4, <2>2, <2>3
  <2>5. ASSUME NEW p \in Requests PROVE Led(req'[p], selector')
    <3>1. CASE p = q
      BY <1>4, <2>1, <3>1
    <3>2. CASE p # q /\ req[q].probe
      BY <1>3, <1>4, <2>2, <3>2
    <3>3. CASE p # q /\ ~req[q].probe
      BY <1>2, <1>4, <3>3, NobodyElseLeads DEF RotationInv
    <3>4. QED
      BY <3>1, <3>2, <3>3
  <2>6. ASSUME settings.agg # None, settings.agg.strategy = "conversation",
               NEW c \in Conversations, held[c] # None
        PROVE  /\ selector' # None /\ selector'.agg = settings.agg
               /\ selector'.assigned[c] = held[c]
    BY <2>2, <2>6, <1>3, <2>3
  <2>7. QED
    BY <2>4, <2>5, <2>6
<1>8. QED
  BY <1>4, <1>5, <1>6, <1>7 DEF RotationInv

LEMMA AnsweredKeeps ==
  ASSUME RotationInv, NEW q \in Requests, Answered(q)
  PROVE  RotationInv'
<1> DEFINE r == [NoRequest EXCEPT !.pc = "answered"]
<1>1. RequestOK(r) /\ ~Live(r) /\ r.pc = "answered"
  BY EndedOK
<1>2. req[q].pc = "trying" /\ Goes(q, r) /\ Notes(q, FALSE)
  BY DEF Answered, Sent, Ends
<1> HIDE DEF r
<1>3. Led(r, selector')
  BY <1>1 DEF Led
<1>4. QED
  BY <1>1, <1>2, <1>3, NotesKeep

(* A request goes on to the next of the members before it. *)
NextTry(r) == [r EXCEPT !.left = Tail(@), !.tried = Append(@, Head(r.left))]

LEMMA NextTrySound ==
  ASSUME NEW r, RequestOK(r), r.pc = "trying", Len(r.left) > 1
  PROVE  /\ RequestOK(NextTry(r))
         /\ NextTry(r).pc = "trying" /\ NextTry(r).read = r.read /\ NextTry(r).probe = r.probe
         /\ NextTry(r).alone = r.alone /\ NextTry(r).model = r.model
         /\ NextTry(r).left = Tail(r.left) /\ NextTry(r).tried = Append(r.tried, Head(r.left))
<1> DEFINE n == NextTry(r)
<1>1. r \in Requested /\ r.left \in Seq(Relays) /\ r.tried \in Seq(Relays)
  BY DEF RequestOK, Requested
<1>2. /\ r.left # <<>> /\ IsInjective(Way(r)) /\ r.read \in Snapshots
      /\ ~r.probe /\ r.read.agg # None => Range(Way(r)) = MayGo(r)
      /\ ~r.probe /\ Turns(r) => AllUsable(r.read)
  BY DEF RequestOK, Live
<1>3. Head(r.left) \in Relays /\ Tail(r.left) \in Seq(Relays) /\ Len(Tail(r.left)) = Len(r.left) - 1
  BY <1>1, <1>2, HeadTailProperties
<1>4. Append(r.tried, Head(r.left)) \in Seq(Relays) /\ Tail(r.left) # <<>>
  <2>1. Append(r.tried, Head(r.left)) \in Seq(Relays)
    BY <1>1, <1>3, AppendProperties
  <2>2. Len(Tail(r.left)) # 0
    <3>1. Len(r.left) \in Nat
      BY <1>1, LenProperties
    <3>2. Len(r.left) > 1 /\ Len(Tail(r.left)) = Len(r.left) - 1
      BY <1>3
    <3>3. \A m \in Nat : m > 1 => m - 1 # 0
      OBVIOUS
    <3>4. QED
      BY <3>1, <3>2, <3>3, Zenon
  <2>3. QED
    BY <1>3, <2>1, <2>2, EmptySeq
<1>5. /\ n \in Requested /\ n.pc = "trying" /\ n.read = r.read /\ n.probe = r.probe
      /\ n.alone = r.alone /\ n.model = r.model
      /\ n.left = Tail(r.left) /\ n.tried = Append(r.tried, Head(r.left))
  BY <1>1, <1>3, <1>4 DEF NextTry, Requested
<1> HIDE DEF n
<1>6. Way(n) = Way(r)
  <2>1. Append(r.tried, Head(r.left)) \o Tail(r.left) = r.tried \o r.left
    <3> DEFINE a == r.tried
               b == r.left
    <3>1. a \in Seq(Relays) /\ b \in Seq(Relays) /\ b # <<>>
      BY <1>1, <1>2
    <3> HIDE DEF a, b
    <3>2. Append(a, Head(b)) = a \o <<Head(b)>>
      BY <3>1, HeadTailProperties, AppendIsConcat
    <3>3. b = <<Head(b)>> \o Tail(b)
      BY <3>1
    <3>4. <<Head(b)>> \in Seq(Relays) /\ Tail(b) \in Seq(Relays)
      BY <3>1, HeadTailProperties
    <3>5. (a \o <<Head(b)>>) \o Tail(b) = a \o (<<Head(b)>> \o Tail(b))
      BY <3>1, <3>4, ConcatAssociative
    <3>6. QED
      BY <3>2, <3>3, <3>5 DEF a, b
  <2>2. QED
    BY <1>5, <2>1 DEF Way
<1>7. Turns(n) = Turns(r) /\ MayGo(n) = MayGo(r)
  BY <1>5 DEF Turns, MayGo, Routes
<1>8. RequestOK(n)
  BY <1>2, <1>4, <1>5, <1>6, <1>7 DEF RequestOK
<1>9. QED
  BY <1>5, <1>8 DEF n

(* The selector goes on with the request that leads it. *)
LEMMA LedOn ==
  ASSUME NEW r, RequestOK(r), r.pc = "trying", Len(r.left) > 1, Led(r, selector),
         selector = None \/ SelectorOK(selector), NEW sel,
         r.probe \/ sel = Noted(r.read, TRUE)
  PROVE  Led(NextTry(r), sel)
<1> DEFINE n == NextTry(r)
           M == Members(selector.agg)
           f == selector.failover
<1>1. /\ n.pc = "trying" /\ n.read = r.read /\ n.probe = r.probe /\ n.alone = r.alone
      /\ n.model = r.model /\ n.left = Tail(r.left)
  BY NextTrySound
<1>2. Turns(n) = Turns(r)
  BY <1>1 DEF Turns
<1>3. SUFFICES ASSUME ~r.probe, Turns(r), r.alone, r.read.agg.strategy = "failover"
               PROVE /\ sel # None /\ sel.agg = r.read.agg
                     /\ Len(n.left) <= Len(Members(sel.agg))
                     /\ \A k \in 1 .. Len(n.left) : n.left[k] = At(Members(sel.agg), sel.failover + k - 1)
  BY <1>1, <1>2 DEF Led
<1>4. /\ selector # None /\ selector.agg = r.read.agg
      /\ Len(r.left) <= Len(M)
      /\ \A k \in 1 .. Len(r.left) : r.left[k] = At(M, f + k - 1)
  BY <1>3 DEF Led
<1>5. SelectorOK(selector) /\ r.read.agg # None
  BY <1>3, <1>4 DEF Turns
<1>6. /\ sel # None /\ sel.agg = selector.agg
      /\ sel.failover = IF f + 1 < Len(M) THEN f + 1 ELSE 0
  BY <1>3, <1>4, <1>5, NotedSound
<1>7. Len(M) \in Nat \ {0} /\ f \in 0 .. Len(M) - 1
  BY <1>5, MembersSound, EmptySeq DEF SelectorOK
<1>8. r.left \in Seq(Relays) /\ r.left # <<>> /\ Len(r.left) \in Nat
  BY DEF RequestOK, Requested
<1>9. Len(n.left) = Len(r.left) - 1 /\ \A k \in 1 .. Len(n.left) : n.left[k] = r.left[k + 1]
  BY <1>1, <1>8, HeadTailProperties
<1>10. \A k \in 1 .. Len(r.left) - 1 : At(M, f + k) = At(M, sel.failover + k - 1)
  <2>1. SUFFICES ASSUME NEW k \in 1 .. Len(r.left) - 1
                 PROVE At(M, f + k) = At(M, sel.failover + k - 1)
    OBVIOUS
  <2> HIDE DEF M, f
  <2>2. k \in 0 .. Len(M) /\ k - 1 \in 0 .. Len(M) /\ k \in Nat /\ k # 0
    BY <1>4, <1>7, <1>8, <2>1
  <2>3. sel.failover \in 0 .. Len(M) - 1
    BY <1>6, <1>7
  <2>4. (f + k) % Len(M) = IF f + k < Len(M) THEN f + k ELSE f + k - Len(M)
    BY <1>7, <2>2, ModNext
  <2>5. (sel.failover + (k - 1)) % Len(M) =
          IF sel.failover + (k - 1) < Len(M) THEN sel.failover + (k - 1)
                                             ELSE sel.failover + (k - 1) - Len(M)
    BY <1>7, <2>2, <2>3, ModNext
  <2>6. sel.failover + k - 1 = sel.failover + (k - 1)
    BY <2>2, <2>3
  <2>7. (f + k) % Len(M) = (sel.failover + k - 1) % Len(M)
    BY <1>6, <1>7, <2>2, <2>3, <2>4, <2>5, <2>6
  <2>8. QED
    BY <2>7 DEF At
<1>11. \A k \in 1 .. Len(n.left) : n.left[k] = At(M, sel.failover + k - 1)
  <2>1. SUFFICES ASSUME NEW k \in 1 .. Len(n.left) PROVE n.left[k] = At(M, sel.failover + k - 1)
    OBVIOUS
  <2>2. k \in 1 .. Len(r.left) - 1 /\ k + 1 \in 1 .. Len(r.left) /\ n.left[k] = r.left[k + 1]
    BY <1>8, <1>9
  <2>3. r.left[k + 1] = At(M, f + (k + 1) - 1)
    BY <1>4, <2>2
  <2>4. f + (k + 1) - 1 = f + k
    BY <1>7, <2>2
  <2>5. QED
    BY <1>10, <2>2, <2>3, <2>4
<1>12. QED
  BY <1>4, <1>6, <1>7, <1>8, <1>9, <1>11

LEMMA NotAnsweredKeeps ==
  ASSUME RotationInv, NEW q \in Requests, NotAnswered(q)
  PROVE  RotationInv'
<1>1. req[q].pc = "trying" /\ Notes(q, TRUE)
  BY DEF NotAnswered, Sent
<1>2. RequestOK(req[q]) /\ (selector = None \/ SelectorOK(selector)) /\ req[q] \in Requested
  BY DEF RotationInv, RequestBasics
<1>3. CASE Len(req[q].left) > 1
  <2>1. Goes(q, NextTry(req[q]))
    BY <1>3 DEF NotAnswered, NextTry
  <2>2. /\ RequestOK(NextTry(req[q])) /\ NextTry(req[q]).pc = "trying"
        /\ NextTry(req[q]).read = req[q].read /\ NextTry(req[q]).probe = req[q].probe
        /\ NextTry(req[q]).alone = req[q].alone
    BY <1>1, <1>2, <1>3, NextTrySound
  <2>3. ~overtaken => Led(NextTry(req[q]), selector')
    <3>1. SUFFICES ASSUME ~overtaken PROVE Led(NextTry(req[q]), selector')
      OBVIOUS
    <3>2. Led(req[q], selector)
      BY <3>1 DEF RotationInv, Unovertaken
    <3>3. req[q].probe \/ selector' = Noted(req[q].read, TRUE)
      BY <1>1 DEF Notes
    <3>4. QED
      BY <1>1, <1>2, <1>3, <3>2, <3>3, LedOn
  <2>4. QED
    BY <1>1, <2>1, <2>2, <2>3, NotesKeep
<1>4. CASE ~(Len(req[q].left) > 1)
  <2> DEFINE r == [NoRequest EXCEPT !.pc = "failed"]
  <2>1. RequestOK(r) /\ ~Live(r) /\ r.pc = "failed"
    BY EndedOK
  <2>2. Goes(q, r)
    BY <1>4 DEF NotAnswered, Ends
  <2> HIDE DEF r
  <2>3. Led(r, selector')
    BY <2>1 DEF Led
  <2>4. QED
    BY <1>1, <2>1, <2>2, <2>3, NotesKeep
<1>5. QED
  BY <1>3, <1>4

LEMMA NotSentKeeps ==
  ASSUME RotationInv, NEW q \in Requests, NotSent(q)
  PROVE  RotationInv'
  BY EndKeeps DEF NotSent, Refuse, Live

LEMMA RotationKeeps == RotationInv /\ [RotationNext]_rotation_vars => RotationInv'
<1>1. SUFFICES ASSUME RotationInv, [RotationNext]_rotation_vars PROVE RotationInv'
  OBVIOUS
<1>2. CASE UNCHANGED rotation_vars
  BY <1>2, <1>1 DEF rotation_vars, RotationInv, RequestBasics, AloneOK, Unovertaken, TurnsOK
<1>3. ASSUME NEW q \in Requests, Starts(q) PROVE RotationInv'
  BY <1>1, <1>3, StartKeeps DEF Starts
<1>4. ASSUME NEW q \in Requests, SelectRegular(q) PROVE RotationInv'
  BY <1>1, <1>4, RegularKeeps
<1>5. ASSUME NEW q \in Requests, SelectByModel(q) PROVE RotationInv'
  BY <1>1, <1>5, ByModelKeeps
<1>6. ASSUME NEW q \in Requests, SelectByTurn(q) PROVE RotationInv'
  BY <1>1, <1>6, ByTurnKeeps
<1>7. ASSUME NEW q \in Requests, SelectForProbe(q) PROVE RotationInv'
  BY <1>1, <1>7, ForProbeKeeps
<1>8. ASSUME NEW q \in Requests, NotSent(q) PROVE RotationInv'
  BY <1>1, <1>8, NotSentKeeps
<1>9. ASSUME NEW q \in Requests, Answered(q) PROVE RotationInv'
  BY <1>1, <1>9, AnsweredKeeps
<1>10. ASSUME NEW q \in Requests, NotAnswered(q) PROVE RotationInv'
  BY <1>1, <1>10, NotAnsweredKeeps
<1>11. ASSUME NEW s \in Snapshots, Save(s) PROVE RotationInv'
  BY <1>1, <1>11, SaveKeeps
<1>12. QED
  BY <1>1, <1>2, <1>3, <1>4, <1>5, <1>6, <1>7, <1>8, <1>9, <1>10, <1>11 DEF RotationNext

(* A list without repetition is no longer than there are relays. *)
LEMMA ShortLists ==
  ASSUME NEW list \in Seq(Relays), IsInjective(list)
  PROVE  list \in SeqOf(Relays, Cardinality(Relays))
<1> DEFINE n == Len(list)
<1>1. n \in Nat /\ list \in [1 .. n -> Relays]
  BY LenProperties
<1>2. list \in Injection(1 .. n, Relays)
  BY <1>1 DEF Injection
<1> HIDE DEF n
<1>3. IsFiniteSet(Relays) /\ Cardinality(1 .. n) <= Cardinality(Relays)
  BY <1>2, SizesAreFinite, FS_Injection
<1>4. Cardinality(1 .. n) = n /\ Cardinality(Relays) \in Nat
  BY <1>1, FS_Interval, <1>3, FS_CardinalityType
<1>5. n \in 0 .. Cardinality(Relays)
  BY <1>1, <1>3, <1>4
<1>6. QED
  BY <1>1, <1>5 DEF SeqOf

(* What a request has tried, with the one it tries, begins its way. *)
LEMMA WaySound ==
  ASSUME NEW r, RequestOK(r), r.pc = "trying"
  PROVE  /\ IsInjective(r.left) /\ IsInjective(r.tried)
         /\ r.left[1] = Head(r.left) /\ Head(r.left) \in Range(Way(r))
         /\ IsInjective(Append(r.tried, Head(r.left)))
         /\ Range(Append(r.tried, Head(r.left))) \subseteq Range(Way(r))
         /\ ~(Len(r.left) > 1) => Range(Append(r.tried, Head(r.left))) = Range(Way(r))
<1> DEFINE a == r.tried
           b == r.left
           w == Way(r)
           c == Append(a, Head(b))
<1>1. a \in Seq(Relays) /\ b \in Seq(Relays) /\ b # <<>> /\ IsInjective(w) /\ w = a \o b
  BY DEF RequestOK, Requested, Way
<1> HIDE DEF a, b, w, c
<1>2. /\ Len(a) \in Nat /\ Len(b) \in Nat \ {0} /\ Head(b) = b[1] /\ Head(b) \in Relays
      /\ DOMAIN a = 1 .. Len(a) /\ DOMAIN b = 1 .. Len(b)
  BY <1>1, EmptySeq, LenProperties, HeadTailProperties
<1>3. /\ w \in Seq(Relays) /\ Len(w) = Len(a) + Len(b)
      /\ \A i \in 1 .. Len(a) + Len(b) : w[i] = IF i <= Len(a) THEN a[i] ELSE b[i - Len(a)]
  BY <1>1, ConcatProperties
<1>4. DOMAIN w = 1 .. Len(a) + Len(b)
  BY <1>3, LenProperties
<1>5. /\ c \in Seq(Relays) /\ Len(c) = Len(a) + 1
      /\ \A i \in 1 .. Len(a) : c[i] = a[i]
      /\ c[Len(a) + 1] = Head(b)
  BY <1>1, <1>2, AppendProperties DEF c
<1>6. DOMAIN c = 1 .. Len(a) + 1
  BY <1>5, LenProperties
<1>7. \A i \in 1 .. Len(a) + 1 : i \in 1 .. Len(a) + Len(b) /\ c[i] = w[i]
  <2>1. SUFFICES ASSUME NEW i \in 1 .. Len(a) + 1 PROVE i \in 1 .. Len(a) + Len(b) /\ c[i] = w[i]
    OBVIOUS
  <2>2. i \in 1 .. Len(a) + Len(b)
    BY <1>2
  <2>3. CASE i <= Len(a)
    BY <1>2, <1>3, <1>5, <2>2, <2>3
  <2>4. CASE ~(i <= Len(a))
    BY <1>2, <2>4, <1>3, <1>5, <2>2
  <2>5. QED
    BY <2>3, <2>4
<1>8. IsInjective(a)
  BY <1>2, <1>3, <1>4, <1>1 DEF IsInjective
<1>9. IsInjective(b)
  <2>1. SUFFICES ASSUME NEW i \in 1 .. Len(b), NEW j \in 1 .. Len(b), b[i] = b[j]
                 PROVE i = j
    BY <1>2 DEF IsInjective
  <2>2. /\ Len(a) + i \in DOMAIN w /\ w[Len(a) + i] = b[i]
        /\ Len(a) + j \in DOMAIN w /\ w[Len(a) + j] = b[j]
    BY <1>2, <1>3, <1>4
  <2>3. Len(a) + i = Len(a) + j
    BY <1>1, <2>1, <2>2 DEF IsInjective
  <2>4. QED
    BY <1>2, <2>3
<1>10. IsInjective(c)
  BY <1>1, <1>4, <1>6, <1>7 DEF IsInjective
<1>11. Range(c) \subseteq Range(w)
  BY <1>4, <1>6, <1>7 DEF Range
<1>12. Head(b) \in Range(w)
  <2>1. Head(b) \in Range(c)
    BY <1>2, <1>5, <1>6 DEF Range
  <2>2. QED
    BY <1>11, <2>1
<1>13. ~(Len(b) > 1) => Range(c) = Range(w)
  <2>1. ~(Len(b) > 1) => Len(b) = 1
    BY <1>2
  <2>2. QED
    BY <1>4, <1>6, <1>7, <2>1 DEF Range
<1>14. QED
  BY <1>1, <1>2, <1>8, <1>9, <1>10, <1>11, <1>12, <1>13 DEF a, b, c, w

(* The types follow, the bound of a request's lists among them. *)
LEMMA InvTyped == RotationInv => RotationTypeOK
<1>1. SUFFICES ASSUME RotationInv PROVE RotationTypeOK
  OBVIOUS
<1>2. RequestBasics /\ TurnsOK
  BY <1>1 DEF RotationInv
<1>3. selector # None =>
        selector \in Selectors /\ \E s \in Snapshots : s.agg # None /\ selector.agg = s.agg
  BY <1>2 DEF RequestBasics, SelectorOK
<1>4. ASSUME NEW q \in Requests
      PROVE /\ req[q].left \in SeqOf(Relays, Cardinality(Relays))
            /\ req[q].tried \in SeqOf(Relays, Cardinality(Relays))
  <2>1. RequestOK(req[q]) /\ req[q].left \in Seq(Relays) /\ req[q].tried \in Seq(Relays)
    BY <1>2 DEF RequestBasics, RequestOK, Requested
  <2>2. CASE req[q].pc = "trying"
    BY <2>1, <2>2, WaySound, ShortLists
  <2>3. CASE req[q].pc # "trying"
    BY <2>1, <2>3, ShortLists DEF RequestOK, IsInjective
  <2>4. QED
    BY <2>2, <2>3
<1>5. req \in [Requests ->
         [pc : {"idle", "loaded", "trying", "answered", "failed", "refused"},
          probe : BOOLEAN, alone : BOOLEAN, read : Snapshots \cup {None},
          conv : Conversations \cup {None}, model : Models \cup {None},
          left : SeqOf(Relays, Cardinality(Relays)),
          tried : SeqOf(Relays, Cardinality(Relays))]]
  <2> DEFINE Short == SeqOf(Relays, Cardinality(Relays))
  <2>1. req \in [Requests -> Requested]
    BY <1>2 DEF RequestBasics
  <2>2. \A q \in Requests : req[q] \in Requested /\ req[q].left \in Short /\ req[q].tried \in Short
    BY <1>4, <2>1
  <2> HIDE DEF Short
  <2>3. \A q \in Requests : req[q] \in
          [pc : {"idle", "loaded", "trying", "answered", "failed", "refused"},
           probe : BOOLEAN, alone : BOOLEAN, read : Snapshots \cup {None},
           conv : Conversations \cup {None}, model : Models \cup {None},
           left : Short, tried : Short]
    BY <2>2 DEF Requested
  <2>4. QED
    BY <2>1, <2>3 DEF Short
<1>6. given \in [Relays -> 0 .. MaxRequests]
  <2>1. ASSUME NEW x \in Relays PROVE given[x] \in 0 .. MaxRequests
    BY <1>2, LoadedFinite, SizesAreFinite DEF TurnsOK, RequestBasics
  <2>2. QED
    BY <1>2, <2>1 DEF TurnsOK
<1>7. QED
  BY <1>2, <1>3, <1>5, <1>6 DEF RequestBasics, RotationTypeOK

LEMMA InvFair == RotationInv => TurnsAreFair
<1>1. SUFFICES ASSUME RotationInv PROVE TurnsAreFair
  OBVIOUS
<1>2. given \in [Relays -> 0 .. MaxRequests]
  BY <1>1, InvTyped DEF RotationTypeOK
<1>3. QED
  BY <1>1, <1>2, FairIsFair DEF RotationInv, RequestBasics, TurnsOK

(* What happens to a request in a step. *)
LEMMA StepOfOne ==
  ASSUME RotationInv, RotationNext, NEW q \in Requests
  PROVE  \/ /\ req'[q].pc = req[q].pc
            /\ req'[q].left = req[q].left
         \/ ~Live(req[q])
         \/ SelectRegular(q) \/ SelectByModel(q) \/ SelectByTurn(q) \/ SelectForProbe(q)
         \/ NotSent(q) \/ Answered(q) \/ NotAnswered(q)
<1>1. req \in [Requests -> Requested]
  BY DEF RotationInv, RequestBasics
<1>2. ASSUME NEW p \in Requests, p # q, NEW r, Goes(p, r)
      PROVE req'[q] = req[q]
  BY <1>1, <1>2 DEF Goes
<1>3. ASSUME NEW p \in Requests, p # q, Starts(p)
      PROVE req'[q].pc = req[q].pc /\ req'[q].left = req[q].left
  <2>1. \E probe : req'[q] = IF probe THEN req[q] ELSE [req[q] EXCEPT !.alone = FALSE]
    BY <1>3 DEF Starts, StartRequest
  <2>2. req[q] \in Requested
    BY <1>1
  <2>3. QED
    BY <2>1, <2>2 DEF Requested
<1>4. ASSUME NEW p \in Requests, p # q,
             SelectRegular(p) \/ SelectByModel(p) \/ SelectByTurn(p) \/ SelectForProbe(p)
      PROVE req'[q] = req[q]
  BY <1>2, <1>4 DEF SelectRegular, SelectByModel, SelectByTurn, SelectForProbe, Refuse, Ends
<1>5. ASSUME NEW p \in Requests, p # q, NotSent(p) \/ Answered(p) \/ NotAnswered(p)
      PROVE req'[q] = req[q]
  BY <1>2, <1>5 DEF NotSent, Answered, NotAnswered, Refuse, Ends
<1>6. Starts(q) => ~Live(req[q])
  BY SameWords DEF Starts, StartRequest
<1>7. ASSUME NEW s \in Snapshots, Save(s) PROVE req'[q] = req[q]
  BY <1>7 DEF Save
<1>8. QED
  BY <1>3, <1>4, <1>5, <1>6, <1>7 DEF RotationNext

(* A conversation begins with the member it has. *)
LEMMA ConversationsStay == RotationInv /\ RotationNext => ConversationStaysUnlessOvertaken
<1>1. SUFFICES ASSUME RotationInv, RotationNext, NEW q \in Requests,
                      Starting(q), ~req[q].probe, ByTurn(q), req[q].conv # None,
                      req[q].read = settings, settings.agg.strategy = "conversation",
                      held[req[q].conv] # None, ~overtaken
               PROVE Head(req'[q].left) = held[req[q].conv]
  BY DEF ConversationStaysUnlessOvertaken
<1> DEFINE s == req[q].read
           conv == req[q].conv
           sel == Ensured(s)
           first == Selected(sel, conv)
<1>2. req[q].pc = "loaded" /\ req'[q].pc = "trying" /\ Live(req[q]) /\ s.agg # None
  BY <1>1 DEF Starting, Live, ByTurn
<1>3. SelectByTurn(q)
  BY <1>1, <1>2, StepOfOne DEF SelectRegular, SelectByModel, SelectForProbe, ByRoute, ByTurn, NotSent,
    Answered, NotAnswered, Sent
<1>4. /\ req \in [Requests -> Requested] /\ conv \in Conversations
      /\ (selector = None \/ SelectorOK(selector)) /\ s \in Snapshots
  BY <1>1, <1>2 DEF RotationInv, RequestBasics, Requested, RequestOK
<1>5. selector # None /\ selector.agg = s.agg /\ selector.assigned[conv] = held[conv]
  BY <1>1, <1>2, <1>4 DEF RotationInv, Unovertaken
<1>6. sel = selector /\ first = held[conv]
  BY <1>1, <1>5 DEF Ensured, Selected, Assigned
<1>7. AllUsable(s)
  <2>1. SUFFICES ASSUME Refuse(q) PROVE FALSE
    BY <1>3 DEF SelectByTurn
  <2>2. req'[q] = [NoRequest EXCEPT !.pc = "refused"]
    BY <1>4, <2>1 DEF Refuse, Ends, Goes
  <2>3. req'[q].pc = "refused"
    BY <2>2, EndedOK
  <2>4. QED
    BY <1>2, <2>3
<1>8. req'[q].left = <<first>> \o After(Members(s.agg), first)
  BY <1>3, <1>7, <1>4 DEF SelectByTurn, Goes, Requested
<1>9. Head(req'[q].left) = first
  <2>1. SelectorOK(selector) /\ conv \in Conversations \cup {None}
    BY <1>4, <1>5
  <2>2. first \in Range(Members(selector.agg))
    BY <1>6, <2>1, SelectedSound
  <2> DEFINE M == Members(s.agg)
  <2>3. M \in Seq(Relays) /\ M # <<>> /\ IsInjective(M) /\ first \in Range(M)
    BY <1>5, <2>1, <2>2, MembersSound DEF SelectorOK
  <2> HIDE DEF M, first
  <2>4. Len(M) \in Nat \ {0} /\ DOMAIN M = 1 .. Len(M)
    BY <2>3, EmptySeq, LenProperties
  <2>5. PICK i \in 1 .. Len(M) : M[i] = first
    BY <2>3, <2>4 DEF Range
  <2>6. i - 1 \in 0 .. Len(M) - 1 /\ (i - 1) + 1 = i
    BY <2>4
  <2>7. <<first>> \o After(M, first) = Cycle(M, i - 1)
    BY <2>3, <2>5, <2>6, AfterCycles
  <2>8. /\ Cycle(M, i - 1) \in Seq(Relays) /\ Len(Cycle(M, i - 1)) = Len(M)
        /\ Cycle(M, i - 1)[1] = first
    BY <2>3, <2>5, <2>6, CycleSound
  <2>9. Head(Cycle(M, i - 1)) = first
    BY <2>4, <2>8, EmptySeq, HeadTailProperties
  <2>10. QED
    BY <1>8, <2>7, <2>9 DEF M
<1>10. QED
  BY <1>6, <1>9

(* Whom a request has gone to when it ends. *)
LEMMA GoesInTurn == RotationInv /\ RotationNext => TriedInTurn
<1>1. SUFFICES ASSUME RotationInv, RotationNext, NEW q \in Requests, Live(req[q]), req[q].read.agg # None, ~req[q].probe
               PROVE LET seen == IF req[q].left = <<>> THEN <<>>
                                 ELSE Append(req[q].tried, Head(req[q].left))
                     IN  /\ IsInjective(seen) /\ Range(seen) \subseteq Candidates(q)
                         /\ req'[q].pc = "failed" => Range(seen) = Candidates(q)
                         /\ req'[q].pc = "refused" =>
                              \/ ~AllUsable(req[q].read)
                              \/ ByRoute(q) /\ RouteFails(req[q].read, req[q].model)
  BY SameWords DEF TriedInTurn
<1> DEFINE r == req[q]
           s == req[q].read
           seen == IF req[q].left = <<>> THEN <<>> ELSE Append(req[q].tried, Head(req[q].left))
<1>2. RequestOK(r) /\ req \in [Requests -> Requested] /\ s \in Snapshots
  BY <1>1 DEF RotationInv, RequestBasics, RequestOK
<1>3. Candidates(q) = MayGo(r)
  BY SameWords
<1>4. CASE r.pc = "trying"
  <2>1. r.left # <<>> /\ Range(Way(r)) = Candidates(q)
    BY <1>1, <1>2, <1>3, <1>4 DEF RequestOK
  <2>2. /\ seen = Append(r.tried, Head(r.left)) /\ IsInjective(seen)
        /\ Range(seen) \subseteq Candidates(q) /\ Head(r.left) \in Candidates(q)
        /\ ~(Len(r.left) > 1) => Range(seen) = Candidates(q)
    BY <1>2, <1>4, <2>1, WaySound
  <2>3. ~SelectRegular(q) /\ ~SelectByModel(q) /\ ~SelectByTurn(q) /\ ~SelectForProbe(q)
    BY <1>4 DEF SelectRegular, SelectByModel, SelectByTurn, SelectForProbe
  <2>4. \/ req'[q].pc = "trying" \/ NotSent(q) \/ Answered(q) \/ NotAnswered(q)
    BY <1>1, <1>4, <2>3, StepOfOne
  <2>5. ASSUME req'[q].pc = "failed" PROVE Range(seen) = Candidates(q)
    <3>1. ~NotSent(q)
      <4>1. SUFFICES ASSUME Refuse(q) PROVE FALSE
        BY DEF NotSent
      <4>2. req'[q].pc = "refused"
        BY <1>2, <4>1, EndedOK DEF Refuse, Ends, Goes
      <4>3. QED
        BY <2>5, <4>2
    <3>2. ~Answered(q)
      <4>1. SUFFICES ASSUME Ends(q, "answered") PROVE FALSE
        BY DEF Answered
      <4>2. req'[q].pc = "answered"
        BY <1>2, <4>1, EndedOK DEF Ends, Goes
      <4>3. QED
        BY <2>5, <4>2
    <3>3. ~(Len(r.left) > 1)
      <4>1. SUFFICES ASSUME Len(r.left) > 1, Goes(q, NextTry(r)) PROVE FALSE
        BY <2>4, <2>5, <3>1, <3>2 DEF NotAnswered, NextTry
      <4>2. req'[q].pc = "trying"
        BY <1>2, <1>4, <4>1, NextTrySound DEF Goes
      <4>3. QED
        BY <2>5, <4>2
    <3>4. QED
      BY <2>2, <3>3
  <2>6. ASSUME req'[q].pc = "refused" PROVE ~AllUsable(s)
    <3>1. NotSent(q)
      <4>1. Answered(q) => req'[q].pc = "answered"
        BY <1>2, EndedOK DEF Answered, Ends, Goes
      <4>2. NotAnswered(q) => req'[q].pc \in {"trying", "failed"}
        <5>1. CASE Len(r.left) > 1
          <6>1. NotAnswered(q) => Goes(q, NextTry(r))
            BY <5>1 DEF NotAnswered, NextTry
          <6>2. QED
            BY <1>2, <1>4, <5>1, <6>1, NextTrySound DEF Goes
        <5>2. CASE ~(Len(r.left) > 1)
          BY <1>2, <5>2, EndedOK DEF NotAnswered, Ends, Goes
        <5>3. QED
          BY <5>1, <5>2
      <4>3. QED
        BY <2>4, <2>6, <4>1, <4>2
    <3>2. Head(r.left) \notin s.usable
      BY <3>1 DEF NotSent
    <3>3. Candidates(q) \subseteq Range(Members(s.agg))
      BY <1>1, <1>2, AggregateOK, EligibleSound DEF Candidates
    <3>4. QED
      BY <2>2, <3>2, <3>3 DEF AllUsable
  <2>7. QED
    BY <2>2, <2>5, <2>6
<1>5. CASE r.pc = "loaded"
  <2>1. seen = <<>> /\ IsInjective(seen) /\ Range(seen) = {}
    BY <1>2, <1>5 DEF RequestOK, IsInjective, Range
  <2>2. ~NotSent(q) /\ ~Answered(q) /\ ~NotAnswered(q)
    BY <1>5 DEF NotSent, Answered, NotAnswered, Sent
  <2>3. req'[q].pc = "loaded" \/ SelectByModel(q) \/ SelectByTurn(q)
    BY <1>1, <1>5, <2>2, StepOfOne DEF SelectRegular, SelectForProbe
  <2>4. \A x : Goes(q, x) => req'[q] = x
    BY <1>2 DEF Goes
  <2>5. Refuse(q) => req'[q].pc = "refused"
    BY <2>4, EndedOK DEF Refuse, Ends
  <2>6. \A list : [r EXCEPT !.pc = "trying", !.left = list].pc = "trying"
    BY <1>2 DEF Requested
  <2>7. req'[q].pc # "failed"
    BY <2>4, <2>6, <2>3, <2>5 DEF SelectByModel, SelectByTurn
  <2>8. ASSUME req'[q].pc = "refused"
        PROVE \/ ~AllUsable(s)
              \/ ByRoute(q) /\ RouteFails(s, r.model)
    BY <2>4, <2>6, <2>8, <2>3 DEF SelectByModel, SelectByTurn
  <2>9. QED
    BY <2>1, <2>7, <2>8
<1>6. QED
  BY <1>1, <1>4, <1>5 DEF Live

(* Whom the selector is at when a request that led it is answered. *)
LEMMA LeadsToWhoAnswered == RotationInv /\ RotationNext => FailureMovesOnIfAlone
<1>1. SUFFICES ASSUME RotationInv, RotationNext, NEW q \in Requests,
                      req[q].pc = "trying", req'[q].pc = "answered", ~req[q].probe, ByTurn(q),
                      req[q].read.agg.strategy = "failover", req[q].alone, ~overtaken
               PROVE /\ selector' # None /\ selector'.agg = req[q].read.agg
                     /\ MemberAt(selector', selector'.failover) = Head(req[q].left)
  BY DEF FailureMovesOnIfAlone
<1> DEFINE r == req[q]
<1>2. /\ RequestOK(r) /\ req \in [Requests -> Requested] /\ Led(r, selector)
      /\ (selector = None \/ SelectorOK(selector))
  BY <1>1 DEF RotationInv, RequestBasics, Unovertaken
<1>3. Turns(r) /\ Live(r) /\ r.read.agg # None
  BY <1>1 DEF ByTurn, Turns, Live
<1>4. Answered(q)
  <2>1. ~SelectRegular(q) /\ ~SelectByModel(q) /\ ~SelectByTurn(q) /\ ~SelectForProbe(q)
    BY <1>1 DEF SelectRegular, SelectByModel, SelectByTurn, SelectForProbe
  <2>2. ~NotSent(q)
    <3>1. SUFFICES ASSUME Refuse(q) PROVE FALSE
      BY DEF NotSent
    <3>2. req'[q].pc = "refused"
      BY <1>2, <3>1, EndedOK DEF Refuse, Ends, Goes
    <3>3. QED
      BY <1>1, <3>2
  <2>3. ~NotAnswered(q)
    <3>1. CASE Len(r.left) > 1
      <4>1. SUFFICES ASSUME Goes(q, NextTry(r)) PROVE FALSE
        BY <3>1 DEF NotAnswered, NextTry
      <4>2. req'[q].pc = "trying"
        BY <1>1, <1>2, <3>1, <4>1, NextTrySound DEF Goes
      <4>3. QED
        BY <1>1, <4>2
    <3>2. CASE ~(Len(r.left) > 1)
      <4>1. SUFFICES ASSUME Ends(q, "failed") PROVE FALSE
        BY <3>2 DEF NotAnswered
      <4>2. req'[q].pc = "failed"
        BY <1>2, <4>1, EndedOK DEF Ends, Goes
      <4>3. QED
        BY <1>1, <4>2
    <3>3. QED
      BY <3>1, <3>2
  <2>4. QED
    BY <1>1, <1>3, <2>1, <2>2, <2>3, StepOfOne
<1>5. /\ selector # None /\ selector.agg = r.read.agg
      /\ \A k \in 1 .. Len(r.left) : r.left[k] = At(Members(selector.agg), selector.failover + k - 1)
  BY <1>1, <1>2, <1>3 DEF Led
<1>6. selector' = selector
  BY <1>1, <1>4, <1>2, <1>3, NotedSound DEF Answered, Notes
<1>7. Head(r.left) = At(Members(selector.agg), selector.failover)
  <2>1. r.left \in Seq(Relays) /\ r.left # <<>> /\ r.left[1] = Head(r.left)
    BY <1>1, <1>2, WaySound DEF RequestOK, Requested
  <2>2. Len(r.left) \in Nat \ {0}
    BY <2>1, EmptySeq
  <2>3. r.left[1] = At(Members(selector.agg), selector.failover + 1 - 1)
    BY <1>5, <2>2
  <2>4. selector.failover \in Int
    BY <1>2, <1>5 DEF SelectorOK
  <2>5. selector.failover + 1 - 1 = selector.failover
    BY <2>4
  <2>6. QED
    BY <2>1, <2>3, <2>5
<1>8. QED
  BY <1>5, <1>6, <1>7 DEF MemberAt

(* The invariant holds whatever requests, probes and saves are interleaved. *)
THEOREM RotationSound == RotationSpec => []RotationInv
<1>1. RotationInv /\ [RotationNext]_rotation_vars => RotationInv'
  BY RotationKeeps
<1>2. QED
  BY <1>1, RotationInitOK, PTL DEF RotationSpec

(* The settings, the selector and the requests keep their types: the       *)
(* selector is always one of some saved aggregate, and no request's list of*)
(* members (protocol_proxy.rs) is longer than there are relays.            *)
THEOREM RotationTyped == RotationSpec => []RotationTypeOK
  BY RotationSound, InvTyped, PTL

(* The relays of an aggregate share the turns of its selector as it is     *)
(* configured, and a conversation keeps its member unless a request had    *)
(* read earlier settings when they were saved (relay_rotation.rs, select). *)
THEOREM TurnsShared == RotationSpec => TurnsAreKept
<1> DEFINE A == /\ UNCHANGED <<selector, given>> \/ TurnsAreFair'
                /\ ConversationStaysUnlessOvertaken
<1>1. RotationInv /\ TurnsAreFair' /\ [RotationNext]_rotation_vars => [A]_rotation_vars
  BY ConversationsStay
<1>2. RotationSpec => [][A]_rotation_vars
  BY <1>1, RotationSound, InvFair, PTL DEF RotationSpec
<1>3. QED
  BY <1>2 DEF TurnsAreKept

(* A request fails only after each of its members has failed it once, and  *)
(* leaves a failover selector it had to itself at the member that answered *)
(* (relay_rotation.rs, record_event; protocol_proxy.rs, the fallbacks).    *)
THEOREM FailuresLead == RotationSpec => FailuresLeadOn
<1> DEFINE A == TriedInTurn /\ FailureMovesOnIfAlone
<1>1. RotationInv /\ [RotationNext]_rotation_vars => [A]_rotation_vars
  BY GoesInTurn, LeadsToWhoAnswered
<1>2. RotationSpec => [][A]_rotation_vars
  BY <1>1, RotationSound, PTL DEF RotationSpec
<1>3. QED
  BY <1>2 DEF FailuresLeadOn
=============================================================================

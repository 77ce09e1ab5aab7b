----------------------------- MODULE WorkspaceMove -----------------------------
(***************************************************************************)
(* Moving a session to another workspace                                   *)
(* (SQLiteStorageAdapter::move_codex_thread_workspace) and finishing moves *)
(* a killed process left behind (recover_workspace_moves_for_db), which    *)
(* every listing of the sessions and every move begins with.  The row and  *)
(* the rollout cannot be changed in one step: the rollout is rewritten to  *)
(* a side file, its original kept under a second name, and a journal is    *)
(* written before the one is renamed over the other inside the database's  *)
(* write transaction.  Crash, Append and the deletes are in Sessions and   *)
(* SessionDelete.                                                          *)
(***************************************************************************)
EXTENDS SessionFiles

Pending(d) == {k \in Moves : journal[k] # None /\ journal[k].db = d}

(* The caller's loop: the next database, or the end of the operation; a    *)
(* listing gives what it could read.                                       *)
NextDatabase(p, said) ==
  IF loc[p].at < Len(DbOrder)
  THEN /\ loc' = [loc EXCEPT ![p] =
            [Idle EXCEPT !.pc = "scan", !.op = loc[p].op, !.at = loc[p].at + 1,
                         !.target = loc[p].target, !.alone = loc[p].alone,
                         !.before = loc[p].before]]
       /\ UNCHANGED report
  ELSE Ended(p, IF loc[p].op = "list" THEN "listed" ELSE said)

----
(* Beginning.  A move may need one attempt per database that lists the     *)
(* session (and so may one that is running).                               *)

StartList(p) ==
  /\ Start(p, [Idle EXCEPT !.pc = "scan", !.op = "list", !.at = 1])
  /\ UNCHANGED <<db_vars, file_vars, move_vars, del_vars, budget>>

StartMove(p, cwd) ==
  /\ budget.requests > 0
  /\ Cardinality({k \in Moves : outcome[k] = "unused"})
       >= Cardinality(Holders) * Cardinality({p} \cup {q \in Procs : loc[q].op = "move"})
  /\ Start(p, [Idle EXCEPT !.pc = "scan", !.op = "move", !.at = 1, !.target = cwd,
                           !.before = Picture])
  /\ budget' = [budget EXCEPT !.requests = @ - 1]
  /\ UNCHANGED <<db_vars, file_vars, move_vars, del_vars>>

----
(* Recovery. *)

(* workspace_move_journal_paths. *)
Scan(p) ==
  /\ At(p, "scan")
  /\ loc' = [loc EXCEPT ![p].todo = Pending(Db(p)), ![p].pc = "recover"]
  /\ UNCHANGED <<db_vars, file_vars, move_vars, del_vars, report, budget>>

(* The next journal, locked and read; one that is gone by now was          *)
(* recovered by another process.                                           *)
NextJournal(p) ==
  /\ At(p, "recover")
  /\ \E k \in loc[p].todo :
       /\ \A q \in Procs : loc[q].job # k
       /\ loc' = [loc EXCEPT ![p] =
            [@ EXCEPT !.todo = loc[p].todo \ {k}, !.copy = journal[k],
                      !.job = IF journal[k] = None THEN None ELSE k,
                      !.pc = IF journal[k] = None THEN "recover" ELSE "recTx"]]
  /\ UNCHANGED <<db_vars, file_vars, move_vars, del_vars, report, budget>>

AllRecovered(p) ==
  /\ At(p, "recover")
  /\ loc[p].todo = {}
  /\ IF loc[p].op = "list"
     THEN NextDatabase(p, "listed")
     ELSE Goto(p, "stage") /\ UNCHANGED report
  /\ UNCHANGED <<db_vars, file_vars, move_vars, del_vars, budget>>

(* Recovery bails out: what it holds is released, the journal stays.  A    *)
(* move does not go on in this database.                                   *)
RecoveryFails(p) ==
  /\ ReleaseDb(p)
  /\ Unlock(p)
  /\ NextDatabase(p, "failed")

(* The journal's lock or the database's is not had in time. *)
RecoveryTimeout(p) ==
  /\ \/ /\ At(p, "recover")
        /\ \E k \in loc[p].todo : \E q \in Procs \ {p} : loc[q].job = k
     \/ At(p, "recTx") /\ writer[Db(p)] \notin {p, None}
  /\ RecoveryFails(p)
  /\ UNCHANGED <<row, path, index, move_vars, del_vars, budget>>

(* The write transaction, the row, and the rollout under its lock. *)
RecoveryBegin(p) ==
  /\ At(p, "recTx")
  /\ writer[Db(p)] = None
  /\ IF row[Db(p)] = None \/ ~Lockable(p)
     THEN RecoveryFails(p)
     ELSE /\ writer' = [writer EXCEPT ![Db(p)] = p]
          /\ flock' = [flock EXCEPT ![p] = IF path = None THEN None ELSE path.ino]
          /\ loc' = [loc EXCEPT ![p].pc = "recAct",
                                ![p].prev = IF path = None THEN None ELSE path.cwd]
          /\ UNCHANGED report
  /\ UNCHANGED <<row, path, index, move_vars, del_vars, budget>>

(* What a side file's session_meta names; None when it is not there. *)
CwdOf(f) == IF f = None THEN None ELSE f.cwd

(* Mutant: the row is believed, whatever the rollout says. *)
RecoveryPlanTrustsRow(j, db, seen, stage, roll) == {[file |-> "keep", row |-> db]}

(* Mutant: an original that is still kept is put back, whatever the row. *)
RecoveryPlanRollsBack(j, db, seen, stage, roll) ==
  IF roll = j.prev THEN {[file |-> "rollback", row |-> j.prev]}
  ELSE {[file |-> "keep", row |-> db]}

(* The match of recover_workspace_move_journal: which side file goes over  *)
(* the rollout, if one does, and what the row becomes; {} is a bail.  The  *)
(* arms are tried in the order of the code.                                *)
RecoveryPlan(j, db, seen, stage, roll) ==
  LET keep        == {[file |-> "keep", row |-> db]}
      put(side)   == {[file |-> side, row |-> db]}
      forward     == stage = j.target
      backward    == roll = j.prev
      seenPrev    == seen = j.prev
      seenTarget  == seen = j.target
  IN CASE j.dbOnly ->
            IF seenTarget /\ db \in {j.prev, j.target}
            THEN {[file |-> "keep", row |-> j.target]} ELSE {}
       [] ~j.dbOnly /\ ((db = j.prev /\ seenPrev) \/ (db = j.target /\ seenTarget)) -> keep
       [] ~j.dbOnly /\ seen # None /\ j.prev = j.target /\ db = j.target /\ ~seenTarget ->
            IF forward THEN put("staged") ELSE {}
       [] ~j.dbOnly /\ j.prev # j.target /\ db = j.prev /\ seenTarget ->
            IF backward THEN put("rollback") ELSE {}
       [] ~j.dbOnly /\ j.prev # j.target /\ db = j.target /\ seenPrev ->
            IF forward THEN put("staged") ELSE {[file |-> "keep", row |-> j.prev]}
       [] ~j.dbOnly /\ seen = None /\ db = j.prev ->
            IF backward THEN put("rollback") ELSE {}
       [] ~j.dbOnly /\ seen = None /\ j.prev # j.target /\ db = j.target ->
            IF forward THEN put("staged")
            ELSE IF backward THEN {[file |-> "rollback", row |-> j.prev]} ELSE {}
       [] OTHER -> IF ~j.dbOnly /\ seen = db THEN keep ELSE {}

(* The chosen file is renamed over the rollout; the row's new value waits  *)
(* in the transaction.                                                     *)
RecoveryAct(p) ==
  /\ At(p, "recAct")
  /\ LET k    == loc[p].job
         plan == RecoveryPlan(loc[p].copy, row[Db(p)], loc[p].prev,
                              CwdOf(staged[k]), CwdOf(rollback[k]))
     IN \/ /\ plan = {}
           /\ RecoveryFails(p)
           /\ UNCHANGED <<path, staged, rollback, budget>>
        \/ \E r \in plan :
             /\ r.file # "keep"
             /\ Fault
             /\ RecoveryFails(p)
             /\ UNCHANGED <<path, staged, rollback>>
        \/ \E r \in plan :
             /\ path' = CASE r.file = "staged" -> staged[k]
                          [] r.file = "rollback" -> rollback[k]
                          [] OTHER -> path
             /\ staged' = IF r.file = "staged" THEN [staged EXCEPT ![k] = None] ELSE staged
             /\ rollback' = IF r.file = "rollback" THEN [rollback EXCEPT ![k] = None]
                            ELSE rollback
             /\ loc' = [loc EXCEPT ![p].pc = "recCommit", ![p].prev = r.row]
             /\ UNCHANGED <<writer, flock, report, budget>>
  /\ UNCHANGED <<row, index, journal, outcome, del_vars>>

(* The row is committed: to a move, this is the session it finds. *)
RecoveryCommit(p) ==
  /\ At(p, "recCommit")
  /\ \/ /\ row' = [row EXCEPT ![Db(p)] = loc[p].prev]
        /\ ReleaseDb(p)
        /\ Unlock(p)
        /\ loc' = [loc EXCEPT ![p].pc = "recClean",
                ![p].before = IF @ = None THEN None ELSE [@ EXCEPT !.row = row', !.file = path]]
        /\ UNCHANGED <<report, budget>>
     \/ Fault /\ RecoveryFails(p) /\ UNCHANGED row
  /\ UNCHANGED <<path, index, move_vars, del_vars>>

(* The side files go first, then the journal. *)
RecoveryClean(p) ==
  /\ At(p, "recClean")
  /\ LET k == loc[p].job IN
     \/ /\ staged' = [staged EXCEPT ![k] = None]
        /\ rollback' = [rollback EXCEPT ![k] = None]
        /\ Goto(p, "recDone")
        /\ UNCHANGED <<writer, flock, report, budget>>
     \/ Fault /\ RecoveryFails(p) /\ UNCHANGED <<staged, rollback>>
  /\ UNCHANGED <<row, path, index, journal, outcome, del_vars>>

(* The journal's lock is let go of just before its removal: one step here. *)
RecoveryDone(p) ==
  /\ At(p, "recDone")
  /\ \/ /\ journal' = [journal EXCEPT ![loc[p].job] = None]
        /\ loc' = [loc EXCEPT ![p] =
             [@ EXCEPT !.job = None, !.copy = None, !.prev = None, !.pc = "recover"]]
        /\ UNCHANGED <<writer, flock, report, budget>>
     \/ Fault /\ RecoveryFails(p) /\ UNCHANGED journal
  /\ UNCHANGED <<row, path, index, staged, rollback, outcome, del_vars>>

----
(* The move itself. *)

(* What Drop leaves of an attempt's side files: all of them once a journal *)
(* names them, else nothing.                                               *)
Dropped(k) ==
  IF k = None \/ (journal[k] # None /\ ~journal[k].dbOnly)
  THEN UNCHANGED <<staged, rollback>>
  ELSE /\ staged' = [staged EXCEPT ![k] = None]
       /\ rollback' = [rollback EXCEPT ![k] = None]

(* This attempt fails: the transaction is rolled back, the lock released. *)
MoveFails(p) ==
  /\ ReleaseDb(p)
  /\ Unlock(p)
  /\ outcome' = IF loc[p].move = None THEN outcome
                ELSE [outcome EXCEPT ![loc[p].move] = "failed"]
  /\ NextDatabase(p, "failed")

(* A new attempt: its side files and journal have names no other one has   *)
(* (the bound on attempts is Moves).                                       *)
NextMove ==
  {k \in Moves : outcome[k] = "unused" /\ \A j \in Moves : outcome[j] = "unused" => k <= j}

(* stream_rollout_workspace_update: every line copied, the session_meta    *)
(* line's cwd replaced.                                                    *)
Rewritten(cwd) == [ino |-> FreshInode, cwd |-> cwd, len |-> path.len]

(* RolloutWorkspaceUpdate: what the rewriting finds there is to do. *)
ModeOf(cwd) == IF path = None THEN "missing" ELSE IF path.cwd = cwd THEN "current" ELSE "staged"

(* The row is read and prepare_rollout_workspace_update stages the rewritten *)
(* rollout under the lock of the original.                                 *)
Stage(p) ==
  /\ At(p, "stage")
  /\ IF row[Db(p)] = None \/ ~Lockable(p)
     THEN MoveFails(p) /\ UNCHANGED staged
     ELSE \E k \in NextMove :
            /\ outcome' = [outcome EXCEPT ![k] = "open"]
            /\ staged' = IF path = None THEN staged
                         ELSE [staged EXCEPT ![k] = Rewritten(loc[p].target)]
            /\ flock' = [flock EXCEPT ![p] = IF path = None THEN None ELSE path.ino]
            /\ loc' = [loc EXCEPT ![p] =
                 [@ EXCEPT !.move = k, !.prev = row[Db(p)],
                    !.sig  = IF path = None THEN None ELSE SignatureOf(path),
                    !.mode = ModeOf(loc[p].target),
                    !.pc = IF path = None THEN "begin" ELSE "link"]]
            /\ UNCHANGED <<writer, report>>
  /\ UNCHANGED <<row, path, index, rollback, journal, del_vars, budget>>

(* The rollout did not change while it was copied; its original gets a     *)
(* second name, or a copy where hard links are not supported.              *)
Link(p) ==
  /\ At(p, "link")
  /\ LET k == loc[p].move IN
     IF ~Unchanged(p)
     THEN MoveFails(p) /\ Dropped(k)
     ELSE /\ \/ loc[p].mode = "current" /\ UNCHANGED rollback
             \/ /\ loc[p].mode = "staged"
                /\ \E ino \in {path.ino, FreshInode} :
                     rollback' = [rollback EXCEPT ![k] = [path EXCEPT !.ino = ino]]
          /\ Goto(p, "begin")
          /\ UNCHANGED <<staged, outcome, writer, flock, report>>
  /\ UNCHANGED <<row, path, index, journal, del_vars, budget>>

(* The write transaction, in which the row must be what it was. *)
Begin(p) ==
  /\ At(p, "begin")
  /\ \/ /\ writer[Db(p)] = None /\ row[Db(p)] = loc[p].prev
        /\ writer' = [writer EXCEPT ![Db(p)] = p]
        /\ Goto(p, IF loc[p].mode = "staged"
                      \/ (loc[p].mode = "current" /\ loc[p].prev # loc[p].target)
                   THEN "journal" ELSE "commit")
        /\ UNCHANGED <<flock, staged, rollback, outcome, report>>
     \/ /\ writer[Db(p)] # None \/ row[Db(p)] # loc[p].prev
        /\ MoveFails(p)
        /\ Dropped(loc[p].move)
  /\ UNCHANGED <<row, path, index, journal, del_vars, budget>>

(* What either kind of journal records: write_recovery_journal writes the  *)
(* one of a staged rollout, write_database_only_workspace_move_journal     *)
(* that of a rollout already at the target.                                *)
JournalOf(p) ==
  [db |-> Db(p), prev |-> loc[p].prev, target |-> loc[p].target,
   dbOnly |-> loc[p].mode = "current"]

WriteJournal(p) ==
  /\ At(p, "journal")
  /\ LET l == loc[p] IN
     \/ /\ journal' = [journal EXCEPT ![l.move] = JournalOf(p)]
        /\ Goto(p, IF l.mode = "staged" THEN "verify" ELSE "commit")
        /\ UNCHANGED <<staged, rollback, outcome, writer, flock, report, budget>>
     \/ Fault /\ MoveFails(p) /\ Dropped(l.move) /\ UNCHANGED journal
  /\ UNCHANGED <<row, path, index, del_vars>>

(* replace_target: the last look at the original ... *)
Verify(p) ==
  /\ At(p, "verify")
  /\ IF Unchanged(p)
     THEN Goto(p, "replace") /\ UNCHANGED <<outcome, writer, flock, report>>
     ELSE MoveFails(p)
  /\ UNCHANGED <<row, path, index, staged, rollback, journal, del_vars, budget>>

(* ... and the rename over it. *)
Replace(p) ==
  /\ At(p, "replace")
  /\ LET k == loc[p].move IN
     \/ /\ path' = staged[k]
        /\ staged' = [staged EXCEPT ![k] = None]
        /\ Goto(p, "commit")
        /\ UNCHANGED <<outcome, writer, flock, report, budget>>
     \/ Fault /\ MoveFails(p) /\ UNCHANGED <<path, staged>>
  /\ UNCHANGED <<row, index, rollback, journal, del_vars>>

Commit(p) ==
  /\ At(p, "commit")
  /\ \/ /\ row' = [row EXCEPT ![Db(p)] = loc[p].target]
        /\ ReleaseDb(p)
        /\ Goto(p, "finish")
        /\ UNCHANGED <<staged, rollback, outcome, flock, report, budget>>
     \/ /\ Fault
        /\ UNCHANGED row
        /\ IF loc[p].mode = "staged"
           THEN /\ ReleaseDb(p) /\ Goto(p, "recheck")
                /\ UNCHANGED <<staged, rollback, outcome, flock, report>>
           ELSE MoveFails(p) /\ Dropped(loc[p].move)
  /\ UNCHANGED <<path, index, journal, del_vars>>

(* The commit failed: the row tells whether the original is put back. *)
Recheck(p) ==
  /\ At(p, "recheck")
  /\ IF row[Db(p)] = loc[p].prev
     THEN Goto(p, "restore") /\ UNCHANGED <<outcome, writer, flock, report>>
     ELSE MoveFails(p)
  /\ UNCHANGED <<row, path, index, staged, rollback, journal, del_vars, budget>>

(* restore_original. *)
PutBack(p) ==
  /\ At(p, "restore")
  /\ LET k == loc[p].move IN
     \/ /\ rollback[k] # None
        /\ path' = rollback[k]
        /\ rollback' = [rollback EXCEPT ![k] = None]
        /\ Goto(p, "unjournal")
        /\ UNCHANGED <<outcome, writer, flock, report, budget>>
     \/ /\ IF rollback[k] = None THEN UNCHANGED budget ELSE Fault
        /\ MoveFails(p) /\ UNCHANGED <<path, rollback>>
  /\ UNCHANGED <<row, index, staged, journal, del_vars>>

(* clear_recovery_journal, whose error is ignored here. *)
Unjournal(p) ==
  /\ At(p, "unjournal")
  /\ LET k == loc[p].move IN
     \/ /\ journal' = [journal EXCEPT ![k] = None]
        /\ staged' = [staged EXCEPT ![k] = None]
        /\ UNCHANGED budget
     \/ Fault /\ UNCHANGED <<journal, staged>>
  /\ MoveFails(p)
  /\ UNCHANGED <<row, path, index, rollback, del_vars>>

(* The move has happened; what is told from here on is success. *)
Moved(p) ==
  /\ outcome' = [outcome EXCEPT ![loc[p].move] = "moved"]
  /\ Ended(p, "moved")

(* RolloutWorkspaceStage::finish and its counterpart: the side file goes   *)
(* first.                                                                  *)
Finish(p) ==
  /\ At(p, "finish")
  /\ Unlock(p)
  /\ LET k == loc[p].move IN
     \/ /\ staged' = IF loc[p].mode = "current" THEN [staged EXCEPT ![k] = None] ELSE staged
        /\ rollback' = [rollback EXCEPT ![k] = None]
        /\ IF journal[k] # None THEN Goto(p, "clear") /\ UNCHANGED <<outcome, report>>
           ELSE Moved(p)
        /\ UNCHANGED budget
     \/ Fault /\ Moved(p) /\ UNCHANGED <<staged, rollback>>
  /\ UNCHANGED <<row, writer, path, index, journal, del_vars>>

ClearJournal(p) ==
  /\ At(p, "clear")
  /\ \/ journal' = [journal EXCEPT ![loc[p].move] = None] /\ UNCHANGED budget
     \/ Fault /\ UNCHANGED journal
  /\ Moved(p)
  /\ UNCHANGED <<db_vars, file_vars, staged, rollback, del_vars>>

Recover(p) ==
  \/ Scan(p) \/ NextJournal(p) \/ AllRecovered(p) \/ RecoveryTimeout(p)
  \/ RecoveryBegin(p) \/ RecoveryAct(p) \/ RecoveryCommit(p)
  \/ RecoveryClean(p) \/ RecoveryDone(p)

Move(p) ==
  \/ Stage(p) \/ Link(p) \/ Begin(p) \/ WriteJournal(p) \/ Verify(p) \/ Replace(p)
  \/ Commit(p) \/ Recheck(p) \/ PutBack(p) \/ Unjournal(p) \/ Finish(p) \/ ClearJournal(p)
=============================================================================

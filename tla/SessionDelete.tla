----------------------------- MODULE SessionDelete -----------------------------
(***************************************************************************)
(* Deleting a session from every database that lists it                    *)
(* (delete_local_from_paths over delete_codex_thread), and undoing it from *)
(* the backups it wrote (undo, restore_backups).  A delete takes the write *)
(* transaction of one database at a time, backs the row, the rollout and   *)
(* the index line up, removes the row, and only after the commit removes   *)
(* the rollout and the line; what fails after the commit is undone, and a  *)
(* later database's failure undoes the earlier ones.                       *)
(***************************************************************************)
EXTENDS SessionFiles

----
(* Beginning. *)

(* The databases are looked at first, each once. *)
StartDelete(p) ==
  /\ budget.deletes > 0 /\ budget.requests > 0
  /\ Holders # {}
  /\ Start(p, [Idle EXCEPT !.pc = "delTx", !.op = "delete", !.before = Picture,
                           !.dbs = Holders])
  /\ budget' = [budget EXCEPT !.deletes = @ - 1, !.requests = @ - 1]
  /\ UNCHANGED <<db_vars, file_vars, move_vars, del_vars>>

(* The user undoes with the token the last delete gave. *)
StartUndo(p) ==
  /\ budget.undos > 0
  /\ given # {}
  /\ Start(p, [Idle EXCEPT !.pc = "undoCheck", !.op = "undo", !.undo = given,
                           !.before = Picture])
  /\ budget' = [budget EXCEPT !.undos = @ - 1]
  /\ UNCHANGED <<db_vars, file_vars, move_vars, del_vars>>

----
(* Deleting in one database. *)

(* This database's delete failed, with what backup it had made: nothing    *)
(* more to do when it was the first, else the earlier ones are undone.     *)
CandidateFails(p, own) ==
  /\ ReleaseDb(p)
  /\ Unlock(p)
  /\ IF loc[p].done = {}
     THEN Ended(p, IF loc[p].bad THEN "restored" ELSE "failed") /\ given' = own
     ELSE /\ loc' = [loc EXCEPT ![p] = [@ EXCEPT !.undo = loc[p].done, !.token = None,
                                                 !.pc = "undoCheck"]]
          /\ UNCHANGED <<given, report>>

(* A delete's next database, in the order of its caller, and the backup it *)
(* makes there, under an id no backup has (the bound on them is Backups).  *)
NextDb(p) ==
  {d \in loc[p].dbs : \A i, j \in DOMAIN DbOrder :
                         DbOrder[i] = d /\ DbOrder[j] \in loc[p].dbs => i <= j}
NextBackup ==
  {b \in Backups : backup[b] = None /\ \A a \in Backups : backup[a] = None => b <= a}

(* What is backed up of a database's session, the rollout copied and its   *)
(* signature compared (snapshot_rollout_files).                            *)
BackupOf(d) == [db |-> d, cwd |-> row[d], file |-> path, index |-> index]

(* Mutant: the rollout is not backed up. *)
BackUpRows(p) ==
  /\ At(p, "delTx")
  /\ \E d \in NextDb(p), b \in NextBackup :
        /\ writer[d] = None /\ row[d] # None
        /\ writer' = [writer EXCEPT ![d] = p]
        /\ backup' = [backup EXCEPT ![b] =
             [db |-> d, cwd |-> row[d], file |-> None, index |-> index]]
        /\ loc' = [loc EXCEPT ![p] =
             [@ EXCEPT !.token = b, !.pc = "delVerify", !.bad = FALSE,
                       !.sig = IF path = None THEN None ELSE SignatureOf(path)]]
  /\ UNCHANGED <<row, path, flock, index, move_vars, given, report, budget>>

(* The row and the rollout are backed up inside the transaction, the       *)
(* rollout under its lock; the backup is durable before anything goes.     *)
BackUp(p) ==
  /\ At(p, "delTx")
  /\ \E d \in NextDb(p) :
       \/ /\ writer[d] # None \/ row[d] = None \/ ~Lockable(p)
          /\ CandidateFails(p, {})
          /\ UNCHANGED <<backup, budget>>
       \/ Fault /\ CandidateFails(p, {}) /\ UNCHANGED backup
       \/ /\ writer[d] = None /\ row[d] # None
          /\ Lockable(p)
          /\ writer' = [writer EXCEPT ![d] = p]
          /\ flock' = [flock EXCEPT ![p] = IF path = None THEN None ELSE path.ino]
          /\ \E b \in NextBackup :
               /\ backup' = [backup EXCEPT ![b] = BackupOf(d)]
               /\ loc' = [loc EXCEPT ![p] =
                    [@ EXCEPT !.token = b, !.pc = "delVerify", !.bad = FALSE,
                              !.sig = IF path = None THEN None ELSE SignatureOf(path)]]
          /\ UNCHANGED <<given, report, budget>>
  /\ UNCHANGED <<row, path, index, move_vars>>

(* verify_delete_file_snapshots. *)
VerifyBackup(p) ==
  /\ At(p, "delVerify")
  /\ IF loc[p].sig = None \/ Unchanged(p)
     THEN Goto(p, "delCommit") /\ UNCHANGED <<writer, flock, given, report>>
     ELSE CandidateFails(p, {loc[p].token})
  /\ UNCHANGED <<row, path, index, move_vars, backup, budget>>

DeleteRows(p) ==
  /\ At(p, "delCommit")
  /\ \/ /\ \E d \in NextDb(p) : row' = [row EXCEPT ![d] = None]
        /\ ReleaseDb(p)
        /\ Goto(p, "delFile")
        /\ UNCHANGED <<flock, given, report, budget>>
     \/ Fault /\ CandidateFails(p, {loc[p].token}) /\ UNCHANGED row
  /\ UNCHANGED <<path, index, move_vars, backup>>

(* Mutant: a rollout that could not be removed is passed over. *)
DeleteFileIfCan(p) ==
  /\ At(p, "delFile")
  /\ Unlock(p)
  /\ loc' = [loc EXCEPT ![p].bad = FALSE, ![p].pc = "delIndex"]
  /\ \/ loc[p].sig # None /\ Unchanged(p) /\ path' = None /\ UNCHANGED budget
     \/ loc[p].sig = None /\ UNCHANGED <<path, budget>>
     \/ loc[p].sig # None /\ Fault /\ UNCHANGED path
  /\ UNCHANGED <<row, writer, index, move_vars, del_vars, report>>

(* The rollout is looked at again, then removed, in one step here; a       *)
(* changed one stays.                                                      *)
DeleteFile(p) ==
  /\ At(p, "delFile")
  /\ Unlock(p)
  /\ LET proceed(bad) == loc' = [loc EXCEPT ![p].bad = bad, ![p].pc = "delIndex"] IN
     \/ /\ loc[p].sig = None \/ Unchanged(p)
        /\ path' = IF loc[p].sig = None THEN path ELSE None
        /\ proceed(FALSE)
        /\ UNCHANGED budget
     \/ /\ loc[p].sig # None /\ ~Unchanged(p)
        /\ proceed(TRUE)
        /\ UNCHANGED <<path, budget>>
     \/ /\ loc[p].sig # None
        /\ Fault /\ proceed(TRUE) /\ UNCHANGED path
  /\ UNCHANGED <<row, writer, index, move_vars, del_vars, report>>

(* The verdict on this database: what failed after its commit is undone,   *)
(* else the next database's turn comes or the delete is done.              *)
Verdict(p, bad) ==
  LET l == loc[p] IN
  IF bad
  THEN /\ loc' = [loc EXCEPT ![p] =
            [@ EXCEPT !.bad = TRUE, !.undo = {l.token}, !.pc = "undoCheck"]]
       /\ UNCHANGED <<given, report>>
  ELSE IF l.dbs # NextDb(p)
  THEN /\ loc' = [loc EXCEPT ![p] =
            [@ EXCEPT !.dbs = l.dbs \ NextDb(p), !.done = l.done \cup {l.token},
                      !.token = None, !.sig = None, !.pc = "delTx"]]
       /\ UNCHANGED <<given, report>>
  ELSE Ended(p, "deleted") /\ given' = l.done \cup {l.token}

(* remove_session_index_entry. *)
DeleteIndex(p) ==
  /\ At(p, "delIndex")
  /\ \/ index' = FALSE /\ Verdict(p, loc[p].bad) /\ UNCHANGED budget
     \/ Fault /\ UNCHANGED index /\ Verdict(p, TRUE)
  /\ UNCHANGED <<row, writer, path, flock, move_vars, backup>>

----
(* Undoing. *)

(* What follows an undo: the user's is told; one inside a delete ends that *)
(* database's delete, or all of the delete.                                *)
AfterUndo(p, ok) ==
  LET l == loc[p] IN
  IF l.op = "undo"
  THEN Ended(p, IF ok THEN "undone" ELSE "failed") /\ UNCHANGED given
  ELSE IF l.token # None /\ l.done # {}
  THEN /\ loc' = [loc EXCEPT ![p] =
            [@ EXCEPT !.undo = l.done, !.pending = {}, !.token = None, !.bad = ~ok,
                      !.pc = "undoCheck"]]
       /\ UNCHANGED <<given, report>>
  ELSE /\ Ended(p, IF ok /\ (l.token # None \/ ~l.bad) THEN "restored" ELSE "stuck")
       /\ given' = l.undo

UndoFails(p) == ReleaseDb(p) /\ AfterUndo(p, FALSE)

(* restore_backups looks at everything before it writes: a row or a        *)
(* rollout that is there and differs is a conflict; rows that are there    *)
(* already are not written again.                                          *)
RowConflict(b)  == row[backup[b].db] \notin {None, backup[b].cwd}
FileConflict(b) == backup[b].file # None /\ path # None /\ ~SameContent(path, backup[b].file)

CheckUndo(p) ==
  /\ At(p, "undoCheck")
  /\ IF \E b \in loc[p].undo : RowConflict(b) \/ FileConflict(b)
     THEN UndoFails(p)
     ELSE /\ loc' = [loc EXCEPT
               ![p].pending = {b \in loc[p].undo : row[backup[b].db] = None},
               ![p].pc = "undoBegin"]
          /\ UNCHANGED <<writer, given, report>>
  /\ UNCHANGED <<row, path, flock, index, move_vars, backup, budget>>

(* The write transactions of all databases at once, rows inserted in each; *)
(* a row that has come meanwhile is in the way.                            *)
BeginUndo(p) ==
  /\ At(p, "undoBegin")
  /\ IF \A b \in loc[p].pending : writer[backup[b].db] = None /\ row[backup[b].db] = None
     THEN /\ writer' = [d \in Dbs |-> IF \E b \in loc[p].pending : backup[b].db = d
                                      THEN p ELSE writer[d]]
          /\ loc' = [loc EXCEPT ![p].pending = {}, ![p].pc = "undoCommit"]
          /\ UNCHANGED <<given, report>>
     ELSE UndoFails(p)
  /\ UNCHANGED <<row, path, flock, index, move_vars, backup, budget>>

(* restore_rows. *)
RestoredRow(b) == [row EXCEPT ![backup[b].db] = backup[b].cwd]

(* They are committed one after the other. *)
CommitUndo(p) ==
  /\ At(p, "undoCommit")
  /\ LET left == {b \in loc[p].undo : writer[backup[b].db] = p} IN
     \/ /\ left = {}
        /\ Goto(p, "undoFiles")
        /\ UNCHANGED <<row, writer, given, report, budget>>
     \/ \E b \in left :
          /\ \A a \in left : b <= a
          /\ \/ /\ row' = RestoredRow(b)
                /\ writer' = [writer EXCEPT ![backup[b].db] = None]
                /\ UNCHANGED <<loc, given, report, budget>>
             \/ Fault /\ UndoFails(p) /\ UNCHANGED row
  /\ UNCHANGED <<path, flock, index, move_vars, backup>>

(* Mutant: the rollout is put back only over another one. *)
RestoreFileOver(p) ==
  /\ At(p, "undoFiles")
  /\ \/ path = None /\ UNCHANGED path
     \/ /\ path # None
        /\ \E b \in loc[p].undo : backup[b].file # None
                                 /\ path' = [backup[b].file EXCEPT !.ino = FreshInode]
  /\ Goto(p, "undoIndex")
  /\ UNCHANGED <<row, writer, flock, index, move_vars, del_vars, report, budget>>

(* restore_backup_files: a path is restored once, from the first backup    *)
(* that has it, unless the file there is the same already.                 *)
RestoreFile(p) ==
  /\ At(p, "undoFiles")
  /\ LET kept  == {b \in loc[p].undo : backup[b].file # None}
         there == \/ kept = {}
                  \/ path # None /\ \E b \in kept : /\ \A a \in kept : b <= a
                                                    /\ SameContent(path, backup[b].file)
     IN \/ there /\ Goto(p, "undoIndex") /\ UNCHANGED <<path, writer, given, report, budget>>
        \/ /\ ~there
           /\ \E b \in kept :
                /\ \A a \in kept : b <= a
                /\ path' = [backup[b].file EXCEPT !.ino = FreshInode]
           /\ Goto(p, "undoIndex")
           /\ UNCHANGED <<writer, given, report, budget>>
        \/ ~there /\ Fault /\ UndoFails(p) /\ UNCHANGED path
  /\ UNCHANGED <<row, flock, index, move_vars, backup>>

RestoreIndex(p) ==
  /\ At(p, "undoIndex")
  /\ \/ /\ index' = (index \/ \E b \in loc[p].undo : backup[b].index)
        /\ AfterUndo(p, TRUE)
        /\ UNCHANGED <<writer, budget>>
     \/ Fault /\ UndoFails(p) /\ UNCHANGED index
  /\ UNCHANGED <<row, path, flock, move_vars, backup>>

Delete(p) ==
  \/ BackUp(p) \/ VerifyBackup(p) \/ DeleteRows(p) \/ DeleteFile(p) \/ DeleteIndex(p)

Undo(p) ==
  \/ CheckUndo(p) \/ BeginUndo(p) \/ CommitUndo(p) \/ RestoreFile(p) \/ RestoreIndex(p)
=============================================================================

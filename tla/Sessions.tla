------------------------------- MODULE Sessions --------------------------------
(***************************************************************************)
(* The local sessions of Codex under the operations of the Manager and of  *)
(* the launcher's data service, which run in different processes and take  *)
(* no lock against each other but SQLite's and the rollout's advisory one; *)
(* Codex appends to the rollout, and a process may be killed anywhere.     *)
(***************************************************************************)
EXTENDS WorkspaceMove, SessionDelete

(* Codex writes a line: under every name the file has. *)
CodexAppends ==
  /\ budget.events > 0
  /\ path # None
  /\ LET longer(f) == IF f # None /\ f.ino = path.ino THEN [f EXCEPT !.len = @ + 1] ELSE f
     IN /\ path' = longer(path)
        /\ rollback' = [k \in Moves |-> longer(rollback[k])]
  /\ budget' = [budget EXCEPT !.events = @ - 1]
  /\ UNCHANGED <<db_vars, flock, index, staged, journal, outcome, del_vars, report, loc>>

(* The process is killed: SQLite rolls its transaction back, the system    *)
(* releases its locks, and nothing else is cleaned up.                     *)
Crash(p) ==
  /\ budget.events > 0
  /\ loc[p] # Idle
  /\ budget' = [budget EXCEPT !.events = @ - 1]
  /\ ReleaseDb(p)
  /\ Unlock(p)
  /\ loc' = [loc EXCEPT ![p] = Idle]
  /\ UNCHANGED <<row, path, index, move_vars, del_vars, report>>

Next ==
  \/ CodexAppends
  \/ \E p \in Procs :
       \/ StartList(p) \/ (\E cwd \in Cwds : StartMove(p, cwd)) \/ Recover(p) \/ Move(p)
       \/ StartDelete(p) \/ StartUndo(p) \/ Delete(p) \/ Undo(p)
       \/ Crash(p)

Spec == Init /\ [][Next]_vars

----
(* Properties. *)

AllIdle == \A p \in Procs : loc[p] = Idle
Settled == AllIdle /\ \A k \in Moves : journal[k] = None

(* A session whose rollout names the workspace of its rows. *)
AgreedInit == Init /\ \A d \in Holders : row[d] = path.cwd

AgreedSpec == AgreedInit /\ [][Next]_vars

(* Moves take turns, and one whose commit failed is alone while it puts    *)
(* the rollout back.  Nothing in the code sees to it: the database and the *)
(* advisory lock are free in between, the rollout at the path being a new  *)
(* file.  What holds of OrderlySpec holds as long as nobody is in there.   *)
Orderly ==
  \A p, q \in Procs : p # q =>
    /\ ~(loc'[p].op = "move" /\ loc'[q].op = "move")
    /\ loc'[p].pc \in {"recheck", "restore", "unjournal"} => loc'[q] = Idle

OrderlySpec == AgreedInit /\ [][Next /\ Orderly]_vars

(* Once nothing runs and no journal is pending, the row names the          *)
(* workspace the rollout names: a move is in both or in neither.  (Of a    *)
(* session one database lists, a move changing the row of one only; and    *)
(* until a delete is tried.)                                               *)
RowAndRolloutAgree ==
  Settled /\ budget.deletes = MaxDeletes /\ Cardinality(Holders) = 1
    => \A d \in Holders : row[d] = path.cwd

(* The documentation's promise about a killed move: its journal brings row *)
(* and rollout to a consistent state, forward or back; recovery never      *)
(* meets a state it has no plan for.                                       *)
RecoveryHasAPlan ==
  AllIdle => \A k \in Moves :
    journal[k] # None /\ row[journal[k].db] # None
      => RecoveryPlan(journal[k], row[journal[k].db], CwdOf(path),
                      CwdOf(staged[k]), CwdOf(rollback[k])) # {}

(* It does so at least for a session one database lists, as long as no     *)
(* delete is tried.                                                        *)
MovesAreRecoverable ==
  budget.deletes = MaxDeletes /\ Cardinality(Holders) = 1 => RecoveryHasAPlan

(* Whatever becomes of a move, it can be finished or undone, and then is. *)
MovesSettle == RowAndRolloutAgree /\ MovesAreRecoverable

(* A move its caller was told about is not taken back: recovering a        *)
(* journal that outlived its move changes neither the rollout nor the row, *)
(* unless there is another move to finish.  (Of a session one database     *)
(* lists: a move that fails in one database and goes on to the next is     *)
(* taken back.  And until a delete is tried: an undo commits the rows      *)
(* first and takes no lock on the rollout.)                                *)
RecoveryKeepsMoves ==
  [][\A p \in Procs :
       /\ At(p, "recAct") /\ At(p, "recCommit")'
       /\ outcome[loc[p].job] = "moved"
       /\ \A k \in Moves \ {loc[p].job} : journal[k] = None
       /\ budget.deletes = MaxDeletes /\ Cardinality(Holders) = 1
       => path' = path /\ loc'[p].prev = row[Db(p)]]_vars

(* The rollout is the conversation: it is never gone without a backup that *)
(* holds one.                                                              *)
RolloutNeverLost ==
  path = None => \E b \in Backups : backup[b] # None /\ backup[b].file # None

(* A move nobody interfered with does what its caller is told: "moved"     *)
(* means its database and the rollout name the target; "failed" without a  *)
(* journal left behind means both are what they were, or what the recovery *)
(* it began with made of them.                                             *)
MoveReportIsTrue ==
  [][\A p \in Procs :
       At(p, "idle")' /\ loc[p].op = "move" /\ loc[p].alone /\ report'[p] # report[p] =>
         /\ report'[p] = "moved" =>
              row[Db(p)] = loc[p].target /\ CwdOf(path) \in {None, loc[p].target}
         /\ report'[p] = "failed" /\ (\A k \in Moves : journal'[k] = None) =>
              row' = loc[p].before.row /\ CwdOf(path') = CwdOf(loc[p].before.file)]_vars

(* What the undo token of a delete can bring back. *)
Covered(B, pic) ==
  /\ \A d \in Dbs : row'[d] # pic.row[d]
       => \E b \in B : backup'[b].db = d /\ backup'[b].cwd = pic.row[d]
  /\ CwdOf(path') # CwdOf(pic.file) => \E b \in B : CwdOf(backup'[b].file) = CwdOf(pic.file)
  /\ index' # pic.index => \E b \in B : backup'[b].index = pic.index

(* A delete nobody interfered with does what its caller is told: "deleted" *)
(* leaves nothing of the session, "failed" and "restored" leave all of it, *)
(* and in every case what is gone the token given can bring back, unless a *)
(* second call has failed: the token of a database whose delete failed and *)
(* could not be undone is dropped for those of the databases before it.    *)
DeleteReportIsTrue ==
  [][\A p \in Procs :
       At(p, "idle")' /\ loc[p].op = "delete" /\ loc[p].alone /\ report'[p] # report[p] =>
         /\ report'[p] = "deleted" =>
              path' = None /\ ~index' /\ \A d \in Dbs : row'[d] = None
         /\ report'[p] \in {"failed", "restored"} =>
              /\ row' = loc[p].before.row
              /\ CwdOf(path') = CwdOf(loc[p].before.file)
              /\ index' = loc[p].before.index
         /\ budget'.faults + 1 >= MaxFaults => Covered(given', loc[p].before)]_vars

(* The Manager tells the user the truth about a move and about a delete. *)
ReportsAreTrue == MoveReportIsTrue /\ DeleteReportIsTrue

(* An undo nobody interfered with, when it succeeds, brings back every row *)
(* its backups hold, the rollout and the index line.                       *)
UndoRestores ==
  [][\A p \in Procs :
       At(p, "idle")' /\ report'[p] = "undone" /\ report[p] # "undone" /\ loc[p].alone =>
         \A b \in loc[p].undo :
           /\ row'[backup[b].db] = backup[b].cwd
           /\ backup[b].file # None => CwdOf(path') # None
           /\ backup[b].index => index']_vars
=============================================================================

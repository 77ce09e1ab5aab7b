-------------------------- MODULE SessionReportsProofs --------------------------
(***************************************************************************)
(* What the processes of Sessions tell of an undo, a move and a delete     *)
(* nobody interferes with is true, for any processes, databases,           *)
(* workspaces and bounds, whatever fails and whenever one is killed.       *)
(***************************************************************************)
EXTENDS SessionsProofs

----
(* What an undo brings back. *)
LEMMA SetsOwn ==
  ASSUME IndInv, NEW p \in Procs, NEW l, loc' = [loc EXCEPT ![p] = l]
  PROVE  loc'[p] = l /\ \A q \in Procs \ {p} : loc'[q] = loc[q]
BY DEF IndInv, TypeOK

LEMMA IdleBare ==
  ASSUME NEW p \in Procs, loc'[p] = Idle
  PROVE  Bare(p)' /\ loc'[p].pc = "idle" /\ loc'[p].pc \notin OutsidePCs
BY DEF Bare, Idle, OutsidePCs, Deleting

LEMMA EndsOwn ==
  ASSUME IndInv, NEW p \in Procs, NEW said \in Reports, Ended(p, said)
  PROVE  /\ Own(p) /\ loc'[p] = Idle /\ loc'[p].pc \notin OutsidePCs
         /\ report'[p] = said /\ \A q \in Procs \ {p} : report'[q] = "none"
         /\ Bare(p)'
<1>1. loc' = [loc EXCEPT ![p] = Idle]
      /\ report' = [q \in Procs |-> IF q = p THEN said ELSE "none"]
  BY DEF Ended
<1>2. loc'[p] = Idle /\ \A q \in Procs \ {p} : loc'[q] = loc[q]
  BY <1>1, SetsOwn
<1> QED BY <1>1, <1>2, IdleBare DEF Own

(* A process that goes on in a database. *)
LEMMA GoesOnInDb ==
  ASSUME IndInv, NEW p \in Procs, NEW l, loc' = [loc EXCEPT ![p] = l],
         l.pc \in InDb, l.op = loc[p].op, l.alone = loc[p].alone,
         \/ l.dbs = {} /\ l.token = None /\ l.done = {} /\ l.undo = {} /\ l.pending = {}
         \/ /\ l.dbs = loc[p].dbs /\ l.token = loc[p].token /\ l.done = loc[p].done
            /\ l.undo = loc[p].undo /\ l.pending = loc[p].pending,
         UNCHANGED <<backup, given, index, report>>
  PROVE  MovesOwn(p)
<1>1. loc'[p] = l /\ \A q \in Procs \ {p} : loc'[q] = loc[q]
  BY SetsOwn
<1>2. l.pc # "idle" /\ l.pc \notin OutsidePCs
  BY DEF InDb, Recovering, Attempting, Preparing, Replacing, OutsidePCs, Deleting
<1>3. Bare(p) => Bare(p)'
  BY <1>1 DEF Bare
<1> QED BY <1>1, <1>2, <1>3 DEF MovesOwn, Own

LEMMA NextDatabaseOwn ==
  ASSUME IndInv, NEW p \in Procs, loc[p].pc \in InDb, NEW said \in Reports, said # "undone",
         NextDatabase(p, said), UNCHANGED <<backup, given, index>>
  PROVE  MovesOwn(p)
<1>1. CASE loc[p].at < Len(DbOrder)
  <2> DEFINE l == [Idle EXCEPT !.pc = "scan", !.op = loc[p].op, !.at = loc[p].at + 1,
                         !.target = loc[p].target, !.alone = loc[p].alone,
                         !.before = loc[p].before]
  <2>1. loc' = [loc EXCEPT ![p] = l] /\ report' = report
    BY <1>1 DEF NextDatabase
  <2>2. /\ l.pc \in InDb /\ l.op = loc[p].op /\ l.alone = loc[p].alone
        /\ l.dbs = {} /\ l.token = None /\ l.done = {} /\ l.undo = {} /\ l.pending = {}
    BY DEF Idle, InDb
  <2> HIDE DEF l
  <2> QED BY <2>1, <2>2, GoesOnInDb
<1>2. CASE ~(loc[p].at < Len(DbOrder))
  <2>1. PICK what \in Reports \ {"undone"} : Ended(p, what)
    BY <1>2 DEF NextDatabase, Reports
  <2>2. \A q \in Procs : report'[q] # "undone"
    BY <2>1, EndsOwn
  <2> QED BY <2>1, <2>2, EndsOwn DEF MovesOwn
<1> QED BY <1>1, <1>2

LEMMA GotoInDb ==
  ASSUME IndInv, NEW p \in Procs, NEW place \in InDb, Goto(p, place),
         UNCHANGED <<backup, given, index, report>>
  PROVE  MovesOwn(p)
<1> DEFINE l == [loc[p] EXCEPT !.pc = place]
<1>1. loc[p] \in Locals
  BY DEF IndInv, TypeOK
<1>2. /\ l.pc \in InDb /\ l.op = loc[p].op /\ l.alone = loc[p].alone
      /\ l.dbs = loc[p].dbs /\ l.token = loc[p].token /\ l.done = loc[p].done
      /\ l.undo = loc[p].undo /\ l.pending = loc[p].pending
  BY <1>1 DEF Locals
<1>3. loc' = [loc EXCEPT ![p] = l]
  BY DEF Goto
<1> HIDE DEF l
<1> QED BY <1>2, <1>3, GoesOnInDb

LEMMA FailsInDb ==
  ASSUME IndInv, NEW p \in Procs, loc[p].pc \in InDb,
         RecoveryFails(p) \/ MoveFails(p), UNCHANGED <<backup, given, index>>
  PROVE  MovesOwn(p)
<1>1. NextDatabase(p, "failed") /\ "failed" \in Reports
  BY DEF RecoveryFails, MoveFails, Reports
<1> QED BY <1>1, NextDatabaseOwn

LEMMA RecoverOwn ==
  ASSUME IndInv, NEW p \in Procs, Recover(p)
  PROVE  MovesOwn(p)
<1>1. UNCHANGED <<backup, given, index>>
  BY DEF Recover, Scan, NextJournal, AllRecovered, RecoveryTimeout, RecoveryBegin,
         RecoveryAct, RecoveryCommit, RecoveryClean, RecoveryDone, del_vars, file_vars
<1>2. loc[p].pc \in InDb
  BY DEF Recover, Scan, NextJournal, AllRecovered, RecoveryTimeout, RecoveryBegin,
         RecoveryAct, RecoveryCommit, RecoveryClean, RecoveryDone, At, InDb, Recovering
<1>3. CASE RecoveryFails(p)
  BY <1>1, <1>2, <1>3, FailsInDb
<1>4. ASSUME NEW l, loc' = [loc EXCEPT ![p] = l], l.pc \in InDb, UNCHANGED report,
             /\ l.op = loc[p].op /\ l.alone = loc[p].alone
             /\ l.dbs = loc[p].dbs /\ l.token = loc[p].token /\ l.done = loc[p].done
             /\ l.undo = loc[p].undo /\ l.pending = loc[p].pending
      PROVE  MovesOwn(p)
  BY <1>1, <1>4, GoesOnInDb
<1>5. loc[p] \in Locals
  BY DEF IndInv, TypeOK
<1>6. CASE Scan(p)
  <2> DEFINE l == [loc[p] EXCEPT !.todo = Pending(Db(p)), !.pc = "recover"]
  <2>1. loc' = [loc EXCEPT ![p] = l] /\ UNCHANGED report
    BY <1>6 DEF Scan
  <2>2. /\ l.pc \in InDb /\ l.op = loc[p].op /\ l.alone = loc[p].alone
        /\ l.dbs = loc[p].dbs /\ l.token = loc[p].token /\ l.done = loc[p].done
        /\ l.undo = loc[p].undo /\ l.pending = loc[p].pending
    BY <1>5 DEF Locals, InDb
  <2> HIDE DEF l
  <2> QED BY <2>1, <2>2, <1>4
<1>7. CASE NextJournal(p)
  <2>1. PICK k \in loc[p].todo :
          loc' = [loc EXCEPT ![p] =
            [@ EXCEPT !.todo = loc[p].todo \ {k}, !.copy = journal[k],
                      !.job = IF journal[k] = None THEN None ELSE k,
                      !.pc = IF journal[k] = None THEN "recover" ELSE "recTx"]]
    BY <1>7 DEF NextJournal
  <2> DEFINE l == [loc[p] EXCEPT !.todo = loc[p].todo \ {k}, !.copy = journal[k],
                      !.job = IF journal[k] = None THEN None ELSE k,
                      !.pc = IF journal[k] = None THEN "recover" ELSE "recTx"]
  <2>2. loc' = [loc EXCEPT ![p] = l] /\ UNCHANGED report
    BY <1>7, <2>1 DEF NextJournal
  <2>3. /\ l.pc \in InDb /\ l.op = loc[p].op /\ l.alone = loc[p].alone
        /\ l.dbs = loc[p].dbs /\ l.token = loc[p].token /\ l.done = loc[p].done
        /\ l.undo = loc[p].undo /\ l.pending = loc[p].pending
    BY <1>5 DEF Locals, InDb, Recovering
  <2> HIDE DEF l
  <2> QED BY <2>2, <2>3, <1>4
<1>8. CASE AllRecovered(p)
  <2>1. CASE NextDatabase(p, "listed")
    BY <1>1, <1>2, <2>1, NextDatabaseOwn DEF Reports
  <2>2. CASE Goto(p, "stage") /\ UNCHANGED report
    BY <1>1, <2>2, GotoInDb DEF InDb
  <2> QED BY <1>8, <2>1, <2>2 DEF AllRecovered
<1>9. CASE RecoveryBegin(p) /\ ~RecoveryFails(p)
  <2> DEFINE c == IF path = None THEN None ELSE path.cwd
             l == [loc[p] EXCEPT !.pc = "recAct", !.prev = c]
  <2>1. loc' = [loc EXCEPT ![p].pc = "recAct", ![p].prev = c] /\ UNCHANGED report
    BY <1>9 DEF RecoveryBegin
  <2> HIDE DEF c
  <2>2. loc' = [loc EXCEPT ![p] = l]
    BY <1>5, <2>1 DEF IndInv, TypeOK
  <2>3. /\ l.pc \in InDb /\ l.op = loc[p].op /\ l.alone = loc[p].alone
        /\ l.dbs = loc[p].dbs /\ l.token = loc[p].token /\ l.done = loc[p].done
        /\ l.undo = loc[p].undo /\ l.pending = loc[p].pending
    BY <1>5 DEF Locals, InDb, Recovering
  <2> HIDE DEF l
  <2> QED BY <2>1, <2>2, <2>3, <1>4
<1>10. CASE RecoveryAct(p) /\ ~RecoveryFails(p)
  <2>1. PICK r : loc' = [loc EXCEPT ![p].pc = "recCommit", ![p].prev = r.row] /\ UNCHANGED report
    BY <1>10 DEF RecoveryAct
  <2> DEFINE l == [loc[p] EXCEPT !.pc = "recCommit", !.prev = r.row]
  <2>2. loc' = [loc EXCEPT ![p] = l]
    BY <1>5, <2>1 DEF IndInv, TypeOK
  <2>3. /\ l.pc \in InDb /\ l.op = loc[p].op /\ l.alone = loc[p].alone
        /\ l.dbs = loc[p].dbs /\ l.token = loc[p].token /\ l.done = loc[p].done
        /\ l.undo = loc[p].undo /\ l.pending = loc[p].pending
    BY <1>5 DEF Locals, InDb, Recovering
  <2> HIDE DEF l
  <2> QED BY <2>1, <2>2, <2>3, <1>4
<1>11. CASE RecoveryCommit(p) /\ ~RecoveryFails(p)
  <2>1. PICK b : b = IF loc[p].before = None THEN None
                     ELSE [loc[p].before EXCEPT !.row = row', !.file = path]
    OBVIOUS
  <2> DEFINE l == [loc[p] EXCEPT !.pc = "recClean", !.before = b]
  <2>2. loc' = [loc EXCEPT ![p] = l] /\ UNCHANGED report
    BY <1>5, <1>11, <2>1 DEF RecoveryCommit, IndInv, TypeOK, Locals
  <2>3. /\ l.pc \in InDb /\ l.op = loc[p].op /\ l.alone = loc[p].alone
        /\ l.dbs = loc[p].dbs /\ l.token = loc[p].token /\ l.done = loc[p].done
        /\ l.undo = loc[p].undo /\ l.pending = loc[p].pending
    BY <1>5 DEF Locals, InDb, Recovering
  <2> HIDE DEF l
  <2> QED BY <2>2, <2>3, <1>4
<1>12. CASE RecoveryClean(p) /\ ~RecoveryFails(p)
  BY <1>1, <1>12, GotoInDb DEF RecoveryClean, InDb, Recovering
<1>13. CASE RecoveryDone(p) /\ ~RecoveryFails(p)
  <2> DEFINE l == [loc[p] EXCEPT !.job = None, !.copy = None, !.prev = None, !.pc = "recover"]
  <2>1. loc' = [loc EXCEPT ![p] = l] /\ UNCHANGED report
    BY <1>13 DEF RecoveryDone
  <2>2. /\ l.pc \in InDb /\ l.op = loc[p].op /\ l.alone = loc[p].alone
        /\ l.dbs = loc[p].dbs /\ l.token = loc[p].token /\ l.done = loc[p].done
        /\ l.undo = loc[p].undo /\ l.pending = loc[p].pending
    BY <1>5 DEF Locals, InDb, Recovering
  <2> HIDE DEF l
  <2> QED BY <2>1, <2>2, <1>4
<1> QED BY <1>3, <1>6, <1>7, <1>8, <1>9, <1>10, <1>11, <1>12, <1>13 DEF Recover, RecoveryTimeout

LEMMA MoveOwn ==
  ASSUME IndInv, NEW p \in Procs, Move(p)
  PROVE  MovesOwn(p)
<1> DEFINE Places == {"link", "begin", "journal", "verify", "replace", "commit", "recheck",
                      "restore", "unjournal", "finish", "clear"}
<1>1. UNCHANGED <<backup, given, index>>
  BY DEF Move, Stage, Link, Begin, WriteJournal, Verify, Replace, Commit, Recheck,
         PutBack, Unjournal, Finish, ClearJournal, del_vars, file_vars
<1>2. loc[p].pc \in InDb
  BY DEF Move, Stage, Link, Begin, WriteJournal, Verify, Replace, Commit, Recheck,
         PutBack, Unjournal, Finish, ClearJournal, At, InDb, Attempting, Preparing, Replacing
<1>3. CASE MoveFails(p)
  BY <1>1, <1>2, <1>3, FailsInDb
<1>4. CASE Moved(p)
  BY <1>4, EndsOwn, <1>1 DEF Moved, Reports, MovesOwn
<1>5. ASSUME NEW place \in Places, Goto(p, place), UNCHANGED report PROVE MovesOwn(p)
  BY <1>1, <1>5, GotoInDb DEF InDb, Attempting, Preparing, Replacing
<1>6. CASE Stage(p) /\ ~MoveFails(p)
  <2> DEFINE s == IF path = None THEN None ELSE SignatureOf(path)
             m == ModeOf(loc[p].target)
             c == IF path = None THEN "begin" ELSE "link"
  <2>1. PICK k \in NextMove :
          /\ loc' = [loc EXCEPT ![p] =
                 [@ EXCEPT !.move = k, !.prev = row[Db(p)], !.sig  = s, !.mode = m, !.pc = c]]
          /\ UNCHANGED report
    BY <1>6 DEF Stage
  <2> HIDE DEF s, m
  <2> DEFINE l == [loc[p] EXCEPT !.move = k, !.prev = row[Db(p)], !.sig  = s, !.mode = m, !.pc = c]
  <2>2. /\ l.pc \in InDb /\ l.op = loc[p].op /\ l.alone = loc[p].alone
        /\ l.dbs = loc[p].dbs /\ l.token = loc[p].token /\ l.done = loc[p].done
        /\ l.undo = loc[p].undo /\ l.pending = loc[p].pending
    BY DEF IndInv, TypeOK, Locals, InDb, Attempting, Preparing
  <2>3. loc' = [loc EXCEPT ![p] = l]
    BY <2>1
  <2> HIDE DEF l
  <2> QED BY <1>1, <2>1, <2>2, <2>3, GoesOnInDb
<1>7. Move(p) => \/ Stage(p) \/ MoveFails(p) \/ Moved(p)
                 \/ (\E place \in Places : Goto(p, place)) /\ UNCHANGED report
  BY DEF Move, Link, Begin, WriteJournal, Verify, Replace, Commit, Recheck,
         PutBack, Unjournal, Finish, ClearJournal
<1> QED BY <1>3, <1>4, <1>5, <1>6, <1>7

LEMMA BareLedger ==
  ASSUME NEW p \in Procs, Bare(p)', loc'[p].pc \notin OutsidePCs
  PROVE  Ledger(p)'
<1>1. loc'[p].pc # "delTx" /\ loc'[p].pc \notin Deleting
  BY DEF OutsidePCs
<1> QED BY <1>1 DEF Ledger, Bare, OneEach, Tokens

LEMMA MovesLedger ==
  ASSUME IndInv, UndoInv, NEW p \in Procs, loc[p].pc \notin OutsidePCs, MovesOwn(p)
  PROVE  Ledgers(p) /\ Quietly
<1>1. Bare(p)' /\ loc'[p].pc \notin OutsidePCs /\ OneEach(given)
  BY DEF MovesOwn, UndoInv, Ledger
<1>2. OneEach(given)' /\ \A b \in Saved : backup'[b] = backup[b]
  BY <1>1 DEF MovesOwn, OneEach
<1> QED BY <1>1, <1>2, BareLedger DEF MovesOwn, Ledgers, Quietly

(* Who deletes or undoes goes on or ends. *)
LEMMA GoesOnOutside ==
  ASSUME IndInv, NEW p \in Procs, NEW l, loc' = [loc EXCEPT ![p] = l],
         l.pc \in OutsidePCs, l.op = loc[p].op, l.alone = loc[p].alone
  PROVE  Own(p) /\ loc'[p] = l
<1>1. loc'[p] = l /\ \A q \in Procs \ {p} : loc'[q] = loc[q]
  BY SetsOwn
<1>2. l.pc # "idle"
  BY DEF OutsidePCs, Deleting
<1> QED BY <1>1, <1>2 DEF Own

LEMMA GotoOutside ==
  ASSUME IndInv, NEW p \in Procs, loc[p].pc \in OutsidePCs, NEW place \in OutsidePCs,
         UndoInv, UNCHANGED <<backup, given>>,
         place \in Deleting => loc[p].pc \in Deleting, place # "delTx",
         Goto(p, place)
  PROVE  /\ Ledgers(p)
         /\ loc'[p] = [loc[p] EXCEPT !.pc = place]
         /\ loc'[p].pc = place /\ loc'[p].undo = loc[p].undo /\ loc'[p].alone = loc[p].alone
<1> DEFINE l == [loc[p] EXCEPT !.pc = place]
<1>1. loc[p] \in Locals /\ loc' = [loc EXCEPT ![p] = l] /\ OneEach(given) /\ Ledger(p)
  BY DEF IndInv, TypeOK, Goto, UndoInv
<1>2. /\ l.pc = place /\ l.op = loc[p].op /\ l.alone = loc[p].alone
      /\ l.dbs = loc[p].dbs /\ l.token = loc[p].token /\ l.done = loc[p].done
      /\ l.undo = loc[p].undo
  BY <1>1 DEF Locals
<1> HIDE DEF l
<1>3. Own(p) /\ loc'[p] = l
  BY <1>1, <1>2, GoesOnOutside
<1>4. NextDb(p)' = NextDb(p)
  BY <1>2, <1>3 DEF NextDb
<1>5. Ledger(p)'
  BY <1>1, <1>2, <1>3, <1>4 DEF Ledger, OneEach, Tokens
<1>6. OneEach(given)'
  BY <1>1 DEF OneEach
<1> QED BY <1>2, <1>3, <1>5, <1>6 DEF Ledgers, l

LEMMA CandidateFailsLedger ==
  ASSUME IndInv, UndoInv, NEW p \in Procs, loc[p].pc \in OutsidePCs,
         NEW own \in SUBSET Saved, OneEach(own), CandidateFails(p, own), UNCHANGED backup
  PROVE  Ledgers(p) /\ Quietly /\ loc'[p].pc \in {"idle", "undoCheck"}
<1>1. loc[p] \in Locals /\ OneEach(given) /\ Ledger(p)
  BY DEF IndInv, TypeOK, UndoInv
<1>2. CASE loc[p].done = {}
  <2>1. PICK said \in Reports \ {"undone"} : Ended(p, said) /\ given' = own
    BY <1>2 DEF CandidateFails, Reports
  <2>2. Own(p) /\ loc'[p] = Idle /\ Bare(p)' /\ Quietly
    BY <2>1, EndsOwn DEF Quietly
  <2>3. OneEach(given)'
    BY <2>1 DEF OneEach
  <2> QED BY <2>2, <2>3, BareLedger, IdleBare DEF Ledgers
<1>3. CASE loc[p].done # {}
  <2> DEFINE l == [loc[p] EXCEPT !.undo = loc[p].done, !.token = None, !.pc = "undoCheck"]
  <2>1. loc' = [loc EXCEPT ![p] = l] /\ UNCHANGED <<given, report>>
    BY <1>3 DEF CandidateFails
  <2>2. /\ l.pc = "undoCheck" /\ l.op = loc[p].op /\ l.alone = loc[p].alone
        /\ l.token = None /\ l.done = loc[p].done /\ l.undo = loc[p].done
    BY <1>1 DEF Locals
  <2>3. l.pc \in OutsidePCs /\ l.pc \notin {"delTx"} \cup Deleting
    BY <2>2 DEF OutsidePCs, Deleting
  <2> HIDE DEF l
  <2>4. Own(p) /\ loc'[p] = l
    BY <2>1, <2>2, <2>3, GoesOnOutside
  <2>5. Ledger(p)'
    BY <1>1, <2>2, <2>3, <2>4 DEF Ledger, OneEach, Tokens
  <2>6. OneEach(given)'
    BY <1>1, <2>1 DEF OneEach
  <2> QED BY <2>1, <2>2, <2>4, <2>5, <2>6 DEF Ledgers, Quietly
<1> QED BY <1>2, <1>3

LEMMA AfterUndoLedger ==
  ASSUME IndInv, UndoInv, NEW p \in Procs, loc[p].pc \in OutsidePCs \ ({"delTx"} \cup Deleting),
         NEW ok \in BOOLEAN, AfterUndo(p, ok), UNCHANGED backup
  PROVE  /\ Ledgers(p)
         /\ ok = FALSE => Quietly
         /\ loc'[p].pc \in {"idle", "undoCheck"}
<1>1. loc[p] \in Locals /\ OneEach(given) /\ Ledger(p)
  BY DEF IndInv, TypeOK, UndoInv
<1>2. CASE \E said \in Reports : /\ Ended(p, said) /\ given' \in {given, loc[p].undo}
                                 /\ (said = "undone" => ok)
  <2>1. PICK said \in Reports : /\ Ended(p, said) /\ given' \in {given, loc[p].undo}
                                /\ (said = "undone" => ok)
    BY <1>2
  <2>2. Own(p) /\ loc'[p] = Idle /\ Bare(p)' /\ (ok = FALSE => Quietly)
    BY <2>1, EndsOwn DEF Quietly
  <2>3. OneEach(given)'
    BY <1>1, <2>1 DEF OneEach, Ledger
  <2> QED BY <2>2, <2>3, BareLedger, IdleBare DEF Ledgers
<1>3. CASE /\ UNCHANGED <<given, report>>
           /\ loc' = [loc EXCEPT ![p] =
                [@ EXCEPT !.undo = loc[p].done, !.pending = {}, !.token = None, !.bad = ~ok,
                          !.pc = "undoCheck"]]
  <2>0. PICK b \in BOOLEAN : b = ~ok
    BY Zenon
  <2> DEFINE l == [loc[p] EXCEPT !.undo = loc[p].done, !.pending = {}, !.token = None,
                                 !.bad = b, !.pc = "undoCheck"]
  <2>1. loc' = [loc EXCEPT ![p] = l]
    BY <1>3, <2>0
  <2>2. /\ l.pc = "undoCheck" /\ l.op = loc[p].op /\ l.alone = loc[p].alone
        /\ l.token = None /\ l.done = loc[p].done /\ l.undo = loc[p].done
    BY <1>1 DEF Locals
  <2>3. l.pc \in OutsidePCs /\ l.pc \notin {"delTx"} \cup Deleting
    BY <2>2 DEF OutsidePCs, Deleting
  <2> HIDE DEF l
  <2>4. Own(p) /\ loc'[p] = l
    BY <2>1, <2>2, <2>3, GoesOnOutside
  <2>5. Ledger(p)'
    BY <1>1, <2>2, <2>3, <2>4 DEF Ledger, OneEach, Tokens
  <2>6. OneEach(given)'
    BY <1>1, <1>3 DEF OneEach
  <2> QED BY <1>3, <2>2, <2>4, <2>5, <2>6 DEF Ledgers, Quietly
<1>4. \/ \E said \in Reports : /\ Ended(p, said) /\ given' \in {given, loc[p].undo}
                               /\ (said = "undone" => ok)
      \/ /\ UNCHANGED <<given, report>>
         /\ loc' = [loc EXCEPT ![p] =
              [@ EXCEPT !.undo = loc[p].done, !.pending = {}, !.token = None, !.bad = ~ok,
                        !.pc = "undoCheck"]]
  <2>1. CASE loc[p].op = "undo"
    BY <2>1 DEF AfterUndo, Reports
  <2>2. CASE loc[p].op # "undo" /\ loc[p].token # None /\ loc[p].done # {}
    BY <2>2 DEF AfterUndo
  <2>3. CASE loc[p].op # "undo" /\ ~(loc[p].token # None /\ loc[p].done # {})
    BY <2>3 DEF AfterUndo, Reports
  <2> QED BY <2>1, <2>2, <2>3
<1> QED BY <1>2, <1>3, <1>4

LEMMA BackUpLedger ==
  ASSUME IndInv, UndoInv, NEW p \in Procs, BackUp(p)
  PROVE  Ledgers(p) /\ Quietly /\ loc'[p].pc \in {"idle", "undoCheck", "delVerify"}
<1>1. loc[p].pc = "delTx" /\ loc[p].pc \in OutsidePCs
  BY DEF BackUp, At, OutsidePCs
<1>2. /\ loc[p] \in Locals /\ OneEach(given) /\ Ledger(p) /\ TypeOK
      /\ loc[p].done \subseteq Saved /\ loc[p].undo \subseteq Saved /\ given \subseteq Saved
  BY <1>1, Outside DEF IndInv, UndoInv, Fits
<1>3. CASE CandidateFails(p, {}) /\ UNCHANGED backup
  BY <1>1, <1>3, CandidateFailsLedger DEF OneEach
<1>4. ASSUME NEW d \in NextDb(p), NEW b \in NextBackup,
             backup' = [backup EXCEPT ![b] = BackupOf(d)],
             loc' = [loc EXCEPT ![p] =
                    [@ EXCEPT !.token = b, !.pc = "delVerify", !.bad = FALSE,
                              !.sig = IF path = None THEN None ELSE SignatureOf(path)]],
             UNCHANGED <<given, report>>
      PROVE  Ledgers(p) /\ Quietly /\ loc'[p].pc = "delVerify"
  <2> DEFINE s == IF path = None THEN None ELSE SignatureOf(path)
             l == [loc[p] EXCEPT !.token = b, !.pc = "delVerify", !.bad = FALSE, !.sig = s]
  <2>1. b \in Backups /\ b \notin Saved /\ d \in loc[p].dbs /\ b # None
    BY SessionAssumption DEF NextDb, NextBackup, Saved
  <2>2. /\ l.pc = "delVerify" /\ l.op = loc[p].op /\ l.alone = loc[p].alone /\ l.dbs = loc[p].dbs
        /\ l.token = b /\ l.done = loc[p].done /\ l.undo = loc[p].undo
    BY <1>2 DEF Locals
  <2>3. l.pc \in OutsidePCs /\ l.pc \in Deleting /\ loc' = [loc EXCEPT ![p] = l]
    BY <1>4, <2>2 DEF OutsidePCs, Deleting
  <2> HIDE DEF l
  <2>4. Own(p) /\ loc'[p] = l
    BY <2>2, <2>3, GoesOnOutside
  <2>5. backup'[b].db = d /\ \A c \in Saved : backup'[c] = backup[c]
    BY <1>2, <1>4, <2>1 DEF TypeOK, BackupOf
  <2>6. NextDb(p)' = NextDb(p)
    BY <2>2, <2>4 DEF NextDb
  <2> DEFINE Later(S) == \A a, c \in S : backup'[a].db = backup'[c].db => a = c
  <2>7. Later(given) /\ Later(loc[p].undo) /\ Later(loc[p].done)
    BY <1>2, <2>5 DEF OneEach, Ledger, Tokens
  <2>8. \A c \in loc[p].done : backup'[c].db \notin loc[p].dbs /\ backup'[c].db # d
    BY <1>1, <1>2, <2>1, <2>5 DEF Ledger
  <2>9. Later(loc[p].done \cup {b})
    BY <2>5, <2>7, <2>8
  <2>10. Tokens(p)' = loc[p].done \cup {b}
    BY <2>1, <2>2, <2>4 DEF Tokens
  <2>11. OneEach(Tokens(p))' /\ OneEach(given)' /\ OneEach(loc[p].undo)'
    BY <1>4, <2>2, <2>4, <2>7, <2>9, <2>10 DEF OneEach
  <2>12. Ledger(p)'
    BY <2>2, <2>3, <2>4, <2>5, <2>6, <2>8, <2>11 DEF Ledger
  <2> QED BY <1>4, <2>2, <2>4, <2>5, <2>11, <2>12 DEF Ledgers, Quietly
<1>5. PICK d \in NextDb(p) :
       \/ CandidateFails(p, {}) /\ UNCHANGED backup
       \/ \E b \in NextBackup :
               /\ backup' = [backup EXCEPT ![b] = BackupOf(d)]
               /\ loc' = [loc EXCEPT ![p] =
                    [@ EXCEPT !.token = b, !.pc = "delVerify", !.bad = FALSE,
                              !.sig = IF path = None THEN None ELSE SignatureOf(path)]]
               /\ UNCHANGED <<given, report>>
  BY DEF BackUp
<1> QED BY <1>3, <1>4, <1>5

LEMMA OwnToken ==
  ASSUME IndInv, NEW p \in Procs, loc[p].pc \in Deleting
  PROVE  {loc[p].token} \in SUBSET Saved /\ OneEach({loc[p].token}) /\ loc[p].token # None
<1>1. loc[p].token \in Saved /\ loc[p].token # None
  BY Outside
<1> QED BY <1>1 DEF OneEach

LEMMA VerifyBackupLedger ==
  ASSUME IndInv, UndoInv, NEW p \in Procs, VerifyBackup(p)
  PROVE  Ledgers(p) /\ Quietly /\ loc'[p].pc \in {"idle", "undoCheck", "delCommit"}
<1>1. loc[p].pc \in OutsidePCs /\ loc[p].pc \in Deleting /\ "delCommit" \in OutsidePCs
      /\ UNCHANGED backup
  BY DEF VerifyBackup, At, OutsidePCs, Deleting
<1>2. CASE Goto(p, "delCommit") /\ UNCHANGED <<given, report>>
  BY <1>1, <1>2, GotoOutside DEF Quietly
<1>3. CASE CandidateFails(p, {loc[p].token})
  BY <1>1, <1>3, OwnToken, CandidateFailsLedger
<1> QED BY <1>2, <1>3 DEF VerifyBackup

LEMMA DeleteRowsLedger ==
  ASSUME IndInv, UndoInv, NEW p \in Procs, DeleteRows(p)
  PROVE  Ledgers(p) /\ Quietly /\ loc'[p].pc \in {"idle", "undoCheck", "delFile"}
<1>1. loc[p].pc \in OutsidePCs /\ loc[p].pc \in Deleting /\ "delFile" \in OutsidePCs
      /\ UNCHANGED backup
  BY DEF DeleteRows, At, OutsidePCs, Deleting
<1>2. CASE Goto(p, "delFile") /\ UNCHANGED <<given, report>>
  BY <1>1, <1>2, GotoOutside DEF Quietly
<1>3. CASE CandidateFails(p, {loc[p].token})
  BY <1>1, <1>3, OwnToken, CandidateFailsLedger
<1> QED BY <1>2, <1>3 DEF DeleteRows

LEMMA DeleteFileLedger ==
  ASSUME IndInv, UndoInv, NEW p \in Procs, DeleteFile(p)
  PROVE  Ledgers(p) /\ Quietly /\ loc'[p].pc = "delIndex"
<1>1. /\ loc[p] \in Locals /\ OneEach(given) /\ Ledger(p) /\ loc \in [Procs -> Locals]
      /\ loc[p].pc \in Deleting
  BY DEF IndInv, TypeOK, UndoInv, DeleteFile, At, Deleting
<1>2. UNCHANGED <<backup, given, report>>
  BY DEF DeleteFile, del_vars
<1>3. PICK bad : loc' = [loc EXCEPT ![p].bad = bad, ![p].pc = "delIndex"]
  BY DEF DeleteFile
<1> DEFINE l == [loc[p] EXCEPT !.bad = bad, !.pc = "delIndex"]
<1>4. loc' = [loc EXCEPT ![p] = l]
  BY <1>1, <1>3
<1>5. /\ l.pc = "delIndex" /\ l.op = loc[p].op /\ l.alone = loc[p].alone
      /\ l.dbs = loc[p].dbs /\ l.token = loc[p].token /\ l.done = loc[p].done
      /\ l.undo = loc[p].undo
  BY <1>1 DEF Locals
<1>6. l.pc \in OutsidePCs /\ l.pc \in Deleting
  BY <1>5 DEF OutsidePCs, Deleting
<1> HIDE DEF l
<1>7. Own(p) /\ loc'[p] = l
  BY <1>4, <1>5, <1>6, GoesOnOutside
<1>8. NextDb(p)' = NextDb(p)
  BY <1>5, <1>7 DEF NextDb
<1>9. Ledger(p)' /\ OneEach(given)'
  BY <1>1, <1>2, <1>5, <1>6, <1>7, <1>8 DEF Ledger, OneEach, Tokens
<1> QED BY <1>2, <1>5, <1>7, <1>9 DEF Ledgers, Quietly

LEMMA VerdictLedger ==
  ASSUME IndInv, UndoInv, NEW p \in Procs, loc[p].pc = "delIndex", UNCHANGED backup,
         NEW bad, Verdict(p, bad)
  PROVE  Ledgers(p) /\ Quietly /\ loc'[p].pc \in {"idle", "undoCheck", "delTx"}
<1>1. /\ loc[p] \in Locals /\ OneEach(given) /\ Ledger(p) /\ loc[p].pc \in Deleting
      /\ loc[p].token # None
  BY OwnToken DEF IndInv, TypeOK, UndoInv, Deleting
<1>2. OneEach(loc[p].done \cup {loc[p].token}) /\ OneEach({loc[p].token})
  BY <1>1 DEF Ledger, Tokens, OneEach
<1>3. ASSUME bad
      PROVE  Ledgers(p) /\ Quietly /\ loc'[p].pc = "undoCheck"
  <2> DEFINE l == [loc[p] EXCEPT !.bad = TRUE, !.undo = {loc[p].token}, !.pc = "undoCheck"]
  <2>1. loc' = [loc EXCEPT ![p] = l] /\ UNCHANGED <<given, report>>
    BY <1>3 DEF Verdict
  <2>2. /\ l.pc = "undoCheck" /\ l.op = loc[p].op /\ l.alone = loc[p].alone
        /\ l.token = loc[p].token /\ l.done = loc[p].done /\ l.undo = {loc[p].token}
    BY <1>1 DEF Locals
  <2>3. l.pc \in OutsidePCs /\ l.pc \notin {"delTx"} \cup Deleting
    BY <2>2 DEF OutsidePCs, Deleting
  <2> HIDE DEF l
  <2>4. Own(p) /\ loc'[p] = l
    BY <2>1, <2>2, <2>3, GoesOnOutside
  <2>5. Ledger(p)' /\ OneEach(given)'
    BY <1>1, <1>2, <2>1, <2>2, <2>3, <2>4 DEF Ledger, OneEach, Tokens
  <2> QED BY <2>1, <2>2, <2>4, <2>5 DEF Ledgers, Quietly
<1>4. ASSUME ~bad, loc[p].dbs # NextDb(p)
      PROVE  Ledgers(p) /\ Quietly /\ loc'[p].pc = "delTx"
  <2> DEFINE l == [loc[p] EXCEPT !.dbs = loc[p].dbs \ NextDb(p),
                                 !.done = loc[p].done \cup {loc[p].token},
                                 !.token = None, !.sig = None, !.pc = "delTx"]
  <2>1. loc' = [loc EXCEPT ![p] = l] /\ UNCHANGED <<given, report>>
    BY <1>4 DEF Verdict
  <2>2. /\ l.pc = "delTx" /\ l.op = loc[p].op /\ l.alone = loc[p].alone
        /\ l.dbs = loc[p].dbs \ NextDb(p)
        /\ l.token = None /\ l.done = loc[p].done \cup {loc[p].token} /\ l.undo = loc[p].undo
    BY <1>1 DEF Locals
  <2>3. l.pc \in OutsidePCs /\ l.pc \notin Deleting
    BY <2>2 DEF OutsidePCs, Deleting
  <2> HIDE DEF l
  <2>4. Own(p) /\ loc'[p] = l
    BY <2>1, <2>2, <2>3, GoesOnOutside
  <2>5. \A b \in l.done : backup[b].db \notin l.dbs
    BY <1>1, <2>2 DEF Ledger
  <2>6. Tokens(p)' = l.done
    BY <2>2, <2>4 DEF Tokens
  <2>7. OneEach(Tokens(p))' /\ OneEach(loc[p].undo)' /\ OneEach(given)'
    BY <1>1, <1>2, <2>1, <2>2, <2>4, <2>6 DEF OneEach, Ledger
  <2>8. Ledger(p)'
    BY <2>2, <2>3, <2>4, <2>5, <2>7 DEF Ledger
  <2> QED BY <2>1, <2>2, <2>4, <2>7, <2>8 DEF Ledgers, Quietly
<1>5. ASSUME ~bad, loc[p].dbs = NextDb(p)
      PROVE  Ledgers(p) /\ Quietly /\ loc'[p].pc = "idle"
  BY <1>5, EndsOwn, <1>2, BareLedger, IdleBare DEF Verdict, Reports, Quietly, OneEach, Ledgers
<1> QED BY <1>3, <1>4, <1>5

LEMMA DeleteIndexLedger ==
  ASSUME IndInv, UndoInv, NEW p \in Procs, DeleteIndex(p)
  PROVE  Ledgers(p) /\ Quietly /\ loc'[p].pc \in {"idle", "undoCheck", "delTx"}
<1>1. UNCHANGED backup /\ loc[p].pc = "delIndex"
  BY DEF DeleteIndex, At
<1>2. PICK bad : Verdict(p, bad)
  BY DEF DeleteIndex
<1> QED BY <1>1, <1>2, VerdictLedger

(* A delete gets to an undo only by its first step. *)
LEMMA DeleteLedger ==
  ASSUME IndInv, UndoInv, NEW p \in Procs, Delete(p)
  PROVE  Ledgers(p) /\ Quietly /\ UndoSound(p)'
<1>1. /\ Ledgers(p) /\ Quietly
      /\ loc'[p].pc \in {"idle", "undoCheck", "delVerify", "delCommit", "delFile", "delIndex", "delTx"}
  BY BackUpLedger, VerifyBackupLedger, DeleteRowsLedger, DeleteFileLedger, DeleteIndexLedger
     DEF Delete
<1> QED BY <1>1 DEF UndoSound

LEMMA UndoFailsLedger ==
  ASSUME IndInv, UndoInv, NEW p \in Procs, loc[p].pc \in OutsidePCs \ ({"delTx"} \cup Deleting),
         UndoFails(p), UNCHANGED backup
  PROVE  Ledgers(p) /\ Quietly /\ UndoSound(p)'
<1>1. AfterUndo(p, FALSE)
  BY DEF UndoFails
<1>2. Ledgers(p) /\ Quietly /\ loc'[p].pc \in {"idle", "undoCheck"}
  BY <1>1, AfterUndoLedger
<1> QED BY <1>2 DEF UndoSound

LEMMA UndoingOutside == Undoing = OutsidePCs \ ({"delTx"} \cup Deleting)
BY DEF Undoing, OutsidePCs, Deleting

LEMMA CheckUndoLedger ==
  ASSUME IndInv, UndoInv, NEW p \in Procs, CheckUndo(p)
  PROVE  Ledgers(p) /\ Quietly /\ UndoSound(p)'
<1>1. /\ loc[p] \in Locals /\ OneEach(given) /\ Ledger(p) /\ TypeOK
      /\ loc[p].pc = "undoCheck" /\ loc[p].pc \in Undoing /\ UNCHANGED <<row, backup>>
      /\ loc[p].undo \subseteq Saved
  BY Outside DEF IndInv, TypeOK, UndoInv, CheckUndo, At, Undoing
<1>2. CASE UndoFails(p)
  BY <1>1, <1>2, UndoFailsLedger, UndoingOutside
<1>3. CASE /\ \A b \in loc[p].undo : ~RowConflict(b)
           /\ loc' = [loc EXCEPT
               ![p].pending = {b \in loc[p].undo : row[backup[b].db] = None},
               ![p].pc = "undoBegin"]
           /\ UNCHANGED <<given, report>>
  <2> DEFINE missing == {b \in loc[p].undo : row[backup[b].db] = None}
             l == [loc[p] EXCEPT !.pending = missing, !.pc = "undoBegin"]
  <2>1. loc' = [loc EXCEPT ![p] = l]
    BY <1>1, <1>3 DEF TypeOK
  <2>2. /\ l.pc = "undoBegin" /\ l.op = loc[p].op /\ l.alone = loc[p].alone /\ l.pending = missing
        /\ l.token = loc[p].token /\ l.done = loc[p].done /\ l.undo = loc[p].undo
    BY <1>1 DEF Locals
  <2>3. l.pc \in OutsidePCs /\ l.pc \notin {"delTx"} \cup Deleting
    BY <2>2 DEF OutsidePCs, Deleting
  <2> HIDE DEF l
  <2>4. Own(p) /\ loc'[p] = l
    BY <2>1, <2>2, <2>3, GoesOnOutside
  <2>5. Ledger(p)' /\ OneEach(given)'
    <3>1. UNCHANGED <<backup, given>> /\ OneEach(given) /\ Ledger(p)
      BY <1>1, <1>3
    <3>2. /\ loc'[p].undo = loc[p].undo /\ loc'[p].token = loc[p].token
          /\ loc'[p].done = loc[p].done /\ loc'[p].pc = l.pc
      BY <2>2, <2>4
    <3> QED BY <2>3, <3>1, <3>2 DEF Ledger, OneEach, Tokens
  <2>6. UndoSound(p)'
    BY <1>1, <1>3, <2>2, <2>4 DEF UndoSound, RowConflict
  <2> QED BY <1>1, <1>3, <2>4, <2>5, <2>6 DEF Ledgers, Quietly
<1> QED BY <1>2, <1>3 DEF CheckUndo

LEMMA BeginUndoLedger ==
  ASSUME IndInv, UndoInv, NEW p \in Procs, BeginUndo(p)
  PROVE  Ledgers(p) /\ Quietly /\ UndoSound(p)'
<1>1. /\ loc[p] \in Locals /\ OneEach(given) /\ Ledger(p) /\ TypeOK /\ UndoSound(p)
      /\ loc[p].pc = "undoBegin" /\ loc[p].pc \in Undoing /\ UNCHANGED <<row, backup>>
      /\ loc[p].undo \subseteq Saved
  BY Outside DEF IndInv, TypeOK, UndoInv, BeginUndo, At, Undoing
<1>2. CASE UndoFails(p)
  BY <1>1, <1>2, UndoFailsLedger, UndoingOutside
<1>3. CASE /\ writer' = [d \in Dbs |-> IF \E b \in loc[p].pending : backup[b].db = d
                                      THEN p ELSE writer[d]]
           /\ loc' = [loc EXCEPT ![p].pending = {}, ![p].pc = "undoCommit"]
           /\ UNCHANGED <<given, report>>
  <2> DEFINE l == [loc[p] EXCEPT !.pending = {}, !.pc = "undoCommit"]
  <2>1. loc' = [loc EXCEPT ![p] = l]
    BY <1>1, <1>3 DEF TypeOK
  <2>2. /\ l.pc = "undoCommit" /\ l.op = loc[p].op /\ l.alone = loc[p].alone
        /\ l.token = loc[p].token /\ l.done = loc[p].done /\ l.undo = loc[p].undo
    BY <1>1 DEF Locals
  <2>3. l.pc \in OutsidePCs /\ l.pc \notin {"delTx"} \cup Deleting
    BY <2>2 DEF OutsidePCs, Deleting
  <2> HIDE DEF l
  <2>4. Own(p) /\ loc'[p] = l
    BY <2>1, <2>2, <2>3, GoesOnOutside
  <2>5. Ledger(p)' /\ OneEach(given)'
    <3>1. UNCHANGED <<backup, given>> /\ OneEach(given) /\ Ledger(p)
      BY <1>1, <1>3
    <3>2. /\ loc'[p].undo = loc[p].undo /\ loc'[p].token = loc[p].token
          /\ loc'[p].done = loc[p].done /\ loc'[p].pc = l.pc
      BY <2>2, <2>4
    <3> QED BY <2>3, <3>1, <3>2 DEF Ledger, OneEach, Tokens
  <2>6. ASSUME NEW b \in loc[p].undo, loc[p].alone
        PROVE  \/ row[backup[b].db] = backup[b].cwd
               \/ row[backup[b].db] = None /\ writer'[backup[b].db] = p
    <3>1. backup[b].db \in Dbs
      BY <1>1 DEF TypeOK, Saved, BackupRecords
    <3>2. CASE row[backup[b].db] = None
      BY <1>1, <1>3, <2>6, <3>1, <3>2 DEF UndoSound
    <3> QED BY <1>1, <2>6, <3>2 DEF UndoSound
  <2>7. UndoSound(p)'
    BY <1>1, <2>2, <2>4, <2>6 DEF UndoSound
  <2> QED BY <1>1, <1>3, <2>4, <2>5, <2>7 DEF Ledgers, Quietly
<1> QED BY <1>2, <1>3 DEF BeginUndo

LEMMA CommitUndoLedger ==
  ASSUME IndInv, UndoInv, NEW p \in Procs, CommitUndo(p)
  PROVE  Ledgers(p) /\ Quietly /\ UndoSound(p)'
<1>1. /\ loc[p] \in Locals /\ OneEach(given) /\ Ledger(p) /\ TypeOK /\ UndoSound(p)
      /\ loc[p].pc = "undoCommit" /\ loc[p].pc \in Undoing /\ loc[p].pc \in OutsidePCs
      /\ UNCHANGED backup
      /\ loc[p].undo \subseteq Saved
  BY Outside DEF IndInv, TypeOK, UndoInv, CommitUndo, At, Undoing, OutsidePCs
<1> DEFINE left == {b \in loc[p].undo : writer[backup[b].db] = p}
<1>2. \A b \in loc[p].undo : backup[b].db \in Dbs /\ backup[b].cwd \in Cwds
  BY <1>1 DEF TypeOK, Saved, BackupRecords
<1>3. CASE UndoFails(p)
  BY <1>1, <1>3, UndoFailsLedger, UndoingOutside
<1>4. CASE left = {} /\ Goto(p, "undoFiles") /\ UNCHANGED <<row, given, report>>
  <2>1. "undoFiles" \in OutsidePCs /\ "undoFiles" \notin Deleting
    BY DEF OutsidePCs, Deleting
  <2>2. /\ Ledgers(p) /\ loc'[p].pc = "undoFiles" /\ loc'[p].undo = loc[p].undo
        /\ loc'[p].alone = loc[p].alone
    BY <1>1, <1>4, <2>1, GotoOutside
  <2>3. UndoSound(p)'
    BY <1>1, <1>4, <2>2 DEF UndoSound
  <2> QED BY <1>4, <2>2, <2>3 DEF Quietly
<1>5. ASSUME NEW b \in left, row' = RestoredRow(b),
             writer' = [writer EXCEPT ![backup[b].db] = None],
             UNCHANGED <<loc, given, report>>
      PROVE  Ledgers(p) /\ Quietly /\ UndoSound(p)'
  <2>1. Own(p)
    BY <1>1, <1>5 DEF Own
  <2>2. Ledger(p)' /\ OneEach(given)'
    BY <1>5, <1>1 DEF NextDb, Bare, Ledger, OneEach, Tokens
  <2>3. ASSUME NEW a \in loc[p].undo, loc[p].alone
        PROVE  \/ row'[backup[a].db] = backup[a].cwd
               \/ row'[backup[a].db] = None /\ writer'[backup[a].db] = p
    <3>1. CASE backup[a].db = backup[b].db
      BY <1>1, <3>1, <1>2, <1>5 DEF Ledger, OneEach, RestoredRow, TypeOK
    <3>2. CASE backup[a].db # backup[b].db
      BY <1>1, <1>2, <1>5, <2>3, <3>2 DEF RestoredRow, TypeOK, UndoSound
    <3> QED BY <3>1, <3>2
  <2>4. UndoSound(p)'
    BY <1>1, <1>5, <2>3 DEF UndoSound
  <2> QED BY <1>1, <1>5, <2>1, <2>2, <2>4 DEF Ledgers, Quietly
<1> QED BY <1>1, <1>3, <1>4, <1>5 DEF CommitUndo

LEMMA RestoreFileLedger ==
  ASSUME IndInv, UndoInv, NEW p \in Procs, RestoreFile(p)
  PROVE  Ledgers(p) /\ Quietly /\ UndoSound(p)'
<1>1. /\ loc[p] \in Locals /\ OneEach(given) /\ Ledger(p) /\ TypeOK /\ UndoSound(p)
      /\ loc[p].pc = "undoFiles" /\ loc[p].pc \in Undoing /\ loc[p].pc \in OutsidePCs
      /\ UNCHANGED <<row, backup>>
      /\ loc[p].undo \subseteq Saved
  BY Outside DEF IndInv, TypeOK, UndoInv, RestoreFile, At, Undoing, OutsidePCs
<1> DEFINE kept == {b \in loc[p].undo : backup[b].file # None}
<1>2. CASE UndoFails(p)
  BY <1>1, <1>2, UndoFailsLedger, UndoingOutside
<1>3. CASE /\ Goto(p, "undoIndex") /\ UNCHANGED <<given, report>>
           /\ kept = {} \/ path' # None
  BY <1>1, <1>3, GotoOutside DEF OutsidePCs, Deleting, UndoSound, Quietly
<1>4. ASSUME NEW b \in kept, path' = [backup[b].file EXCEPT !.ino = FreshInode]
      PROVE  path' # None
  BY <1>1, FreshIsFresh, <1>4, SessionAssumption DEF TypeOK, Saved, BackupRecords, File
<1> QED BY <1>2, <1>3, <1>4 DEF RestoreFile

LEMMA RestoreIndexLedger ==
  ASSUME IndInv, UndoInv, NEW p \in Procs, RestoreIndex(p)
  PROVE  /\ Ledgers(p) /\ UndoSound(p)'
         /\ Quietly \/ (\A q \in Procs \ {p} : report'[q] # "undone")
  <1>1. /\ loc[p].pc \in Undoing /\ UNCHANGED backup
    BY DEF RestoreIndex, At, Undoing
  <1>2. CASE UndoFails(p)
    BY <1>1, <1>2, UndoFailsLedger, UndoingOutside
  <1>3. CASE AfterUndo(p, TRUE)
    BY <1>1, <1>3, AfterUndoLedger, UndoingOutside DEF AfterUndo, Ended, Quietly, UndoSound
  <1> QED BY <1>2, <1>3 DEF RestoreIndex

LEMMA UndoLedger ==
  ASSUME IndInv, UndoInv, NEW p \in Procs, Undo(p)
  PROVE  /\ Ledgers(p) /\ UndoSound(p)'
         /\ Quietly \/ (RestoreIndex(p) /\ \A q \in Procs \ {p} : report'[q] # "undone")
BY CheckUndoLedger, BeginUndoLedger, CommitUndoLedger, RestoreFileLedger, RestoreIndexLedger DEF Undo

(* What the others have stays as it was; nobody beside p was alone. *)
LEMMA OthersLedger ==
  ASSUME IndInv, UndoInv, NEW q \in Procs, \A b \in Saved : backup'[b] = backup[b],
         loc'[q] = loc[q] \/ loc'[q] = [loc[q] EXCEPT !.alone = FALSE]
  PROVE  Ledger(q)'
<1>1. /\ loc[q] \in Locals /\ Ledger(q)
      /\ loc[q].done \subseteq Saved /\ loc[q].undo \subseteq Saved
      /\ loc[q].token # None => loc[q].token \in Saved
      /\ loc[q].pc \in Deleting => loc[q].token # None
  BY DEF IndInv, TypeOK, UndoInv, Placed
<1>2. /\ loc'[q].pc = loc[q].pc /\ loc'[q].dbs = loc[q].dbs /\ loc'[q].token = loc[q].token
      /\ loc'[q].done = loc[q].done /\ loc'[q].undo = loc[q].undo
      /\ loc'[q].pending = loc[q].pending
  BY <1>1 DEF Locals
<1>3. NextDb(q)' = NextDb(q) /\ Tokens(q)' = Tokens(q) /\ Bare(q)' = Bare(q)
  BY <1>2 DEF NextDb, Tokens, Bare
<1>4. Tokens(q) \subseteq Saved
  BY <1>1 DEF Tokens
<1>5. OneEach(loc[q].undo)' /\ OneEach(Tokens(q))'
  BY <1>1, <1>2, <1>3, <1>4 DEF Ledger, OneEach
<1>6. /\ loc'[q].pc \in {"delTx"} \cup Deleting => \A b \in loc'[q].done : backup'[b].db \notin loc'[q].dbs
      /\ loc'[q].pc \in Deleting => backup'[loc'[q].token].db \in NextDb(q)'
      /\ loc'[q].pc \notin OutsidePCs => Bare(q)'
  BY <1>1, <1>2, <1>3 DEF Ledger
<1> QED BY <1>5, <1>6 DEF Ledger

LEMMA OwnKeepsUndo ==
  ASSUME IndInv, UndoInv, NEW p \in Procs, loc[p] # Idle, Ledgers(p), UndoSound(p)'
  PROVE  UndoInv'
<1>1. TrulyAlone /\ Idle.alone = FALSE /\ Idle.pc = "idle"
  BY DEF UndoInv, Idle
<1>2. ASSUME NEW q \in Procs, q # p
      PROVE  loc'[q] = loc[q] /\ ~loc[q].alone /\ Ledger(q)' /\ UndoSound(q)'
  BY <1>1, <1>2, OthersLedger DEF Ledgers, Own, TrulyAlone, UndoSound
<1>3. TrulyAlone'
  BY <1>1, <1>2 DEF Ledgers, Own, TrulyAlone
<1> QED BY <1>2, <1>3 DEF UndoInv, Ledgers

LEMMA StartKeepsUndo ==
  ASSUME IndInv, UndoInv, NEW p \in Procs, NEW l \in Locals, Start(p, l),
         l.pc \in {"scan", "delTx", "undoCheck"}, l.pc = "scan" => l.undo = {} /\ l.dbs = {},
         l.token = None, l.done = {}, l.pending = {}, l.undo \in {{}, given},
         UNCHANGED <<backup, given>>
  PROVE  UndoInv' /\ Quietly
<1>1. TrulyAlone /\ Idle.alone = FALSE /\ Idle.pc = "idle" /\ OneEach(given)
  BY DEF UndoInv, Idle
<1> DEFINE a == \A r \in Procs \ {p} : loc[r] = Idle
           m == [l EXCEPT !.alone = a]
<1>2. loc'[p] = m
  BY DEF Start
<1>3. /\ m.pc = l.pc /\ m.dbs = l.dbs /\ m.token = None /\ m.done = {} /\ m.undo = l.undo
      /\ m.pending = {} /\ m.alone = a
  <2> HIDE DEF a
  <2> QED BY DEF Locals
<1>4. ASSUME NEW q \in Procs, q # p
      PROVE  /\ loc'[q] = loc[q] \/ loc'[q] = [loc[q] EXCEPT !.alone = FALSE]
             /\ loc[q] = Idle => loc'[q] = Idle
             /\ loc'[q].alone = FALSE
             /\ loc'[q].pc = "idle" => loc'[q] = Idle
  <2>1. CASE loc[q] = Idle
    BY <1>1, <1>4, <2>1 DEF Start
  <2>2. CASE loc[q] # Idle
    BY <1>4, <2>2, <1>1 DEF Start, IndInv, TypeOK, Locals, TrulyAlone
  <2> QED BY <2>1, <2>2
<1> HIDE DEF m
<1>5. TrulyAlone'
  BY <1>2, <1>3, <1>4 DEF TrulyAlone
<1>6. OneEach(given)' /\ OneEach(l.undo)'
  BY <1>1 DEF OneEach
<1>7. Ledger(p)'
  BY <1>2, <1>3, <1>1 DEF Tokens, OneEach, Deleting, OutsidePCs, Ledger, Bare
<1>8. UndoSound(p)'
  BY <1>2, <1>3 DEF UndoSound
<1>9. ASSUME NEW q \in Procs, q # p
      PROVE  Ledger(q)' /\ UndoSound(q)'
  BY <1>4, <1>9, OthersLedger DEF UndoSound
<1>10. Quietly
  BY DEF Start, Quietly
<1> QED BY <1>5, <1>6, <1>7, <1>8, <1>9, <1>10 DEF UndoInv

LEMMA StartsKeepUndo ==
  ASSUME IndInv, UndoInv, NEW p \in Procs,
         StartList(p) \/ (\E cwd \in Cwds : StartMove(p, cwd)) \/ StartDelete(p) \/ StartUndo(p)
  PROVE  UndoInv' /\ Quietly
<1> USE IdleTyped
<1>1. TypeOK
  BY DEF IndInv
<1>2. CASE StartList(p)
  <2> DEFINE l == [Idle EXCEPT !.pc = "scan", !.op = "list", !.at = 1]
  <2>1. /\ Start(p, l) /\ UNCHANGED <<backup, given>>
        /\ l.pc = "scan" /\ l.undo = {} /\ l.dbs = {} /\ l.token = None /\ l.done = {}
        /\ l.pending = {}
    BY <1>2 DEF StartList, Idle, del_vars
  <2>2. l \in Locals
    <3>1. "scan" \in PCs /\ "list" \in Ops /\ 1 \in 0 .. Len(DbOrder)
      BY SessionAssumption, LenProperties DEF IndInv, PCs, Ops
    <3> QED BY <3>1 DEF Locals
  <2> HIDE DEF l
  <2> QED BY <2>1, <2>2, StartKeepsUndo
<1>3. ASSUME NEW cwd \in Cwds, StartMove(p, cwd)
      PROVE  UndoInv' /\ Quietly
  <2> DEFINE l == [Idle EXCEPT !.pc = "scan", !.op = "move", !.at = 1, !.target = cwd,
                               !.before = Picture]
  <2>1. /\ Start(p, l) /\ UNCHANGED <<backup, given>>
        /\ l.pc = "scan" /\ l.undo = {} /\ l.dbs = {} /\ l.token = None /\ l.done = {}
        /\ l.pending = {}
    BY <1>3 DEF StartMove, Idle, del_vars
  <2>2. l \in Locals
    <3>1. "scan" \in PCs /\ "move" \in Ops /\ 1 \in 0 .. Len(DbOrder)
      BY SessionAssumption, LenProperties DEF IndInv, PCs, Ops
    <3>2. Picture \in Pictures
      BY <1>1, PictureTyped
    <3> QED BY <3>1, <3>2 DEF Locals
  <2> HIDE DEF l
  <2> QED BY <2>1, <2>2, StartKeepsUndo
<1>4. CASE StartDelete(p)
  <2> DEFINE l == [Idle EXCEPT !.pc = "delTx", !.op = "delete", !.before = Picture,
                               !.dbs = Holders]
  <2>1. /\ Start(p, l) /\ UNCHANGED <<backup, given>>
        /\ l.pc = "delTx" /\ l.undo = {} /\ l.token = None /\ l.done = {}
        /\ l.pending = {}
    BY <1>4 DEF StartDelete, Idle, del_vars
  <2>2. l \in Locals
    <3>1. "delTx" \in PCs /\ "delete" \in Ops /\ Holders \in SUBSET Dbs
      BY DEF PCs, Ops, Holders
    <3>2. Picture \in Pictures
      BY <1>1, PictureTyped
    <3> QED BY <3>1, <3>2 DEF Locals
  <2> HIDE DEF l
  <2> QED BY <2>1, <2>2, StartKeepsUndo
<1>5. CASE StartUndo(p)
  <2> DEFINE l == [Idle EXCEPT !.pc = "undoCheck", !.op = "undo", !.undo = given,
                               !.before = Picture]
  <2>1. /\ Start(p, l) /\ UNCHANGED <<backup, given>>
        /\ l.pc = "undoCheck" /\ l.undo = given /\ l.dbs = {} /\ l.token = None /\ l.done = {}
        /\ l.pending = {}
    BY <1>5 DEF StartUndo, Idle, del_vars
  <2>2. l \in Locals
    <3>1. "undoCheck" \in PCs /\ "undo" \in Ops /\ given \in SUBSET Backups
      BY <1>1 DEF PCs, Ops, TypeOK
    <3>2. Picture \in Pictures
      BY <1>1, PictureTyped
    <3> QED BY <3>1, <3>2 DEF Locals
  <2> HIDE DEF l
  <2> QED BY <2>1, <2>2, StartKeepsUndo
<1> QED BY <1>2, <1>3, <1>4, <1>5

(* Every process in a step of its own has begun. *)
LEMMA Begun ==
  ASSUME NEW p \in Procs, Recover(p) \/ Move(p) \/ Delete(p) \/ Undo(p) \/ Crash(p)
  PROVE  /\ loc[p] # Idle
         /\ Recover(p) \/ Move(p) => loc[p].pc \notin OutsidePCs
<1>1. CASE Recover(p)
  <2>1. loc[p].pc \in {"scan", "recover", "recTx", "recAct", "recCommit", "recClean", "recDone"}
    BY <1>1 DEF Recover, Scan, NextJournal, AllRecovered, RecoveryTimeout, RecoveryBegin,
         RecoveryAct, RecoveryCommit, RecoveryClean, RecoveryDone, At
  <2> QED BY <2>1 DEF OutsidePCs, Deleting, Idle
<1>2. CASE Move(p)
  <2>1. loc[p].pc \in {"stage", "link", "begin", "journal", "verify", "replace", "commit",
                       "recheck", "restore", "unjournal", "finish", "clear"}
    BY <1>2 DEF Move, Stage, Link, Begin, WriteJournal, Verify, Replace, Commit, Recheck,
         PutBack, Unjournal, Finish, ClearJournal, At
  <2> QED BY <2>1 DEF OutsidePCs, Deleting, Idle
<1>3. CASE Delete(p) \/ Undo(p)
  <2>1. loc[p].pc \in OutsidePCs
    BY <1>3 DEF Delete, BackUp, VerifyBackup, DeleteRows, DeleteFile, DeleteIndex,
                Undo, CheckUndo, BeginUndo, CommitUndo, RestoreFile, RestoreIndex,
                At, OutsidePCs, Deleting
  <2>2. loc[p].pc # "idle"
    BY <2>1 DEF OutsidePCs, Deleting
  <2>3. (~Recover(p) /\ ~Move(p)) \/ loc[p].pc \notin OutsidePCs
    BY <1>1, <1>2, <2>1
       DEF Recover, Scan, NextJournal, AllRecovered, RecoveryTimeout, RecoveryBegin,
           RecoveryAct, RecoveryCommit, RecoveryClean, RecoveryDone,
           Move, Stage, Link, Begin, WriteJournal, Verify, Replace, Commit, Recheck,
           PutBack, Unjournal, Finish, ClearJournal, At, OutsidePCs, Deleting
  <2> QED BY <1>3, <2>2, <2>3 DEF Idle
<1>4. CASE Crash(p)
  BY <1>4 DEF Recover, Scan, NextJournal, AllRecovered, RecoveryTimeout, RecoveryBegin, RecoveryAct,
    RecoveryCommit, RecoveryClean, RecoveryDone, At, Move, Stage, Link, Begin, WriteJournal, Verify,
    Replace, Commit, Recheck, PutBack, Unjournal, Finish, ClearJournal, Crash, OutsidePCs, Deleting
<1> QED BY <1>1, <1>2, <1>3, <1>4

LEMMA CrashOwn ==
  ASSUME IndInv, UndoInv, NEW p \in Procs, Crash(p)
  PROVE  Ledgers(p) /\ Quietly /\ UndoSound(p)'
<1>1. /\ loc' = [loc EXCEPT ![p] = Idle] /\ UNCHANGED <<backup, given, report>>
      /\ OneEach(given)
  BY DEF Crash, del_vars, UndoInv
<1>2. loc'[p] = Idle /\ \A q \in Procs \ {p} : loc'[q] = loc[q]
  BY <1>1, SetsOwn
<1>3. Ledger(p)'
  BY <1>2, IdleBare, BareLedger
<1>4. UndoSound(p)'
  BY <1>2 DEF UndoSound, Idle
<1> QED BY <1>1, <1>2, <1>3, <1>4 DEF Ledgers, Own, OneEach, Quietly

LEMMA AppendKeepsUndo ==
  ASSUME IndInv, UndoInv, CodexAppends
  PROVE  UndoInv' /\ Quietly
<1>1. UNCHANGED <<row, writer, backup, given, report, loc>> /\ path' # None
  <2>1. path \in File /\ path.len + 1 \in Nat
    BY DEF IndInv, TypeOK, CodexAppends, File
  <2>2. path' = [path EXCEPT !.len = @ + 1]
    BY DEF CodexAppends
  <2>3. path' # None
    <3>1. path.len \in 0 .. MaxEvents /\ path.len + 1 <= MaxEvents
      BY SessionAssumption DEF IndInv, TypeOK, Fits, Short, CodexAppends, File
    <3>2. PICK n \in 0 .. MaxEvents : n = path.len + 1
      BY <3>1, SessionAssumption
    <3>3. [path EXCEPT !.len = n] \in File
      BY <2>1 DEF File
    <3>4. path' \in File
      BY <2>2, <3>2, <3>3
    <3> QED BY <3>4, SessionAssumption
  <2> QED BY <2>3 DEF CodexAppends, db_vars, del_vars
<1>2. TrulyAlone' /\ OneEach(given)'
  BY <1>1 DEF UndoInv, TrulyAlone, OneEach
<1>3. ASSUME NEW q \in Procs PROVE Ledger(q)' /\ UndoSound(q)'
  BY <1>1, OthersLedger DEF UndoInv, UndoSound
<1> QED BY <1>1, <1>2, <1>3 DEF UndoInv, Quietly

LEMMA UndoInvInit == Init => UndoInv
BY DEF Init, UndoInv, TrulyAlone, OneEach, Ledger, UndoSound, Tokens, Bare, Idle, Deleting, OutsidePCs

LEMMA UndoInvNext ==
  ASSUME IndInv, UndoInv, [Next]_vars
  PROVE  /\ UndoInv'
         /\ \/ Quietly
            \/ \E p \in Procs : RestoreIndex(p) /\ \A q \in Procs \ {p} : report'[q] # "undone"
<1>1. CASE UNCHANGED vars
  <2>1. UNCHANGED <<row, writer, path, backup, given, report, loc>>
    BY <1>1 DEF vars
  <2>2. ASSUME NEW q \in Procs PROVE Ledger(q)' /\ UndoSound(q)'
    <3>1. Ledger(q)'
      BY <2>1, OthersLedger
    <3> QED BY <2>1, <3>1 DEF UndoInv, UndoSound
  <2> QED BY <2>1, <2>2 DEF UndoInv, TrulyAlone, OneEach, Quietly
<1>2. CASE CodexAppends
  BY <1>2, AppendKeepsUndo
<1>3. ASSUME NEW p \in Procs,
             StartList(p) \/ (\E cwd \in Cwds : StartMove(p, cwd)) \/ StartDelete(p) \/ StartUndo(p)
      PROVE  UndoInv' /\ Quietly
  BY <1>3, StartsKeepUndo
<1>4. ASSUME NEW p \in Procs, Recover(p) \/ Move(p)
      PROVE  UndoInv' /\ Quietly
  BY <1>4, RecoverOwn, MoveOwn, Begun, MovesLedger, OwnKeepsUndo DEF MovesOwn, UndoSound, OutsidePCs
<1>5. ASSUME NEW p \in Procs, Delete(p) \/ Crash(p)
      PROVE  UndoInv' /\ Quietly
  BY <1>5, DeleteLedger, CrashOwn, Begun, OwnKeepsUndo
<1>6. ASSUME NEW p \in Procs, Undo(p)
      PROVE  /\ UndoInv'
             /\ Quietly \/ (RestoreIndex(p) /\ \A q \in Procs \ {p} : report'[q] # "undone")
  BY <1>6, UndoLedger, Begun, OwnKeepsUndo
<1> QED BY <1>1, <1>2, <1>3, <1>4, <1>5, <1>6 DEF Next

(* A successful undo of the user's is its last step. *)
LEMMA UndoTells ==
  ASSUME IndInv, UndoInv, NEW p \in Procs, RestoreIndex(p), report'[p] = "undone",
         report[p] # "undone", loc[p].alone
  PROVE  \A b \in loc[p].undo :
           /\ row'[backup[b].db] = backup[b].cwd
           /\ backup[b].file # None => CwdOf(path') # None
           /\ backup[b].index => index'
<1>1. ~UndoFails(p)
  BY DEF UndoFails, AfterUndo, Ended
<1>2. /\ UNCHANGED <<row, path>> /\ loc[p].pc = "undoIndex" /\ UndoSound(p) /\ TypeOK
      /\ index' = (index \/ \E b \in loc[p].undo : backup[b].index)
  BY <1>1 DEF RestoreIndex, At, UndoInv, IndInv
<1>3. path # None => CwdOf(path) # None
  BY <1>2, SessionAssumption DEF CwdOf, TypeOK, File
<1> QED BY <1>2, <1>3 DEF UndoSound

(* An undo that nobody interferes with, when it tells its user that it     *)
(* succeeded, has brought back every row its backups hold, the rollout and *)
(* the line of the index: restore_backups checks before it writes, and     *)
(* what it checked is what it finds.                                       *)
THEOREM UndoBringsBack == Spec => UndoRestores
<1>1. Init => IndInv /\ UndoInv
  BY IndInit, UndoInvInit
<1>2. IndInv /\ UndoInv /\ [Next]_vars => (IndInv /\ UndoInv)'
  BY IndNext, UndoInvNext
<1> DEFINE Act == \A p \in Procs :
       At(p, "idle")' /\ report'[p] = "undone" /\ report[p] # "undone" /\ loc[p].alone =>
         \A b \in loc[p].undo :
           /\ row'[backup[b].db] = backup[b].cwd
           /\ backup[b].file # None => CwdOf(path') # None
           /\ backup[b].index => index'
<1>3. IndInv /\ UndoInv /\ [Next]_vars => [Act]_vars
  <2> SUFFICES ASSUME IndInv, UndoInv, [Next]_vars,
                      NEW p \in Procs, report'[p] = "undone", report[p] # "undone", loc[p].alone
               PROVE  \A b \in loc[p].undo :
                        /\ row'[backup[b].db] = backup[b].cwd
                        /\ backup[b].file # None => CwdOf(path') # None
                        /\ backup[b].index => index'
    OBVIOUS
  <2>1. ~Quietly
    BY DEF Quietly
  <2>2. RestoreIndex(p)
    BY <2>1, UndoInvNext
  <2> QED BY <2>2, UndoTells
<1> QED BY <1>1, <1>2, <1>3, PTL DEF Spec, UndoRestores

----
(* What a move tells. *)
LEMMA MoverKnown ==
  ASSUME NEW p \in Procs, Mover(p)
  PROVE  /\ IndInv /\ KeepInv /\ TypeOK /\ Placed(p) /\ loc[p] \in Locals
         /\ loc \in [Procs -> Locals]
         /\ loc[p].at \in 1 .. Len(DbOrder) /\ Len(DbOrder) \in Nat /\ loc[p].at \in Nat
         /\ loc[p].target \in Cwds /\ loc[p].before # None /\ MoveSound(p) /\ Db(p) \in Dbs
         /\ loc[p].pc \in Recovering => loc[p].job \in Moves
         /\ loc[p].pc \in Attempting => loc[p].move \in Moves /\ loc[p].prev \in Cwds
         /\ None \notin File /\ None \notin Cwds /\ None \notin Moves /\ None \notin Journals
<1>1. IndInv /\ KeepInv /\ TypeOK /\ Placed(p) /\ loc[p] \in Locals /\ loc \in [Procs -> Locals]
  BY DEF Mover, IndInv, TypeOK
<1>2. loc[p].pc \in InDb /\ loc[p].op = "move" /\ loc[p].alone /\ MoveSound(p)
  BY DEF Mover
<1>3. loc[p].before # None
  BY <1>2 DEF MoveSound
<1>4. loc[p].at \in 1 .. Len(DbOrder) /\ Len(DbOrder) \in Nat /\ loc[p].target \in Cwds
  BY <1>1, <1>2, SessionAssumption, LenProperties DEF Placed
<1>5. Db(p) \in Dbs
  BY <1>1, <1>2, AtDb
<1>6. /\ loc[p].pc \in Recovering => loc[p].job \in Moves
      /\ loc[p].pc \in Attempting => loc[p].move \in Moves /\ loc[p].prev \in Cwds
  BY <1>1 DEF Placed
<1> QED BY <1>1, <1>2, <1>3, <1>4, <1>5, <1>6, SessionAssumption

(* What is left behind stays it as the move goes on, and so does what it   *)
(* leaves in its own database.                                             *)
LEMMA LeftBehind ==
  ASSUME NEW p \in Procs, Mover(p), NEW j \in [Moves -> Journals \cup {None}]
  PROVE  /\ Behind(j, loc[p].at) => Behind(j, loc[p].at + 1)
         /\ \A k \in Moves : j[k] # None /\ j[k].db = Db(p) => Behind(j, loc[p].at + 1)
         /\ \A k \in Moves : Behind(j, loc[p].at) /\ j[k] # None /\ j[k].db = Db(p)
              => Behind([j EXCEPT ![k] = None], loc[p].at)
         /\ \A k \in Moves, x \in Journals : Behind(j, loc[p].at) /\ j[k] = None
              => Behind([j EXCEPT ![k] = x], loc[p].at)
<1>1. loc[p].at \in 1 .. Len(DbOrder) /\ Len(DbOrder) \in Nat /\ loc[p].at \in Nat
  BY MoverKnown
<1>2. \A i, m \in 1 .. Len(DbOrder) : DbOrder[i] = DbOrder[m] => i = m
  BY SessionAssumption, LenProperties
<1>3. Behind(j, loc[p].at) => Behind(j, loc[p].at + 1)
  BY <1>1 DEF Behind
<1>4. ASSUME NEW k \in Moves, j[k] # None, j[k].db = Db(p)
      PROVE  Behind(j, loc[p].at + 1)
  BY <1>1, <1>2, <1>4 DEF Behind, Db
<1>5. ASSUME NEW k \in Moves, Behind(j, loc[p].at), j[k] # None, j[k].db = Db(p)
      PROVE  Behind([j EXCEPT ![k] = None], loc[p].at)
  <2>1. PICK i \in Moves : j[i] # None /\ \A n \in loc[p].at .. Len(DbOrder) : DbOrder[n] # j[i].db
    BY <1>5 DEF Behind
  <2>2. DbOrder[loc[p].at] # j[i].db
    BY <1>1, <2>1
  <2>3. i # k
    BY <1>5, <2>2 DEF Db
  <2>4. [j EXCEPT ![k] = None][i] = j[i]
    BY <2>3
  <2> QED BY <2>1, <2>4 DEF Behind
<1>6. ASSUME NEW k \in Moves, NEW x \in Journals, Behind(j, loc[p].at), j[k] = None
      PROVE  Behind([j EXCEPT ![k] = x], loc[p].at)
  <2>1. PICK i \in Moves : j[i] # None /\ \A n \in loc[p].at .. Len(DbOrder) : DbOrder[n] # j[i].db
    BY <1>6 DEF Behind
  <2>2. [j EXCEPT ![k] = x][i] = j[i]
    BY <1>6, <2>1
  <2> QED BY <2>1, <2>2 DEF Behind
<1> QED BY <1>3, <1>4, <1>5, <1>6

(* A move fails in this database. *)
LEMMA FailsTrue ==
  ASSUME NEW p \in Procs, Mover(p), NextDatabase(p, "failed"),
         \/ Behind(journal', loc[p].at + 1)
         \/ row' = loc[p].before.row /\ Seen' = CwdOf(loc[p].before.file)
  PROVE  MoveSound(p)' /\ MoveTrue(p)
<1>1. loc \in [Procs -> Locals] /\ loc[p].before # None /\ loc[p].op = "move"
  BY MoverKnown DEF Mover
<1>2. CASE loc[p].at < Len(DbOrder)
  <2> DEFINE l == [Idle EXCEPT !.pc = "scan", !.op = loc[p].op, !.at = loc[p].at + 1,
                         !.target = loc[p].target, !.alone = loc[p].alone,
                         !.before = loc[p].before]
  <2>1. loc' = [loc EXCEPT ![p] = l]
    BY <1>2 DEF NextDatabase
  <2>2. l.pc = "scan" /\ l.at = loc[p].at + 1 /\ l.before = loc[p].before
    BY DEF Idle
  <2> HIDE DEF l
  <2>3. loc'[p] = l
    BY <1>1, <2>1
  <2>4. Known(p)'
    BY <2>2, <2>3 DEF Known, Clean
  <2>5. MoveSound(p)'
    BY <1>1, <2>2, <2>3, <2>4 DEF MoveSound, Recovering, Preparing, Replacing
  <2>6. MoveTrue(p)
    BY <2>2, <2>3 DEF MoveTrue, At
  <2> QED BY <2>5, <2>6
<1>3. CASE ~(loc[p].at < Len(DbOrder))
  BY <1>1, <1>3 DEF NextDatabase, Ended, Behind, MoveSound, MoveTrue, Idle, Seen
<1> QED BY <1>2, <1>3

LEMMA StoppedTrue ==
  ASSUME NEW p \in Procs, Mover(p), RecoveryFails(p) \/ MoveFails(p), UNCHANGED <<row, path, journal>>,
         Known(p)
  PROVE  MoveSound(p)' /\ MoveTrue(p)
<1>1. NextDatabase(p, "failed") /\ journal \in [Moves -> Journals \cup {None}]
  BY MoverKnown DEF RecoveryFails, MoveFails, TypeOK
<1>2. \/ Behind(journal', loc[p].at + 1)
      \/ row' = loc[p].before.row /\ Seen' = CwdOf(loc[p].before.file)
  BY <1>1, LeftBehind DEF Known, Clean, Seen
<1> QED BY <1>1, <1>2, FailsTrue

LEMMA JournaledTrue ==
  ASSUME NEW p \in Procs, Mover(p), RecoveryFails(p) \/ MoveFails(p), UNCHANGED journal,
         NEW k \in Moves, journal[k] # None, journal[k].db = Db(p)
  PROVE  MoveSound(p)' /\ MoveTrue(p)
<1>1. NextDatabase(p, "failed") /\ journal \in [Moves -> Journals \cup {None}]
  BY MoverKnown DEF RecoveryFails, MoveFails, TypeOK
<1>2. Behind(journal', loc[p].at + 1)
  BY <1>1, LeftBehind
<1> QED BY <1>1, <1>2, FailsTrue

(* A process goes on: nothing of it changes but its place. *)
LEMMA PlaceOnly ==
  ASSUME IndInv, NEW p \in Procs, NEW place, Goto(p, place)
  PROVE  /\ loc'[p].pc = place /\ loc'[p].op = loc[p].op /\ loc'[p].at = loc[p].at
         /\ loc'[p].move = loc[p].move /\ loc'[p].target = loc[p].target
         /\ loc'[p].prev = loc[p].prev /\ loc'[p].mode = loc[p].mode /\ loc'[p].sig = loc[p].sig
         /\ loc'[p].todo = loc[p].todo /\ loc'[p].job = loc[p].job /\ loc'[p].copy = loc[p].copy
         /\ loc'[p].dbs = loc[p].dbs /\ loc'[p].token = loc[p].token /\ loc'[p].done = loc[p].done
         /\ loc'[p].undo = loc[p].undo /\ loc'[p].pending = loc[p].pending
         /\ loc'[p].bad = loc[p].bad /\ loc'[p].alone = loc[p].alone
         /\ loc'[p].before = loc[p].before /\ Db(p)' = Db(p)
<1>1. loc[p] \in Locals /\ loc \in [Procs -> Locals]
  BY DEF IndInv, TypeOK
<1>2. loc'[p] = [loc[p] EXCEPT !.pc = place]
  BY <1>1 DEF Goto
<1> QED BY <1>1, <1>2 DEF Locals, Db

----
(* The recovery a move begins with. *)
LEMMA ScanTrue ==
  ASSUME NEW p \in Procs, Mover(p), Scan(p)
  PROVE  MoveSound(p)' /\ MoveTrue(p)
<1>1. /\ loc[p].pc = "scan" /\ UNCHANGED <<row, path, journal, report>>
      /\ loc' = [loc EXCEPT ![p].todo = Pending(Db(p)), ![p].pc = "recover"]
  BY DEF Scan, At, db_vars, file_vars, move_vars
<1>2. Known(p) /\ loc[p].before # None /\ loc[p] \in Locals /\ loc \in [Procs -> Locals]
  BY <1>1, MoverKnown DEF MoveSound, Mover
<1>3. /\ loc'[p].pc = "recover" /\ loc'[p].todo = Pending(Db(p)) /\ loc'[p].at = loc[p].at
      /\ loc'[p].before = loc[p].before /\ Db(p)' = Db(p)
  BY <1>1, <1>2 DEF Locals, Db
<1>4. Known(p)'
  BY <1>1, <1>2, <1>3 DEF Known, Clean, Seen, Behind
<1>5. MoveSound(p)'
  BY <1>1, <1>2, <1>3, <1>4 DEF MoveSound, Pending, Recovering, Preparing, Replacing
<1> QED BY <1>1, <1>5 DEF MoveTrue

LEMMA NextJournalTrue ==
  ASSUME NEW p \in Procs, Mover(p), NextJournal(p)
  PROVE  MoveSound(p)' /\ MoveTrue(p)
<1>1. /\ loc[p].pc = "recover" /\ UNCHANGED <<row, path, journal, report>>
  BY DEF NextJournal, At, db_vars, file_vars, move_vars
<1>2. /\ Known(p) /\ loc[p].before # None /\ loc[p] \in Locals /\ loc \in [Procs -> Locals]
      /\ \A i \in loc[p].todo : journal[i] # None => journal[i].db = Db(p)
  BY <1>1, MoverKnown DEF MoveSound, Mover
<1>3. PICK k \in loc[p].todo :
          loc' = [loc EXCEPT ![p] =
            [@ EXCEPT !.todo = loc[p].todo \ {k}, !.copy = journal[k],
                      !.job = IF journal[k] = None THEN None ELSE k,
                      !.pc = IF journal[k] = None THEN "recover" ELSE "recTx"]]
  BY DEF NextJournal
<1>4. /\ loc'[p].pc = (IF journal[k] = None THEN "recover" ELSE "recTx")
      /\ loc'[p].job = (IF journal[k] = None THEN None ELSE k)
      /\ loc'[p].todo = loc[p].todo \ {k} /\ loc'[p].at = loc[p].at
      /\ loc'[p].before = loc[p].before /\ Db(p)' = Db(p)
  BY <1>2, <1>3 DEF Locals, Db
<1>5. Known(p)'
  BY <1>1, <1>2, <1>4 DEF Known, Clean, Seen, Behind
<1>6. loc'[p].pc \in Recovering => journal[k] # None
  BY <1>4 DEF Recovering
<1>7. MoveSound(p)'
  BY <1>1, <1>2, <1>4, <1>5, <1>6 DEF MoveSound, Preparing, Replacing
<1> QED BY <1>1, <1>7 DEF MoveTrue

LEMMA AllRecoveredTrue ==
  ASSUME NEW p \in Procs, Mover(p), AllRecovered(p)
  PROVE  MoveSound(p)' /\ MoveTrue(p)
<1>1. /\ loc[p].pc = "recover" /\ loc[p].op = "move" /\ UNCHANGED <<row, path, journal, report>>
      /\ Goto(p, "stage")
  BY DEF AllRecovered, At, db_vars, file_vars, move_vars, Mover
<1>2. Known(p) /\ loc[p].before # None /\ IndInv
  BY <1>1, MoverKnown DEF MoveSound, Mover
<1>3. /\ loc'[p].pc = "stage" /\ loc'[p].at = loc[p].at
      /\ loc'[p].before = loc[p].before /\ Db(p)' = Db(p)
  BY <1>1, <1>2, PlaceOnly
<1>4. Known(p)'
  BY <1>1, <1>2, <1>3 DEF Known, Clean, Seen, Behind
<1>5. MoveSound(p)'
  BY <1>2, <1>3, <1>4 DEF MoveSound, Recovering, Preparing, Replacing
<1> QED BY <1>1, <1>5 DEF MoveTrue

LEMMA RecoveryTimeoutTrue ==
  ASSUME NEW p \in Procs, Mover(p), RecoveryTimeout(p)
  PROVE  MoveSound(p)' /\ MoveTrue(p)
<1>1. /\ loc[p].pc \in {"recover", "recTx"} /\ UNCHANGED <<row, path, journal>>
      /\ RecoveryFails(p)
  BY DEF RecoveryTimeout, At, move_vars
<1>2. Known(p)
  BY <1>1 DEF MoveSound, Mover
<1> QED BY <1>1, <1>2, StoppedTrue

LEMMA RecoveryBeginTrue ==
  ASSUME NEW p \in Procs, Mover(p), RecoveryBegin(p)
  PROVE  MoveSound(p)' /\ MoveTrue(p)
<1>1. loc[p].pc = "recTx" /\ UNCHANGED <<row, path, journal>>
  BY DEF RecoveryBegin, At, move_vars
<1>2. /\ Known(p) /\ loc[p].before # None /\ loc[p] \in Locals /\ loc \in [Procs -> Locals]
      /\ \A i \in loc[p].todo : journal[i] # None => journal[i].db = Db(p)
      /\ journal[loc[p].job] # None /\ journal[loc[p].job].db = Db(p)
  BY <1>1, MoverKnown DEF MoveSound, Mover, Recovering
<1>3. CASE RecoveryFails(p)
  BY <1>1, <1>2, <1>3, StoppedTrue
<1>4. CASE ~RecoveryFails(p)
  <2> DEFINE c == IF path = None THEN None ELSE path.cwd
  <2>1. loc' = [loc EXCEPT ![p].pc = "recAct", ![p].prev = c] /\ UNCHANGED report
    BY <1>4 DEF RecoveryBegin
  <2> HIDE DEF c
  <2>2. /\ loc'[p].pc = "recAct" /\ loc'[p].at = loc[p].at /\ loc'[p].todo = loc[p].todo
        /\ loc'[p].job = loc[p].job /\ loc'[p].before = loc[p].before /\ Db(p)' = Db(p)
    BY <1>2, <2>1 DEF Locals, Db
  <2>3. Known(p)'
    BY <1>1, <1>2, <2>2 DEF Known, Clean, Seen, Behind
  <2>4. MoveSound(p)'
    BY <1>1, <1>2, <2>2, <2>3 DEF MoveSound, Recovering, Preparing, Replacing
  <2> QED BY <2>1, <2>4 DEF MoveTrue
<1> QED BY <1>3, <1>4

LEMMA RecoveryActTrue ==
  ASSUME NEW p \in Procs, Mover(p), RecoveryAct(p)
  PROVE  MoveSound(p)' /\ MoveTrue(p)
<1>1. loc[p].pc = "recAct" /\ UNCHANGED <<row, journal>>
  BY DEF RecoveryAct, At
<1>2. /\ loc[p].before # None /\ loc[p] \in Locals /\ loc \in [Procs -> Locals]
      /\ \A i \in loc[p].todo : journal[i] # None => journal[i].db = Db(p)
      /\ journal[loc[p].job] # None /\ journal[loc[p].job].db = Db(p) /\ loc[p].job \in Moves
  BY <1>1, MoverKnown DEF MoveSound, Mover, Recovering
<1>3. CASE RecoveryFails(p)
  BY <1>1, <1>2, <1>3, JournaledTrue
<1>4. CASE ~RecoveryFails(p)
  <2>1. PICK r : loc' = [loc EXCEPT ![p].pc = "recCommit", ![p].prev = r.row] /\ UNCHANGED report
    BY <1>4 DEF RecoveryAct
  <2>2. /\ loc'[p].pc = "recCommit" /\ loc'[p].at = loc[p].at /\ loc'[p].todo = loc[p].todo
        /\ loc'[p].job = loc[p].job /\ loc'[p].before = loc[p].before /\ Db(p)' = Db(p)
    BY <1>2, <2>1 DEF Locals, Db
  <2>3. MoveSound(p)'
    BY <1>1, <1>2, <2>2 DEF MoveSound, Recovering, Preparing, Replacing
  <2> QED BY <2>1, <2>3 DEF MoveTrue
<1> QED BY <1>3, <1>4

LEMMA RecoveryCommitTrue ==
  ASSUME NEW p \in Procs, Mover(p), RecoveryCommit(p)
  PROVE  MoveSound(p)' /\ MoveTrue(p)
<1>1. loc[p].pc = "recCommit" /\ UNCHANGED <<path, journal>>
  BY DEF RecoveryCommit, At, move_vars
<1>2. /\ loc[p].before # None /\ loc[p] \in Locals /\ loc \in [Procs -> Locals] /\ TypeOK
      /\ loc[p].before \in Pictures
      /\ \A i \in loc[p].todo : journal[i] # None => journal[i].db = Db(p)
      /\ journal[loc[p].job] # None /\ journal[loc[p].job].db = Db(p) /\ loc[p].job \in Moves
  BY MoverKnown, <1>1 DEF Locals, MoveSound, Mover, Recovering
<1>3. CASE RecoveryFails(p)
  BY <1>1, <1>2, <1>3, JournaledTrue
<1>4. CASE ~RecoveryFails(p)
  <2> DEFINE b == [loc[p].before EXCEPT !.row = row', !.file = path]
  <2>1. /\ loc' = [loc EXCEPT ![p].pc = "recClean", ![p].before = b] /\ UNCHANGED report
    BY <1>2, <1>4 DEF RecoveryCommit
  <2>2. b.row = row' /\ b.file = path
    BY <1>2 DEF Pictures
  <2>3. b # None
    <3>1. row' \in [Dbs -> Cwds \cup {None}] /\ path \in File \cup {None}
      <4>1. IndInv'
        BY MoverKnown, RecoveryCommitInd
      <4> QED BY <1>2, <4>1 DEF IndInv, TypeOK
    <3>2. b \in Pictures
      BY <1>2, <3>1 DEF Pictures
    <3> QED BY <3>2, SessionAssumption
  <2> HIDE DEF b
  <2>4. /\ loc'[p].pc = "recClean" /\ loc'[p].at = loc[p].at /\ loc'[p].todo = loc[p].todo
        /\ loc'[p].job = loc[p].job /\ loc'[p].before = b /\ Db(p)' = Db(p)
    BY <1>2, <2>1 DEF Locals, Db
  <2>5. Clean(p)'
    BY <1>1, <2>2, <2>4 DEF Clean, Seen
  <2>6. MoveSound(p)'
    BY <1>1, <1>2, <2>3, <2>4, <2>5 DEF MoveSound, Recovering, Preparing, Replacing
  <2> QED BY <2>1, <2>6 DEF MoveTrue
<1> QED BY <1>3, <1>4

LEMMA RecoveryCleanTrue ==
  ASSUME NEW p \in Procs, Mover(p), RecoveryClean(p)
  PROVE  MoveSound(p)' /\ MoveTrue(p)
<1>1. loc[p].pc = "recClean" /\ UNCHANGED <<row, path, journal>>
  BY DEF RecoveryClean, At
<1>2. /\ Clean(p) /\ loc[p].before # None /\ IndInv
      /\ \A i \in loc[p].todo : journal[i] # None => journal[i].db = Db(p)
      /\ journal[loc[p].job] # None /\ journal[loc[p].job].db = Db(p)
  BY <1>1, MoverKnown DEF MoveSound, Mover, Recovering
<1>3. CASE RecoveryFails(p)
  BY <1>1, <1>2, <1>3, StoppedTrue DEF Known
<1>4. CASE Goto(p, "recDone") /\ UNCHANGED report
  BY <1>2, <1>4, PlaceOnly, <1>1 DEF Clean, Seen, MoveSound, Recovering, Preparing, Replacing, MoveTrue
<1> QED BY <1>3, <1>4 DEF RecoveryClean

LEMMA RecoveryDoneTrue ==
  ASSUME NEW p \in Procs, Mover(p), RecoveryDone(p)
  PROVE  MoveSound(p)' /\ MoveTrue(p)
<1>1. loc[p].pc = "recDone" /\ UNCHANGED <<row, path>>
  BY DEF RecoveryDone, At
<1>2. /\ Clean(p) /\ loc[p].before # None /\ loc[p] \in Locals /\ loc \in [Procs -> Locals] /\ TypeOK
      /\ \A i \in loc[p].todo : journal[i] # None => journal[i].db = Db(p)
  BY <1>1, MoverKnown DEF MoveSound, Mover, Recovering
<1>3. CASE RecoveryFails(p) /\ UNCHANGED journal
  BY <1>1, <1>2, <1>3, StoppedTrue DEF Known
<1>4. CASE /\ journal' = [journal EXCEPT ![loc[p].job] = None] /\ UNCHANGED report
           /\ loc' = [loc EXCEPT ![p] =
             [@ EXCEPT !.job = None, !.copy = None, !.prev = None, !.pc = "recover"]]
  <2>1. /\ loc'[p].pc = "recover" /\ loc'[p].at = loc[p].at /\ loc'[p].todo = loc[p].todo
        /\ loc'[p].before = loc[p].before /\ Db(p)' = Db(p)
    BY <1>2, <1>4 DEF Locals, Db
  <2>2. Known(p)'
    BY <1>1, <1>2, <2>1 DEF Known, Clean, Seen
  <2>3. \A i \in loc[p].todo : journal'[i] # None => journal'[i].db = Db(p)
    BY <1>2, <1>4 DEF Locals, TypeOK
  <2>4. MoveSound(p)'
    BY <1>2, <2>1, <2>2, <2>3 DEF MoveSound, Recovering, Preparing, Replacing
  <2> QED BY <1>4, <2>4 DEF MoveTrue
<1> QED BY <1>3, <1>4 DEF RecoveryDone

LEMMA RecoverTrue ==
  ASSUME NEW p \in Procs, Mover(p), Recover(p)
  PROVE  MoveSound(p)' /\ MoveTrue(p)
BY ScanTrue, NextJournalTrue, AllRecoveredTrue, RecoveryTimeoutTrue, RecoveryBeginTrue,
   RecoveryActTrue, RecoveryCommitTrue, RecoveryCleanTrue, RecoveryDoneTrue DEF Recover

----
(* The move itself. *)
LEMMA MoverTells ==
  ASSUME NEW p \in Procs, NEW place, Mover(p), Goto(p, place), UNCHANGED report
  PROVE  /\ MoveTrue(p)
         /\ loc'[p].pc = place /\ loc'[p].at = loc[p].at /\ loc'[p].move = loc[p].move
         /\ loc'[p].target = loc[p].target /\ loc'[p].mode = loc[p].mode
         /\ loc'[p].before = loc[p].before /\ Db(p)' = Db(p)
<1>1. IndInv
  BY MoverKnown
<1> QED BY <1>1, PlaceOnly DEF MoveTrue

LEMMA StageTrue ==
  ASSUME NEW p \in Procs, Mover(p), Stage(p)
  PROVE  MoveSound(p)' /\ MoveTrue(p)
<1>1. loc[p].pc = "stage" /\ UNCHANGED <<row, path, rollback, journal>>
  BY DEF Stage, At
<1>2. /\ Known(p) /\ loc[p].before # None /\ loc[p] \in Locals /\ loc \in [Procs -> Locals]
      /\ TypeOK /\ KeepInv /\ loc[p].target \in Cwds /\ None \notin File
  BY <1>1, MoverKnown DEF MoveSound, Mover
<1>3. CASE MoveFails(p)
  BY <1>1, <1>2, <1>3, StoppedTrue
<1>4. CASE ~MoveFails(p)
  <2> DEFINE s == IF path = None THEN None ELSE SignatureOf(path)
             m == ModeOf(loc[p].target)
             c == IF path = None THEN "begin" ELSE "link"
  <2>1. PICK k \in NextMove :
          /\ staged' = IF path = None THEN staged
                       ELSE [staged EXCEPT ![k] = Rewritten(loc[p].target)]
          /\ loc' = [loc EXCEPT ![p] =
                 [@ EXCEPT !.move = k, !.prev = row[Db(p)], !.sig  = s, !.mode = m, !.pc = c]]
          /\ UNCHANGED report
    BY <1>4 DEF Stage
  <2>2. k \in Moves /\ journal[k] = None
    BY <1>2 DEF NextMove, KeepInv, UnusedIsFresh, Fresh
  <2> HIDE DEF s, m, c
  <2>3. /\ loc'[p].pc = c /\ loc'[p].at = loc[p].at /\ loc'[p].move = k
        /\ loc'[p].target = loc[p].target /\ loc'[p].mode = m /\ loc'[p].before = loc[p].before
        /\ Db(p)' = Db(p)
    BY <1>2, <2>1 DEF Locals, Db
  <2>4. Known(p)'
    BY <1>1, <1>2, <2>3 DEF Known, Clean, Seen, Behind
  <2>5. /\ m \in {"missing", "current", "staged"}
        /\ m = "missing" <=> path = None
        /\ m = "current" => Seen = loc[p].target
    BY <1>2 DEF m, ModeOf, Seen, CwdOf
  <2>6. m = "staged" => Copy(k)' = loc[p].target
    BY <1>2, FreshIsFresh, <2>1, <2>2, <2>5 DEF Rewritten, File, TypeOK, Copy, CwdOf
  <2>7. c = (IF m = "missing" THEN "begin" ELSE "link")
    BY <2>5 DEF c
  <2>8. Seen' = Seen
    BY <1>1 DEF Seen
  <2>9. MoveSound(p)'
    BY <1>1, <1>2, <2>2, <2>3, <2>4, <2>5, <2>6, <2>7, <2>8
       DEF MoveSound, Recovering, Preparing, Replacing
  <2> QED BY <2>1, <2>9 DEF MoveTrue
<1> QED BY <1>3, <1>4

LEMMA LinkTrue ==
  ASSUME NEW p \in Procs, Mover(p), Link(p)
  PROVE  MoveSound(p)' /\ MoveTrue(p)
<1> PICK k : k = loc[p].move
  OBVIOUS
<1>1. loc[p].pc = "link" /\ UNCHANGED <<row, path, journal>>
  BY DEF Link, At
<1>2. /\ Known(p) /\ loc[p].before # None /\ TypeOK /\ k \in Moves /\ journal[k] = None
      /\ loc[p].mode \in {"missing", "current", "staged"}
      /\ loc[p].mode = "missing" => path = None
      /\ loc[p].mode = "current" => Seen = loc[p].target
      /\ loc[p].mode = "staged" => Copy(k) = loc[p].target
      /\ None \notin File
  BY <1>1, MoverKnown DEF MoveSound, Mover, Preparing, Attempting
<1>3. CASE MoveFails(p)
  BY <1>1, <1>2, <1>3, StoppedTrue
<1>4. CASE ~MoveFails(p)
  <2>1. /\ Goto(p, "begin") /\ UNCHANGED <<staged, report>> /\ path # None
        /\ \/ loc[p].mode = "current" /\ UNCHANGED rollback
           \/ /\ loc[p].mode = "staged"
              /\ \E ino \in {path.ino, FreshInode} :
                   rollback' = [rollback EXCEPT ![k] = [path EXCEPT !.ino = ino]]
    BY <1>4 DEF Link, Unchanged
  <2>2. /\ MoveTrue(p)
        /\ loc'[p].pc = "begin" /\ loc'[p].at = loc[p].at /\ loc'[p].move = k
        /\ loc'[p].target = loc[p].target /\ loc'[p].mode = loc[p].mode
        /\ loc'[p].before = loc[p].before /\ Db(p)' = Db(p)
    BY <2>1, MoverTells
  <2>3. loc[p].mode = "staged" => Original(k)' = Seen
    <3> SUFFICES ASSUME loc[p].mode = "staged" PROVE Original(k)' = Seen
      OBVIOUS
    <3>1. PICK ino \in {path.ino, FreshInode} :
            rollback' = [rollback EXCEPT ![k] = [path EXCEPT !.ino = ino]]
      BY <2>1
    <3>2. path \in File /\ ino \in Inodes
      BY <1>2, <2>1, FreshIsFresh DEF File, TypeOK
    <3>3. [path EXCEPT !.ino = ino] \in File /\ [path EXCEPT !.ino = ino].cwd = path.cwd
      BY <3>2 DEF File
    <3> QED BY <1>2, <2>1, <3>1, <3>3 DEF TypeOK, Original, Seen, CwdOf
  <2>4. Known(p)'
    BY <1>1, <1>2, <2>2 DEF Known, Clean, Seen, Behind
  <2>5. Seen' = Seen /\ Copy(k)' = Copy(k)
    BY <1>1, <2>1 DEF Seen, Copy
  <2>6. MoveSound(p)'
    BY <1>1, <1>2, <2>2, <2>3, <2>4, <2>5 DEF MoveSound, Recovering, Preparing, Replacing
  <2> QED BY <2>2, <2>6
<1> QED BY <1>3, <1>4

LEMMA BeginTrue ==
  ASSUME NEW p \in Procs, Mover(p), Begin(p)
  PROVE  MoveSound(p)' /\ MoveTrue(p)
<1> PICK k : k = loc[p].move
  OBVIOUS
<1>1. loc[p].pc = "begin" /\ UNCHANGED <<row, path, journal>>
  BY DEF Begin, At
<1>2. /\ Known(p) /\ loc[p].before # None /\ k \in Moves /\ journal[k] = None
      /\ loc[p].mode \in {"missing", "current", "staged"}
      /\ loc[p].mode = "missing" => path = None
      /\ loc[p].mode = "current" => Seen = loc[p].target
      /\ loc[p].mode = "staged" => Copy(k) = loc[p].target /\ Original(k) = Seen
  BY <1>1, MoverKnown DEF MoveSound, Mover, Preparing, Attempting
<1>3. CASE MoveFails(p)
  BY <1>1, <1>2, <1>3, StoppedTrue
<1>4. CASE ~MoveFails(p)
  <2>1. PICK place \in {"journal", "commit"} :
          /\ Goto(p, place) /\ UNCHANGED <<staged, rollback, report>>
          /\ place = "commit" => loc[p].mode # "staged"
    BY <1>4 DEF Begin
  <2>2. /\ MoveTrue(p)
        /\ loc'[p].pc = place /\ loc'[p].at = loc[p].at /\ loc'[p].move = k
        /\ loc'[p].target = loc[p].target /\ loc'[p].mode = loc[p].mode
        /\ loc'[p].before = loc[p].before /\ Db(p)' = Db(p)
    BY <2>1, MoverTells
  <2>3. Known(p)'
    BY <1>1, <1>2, <2>2 DEF Known, Clean, Seen, Behind
  <2>4. Seen' = Seen /\ Copy(k)' = Copy(k) /\ Original(k)' = Original(k)
    BY <1>1, <2>1 DEF Seen, Copy, Original
  <2>5. MoveSound(p)'
    BY <1>1, <1>2, <2>1, <2>2, <2>3, <2>4 DEF MoveSound, Recovering, Preparing, Replacing
  <2> QED BY <2>2, <2>5
<1> QED BY <1>3, <1>4

LEMMA WriteJournalTrue ==
  ASSUME NEW p \in Procs, Mover(p), WriteJournal(p)
  PROVE  MoveSound(p)' /\ MoveTrue(p)
<1> PICK k : k = loc[p].move
  OBVIOUS
<1>1. loc[p].pc = "journal" /\ UNCHANGED <<row, path>>
  BY DEF WriteJournal, At
<1>2. /\ Known(p) /\ loc[p].before # None /\ TypeOK /\ k \in Moves /\ journal[k] = None
      /\ loc[p].mode \in {"missing", "current", "staged"}
      /\ loc[p].mode = "missing" => path = None
      /\ loc[p].mode = "current" => Seen = loc[p].target
      /\ loc[p].mode = "staged" => Copy(k) = loc[p].target /\ Original(k) = Seen
      /\ loc[p].prev \in Cwds /\ loc[p].target \in Cwds /\ Db(p) \in Dbs /\ None \notin Journals
  BY <1>1, MoverKnown DEF MoveSound, Mover, Preparing, Attempting
<1>3. CASE MoveFails(p) /\ UNCHANGED journal
  BY <1>1, <1>2, <1>3, StoppedTrue
<1>4. CASE /\ journal' = [journal EXCEPT ![k] = JournalOf(p)]
           /\ Goto(p, IF loc[p].mode = "staged" THEN "verify" ELSE "commit")
           /\ UNCHANGED <<staged, rollback, report>>
  <2>1. PICK place : place = IF loc[p].mode = "staged" THEN "verify" ELSE "commit"
    OBVIOUS
  <2>2. /\ MoveTrue(p)
        /\ loc'[p].pc = place /\ loc'[p].at = loc[p].at /\ loc'[p].move = k
        /\ loc'[p].target = loc[p].target /\ loc'[p].mode = loc[p].mode
        /\ loc'[p].before = loc[p].before /\ Db(p)' = Db(p)
    BY <1>4, <2>1, MoverTells
  <2>3. JournalOf(p) \in Journals /\ JournalOf(p).db = Db(p)
    BY <1>2 DEF JournalOf, Journals
  <2>4. journal'[k] # None /\ journal'[k].db = Db(p)
    BY <1>2, <1>4, <2>3 DEF TypeOK
  <2>5. Behind(journal, loc[p].at) => Behind(journal', loc[p].at)
    BY <1>2, <1>4, <2>3, LeftBehind DEF TypeOK
  <2>6. Known(p)'
    BY <1>1, <1>2, <2>2, <2>5 DEF Known, Clean, Seen
  <2>7. Seen' = Seen /\ Copy(k)' = Copy(k) /\ Original(k)' = Original(k)
    BY <1>1, <1>4 DEF Seen, Copy, Original
  <2>8. MoveSound(p)'
    BY <1>1, <1>2, <2>1, <2>2, <2>4, <2>6, <2>7 DEF MoveSound, Recovering, Preparing, Replacing
  <2> QED BY <2>2, <2>8
<1> QED BY <1>3, <1>4 DEF WriteJournal

LEMMA VerifyTrue ==
  ASSUME NEW p \in Procs, Mover(p), Verify(p)
  PROVE  MoveSound(p)' /\ MoveTrue(p)
<1> PICK k : k = loc[p].move
  OBVIOUS
<1>1. loc[p].pc = "verify" /\ UNCHANGED <<row, path, journal, staged, rollback>>
  BY DEF Verify, At
<1>2. /\ Known(p) /\ loc[p].before # None /\ journal[k] # None /\ journal[k].db = Db(p)
      /\ loc[p].mode = "staged" /\ Copy(k) = loc[p].target /\ Original(k) = Seen
  BY <1>1, MoverKnown DEF MoveSound, Mover, Replacing
<1>3. CASE MoveFails(p)
  BY <1>1, <1>2, <1>3, StoppedTrue
<1>4. CASE Goto(p, "replace") /\ UNCHANGED report
  <2>1. /\ MoveTrue(p)
        /\ loc'[p].pc = "replace" /\ loc'[p].at = loc[p].at /\ loc'[p].move = k
        /\ loc'[p].target = loc[p].target /\ loc'[p].mode = loc[p].mode
        /\ loc'[p].before = loc[p].before /\ Db(p)' = Db(p)
    BY <1>4, MoverTells
  <2>2. Known(p)'
    BY <1>1, <1>2, <2>1 DEF Known, Clean, Seen, Behind
  <2>3. Seen' = Seen /\ Copy(k)' = Copy(k) /\ Original(k)' = Original(k)
    BY <1>1 DEF Seen, Copy, Original
  <2>4. MoveSound(p)'
    BY <1>1, <1>2, <2>1, <2>2, <2>3 DEF MoveSound, Recovering, Preparing, Replacing
  <2> QED BY <2>1, <2>4
<1> QED BY <1>3, <1>4 DEF Verify

LEMMA ReplaceTrue ==
  ASSUME NEW p \in Procs, Mover(p), Replace(p)
  PROVE  MoveSound(p)' /\ MoveTrue(p)
<1> PICK k : k = loc[p].move
  OBVIOUS
<1>1. loc[p].pc = "replace" /\ UNCHANGED <<row, journal, rollback>>
  BY DEF Replace, At
<1>2. /\ Known(p) /\ loc[p].before # None /\ journal[k] # None /\ journal[k].db = Db(p)
      /\ loc[p].mode = "staged" /\ Copy(k) = loc[p].target /\ Original(k) = Seen
  BY <1>1, MoverKnown DEF MoveSound, Mover, Replacing
<1>3. CASE MoveFails(p) /\ UNCHANGED path
  BY <1>1, <1>2, <1>3, StoppedTrue
<1>4. CASE path' = staged[k] /\ Goto(p, "commit") /\ UNCHANGED report
  <2>1. /\ MoveTrue(p)
        /\ loc'[p].pc = "commit" /\ loc'[p].at = loc[p].at /\ loc'[p].move = k
        /\ loc'[p].target = loc[p].target /\ loc'[p].mode = loc[p].mode
        /\ loc'[p].before = loc[p].before /\ Db(p)' = Db(p)
    BY <1>4, MoverTells
  <2>2. Seen' = loc[p].target /\ Original(k)' = Original(k)
    BY <1>1, <1>2, <1>4 DEF Seen, Copy, Original
  <2>3. \/ Behind(journal', loc[p].at)
        \/ row' = loc[p].before.row /\ Original(k)' = CwdOf(loc[p].before.file)
    BY <1>1, <1>2, <2>2 DEF Known, Clean
  <2>4. MoveSound(p)'
    BY <1>1, <1>2, <2>1, <2>2, <2>3 DEF MoveSound, Recovering, Preparing, Replacing
  <2> QED BY <2>1, <2>4
<1> QED BY <1>3, <1>4 DEF Replace

LEMMA CommitTrue ==
  ASSUME NEW p \in Procs, Mover(p), Commit(p)
  PROVE  MoveSound(p)' /\ MoveTrue(p)
<1> PICK k : k = loc[p].move
  OBVIOUS
<1>1. loc[p].pc = "commit" /\ UNCHANGED <<path, journal>>
  BY DEF Commit, At
<1>2. /\ loc[p].before # None /\ TypeOK /\ Db(p) \in Dbs
      /\ loc[p].mode \in {"missing", "current", "staged"}
      /\ loc[p].mode = "missing" => path = None
      /\ loc[p].mode \in {"current", "staged"} => Seen = loc[p].target
      /\ loc[p].mode # "staged" => Known(p)
      /\ loc[p].mode = "staged" =>
           /\ journal[k] # None /\ journal[k].db = Db(p)
           /\ \/ Behind(journal, loc[p].at)
              \/ row = loc[p].before.row /\ Original(k) = CwdOf(loc[p].before.file)
  BY MoverKnown, <1>1 DEF Mover, MoveSound
<1>3. CASE row' = [row EXCEPT ![Db(p)] = loc[p].target] /\ Goto(p, "finish") /\ UNCHANGED report
  <2>1. /\ MoveTrue(p)
        /\ loc'[p].pc = "finish" /\ loc'[p].at = loc[p].at /\ loc'[p].move = k
        /\ loc'[p].target = loc[p].target /\ loc'[p].mode = loc[p].mode
        /\ loc'[p].before = loc[p].before /\ Db(p)' = Db(p)
    BY <1>3, MoverTells
  <2>2. row'[Db(p)] = loc[p].target
    BY <1>2, <1>3 DEF TypeOK
  <2>3. Seen' \in {None, loc[p].target}
    BY <1>1, <1>2 DEF Seen, CwdOf
  <2>4. MoveSound(p)'
    BY <1>2, <2>1, <2>2, <2>3 DEF MoveSound, Recovering, Preparing, Replacing
  <2> QED BY <2>1, <2>4
<1>4. CASE /\ loc[p].mode = "staged" /\ Goto(p, "recheck")
           /\ UNCHANGED <<row, rollback, report>>
  BY <1>4, MoverTells, <1>1, <1>2 DEF Original, MoveSound, Recovering, Preparing, Replacing
<1>5. CASE loc[p].mode # "staged" /\ MoveFails(p) /\ UNCHANGED row
  BY <1>1, <1>2, <1>5, StoppedTrue
<1> QED BY <1>3, <1>4, <1>5 DEF Commit

LEMMA RecheckTrue ==
  ASSUME NEW p \in Procs, Mover(p), Recheck(p)
  PROVE  MoveSound(p)' /\ MoveTrue(p)
<1> PICK k : k = loc[p].move
  OBVIOUS
<1>1. loc[p].pc = "recheck" /\ UNCHANGED <<row, path, journal, rollback>>
  BY DEF Recheck, At
<1>2. /\ loc[p].before # None /\ k \in Moves /\ loc[p].mode = "staged"
      /\ journal[k] # None /\ journal[k].db = Db(p)
      /\ \/ Behind(journal, loc[p].at)
         \/ row = loc[p].before.row /\ Original(k) = CwdOf(loc[p].before.file)
  BY <1>1, MoverKnown DEF Mover, Attempting, MoveSound
<1>3. CASE MoveFails(p)
  BY <1>1, <1>2, <1>3, JournaledTrue
<1>4. CASE Goto(p, "restore") /\ UNCHANGED report
  BY <1>4, MoverTells, <1>1, <1>2 DEF Original, MoveSound, Recovering, Preparing, Replacing
<1> QED BY <1>3, <1>4 DEF Recheck

LEMMA PutBackTrue ==
  ASSUME NEW p \in Procs, Mover(p), PutBack(p)
  PROVE  MoveSound(p)' /\ MoveTrue(p)
<1> PICK k : k = loc[p].move
  OBVIOUS
<1>1. loc[p].pc = "restore" /\ UNCHANGED <<row, journal>>
  BY DEF PutBack, At
<1>2. /\ loc[p].before # None /\ k \in Moves /\ loc[p].mode = "staged"
      /\ journal[k] # None /\ journal[k].db = Db(p)
      /\ \/ Behind(journal, loc[p].at)
         \/ row = loc[p].before.row /\ Original(k) = CwdOf(loc[p].before.file)
  BY <1>1, MoverKnown DEF Mover, Attempting, MoveSound
<1>3. CASE MoveFails(p)
  BY <1>1, <1>2, <1>3, JournaledTrue
<1>4. CASE path' = rollback[k] /\ Goto(p, "unjournal") /\ UNCHANGED report
  <2>1. /\ MoveTrue(p)
        /\ loc'[p].pc = "unjournal" /\ loc'[p].at = loc[p].at /\ loc'[p].move = k
        /\ loc'[p].target = loc[p].target /\ loc'[p].mode = loc[p].mode
        /\ loc'[p].before = loc[p].before /\ Db(p)' = Db(p)
    BY <1>4, MoverTells
  <2>2. Seen' = Original(k)
    BY <1>4 DEF Seen, Original
  <2>3. Known(p)'
    BY <1>1, <1>2, <2>1, <2>2 DEF Known, Clean
  <2>4. MoveSound(p)'
    BY <1>1, <1>2, <2>1, <2>3 DEF MoveSound, Recovering, Preparing, Replacing
  <2> QED BY <2>1, <2>4
<1> QED BY <1>3, <1>4 DEF PutBack

LEMMA UnjournalTrue ==
  ASSUME NEW p \in Procs, Mover(p), Unjournal(p)
  PROVE  MoveSound(p)' /\ MoveTrue(p)
<1> PICK k : k = loc[p].move
  OBVIOUS
<1>1. loc[p].pc = "unjournal" /\ UNCHANGED <<row, path>> /\ MoveFails(p)
  BY DEF Unjournal, At
<1>2. /\ Known(p) /\ loc[p].before # None /\ k \in Moves /\ loc[p].mode = "staged" /\ TypeOK
      /\ journal[k] # None /\ journal[k].db = Db(p)
  BY <1>1, MoverKnown DEF MoveSound, Mover, Attempting
<1>3. CASE UNCHANGED journal
  BY <1>1, <1>2, <1>3, StoppedTrue
<1>4. CASE journal' = [journal EXCEPT ![k] = None]
  BY <1>2, <1>4, LeftBehind, <1>1, FailsTrue DEF TypeOK, Known, Clean, Seen, MoveFails
<1> QED BY <1>3, <1>4 DEF Unjournal

LEMMA MovedTrue ==
  ASSUME NEW p \in Procs, Mover(p), loc[p].pc \in {"finish", "clear"}, Moved(p)
  PROVE  MoveSound(p)' /\ MoveTrue(p)
<1>1. /\ loc' = [loc EXCEPT ![p] = Idle] /\ report'[p] = "moved" /\ loc \in [Procs -> Locals]
  BY MoverKnown DEF Moved, Ended
<1>2. row[Db(p)] = loc[p].target /\ Seen \in {None, loc[p].target}
  BY DEF Mover, MoveSound
<1> QED BY <1>1, <1>2 DEF MoveSound, MoveTrue, Idle, Seen

LEMMA FinishTrue ==
  ASSUME NEW p \in Procs, Mover(p), Finish(p)
  PROVE  MoveSound(p)' /\ MoveTrue(p)
<1>1. loc[p].pc = "finish" /\ UNCHANGED <<row, path>>
  BY DEF Finish, At
<1>2. CASE Moved(p)
  BY <1>1, <1>2, MovedTrue
<1>3. CASE Goto(p, "clear") /\ UNCHANGED report
  <2>1. /\ MoveTrue(p)
        /\ loc'[p].pc = "clear" /\ loc'[p].target = loc[p].target
        /\ loc'[p].before = loc[p].before /\ Db(p)' = Db(p)
    BY <1>3, MoverTells
  <2>2. loc[p].before # None /\ row[Db(p)] = loc[p].target /\ Seen \in {None, loc[p].target}
    BY <1>1, MoverKnown DEF Mover, MoveSound
  <2>3. Seen' = Seen
    BY <1>1 DEF Seen
  <2>4. MoveSound(p)'
    BY <1>1, <2>1, <2>2, <2>3 DEF MoveSound, Recovering, Preparing, Replacing
  <2> QED BY <2>1, <2>4
<1> QED BY <1>2, <1>3 DEF Finish

LEMMA MoveStepTrue ==
  ASSUME NEW p \in Procs, Mover(p), Move(p)
  PROVE  MoveSound(p)' /\ MoveTrue(p)
<1>1. ClearJournal(p) => MoveSound(p)' /\ MoveTrue(p)
  BY MovedTrue DEF ClearJournal, At
<1> QED BY <1>1, StageTrue, LinkTrue, BeginTrue, WriteJournalTrue, VerifyTrue, ReplaceTrue,
           CommitTrue, RecheckTrue, PutBackTrue, UnjournalTrue, FinishTrue DEF Move

----
(* While p takes steps of its own, nobody else is alone. *)
LEMMA NotAlone ==
  ASSUME UndoInv, NEW p \in Procs, loc[p] # Idle, Own(p)
  PROVE  \A q \in Procs \ {p} : loc'[q] = loc[q] /\ ~loc[q].alone
<1>1. Idle.alone = FALSE
  BY DEF Idle
<1> QED BY <1>1 DEF UndoInv, TrulyAlone, Own

(* ... nor when p begins. *)
LEMMA StartNotAlone ==
  ASSUME IndInv, UndoInv, NEW p \in Procs, NEW l, Start(p, l)
  PROVE  /\ \A q \in Procs \ {p} :
              ~loc'[q].alone /\ loc'[q].op = loc[q].op /\ loc'[q].pc = loc[q].pc
         /\ \A q \in Procs : report'[q] = "none"
<1>1. ASSUME NEW q \in Procs \ {p}
      PROVE  ~loc'[q].alone /\ loc'[q].op = loc[q].op /\ loc'[q].pc = loc[q].pc
  <2>1. CASE loc[q] = Idle
    BY <2>1 DEF Start, Idle
  <2>2. CASE loc[q] # Idle
    BY <2>2 DEF Start, IndInv, TypeOK, Locals
  <2> QED BY <2>1, <2>2
<1> QED BY <1>1 DEF Start

LEMMA StartsMoveTrue ==
  ASSUME IndInv, UndoInv, MoveInv, NEW p \in Procs,
         StartList(p) \/ (\E cwd \in Cwds : StartMove(p, cwd)) \/ StartDelete(p) \/ StartUndo(p)
  PROVE  MoveInv' /\ \A q \in Procs : MoveTrue(q)
<1> DEFINE a == \A r \in Procs \ {p} : loc[r] = Idle
<1>1. ASSUME NEW l, Start(p, l), UNCHANGED <<row, path>>, DOMAIN l = DOMAIN Idle,
             l.op # "move" \/ (l.op = "move" /\ l.pc = "scan" /\ l.before = Picture)
      PROVE  MoveInv' /\ \A q \in Procs : MoveTrue(q)
  <2>1. /\ \A q \in Procs \ {p} :
             ~loc'[q].alone /\ loc'[q].op = loc[q].op /\ loc'[q].pc = loc[q].pc
        /\ \A q \in Procs : report'[q] = "none"
    BY <1>1, StartNotAlone
  <2>2. loc'[p] = [l EXCEPT !.alone = a]
    BY <1>1 DEF Start
  <2> HIDE DEF a
  <2>3. loc'[p].op = l.op /\ loc'[p].pc = l.pc /\ loc'[p].before = l.before
    BY <1>1, <2>2 DEF Idle
  <2>4. loc'[p].op = "move" => loc'[p].pc = "scan" /\ loc'[p].before # None /\ Known(p)'
    BY PictureTyped, SessionAssumption, <1>1, <2>3 DEF IndInv, Picture, Seen, Known, Clean
  <2>5. MoveSound(p)'
    BY <2>4 DEF MoveSound, Recovering, Preparing, Replacing
  <2>6. \A q \in Procs \ {p} : MoveSound(q)'
    BY <2>1 DEF MoveSound
  <2>7. \A q \in Procs : loc'[q].op = "move" => loc'[q].pc \in InDb
    BY <2>1, <2>4 DEF MoveInv, InDb
  <2>8. \A q \in Procs : MoveTrue(q)
    BY <2>1 DEF MoveTrue
  <2> QED BY <2>5, <2>6, <2>7, <2>8 DEF MoveInv
<1>2. CASE StartList(p)
  <2> DEFINE l == [Idle EXCEPT !.pc = "scan", !.op = "list", !.at = 1]
  <2>1. /\ Start(p, l) /\ UNCHANGED <<row, path>> /\ DOMAIN l = DOMAIN Idle /\ l.op # "move"
    BY <1>2 DEF StartList, Idle, db_vars, file_vars
  <2> HIDE DEF l
  <2> QED BY <2>1, <1>1
<1>3. ASSUME NEW cwd \in Cwds, StartMove(p, cwd)
      PROVE  MoveInv' /\ \A q \in Procs : MoveTrue(q)
  <2> DEFINE l == [Idle EXCEPT !.pc = "scan", !.op = "move", !.at = 1, !.target = cwd,
                               !.before = Picture]
  <2>1. /\ Start(p, l) /\ UNCHANGED <<row, path>> /\ DOMAIN l = DOMAIN Idle
        /\ l.op = "move" /\ l.pc = "scan" /\ l.before = Picture
    BY <1>3 DEF StartMove, Idle, db_vars, file_vars
  <2> HIDE DEF l
  <2> QED BY <2>1, <1>1
<1>4. CASE StartDelete(p)
  <2> DEFINE l == [Idle EXCEPT !.pc = "delTx", !.op = "delete", !.before = Picture,
                               !.dbs = Holders]
  <2>1. /\ Start(p, l) /\ UNCHANGED <<row, path>> /\ DOMAIN l = DOMAIN Idle /\ l.op # "move"
    BY <1>4 DEF StartDelete, Idle, db_vars, file_vars
  <2> HIDE DEF l
  <2> QED BY <2>1, <1>1
<1>5. CASE StartUndo(p)
  <2> DEFINE l == [Idle EXCEPT !.pc = "undoCheck", !.op = "undo", !.undo = given,
                               !.before = Picture]
  <2>1. /\ Start(p, l) /\ UNCHANGED <<row, path>> /\ DOMAIN l = DOMAIN Idle /\ l.op # "move"
    BY <1>5 DEF StartUndo, Idle, db_vars, file_vars
  <2> HIDE DEF l
  <2> QED BY <2>1, <1>1
<1> QED BY <1>2, <1>3, <1>4, <1>5

(* Codex changes nothing a report is about. *)
LEMMA AppendNames ==
  ASSUME IndInv, CodexAppends
  PROVE  /\ UNCHANGED <<row, writer, index, staged, journal, outcome, backup, given, report, loc>>
         /\ path # None /\ path' # None /\ Seen' = Seen
         /\ \A k \in Moves : Original(k)' = Original(k) /\ Copy(k)' = Copy(k)
<1>1. /\ UNCHANGED <<row, writer, index, staged, journal, outcome, backup, given, report, loc>>
      /\ path # None /\ path \in File /\ TypeOK /\ Fits /\ budget.events > 0
      /\ path' = [path EXCEPT !.len = @ + 1]
      /\ rollback' = [k \in Moves |-> IF rollback[k] # None /\ rollback[k].ino = path.ino
                                      THEN [rollback[k] EXCEPT !.len = @ + 1] ELSE rollback[k]]
  BY DEF IndInv, TypeOK, CodexAppends, db_vars, del_vars
<1>2. path' # None /\ Seen' = Seen
  BY <1>1, Lengthened DEF Fits, Seen, CwdOf
<1>3. ASSUME NEW k \in Moves PROVE Original(k)' = Original(k) /\ Copy(k)' = Copy(k)
  <2>1. CASE rollback[k] # None /\ rollback[k].ino = path.ino
    BY <1>1, <2>1, Lengthened DEF TypeOK, Fits, Original, Copy, CwdOf
  <2>2. CASE ~(rollback[k] # None /\ rollback[k].ino = path.ino)
    BY <1>1, <2>2 DEF Original, Copy, CwdOf
  <2> QED BY <2>1, <2>2
<1> QED BY <1>1, <1>2, <1>3

LEMMA MoveSoundStays ==
  ASSUME IndInv, NEW p \in Procs, MoveSound(p), loc[p].op = "move" => loc[p].pc \in InDb,
         UNCHANGED <<row, journal, loc>>, Seen' = Seen, path' = None <=> path = None,
         \A k \in Moves : Original(k)' = Original(k) /\ Copy(k)' = Copy(k)
  PROVE  MoveSound(p)'
<1> PICK k : k = loc[p].move
  OBVIOUS
<1>1. loc[p].pc \in Attempting => k \in Moves
  BY DEF IndInv, Placed
<1>2. Known(p)' = Known(p) /\ Clean(p)' = Clean(p) /\ Db(p)' = Db(p)
      /\ Behind(journal, loc[p].at)' = Behind(journal, loc[p].at)
  BY DEF Known, Clean, Behind, Db, Seen
<1>3. CASE loc[p].pc \in Attempting
  BY <1>1, <1>3, <1>2 DEF MoveSound
<1>4. CASE loc[p].pc \notin Attempting
  BY <1>2, <1>4 DEF MoveSound, Attempting, Preparing, Replacing
<1> QED BY <1>3, <1>4

LEMMA MoveInvInit == Init => MoveInv
BY DEF Init, MoveInv, MoveSound, Idle

(* A step of p, which has begun. *)
LEMMA OwnMoveTrue ==
  ASSUME IndInv, UndoInv, MoveInv, TypeOK', NEW p \in Procs, loc[p] # Idle, Own(p),
         MoveSound(p)', MoveTrue(p), loc'[p].pc \in OutsidePCs => loc'[p].op # "move"
  PROVE  MoveInv' /\ \A q \in Procs : MoveTrue(q)
<1>1. \A q \in Procs \ {p} : loc'[q] = loc[q] /\ ~loc[q].alone
  BY NotAlone
<1>2. \A q \in Procs \ {p} : MoveSound(q)' /\ MoveTrue(q)
  BY <1>1 DEF MoveSound, MoveTrue
<1>3. loc'[p].op = "move" => loc'[p].pc \in InDb
  BY DEF TypeOK, Locals, PCs, InDb, OutsidePCs, Recovering, Attempting, Preparing, Replacing, Deleting,
    Idle, Own
<1> QED BY <1>1, <1>2, <1>3 DEF MoveInv

LEMMA MoveInvNext ==
  ASSUME IndInv, TypeOK', KeepInv, UndoInv, MoveInv, [Next]_vars
  PROVE  MoveInv' /\ \A p \in Procs : MoveTrue(p)
<1>1. ASSUME UNCHANGED <<row, journal, loc, report>>, Seen' = Seen, path' = None <=> path = None,
             \A k \in Moves : Original(k)' = Original(k) /\ Copy(k)' = Copy(k)
      PROVE  MoveInv' /\ \A p \in Procs : MoveTrue(p)
  BY <1>1, MoveSoundStays DEF MoveInv, MoveTrue
<1>2. CASE UNCHANGED vars
  BY <1>1, <1>2 DEF vars, Seen, Original, Copy
<1>3. CASE CodexAppends
  BY <1>1, <1>3, AppendNames
<1>4. ASSUME NEW p \in Procs,
             StartList(p) \/ (\E cwd \in Cwds : StartMove(p, cwd)) \/ StartDelete(p) \/ StartUndo(p)
      PROVE  MoveInv' /\ \A q \in Procs : MoveTrue(q)
  BY <1>4, StartsMoveTrue
<1>5. ASSUME NEW p \in Procs, Recover(p) \/ Move(p)
      PROVE  MoveInv' /\ \A q \in Procs : MoveTrue(q)
  <2>1. MovesOwn(p) /\ loc[p] # Idle
    BY <1>5, RecoverOwn, MoveOwn, Begun
  <2>2. loc'[p].pc \notin OutsidePCs /\ Own(p)
    BY <2>1 DEF MovesOwn
  <2>3. CASE loc[p].op = "move" /\ loc[p].alone
    BY <2>3, <1>5, RecoverTrue, MoveStepTrue, <2>1, <2>2, OwnMoveTrue DEF MoveInv, Mover
  <2>4. CASE ~(loc[p].op = "move" /\ loc[p].alone)
    <3>1. loc'[p].op = "move" => ~loc'[p].alone
      BY <2>2, <2>4 DEF Own, Idle
    <3>2. MoveSound(p)' /\ MoveTrue(p)
      BY <2>4, <3>1 DEF MoveSound, MoveTrue
    <3> QED BY <2>1, <2>2, <3>2, OwnMoveTrue
  <2> QED BY <2>3, <2>4
<1>6. ASSUME NEW p \in Procs, Delete(p) \/ Undo(p)
      PROVE  MoveInv' /\ \A q \in Procs : MoveTrue(q)
  <2>1. Own(p) /\ loc[p] # Idle
    BY <1>6, DeleteLedger, UndoLedger, Begun DEF Ledgers
  <2>2. loc[p].pc \in OutsidePCs /\ loc[p].pc \notin InDb
    BY <1>6 DEF Delete, BackUp, VerifyBackup, DeleteRows, DeleteFile, DeleteIndex,
                Undo, CheckUndo, BeginUndo, CommitUndo, RestoreFile, RestoreIndex,
                At, OutsidePCs, Deleting, InDb, Recovering, Attempting, Preparing, Replacing
  <2>3. loc[p].op # "move" /\ loc'[p].op # "move"
    BY <2>1, <2>2 DEF MoveInv, Own, Idle
  <2>4. MoveSound(p)' /\ MoveTrue(p)
    BY <2>3 DEF MoveSound, MoveTrue
  <2> QED BY <2>1, <2>3, <2>4, OwnMoveTrue
<1>7. ASSUME NEW p \in Procs, Crash(p)
      PROVE  MoveInv' /\ \A q \in Procs : MoveTrue(q)
  <2>1. Own(p) /\ loc[p] # Idle /\ UNCHANGED report
    BY <1>7, CrashOwn DEF Ledgers, Crash
  <2>2. loc'[p] = Idle
    BY <1>7, SetsOwn DEF Crash
  <2>3. loc'[p].op # "move"
    BY <2>2 DEF Idle
  <2>4. MoveSound(p)' /\ MoveTrue(p)
    BY <2>1, <2>3 DEF MoveSound, MoveTrue
  <2> QED BY <2>1, <2>3, <2>4, OwnMoveTrue
<1> QED BY <1>2, <1>3, <1>4, <1>5, <1>6, <1>7 DEF Next

(* A move nobody interferes with does what its caller is told. *)
THEOREM MoveTellsTruth == Spec => MoveReportIsTrue
<1>1. Init => IndInv /\ KeepInv /\ UndoInv /\ MoveInv
  BY IndInit, KeepInit, UndoInvInit, MoveInvInit
<1>2. IndInv /\ KeepInv /\ UndoInv /\ MoveInv /\ [Next]_vars
        => (IndInv /\ KeepInv /\ UndoInv /\ MoveInv)' /\ \A p \in Procs : MoveTrue(p)
  BY IndNext, KeepNext, UndoInvNext, MoveInvNext DEF IndInv
<1> DEFINE Act == \A p \in Procs : MoveTrue(p)
<1>3. IndInv /\ KeepInv /\ UndoInv /\ MoveInv /\ [Next]_vars => [Act]_vars
  BY <1>2
<1>4. Spec => [][Act]_vars
  BY <1>1, <1>2, <1>3, PTL DEF Spec
<1> QED BY <1>4 DEF MoveReportIsTrue, MoveTrue

----
(* What a delete tells.  First, who holds the transactions. *)
LEMMA ReleaseFrees ==
  ASSUME IndInv, NEW p \in Procs, ReleaseDb(p)
  PROVE  Releasing(p) /\ OthersWrite(p)
BY SessionAssumption DEF ReleaseDb, Releasing, OthersWrite

LEMMA Ordered ==
  ASSUME NEW p \in Procs, Held(p), OthersWrite(p), loc'[p].pc # "undoBegin",
         \/ Releasing(p)
         \/ loc'[p].pc \in InTx
         \/ UNCHANGED writer /\ loc[p].pc \notin InTx \cup {"undoCommit"}
  PROVE  Orders(p)
BY DEF Held, Orders, Releasing

LEMMA SameWriters ==
  ASSUME NEW p \in Procs, UNCHANGED writer
  PROVE  OthersWrite(p)
BY DEF OthersWrite

LEMMA TakesOne ==
  ASSUME IndInv, NEW p \in Procs, NEW d \in Dbs, writer' = [writer EXCEPT ![d] = p]
  PROVE  OthersWrite(p)
BY DEF OthersWrite, IndInv, TypeOK

LEMMA RecoverOrders ==
  ASSUME IndInv, NEW p \in Procs, Held(p), Recover(p)
  PROVE  Orders(p)
<1>1. loc'[p].pc # "undoBegin" /\ loc[p] \in Locals /\ loc \in [Procs -> Locals]
  BY RecoverOwn DEF MovesOwn, OutsidePCs, IndInv, TypeOK
<1>2. CASE RecoveryFails(p)
  BY <1>1, <1>2, ReleaseFrees, Ordered DEF RecoveryFails
<1>3. CASE UNCHANGED writer /\ loc[p].pc \in {"scan", "recover", "recClean", "recDone"}
  BY <1>1, <1>3, SameWriters, Ordered DEF InTx
<1>4. CASE RecoveryBegin(p) /\ ~RecoveryFails(p)
  <2>1. PICK c : loc' = [loc EXCEPT ![p].pc = "recAct", ![p].prev = c]
    BY <1>4 DEF RecoveryBegin
  <2>2. loc'[p].pc = "recAct"
    BY <1>1, <2>1 DEF Locals
  <2>3. writer' = [writer EXCEPT ![Db(p)] = p] /\ Db(p) \in Dbs
    BY <1>4, AtDb DEF RecoveryBegin, At, InDb, Recovering
  <2> QED BY <1>1, <2>2, <2>3, TakesOne, Ordered DEF InTx
<1>5. CASE RecoveryAct(p) /\ ~RecoveryFails(p)
  <2>1. PICK r : loc' = [loc EXCEPT ![p].pc = "recCommit", ![p].prev = r.row] /\ UNCHANGED writer
    BY <1>5 DEF RecoveryAct
  <2>2. loc'[p].pc = "recCommit"
    BY <1>1, <2>1 DEF Locals
  <2> QED BY <1>1, <2>1, <2>2, SameWriters, Ordered DEF InTx
<1>6. CASE RecoveryCommit(p)
  <2>1. ReleaseDb(p)
    BY <1>6 DEF RecoveryCommit, RecoveryFails
  <2> QED BY <1>1, <2>1, ReleaseFrees, Ordered
<1>7. Recover(p) => \/ RecoveryFails(p)
                    \/ UNCHANGED writer /\ loc[p].pc \in {"scan", "recover", "recClean", "recDone"}
                    \/ RecoveryBegin(p) \/ RecoveryAct(p) \/ RecoveryCommit(p)
  BY DEF Recover, Scan, NextJournal, AllRecovered, RecoveryTimeout, RecoveryClean,
         RecoveryDone, At, db_vars
<1> QED BY <1>2, <1>3, <1>4, <1>5, <1>6, <1>7

LEMMA MoveOrders ==
  ASSUME IndInv, NEW p \in Procs, Held(p), Move(p)
  PROVE  Orders(p)
<1>1. loc'[p].pc # "undoBegin" /\ loc[p] \in Locals /\ loc \in [Procs -> Locals]
  BY MoveOwn DEF MovesOwn, OutsidePCs, IndInv, TypeOK
<1>2. CASE ReleaseDb(p)
  BY <1>1, <1>2, ReleaseFrees, Ordered
<1>3. CASE UNCHANGED writer /\ loc[p].pc \in {"stage", "link", "recheck", "restore", "unjournal",
                                             "finish", "clear"}
  BY <1>1, <1>3, SameWriters, Ordered DEF InTx
<1>4. ASSUME NEW place \in InTx, Goto(p, place),
             UNCHANGED writer \/ (writer' = [writer EXCEPT ![Db(p)] = p] /\ loc[p].pc = "begin")
      PROVE  Orders(p)
  BY <1>4, PlaceOnly, AtDb, SameWriters, TakesOne, <1>1, Ordered DEF InDb, Attempting, Preparing
<1>5. Move(p) => \/ ReleaseDb(p)
                 \/ UNCHANGED writer /\ loc[p].pc \in {"stage", "link", "recheck", "restore",
                                                       "unjournal", "finish", "clear"}
                 \/ \E place \in InTx : /\ Goto(p, place)
                                        /\ \/ UNCHANGED writer
                                           \/ writer' = [writer EXCEPT ![Db(p)] = p] /\ loc[p].pc = "begin"
  BY DEF Move, Stage, Link, Begin, WriteJournal, Verify, Replace, Commit, Recheck,
         PutBack, Unjournal, Finish, ClearJournal, MoveFails, Moved, At, InTx, db_vars
<1> QED BY <1>2, <1>3, <1>4, <1>5

LEMMA DeleteOrders ==
  ASSUME IndInv, UndoInv, NEW p \in Procs, Held(p), Delete(p)
  PROVE  Orders(p)
<1>1. loc[p] \in Locals /\ loc \in [Procs -> Locals]
  BY DEF IndInv, TypeOK
<1>2. loc'[p].pc # "undoBegin"
  BY BackUpLedger, VerifyBackupLedger, DeleteRowsLedger, DeleteFileLedger, DeleteIndexLedger
     DEF Delete
<1>3. CASE ReleaseDb(p)
  BY <1>2, <1>3, ReleaseFrees, Ordered
<1>4. CASE UNCHANGED writer /\ loc[p].pc \in {"delFile", "delIndex"}
  BY <1>2, <1>4, SameWriters, Ordered DEF InTx
<1>5. CASE BackUp(p) /\ ~ReleaseDb(p)
  <2>1. PICK d \in NextDb(p) : writer' = [writer EXCEPT ![d] = p] /\ d \in Dbs
    BY <1>1, <1>5 DEF BackUp, CandidateFails, NextDb, Locals
  <2>2. PICK b, s : loc' = [loc EXCEPT ![p] =
                    [@ EXCEPT !.token = b, !.pc = "delVerify", !.bad = FALSE, !.sig = s]]
    BY <1>5 DEF BackUp, CandidateFails, NextBackup
  <2>3. loc'[p].pc = "delVerify"
    BY <1>1, <2>2 DEF Locals
  <2> QED BY <1>2, <2>1, <2>3, TakesOne, Ordered DEF InTx
<1>6. CASE Goto(p, "delCommit") /\ UNCHANGED writer
  BY <1>2, <1>6, PlaceOnly, SameWriters, Ordered DEF InTx
<1>7. Delete(p) => \/ ReleaseDb(p)
                   \/ UNCHANGED writer /\ loc[p].pc \in {"delFile", "delIndex"}
                   \/ BackUp(p)
                   \/ Goto(p, "delCommit") /\ UNCHANGED writer
  BY DEF Delete, VerifyBackup, DeleteRows, DeleteFile, DeleteIndex, CandidateFails, At
<1> QED BY <1>3, <1>4, <1>5, <1>6, <1>7

LEMMA UndoOrders ==
  ASSUME IndInv, UndoInv, NEW p \in Procs, Held(p), Undo(p)
  PROVE  Orders(p)
<1>1. loc[p] \in Locals /\ loc \in [Procs -> Locals] /\ TypeOK
  BY DEF IndInv, TypeOK
<1>2. CASE CheckUndo(p) /\ ~UndoFails(p)
  <2> DEFINE missing == {b \in loc[p].undo : row[backup[b].db] = None}
  <2>1. /\ loc' = [loc EXCEPT ![p].pending = missing, ![p].pc = "undoBegin"]
        /\ UNCHANGED writer /\ loc[p].pc = "undoCheck"
    BY <1>2 DEF CheckUndo, At
  <2>2. loc'[p].pending = missing /\ loc'[p].undo = loc[p].undo
    BY <1>1, <2>1 DEF Locals
  <2>3. Releasing(p)
    BY <2>1 DEF Held, Releasing, InTx
  <2> QED BY <2>1, <2>2, <2>3, SameWriters DEF Held, Orders, Releasing
<1>3. CASE BeginUndo(p) /\ ~UndoFails(p)
  <2>1. /\ writer' = [d \in Dbs |-> IF \E b \in loc[p].pending : backup[b].db = d
                                      THEN p ELSE writer[d]]
        /\ loc' = [loc EXCEPT ![p].pending = {}, ![p].pc = "undoCommit"]
        /\ loc[p].pc = "undoBegin" /\ UNCHANGED backup
    BY <1>3 DEF BeginUndo, At
  <2>2. loc'[p].undo = loc[p].undo /\ loc'[p].pc = "undoCommit"
    BY <1>1, <2>1 DEF Locals
  <2>3. ASSUME NEW d \in Dbs, writer'[d] = p PROVE \E b \in loc[p].undo : backup[b].db = d
    BY <2>1, <2>3 DEF Held, InTx
  <2>4. OthersWrite(p)
    BY <2>1 DEF OthersWrite
  <2> QED BY <2>1, <2>2, <2>3, <2>4 DEF Held, Orders
<1>4. CASE CommitUndo(p) /\ ~UndoFails(p)
  <2>1. loc[p].pc = "undoCommit" /\ UNCHANGED backup
    BY <1>4 DEF CommitUndo, At
  <2>2. CASE {b \in loc[p].undo : writer[backup[b].db] = p} = {} /\ Goto(p, "undoFiles")
             /\ UNCHANGED writer
    BY <2>1, <2>2, PlaceOnly, SameWriters, Ordered DEF Held, Releasing, InTx
  <2>3. ASSUME NEW b, writer' = [writer EXCEPT ![backup[b].db] = None], UNCHANGED loc
        PROVE  Orders(p)
    BY <1>1, <2>3, SessionAssumption, <2>1 DEF OthersWrite, TypeOK, Held, Orders
  <2> QED BY <1>4, <2>2, <2>3 DEF CommitUndo
<1>5. CASE UNCHANGED writer /\ loc[p].pc \in {"undoFiles", "undoIndex"} /\ loc'[p].pc # "undoBegin"
  BY <1>5, SameWriters, Ordered DEF InTx
<1>6. CASE UndoFails(p) /\ loc[p].pc \in Undoing /\ UNCHANGED backup
  BY <1>6, AfterUndoLedger, UndoingOutside, ReleaseFrees, Ordered DEF UndoFails
<1>7. CASE RestoreFile(p) /\ ~UndoFails(p)
  BY <1>7, <1>5, PlaceOnly DEF RestoreFile, At
<1>8. CASE RestoreIndex(p) /\ ~UndoFails(p)
  BY <1>8, <1>5, AfterUndoLedger, UndoingOutside DEF RestoreIndex, At, Undoing
<1>9. Undo(p) => loc[p].pc \in Undoing /\ UNCHANGED backup
  BY DEF Undo, CheckUndo, BeginUndo, CommitUndo, RestoreFile, RestoreIndex, At, Undoing
<1> QED BY <1>2, <1>3, <1>4, <1>6, <1>7, <1>8, <1>9 DEF Undo

(* How an operation begins. *)
LEMMA Starting ==
  ASSUME NEW p \in Procs,
         StartList(p) \/ (\E cwd \in Cwds : StartMove(p, cwd)) \/ StartDelete(p) \/ StartUndo(p)
  PROVE  \E l : /\ Start(p, l) /\ DOMAIN l = DOMAIN Idle
                /\ UNCHANGED <<row, writer, path, index, backup, given>>
                /\ l.pc \in {"scan", "delTx", "undoCheck"}
                /\ \/ l.op # "delete"
                   \/ /\ l.op = "delete" /\ l.pc = "delTx" /\ l.before = Picture /\ l.dbs = Holders
                      /\ l.token = None /\ l.done = {} /\ l.bad = FALSE
<1> DEFINE Good(l) ==
      /\ Start(p, l) /\ DOMAIN l = DOMAIN Idle
      /\ UNCHANGED <<row, writer, path, index, backup, given>>
      /\ l.pc \in {"scan", "delTx", "undoCheck"}
      /\ \/ l.op # "delete"
         \/ /\ l.op = "delete" /\ l.pc = "delTx" /\ l.before = Picture /\ l.dbs = Holders
            /\ l.token = None /\ l.done = {} /\ l.bad = FALSE
<1>1. CASE StartList(p)
  <2> DEFINE l == [Idle EXCEPT !.pc = "scan", !.op = "list", !.at = 1]
  <2>1. Good(l)
    BY <1>1 DEF StartList, Idle, db_vars, file_vars, del_vars
  <2> HIDE DEF l
  <2> QED BY <2>1
<1>2. ASSUME NEW cwd \in Cwds, StartMove(p, cwd) PROVE \E l : Good(l)
  <2> DEFINE l == [Idle EXCEPT !.pc = "scan", !.op = "move", !.at = 1, !.target = cwd,
                               !.before = Picture]
  <2>1. Good(l)
    BY <1>2 DEF StartMove, Idle, db_vars, file_vars, del_vars
  <2> HIDE DEF l
  <2> QED BY <2>1
<1>3. CASE StartDelete(p)
  <2> DEFINE l == [Idle EXCEPT !.pc = "delTx", !.op = "delete", !.before = Picture,
                               !.dbs = Holders]
  <2>1. Good(l)
    BY <1>3 DEF StartDelete, Idle, db_vars, file_vars, del_vars
  <2> HIDE DEF l
  <2> QED BY <2>1
<1>4. CASE StartUndo(p)
  <2> DEFINE l == [Idle EXCEPT !.pc = "undoCheck", !.op = "undo", !.undo = given,
                               !.before = Picture]
  <2>1. Good(l)
    BY <1>4 DEF StartUndo, Idle, db_vars, file_vars, del_vars
  <2> HIDE DEF l
  <2> QED BY <2>1
<1> QED BY <1>1, <1>2, <1>3, <1>4

LEMMA WritersInit == Init => Writers
BY SessionAssumption DEF Init, Writers, Held, Idle

(* The others hold what they held. *)
LEMMA OrdersAll ==
  ASSUME IndInv, Writers, NEW p \in Procs, Orders(p), \A b \in Saved : backup'[b] = backup[b],
         \A q \in Procs \ {p} : Untouched(q)
  PROVE  Writers'
<1>1. ASSUME NEW q \in Procs \ {p} PROVE Held(q)'
  <2>1. loc[q] \in Locals /\ loc[q].undo \subseteq Saved /\ Held(q)
    BY DEF IndInv, TypeOK, Placed, Writers
  <2>2. loc'[q].pc = loc[q].pc /\ loc'[q].undo = loc[q].undo /\ loc'[q].pending = loc[q].pending
    BY <2>1 DEF Untouched, Locals
  <2>3. \A d \in Dbs : writer'[d] = q => writer[d] = q
    BY DEF Orders, OthersWrite
  <2> QED BY <2>1, <2>2, <2>3 DEF Held
<1> QED BY <1>1 DEF Writers, Orders

LEMMA WritersNext ==
  ASSUME IndInv, UndoInv, Writers, [Next]_vars
  PROVE  Writers'
<1>1. CASE UNCHANGED vars
  BY <1>1 DEF vars, Writers, Held
<1>2. CASE CodexAppends
  BY <1>2, AppendNames DEF Writers, Held
<1>3. ASSUME NEW p \in Procs,
             StartList(p) \/ (\E cwd \in Cwds : StartMove(p, cwd)) \/ StartDelete(p) \/ StartUndo(p)
      PROVE  Writers'
  <2>1. PICK l : /\ Start(p, l) /\ DOMAIN l = DOMAIN Idle /\ l.pc # "undoBegin"
                 /\ UNCHANGED <<writer, backup>>
    BY <1>3, Starting
  <2>2. (\A q \in Procs \ {p} : Untouched(q)) /\ loc[p].pc = "idle"
    BY <2>1 DEF Start, Untouched, Idle
  <2>3. loc'[p].pc # "undoBegin"
    <3> DEFINE a == \A r \in Procs \ {p} : loc[r] = Idle
    <3>1. loc'[p] = [l EXCEPT !.alone = a]
      BY <2>1 DEF Start
    <3> HIDE DEF a
    <3> QED BY <2>1, <3>1 DEF Idle
  <2>4. Orders(p)
    BY <2>1, <2>2, <2>3, SameWriters, Ordered DEF Writers, InTx
  <2> QED BY <2>1, <2>2, <2>4, OrdersAll
<1>4. ASSUME NEW p \in Procs, Own(p), Orders(p), \A b \in Saved : backup'[b] = backup[b]
      PROVE  Writers'
  BY <1>4, OrdersAll DEF Own, Untouched
<1>5. ASSUME NEW p \in Procs, Recover(p) \/ Move(p) PROVE Writers'
  <2>1. MovesOwn(p)
    BY <1>5, RecoverOwn, MoveOwn
  <2> QED BY <1>4, <1>5, <2>1, RecoverOrders, MoveOrders DEF Writers, MovesOwn
<1>6. ASSUME NEW p \in Procs, Delete(p) \/ Undo(p) PROVE Writers'
  <2>1. Ledgers(p)
    BY <1>6, DeleteLedger, UndoLedger
  <2> QED BY <1>4, <1>6, <2>1, DeleteOrders, UndoOrders DEF Writers, Ledgers
<1>7. ASSUME NEW p \in Procs, Crash(p) PROVE Writers'
  <2>1. Ledgers(p) /\ ReleaseDb(p)
    BY <1>7, CrashOwn DEF Crash
  <2>2. loc'[p] = Idle
    BY <1>7, SetsOwn DEF Crash
  <2>3. Orders(p)
    BY <2>1, <2>2, ReleaseFrees, Ordered DEF Writers, Idle
  <2> QED BY <1>4, <2>1, <2>3 DEF Ledgers
<1> QED BY <1>1, <1>2, <1>3, <1>5, <1>6, <1>7 DEF Next

----
(* A delete that is alone. *)
LEMMA DeleterKnown ==
  ASSUME NEW p \in Procs, Deleter(p)
  PROVE  /\ IndInv /\ TypeOK /\ loc[p] \in Locals /\ loc \in [Procs -> Locals]
         /\ Ledger(p) /\ UndoSound(p)
         /\ Backed(p) /\ Within(p) /\ Tabled(p) /\ Undone(p)
         /\ loc[p].before \in Pictures /\ loc[p].before # None
         /\ Tokens(p) \subseteq Saved /\ loc[p].undo \subseteq Saved /\ loc[p].done \subseteq Saved
         /\ loc[p].pc \in Deleting => loc[p].token # None
         /\ loc[p].op = "delete" /\ loc[p].alone
         /\ budget.faults \in Nat /\ MaxFaults \in Nat /\ budget'.faults \in Nat
         /\ None \notin Cwds /\ None \notin Backups /\ None \notin File
<1>1. /\ IndInv /\ TypeOK /\ TypeOK' /\ UndoInv /\ loc[p].pc \in OutsidePCs
      /\ loc[p].op = "delete" /\ loc[p].alone /\ DeleteSound(p)
  BY DEF Deleter, IndInv
<1>2. /\ loc[p] \in Locals /\ loc \in [Procs -> Locals] /\ Ledger(p) /\ UndoSound(p)
      /\ Backed(p) /\ Within(p) /\ Tabled(p) /\ Undone(p)
  BY <1>1 DEF TypeOK, UndoInv, DeleteSound
<1>3. /\ loc[p].token # None => loc[p].token \in Saved
      /\ loc[p].undo \subseteq Saved /\ loc[p].done \subseteq Saved
      /\ loc[p].pc \in Deleting => loc[p].token # None
  BY <1>1, Outside DEF OutsidePCs
<1>4. Tokens(p) \subseteq Saved
  BY <1>3 DEF Tokens
<1>5. loc[p].before \in Pictures /\ loc[p].before # None
  BY <1>2 DEF Backed, Locals
<1>6. budget.faults \in Nat /\ MaxFaults \in Nat /\ budget'.faults \in Nat
  BY <1>1, SessionAssumption DEF TypeOK
<1> QED BY <1>1, <1>2, <1>3, <1>4, <1>5, <1>6, SessionAssumption

LEMMA SavedTyped ==
  ASSUME TypeOK, NEW b \in Saved
  PROVE  /\ b \in Backups /\ backup[b].db \in Dbs /\ backup[b].cwd \in Cwds
         /\ backup[b].file \in File \cup {None} /\ backup[b].index \in BOOLEAN
BY DEF Saved, TypeOK, BackupRecords

LEMMA NothingSeen ==
  ASSUME NEW f \in File \cup {None}
  PROVE  /\ CwdOf(f) = None <=> f = None
         /\ CwdOf(f) \in Cwds \cup {None}
BY SessionAssumption DEF CwdOf, File

(* One database is next. *)
LEMMA NextDbIsOne ==
  ASSUME NEW p \in Procs, loc[p] \in Locals, NEW d \in NextDb(p), NEW e \in NextDb(p)
  PROVE  d = e
<1>1. d \in Dbs /\ e \in Dbs /\ d \in loc[p].dbs /\ e \in loc[p].dbs
  BY DEF NextDb, Locals
<1>2. PICK i \in DOMAIN DbOrder, j \in DOMAIN DbOrder : DbOrder[i] = d /\ DbOrder[j] = e
  BY <1>1, SessionAssumption
<1>3. i <= j /\ j <= i
  BY <1>1, <1>2 DEF NextDb
<1>4. i \in Nat /\ j \in Nat
  BY SessionAssumption
<1> QED BY <1>2, <1>3, <1>4

(* A delete ends with everything there, or with what is gone covered. *)
LEMMA EndsTrue ==
  ASSUME NEW p \in Procs, Deleter(p), NEW said \in {"failed", "restored", "stuck"}, Ended(p, said),
         \/ /\ row' = loc[p].before.row
            /\ Seen' = CwdOf(loc[p].before.file)
            /\ index' = loc[p].before.index
         \/ said = "stuck" /\ (budget'.faults + 1 >= MaxFaults => Covered(given', loc[p].before))
  PROVE  DeleteSound(p)' /\ DeleteTrue(p)
<1>1. loc'[p] = Idle /\ report'[p] = said
  BY DeleterKnown, SetsOwn DEF Ended
<1>2. DeleteSound(p)'
  BY <1>1 DEF DeleteSound, Idle
<1>3. DeleteTrue(p)
  BY <1>1 DEF DeleteTrue, Covered, Seen
<1> QED BY <1>2, <1>3

LEMMA UndoesTokens ==
  ASSUME NEW p \in Procs, Deleter(p), loc[p].pc \in Undoing
  PROVE  loc[p].undo \subseteq Tokens(p)
<1>1. Undone(p)
  BY DeleterKnown
<1> QED BY <1>1 DEF Undone, Tokens

LEMMA BackedStays ==
  ASSUME NEW p \in Procs, Deleter(p), UNCHANGED backup,
         loc'[p].before = loc[p].before, loc'[p].done = loc[p].done,
         loc'[p].token \in {loc[p].token, None}
  PROVE  Backed(p)' /\ Tokens(p)' \subseteq Tokens(p)
<1>1. Backed(p)
  BY DeleterKnown
<1>2. Tokens(p)' \subseteq Tokens(p)
  BY DEF Tokens
<1> QED BY <1>1, <1>2 DEF Backed, Full

(* The first backup has all of it, whichever it is that is undone. *)
LEMMA SomeFull ==
  ASSUME NEW p \in Procs, Deleter(p), loc[p].pc \in Undoing,
         loc[p].token = None \/ loc[p].done = {}
  PROVE  /\ \E b \in loc[p].undo : Full(b, loc[p].before)
         /\ loc[p].undo = Tokens(p)
BY DeleterKnown DEF Backed, Undone, Tokens

(* After an undo, whole or not. *)
LEMMA AfterUndoTrue ==
  ASSUME NEW p \in Procs, Deleter(p), loc[p].pc \in Undoing, UNCHANGED backup,
         NEW ok \in BOOLEAN, AfterUndo(p, ok),
         \A d \in Dbs : row'[d] = row[d] \/ d \in DbsOf(loc[p].undo),
         Seen' \in {None, CwdOf(loc[p].before.file)}, index' => loc[p].before.index,
         budget'.faults <= budget.faults,
         ok => /\ \A b \in loc[p].undo : row'[backup[b].db] = backup[b].cwd
               /\ (\E b \in loc[p].undo : backup[b].file # None) => Seen' # None
               /\ (\E b \in loc[p].undo : backup[b].index) => index',
         ~ok /\ loc[p].token # None /\ loc[p].done # {} => budget'.faults < budget.faults
  PROVE  DeleteSound(p)' /\ DeleteTrue(p)
<1> PICK B : B = loc[p].before
  OBVIOUS
<1>1. /\ IndInv /\ loc[p] \in Locals /\ B \in Pictures /\ Backed(p) /\ Undone(p)
      /\ loc[p].undo \subseteq Saved /\ loc[p].undo \subseteq Tokens(p) /\ Tokens(p) \subseteq Saved
      /\ budget.faults \in Nat /\ MaxFaults \in Nat /\ budget'.faults \in Nat
      /\ loc[p].op = "delete" /\ TypeOK /\ TypeOK'
  <2>1. TypeOK'
    BY DEF Deleter
  <2> QED BY <2>1, DeleterKnown, UndoesTokens
<1>2. \A b \in Tokens(p) : backup[b].db \in Dbs /\ backup[b].cwd = B.row[backup[b].db]
  BY <1>1, SavedTyped DEF Backed
<1>3. ASSUME loc[p].token # None, loc[p].done # {}
      PROVE  DeleteSound(p)' /\ DeleteTrue(p)
  <2>0. PICK b \in BOOLEAN : b = ~ok
    BY Zenon
  <2> DEFINE l == [loc[p] EXCEPT !.undo = loc[p].done, !.pending = {}, !.token = None,
                                 !.bad = b, !.pc = "undoCheck"]
  <2>1. loc' = [loc EXCEPT ![p] = l] /\ UNCHANGED report
    BY <1>1, <1>3, <2>0 DEF AfterUndo
  <2>2. /\ l.pc = "undoCheck" /\ l.op = loc[p].op /\ l.alone = loc[p].alone /\ l.bad = b
        /\ l.token = None /\ l.done = loc[p].done /\ l.undo = loc[p].done
        /\ l.before = loc[p].before
    BY <1>1 DEF Locals
  <2> HIDE DEF l
  <2>3. loc'[p] = l
    BY <1>1, <2>1, SetsOwn
  <2>4. Backed(p)' /\ Within(p)'
    BY <1>1, <2>2, <2>3, BackedStays DEF Within
  <2>5. Tabled(p)'
    BY <2>2, <2>3 DEF Tabled, Deleting
  <2>6. ASSUME b = FALSE, NEW d \in Dbs, d \notin DbsOf(loc[p].done)
        PROVE  row'[d] = B.row[d]
    <3>1. CASE d = backup[loc[p].token].db
      BY <1>1, <1>3, <1>2, <2>0, <2>6, <3>1 DEF Undone, Tokens
    <3>2. CASE d # backup[loc[p].token].db
      BY <1>1, <1>3, <2>6, <3>2 DEF Undone, Tokens, DbsOf
    <3> QED BY <3>1, <3>2
  <2>7. b = TRUE => budget'.faults + 2 <= MaxFaults
    <3>1. b = TRUE => budget'.faults < budget.faults
      BY <1>3, <2>0
    <3>2. budget.faults < MaxFaults
      BY <1>1, <1>3 DEF Undone
    <3> QED BY <1>1, <3>1, <3>2
  <2>8. DbsOf(Tokens(p))' = DbsOf(loc[p].done)
    BY <2>2, <2>3 DEF DbsOf, Tokens
  <2>9. Undone(p)'
    BY <1>3, <2>2, <2>3, <2>6, <2>7, <2>8 DEF Undone
  <2> QED BY <2>1, <2>4, <2>5, <2>9 DEF DeleteSound, DeleteTrue
<1>4. ASSUME loc[p].token = None \/ loc[p].done = {}
      PROVE  DeleteSound(p)' /\ DeleteTrue(p)
  <2>1. (\E b \in loc[p].undo : Full(b, B)) /\ loc[p].undo = Tokens(p)
    BY <1>4, SomeFull
  <2> PICK f \in loc[p].undo : Full(f, B)
    BY <2>1
  <2>2. /\ Ended(p, IF ok /\ (loc[p].token # None \/ ~loc[p].bad) THEN "restored" ELSE "stuck")
        /\ given' = loc[p].undo
    BY <1>1, <1>4 DEF AfterUndo
  <2>3. backup[f].file \in File \cup {None} /\ backup[f].index \in BOOLEAN /\ loc[p].bad \in BOOLEAN
        /\ B.file \in File \cup {None} /\ B.index \in BOOLEAN
    BY <1>1, SavedTyped DEF Locals, Pictures
  <2>4. CASE ok /\ (loc[p].token # None \/ loc[p].bad = FALSE)
    <3>1. Ended(p, "restored")
      BY <2>2, <2>4
    <3>2. ASSUME NEW d \in Dbs PROVE row'[d] = B.row[d]
      <4>1. CASE d \in DbsOf(loc[p].undo)
        BY <1>1, <1>2, <2>4, <4>1 DEF DbsOf
      <4>2. CASE d \notin DbsOf(loc[p].undo)
        BY <1>1, <2>1, <2>4, <4>2 DEF Undone
      <4> QED BY <4>1, <4>2
    <3>3. row' = B.row
      BY <1>1, <3>2 DEF TypeOK, Pictures
    <3>4. Seen' = CwdOf(B.file)
      BY <2>3, <2>4, NothingSeen DEF Full
    <3>5. index' = B.index
      BY <1>1, <2>3, <2>4 DEF TypeOK, Full
    <3> QED BY <3>1, <3>3, <3>4, <3>5, EndsTrue
  <2>5. CASE ~(ok /\ (loc[p].token # None \/ loc[p].bad = FALSE))
    <3>1. Ended(p, "stuck")
      BY <2>2, <2>3, <2>5
    <3>2. ASSUME budget'.faults + 1 >= MaxFaults PROVE Covered(given', B)
      <4>1. loc[p].token # None \/ loc[p].bad = FALSE
        BY <1>1, <2>3, <3>2 DEF Undone
      <4>2. ASSUME NEW d \in Dbs, row'[d] # B.row[d]
            PROVE  \E b \in given' : backup'[b].db = d /\ backup'[b].cwd = B.row[d]
        BY <1>1, <2>1, <4>1, <4>2, <1>2, <2>2 DEF Undone, DbsOf
      <4>3. f \in given' /\ Full(f, B)
        BY <2>2
      <4>4. CwdOf(backup'[f].file) = CwdOf(B.file) /\ backup'[f].index = B.index
        BY <4>3 DEF Full
      <4>5. index' # B.index => \E b \in given' : backup'[b].index = B.index
        BY <4>3, <4>4
      <4>6. CwdOf(path') # CwdOf(B.file) => \E b \in given' : CwdOf(backup'[b].file) = CwdOf(B.file)
        BY <4>3, <4>4
      <4> QED BY <4>2, <4>5, <4>6 DEF Covered
    <3> QED BY <3>1, <3>2, EndsTrue
  <2> QED BY <2>4, <2>5
<1> QED BY <1>3, <1>4

(* An undo goes on. *)
LEMMA UndoGoes ==
  ASSUME NEW p \in Procs, Deleter(p), loc[p].pc \in Undoing, UNCHANGED <<backup, report>>,
         loc'[p].pc \in Undoing, loc'[p].before = loc[p].before, loc'[p].done = loc[p].done,
         loc'[p].token = loc[p].token, loc'[p].bad = loc[p].bad, loc'[p].undo = loc[p].undo,
         \A d \in Dbs : row'[d] = row[d] \/ d \in DbsOf(loc[p].undo),
         Seen' \in {None, CwdOf(loc[p].before.file)}, index' => loc[p].before.index,
         budget'.faults <= budget.faults,
         loc'[p].pc \in {"undoCheck", "undoBegin"} =>
            row' = row /\ loc[p].pc \in {"undoCheck", "undoBegin"}
  PROVE  DeleteSound(p)' /\ DeleteTrue(p)
<1>1. /\ Undone(p) /\ loc[p].undo \subseteq Tokens(p)
      /\ budget.faults \in Nat /\ MaxFaults \in Nat /\ budget'.faults \in Nat
  BY DeleterKnown, UndoesTokens
<1>2. Backed(p)' /\ Within(p)'
  BY BackedStays DEF Within
<1>3. Tabled(p)'
  BY DEF Tabled, Undoing, Deleting
<1>4. DbsOf(Tokens(p))' = DbsOf(Tokens(p)) /\ DbsOf(loc[p].undo) \subseteq DbsOf(Tokens(p))
  BY <1>1 DEF DbsOf, Tokens
<1>5. Undone(p)'
  BY <1>1, <1>4 DEF Undone
<1> QED BY <1>2, <1>3, <1>5 DEF DeleteSound, DeleteTrue

LEMMA CheckUndoTrue ==
  ASSUME NEW p \in Procs, Deleter(p), CheckUndo(p)
  PROVE  DeleteSound(p)' /\ DeleteTrue(p)
<1>1. /\ loc[p].pc = "undoCheck" /\ loc[p].pc \in Undoing
      /\ UNCHANGED <<row, path, index, backup, budget>>
  BY DEF CheckUndo, At, Undoing
<1>2. /\ Within(p) /\ Undone(p) /\ Backed(p) /\ loc[p] \in Locals /\ loc \in [Procs -> Locals]
      /\ budget.faults \in Nat
  BY DeleterKnown
<1>3. /\ Seen' \in {None, CwdOf(loc[p].before.file)} /\ (index' => loc[p].before.index)
      /\ budget'.faults <= budget.faults
  BY <1>1, <1>2 DEF Within, Seen
<1>4. CASE UndoFails(p) /\ \E b \in loc[p].undo : RowConflict(b) \/ FileConflict(b)
  BY <1>1, <1>2, <1>4, <1>3, AfterUndoTrue DEF Undone, Backed, RowConflict, FileConflict, UndoFails
<1>5. CASE /\ loc' = [loc EXCEPT
                 ![p].pending = {b \in loc[p].undo : row[backup[b].db] = None},
                 ![p].pc = "undoBegin"]
           /\ UNCHANGED report
  <2> DEFINE missing == {b \in loc[p].undo : row[backup[b].db] = None}
  <2>1. /\ loc'[p].pc = "undoBegin" /\ loc'[p].before = loc[p].before /\ loc'[p].done = loc[p].done
        /\ loc'[p].token = loc[p].token /\ loc'[p].bad = loc[p].bad /\ loc'[p].undo = loc[p].undo
    <3> HIDE DEF missing
    <3>1. loc' = [loc EXCEPT ![p].pending = missing, ![p].pc = "undoBegin"]
      BY <1>5 DEF missing
    <3> QED BY <1>2, <3>1 DEF Locals
  <2> QED BY <1>1, <1>3, <1>5, <2>1, UndoGoes DEF Undoing
<1> QED BY <1>4, <1>5 DEF CheckUndo

(* Who is alone finds no transaction in its way. *)
LEMMA BeginUndoTrue ==
  ASSUME NEW p \in Procs, Deleter(p), BeginUndo(p)
  PROVE  DeleteSound(p)' /\ DeleteTrue(p)
<1>1. /\ loc[p].pc = "undoBegin" /\ loc[p].pc \in Undoing
      /\ UNCHANGED <<row, path, index, backup, budget>>
  BY DEF BeginUndo, At, Undoing
<1>2. /\ Within(p) /\ UndoSound(p) /\ loc[p] \in Locals /\ loc \in [Procs -> Locals] /\ TypeOK
      /\ budget.faults \in Nat /\ loc[p].alone /\ loc[p].undo \subseteq Saved
  BY DeleterKnown
<1>3. /\ Seen' \in {None, CwdOf(loc[p].before.file)} /\ (index' => loc[p].before.index)
      /\ budget'.faults <= budget.faults
  BY <1>1, <1>2 DEF Within, Seen
<1>4. ASSUME NEW d \in Dbs PROVE writer[d] = None
  <2>1. \A q \in Procs : loc[q].pc \in {"idle", "undoBegin"}
    BY <1>2, <1>1 DEF Deleter, UndoInv, TrulyAlone, Idle
  <2>2. \A q \in Procs : writer[d] # q
    BY <2>1 DEF Deleter, Writers, Held, InTx
  <2> QED BY <1>2, <2>2 DEF TypeOK
<1>5. ASSUME NEW b \in loc[p].pending
      PROVE  writer[backup[b].db] = None /\ row[backup[b].db] = None
  BY <1>1, <1>2, SavedTyped, <1>4 DEF UndoSound
<1>6. loc' = [loc EXCEPT ![p].pending = {}, ![p].pc = "undoCommit"] /\ UNCHANGED report
  BY <1>5 DEF BeginUndo
<1>7. /\ loc'[p].pc = "undoCommit" /\ loc'[p].before = loc[p].before /\ loc'[p].done = loc[p].done
      /\ loc'[p].token = loc[p].token /\ loc'[p].bad = loc[p].bad /\ loc'[p].undo = loc[p].undo
  BY <1>2, <1>6 DEF Locals
<1> QED BY <1>1, <1>3, <1>6, <1>7, UndoGoes DEF Undoing

(* A fault. *)
LEMMA FaultSpends ==
  ASSUME TypeOK, Fault
  PROVE  budget'.faults < budget.faults /\ budget'.faults <= budget.faults
BY SessionAssumption DEF TypeOK, Fault

LEMMA FaultInUndo ==
  ASSUME NEW p \in Procs, Deleter(p), loc[p].pc \in Undoing, Fault, UndoFails(p),
         UNCHANGED <<row, path, index, backup>>
  PROVE  DeleteSound(p)' /\ DeleteTrue(p)
<1>1. Within(p) /\ TypeOK
  BY DeleterKnown
<1>2. /\ Seen' \in {None, CwdOf(loc[p].before.file)} /\ (index' => loc[p].before.index)
  BY <1>1 DEF Within, Seen
<1>3. budget'.faults < budget.faults /\ budget'.faults <= budget.faults
  BY <1>1, FaultSpends
<1>4. AfterUndo(p, FALSE)
  BY DEF UndoFails
<1> QED BY <1>2, <1>3, <1>4, AfterUndoTrue

LEMMA CommitUndoTrue ==
  ASSUME NEW p \in Procs, Deleter(p), CommitUndo(p)
  PROVE  DeleteSound(p)' /\ DeleteTrue(p)
<1>1. /\ loc[p].pc = "undoCommit" /\ loc[p].pc \in Undoing
      /\ UNCHANGED <<path, index, backup>>
  BY DEF CommitUndo, At, Undoing
<1>2. /\ Within(p) /\ IndInv /\ TypeOK /\ budget.faults \in Nat /\ loc[p].undo \subseteq Saved
  BY DeleterKnown
<1>3. /\ Seen' \in {None, CwdOf(loc[p].before.file)} /\ (index' => loc[p].before.index)
  BY <1>1, <1>2 DEF Within, Seen
<1>4. CASE Fault /\ UndoFails(p) /\ UNCHANGED row
  BY <1>1, <1>4, FaultInUndo
<1>5. CASE Goto(p, "undoFiles") /\ UNCHANGED <<row, report, budget>>
  BY <1>2, <1>5, PlaceOnly, <1>1, <1>3, UndoGoes DEF Undoing
<1>6. ASSUME NEW b \in loc[p].undo, row' = RestoredRow(b), UNCHANGED <<loc, report, budget>>
      PROVE  DeleteSound(p)' /\ DeleteTrue(p)
  BY <1>2, <1>6, <1>1, <1>3, UndoGoes DEF RestoredRow, DbsOf, TypeOK
<1> QED BY <1>4, <1>5, <1>6 DEF CommitUndo

LEMMA RestoreFileTrue ==
  ASSUME NEW p \in Procs, Deleter(p), RestoreFile(p)
  PROVE  DeleteSound(p)' /\ DeleteTrue(p)
<1>1. /\ loc[p].pc = "undoFiles" /\ loc[p].pc \in Undoing
      /\ UNCHANGED <<row, index, backup>>
  BY DEF RestoreFile, At, Undoing
<1>2. /\ Within(p) /\ IndInv /\ TypeOK /\ budget.faults \in Nat /\ loc[p].undo \subseteq Saved
      /\ Backed(p) /\ loc[p].undo \subseteq Tokens(p)
  BY DeleterKnown, UndoesTokens, <1>1
<1>3. CASE Fault /\ UndoFails(p) /\ UNCHANGED path
  BY <1>1, <1>3, FaultInUndo
<1>4. ASSUME Goto(p, "undoIndex"), UNCHANGED <<report, budget>>,
             \/ UNCHANGED path
             \/ \E b \in loc[p].undo : backup[b].file # None
                                       /\ path' = [backup[b].file EXCEPT !.ino = FreshInode]
      PROVE  DeleteSound(p)' /\ DeleteTrue(p)
  <2>1. /\ loc'[p].pc = "undoIndex" /\ loc'[p].before = loc[p].before /\ loc'[p].done = loc[p].done
        /\ loc'[p].token = loc[p].token /\ loc'[p].bad = loc[p].bad /\ loc'[p].undo = loc[p].undo
    BY <1>2, <1>4, PlaceOnly
  <2>2. ASSUME NEW b \in loc[p].undo, backup[b].file # None,
               path' = [backup[b].file EXCEPT !.ino = FreshInode]
        PROVE  Seen' = CwdOf(backup[b].file)
    BY <1>2, <2>2, SavedTyped, FreshIsFresh, SessionAssumption DEF File, Seen, CwdOf
  <2>3. Seen' \in {None, CwdOf(loc[p].before.file)}
    <3>1. CASE UNCHANGED path
      BY <1>2, <3>1 DEF Within, Seen
    <3> QED BY <1>2, <1>4, <2>2, <3>1 DEF Backed
  <2>4. index' => loc[p].before.index
    BY <1>1, <1>2 DEF Within
  <2> QED BY <1>1, <1>2, <1>4, <2>1, <2>3, <2>4, UndoGoes DEF Undoing
<1> QED BY <1>3, <1>4 DEF RestoreFile

LEMMA RestoreIndexTrue ==
  ASSUME NEW p \in Procs, Deleter(p), RestoreIndex(p)
  PROVE  DeleteSound(p)' /\ DeleteTrue(p)
<1>1. /\ loc[p].pc = "undoIndex" /\ loc[p].pc \in Undoing
      /\ UNCHANGED <<row, path, backup>>
  BY DEF RestoreIndex, At, Undoing
<1>2. /\ Within(p) /\ TypeOK /\ budget.faults \in Nat /\ Backed(p) /\ UndoSound(p)
      /\ loc[p].undo \subseteq Tokens(p) /\ loc[p].alone
  BY DeleterKnown, UndoesTokens, <1>1
<1>3. CASE Fault /\ UndoFails(p) /\ UNCHANGED index
  BY <1>1, <1>3, FaultInUndo
<1>4. CASE /\ index' = (index \/ \E b \in loc[p].undo : backup[b].index)
           /\ AfterUndo(p, TRUE)
           /\ UNCHANGED budget
  <2>1. Seen' \in {None, CwdOf(loc[p].before.file)} /\ Seen' = Seen
    BY <1>1, <1>2 DEF Within, Seen
  <2>2. index' => loc[p].before.index
    BY <1>2, <1>4 DEF Within, Backed
  <2>3. \A b \in loc[p].undo : row'[backup[b].db] = backup[b].cwd
    BY <1>1, <1>2 DEF UndoSound
  <2>4. (\E b \in loc[p].undo : backup[b].file # None) => Seen' # None
    BY <1>2, NothingSeen, <1>1, <2>1 DEF TypeOK, Seen, UndoSound
  <2>5. (\E b \in loc[p].undo : backup[b].index) => index'
    BY <1>4
  <2>6. budget'.faults <= budget.faults
    BY <1>2, <1>4
  <2> QED BY <1>1, <1>4, <2>1, <2>2, <2>3, <2>4, <2>5, <2>6, AfterUndoTrue
<1> QED BY <1>3, <1>4 DEF RestoreIndex

LEMMA UndoStepTrue ==
  ASSUME NEW p \in Procs, Deleter(p), Undo(p)
  PROVE  DeleteSound(p)' /\ DeleteTrue(p)
BY CheckUndoTrue, BeginUndoTrue, CommitUndoTrue, RestoreFileTrue, RestoreIndexTrue DEF Undo

LEMMA CandidateFailsTrue ==
  ASSUME NEW p \in Procs, Deleter(p), loc[p].pc \in {"delTx", "delVerify", "delCommit"},
         NEW own, CandidateFails(p, own), UNCHANGED <<row, path, index, backup>>
  PROVE  DeleteSound(p)' /\ DeleteTrue(p)
<1> PICK B : B = loc[p].before
  OBVIOUS
<1>1. /\ loc[p] \in Locals /\ Tabled(p) /\ Within(p) /\ TypeOK /\ B \in Pictures /\ IndInv
  BY DeleterKnown
<1>2. /\ loc[p].bad = FALSE
      /\ \A d \in Dbs : row[d] = IF d \in DbsOf(loc[p].done) THEN None ELSE B.row[d]
      /\ loc[p].done = {} => index = B.index /\ Seen = CwdOf(B.file)
  BY <1>1 DEF Tabled, Gone, Deleting
<1>3. CASE loc[p].done = {}
  <2>1. Ended(p, "failed")
    BY <1>2, <1>3 DEF CandidateFails
  <2>2. \A d \in Dbs : row[d] = B.row[d]
    BY <1>2, <1>3 DEF DbsOf
  <2>3. row' = B.row
    BY <1>1, <2>2 DEF TypeOK, Pictures
  <2>4. Seen' = CwdOf(B.file) /\ index' = B.index
    BY <1>2, <1>3 DEF Seen
  <2> QED BY <2>1, <2>3, <2>4, EndsTrue
<1>4. CASE loc[p].done # {}
  <2> DEFINE l == [loc[p] EXCEPT !.undo = loc[p].done, !.token = None, !.pc = "undoCheck"]
  <2>1. loc' = [loc EXCEPT ![p] = l] /\ UNCHANGED report
    BY <1>4 DEF CandidateFails
  <2>2. /\ l.pc = "undoCheck" /\ l.token = None /\ l.done = loc[p].done /\ l.undo = loc[p].done
        /\ l.bad = FALSE /\ l.before = B
    BY <1>1, <1>2 DEF Locals
  <2> HIDE DEF l
  <2>3. loc'[p] = l
    BY <1>1, <2>1, SetsOwn
  <2>4. Backed(p)' /\ Within(p)'
    BY <1>1, <2>2, <2>3, BackedStays DEF Within, Seen
  <2>5. Tabled(p)'
    BY <2>2, <2>3 DEF Tabled, Deleting
  <2>6. DbsOf(Tokens(p))' = DbsOf(loc[p].done)
    BY <2>2, <2>3 DEF DbsOf, Tokens
  <2>7. Undone(p)'
    BY <1>2, <1>4, <2>2, <2>3, <2>6 DEF Undone
  <2> QED BY <2>2, <2>3, <2>4, <2>5, <2>7 DEF DeleteSound, DeleteTrue, At
<1> QED BY <1>3, <1>4

LEMMA SignedIfThere ==
  ASSUME TypeOK
  PROVE  (IF path = None THEN None ELSE SignatureOf(path)) = None <=> path = None
<1>1. path # None => SignatureOf(path) \in Signatures
  BY DEF TypeOK, SignatureOf, Signatures, File
<1> QED BY <1>1, SessionAssumption

(* A backup is of what is there, the first one of all there was. *)
LEMMA BackUpTrue ==
  ASSUME NEW p \in Procs, Deleter(p), BackUp(p)
  PROVE  DeleteSound(p)' /\ DeleteTrue(p)
<1> PICK B : B = loc[p].before
  OBVIOUS
<1>1. loc[p].pc = "delTx" /\ UNCHANGED <<row, path, index>>
  BY DEF BackUp, At
<1>2. /\ loc[p] \in Locals /\ Tabled(p) /\ Within(p) /\ Backed(p) /\ Ledger(p) /\ TypeOK /\ IndInv
      /\ loc[p].done \subseteq Saved /\ B \in Pictures
  BY DeleterKnown
<1>3. CASE CandidateFails(p, {}) /\ UNCHANGED backup
  BY <1>1, <1>3, CandidateFailsTrue
<1>4. ASSUME NEW d \in NextDb(p), NEW b \in NextBackup,
             backup' = [backup EXCEPT ![b] = BackupOf(d)],
             loc' = [loc EXCEPT ![p] =
                      [@ EXCEPT !.token = b, !.pc = "delVerify", !.bad = FALSE,
                                !.sig = IF path = None THEN None ELSE SignatureOf(path)]]
      PROVE  DeleteSound(p)' /\ DeleteTrue(p)
  <2> PICK s : s = IF path = None THEN None ELSE SignatureOf(path)
    OBVIOUS
  <2> DEFINE l == [loc[p] EXCEPT !.token = b, !.pc = "delVerify", !.bad = FALSE, !.sig = s]
  <2>1. loc' = [loc EXCEPT ![p] = l]
    BY <1>4
  <2>2. /\ l.pc = "delVerify" /\ l.token = b /\ l.bad = FALSE /\ l.sig = s /\ l.before = B
        /\ l.done = loc[p].done /\ l.dbs = loc[p].dbs
    BY <1>2 DEF Locals
  <2> HIDE DEF l
  <2>3. loc'[p] = l
    BY <1>2, <2>1, SetsOwn
  <2>4. d \in Dbs /\ d \in loc[p].dbs /\ b \in Backups /\ backup[b] = None /\ b # None /\ b \notin Saved
    BY <1>2, SessionAssumption DEF NextDb, NextBackup, Saved, Locals
  <2>5. /\ backup'[b] = BackupOf(d)
        /\ \A a \in loc[p].done : a # b /\ backup'[a] = backup[a]
    BY <1>2, <1>4, <2>4 DEF TypeOK
  <2>6. /\ backup'[b].db = d /\ backup'[b].cwd = row[d] /\ backup'[b].file = path
        /\ backup'[b].index = index
    BY <2>5 DEF BackupOf
  <2>7. /\ row[d] = B.row[d]
        /\ loc[p].done = {} => Seen = CwdOf(B.file) /\ index = B.index
        /\ loc[p].done # {} => path = None /\ index = FALSE
    BY <1>1, <1>2, <2>4 DEF Ledger, DbsOf, Tabled, Gone, Deleting
  <2>8. s = None <=> path = None
    BY <1>2, SignedIfThere
  <2>9. DbsOf(loc[p].done)' = DbsOf(loc[p].done)
    BY <2>2, <2>3, <2>5 DEF DbsOf
  <2>10. Backed(p)'
    <3>1. Tokens(p)' = loc[p].done \cup {b}
      BY <2>2, <2>3, <2>4 DEF Tokens
    <3>2. \A a \in loc[p].done :
            /\ backup'[a].cwd = B.row[backup'[a].db]
            /\ CwdOf(backup'[a].file) \in {None, CwdOf(B.file)}
            /\ backup'[a].index => B.index
      BY <1>2, <2>5 DEF Backed, Tokens
    <3>3. /\ backup'[b].cwd = B.row[backup'[b].db]
          /\ CwdOf(backup'[b].file) \in {None, CwdOf(B.file)}
          /\ backup'[b].index => B.index
      BY <1>2, <2>6, <2>7 DEF Within, Seen
    <3>4. B # None /\ (loc[p].done # {} => \E a \in loc[p].done : Full(a, B)')
      BY <1>2, <2>5 DEF Backed, Full
    <3>5. loc[p].done = {} => Full(b, B)'
      BY <2>6, <2>7 DEF Full, Seen
    <3> QED BY <2>2, <2>3, <2>6, <2>7, <3>1, <3>2, <3>3, <3>4, <3>5 DEF Backed, Full
  <2>11. Within(p)'
    BY <1>1, <1>2, <2>2, <2>3 DEF Within, Seen
  <2>12. Tabled(p)'
    BY <1>1, <2>2, <2>3, <2>9, <1>2, <2>8 DEF Gone, Tabled, Deleting, Seen
  <2>13. Undone(p)'
    BY <2>2, <2>3 DEF Undone, Undoing
  <2> QED BY <2>2, <2>3, <2>10, <2>11, <2>12, <2>13 DEF DeleteSound, DeleteTrue, At
<1> QED BY <1>3, <1>4 DEF BackUp

LEMMA VerifyBackupTrue ==
  ASSUME NEW p \in Procs, Deleter(p), VerifyBackup(p)
  PROVE  DeleteSound(p)' /\ DeleteTrue(p)
<1>1. loc[p].pc = "delVerify" /\ UNCHANGED <<row, path, index, backup>>
  BY DEF VerifyBackup, At
<1>2. /\ Tabled(p) /\ Within(p) /\ IndInv
  BY DeleterKnown
<1>3. CASE CandidateFails(p, {loc[p].token})
  BY <1>1, <1>3, CandidateFailsTrue
<1>4. CASE Goto(p, "delCommit")
  <2>1. /\ loc'[p].pc = "delCommit" /\ loc'[p].before = loc[p].before /\ loc'[p].done = loc[p].done
        /\ loc'[p].token = loc[p].token /\ loc'[p].bad = loc[p].bad /\ loc'[p].dbs = loc[p].dbs
        /\ loc'[p].sig = loc[p].sig
    BY <1>2, <1>4, PlaceOnly
  <2>2. Backed(p)' /\ Within(p)'
    BY <1>1, <1>2, <2>1, BackedStays DEF Within, Seen
  <2>3. Tabled(p)'
    BY <1>1, <1>2, <2>1 DEF Tabled, Deleting, Gone, DbsOf, Seen
  <2>4. Undone(p)'
    BY <2>1 DEF Undone, Undoing
  <2> QED BY <2>1, <2>2, <2>3, <2>4 DEF DeleteSound, DeleteTrue, At
<1> QED BY <1>3, <1>4 DEF VerifyBackup

(* The row that goes is the one the backup is of. *)
LEMMA DeleteRowsTrue ==
  ASSUME NEW p \in Procs, Deleter(p), DeleteRows(p)
  PROVE  DeleteSound(p)' /\ DeleteTrue(p)
<1>1. loc[p].pc = "delCommit" /\ loc[p].pc \in Deleting /\ UNCHANGED <<path, index, backup>>
  BY DEF DeleteRows, At, Deleting
<1>2. /\ Tabled(p) /\ Within(p) /\ IndInv /\ TypeOK /\ Ledger(p) /\ loc[p] \in Locals
  BY DeleterKnown
<1>3. CASE CandidateFails(p, {loc[p].token}) /\ UNCHANGED row
  BY <1>1, <1>3, CandidateFailsTrue
<1>4. ASSUME NEW d \in NextDb(p), row' = [row EXCEPT ![d] = None], Goto(p, "delFile")
      PROVE  DeleteSound(p)' /\ DeleteTrue(p)
  <2>1. /\ loc'[p].pc = "delFile" /\ loc'[p].before = loc[p].before /\ loc'[p].done = loc[p].done
        /\ loc'[p].token = loc[p].token /\ loc'[p].bad = loc[p].bad /\ loc'[p].dbs = loc[p].dbs
        /\ loc'[p].sig = loc[p].sig
    BY <1>2, <1>4, PlaceOnly
  <2>2. backup[loc[p].token].db = d /\ d \in Dbs
    BY <1>1, <1>2, <1>4, NextDbIsOne DEF Ledger, NextDb, Locals
  <2>3. Backed(p)' /\ Within(p)'
    BY <1>1, <1>2, <2>1, BackedStays DEF Within, Seen
  <2>4. Gone(p)' = DbsOf(loc[p].done) \cup {d} /\ Gone(p) = DbsOf(loc[p].done)
    BY <1>1, <2>1, <2>2 DEF Gone, DbsOf
  <2>5. \A e \in Dbs : row'[e] = IF e \in Gone(p)' THEN None ELSE loc[p].before.row[e]
    BY <1>1, <1>2, <1>4, <2>2, <2>4 DEF Tabled, TypeOK
  <2>6. Tabled(p)'
    BY <1>1, <1>2, <2>1, <2>5 DEF Tabled, Deleting, DbsOf, Seen
  <2>7. Undone(p)'
    BY <2>1 DEF Undone, Undoing
  <2> QED BY <2>1, <2>3, <2>6, <2>7 DEF DeleteSound, DeleteTrue, At
<1> QED BY <1>3, <1>4 DEF DeleteRows

(* The rollout goes, or the step is bad. *)
LEMMA DeleteFileTrue ==
  ASSUME NEW p \in Procs, Deleter(p), DeleteFile(p)
  PROVE  DeleteSound(p)' /\ DeleteTrue(p)
<1>1. loc[p].pc = "delFile" /\ loc[p].pc \in Deleting /\ UNCHANGED <<row, index, backup>>
  BY DEF DeleteFile, At, Deleting, del_vars
<1>2. /\ Tabled(p) /\ Within(p) /\ IndInv /\ TypeOK /\ loc[p] \in Locals
  BY DeleterKnown
<1>3. loc[p].sig = None => path = None
  BY <1>1, <1>2 DEF Tabled
<1>4. PICK bad \in BOOLEAN :
        /\ loc' = [loc EXCEPT ![p].bad = bad, ![p].pc = "delIndex"]
        /\ path' \in {path, None}
        /\ bad = FALSE => path' = None
        /\ loc[p].sig = None => bad = FALSE
  BY <1>3 DEF DeleteFile
<1> DEFINE l == [loc[p] EXCEPT !.bad = bad, !.pc = "delIndex"]
<1>5. loc' = [loc EXCEPT ![p] = l]
  BY <1>2, <1>4 DEF TypeOK
<1>6. /\ l.pc = "delIndex" /\ l.before = loc[p].before /\ l.done = loc[p].done
      /\ l.token = loc[p].token /\ l.bad = bad /\ l.dbs = loc[p].dbs /\ l.sig = loc[p].sig
  BY <1>2 DEF Locals
<1> HIDE DEF l
<1>7. loc'[p] = l
  BY <1>2, <1>5, SetsOwn
<1>8. Backed(p)'
  BY <1>1, <1>6, <1>7, BackedStays
<1>9. Within(p)'
  BY <1>1, <1>2, <1>4, <1>6, <1>7 DEF Within, Seen, CwdOf
<1>10. Tabled(p)'
  <2>1. Gone(p)' = Gone(p) /\ DbsOf(loc[p].done)' = DbsOf(loc[p].done)
    BY <1>1, <1>6, <1>7 DEF Gone, DbsOf
  <2>2. /\ l.pc \in Deleting /\ l.pc = "delIndex"
        /\ bad = FALSE => path' = None
        /\ path = None => path' = None
        /\ l.sig = None => path' = None /\ bad = FALSE
    BY <1>1, <1>3, <1>4, <1>6 DEF Deleting
  <2>3. /\ l.dbs \cup DbsOf(l.done) = {d \in Dbs : loc[p].before.row[d] # None}
        /\ \A d \in Dbs : row[d] = IF d \in Gone(p) THEN None ELSE loc[p].before.row[d]
        /\ l.done = {} => index = loc[p].before.index
        /\ l.done # {} => path = None /\ index = FALSE /\ l.sig = None
    BY <1>1, <1>2, <1>6 DEF Tabled
  <2>4. DbsOf(loc[p].done)' = DbsOf(l.done)
    BY <1>6, <1>7, <2>1
  <2> QED BY <1>1, <1>6, <1>7, <2>1, <2>2, <2>3, <2>4 DEF Tabled
<1>11. Undone(p)'
  BY <1>6, <1>7 DEF Undone, Undoing
<1> QED BY <1>6, <1>7, <1>8, <1>9, <1>10, <1>11 DEF DeleteSound, DeleteTrue, At

(* The verdict. *)
LEMMA BadVerdictTrue ==
  ASSUME NEW p \in Procs, Deleter(p), loc[p].pc = "delIndex", Verdict(p, TRUE),
         UNCHANGED <<row, path, backup>>, index' = index \/ index' = FALSE,
         loc[p].done # {} => budget'.faults < MaxFaults
  PROVE  DeleteSound(p)' /\ DeleteTrue(p)
<1> PICK B : B = loc[p].before
  OBVIOUS
<1>1. /\ loc[p] \in Locals /\ Tabled(p) /\ Within(p) /\ TypeOK /\ IndInv
      /\ loc[p].token # None /\ Tokens(p) \subseteq Saved
  BY DeleterKnown DEF Deleting
<1> DEFINE l == [loc[p] EXCEPT !.bad = TRUE, !.undo = {loc[p].token}, !.pc = "undoCheck"]
<1>2. loc' = [loc EXCEPT ![p] = l]
  BY DEF Verdict
<1>3. /\ l.pc = "undoCheck" /\ l.token = loc[p].token /\ l.done = loc[p].done
      /\ l.undo = {loc[p].token} /\ l.bad = TRUE /\ l.before = B
  BY <1>1 DEF Locals
<1> HIDE DEF l
<1>4. loc'[p] = l
  BY <1>1, <1>2, SetsOwn
<1>5. Backed(p)' /\ Within(p)'
  BY <1>1, <1>3, <1>4, BackedStays DEF Within, Seen
<1>6. Tabled(p)'
  BY <1>3, <1>4 DEF Tabled, Deleting
<1>7. DbsOf(Tokens(p))' = DbsOf(Tokens(p)) /\ Gone(p) = DbsOf(Tokens(p))
      /\ loc[p].token \in Tokens(p)
  BY <1>1, <1>3, <1>4 DEF DbsOf, Tokens, Gone
<1>8. /\ \A d \in Dbs : d \in DbsOf(Tokens(p)) \/ row[d] = B.row[d]
      /\ row[backup[loc[p].token].db] = None
  BY <1>1, <1>7, SavedTyped DEF Gone, Tabled, Deleting
<1>9. Undone(p)'
  BY <1>1, <1>3, <1>4, <1>7, <1>8 DEF Undone
<1> QED BY <1>3, <1>4, <1>5, <1>6, <1>9 DEF DeleteSound, DeleteTrue, At

LEMMA GoodVerdictTrue ==
  ASSUME NEW p \in Procs, Deleter(p), loc[p].pc = "delIndex", loc[p].bad = FALSE, Verdict(p, FALSE),
         UNCHANGED <<row, path, backup>>, index' = FALSE
  PROVE  DeleteSound(p)' /\ DeleteTrue(p)
<1> PICK B : B = loc[p].before
  OBVIOUS
<1>1. /\ loc[p] \in Locals /\ Tabled(p) /\ Within(p) /\ Backed(p) /\ Ledger(p) /\ TypeOK /\ IndInv
      /\ loc[p].token # None /\ Tokens(p) \subseteq Saved /\ None \notin Backups
  BY DeleterKnown DEF Deleting
<1>2. /\ path = None
      /\ loc[p].dbs \cup DbsOf(loc[p].done) = {d \in Dbs : B.row[d] # None}
      /\ \A d \in Dbs : row[d] = IF d \in Gone(p) THEN None ELSE B.row[d]
  BY <1>1 DEF Tabled, Deleting
<1> PICK x : x = backup[loc[p].token].db
  OBVIOUS
<1>3. /\ NextDb(p) = {x} /\ x \in loc[p].dbs
      /\ Gone(p) = DbsOf(loc[p].done) \cup {x}
      /\ Tokens(p) = loc[p].done \cup {loc[p].token}
      /\ DbsOf(Tokens(p)) = Gone(p)
  BY <1>1, NextDbIsOne DEF Ledger, Deleting, NextDb, Gone, Tokens, DbsOf
<1>4. PICK f \in Tokens(p) : Full(f, B)
  BY <1>1, <1>3 DEF Backed
<1>5. CASE loc[p].dbs # NextDb(p)
  <2> DEFINE l == [loc[p] EXCEPT !.dbs = loc[p].dbs \ NextDb(p),
                                 !.done = loc[p].done \cup {loc[p].token},
                                 !.token = None, !.sig = None, !.pc = "delTx"]
  <2>1. loc' = [loc EXCEPT ![p] = l]
    BY <1>5 DEF Verdict
  <2>2. /\ l.pc = "delTx" /\ l.token = None /\ l.done = Tokens(p) /\ l.bad = FALSE
        /\ l.before = B /\ l.dbs = loc[p].dbs \ {x}
    BY <1>1, <1>3 DEF Locals
  <2> HIDE DEF l
  <2>3. loc'[p] = l
    BY <1>1, <2>1, SetsOwn
  <2>4. Tokens(p)' = Tokens(p)
    BY <2>2, <2>3 DEF Tokens
  <2>5. Backed(p)'
    BY <1>1, <1>4, <2>2, <2>3, <2>4 DEF Backed, Full
  <2>6. Within(p)'
    BY <1>1, <2>2, <2>3 DEF Within, Seen
  <2>7. DbsOf(loc[p].done)' = Gone(p) /\ Gone(p)' = Gone(p)
    BY <1>3, <2>2, <2>3 DEF DbsOf, Gone
  <2>8. l.dbs \cup Gone(p) = {d \in Dbs : B.row[d] # None} /\ l.done # {}
    BY <1>2, <1>3, <2>2
  <2>9. Tabled(p)'
    BY <1>2, <2>2, <2>3, <2>7, <2>8 DEF Tabled, Deleting
  <2>10. Undone(p)'
    BY <2>2, <2>3 DEF Undone, Undoing
  <2> QED BY <2>2, <2>3, <2>5, <2>6, <2>9, <2>10 DEF DeleteSound, DeleteTrue, At
<1>6. CASE loc[p].dbs = NextDb(p)
  <2>1. Ended(p, "deleted") /\ given' = Tokens(p)
    BY <1>3, <1>6 DEF Verdict
  <2>2. loc'[p] = Idle /\ report'[p] = "deleted"
    BY <1>1, <2>1, SetsOwn DEF Ended
  <2>3. ASSUME NEW d \in Dbs PROVE row'[d] = None
    BY <1>2, <1>3, <1>6
  <2>4. ASSUME NEW d \in Dbs, row'[d] # B.row[d]
        PROVE  \E b \in given' : backup'[b].db = d /\ backup'[b].cwd = B.row[d]
    BY <1>2, <1>3, <2>4, <1>1, <2>1 DEF DbsOf, Backed
  <2>5. Covered(given', B)
    BY <1>4, <2>1, <2>4 DEF Covered, Full
  <2>6. DeleteSound(p)'
    BY <2>2 DEF DeleteSound, Idle
  <2>7. DeleteTrue(p)
    BY <1>2, <2>2, <2>3, <2>5 DEF DeleteTrue
  <2> QED BY <2>6, <2>7
<1> QED BY <1>5, <1>6

LEMMA DeleteIndexTrue ==
  ASSUME NEW p \in Procs, Deleter(p), DeleteIndex(p)
  PROVE  DeleteSound(p)' /\ DeleteTrue(p)
<1>1. loc[p].pc = "delIndex" /\ loc[p].pc \in Deleting /\ UNCHANGED <<row, path, backup>>
  BY DEF DeleteIndex, At, Deleting
<1>2. /\ Tabled(p) /\ loc[p].bad \in BOOLEAN /\ TypeOK /\ TypeOK'
      /\ loc[p].done # {} => loc[p].bad = FALSE
  BY DeleterKnown, <1>1 DEF Deleter, Tabled, Locals
<1>3. CASE index' = FALSE /\ Verdict(p, loc[p].bad)
  <2>1. CASE loc[p].bad = TRUE
    BY <1>3, <2>1, <1>1, <1>2, BadVerdictTrue DEF Verdict
  <2>2. CASE loc[p].bad = FALSE
    BY <1>3, <2>2, <1>1, GoodVerdictTrue DEF Verdict
  <2> QED BY <1>2, <2>1, <2>2
<1>4. CASE Fault /\ UNCHANGED index /\ Verdict(p, TRUE)
  <2>1. budget'.faults < MaxFaults
    BY <1>2, SessionAssumption, <1>4, FaultSpends DEF TypeOK
  <2> QED BY <1>1, <1>4, <2>1, BadVerdictTrue
<1> QED BY <1>3, <1>4 DEF DeleteIndex

LEMMA DeleteStepTrue ==
  ASSUME NEW p \in Procs, Deleter(p), Delete(p)
  PROVE  DeleteSound(p)' /\ DeleteTrue(p)
BY BackUpTrue, VerifyBackupTrue, DeleteRowsTrue, DeleteFileTrue, DeleteIndexTrue DEF Delete

----
(* What is known of a delete is kept. *)
LEMMA DeleteInvInit == Init => DeleteInv
BY DEF Init, DeleteInv, DeleteSound, Idle

LEMMA DeleteSoundStays ==
  ASSUME NEW p \in Procs, DeleteSound(p), UNCHANGED <<row, index, backup, loc>>, Seen' = Seen,
         path' = None <=> path = None, budget'.faults = budget.faults
  PROVE  DeleteSound(p)'
<1>1. Backed(p)' = Backed(p) /\ Gone(p)' = Gone(p)
  BY DEF Backed, Full, Tokens, Gone, DbsOf
<1>2. Within(p)' = Within(p)
  BY DEF Within
<1>3. Tabled(p)' = Tabled(p)
  BY <1>1 DEF Tabled, DbsOf
<1>4. Undone(p)' = Undone(p)
  BY DEF Undone, Tokens, DbsOf
<1> QED BY <1>1, <1>2, <1>3, <1>4 DEF DeleteSound

LEMMA StartsDeleteTrue ==
  ASSUME IndInv, UndoInv, NEW p \in Procs,
         StartList(p) \/ (\E cwd \in Cwds : StartMove(p, cwd)) \/ StartDelete(p) \/ StartUndo(p)
  PROVE  DeleteInv' /\ \A q \in Procs : DeleteTrue(q)
<1> DEFINE a == \A r \in Procs \ {p} : loc[r] = Idle
<1>1. PICK l : /\ Start(p, l) /\ DOMAIN l = DOMAIN Idle
               /\ UNCHANGED <<row, writer, path, index, backup, given>>
               /\ l.pc \in {"scan", "delTx", "undoCheck"}
               /\ \/ l.op # "delete"
                  \/ /\ l.op = "delete" /\ l.pc = "delTx" /\ l.before = Picture /\ l.dbs = Holders
                     /\ l.token = None /\ l.done = {} /\ l.bad = FALSE
  BY Starting
<1>2. /\ \A q \in Procs \ {p} : ~loc'[q].alone /\ loc'[q].pc = loc[q].pc
      /\ \A q \in Procs : report'[q] = "none"
  BY <1>1, StartNotAlone
<1>3. loc'[p] = [l EXCEPT !.alone = a] /\ loc[p] = Idle
  BY <1>1 DEF Start
<1> HIDE DEF a
<1>4. /\ loc'[p].op = l.op /\ loc'[p].pc = l.pc /\ loc'[p].before = l.before
      /\ loc'[p].dbs = l.dbs /\ loc'[p].token = l.token /\ loc'[p].done = l.done
      /\ loc'[p].bad = l.bad
  BY <1>1, <1>3 DEF Idle
<1>5. ASSUME l.op = "delete" PROVE DeleteSound(p)'
  <2>1. /\ Picture # None /\ Picture.row = row /\ Picture.file = path /\ Picture.index = index
        /\ TypeOK
    BY PictureTyped, SessionAssumption DEF IndInv, Picture
  <2>2. Backed(p)'
    BY <1>1, <1>4, <1>5, <2>1 DEF Backed, Tokens
  <2>3. Within(p)'
    BY <1>1, <1>4, <1>5, <2>1 DEF Within, Seen
  <2>4. DbsOf(loc[p].done)' = {} /\ Gone(p)' = {}
    BY <1>4, <1>5, <1>1 DEF DbsOf, Gone
  <2>5. Tabled(p)'
    BY <1>1, <1>4, <1>5, <2>1, <2>4 DEF Tabled, Deleting, Seen, Holders
  <2>6. Undone(p)'
    BY <1>1, <1>4, <1>5 DEF Undone, Undoing
  <2> QED BY <2>2, <2>3, <2>5, <2>6 DEF DeleteSound
<1>6. DeleteSound(p)'
  BY <1>4, <1>5 DEF DeleteSound
<1>7. \A q \in Procs \ {p} : DeleteSound(q)'
  BY <1>2 DEF DeleteSound
<1>8. \A q \in Procs : DeleteTrue(q)
  BY <1>2, <1>3 DEF DeleteTrue, Idle, At, UndoInv, TrulyAlone
<1> QED BY <1>6, <1>7, <1>8 DEF DeleteInv

LEMMA OwnDeleteTrue ==
  ASSUME UndoInv, NEW p \in Procs, loc[p] # Idle, Own(p), DeleteSound(p)', DeleteTrue(p)
  PROVE  DeleteInv' /\ \A q \in Procs : DeleteTrue(q)
<1>1. \A q \in Procs \ {p} : loc'[q] = loc[q] /\ ~loc[q].alone
  BY NotAlone
<1>2. \A q \in Procs \ {p} : DeleteSound(q)' /\ DeleteTrue(q)
  BY <1>1 DEF DeleteSound, DeleteTrue
<1> QED BY <1>2 DEF DeleteInv

(* A step of an operation that is no delete, or of one that is not alone. *)
LEMMA OtherDeleteTrue ==
  ASSUME UndoInv, NEW p \in Procs, loc[p] # Idle, Own(p), loc[p].op # "delete" \/ ~loc[p].alone
  PROVE  DeleteInv' /\ \A q \in Procs : DeleteTrue(q)
<1>1. loc'[p].op # "delete" \/ ~loc'[p].alone
  BY DEF Own, Idle
<1>2. DeleteSound(p)' /\ DeleteTrue(p)
  BY <1>1 DEF DeleteSound, DeleteTrue
<1> QED BY <1>2, OwnDeleteTrue

LEMMA DeleteInvNext ==
  ASSUME IndInv, TypeOK', UndoInv, Writers, DeleteInv, [Next]_vars
  PROVE  DeleteInv' /\ \A p \in Procs : DeleteTrue(p)
<1>1. CASE UNCHANGED vars
  BY <1>1, DeleteSoundStays DEF vars, Seen, DeleteInv, DeleteTrue
<1>2. CASE CodexAppends
  BY <1>2, AppendNames, DeleteSoundStays DEF CodexAppends, IndInv, TypeOK, DeleteInv, DeleteTrue
<1>3. ASSUME NEW p \in Procs,
             StartList(p) \/ (\E cwd \in Cwds : StartMove(p, cwd)) \/ StartDelete(p) \/ StartUndo(p)
      PROVE  DeleteInv' /\ \A q \in Procs : DeleteTrue(q)
  BY <1>3, StartsDeleteTrue
<1>4. ASSUME NEW p \in Procs, Recover(p) \/ Move(p)
      PROVE  DeleteInv' /\ \A q \in Procs : DeleteTrue(q)
  <2>1. Own(p) /\ loc[p] # Idle
    BY <1>4, RecoverOwn, MoveOwn, Begun DEF MovesOwn
  <2>2. loc[p].op # "delete"
    BY <1>4 DEF Recover, Scan, NextJournal, AllRecovered, RecoveryTimeout, RecoveryBegin, RecoveryAct,
      RecoveryCommit, RecoveryClean, RecoveryDone, Move, Stage, Link, Begin, WriteJournal, Verify,
      Replace, Commit, Recheck, PutBack, Unjournal, Finish, ClearJournal, At, InDb, Recovering,
      Attempting, Preparing, Replacing, IndInv, Placed
  <2> QED BY <2>1, <2>2, OtherDeleteTrue
<1>5. ASSUME NEW p \in Procs, Delete(p) \/ Undo(p)
      PROVE  DeleteInv' /\ \A q \in Procs : DeleteTrue(q)
  <2>1. Own(p) /\ loc[p] # Idle
    BY <1>5, DeleteLedger, UndoLedger, Begun DEF Ledgers
  <2>2. loc[p].pc \in OutsidePCs
    BY <1>5 DEF Delete, BackUp, VerifyBackup, DeleteRows, DeleteFile, DeleteIndex,
                Undo, CheckUndo, BeginUndo, CommitUndo, RestoreFile, RestoreIndex,
                At, OutsidePCs, Deleting
  <2>3. CASE loc[p].op = "delete" /\ loc[p].alone
    BY <2>2, <2>3, <1>5, DeleteStepTrue, UndoStepTrue, <2>1, OwnDeleteTrue DEF DeleteInv, Deleter
  <2>4. CASE ~(loc[p].op = "delete" /\ loc[p].alone)
    BY <2>1, <2>4, OtherDeleteTrue
  <2> QED BY <2>3, <2>4
<1>6. ASSUME NEW p \in Procs, Crash(p)
      PROVE  DeleteInv' /\ \A q \in Procs : DeleteTrue(q)
  <2>1. Own(p) /\ loc[p] # Idle /\ UNCHANGED report
    BY <1>6, CrashOwn DEF Ledgers, Crash
  <2>2. loc'[p] = Idle
    BY <1>6, SetsOwn DEF Crash
  <2>3. DeleteSound(p)' /\ DeleteTrue(p)
    BY <2>1, <2>2 DEF DeleteSound, DeleteTrue, Idle
  <2> QED BY <2>1, <2>3, OwnDeleteTrue
<1> QED BY <1>1, <1>2, <1>3, <1>4, <1>5, <1>6 DEF Next

(* A delete nobody interferes with does what its caller is told, and gives *)
(* the token that can bring back what is gone, one failure allowed.        *)
THEOREM DeleteTellsTruth == Spec => DeleteReportIsTrue
<1>1. Init => IndInv /\ KeepInv /\ UndoInv /\ Writers /\ DeleteInv
  BY IndInit, KeepInit, UndoInvInit, WritersInit, DeleteInvInit
<1>2. IndInv /\ KeepInv /\ UndoInv /\ Writers /\ DeleteInv /\ [Next]_vars
        => /\ (IndInv /\ KeepInv /\ UndoInv /\ Writers /\ DeleteInv)'
           /\ \A p \in Procs : DeleteTrue(p)
  BY IndNext, KeepNext, UndoInvNext, WritersNext, DeleteInvNext DEF IndInv
<1> DEFINE Act == \A p \in Procs : DeleteTrue(p)
<1>3. IndInv /\ KeepInv /\ UndoInv /\ Writers /\ DeleteInv /\ [Next]_vars => [Act]_vars
  BY <1>2
<1>4. Spec => [][Act]_vars
  BY <1>1, <1>2, <1>3, PTL DEF Spec
<1> QED BY <1>4 DEF DeleteReportIsTrue, DeleteTrue

(* What the Manager tells of a move and of a delete is true of every run. *)
THEOREM ManagerTellsTruth == Spec => ReportsAreTrue
BY MoveTellsTruth, DeleteTellsTruth DEF ReportsAreTrue
=============================================================================

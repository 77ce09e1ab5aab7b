----------------------------- MODULE SessionsProofs -----------------------------
(***************************************************************************)
(* Proofs about Sessions, for any processes, databases, workspaces and     *)
(* bounds, whatever fails and whenever a process is killed: its types, the *)
(* conversation, and that moves settle.  (What is told is the subject of   *)
(* module SessionReportsProofs.)  The invariants they rest on and what the *)
(* steps of one process leave of the state of another come first.          *)
(***************************************************************************)
EXTENDS Sessions, FiniteSetTheorems, SequenceTheorems, TLAPS

----
(* Where a process is, and what it then holds. *)
Recovering == {"recTx", "recAct", "recCommit", "recClean", "recDone"}
Preparing  == {"link", "begin", "journal"}
Replacing  == {"verify", "replace"}
Attempting == Preparing \cup Replacing
                \cup {"commit", "recheck", "restore", "unjournal", "finish", "clear"}
InDb       == {"scan", "recover", "stage"} \cup Recovering \cup Attempting
Deleting   == {"delVerify", "delCommit", "delFile", "delIndex"}

Saved == {b \in Backups : backup[b] # None}

Placed(p) ==
  LET l == loc[p] IN
  /\ l.pc \in InDb =>
       /\ l.at \in 1 .. Len(DbOrder)
       /\ l.op \in {"list", "move"}
       /\ l.op = "move" => l.target \in Cwds
  /\ l.pc \in {"stage"} \cup Attempting => l.op = "move"
  /\ IF l.pc \in Recovering THEN l.job \in Moves /\ l.copy \in Journals ELSE l.job = None
  /\ IF l.pc \in Attempting THEN l.move \in Moves /\ l.prev \in Cwds ELSE l.move = None
  /\ l.pc \in Deleting => l.token # None
  /\ l.token # None => l.token \in Saved
  /\ l.done \subseteq Saved /\ l.undo \subseteq Saved /\ l.pending \subseteq Saved

(* The lines of a file, and those that Codex may still append. *)
Short(f) == f # None => f.len + budget.events <= MaxEvents

Fits ==
  /\ Short(path)
  /\ \A k \in Moves : Short(staged[k]) /\ Short(rollback[k])
  /\ \A b \in Saved : Short(backup[b].file)
  /\ given \subseteq Saved

IndInv == TypeOK /\ Fits /\ Dbs # {} /\ \A p \in Procs : Placed(p)

(* The rest of a process's state, its notes for the properties aside. *)
Untouched(p) == loc'[p] = loc[p] \/ loc'[p] = [loc[p] EXCEPT !.alone = FALSE]

----
(* The files there may be. *)
Fitting == {f \in File \cup {None} : Short(f)}

----
(* The places of a delete and of an undo. *)
OutsidePCs == {"delTx", "undoCheck", "undoBegin", "undoCommit", "undoFiles", "undoIndex"}
                \cup Deleting

----
(* The rollout is never lost.  It goes from the path in a delete, which    *)
(* has a backup of it, and by the rename of a staged copy: for that, the   *)
(* copy has to be there still, so nobody else may have a move in hand      *)
(* between its staging and its rename.                                     *)

(* No process has come across the move's journal. *)
Fresh(k) == journal[k] = None /\ \A q \in Procs : k \notin loc[q].todo /\ loc[q].job # k

Owned(p) ==
  LET l == loc[p] IN
  /\ l.pc \in Attempting => outcome[l.move] = "open"
  /\ l.pc \in Preparing => Fresh(l.move)
  /\ l.pc \in Preparing \cup Replacing /\ l.mode = "staged" => staged[l.move] # None
  /\ l.pc \in Replacing =>
       /\ l.mode = "staged"
       /\ journal[l.move] # None /\ journal[l.move].db = Db(p)
       /\ \A q \in Procs : loc[q].job = l.move => loc[q].pc = "recTx"
  /\ l.pc \in {"journal"} \cup Replacing => writer[Db(p)] = p
  /\ l.pc \in {"recover"} \cup Recovering =>
       \A k \in Moves : k \in l.todo \cup {l.job} /\ journal[k] # None => journal[k].db = Db(p)

Apart ==
  \A p, q \in Procs :
    p # q /\ loc[p].pc \in Attempting /\ loc[q].pc \in Attempting => loc[p].move # loc[q].move

UnusedIsFresh == \A k \in Moves : outcome[k] = "unused" => Fresh(k)

BackedUp(p) ==
  loc[p].pc \in Deleting /\ loc[p].sig # None => backup[loc[p].token].file # None

Somewhere == path = None => \E b \in Saved : backup[b].file # None

KeepInv ==
  /\ UnusedIsFresh /\ Apart
  /\ \A p \in Procs : Owned(p) /\ BackedUp(p)
  /\ Somewhere

(* What a step of p leaves of the moves of the others. *)
Gentle(p) ==
  /\ \A q \in Procs \ {p} : Untouched(q)
  /\ \A k \in Moves :
       /\ outcome'[k] = outcome[k] \/ outcome[k] = "unused" \/ k = loc[p].move
       /\ outcome'[k] = "unused" => outcome[k] = "unused"
       /\ \/ journal'[k] = journal[k]
          \/ k = loc[p].move /\ (journal'[k] = None \/ loc[p].pc \in Preparing)
          \/ k = loc[p].job /\ journal'[k] = None /\ loc[p].pc = "recDone"
       /\ \/ staged'[k] = staged[k] \/ outcome[k] = "unused" \/ k = loc[p].move
          \/ k = loc[p].job /\ loc[p].pc \in {"recAct", "recClean"}
       /\ k \in loc'[p].todo \cup {loc'[p].job}
            => k \in loc[p].todo \cup {loc[p].job} \/ journal[k] # None
  /\ \/ loc'[p].job = None \/ loc'[p].pc = "recTx"
     \/ loc'[p].job = loc[p].job /\ loc[p].pc # "recTx"
     \/ loc'[p].job = loc[p].job /\ loc[p].pc = "recTx" /\ writer[Db(p)] = None
  /\ \A d \in Dbs, q \in Procs \ {p} : writer[d] = q => writer'[d] = q
  /\ \A b \in Saved : backup'[b] = backup[b]
  /\ loc'[p].pc \in Attempting =>
       \/ loc[p].pc \in Attempting /\ loc'[p].move = loc[p].move
       \/ outcome[loc'[p].move] = "unused"
  /\ path' = path \/ path' # None \/ \E b \in Saved : backup[b].file # None

----
(* Moves settle: of a session one database lists, while no delete is tried *)
(* and moves take turns, row and rollout agree but for one torn move whose *)
(* journal leads recovery to an agreement.                                 *)

Quiet == budget.deletes = MaxDeletes

Calm ==
  Quiet =>
    /\ given = {} /\ Holders # {}
    /\ \A p \in Procs :
         /\ loc[p].pc \notin OutsidePCs
         /\ loc[p].pc = "recAct" => row[Db(p)] # None
         /\ loc[p].pc = "recCommit" => loc[p].prev # None

OneMover ==
  \A p, q \in Procs : p # q =>
    /\ ~(loc[p].op = "move" /\ loc[q].op = "move")
    /\ loc[p].pc \in {"recheck", "restore", "unjournal"} => loc[q] = Idle

(* What the files name, and the moves with a journal. *)
Seen        == CwdOf(path)
Copy(k)     == CwdOf(staged[k])
Original(k) == CwdOf(rollback[k])
Journaled   == {k \in Moves : journal[k] # None}
Agreed(h)   == Seen = row[h]

(* A move has renamed its rollout and not changed its row; whoever has     *)
(* its journal in hand has not yet acted on it.                            *)
Torn(h, k) ==
  /\ journal[k] # None /\ row[h] = journal[k].prev /\ Seen = journal[k].target
  /\ Original(k) = journal[k].prev
  /\ outcome[k] # "moved"
  /\ \A q \in Procs : loc[q].job = k => loc[q].pc \in {"recTx", "recAct"}

Consistent(h) ==
  /\ Seen # None
  /\ \A k \in Journaled :
       journal[k].db = h /\ ~journal[k].dbOnly /\ journal[k].prev # journal[k].target
  /\ \A j, k \in Journaled : j = k
  /\ Agreed(h) \/ \E k \in Journaled : Torn(h, k)

(* A recovery acts on the journal that is there or, late, on one whose     *)
(* side files are gone.                                                    *)
RecoveringSound(p, h) ==
  LET l == loc[p] IN
  l.pc \in Recovering =>
    /\ Db(p) = h /\ ~l.copy.dbOnly /\ l.copy.prev # l.copy.target
    /\ journal[l.job] # None => l.copy = journal[l.job]
    /\ journal[l.job] = None \/ l.pc = "recDone" => Copy(l.job) = None /\ Original(l.job) = None
    /\ l.pc \in {"recAct", "recCommit"} => writer[h] = p /\ l.prev = Seen

(* A move begins when nothing is left to recover, and its journal and side *)
(* files are those it made.                                                *)
MovingSound(p, h) ==
  LET l == loc[p] IN
  /\ l.op = "move" /\ l.pc \in {"recover"} \cup Recovering /\ Db(p) = h
       => Journaled \subseteq l.todo \cup {l.job}
  /\ l.pc = "stage" /\ Db(p) = h => Journaled = {}
  /\ l.pc \in Attempting =>
       /\ Db(p) = h
       /\ l.mode = IF l.target = l.prev THEN "current" ELSE "staged"
  /\ l.pc \in Preparing => Journaled = {}
  /\ l.pc = "journal" => l.mode = "staged"
  /\ l.pc \in Preparing \cup Replacing \cup {"commit", "recheck", "restore"} => l.prev = row[h]
  /\ l.pc \in Preparing \cup Replacing /\ l.mode = "staged" => Copy(l.move) = l.target
  /\ l.pc \in {"begin", "journal"} \cup Replacing /\ l.mode = "staged" =>
       Original(l.move) = l.prev
  /\ l.pc \in Replacing => Agreed(h)
  /\ l.pc \in Replacing \cup {"commit", "recheck", "restore"} /\ l.mode = "staged" =>
       journal[l.move] = JournalOf(p)
  /\ l.pc \in {"commit", "recheck", "restore"} /\ l.mode = "staged" => Torn(h, l.move)
  /\ l.pc \in {"recheck", "restore"} => l.mode = "staged"
  /\ l.pc = "commit" => writer[h] = p /\ (l.mode = "current" => Journaled = {})
  /\ l.pc \in {"unjournal", "finish", "clear"} => Agreed(h) /\ Journaled \subseteq {l.move}
  /\ l.pc \in {"commit", "finish", "clear"} /\ l.mode = "staged" => Copy(l.move) = None
  /\ l.pc = "clear" => Copy(l.move) = None /\ Original(l.move) = None

Whole(h) == Consistent(h) /\ \A p \in Procs : RecoveringSound(p, h) /\ MovingSound(p, h)

Settling(h) == IndInv /\ KeepInv /\ OneMover /\ Quiet /\ Holders = {h} /\ Whole(h)

----
(* What every step outside an attempt does. *)
Recovers(p, h) ==
  /\ \A q \in Procs \ {p} : Untouched(q)
  /\ outcome' = outcome
  /\ Agreed(h) \/ loc[p].pc \notin {"recAct", "recCommit"} => row'[h] = row[h] /\ Seen' = Seen
  /\ \A k \in Moves :
       \/ journal'[k] = journal[k] /\ Copy(k)' = Copy(k) /\ Original(k)' = Original(k)
       \/ /\ k = loc[p].job /\ loc[p].pc \in {"recAct", "recClean", "recDone"}
          /\ Copy(k)' \in {Copy(k), None} /\ Original(k)' \in {Original(k), None}
          /\ \/ journal'[k] = journal[k]
             \/ journal'[k] = None /\ Copy(k)' = None /\ Original(k)' = None
  /\ \A q \in Procs \ {p} : writer[h] = q => writer'[h] = q
  /\ \/ loc'[p].job = None
     \/ loc'[p].pc = "recTx"
     \/ loc'[p].job = loc[p].job /\ (loc[p].pc = "recTx" => loc'[p].pc = "recAct")

----
(* As long as no delete was tried, none runs and no row goes. *)

(* What a step of p does. *)
Steady(p) ==
  /\ \A q \in Procs \ {p} : Untouched(q)
  /\ given' = given
  /\ \A d \in Dbs : row'[d] = row[d] \/ row'[d] # None
  /\ loc'[p].pc \notin OutsidePCs
  /\ loc'[p].pc = "recAct" => row'[Db(p)'] # None
  /\ loc'[p].pc = "recCommit" => loc'[p].prev # None

(* The steps there are as long as no delete was tried. *)
CalmStep ==
  \/ CodexAppends
  \/ \E p \in Procs : \/ StartList(p) \/ (\E cwd \in Cwds : StartMove(p, cwd))
                      \/ Recover(p) \/ Move(p) \/ Crash(p)

(* What makes moves settle. *)
MovesInv  == \A h \in Dbs : Quiet /\ Holders = {h} => Whole(h)
SettleInv == IndInv /\ KeepInv /\ Calm /\ OneMover /\ MovesInv

----
(* What an undo brings back.  The notes a process takes for the properties *)
(* are good as long as it is alone: then nothing changes but by its own    *)
(* steps, and by Codex, which only writes lines.                           *)
TrulyAlone ==
  \A p \in Procs :
    /\ loc[p].pc = "idle" => loc[p] = Idle
    /\ loc[p].alone => \A q \in Procs \ {p} : loc[q] = Idle

(* What an operation that deletes nothing carries of a delete. *)
Bare(p) ==
  /\ loc[p].dbs = {} /\ loc[p].token = None
  /\ loc[p].done = {} /\ loc[p].undo = {} /\ loc[p].pending = {}

(* A step of p that is not its first. *)
Own(p) ==
  /\ \A q \in Procs \ {p} : loc'[q] = loc[q]
  /\ loc'[p] = Idle \/ (loc'[p].pc # "idle" /\ loc'[p].alone = loc[p].alone
                         /\ loc'[p].op = loc[p].op)

(* ... of a listing or a move. *)
MovesOwn(p) ==
  /\ Own(p)
  /\ loc'[p].pc \notin OutsidePCs
  /\ Bare(p) => Bare(p)'
  /\ UNCHANGED <<backup, given, index>>
  /\ \A q \in Procs : report'[q] # "undone" \/ report'[q] = report[q]

(* A token names one backup of each database. *)
OneEach(S) == \A a, b \in S : backup[a].db = backup[b].db => a = b
Tokens(p)  == loc[p].done \cup ({loc[p].token} \ {None})

Ledger(p) ==
  LET l == loc[p] IN
  /\ OneEach(l.undo) /\ OneEach(Tokens(p))
  /\ l.pc \in {"delTx"} \cup Deleting => \A b \in l.done : backup[b].db \notin l.dbs
  /\ l.pc \in Deleting => backup[l.token].db \in NextDb(p)
  /\ l.pc \notin OutsidePCs => Bare(p)

(* An undo that is alone finds what it looked at. *)
UndoSound(p) ==
  LET l == loc[p] IN
  l.alone =>
    /\ l.pc = "undoBegin" =>
         /\ l.pending = {b \in l.undo : row[backup[b].db] = None}
         /\ \A b \in l.undo : row[backup[b].db] \in {None, backup[b].cwd}
    /\ l.pc = "undoCommit" =>
         \A b \in l.undo :
           \/ row[backup[b].db] = backup[b].cwd
           \/ row[backup[b].db] = None /\ writer[backup[b].db] = p
    /\ l.pc \in {"undoFiles", "undoIndex"} => \A b \in l.undo : row[backup[b].db] = backup[b].cwd
    /\ l.pc = "undoIndex" /\ (\E b \in l.undo : backup[b].file # None) => path # None

UndoInv ==
  /\ TrulyAlone
  /\ OneEach(given)
  /\ \A p \in Procs : Ledger(p) /\ UndoSound(p)

(* A step of p that is not its first, of any kind. *)
Ledgers(p) ==
  /\ Own(p)
  /\ Ledger(p)'
  /\ OneEach(given)'
  /\ \A b \in Saved : backup'[b] = backup[b]

Quietly == \A q \in Procs : report'[q] # "undone" \/ report'[q] = report[q]

Undoing == {"undoCheck", "undoBegin", "undoCommit", "undoFiles", "undoIndex"}

----
(* What a move tells.  A journal of a database that the move has left      *)
(* behind excuses it: the recovery it is for is still to come.             *)
Behind(j, n) ==
  \E k \in Moves : j[k] # None /\ \A i \in n .. Len(DbOrder) : DbOrder[i] # j[k].db
Clean(p) == row = loc[p].before.row /\ Seen = CwdOf(loc[p].before.file)
Known(p) == Behind(journal, loc[p].at) \/ Clean(p)

(* A move that is alone knows what its database and the rollout name, and  *)
(* how what it found can be had back.                                      *)
MoveSound(p) ==
  LET l == loc[p]
      k == l.move
  IN
  l.alone /\ l.op = "move" =>
    /\ l.before # None
    /\ l.pc \in {"scan", "recover", "recTx", "recAct", "stage", "unjournal"} \cup Preparing \cup Replacing
         => Known(p)
    /\ l.pc \in {"recClean", "recDone"} => Clean(p)
    /\ l.pc \in {"recover"} \cup Recovering =>
         \A i \in l.todo : journal[i] # None => journal[i].db = Db(p)
    /\ l.pc \in Recovering => journal[l.job] # None /\ journal[l.job].db = Db(p)
    /\ l.pc \in Preparing \cup Replacing \cup {"commit"} =>
         /\ l.mode \in {"missing", "current", "staged"}
         /\ l.mode = "missing" => path = None
         /\ l.mode = "current" => Seen = l.target
    /\ l.pc \in Preparing \cup Replacing /\ l.mode = "staged" => Copy(k) = l.target
    /\ l.pc \in {"begin", "journal"} \cup Replacing /\ l.mode = "staged" => Original(k) = Seen
    /\ l.pc \in Preparing => journal[k] = None
    /\ l.pc \in {"recheck", "restore", "unjournal"} \cup Replacing => l.mode = "staged"
    /\ l.pc \in Replacing \cup {"commit", "recheck", "restore", "unjournal"} /\ l.mode = "staged" =>
         journal[k] # None /\ journal[k].db = Db(p)
    /\ l.pc = "commit" /\ l.mode # "staged" => Known(p)
    /\ l.pc = "commit" /\ l.mode = "staged" => Seen = l.target
    /\ l.pc \in {"commit", "recheck", "restore"} /\ l.mode = "staged" =>
         \/ Behind(journal, l.at)
         \/ row = l.before.row /\ Original(k) = CwdOf(l.before.file)
    /\ l.pc \in {"finish", "clear"} => row[Db(p)] = l.target /\ Seen \in {None, l.target}

(* What a step may tell of a move. *)
MoveTrue(p) ==
  At(p, "idle")' /\ loc[p].op = "move" /\ loc[p].alone /\ report'[p] # report[p] =>
    /\ report'[p] = "moved" =>
         row[Db(p)] = loc[p].target /\ CwdOf(path) \in {None, loc[p].target}
    /\ report'[p] = "failed" /\ (\A k \in Moves : journal'[k] = None) =>
         row' = loc[p].before.row /\ CwdOf(path') = CwdOf(loc[p].before.file)

(* A process that moves and is alone. *)
Mover(p) ==
  /\ IndInv /\ KeepInv
  /\ loc[p].pc \in InDb /\ loc[p].op = "move" /\ loc[p].alone /\ MoveSound(p)

----
(* A move's report in every step of the system. *)
MoveInv ==
  /\ \A p \in Procs : loc[p].op = "move" => loc[p].pc \in InDb
  /\ \A p \in Procs : MoveSound(p)

----
(* What a delete tells.  Who holds the write transaction of a database is  *)
(* inside it: so nobody is in the way of an undo that is alone.            *)
InTx == {"recAct", "recCommit", "journal", "verify", "replace", "commit", "delVerify", "delCommit"}

Held(p) ==
  /\ \A d \in Dbs : writer[d] = p =>
       \/ loc[p].pc \in InTx
       \/ loc[p].pc = "undoCommit" /\ \E b \in loc[p].undo : backup[b].db = d
  /\ loc[p].pc = "undoBegin" => loc[p].pending \subseteq loc[p].undo

Writers == \A p \in Procs : Held(p)

(* A step of p leaves the transactions of the others alone, and its own in *)
(* order.                                                                  *)
Releasing(p) == \A d \in Dbs : writer'[d] # p
OthersWrite(p) == \A d \in Dbs, q \in Procs \ {p} : writer'[d] = q => writer[d] = q
Orders(p) == OthersWrite(p) /\ Held(p)'

----
(* What a delete that is alone knows: of what it found, what its backups   *)
(* hold and what is still there.                                           *)
DbsOf(S)   == {backup[b].db : b \in S}
Full(b, B) == CwdOf(backup[b].file) = CwdOf(B.file) /\ backup[b].index = B.index

(* Its backups are of what it found, the first one of all of it. *)
Backed(p) ==
  LET l == loc[p]
      B == l.before
  IN
  /\ B # None
  /\ \A b \in Tokens(p) :
       /\ backup[b].cwd = B.row[backup[b].db]
       /\ CwdOf(backup[b].file) \in {None, CwdOf(B.file)}
       /\ backup[b].index => B.index
  /\ l.done # {} => \E b \in l.done : Full(b, B)
  /\ l.token # None /\ l.done = {} => Full(l.token, B)
  /\ l.token # None /\ l.done # {} => backup[l.token].file = None /\ backup[l.token].index = FALSE

(* Nothing is there that it did not find. *)
Within(p) ==
  /\ index => loc[p].before.index
  /\ Seen \in {None, CwdOf(loc[p].before.file)}

(* The databases whose row it has deleted. *)
Gone(p) ==
  DbsOf(loc[p].done)
    \cup (IF loc[p].pc \in {"delFile", "delIndex"} THEN {backup[loc[p].token].db} ELSE {})

Tabled(p) ==
  LET l == loc[p]
      B == l.before
  IN
  l.pc \in {"delTx"} \cup Deleting =>
    /\ l.dbs \cup DbsOf(l.done) = {d \in Dbs : B.row[d] # None}
    /\ \A d \in Dbs : row[d] = IF d \in Gone(p) THEN None ELSE B.row[d]
    /\ l.done = {} => index = B.index
    /\ l.done # {} => path = None /\ index = FALSE /\ (l.pc \in Deleting => l.sig = None)
    /\ l.pc # "delIndex" => l.bad = FALSE /\ (l.done = {} => Seen = CwdOf(B.file))
    /\ l.pc \in Deleting /\ l.sig = None => path = None /\ l.bad = FALSE
    /\ l.pc = "delIndex" /\ l.bad = FALSE => path = None

(* What it undoes; a second failure leaves no fault to be told about. *)
Undone(p) ==
  LET l == loc[p]
      B == l.before
  IN
  l.pc \in Undoing =>
    /\ l.undo = (IF l.token = None THEN l.done ELSE {l.token}) /\ l.undo # {}
    /\ l.token # None \/ l.bad = FALSE =>
         \A d \in Dbs : d \in DbsOf(Tokens(p)) \/ row[d] = B.row[d]
    /\ l.token = None /\ l.bad = TRUE => budget.faults + 2 <= MaxFaults
    /\ l.token # None /\ l.done # {} =>
         /\ budget.faults < MaxFaults
         /\ l.pc \in {"undoCheck", "undoBegin"} => row[backup[l.token].db] = None

DeleteSound(p) ==
  loc[p].alone /\ loc[p].op = "delete" => Backed(p) /\ Within(p) /\ Tabled(p) /\ Undone(p)

(* What a step may tell of a delete. *)
DeleteTrue(p) ==
  At(p, "idle")' /\ loc[p].op = "delete" /\ loc[p].alone /\ report'[p] # report[p] =>
    /\ report'[p] = "deleted" =>
         path' = None /\ ~index' /\ \A d \in Dbs : row'[d] = None
    /\ report'[p] \in {"failed", "restored"} =>
         /\ row' = loc[p].before.row
         /\ CwdOf(path') = CwdOf(loc[p].before.file)
         /\ index' = loc[p].before.index
    /\ budget'.faults + 1 >= MaxFaults => Covered(given', loc[p].before)

(* A process that deletes and is alone. *)
Deleter(p) ==
  /\ IndInv /\ TypeOK' /\ UndoInv /\ Writers
  /\ loc[p].pc \in OutsidePCs /\ loc[p].op = "delete" /\ loc[p].alone /\ DeleteSound(p)

----
(* What is known of a delete is kept. *)
DeleteInv == \A p \in Procs : DeleteSound(p)


----
(* There is always an inode no file and no lock uses. *)
LEMMA FreshIsFresh ==
  ASSUME TypeOK
  PROVE  FreshInode \in Inodes
<1> USE SessionAssumption
<1> DEFINE
     Names == 0 .. 2 * MaxMoves
     file(i) == IF i = 0 THEN path
                ELSE IF i <= MaxMoves THEN staged[i] ELSE rollback[i - MaxMoves]
     inode(i) == IF file(i) = None THEN 0 ELSE file(i).ino
     h == [i \in Names |-> inode(i)]
     Files == {inode(i) : i \in Names}
     Locks == {flock[p] : p \in Procs}
<1>1. IsFiniteSet(Files) /\ Cardinality(Files) <= 2 * MaxMoves + 1
  <2>1. h \in Surjection(Names, Files)
    BY DEF Surjection
  <2>2. IsFiniteSet(Names) /\ Cardinality(Names) = 2 * MaxMoves + 1
    <3>1. 0 \in Int /\ 2 * MaxMoves \in Int /\ ~(0 > 2 * MaxMoves)
      OBVIOUS
    <3> QED BY <3>1, FS_Interval
  <2> QED BY <2>1, <2>2, FS_Surjection
<1>2. IsFiniteSet(Locks) /\ Cardinality(Locks) <= Cardinality(Procs)
  <2>1. [p \in Procs |-> flock[p]] \in Surjection(Procs, Locks)
    BY DEF Surjection
  <2> QED BY <2>1, FS_Surjection
<1>3. IsFiniteSet(Inodes) /\ Cardinality(Inodes) = 2 * MaxMoves + Cardinality(Procs) + 2
  <2> DEFINE last == 2 * MaxMoves + Cardinality(Procs) + 1
  <2>1. Cardinality(Procs) \in Nat
    BY FS_CardinalityType
  <2>2. last \in Int /\ 0 \in Int /\ ~(0 > last) /\ last - 0 + 1 = 2 * MaxMoves + Cardinality(Procs) + 2
    BY <2>1
  <2>3. IsFiniteSet(0 .. last) /\ Cardinality(0 .. last) = last - 0 + 1
    <3> HIDE DEF last
    <3> QED BY <2>2, FS_Interval
  <2> QED BY <2>2, <2>3 DEF Inodes
<1>4. {f.ino : f \in Named} \subseteq Files
  <2>1. ASSUME NEW f \in Named
        PROVE  f.ino \in Files
    <3>1. CASE f = path
      BY <2>1, <3>1 DEF Named
    <3>2. ASSUME NEW k \in Moves, f = staged[k]
          PROVE  f.ino \in Files
      BY <2>1, <3>2 DEF Named, Moves
    <3>3. ASSUME NEW k \in Moves, f = rollback[k]
          PROVE  f.ino \in Files
      <4>1. k + MaxMoves \in Names /\ file(k + MaxMoves) = f
        BY <3>3 DEF Moves
      <4> QED BY <2>1, <4>1 DEF Named
    <3> QED BY <2>1, <3>1, <3>2, <3>3 DEF Named
  <2> QED BY <2>1
<1>5. ~(Inodes \subseteq Files \cup Locks)
  <2> HIDE DEF Files, Locks
  <2>1. /\ IsFiniteSet(Files \cup Locks)
        /\ Cardinality(Files \cup Locks) =
             Cardinality(Files) + Cardinality(Locks) - Cardinality(Files \cap Locks)
    BY <1>1, <1>2, FS_Union
  <2>2. Cardinality(Files \cap Locks) \in Nat /\ Cardinality(Files) \in Nat
        /\ Cardinality(Locks) \in Nat /\ Cardinality(Procs) \in Nat
    BY <1>1, FS_Subset, <1>2, FS_CardinalityType
  <2>3. Inodes \in SUBSET (Files \cup Locks) => Cardinality(Inodes) <= Cardinality(Files \cup Locks)
    BY <2>1, FS_Subset
  <2> QED BY <1>1, <1>2, <1>3, <2>1, <2>2, <2>3
<1>6. \E i \in Inodes : i \notin {f.ino : f \in Named} \cup Locks
  BY <1>4, <1>5
<1> QED BY <1>6 DEF FreshInode

----
(* Types: a process stays one when a variable of its gets another value. *)
LEMMA IdleTyped == Idle \in Locals
BY SessionAssumption, LenProperties DEF Idle, Locals, PCs, Ops

LEMMA WithPc ==
  ASSUME NEW l \in Locals, NEW x \in PCs
  PROVE  [l EXCEPT !.pc = x] \in Locals
BY Zenon DEF Locals

LEMMA WithTodo ==
  ASSUME NEW l \in Locals, NEW x \in SUBSET Moves
  PROVE  [l EXCEPT !.todo = x] \in Locals
BY Zenon DEF Locals

LEMMA WithJob ==
  ASSUME NEW l \in Locals, NEW x \in Moves \cup {None}
  PROVE  [l EXCEPT !.job = x] \in Locals
BY Zenon DEF Locals

LEMMA WithCopy ==
  ASSUME NEW l \in Locals, NEW x \in Journals \cup {None}
  PROVE  [l EXCEPT !.copy = x] \in Locals
BY Zenon DEF Locals

LEMMA WithMove ==
  ASSUME NEW l \in Locals, NEW x \in Moves \cup {None}
  PROVE  [l EXCEPT !.move = x] \in Locals
BY Zenon DEF Locals

LEMMA WithPrev ==
  ASSUME NEW l \in Locals, NEW x \in Cwds \cup {None}
  PROVE  [l EXCEPT !.prev = x] \in Locals
BY Zenon DEF Locals

LEMMA WithMode ==
  ASSUME NEW l \in Locals, NEW x \in {"missing", "current", "staged", "none"}
  PROVE  [l EXCEPT !.mode = x] \in Locals
BY Zenon DEF Locals

LEMMA WithSig ==
  ASSUME NEW l \in Locals, NEW x \in Signatures \cup {None}
  PROVE  [l EXCEPT !.sig = x] \in Locals
BY Zenon DEF Locals

LEMMA WithBefore ==
  ASSUME NEW l \in Locals, NEW x \in Pictures \cup {None}
  PROVE  [l EXCEPT !.before = x] \in Locals
BY Zenon DEF Locals

LEMMA WithToken ==
  ASSUME NEW l \in Locals, NEW x \in Backups \cup {None}
  PROVE  [l EXCEPT !.token = x] \in Locals
BY Zenon DEF Locals

LEMMA WithDbs ==
  ASSUME NEW l \in Locals, NEW x \in SUBSET Dbs
  PROVE  [l EXCEPT !.dbs = x] \in Locals
BY Zenon DEF Locals

LEMMA WithDone ==
  ASSUME NEW l \in Locals, NEW x \in SUBSET Backups
  PROVE  [l EXCEPT !.done = x] \in Locals
BY Zenon DEF Locals

LEMMA WithUndo ==
  ASSUME NEW l \in Locals, NEW x \in SUBSET Backups
  PROVE  [l EXCEPT !.undo = x] \in Locals
BY Zenon DEF Locals

LEMMA WithPending ==
  ASSUME NEW l \in Locals, NEW x \in SUBSET Backups
  PROVE  [l EXCEPT !.pending = x] \in Locals
BY Zenon DEF Locals

LEMMA WithBad ==
  ASSUME NEW l \in Locals, NEW x \in BOOLEAN
  PROVE  [l EXCEPT !.bad = x] \in Locals
BY Zenon DEF Locals

LEMMA WithAlone ==
  ASSUME NEW l \in Locals, NEW x \in BOOLEAN
  PROVE  [l EXCEPT !.alone = x] \in Locals
BY Zenon DEF Locals

LEMMA IndInit == Init => IndInv
<1> SUFFICES ASSUME Init PROVE IndInv
  OBVIOUS
<1> USE SessionAssumption
<1>1. PICK c \in Cwds, D \in SUBSET Dbs, e \in Cwds :
        /\ D # {}
        /\ row = [d \in Dbs |-> IF d \in D THEN c ELSE None]
        /\ path = [ino |-> 0, cwd |-> e, len |-> 0]
  BY Zenon DEF Init
<1>2. path \in File /\ path.len = 0
  <2>1. 0 \in Inodes
    BY FS_CardinalityType DEF Inodes
  <2> QED BY <1>1, <2>1 DEF File
<1>3. TypeOK
  BY <1>1, <1>2, IdleTyped DEF Init, TypeOK, Reports
<1>4. Fits
  BY <1>2 DEF Init, Fits, Short, Saved
<1>5. ASSUME NEW p \in Procs PROVE Placed(p)
  BY DEF Init, Placed, Idle, InDb, Recovering, Preparing, Replacing, Attempting, Deleting
<1> QED BY <1>1, <1>3, <1>4, <1>5 DEF IndInv

----
(* Types, and where the processes are: what the steps have in common. *)

(* A process goes on; the others stay where they are. *)
LEMMA GoesOn ==
  ASSUME TypeOK, NEW p \in Procs, NEW l \in Locals, loc' = [loc EXCEPT ![p] = l]
  PROVE  /\ loc' \in [Procs -> Locals]
         /\ loc'[p] = l
         /\ \A q \in Procs \ {p} : Untouched(q)
BY DEF TypeOK, Untouched

LEMMA OthersStayPlaced ==
  ASSUME IndInv, NEW p \in Procs, NEW q \in Procs \ {p}, Untouched(q), Saved \subseteq Saved'
  PROVE  Placed(q)'
<1>1. loc[q] \in Locals /\ Placed(q)
  BY DEF IndInv, TypeOK
<1>2. /\ loc'[q].pc = loc[q].pc /\ loc'[q].op = loc[q].op /\ loc'[q].at = loc[q].at
      /\ loc'[q].target = loc[q].target /\ loc'[q].job = loc[q].job
      /\ loc'[q].copy = loc[q].copy /\ loc'[q].move = loc[q].move
      /\ loc'[q].prev = loc[q].prev /\ loc'[q].token = loc[q].token
      /\ loc'[q].done = loc[q].done /\ loc'[q].undo = loc[q].undo
      /\ loc'[q].pending = loc[q].pending
  BY <1>1 DEF Untouched, Locals
<1> QED BY <1>1, <1>2 DEF Placed

LEMMA Ends ==
  ASSUME TypeOK, NEW p \in Procs, NEW said \in Reports, Ended(p, said)
  PROVE  /\ loc' \in [Procs -> Locals]
         /\ loc'[p] = Idle
         /\ \A q \in Procs \ {p} : Untouched(q)
         /\ report' \in [Procs -> Reports]
         /\ Placed(p)'
<1>1. loc' = [loc EXCEPT ![p] = Idle]
  BY DEF Ended
<1>2. loc' \in [Procs -> Locals] /\ loc'[p] = Idle /\ \A q \in Procs \ {p} : Untouched(q)
  BY <1>1, IdleTyped, GoesOn
<1>3. report' \in [Procs -> Reports]
  BY DEF Ended, Reports
<1>4. Placed(p)'
  BY <1>2 DEF Placed, Idle, InDb, Recovering, Preparing, Replacing, Attempting, Deleting
<1> QED BY <1>2, <1>3, <1>4

LEMMA GoesToNext ==
  ASSUME IndInv, NEW p \in Procs, loc[p].pc \in InDb, NEW said \in Reports, NextDatabase(p, said)
  PROVE  /\ loc' \in [Procs -> Locals]
         /\ \A q \in Procs \ {p} : Untouched(q)
         /\ report' \in [Procs -> Reports]
         /\ Placed(p)'
         /\ loc'[p].job = None /\ loc'[p].move = None /\ loc'[p].todo = {}
         /\ loc'[p].pc \in {"idle", "scan"}
<1>1. CASE loc[p].at < Len(DbOrder)
  <2> DEFINE l == [Idle EXCEPT !.pc = "scan", !.op = loc[p].op, !.at = loc[p].at + 1,
                         !.target = loc[p].target, !.alone = loc[p].alone,
                         !.before = loc[p].before]
  <2>1. loc' = [loc EXCEPT ![p] = l] /\ report' = report
    BY <1>1 DEF NextDatabase
  <2>2. /\ loc[p] \in Locals /\ TypeOK /\ loc[p].at \in 1 .. Len(DbOrder) /\ Len(DbOrder) \in Nat
        /\ loc[p].op \in {"list", "move"} /\ (loc[p].op = "move" => loc[p].target \in Cwds)
    BY SessionAssumption, LenProperties DEF IndInv, TypeOK, Placed
  <2>3. l \in Locals
    <3>1. /\ loc[p].op \in Ops /\ loc[p].at + 1 \in 0 .. Len(DbOrder) /\ "scan" \in PCs
          /\ loc[p].target \in Cwds \cup {None} /\ loc[p].alone \in BOOLEAN
          /\ loc[p].before \in Pictures \cup {None}
      BY <1>1, <2>2 DEF Locals, PCs
    <3> QED BY <3>1, IdleTyped DEF Locals
  <2>4. /\ l.pc = "scan" /\ l.op = loc[p].op /\ l.at = loc[p].at + 1 /\ l.target = loc[p].target
        /\ l.job = None /\ l.move = None /\ l.token = None /\ l.todo = {}
        /\ l.done = {} /\ l.undo = {} /\ l.pending = {}
    BY DEF Idle
  <2>5. /\ loc' \in [Procs -> Locals] /\ loc'[p] = l
        /\ \A q \in Procs \ {p} : Untouched(q)
    <3> HIDE DEF l
    <3> QED BY <2>1, <2>2, <2>3, GoesOn
  <2>6. Placed(p)'
    <3> HIDE DEF l
    <3> QED BY <1>1, <2>2, <2>4, <2>5
             DEF Placed, InDb, Recovering, Preparing, Replacing, Attempting, Deleting
  <2>7. report' \in [Procs -> Reports]
    BY <2>1, <2>2 DEF TypeOK
  <2> HIDE DEF l
  <2> QED BY <2>4, <2>5, <2>6, <2>7
<1>2. CASE ~(loc[p].at < Len(DbOrder))
  <2>1. PICK what \in Reports : Ended(p, what)
    BY <1>2 DEF NextDatabase, Reports
  <2>2. TypeOK
    BY DEF IndInv
  <2>3. Idle.job = None /\ Idle.move = None /\ Idle.pc = "idle" /\ Idle.todo = {}
    BY DEF Idle
  <2> QED BY <2>1, <2>2, <2>3, Ends
<1> QED BY <1>1, <1>2

LEMMA Releases ==
  ASSUME TypeOK, NEW p \in Procs
  PROVE  /\ ReleaseDb(p) => writer' \in [Dbs -> Procs \cup {None}]
         /\ Unlock(p) => flock' \in [Procs -> Inodes \cup {None}]
BY DEF TypeOK, ReleaseDb, Unlock

(* What a step has to leave, beside its types. *)
LEMMA IndStep ==
  ASSUME IndInv, NEW p \in Procs, TypeOK',
         \A q \in Procs \ {p} : Untouched(q),
         Saved \subseteq Saved', Placed(p)', Fits'
  PROVE  IndInv'
BY OthersStayPlaced DEF IndInv

LEMMA BoundStays ==
  ASSUME TypeOK, UNCHANGED budget \/ Fault
  PROVE  /\ budget' \in [requests : 0 .. MaxRequests, events : 0 .. MaxEvents,
                 faults : 0 .. MaxFaults, deletes : 0 .. MaxDeletes, undos : 0 .. MaxUndos]
         /\ budget'.events = budget.events
<1>1. budget \in [requests : 0 .. MaxRequests, events : 0 .. MaxEvents,
                 faults : 0 .. MaxFaults, deletes : 0 .. MaxDeletes, undos : 0 .. MaxUndos]
  BY DEF TypeOK
<1>2. CASE UNCHANGED budget
  BY <1>1, <1>2
<1>3. CASE Fault
  <2>1. budget.faults > 0 /\ budget' = [budget EXCEPT !.faults = @ - 1]
    BY <1>3 DEF Fault
  <2>2. budget.faults \in 0 .. MaxFaults /\ MaxFaults \in Nat
    BY <1>1, SessionAssumption
  <2>3. budget.faults - 1 \in 0 .. MaxFaults
    BY <2>1, <2>2
  <2> QED BY <1>1, <2>1, <2>3
<1> QED BY <1>2, <1>3

(* A process in a database is at one of them. *)
LEMMA AtDb ==
  ASSUME IndInv, NEW p \in Procs, loc[p].pc \in InDb
  PROVE  Db(p) \in Dbs
BY SessionAssumption, LenProperties DEF IndInv, Placed, Db

LEMMA FilesFit ==
  ASSUME IndInv
  PROVE  /\ path \in Fitting /\ None \in Fitting
         /\ staged \in [Moves -> Fitting] /\ rollback \in [Moves -> Fitting]
         /\ \A b \in Saved : backup[b].file \in Fitting /\ backup[b] \in BackupRecords
<1>1. \A b \in Saved : backup[b].file \in Fitting /\ backup[b] \in BackupRecords
  BY DEF IndInv, TypeOK, Fits, Fitting, Saved, BackupRecords
<1> QED BY <1>1 DEF IndInv, TypeOK, Fits, Fitting, Short

(* The rest of what a step has to leave when it makes no backup. *)
LEMMA IndStepOnDisk ==
  ASSUME IndInv, NEW p \in Procs,
         loc' \in [Procs -> Locals], \A q \in Procs \ {p} : Untouched(q), Placed(p)',
         row' = row \/ row' \in [Dbs -> Cwds \cup {None}],
         writer' \in [Dbs -> Procs \cup {None}],
         flock' \in [Procs -> Inodes \cup {None}],
         report' \in [Procs -> Reports],
         outcome' \in [Moves -> {"unused", "open", "moved", "failed"}],
         path' \in Fitting, index' \in BOOLEAN,
         staged' \in [Moves -> Fitting], rollback' \in [Moves -> Fitting],
         journal' \in [Moves -> Journals \cup {None}],
         UNCHANGED backup, given' = given \/ given' \subseteq Saved,
         UNCHANGED budget \/ Fault
  PROVE  IndInv'
<1>1. TypeOK /\ Fits
  BY DEF IndInv
<1>2. /\ budget' \in [requests : 0 .. MaxRequests, events : 0 .. MaxEvents,
                 faults : 0 .. MaxFaults, deletes : 0 .. MaxDeletes, undos : 0 .. MaxUndos]
      /\ budget'.events = budget.events
  BY <1>1, BoundStays
<1>3. Saved' = Saved
  BY DEF Saved
<1>4. TypeOK'
  BY <1>1, <1>2 DEF TypeOK, Saved, Fitting
<1>5. Fits'
  <2> QED BY <1>1, <1>2, <1>3 DEF Fits, Short, Fitting
<1> QED BY <1>3, <1>4, <1>5, IndStep

(* ... and when it changes no file and no journal either. *)
LEMMA IndStepInPlace ==
  ASSUME IndInv, NEW p \in Procs,
         loc' \in [Procs -> Locals], \A q \in Procs \ {p} : Untouched(q), Placed(p)',
         row' = row \/ row' \in [Dbs -> Cwds \cup {None}],
         writer' \in [Dbs -> Procs \cup {None}],
         flock' \in [Procs -> Inodes \cup {None}],
         report' \in [Procs -> Reports],
         outcome' \in [Moves -> {"unused", "open", "moved", "failed"}],
         UNCHANGED <<path, staged, rollback, journal, backup>>,
         index' \in BOOLEAN,
         given' = given \/ given' \subseteq Saved,
         UNCHANGED budget \/ Fault
  PROVE  IndInv'
<1>1. journal' \in [Moves -> Journals \cup {None}]
  BY DEF IndInv, TypeOK
<1>2. path' \in Fitting /\ staged' \in [Moves -> Fitting] /\ rollback' \in [Moves -> Fitting]
  BY FilesFit
<1> QED BY <1>1, <1>2, IndStepOnDisk

LEMMA StartKeepsInd ==
  ASSUME IndInv, NEW p \in Procs, NEW l \in Locals, Start(p, l),
         l.pc \in {"scan", "delTx", "undoCheck"},
         l.pc = "scan" => /\ l.at \in 1 .. Len(DbOrder) /\ l.op \in {"list", "move"}
                          /\ l.op = "move" => l.target \in Cwds,
         l.job = None, l.move = None, l.token = None, l.undo \subseteq Saved,
         l.done = {}, l.pending = {},
         budget' \in [requests : 0 .. MaxRequests, events : 0 .. MaxEvents,
                 faults : 0 .. MaxFaults, deletes : 0 .. MaxDeletes, undos : 0 .. MaxUndos],
         budget'.events = budget.events,
         UNCHANGED <<db_vars, file_vars, move_vars, del_vars>>
  PROVE  IndInv'
<1>1. TypeOK /\ Fits /\ loc \in [Procs -> Locals]
  BY DEF IndInv, TypeOK
<1>2. /\ loc'[p] = [l EXCEPT !.alone = \A r \in Procs \ {p} : loc[r] = Idle]
      /\ report' \in [Procs -> Reports]
  BY DEF Start, Reports
<1>3. \A q \in Procs \ {p} : Untouched(q) /\ loc'[q] \in Locals
  <2> TAKE q \in Procs \ {p}
  <2>1. loc'[q] = IF loc[q] = Idle THEN Idle ELSE [loc[q] EXCEPT !.alone = FALSE]
    BY DEF Start
  <2>2. loc[q] \in Locals /\ Idle \in Locals
    BY <1>1, IdleTyped
  <2>3. CASE loc[q] = Idle
    BY <2>1, <2>2, <2>3 DEF Untouched
  <2>4. CASE loc[q] # Idle
    BY <2>1, <2>4, <2>2, WithAlone DEF Untouched
  <2> QED BY <2>3, <2>4
<1>4. loc'[p] \in Locals /\ loc'[p].pc = l.pc /\ loc'[p].at = l.at /\ loc'[p].op = l.op
      /\ loc'[p].target = l.target /\ loc'[p].job = l.job /\ loc'[p].move = l.move
      /\ loc'[p].token = l.token /\ loc'[p].undo = l.undo /\ loc'[p].done = l.done
      /\ loc'[p].pending = l.pending
  <2>1. (\A r \in Procs \ {p} : loc[r] = Idle) \in BOOLEAN
    OBVIOUS
  <2>2. PICK b \in BOOLEAN : loc'[p] = [l EXCEPT !.alone = b]
    BY <1>2, <2>1
  <2> QED BY <2>2 DEF Locals
<1>5. loc' \in [Procs -> Locals]
  BY <1>3, <1>4 DEF Start
<1>6. Saved' = Saved
  BY DEF Saved, del_vars
<1>7. Placed(p)'
  BY <1>4, <1>6 DEF Placed, InDb, Recovering, Preparing, Replacing, Attempting, Deleting
<1>8. TypeOK'
  BY <1>1, <1>2, <1>5 DEF TypeOK, db_vars, file_vars, move_vars, del_vars
<1>9. Fits'
  BY <1>1, <1>6 DEF Fits, Short, db_vars, file_vars, move_vars, del_vars
<1> QED BY <1>3, <1>6, <1>7, <1>8, <1>9, IndStep

LEMMA StartListInd ==
  ASSUME IndInv, NEW p \in Procs, StartList(p)
  PROVE  IndInv'
<1> DEFINE l == [Idle EXCEPT !.pc = "scan", !.op = "list", !.at = 1]
<1>1. 1 \in 1 .. Len(DbOrder) /\ 1 \in 0 .. Len(DbOrder)
  BY SessionAssumption, LenProperties DEF IndInv
<1>2. l \in Locals
  <2>1. "scan" \in PCs /\ "list" \in Ops
    BY DEF PCs, Ops
  <2> QED BY <1>1, <2>1, IdleTyped DEF Locals
<1>3. /\ l.pc = "scan" /\ l.at = 1 /\ l.op = "list" /\ l.job = None /\ l.move = None
      /\ l.token = None /\ l.undo = {} /\ l.done = {} /\ l.pending = {}
  BY DEF Idle
<1>4. Start(p, l) /\ UNCHANGED <<db_vars, file_vars, move_vars, del_vars, budget>>
  BY DEF StartList
<1>5. TypeOK
  BY DEF IndInv
<1> HIDE DEF l
<1> QED BY <1>1, <1>2, <1>3, <1>4, <1>5, StartKeepsInd DEF TypeOK

LEMMA PictureTyped == TypeOK => Picture \in Pictures
BY DEF TypeOK, Picture, Pictures

LEMMA StartMoveInd ==
  ASSUME IndInv, NEW p \in Procs, NEW cwd \in Cwds, StartMove(p, cwd)
  PROVE  IndInv'
<1> DEFINE l == [Idle EXCEPT !.pc = "scan", !.op = "move", !.at = 1, !.target = cwd,
                           !.before = Picture]
<1>1. 1 \in 1 .. Len(DbOrder) /\ 1 \in 0 .. Len(DbOrder)
  BY SessionAssumption, LenProperties DEF IndInv
<1>2. l \in Locals
  <2>1. Picture \in Pictures \cup {None}
    BY PictureTyped DEF IndInv
  <2>2. "scan" \in PCs /\ "move" \in Ops
    BY DEF PCs, Ops
  <2> QED BY <1>1, <2>1, <2>2, IdleTyped DEF Locals
<1>3. /\ l.pc = "scan" /\ l.at = 1 /\ l.op = "move" /\ l.target = cwd /\ l.job = None
      /\ l.move = None /\ l.token = None /\ l.undo = {} /\ l.done = {} /\ l.pending = {}
  BY DEF Idle
<1>4. /\ Start(p, l) /\ UNCHANGED <<db_vars, file_vars, move_vars, del_vars>>
      /\ budget.requests > 0 /\ budget' = [budget EXCEPT !.requests = @ - 1]
  BY DEF StartMove
<1>5. /\ budget' \in [requests : 0 .. MaxRequests, events : 0 .. MaxEvents,
                 faults : 0 .. MaxFaults, deletes : 0 .. MaxDeletes, undos : 0 .. MaxUndos]
      /\ budget'.events = budget.events
  <2>1. budget \in [requests : 0 .. MaxRequests, events : 0 .. MaxEvents,
                 faults : 0 .. MaxFaults, deletes : 0 .. MaxDeletes, undos : 0 .. MaxUndos]
    BY DEF IndInv, TypeOK
  <2>2. budget.requests - 1 \in 0 .. MaxRequests
    BY <2>1, <1>4, SessionAssumption
  <2> QED BY <2>1, <2>2, <1>4
<1> HIDE DEF l
<1> QED BY <1>1, <1>2, <1>3, <1>4, <1>5, StartKeepsInd

LEMMA StartDeleteInd ==
  ASSUME IndInv, NEW p \in Procs, StartDelete(p)
  PROVE  IndInv'
<1> DEFINE l == [Idle EXCEPT !.pc = "delTx", !.op = "delete", !.before = Picture,
                           !.dbs = Holders]
<1>1. l \in Locals
  <2>1. Picture \in Pictures \cup {None} /\ Holders \in SUBSET Dbs
    BY PictureTyped DEF IndInv, Holders
  <2>2. "delTx" \in PCs /\ "delete" \in Ops
    BY DEF PCs, Ops
  <2> QED BY <2>1, <2>2, IdleTyped DEF Locals
<1>2. /\ l.pc = "delTx" /\ l.job = None
      /\ l.move = None /\ l.token = None /\ l.undo = {} /\ l.done = {} /\ l.pending = {}
  BY DEF Idle
<1>3. /\ Start(p, l) /\ UNCHANGED <<db_vars, file_vars, move_vars, del_vars>>
      /\ budget.requests > 0 /\ budget.deletes > 0
      /\ budget' = [budget EXCEPT !.deletes = @ - 1, !.requests = @ - 1]
  BY DEF StartDelete
<1>4. /\ budget' \in [requests : 0 .. MaxRequests, events : 0 .. MaxEvents,
                 faults : 0 .. MaxFaults, deletes : 0 .. MaxDeletes, undos : 0 .. MaxUndos]
      /\ budget'.events = budget.events
  <2>1. budget \in [requests : 0 .. MaxRequests, events : 0 .. MaxEvents,
                 faults : 0 .. MaxFaults, deletes : 0 .. MaxDeletes, undos : 0 .. MaxUndos]
    BY DEF IndInv, TypeOK
  <2>2. budget.deletes - 1 \in 0 .. MaxDeletes /\ budget.requests - 1 \in 0 .. MaxRequests
    BY <2>1, <1>3, SessionAssumption
  <2> QED BY <2>1, <2>2, <1>3
<1> HIDE DEF l
<1> QED BY <1>1, <1>2, <1>3, <1>4, StartKeepsInd

LEMMA StartUndoInd ==
  ASSUME IndInv, NEW p \in Procs, StartUndo(p)
  PROVE  IndInv'
<1> DEFINE l == [Idle EXCEPT !.pc = "undoCheck", !.op = "undo", !.undo = given,
                           !.before = Picture]
<1>1. l \in Locals
  <2>1. Picture \in Pictures \cup {None} /\ given \in SUBSET Backups
    BY PictureTyped DEF IndInv, TypeOK
  <2>2. "undoCheck" \in PCs /\ "undo" \in Ops
    BY DEF PCs, Ops
  <2> QED BY <2>1, <2>2, IdleTyped DEF Locals
<1>2. /\ l.pc = "undoCheck" /\ l.job = None /\ l.undo \subseteq Saved
      /\ l.move = None /\ l.token = None /\ l.done = {} /\ l.pending = {}
  BY DEF Idle, IndInv, Fits
<1>3. /\ Start(p, l) /\ UNCHANGED <<db_vars, file_vars, move_vars, del_vars>>
      /\ budget.undos > 0 /\ budget' = [budget EXCEPT !.undos = @ - 1]
  BY DEF StartUndo
<1>4. /\ budget' \in [requests : 0 .. MaxRequests, events : 0 .. MaxEvents,
                 faults : 0 .. MaxFaults, deletes : 0 .. MaxDeletes, undos : 0 .. MaxUndos]
      /\ budget'.events = budget.events
  <2>1. budget \in [requests : 0 .. MaxRequests, events : 0 .. MaxEvents,
                 faults : 0 .. MaxFaults, deletes : 0 .. MaxDeletes, undos : 0 .. MaxUndos]
    BY DEF IndInv, TypeOK
  <2>2. budget.undos - 1 \in 0 .. MaxUndos
    BY <2>1, <1>3, SessionAssumption
  <2> QED BY <2>1, <2>2, <1>3
<1> HIDE DEF l
<1> QED BY <1>1, <1>2, <1>3, <1>4, StartKeepsInd

----
(* ... and the steps of the recovery. *)

LEMMA ScanInd ==
  ASSUME IndInv, NEW p \in Procs, Scan(p)
  PROVE  IndInv'
<1> DEFINE l == [loc[p] EXCEPT !.todo = Pending(Db(p)), !.pc = "recover"]
<1>1. TypeOK /\ loc[p] \in Locals /\ Placed(p) /\ loc[p].pc = "scan"
  BY DEF IndInv, TypeOK, Scan, At
<1>2. l \in Locals /\ loc' = [loc EXCEPT ![p] = l]
  BY <1>1, WithTodo, WithPc DEF PCs, Pending, Scan
<1>3. /\ loc' \in [Procs -> Locals] /\ loc'[p] = l
      /\ \A q \in Procs \ {p} : Untouched(q)
  <2> HIDE DEF l
  <2> QED BY <1>1, <1>2, GoesOn
<1>4. Saved' = Saved
  BY DEF Scan, del_vars, Saved
<1>5. Placed(p)'
  BY <1>1, <1>3, <1>4
     DEF Locals, Placed, InDb, Recovering, Preparing, Replacing, Attempting, Deleting
<1> QED BY <1>1, <1>3, <1>5, IndStepInPlace
     DEF Scan, TypeOK, db_vars, file_vars, move_vars, del_vars

LEMMA NextJournalInd ==
  ASSUME IndInv, NEW p \in Procs, NextJournal(p)
  PROVE  IndInv'
<1>1. TypeOK /\ loc[p] \in Locals /\ Placed(p) /\ loc[p].pc = "recover"
  BY DEF IndInv, TypeOK, NextJournal, At
<1>2. PICK k \in loc[p].todo :
        loc' = [loc EXCEPT ![p] =
            [@ EXCEPT !.todo = loc[p].todo \ {k}, !.copy = journal[k],
                      !.job = IF journal[k] = None THEN None ELSE k,
                      !.pc = IF journal[k] = None THEN "recover" ELSE "recTx"]]
  BY DEF NextJournal
<1> DEFINE l == [loc[p] EXCEPT !.todo = loc[p].todo \ {k}, !.copy = journal[k],
                      !.job = IF journal[k] = None THEN None ELSE k,
                      !.pc = IF journal[k] = None THEN "recover" ELSE "recTx"]
<1>3. k \in Moves /\ journal[k] \in Journals \cup {None} /\ k # None
  BY <1>1, SessionAssumption DEF Locals, TypeOK
<1>4. l \in Locals /\ loc' = [loc EXCEPT ![p] = l]
  <2>1. (IF journal[k] = None THEN "recover" ELSE "recTx") \in PCs
    BY DEF PCs
  <2>2. (IF journal[k] = None THEN None ELSE k) \in Moves \cup {None}
    BY <1>3
  <2>3. loc[p].todo \ {k} \in SUBSET Moves
    BY <1>1 DEF Locals
  <2>4. l \in Locals
    BY <1>1, <1>3, <2>1, <2>2, <2>3, WithTodo, WithCopy, WithJob, WithPc
  <2>5. loc' = [loc EXCEPT ![p] = l]
    BY Zenon, <1>2
  <2> QED BY <2>4, <2>5
<1>5. /\ loc' \in [Procs -> Locals] /\ loc'[p] = l
      /\ \A q \in Procs \ {p} : Untouched(q)
  <2> HIDE DEF l
  <2> QED BY <1>1, <1>4, GoesOn
<1>6. Saved' = Saved
  BY DEF NextJournal, del_vars, Saved
<1>7. Placed(p)'
  BY <1>1, <1>3, <1>5, <1>6
     DEF Locals, Placed, InDb, Recovering, Preparing, Replacing, Attempting, Deleting
<1> QED BY <1>1, <1>5, <1>7, IndStepInPlace
     DEF NextJournal, TypeOK, db_vars, file_vars, move_vars, del_vars

(* A process that goes to another place takes its variables along. *)
LEMMA Goes ==
  ASSUME TypeOK, NEW p \in Procs, NEW place \in PCs, Goto(p, place)
  PROVE  /\ loc' \in [Procs -> Locals]
         /\ \A q \in Procs \ {p} : Untouched(q)
         /\ loc'[p] = [loc[p] EXCEPT !.pc = place]
<1> DEFINE l == [loc[p] EXCEPT !.pc = place]
<1>1. loc[p] \in Locals
  BY DEF TypeOK
<1>2. l \in Locals
  BY <1>1, WithPc
<1>3. loc' = [loc EXCEPT ![p] = l]
  BY DEF Goto
<1> HIDE DEF l
<1>4. loc' \in [Procs -> Locals] /\ loc'[p] = l /\ \A q \in Procs \ {p} : Untouched(q)
  BY <1>2, <1>3, GoesOn
<1> QED BY <1>4 DEF l

LEMMA RecoveryFailsInd ==
  ASSUME IndInv, NEW p \in Procs, loc[p].pc \in InDb, RecoveryFails(p)
  PROVE  /\ loc' \in [Procs -> Locals]
         /\ \A q \in Procs \ {p} : Untouched(q)
         /\ report' \in [Procs -> Reports]
         /\ Placed(p)'
         /\ loc'[p].job = None /\ loc'[p].move = None /\ loc'[p].todo = {}
         /\ loc'[p].pc \in {"idle", "scan"}
         /\ writer' \in [Dbs -> Procs \cup {None}]
         /\ flock' \in [Procs -> Inodes \cup {None}]
<1>1. "failed" \in Reports /\ TypeOK
  BY DEF Reports, IndInv
<1>2. ReleaseDb(p) /\ Unlock(p) /\ NextDatabase(p, "failed")
  BY DEF RecoveryFails
<1> QED BY <1>1, <1>2, Releases, GoesToNext

LEMMA AllRecoveredInd ==
  ASSUME IndInv, NEW p \in Procs, AllRecovered(p)
  PROVE  IndInv'
<1>1. TypeOK /\ loc[p] \in Locals /\ Placed(p) /\ loc[p].pc = "recover" /\ loc[p].pc \in InDb
  BY DEF IndInv, TypeOK, AllRecovered, At, InDb
<1>2. /\ loc' \in [Procs -> Locals] /\ report' \in [Procs -> Reports]
      /\ \A q \in Procs \ {p} : Untouched(q)
      /\ Placed(p)'
  <2>1. CASE loc[p].op = "list"
    BY <2>1, <1>1, GoesToNext DEF AllRecovered, Reports
  <2>2. CASE loc[p].op # "list"
    <3>1. Goto(p, "stage") /\ report' = report /\ "stage" \in PCs
      BY <2>2 DEF AllRecovered, PCs
    <3>2. /\ loc' \in [Procs -> Locals] /\ loc'[p] = [loc[p] EXCEPT !.pc = "stage"]
          /\ \A q \in Procs \ {p} : Untouched(q)
      BY <1>1, <3>1, Goes
    <3>3. Saved' = Saved
      BY DEF AllRecovered, del_vars, Saved
    <3>4. Placed(p)'
      BY <1>1, <2>2, <3>2, <3>3
         DEF Locals, Placed, InDb, Recovering, Preparing, Replacing, Attempting, Deleting
    <3> QED BY <1>1, <3>1, <3>2, <3>4 DEF TypeOK
  <2> QED BY <2>1, <2>2
<1> QED BY <1>1, <1>2, IndStepInPlace
     DEF AllRecovered, TypeOK, db_vars, file_vars, move_vars, del_vars

LEMMA RecoveryTimeoutInd ==
  ASSUME IndInv, NEW p \in Procs, RecoveryTimeout(p)
  PROVE  IndInv'
<1>1. TypeOK /\ loc[p].pc \in InDb /\ RecoveryFails(p)
  BY DEF IndInv, RecoveryTimeout, At, InDb, Recovering
<1> QED BY <1>1, RecoveryFailsInd, IndStepInPlace
     DEF RecoveryTimeout, TypeOK, move_vars, del_vars

LEMMA RecoveryBeginInd ==
  ASSUME IndInv, NEW p \in Procs, RecoveryBegin(p)
  PROVE  IndInv'
<1>1. TypeOK /\ loc[p] \in Locals /\ Placed(p) /\ loc[p].pc = "recTx" /\ loc[p].pc \in InDb
  BY DEF IndInv, TypeOK, RecoveryBegin, At, InDb, Recovering
<1>2. CASE row[Db(p)] = None \/ ~Lockable(p)
  BY <1>2, <1>1, RecoveryFailsInd, IndStepInPlace DEF RecoveryBegin, TypeOK, move_vars, del_vars
<1>3. CASE ~(row[Db(p)] = None \/ ~Lockable(p))
  <2> DEFINE c == IF path = None THEN None ELSE path.cwd
             l == [loc[p] EXCEPT !.pc = "recAct", !.prev = c]
  <2>1. /\ writer' = [writer EXCEPT ![Db(p)] = p]
        /\ flock' = [flock EXCEPT ![p] = IF path = None THEN None ELSE path.ino]
        /\ loc' = [loc EXCEPT ![p] = l]
        /\ report' = report
    BY <1>3 DEF RecoveryBegin
  <2>2. c \in Cwds \cup {None} /\ "recAct" \in PCs
        /\ (IF path = None THEN None ELSE path.ino) \in Inodes \cup {None}
    BY <1>1 DEF TypeOK, File, PCs
  <2>3. l \in Locals
    <3> HIDE DEF c
    <3> QED BY <1>1, <2>2, WithPc, WithPrev
  <2>4. /\ loc' \in [Procs -> Locals] /\ loc'[p] = l
        /\ \A q \in Procs \ {p} : Untouched(q)
    <3> HIDE DEF l
    <3> QED BY <1>1, <2>1, <2>3, GoesOn
  <2>5. Saved' = Saved
    BY DEF RecoveryBegin, del_vars, Saved
  <2>6. Placed(p)'
    <3> HIDE DEF c
    <3> QED BY <1>1, <2>4, <2>5
         DEF Locals, Placed, InDb, Recovering, Preparing, Replacing, Attempting, Deleting
  <2>7. /\ writer' \in [Dbs -> Procs \cup {None}]
        /\ flock' \in [Procs -> Inodes \cup {None}]
        /\ report' \in [Procs -> Reports]
    BY <1>1, <2>1, <2>2 DEF TypeOK
  <2> HIDE DEF l
  <2> QED BY <1>1, <2>4, <2>6, <2>7, IndStepInPlace
       DEF RecoveryBegin, TypeOK, move_vars, del_vars
<1> QED BY <1>2, <1>3

(* Taking a file away, or putting one back, leaves files that fit. *)
LEMMA SidesFit ==
  ASSUME IndInv, NEW k
  PROVE  /\ [staged EXCEPT ![k] = None] \in [Moves -> Fitting]
         /\ [rollback EXCEPT ![k] = None] \in [Moves -> Fitting]
         /\ k \in Moves => staged[k] \in Fitting /\ rollback[k] \in Fitting
BY FilesFit

LEMMA RecoveryActInd ==
  ASSUME IndInv, NEW p \in Procs, RecoveryAct(p)
  PROVE  IndInv'
<1> DEFINE k == loc[p].job
           plan == RecoveryPlan(loc[p].copy, row[Db(p)], loc[p].prev,
                                CwdOf(staged[k]), CwdOf(rollback[k]))
<1>1. TypeOK /\ loc[p] \in Locals /\ Placed(p) /\ loc[p].pc = "recAct" /\ loc[p].pc \in InDb
  BY DEF IndInv, TypeOK, RecoveryAct, At, InDb, Recovering
<1>2. k \in Moves
  BY <1>1 DEF Placed, Recovering
<1>3. CASE RecoveryFails(p) /\ UNCHANGED <<path, staged, rollback>> /\ (UNCHANGED budget \/ Fault)
  BY <1>1, <1>3, RecoveryFailsInd, IndStepInPlace DEF RecoveryAct, del_vars, TypeOK
<1>4. CASE \E r \in plan :
             /\ path' = CASE r.file = "staged" -> staged[k]
                          [] r.file = "rollback" -> rollback[k]
                          [] OTHER -> path
             /\ staged' = IF r.file = "staged" THEN [staged EXCEPT ![k] = None] ELSE staged
             /\ rollback' = IF r.file = "rollback" THEN [rollback EXCEPT ![k] = None]
                            ELSE rollback
             /\ loc' = [loc EXCEPT ![p].pc = "recCommit", ![p].prev = r.row]
             /\ UNCHANGED <<writer, flock, report, budget>>
  <2>1. PICK r \in plan :
             /\ path' = CASE r.file = "staged" -> staged[k]
                          [] r.file = "rollback" -> rollback[k]
                          [] OTHER -> path
             /\ staged' = IF r.file = "staged" THEN [staged EXCEPT ![k] = None] ELSE staged
             /\ rollback' = IF r.file = "rollback" THEN [rollback EXCEPT ![k] = None]
                            ELSE rollback
             /\ loc' = [loc EXCEPT ![p].pc = "recCommit", ![p].prev = r.row]
             /\ UNCHANGED <<writer, flock, report, budget>>
    BY <1>4
  <2> DEFINE l == [loc[p] EXCEPT !.pc = "recCommit", !.prev = r.row]
  <2>2. r.row \in Cwds \cup {None} /\ "recCommit" \in PCs
    <3>1. loc[p].copy \in Journals /\ row[Db(p)] \in Cwds \cup {None}
      BY <1>1, AtDb DEF Placed, Recovering, TypeOK
    <3>2. r.row \in {row[Db(p)], loc[p].copy.prev, loc[p].copy.target}
      BY <2>1, SMTT(30) DEF RecoveryPlan
    <3> QED BY <3>1, <3>2 DEF Journals, PCs
  <2>3. l \in Locals /\ loc' = [loc EXCEPT ![p] = l]
    <3>1. l \in Locals
      BY <1>1, <2>2, WithPc, WithPrev
    <3> HIDE DEF plan
    <3> QED BY <2>1, <3>1
  <2>4. /\ loc' \in [Procs -> Locals] /\ loc'[p] = l
        /\ \A q \in Procs \ {p} : Untouched(q)
    <3> HIDE DEF l, plan
    <3> QED BY <1>1, <2>3, GoesOn
  <2>5. UNCHANGED <<row, index, journal, outcome, backup, given>> /\ Saved' = Saved
    BY DEF RecoveryAct, del_vars, Saved
  <2>6. Placed(p)'
    <3> HIDE DEF plan
    <3> QED BY <1>1, <2>4, <2>5
         DEF Locals, Placed, InDb, Recovering, Preparing, Replacing, Attempting, Deleting
  <2>7. /\ path' \in Fitting /\ staged' \in [Moves -> Fitting]
        /\ rollback' \in [Moves -> Fitting]
    <3> HIDE DEF l, plan, k
    <3> QED BY <1>2, <2>1, FilesFit, SidesFit
  <2> HIDE DEF l, plan, k
  <2> QED BY <1>1, <2>1, <2>4, <2>5, <2>6, <2>7, IndStepOnDisk DEF TypeOK
<1> QED BY <1>3, <1>4 DEF RecoveryAct

LEMMA RecoveryCommitInd ==
  ASSUME IndInv, NEW p \in Procs, RecoveryCommit(p)
  PROVE  IndInv'
<1>1. TypeOK /\ loc[p] \in Locals /\ Placed(p) /\ loc[p].pc = "recCommit" /\ loc[p].pc \in InDb
  BY DEF IndInv, TypeOK, RecoveryCommit, At, InDb, Recovering
<1>2. UNCHANGED <<path, index, staged, rollback, journal, outcome, backup, given>> /\ Saved' = Saved
  BY DEF RecoveryCommit, move_vars, del_vars, Saved
<1>3. CASE Fault /\ RecoveryFails(p) /\ UNCHANGED row
  BY <1>1, <1>2, <1>3, RecoveryFailsInd, IndStepInPlace DEF TypeOK
<1>4. CASE ~(Fault /\ RecoveryFails(p) /\ UNCHANGED row)
  <2> DEFINE b == IF loc[p].before = None THEN None
                  ELSE [loc[p].before EXCEPT !.row = row', !.file = path]
             l == [loc[p] EXCEPT !.pc = "recClean", !.before = b]
  <2>1. /\ row' = [row EXCEPT ![Db(p)] = loc[p].prev]
        /\ ReleaseDb(p) /\ Unlock(p)
        /\ loc' = [loc EXCEPT ![p] = l]
        /\ UNCHANGED <<report, budget>>
    BY <1>4 DEF RecoveryCommit
  <2>2. row' \in [Dbs -> Cwds \cup {None}]
    BY <1>1, <2>1 DEF TypeOK, Locals
  <2>3. b \in Pictures \cup {None} /\ "recClean" \in PCs
    BY <1>1, <2>2 DEF TypeOK, Locals, Pictures, PCs
  <2>4. l \in Locals
    <3> HIDE DEF b
    <3> QED BY <1>1, <2>3, WithPc, WithBefore
  <2>5. /\ loc' \in [Procs -> Locals] /\ loc'[p] = l
        /\ \A q \in Procs \ {p} : Untouched(q)
    <3> HIDE DEF l
    <3> QED BY <1>1, <2>1, <2>4, GoesOn
  <2>6. Placed(p)'
    <3> HIDE DEF b
    <3> QED BY <1>1, <1>2, <2>5
         DEF Locals, Placed, InDb, Recovering, Preparing, Replacing, Attempting, Deleting
  <2> HIDE DEF l
  <2> QED BY <1>1, <1>2, <2>1, <2>2, <2>5, <2>6, Releases, IndStepInPlace DEF TypeOK
<1> QED BY <1>3, <1>4

LEMMA RecoveryCleanInd ==
  ASSUME IndInv, NEW p \in Procs, RecoveryClean(p)
  PROVE  IndInv'
<1>1. TypeOK /\ loc[p] \in Locals /\ Placed(p) /\ loc[p].pc = "recClean" /\ loc[p].pc \in InDb
  BY DEF IndInv, TypeOK, RecoveryClean, At, InDb, Recovering
<1>2. UNCHANGED <<row, path, index, journal, outcome, backup, given>> /\ Saved' = Saved
  BY DEF RecoveryClean, del_vars, Saved
<1>3. CASE Fault /\ RecoveryFails(p) /\ UNCHANGED <<staged, rollback>>
  BY <1>1, <1>2, <1>3, RecoveryFailsInd, IndStepInPlace DEF TypeOK
<1>4. CASE ~(Fault /\ RecoveryFails(p) /\ UNCHANGED <<staged, rollback>>)
  <2>1. /\ staged' = [staged EXCEPT ![loc[p].job] = None]
        /\ rollback' = [rollback EXCEPT ![loc[p].job] = None]
        /\ Goto(p, "recDone")
        /\ UNCHANGED <<writer, flock, report, budget>>
    BY <1>4 DEF RecoveryClean
  <2>2. "recDone" \in PCs
    BY DEF PCs
  <2>3. /\ loc' \in [Procs -> Locals] /\ loc'[p] = [loc[p] EXCEPT !.pc = "recDone"]
        /\ \A q \in Procs \ {p} : Untouched(q)
    BY <1>1, <2>1, <2>2, Goes
  <2>4. Placed(p)'
    BY <1>1, <1>2, <2>3
       DEF Locals, Placed, InDb, Recovering, Preparing, Replacing, Attempting, Deleting
  <2>5. staged' \in [Moves -> Fitting] /\ rollback' \in [Moves -> Fitting] /\ path' \in Fitting
    BY <1>2, <2>1, SidesFit, FilesFit
  <2> QED BY <1>1, <1>2, <2>1, <2>3, <2>4, <2>5, IndStepOnDisk DEF TypeOK
<1> QED BY <1>3, <1>4

LEMMA RecoveryDoneInd ==
  ASSUME IndInv, NEW p \in Procs, RecoveryDone(p)
  PROVE  IndInv'
<1>1. TypeOK /\ loc[p] \in Locals /\ Placed(p) /\ loc[p].pc = "recDone" /\ loc[p].pc \in InDb
  BY DEF IndInv, TypeOK, RecoveryDone, At, InDb, Recovering
<1>2. UNCHANGED <<row, path, index, staged, rollback, outcome, backup, given>> /\ Saved' = Saved
  BY DEF RecoveryDone, del_vars, Saved
<1>3. CASE Fault /\ RecoveryFails(p) /\ UNCHANGED journal
  BY <1>1, <1>2, <1>3, RecoveryFailsInd, IndStepInPlace DEF TypeOK
<1>4. CASE ~(Fault /\ RecoveryFails(p) /\ UNCHANGED journal)
  <2> DEFINE l == [loc[p] EXCEPT !.job = None, !.copy = None, !.prev = None, !.pc = "recover"]
  <2>1. /\ journal' = [journal EXCEPT ![loc[p].job] = None]
        /\ loc' = [loc EXCEPT ![p] = l]
        /\ UNCHANGED <<writer, flock, report, budget>>
    BY <1>4 DEF RecoveryDone
  <2>2. l \in Locals
    BY <1>1, WithJob, WithCopy, WithPrev, WithPc DEF PCs
  <2>3. /\ loc' \in [Procs -> Locals] /\ loc'[p] = l
        /\ \A q \in Procs \ {p} : Untouched(q)
    <3> HIDE DEF l
    <3> QED BY <1>1, <2>1, <2>2, GoesOn
  <2>4. Placed(p)'
    BY <1>1, <1>2, <2>3
       DEF Locals, Placed, InDb, Recovering, Preparing, Replacing, Attempting, Deleting
  <2>5. journal' \in [Moves -> Journals \cup {None}]
    BY <1>1, <2>1 DEF TypeOK
  <2>6. staged' \in [Moves -> Fitting] /\ rollback' \in [Moves -> Fitting] /\ path' \in Fitting
    BY <1>2, FilesFit
  <2> HIDE DEF l
  <2> QED BY <1>1, <1>2, <2>1, <2>3, <2>4, <2>5, <2>6, IndStepOnDisk DEF TypeOK
<1> QED BY <1>3, <1>4

----
(* ... the steps of a move. *)

LEMMA MoveFailsInd ==
  ASSUME IndInv, NEW p \in Procs, loc[p].pc \in InDb, MoveFails(p)
  PROVE  /\ loc' \in [Procs -> Locals]
         /\ \A q \in Procs \ {p} : Untouched(q)
         /\ report' \in [Procs -> Reports]
         /\ Placed(p)'
         /\ loc'[p].job = None /\ loc'[p].move = None /\ loc'[p].todo = {}
         /\ loc'[p].pc \in {"idle", "scan"}
         /\ writer' \in [Dbs -> Procs \cup {None}]
         /\ flock' \in [Procs -> Inodes \cup {None}]
         /\ outcome' \in [Moves -> {"unused", "open", "moved", "failed"}]
<1>1. "failed" \in Reports /\ TypeOK
  BY DEF Reports, IndInv
<1>2. ReleaseDb(p) /\ Unlock(p) /\ NextDatabase(p, "failed")
  BY DEF MoveFails
<1>3. outcome' \in [Moves -> {"unused", "open", "moved", "failed"}]
  BY <1>1 DEF MoveFails, TypeOK
<1> QED BY <1>1, <1>2, <1>3, Releases, GoesToNext

LEMMA DroppedFits ==
  ASSUME IndInv, NEW k, Dropped(k)
  PROVE  staged' \in [Moves -> Fitting] /\ rollback' \in [Moves -> Fitting]
BY FilesFit, SidesFit DEF Dropped

LEMMA MovedInd ==
  ASSUME IndInv, NEW p \in Procs, Moved(p)
  PROVE  /\ loc' \in [Procs -> Locals]
         /\ \A q \in Procs \ {p} : Untouched(q)
         /\ report' \in [Procs -> Reports]
         /\ Placed(p)'
         /\ loc'[p] = Idle
         /\ outcome' \in [Moves -> {"unused", "open", "moved", "failed"}]
<1>1. "moved" \in Reports /\ TypeOK
  BY DEF Reports, IndInv
<1>2. outcome' \in [Moves -> {"unused", "open", "moved", "failed"}]
  BY <1>1 DEF Moved, TypeOK
<1>3. Ended(p, "moved")
  BY DEF Moved
<1> QED BY <1>1, <1>2, <1>3, Ends

LEMMA StageInd ==
  ASSUME IndInv, NEW p \in Procs, Stage(p)
  PROVE  IndInv'
<1>1. TypeOK /\ loc[p] \in Locals /\ Placed(p) /\ loc[p].pc = "stage" /\ loc[p].pc \in InDb
  BY DEF IndInv, TypeOK, Stage, At, InDb
<1>2. UNCHANGED <<row, path, index, rollback, journal, backup, given, budget>> /\ Saved' = Saved
  BY DEF Stage, del_vars, Saved
<1>3. CASE row[Db(p)] = None \/ ~Lockable(p)
  BY <1>3, <1>1, <1>2, MoveFailsInd, IndStepInPlace DEF Stage, TypeOK
<1>4. CASE ~(row[Db(p)] = None \/ ~Lockable(p))
  <2> DEFINE m == ModeOf(loc[p].target)
             s == IF path = None THEN None ELSE SignatureOf(path)
             place == IF path = None THEN "begin" ELSE "link"
             l(k) == [loc[p] EXCEPT !.move = k, !.prev = row[Db(p)], !.sig = s, !.mode = m,
                                    !.pc = place]
  <2>1. PICK k \in NextMove :
            /\ outcome' = [outcome EXCEPT ![k] = "open"]
            /\ staged' = IF path = None THEN staged
                         ELSE [staged EXCEPT ![k] = Rewritten(loc[p].target)]
            /\ flock' = [flock EXCEPT ![p] = IF path = None THEN None ELSE path.ino]
            /\ loc' = [loc EXCEPT ![p] = l(k)]
            /\ UNCHANGED <<writer, report>>
    BY <1>4 DEF Stage
  <2>2. k \in Moves /\ row[Db(p)] \in Cwds
    BY <1>1, <1>4, AtDb DEF NextMove, TypeOK
  <2>3. /\ m \in {"missing", "current", "staged", "none"} /\ place \in PCs
        /\ s \in Signatures \cup {None}
        /\ (IF path = None THEN None ELSE path.ino) \in Inodes \cup {None}
    BY <1>1 DEF ModeOf, PCs, SignatureOf, Signatures, TypeOK, File
  <2>4. l(k) \in Locals
    <3> HIDE DEF m, s, place
    <3> QED BY <1>1, <2>2, <2>3, WithMove, WithPrev, WithSig, WithMode, WithPc
  <2>5. /\ loc' \in [Procs -> Locals] /\ loc'[p] = l(k)
        /\ \A q \in Procs \ {p} : Untouched(q)
    <3> HIDE DEF l
    <3> QED BY <1>1, <2>1, <2>4, GoesOn
  <2>6. Placed(p)'
    <3>1. place \in Attempting /\ place \notin Recovering \cup Deleting
      BY DEF Recovering, Preparing, Replacing, Attempting, Deleting
    <3> HIDE DEF m, s, place
    <3> QED BY <1>1, <1>2, <2>2, <2>5, <3>1
         DEF Locals, Placed, InDb, Recovering, Preparing, Replacing, Attempting, Deleting
  <2>7. /\ outcome' \in [Moves -> {"unused", "open", "moved", "failed"}]
        /\ flock' \in [Procs -> Inodes \cup {None}]
        /\ writer' \in [Dbs -> Procs \cup {None}] /\ report' \in [Procs -> Reports]
    <3> HIDE DEF l
    <3> QED BY <1>1, <2>1, <2>3 DEF TypeOK
  <2>8. staged' \in [Moves -> Fitting]
    <3>1. path # None => Rewritten(loc[p].target) \in Fitting
      BY <1>1, FreshIsFresh DEF Placed, InDb, IndInv, TypeOK, Fits, Rewritten, Fitting, Short, File
    <3> HIDE DEF l
    <3> QED BY <2>1, <3>1, FilesFit
  <2>9. path' \in Fitting /\ rollback' \in [Moves -> Fitting]
    BY <1>2, FilesFit
  <2> HIDE DEF l
  <2> QED BY <1>1, <1>2, <2>5, <2>6, <2>7, <2>8, <2>9, IndStepOnDisk DEF TypeOK
<1> QED BY <1>3, <1>4

(* What a move takes along to another of its places. *)
LEMMA MoveGoes ==
  ASSUME IndInv, NEW p \in Procs, loc[p].pc \in Attempting, NEW place \in Attempting,
         Goto(p, place), UNCHANGED backup
  PROVE  /\ loc' \in [Procs -> Locals]
         /\ \A q \in Procs \ {p} : Untouched(q)
         /\ loc'[p] = [loc[p] EXCEPT !.pc = place]
         /\ Placed(p)'
<1>1. TypeOK /\ loc[p] \in Locals /\ Placed(p) /\ Saved' = Saved /\ place \in PCs
  BY DEF IndInv, TypeOK, Saved, Preparing, Replacing, Attempting, PCs
<1>2. /\ loc' \in [Procs -> Locals] /\ loc'[p] = [loc[p] EXCEPT !.pc = place]
      /\ \A q \in Procs \ {p} : Untouched(q)
  BY <1>1, Goes
<1>3. Placed(p)'
  BY <1>1, <1>2
     DEF Locals, Placed, InDb, Recovering, Preparing, Replacing, Attempting, Deleting
<1> QED BY <1>2, <1>3

LEMMA LinkInd ==
  ASSUME IndInv, NEW p \in Procs, Link(p)
  PROVE  IndInv'
<1>1. /\ TypeOK /\ loc[p] \in Locals /\ Placed(p)
      /\ loc[p].pc \in Attempting /\ loc[p].pc \in InDb
  BY DEF IndInv, TypeOK, Link, At, InDb, Attempting, Preparing
<1>2. UNCHANGED <<row, path, index, journal, backup, given, budget>>
  BY DEF Link, del_vars
<1>3. CASE ~Unchanged(p)
  BY <1>3, <1>2, FilesFit, <1>1, MoveFailsInd, DroppedFits, IndStepOnDisk DEF Link, TypeOK
<1>4. CASE Unchanged(p)
  <2>1. /\ UNCHANGED <<staged, outcome, writer, flock, report>> /\ Goto(p, "begin")
        /\ \/ UNCHANGED rollback
           \/ \E ino \in {path.ino, FreshInode} :
                rollback' = [rollback EXCEPT ![loc[p].move] = [path EXCEPT !.ino = ino]]
    BY <1>4 DEF Link
  <2>2. \A ino \in {path.ino, FreshInode} : [path EXCEPT !.ino = ino] \in Fitting
    BY <1>1, <1>4, FreshIsFresh DEF Unchanged, IndInv, TypeOK, Fits, File, Short, Fitting
  <2>3. rollback' \in [Moves -> Fitting] /\ staged' \in [Moves -> Fitting] /\ path' \in Fitting
    BY <1>2, <2>1, <2>2, FilesFit
  <2>4. "begin" \in Attempting
    BY DEF Attempting, Preparing
  <2>5. loc' \in [Procs -> Locals] /\ (\A q \in Procs \ {p} : Untouched(q)) /\ Placed(p)'
    BY <1>1, <1>2, <2>1, <2>4, MoveGoes
  <2> QED BY <1>1, <1>2, <2>1, <2>3, <2>5, IndStepOnDisk DEF TypeOK
<1> QED BY <1>3, <1>4

LEMMA BeginInd ==
  ASSUME IndInv, NEW p \in Procs, Begin(p)
  PROVE  IndInv'
<1>1. /\ TypeOK /\ loc[p] \in Locals /\ Placed(p)
      /\ loc[p].pc \in Attempting /\ loc[p].pc \in InDb
  BY DEF IndInv, TypeOK, Begin, At, InDb, Attempting, Preparing
<1>2. UNCHANGED <<row, path, index, journal, backup, given, budget>> /\ path' \in Fitting
  BY FilesFit DEF Begin, del_vars
<1>3. CASE MoveFails(p) /\ Dropped(loc[p].move)
  BY <1>1, <1>2, <1>3, MoveFailsInd, DroppedFits, IndStepOnDisk DEF TypeOK
<1>4. CASE ~(MoveFails(p) /\ Dropped(loc[p].move))
  <2> DEFINE place == IF loc[p].mode = "staged"
                        \/ (loc[p].mode = "current" /\ loc[p].prev # loc[p].target)
                      THEN "journal" ELSE "commit"
  <2>1. /\ writer' = [writer EXCEPT ![Db(p)] = p] /\ Goto(p, place)
        /\ UNCHANGED <<flock, staged, rollback, outcome, report>>
    BY <1>4 DEF Begin
  <2>2. place \in Attempting
    BY DEF Attempting, Preparing
  <2> HIDE DEF place
  <2>3. loc' \in [Procs -> Locals] /\ (\A q \in Procs \ {p} : Untouched(q)) /\ Placed(p)'
    BY <1>1, <1>2, <2>1, <2>2, MoveGoes
  <2>4. writer' \in [Dbs -> Procs \cup {None}]
    BY <1>1, <2>1 DEF TypeOK
  <2> QED BY <1>1, <1>2, <2>1, <2>3, <2>4, IndStepInPlace DEF TypeOK
<1> QED BY <1>3, <1>4

LEMMA WriteJournalInd ==
  ASSUME IndInv, NEW p \in Procs, WriteJournal(p)
  PROVE  IndInv'
<1>1. /\ TypeOK /\ loc[p] \in Locals /\ Placed(p)
      /\ loc[p].pc \in Attempting /\ loc[p].pc \in InDb
  BY DEF IndInv, TypeOK, WriteJournal, At, InDb, Attempting, Preparing
<1>2. UNCHANGED <<row, path, index, backup, given>> /\ path' \in Fitting
  BY FilesFit DEF WriteJournal, del_vars
<1>3. CASE Fault /\ MoveFails(p) /\ Dropped(loc[p].move) /\ UNCHANGED journal
  BY <1>1, <1>2, <1>3, MoveFailsInd, DroppedFits, IndStepOnDisk DEF TypeOK
<1>4. CASE ~(Fault /\ MoveFails(p) /\ Dropped(loc[p].move) /\ UNCHANGED journal)
  <2> DEFINE place == IF loc[p].mode = "staged" THEN "verify" ELSE "commit"
  <2>1. /\ journal' = [journal EXCEPT ![loc[p].move] = JournalOf(p)] /\ Goto(p, place)
        /\ UNCHANGED <<staged, rollback, outcome, writer, flock, report, budget>>
    BY <1>4 DEF WriteJournal
  <2>2. place \in Attempting
    BY DEF Attempting, Replacing
  <2> HIDE DEF place
  <2>3. loc' \in [Procs -> Locals] /\ (\A q \in Procs \ {p} : Untouched(q)) /\ Placed(p)'
    BY <1>1, <1>2, <2>1, <2>2, MoveGoes
  <2>4. journal' \in [Moves -> Journals \cup {None}]
    <3>1. JournalOf(p) \in Journals
      BY <1>1, AtDb DEF Placed, JournalOf, Journals
    <3> QED BY <1>1, <2>1, <3>1 DEF TypeOK
  <2>5. staged' \in [Moves -> Fitting] /\ rollback' \in [Moves -> Fitting]
    BY <2>1, FilesFit
  <2> QED BY <1>1, <1>2, <2>1, <2>3, <2>4, <2>5, IndStepOnDisk DEF TypeOK
<1> QED BY <1>3, <1>4

LEMMA VerifyInd ==
  ASSUME IndInv, NEW p \in Procs, Verify(p)
  PROVE  IndInv'
<1>1. /\ TypeOK /\ loc[p].pc \in Attempting /\ loc[p].pc \in InDb /\ "replace" \in Attempting
  BY DEF IndInv, Verify, At, InDb, Attempting, Replacing
<1>2. UNCHANGED <<row, path, index, staged, rollback, journal, backup, given, budget>>
  BY DEF Verify, del_vars
<1>3. CASE Unchanged(p)
  BY <1>3, <1>1, <1>2, MoveGoes, IndStepInPlace DEF Verify, TypeOK
<1>4. CASE ~Unchanged(p)
  <2>1. MoveFails(p)
    BY <1>4 DEF Verify
  <2> QED BY <1>1, <1>2, <2>1, MoveFailsInd, IndStepInPlace DEF TypeOK
<1> QED BY <1>3, <1>4

LEMMA ReplaceInd ==
  ASSUME IndInv, NEW p \in Procs, Replace(p)
  PROVE  IndInv'
<1>1. /\ TypeOK /\ loc[p].pc \in Attempting /\ loc[p].pc \in InDb /\ "commit" \in Attempting
      /\ loc[p].move \in Moves
  BY DEF IndInv, Placed, Replace, At, InDb, Attempting, Replacing
<1>2. UNCHANGED <<row, index, rollback, journal, backup, given>>
  BY DEF Replace, del_vars
<1>3. CASE Fault /\ MoveFails(p) /\ UNCHANGED <<path, staged>>
  BY <1>1, <1>2, <1>3, MoveFailsInd, IndStepInPlace DEF TypeOK
<1>4. CASE ~(Fault /\ MoveFails(p) /\ UNCHANGED <<path, staged>>)
  <2>1. /\ path' = staged[loc[p].move] /\ staged' = [staged EXCEPT ![loc[p].move] = None]
        /\ Goto(p, "commit") /\ UNCHANGED <<outcome, writer, flock, report, budget>>
    BY <1>4 DEF Replace
  <2>2. path' \in Fitting /\ staged' \in [Moves -> Fitting] /\ rollback' \in [Moves -> Fitting]
    BY <1>1, <1>2, <2>1, SidesFit, FilesFit
  <2> QED BY <1>1, <1>2, <2>1, <2>2, MoveGoes, IndStepOnDisk DEF TypeOK
<1> QED BY <1>3, <1>4

LEMMA CommitInd ==
  ASSUME IndInv, NEW p \in Procs, Commit(p)
  PROVE  IndInv'
<1>1. /\ TypeOK /\ loc[p].pc \in Attempting /\ loc[p].pc \in InDb
      /\ "finish" \in Attempting /\ "recheck" \in Attempting
      /\ loc[p].target \in Cwds
  BY DEF IndInv, Placed, Commit, At, InDb, Attempting
<1>2. UNCHANGED <<path, index, journal, backup, given>> /\ path' \in Fitting
  BY FilesFit DEF Commit, del_vars
<1>3. CASE /\ row' = [row EXCEPT ![Db(p)] = loc[p].target]
           /\ ReleaseDb(p)
           /\ Goto(p, "finish")
           /\ UNCHANGED <<staged, rollback, outcome, flock, report, budget>>
  BY <1>1, <1>3, <1>2, Releases, MoveGoes, IndStepInPlace DEF TypeOK
<1>4. CASE /\ Fault /\ UNCHANGED row /\ ReleaseDb(p) /\ Goto(p, "recheck")
           /\ UNCHANGED <<staged, rollback, outcome, flock, report>>
  BY <1>1, <1>2, <1>4, Releases, MoveGoes, IndStepInPlace DEF TypeOK
<1>5. CASE Fault /\ UNCHANGED row /\ MoveFails(p) /\ Dropped(loc[p].move)
  BY <1>1, <1>2, <1>5, MoveFailsInd, DroppedFits, IndStepOnDisk DEF TypeOK
<1> QED BY <1>3, <1>4, <1>5 DEF Commit

LEMMA RecheckInd ==
  ASSUME IndInv, NEW p \in Procs, Recheck(p)
  PROVE  IndInv'
<1>1. /\ TypeOK /\ loc[p].pc \in Attempting /\ loc[p].pc \in InDb /\ "restore" \in Attempting
  BY DEF IndInv, Recheck, At, InDb, Attempting
<1>2. UNCHANGED <<row, path, index, staged, rollback, journal, backup, given, budget>>
  BY DEF Recheck, del_vars
<1>3. CASE Goto(p, "restore") /\ UNCHANGED <<outcome, writer, flock, report>>
  BY <1>1, <1>2, <1>3, MoveGoes, IndStepInPlace DEF TypeOK
<1>4. CASE MoveFails(p)
  BY <1>1, <1>2, <1>4, MoveFailsInd, IndStepInPlace DEF TypeOK
<1> QED BY <1>3, <1>4 DEF Recheck

LEMMA PutBackInd ==
  ASSUME IndInv, NEW p \in Procs, PutBack(p)
  PROVE  IndInv'
<1>1. /\ TypeOK /\ loc[p].pc \in Attempting /\ loc[p].pc \in InDb /\ "unjournal" \in Attempting
      /\ loc[p].move \in Moves
  BY DEF IndInv, Placed, PutBack, At, InDb, Attempting
<1>2. UNCHANGED <<row, index, staged, journal, backup, given>>
  BY DEF PutBack, del_vars
<1>3. CASE (UNCHANGED budget \/ Fault) /\ MoveFails(p) /\ UNCHANGED <<path, rollback>>
  BY <1>1, <1>2, <1>3, MoveFailsInd, IndStepInPlace DEF TypeOK
<1>4. CASE /\ path' = rollback[loc[p].move]
           /\ rollback' = [rollback EXCEPT ![loc[p].move] = None]
           /\ Goto(p, "unjournal") /\ UNCHANGED <<outcome, writer, flock, report, budget>>
  BY <1>1, <1>2, <1>4, SidesFit, FilesFit, MoveGoes, IndStepOnDisk DEF TypeOK
<1> QED BY <1>3, <1>4 DEF PutBack

LEMMA UnjournalInd ==
  ASSUME IndInv, NEW p \in Procs, Unjournal(p)
  PROVE  IndInv'
<1>1. TypeOK /\ loc[p].pc \in InDb
  BY DEF IndInv, Unjournal, At, InDb, Attempting
<1>2. UNCHANGED <<row, path, index, rollback, backup, given>> /\ MoveFails(p)
  BY DEF Unjournal, del_vars
<1>3. /\ journal' \in [Moves -> Journals \cup {None}] /\ staged' \in [Moves -> Fitting]
      /\ (UNCHANGED budget \/ Fault)
  BY <1>1, FilesFit, SidesFit DEF Unjournal, TypeOK
<1>4. path' \in Fitting /\ rollback' \in [Moves -> Fitting]
  BY <1>2, FilesFit
<1> QED BY <1>1, <1>2, <1>3, <1>4, MoveFailsInd, IndStepOnDisk DEF TypeOK

LEMMA FinishInd ==
  ASSUME IndInv, NEW p \in Procs, Finish(p)
  PROVE  IndInv'
<1>1. TypeOK /\ loc[p].pc \in Attempting /\ "clear" \in Attempting
  BY DEF IndInv, Finish, At, Attempting
<1>2. UNCHANGED <<row, writer, path, index, journal, backup, given>> /\ Unlock(p)
  BY DEF Finish, del_vars
<1>3. /\ staged' \in [Moves -> Fitting] /\ rollback' \in [Moves -> Fitting] /\ path' \in Fitting
      /\ (UNCHANGED budget \/ Fault)
  BY <1>2, FilesFit, SidesFit DEF Finish
<1>4. CASE Goto(p, "clear") /\ UNCHANGED <<outcome, report>>
  BY <1>1, <1>2, <1>3, <1>4, Releases, MoveGoes, IndStepOnDisk DEF TypeOK
<1>5. CASE Moved(p)
  BY <1>1, <1>2, <1>3, <1>5, Releases, MovedInd, IndStepOnDisk DEF TypeOK
<1> QED BY <1>4, <1>5 DEF Finish

LEMMA ClearJournalInd ==
  ASSUME IndInv, NEW p \in Procs, ClearJournal(p)
  PROVE  IndInv'
<1>1. TypeOK /\ Moved(p) /\ (UNCHANGED budget \/ Fault)
  BY DEF IndInv, ClearJournal
<1>2. UNCHANGED <<row, writer, path, flock, index, staged, rollback, backup, given>>
  BY DEF ClearJournal, db_vars, file_vars, del_vars
<1>3. /\ journal' \in [Moves -> Journals \cup {None}]
      /\ staged' \in [Moves -> Fitting] /\ rollback' \in [Moves -> Fitting] /\ path' \in Fitting
  BY <1>1, <1>2, FilesFit DEF ClearJournal, TypeOK
<1> QED BY <1>1, <1>2, <1>3, MovedInd, IndStepOnDisk DEF TypeOK

----
(* ... those of a delete and of an undo. *)

(* A process outside of the moves goes on. *)
LEMMA GoesOutside ==
  ASSUME IndInv, NEW p \in Procs, NEW l \in Locals, loc' = [loc EXCEPT ![p] = l],
         l.pc \notin InDb, l.job = None, l.move = None,
         l.pc \in Deleting => l.token # None,
         l.token # None => l.token \in Saved',
         l.done \subseteq Saved', l.undo \subseteq Saved', l.pending \subseteq Saved'
  PROVE  /\ loc' \in [Procs -> Locals]
         /\ \A q \in Procs \ {p} : Untouched(q)
         /\ loc'[p] = l
         /\ Placed(p)'
<1>1. TypeOK
  BY DEF IndInv
<1>2. loc' \in [Procs -> Locals] /\ loc'[p] = l /\ \A q \in Procs \ {p} : Untouched(q)
  BY <1>1, GoesOn
<1>3. Placed(p)'
  BY <1>2 DEF Placed, InDb, Attempting, Recovering
<1> QED BY <1>2, <1>3

(* What is known of a process that deletes or undoes. *)
LEMMA Outside ==
  ASSUME IndInv, NEW p \in Procs,
         loc[p].pc \in {"delTx", "undoCheck", "undoBegin", "undoCommit", "undoFiles", "undoIndex"}
                       \cup Deleting
  PROVE  /\ TypeOK /\ loc[p] \in Locals
         /\ loc[p].job = None /\ loc[p].move = None
         /\ loc[p].pc \in Deleting => loc[p].token # None
         /\ loc[p].token # None => loc[p].token \in Saved
         /\ loc[p].done \subseteq Saved /\ loc[p].undo \subseteq Saved
         /\ loc[p].pending \subseteq Saved
<1>1. TypeOK /\ loc[p] \in Locals /\ Placed(p)
  BY DEF IndInv, TypeOK
<1>2. loc[p].pc \notin Recovering /\ loc[p].pc \notin Attempting
  BY DEF Deleting, Recovering, Attempting, Preparing, Replacing
<1> QED BY <1>1, <1>2 DEF Placed

LEMMA OutsideGoes ==
  ASSUME IndInv, NEW p \in Procs, loc[p].pc \in OutsidePCs, NEW place \in OutsidePCs,
         place \in Deleting => loc[p].pc \in Deleting,
         Goto(p, place), UNCHANGED backup
  PROVE  /\ loc' \in [Procs -> Locals]
         /\ \A q \in Procs \ {p} : Untouched(q)
         /\ loc'[p] = [loc[p] EXCEPT !.pc = place]
         /\ Placed(p)'
<1> DEFINE l == [loc[p] EXCEPT !.pc = place]
<1>1. /\ loc[p] \in Locals /\ place \in PCs /\ place \notin InDb /\ Saved' = Saved
      /\ loc[p].job = None /\ loc[p].move = None
      /\ loc[p].pc \in Deleting => loc[p].token # None
      /\ loc[p].token # None => loc[p].token \in Saved
      /\ loc[p].done \subseteq Saved /\ loc[p].undo \subseteq Saved
      /\ loc[p].pending \subseteq Saved
  BY Outside DEF OutsidePCs, PCs, Deleting, InDb, Recovering, Attempting, Preparing, Replacing, Saved
<1>2. l \in Locals /\ loc' = [loc EXCEPT ![p] = l]
  BY <1>1, WithPc DEF Goto
<1>3. /\ l.pc = place /\ l.job = loc[p].job /\ l.move = loc[p].move /\ l.token = loc[p].token
      /\ l.done = loc[p].done /\ l.undo = loc[p].undo /\ l.pending = loc[p].pending
  BY <1>1 DEF Locals
<1> HIDE DEF l
<1>4. /\ loc' \in [Procs -> Locals] /\ loc'[p] = l /\ Placed(p)'
      /\ \A q \in Procs \ {p} : Untouched(q)
  BY <1>1, <1>2, <1>3, GoesOutside
<1> QED BY <1>4 DEF l

LEMMA CandidateFailsInd ==
  ASSUME IndInv, NEW p \in Procs, loc[p].pc \in OutsidePCs,
         NEW own \in SUBSET Saved, CandidateFails(p, own), UNCHANGED backup
  PROVE  /\ loc' \in [Procs -> Locals]
         /\ \A q \in Procs \ {p} : Untouched(q)
         /\ report' \in [Procs -> Reports]
         /\ Placed(p)'
         /\ loc'[p].pc \in {"idle", "undoCheck"}
         /\ loc'[p].job = None /\ loc'[p].move = None /\ loc'[p].todo \subseteq loc[p].todo
         /\ writer' \in [Dbs -> Procs \cup {None}]
         /\ flock' \in [Procs -> Inodes \cup {None}]
         /\ given' = given \/ given' \subseteq Saved
<1>1. /\ TypeOK /\ loc[p] \in Locals /\ Saved' = Saved
      /\ loc[p].job = None /\ loc[p].move = None
      /\ loc[p].token # None => loc[p].token \in Saved
      /\ loc[p].done \subseteq Saved /\ loc[p].undo \subseteq Saved
      /\ loc[p].pending \subseteq Saved
  BY Outside DEF OutsidePCs, Saved
<1>2. writer' \in [Dbs -> Procs \cup {None}] /\ flock' \in [Procs -> Inodes \cup {None}]
  BY <1>1, Releases DEF CandidateFails
<1>3. CASE loc[p].done = {}
  <2>1. PICK said \in Reports : Ended(p, said) /\ given' = own
    BY <1>3 DEF CandidateFails, Reports
  <2>2. Idle.pc = "idle" /\ Idle.job = None /\ Idle.move = None /\ Idle.todo = {}
    BY DEF Idle
  <2> QED BY <1>1, <1>2, <2>1, <2>2, Ends
<1>4. CASE loc[p].done # {}
  <2> DEFINE l == [loc[p] EXCEPT !.undo = loc[p].done, !.token = None, !.pc = "undoCheck"]
  <2>1. loc' = [loc EXCEPT ![p] = l] /\ UNCHANGED <<given, report>>
    BY <1>4 DEF CandidateFails
  <2>2. l \in Locals
    <3>1. "undoCheck" \in PCs /\ loc[p].done \in SUBSET Backups
      BY <1>1 DEF PCs, Locals
    <3> QED BY <1>1, <3>1, WithUndo, WithToken, WithPc
  <2>3. /\ l.pc = "undoCheck" /\ l.todo = loc[p].todo /\ l.job = None /\ l.move = None /\ l.token = None
        /\ l.done = loc[p].done /\ l.undo = loc[p].done /\ l.pending = loc[p].pending
    BY <1>1 DEF Locals
  <2>4. l.pc \notin InDb /\ l.pc \notin Deleting
    BY <2>3 DEF Deleting, InDb, Recovering, Attempting, Preparing, Replacing
  <2> HIDE DEF l
  <2>5. /\ loc' \in [Procs -> Locals] /\ loc'[p] = l /\ Placed(p)'
        /\ \A q \in Procs \ {p} : Untouched(q)
    BY <1>1, <2>1, <2>2, <2>3, <2>4, GoesOutside
  <2> QED BY <1>1, <1>2, <2>1, <2>3, <2>5 DEF TypeOK
<1> QED BY <1>3, <1>4

LEMMA AfterUndoInd ==
  ASSUME IndInv, NEW p \in Procs, loc[p].pc \in OutsidePCs,
         NEW ok \in BOOLEAN, AfterUndo(p, ok), UNCHANGED backup
  PROVE  /\ loc' \in [Procs -> Locals]
         /\ \A q \in Procs \ {p} : Untouched(q)
         /\ report' \in [Procs -> Reports]
         /\ Placed(p)'
         /\ loc'[p].pc \in {"idle", "undoCheck"}
         /\ loc'[p].job = None /\ loc'[p].move = None /\ loc'[p].todo \subseteq loc[p].todo
         /\ given' = given \/ given' \subseteq Saved
<1>1. /\ TypeOK /\ loc[p] \in Locals /\ Saved' = Saved
      /\ loc[p].job = None /\ loc[p].move = None
      /\ loc[p].done \subseteq Saved /\ loc[p].undo \subseteq Saved
  BY Outside DEF OutsidePCs, Saved
<1>2. CASE \E said \in Reports : Ended(p, said) /\ given' \in {given, loc[p].undo}
  <2>1. PICK said \in Reports : Ended(p, said) /\ given' \in {given, loc[p].undo}
    BY <1>2
  <2>2. Idle.pc = "idle" /\ Idle.job = None /\ Idle.move = None /\ Idle.todo = {}
    BY DEF Idle
  <2> QED BY <1>1, <2>1, <2>2, Ends
<1>3. CASE /\ UNCHANGED <<given, report>>
           /\ loc' = [loc EXCEPT ![p] =
                [@ EXCEPT !.undo = loc[p].done, !.pending = {}, !.token = None, !.bad = ~ok,
                          !.pc = "undoCheck"]]
  <2>0. PICK b \in BOOLEAN : b = ~ok
    BY Zenon
  <2> DEFINE l == [loc[p] EXCEPT !.undo = loc[p].done, !.pending = {}, !.token = None,
                                 !.bad = b, !.pc = "undoCheck"]
  <2>1. loc' = [loc EXCEPT ![p] = l]
    BY <1>3, <2>0
  <2>2. l \in Locals
    BY <1>1, WithUndo, WithPending, WithToken, WithBad, WithPc DEF Saved, PCs
  <2>3. /\ l.pc = "undoCheck" /\ l.todo = loc[p].todo /\ l.job = None /\ l.move = None /\ l.token = None
        /\ l.done = loc[p].done /\ l.undo = loc[p].done /\ l.pending = {}
    BY <1>1 DEF Locals
  <2>4. l.pc \notin InDb /\ l.pc \notin Deleting
    BY <2>3 DEF Deleting, InDb, Recovering, Attempting, Preparing, Replacing
  <2> HIDE DEF l
  <2>5. /\ loc' \in [Procs -> Locals] /\ loc'[p] = l /\ Placed(p)'
        /\ \A q \in Procs \ {p} : Untouched(q)
    BY <1>1, <2>1, <2>2, <2>3, <2>4, GoesOutside
  <2> QED BY <1>1, <1>3, <2>3, <2>5 DEF TypeOK
<1>4. \/ \E said \in Reports : Ended(p, said) /\ given' \in {given, loc[p].undo}
      \/ /\ UNCHANGED <<given, report>>
         /\ loc' = [loc EXCEPT ![p] =
              [@ EXCEPT !.undo = loc[p].done, !.pending = {}, !.token = None, !.bad = ~ok,
                        !.pc = "undoCheck"]]
  <2>1. CASE loc[p].op = "undo"
    BY <2>1 DEF AfterUndo, Reports
  <2>2. CASE loc[p].op # "undo" /\ loc[p].token # None /\ loc[p].done # {}
    BY <2>2 DEF AfterUndo
  <2>3. CASE loc[p].op # "undo" /\ ~(loc[p].token # None /\ loc[p].done # {})
    BY <2>3 DEF AfterUndo, Reports
  <2> QED BY <2>1, <2>2, <2>3
<1> QED BY <1>2, <1>3, <1>4

LEMMA UndoFailsInd ==
  ASSUME IndInv, NEW p \in Procs, loc[p].pc \in OutsidePCs, UndoFails(p), UNCHANGED backup
  PROVE  /\ loc' \in [Procs -> Locals]
         /\ \A q \in Procs \ {p} : Untouched(q)
         /\ report' \in [Procs -> Reports]
         /\ Placed(p)'
         /\ loc'[p].pc \in {"idle", "undoCheck"}
         /\ loc'[p].job = None /\ loc'[p].move = None /\ loc'[p].todo \subseteq loc[p].todo
         /\ given' = given \/ given' \subseteq Saved
         /\ writer' \in [Dbs -> Procs \cup {None}]
<1>1. TypeOK /\ ReleaseDb(p) /\ AfterUndo(p, FALSE)
  BY DEF UndoFails, IndInv
<1> QED BY <1>1, AfterUndoInd, Releases

LEMMA BackUpInd ==
  ASSUME IndInv, NEW p \in Procs, BackUp(p)
  PROVE  IndInv'
<1>1. loc[p].pc = "delTx" /\ loc[p].pc \in OutsidePCs
  BY DEF BackUp, At, OutsidePCs
<1>2. /\ TypeOK /\ loc[p] \in Locals /\ loc[p].job = None /\ loc[p].move = None
      /\ loc[p].done \subseteq Saved /\ loc[p].undo \subseteq Saved
      /\ loc[p].pending \subseteq Saved
  BY <1>1, Outside
<1>3. UNCHANGED <<row, path, index, staged, rollback, journal, outcome>>
  BY DEF BackUp, move_vars
<1>4. CASE CandidateFails(p, {}) /\ UNCHANGED backup /\ (UNCHANGED budget \/ Fault)
  BY <1>1, <1>2, <1>3, <1>4, CandidateFailsInd, IndStepInPlace DEF TypeOK
<1>5. ASSUME NEW d \in NextDb(p), NEW b \in NextBackup,
             row[d] # None,
             writer' = [writer EXCEPT ![d] = p],
             flock' = [flock EXCEPT ![p] = IF path = None THEN None ELSE path.ino],
             backup' = [backup EXCEPT ![b] = BackupOf(d)],
             loc' = [loc EXCEPT ![p] =
                    [@ EXCEPT !.token = b, !.pc = "delVerify", !.bad = FALSE,
                              !.sig = IF path = None THEN None ELSE SignatureOf(path)]],
             UNCHANGED <<given, report, budget>>
      PROVE  IndInv'
  <2> DEFINE s == IF path = None THEN None ELSE SignatureOf(path)
             l == [loc[p] EXCEPT !.token = b, !.pc = "delVerify", !.bad = FALSE, !.sig = s]
  <2>1. d \in Dbs /\ b \in Backups /\ backup[b] = None
    BY <1>2 DEF NextDb, NextBackup, Locals
  <2>2. /\ BackupOf(d) \in BackupRecords /\ BackupOf(d) # None /\ BackupOf(d).file = path
        /\ s \in Signatures \cup {None}
        /\ (IF path = None THEN None ELSE path.ino) \in Inodes \cup {None}
    BY <1>2, <1>5, <2>1, SessionAssumption DEF BackupOf, BackupRecords, TypeOK, SignatureOf, Signatures,
      File
  <2>3. Saved' = Saved \cup {b}
    BY <1>2, <1>5, <2>1, <2>2 DEF Saved, TypeOK
  <2>4. l \in Locals /\ loc' = [loc EXCEPT ![p] = l]
    <3>1. "delVerify" \in PCs /\ b \in Backups \cup {None} /\ FALSE \in BOOLEAN
      BY <2>1 DEF PCs
    <3>2. l \in Locals
      <4> HIDE DEF s
      <4> QED BY <1>2, <2>2, <3>1, WithToken, WithPc, WithBad, WithSig
    <3> QED BY <1>5, <3>2
  <2>5. /\ l.pc = "delVerify" /\ l.job = None /\ l.move = None /\ l.token = b
        /\ l.done = loc[p].done /\ l.undo = loc[p].undo /\ l.pending = loc[p].pending
    BY <1>2 DEF Locals
  <2>6. l.pc \notin InDb
    BY <2>5 DEF InDb, Recovering, Attempting, Preparing, Replacing
  <2>7. b # None
    BY <2>1, SessionAssumption
  <2> HIDE DEF l
  <2>8. /\ loc' \in [Procs -> Locals] /\ Placed(p)'
        /\ \A q \in Procs \ {p} : Untouched(q)
    BY <1>2, <2>3, <2>4, <2>5, <2>6, <2>7, GoesOutside
  <2>9. TypeOK'
    BY <1>2, <1>3, <1>5, <2>1, <2>2, <2>8 DEF TypeOK
  <2>10. Fits'
    BY <1>2, <1>3, <1>5, <2>1, <2>2, <2>3 DEF IndInv, Fits, Short, TypeOK
  <2> QED BY <2>3, <2>8, <2>9, <2>10, IndStep
<1>6. PICK d \in NextDb(p) :
       \/ CandidateFails(p, {}) /\ UNCHANGED backup /\ (UNCHANGED budget \/ Fault)
       \/ /\ writer[d] = None /\ row[d] # None
          /\ writer' = [writer EXCEPT ![d] = p]
          /\ flock' = [flock EXCEPT ![p] = IF path = None THEN None ELSE path.ino]
          /\ \E b \in NextBackup :
               /\ backup' = [backup EXCEPT ![b] = BackupOf(d)]
               /\ loc' = [loc EXCEPT ![p] =
                    [@ EXCEPT !.token = b, !.pc = "delVerify", !.bad = FALSE,
                              !.sig = IF path = None THEN None ELSE SignatureOf(path)]]
          /\ UNCHANGED <<given, report, budget>>
  BY DEF BackUp
<1> QED BY <1>4, <1>5, <1>6

LEMMA VerifyBackupInd ==
  ASSUME IndInv, NEW p \in Procs, VerifyBackup(p)
  PROVE  IndInv'
<1>1. loc[p].pc \in OutsidePCs /\ loc[p].pc \in Deleting /\ "delCommit" \in OutsidePCs
  BY DEF VerifyBackup, At, OutsidePCs, Deleting
<1>2. TypeOK /\ {loc[p].token} \in SUBSET Saved
  BY <1>1, Outside
<1>3. UNCHANGED <<row, path, index, staged, rollback, journal, outcome, backup, budget>>
  BY DEF VerifyBackup, move_vars
<1>4. CASE Goto(p, "delCommit") /\ UNCHANGED <<writer, flock, given, report>>
  BY <1>1, <1>2, <1>3, <1>4, OutsideGoes, IndStepInPlace DEF TypeOK
<1>5. CASE CandidateFails(p, {loc[p].token})
  BY <1>1, <1>2, <1>3, <1>5, CandidateFailsInd, IndStepInPlace DEF TypeOK
<1> QED BY <1>4, <1>5 DEF VerifyBackup

LEMMA DeleteRowsInd ==
  ASSUME IndInv, NEW p \in Procs, DeleteRows(p)
  PROVE  IndInv'
<1>1. loc[p].pc \in OutsidePCs /\ loc[p].pc \in Deleting /\ "delFile" \in OutsidePCs
  BY DEF DeleteRows, At, OutsidePCs, Deleting
<1>2. TypeOK /\ {loc[p].token} \in SUBSET Saved
  BY <1>1, Outside
<1>3. UNCHANGED <<path, index, staged, rollback, journal, outcome, backup>>
  BY DEF DeleteRows, move_vars
<1>4. CASE /\ \E d \in NextDb(p) : row' = [row EXCEPT ![d] = None]
           /\ ReleaseDb(p)
           /\ Goto(p, "delFile")
           /\ UNCHANGED <<flock, given, report, budget>>
  BY <1>2, <1>4, <1>1, <1>3, Releases, OutsideGoes, IndStepInPlace DEF TypeOK
<1>5. CASE Fault /\ CandidateFails(p, {loc[p].token}) /\ UNCHANGED row
  BY <1>1, <1>2, <1>3, <1>5, CandidateFailsInd, IndStepInPlace DEF TypeOK
<1> QED BY <1>4, <1>5 DEF DeleteRows

LEMMA DeleteFileInd ==
  ASSUME IndInv, NEW p \in Procs, DeleteFile(p)
  PROVE  IndInv'
<1>1. loc[p].pc \in OutsidePCs /\ loc[p].pc \in Deleting
  BY DEF DeleteFile, At, OutsidePCs, Deleting
<1>2. /\ TypeOK /\ loc[p] \in Locals
      /\ loc[p].job = None /\ loc[p].move = None
      /\ loc[p].token # None /\ loc[p].token \in Saved
      /\ loc[p].done \subseteq Saved /\ loc[p].undo \subseteq Saved
      /\ loc[p].pending \subseteq Saved
  BY <1>1, Outside
<1>3. /\ UNCHANGED <<row, writer, index, staged, rollback, journal, outcome, backup, given, report>>
      /\ Unlock(p) /\ (UNCHANGED budget \/ Fault) /\ path' \in {path, None}
  BY DEF DeleteFile, move_vars, del_vars
<1>4. PICK bad \in BOOLEAN : loc' = [loc EXCEPT ![p].bad = bad, ![p].pc = "delIndex"]
  BY DEF DeleteFile
<1> DEFINE l == [loc[p] EXCEPT !.bad = bad, !.pc = "delIndex"]
<1>5. l \in Locals /\ loc' = [loc EXCEPT ![p] = l]
  BY <1>2, WithBad, WithPc, <1>4 DEF PCs
<1>6. /\ l.pc = "delIndex" /\ l.job = None /\ l.move = None /\ l.token = loc[p].token
      /\ l.done = loc[p].done /\ l.undo = loc[p].undo /\ l.pending = loc[p].pending
  BY <1>2 DEF Locals
<1>7. l.pc \notin InDb /\ Saved' = Saved
  BY <1>3, <1>6 DEF InDb, Recovering, Attempting, Preparing, Replacing, Saved
<1> HIDE DEF l
<1>8. loc' \in [Procs -> Locals] /\ Placed(p)' /\ \A q \in Procs \ {p} : Untouched(q)
  BY <1>2, <1>5, <1>6, <1>7, GoesOutside
<1>9. path' \in Fitting /\ staged' \in [Moves -> Fitting] /\ rollback' \in [Moves -> Fitting]
  BY <1>3, FilesFit
<1> QED BY <1>2, <1>3, <1>8, <1>9, Releases, IndStepOnDisk DEF TypeOK

LEMMA DeleteIndexInd ==
  ASSUME IndInv, NEW p \in Procs, DeleteIndex(p)
  PROVE  IndInv'
<1>1. loc[p].pc \in OutsidePCs /\ loc[p].pc \in Deleting
  BY DEF DeleteIndex, At, OutsidePCs, Deleting
<1>2. /\ TypeOK /\ loc[p] \in Locals
      /\ loc[p].job = None /\ loc[p].move = None
      /\ loc[p].token # None /\ loc[p].token \in Saved
      /\ loc[p].done \subseteq Saved /\ loc[p].undo \subseteq Saved
      /\ loc[p].pending \subseteq Saved
  BY <1>1, Outside
<1>3. /\ UNCHANGED <<row, writer, path, flock, staged, rollback, journal, outcome, backup>>
      /\ (UNCHANGED budget \/ Fault) /\ index' \in BOOLEAN
      /\ \E bad \in BOOLEAN : Verdict(p, bad)
  BY <1>2 DEF DeleteIndex, move_vars, TypeOK, Locals
<1>4. PICK bad \in BOOLEAN : Verdict(p, bad)
  BY <1>3
<1>5. Saved' = Saved
  BY <1>3 DEF Saved
<1>6. /\ loc' \in [Procs -> Locals] /\ Placed(p)' /\ (\A q \in Procs \ {p} : Untouched(q))
      /\ report' \in [Procs -> Reports] /\ (given' = given \/ given' \subseteq Saved)
  <2>1. CASE bad
    <3> DEFINE l == [loc[p] EXCEPT !.bad = TRUE, !.undo = {loc[p].token}, !.pc = "undoCheck"]
    <3>1. loc' = [loc EXCEPT ![p] = l] /\ UNCHANGED <<given, report>>
      BY <1>4, <2>1 DEF Verdict
    <3>2. l \in Locals
      BY <1>2, WithBad, WithUndo, WithPc DEF Saved, PCs
    <3>3. /\ l.pc = "undoCheck" /\ l.job = None /\ l.move = None /\ l.token = loc[p].token
          /\ l.done = loc[p].done /\ l.undo = {loc[p].token} /\ l.pending = loc[p].pending
      BY <1>2 DEF Locals
    <3>4. l.pc \notin InDb
      BY <3>3 DEF InDb, Recovering, Attempting, Preparing, Replacing
    <3> HIDE DEF l
    <3>5. loc' \in [Procs -> Locals] /\ Placed(p)' /\ \A q \in Procs \ {p} : Untouched(q)
      BY <1>2, <1>5, <3>1, <3>2, <3>3, <3>4, GoesOutside
    <3> QED BY <1>2, <3>1, <3>5 DEF TypeOK
  <2>2. CASE ~bad /\ loc[p].dbs # NextDb(p)
    <3> DEFINE l == [loc[p] EXCEPT !.dbs = loc[p].dbs \ NextDb(p),
                                   !.done = loc[p].done \cup {loc[p].token},
                                   !.token = None, !.sig = None, !.pc = "delTx"]
    <3>1. loc' = [loc EXCEPT ![p] = l] /\ UNCHANGED <<given, report>>
      BY <1>4, <2>2 DEF Verdict
    <3>2. l \in Locals
      <4>1. loc[p].dbs \ NextDb(p) \in SUBSET Dbs
        BY <1>2 DEF Locals
      <4>2. loc[p].done \cup {loc[p].token} \in SUBSET Backups
        BY <1>2 DEF Saved
      <4>3. "delTx" \in PCs
        BY DEF PCs
      <4> QED BY <1>2, <4>1, <4>2, <4>3, WithDbs, WithDone, WithToken, WithSig, WithPc
    <3>3. /\ l.pc = "delTx" /\ l.job = None /\ l.move = None /\ l.token = None
          /\ l.done = loc[p].done \cup {loc[p].token}
          /\ l.undo = loc[p].undo /\ l.pending = loc[p].pending
      BY <1>2 DEF Locals
    <3>4. l.pc \notin InDb /\ l.pc \notin Deleting
      BY <3>3 DEF InDb, Recovering, Attempting, Preparing, Replacing, Deleting
    <3> HIDE DEF l
    <3>5. loc' \in [Procs -> Locals] /\ Placed(p)' /\ \A q \in Procs \ {p} : Untouched(q)
      BY <1>2, <1>5, <3>1, <3>2, <3>3, <3>4, GoesOutside
    <3> QED BY <1>2, <3>1, <3>5 DEF TypeOK
  <2>3. CASE ~bad /\ loc[p].dbs = NextDb(p)
    BY <1>4, <2>3, <1>2, Ends DEF Verdict, Reports
  <2> QED BY <2>1, <2>2, <2>3
<1> QED BY <1>2, <1>3, <1>6, IndStepInPlace DEF TypeOK

LEMMA CheckUndoInd ==
  ASSUME IndInv, NEW p \in Procs, CheckUndo(p)
  PROVE  IndInv'
<1>1. loc[p].pc = "undoCheck" /\ loc[p].pc \in OutsidePCs
  BY DEF CheckUndo, At, OutsidePCs
<1>2. /\ TypeOK /\ loc[p] \in Locals
      /\ loc[p].job = None /\ loc[p].move = None
      /\ loc[p].token # None => loc[p].token \in Saved
      /\ loc[p].done \subseteq Saved /\ loc[p].undo \subseteq Saved
  BY <1>1, Outside
<1>3. UNCHANGED <<row, path, flock, index, staged, rollback, journal, outcome, backup, budget>>
      /\ Saved' = Saved
  BY DEF CheckUndo, move_vars, Saved
<1>4. CASE UndoFails(p)
  BY <1>1, <1>2, <1>3, <1>4, UndoFailsInd, IndStepInPlace DEF TypeOK
<1>5. CASE ~UndoFails(p)
  <2> DEFINE w == {b \in loc[p].undo : row[backup[b].db] = None}
             l == [loc[p] EXCEPT !.pending = w, !.pc = "undoBegin"]
  <2>1. loc' = [loc EXCEPT ![p] = l] /\ UNCHANGED <<writer, given, report>>
    BY <1>5 DEF CheckUndo
  <2>2. w \subseteq Saved
    BY <1>2
  <2>3. l \in Locals
    <3>1. w \in SUBSET Backups
      BY <2>2 DEF Saved
    <3>2. "undoBegin" \in PCs
      BY DEF PCs
    <3> HIDE DEF w
    <3> QED BY <1>2, <3>1, <3>2, WithPending, WithPc
  <2>4. /\ l.pc = "undoBegin" /\ l.job = None /\ l.move = None /\ l.token = loc[p].token
        /\ l.done = loc[p].done /\ l.undo = loc[p].undo /\ l.pending = w
    <3> HIDE DEF w
    <3> QED BY <1>2 DEF Locals
  <2>5. l.pc \notin InDb /\ l.pc \notin Deleting
    BY <2>4 DEF InDb, Recovering, Attempting, Preparing, Replacing, Deleting
  <2> HIDE DEF l, w
  <2>6. loc' \in [Procs -> Locals] /\ Placed(p)' /\ \A q \in Procs \ {p} : Untouched(q)
    BY <1>2, <1>3, <2>1, <2>2, <2>3, <2>4, <2>5, GoesOutside
  <2> QED BY <1>2, <1>3, <2>1, <2>6, IndStepInPlace DEF TypeOK
<1> QED BY <1>4, <1>5

LEMMA BeginUndoInd ==
  ASSUME IndInv, NEW p \in Procs, BeginUndo(p)
  PROVE  IndInv'
<1>1. loc[p].pc = "undoBegin" /\ loc[p].pc \in OutsidePCs
  BY DEF BeginUndo, At, OutsidePCs
<1>2. /\ TypeOK /\ loc[p] \in Locals
      /\ loc[p].job = None /\ loc[p].move = None
      /\ loc[p].token # None => loc[p].token \in Saved
      /\ loc[p].done \subseteq Saved /\ loc[p].undo \subseteq Saved
  BY <1>1, Outside
<1>3. UNCHANGED <<row, path, flock, index, staged, rollback, journal, outcome, backup, budget>>
      /\ Saved' = Saved
  BY DEF BeginUndo, move_vars, Saved
<1>4. CASE UndoFails(p)
  BY <1>1, <1>2, <1>3, <1>4, UndoFailsInd, IndStepInPlace DEF TypeOK
<1>5. CASE ~UndoFails(p)
  <2> DEFINE l == [loc[p] EXCEPT !.pending = {}, !.pc = "undoCommit"]
  <2>1. /\ loc' = [loc EXCEPT ![p] = l] /\ UNCHANGED <<given, report>>
        /\ writer' = [d \in Dbs |-> IF \E b \in loc[p].pending : backup[b].db = d
                                    THEN p ELSE writer[d]]
    BY <1>5 DEF BeginUndo
  <2>2. l \in Locals
    BY <1>2, WithPending, WithPc DEF PCs
  <2>3. /\ l.pc = "undoCommit" /\ l.job = None /\ l.move = None /\ l.token = loc[p].token
        /\ l.done = loc[p].done /\ l.undo = loc[p].undo /\ l.pending = {}
    BY <1>2 DEF Locals
  <2>4. l.pc \notin InDb /\ l.pc \notin Deleting
    BY <2>3 DEF InDb, Recovering, Attempting, Preparing, Replacing, Deleting
  <2> HIDE DEF l
  <2>5. loc' \in [Procs -> Locals] /\ Placed(p)' /\ \A q \in Procs \ {p} : Untouched(q)
    BY <1>2, <1>3, <2>1, <2>2, <2>3, <2>4, GoesOutside
  <2>6. writer' \in [Dbs -> Procs \cup {None}]
    BY <1>2, <2>1 DEF TypeOK
  <2> QED BY <1>2, <1>3, <2>1, <2>5, <2>6, IndStepInPlace DEF TypeOK
<1> QED BY <1>4, <1>5

LEMMA CommitUndoInd ==
  ASSUME IndInv, NEW p \in Procs, CommitUndo(p)
  PROVE  IndInv'
<1>1. loc[p].pc = "undoCommit" /\ loc[p].pc \in OutsidePCs /\ "undoFiles" \in OutsidePCs
      /\ "undoFiles" \notin Deleting
  BY DEF CommitUndo, At, OutsidePCs, Deleting
<1>2. TypeOK /\ loc[p] \in Locals /\ loc[p].undo \subseteq Saved
  BY <1>1, Outside
<1>3. UNCHANGED <<path, flock, index, staged, rollback, journal, outcome, backup>>
  BY DEF CommitUndo, move_vars
<1>4. CASE Goto(p, "undoFiles") /\ UNCHANGED <<row, writer, given, report, budget>>
  BY <1>1, <1>2, <1>3, <1>4, OutsideGoes, IndStepInPlace DEF TypeOK
<1>5. CASE Fault /\ UndoFails(p) /\ UNCHANGED row
  BY <1>1, <1>2, <1>3, <1>5, UndoFailsInd, IndStepInPlace DEF TypeOK
<1>6. ASSUME NEW b \in loc[p].undo, row' = RestoredRow(b),
             writer' = [writer EXCEPT ![backup[b].db] = None],
             UNCHANGED <<loc, given, report, budget>>
      PROVE  IndInv'
  BY <1>2, FilesFit, <1>6, <1>3, IndStepInPlace DEF RestoredRow, BackupRecords, TypeOK, IndInv, Placed,
    Saved, Untouched
<1> QED BY <1>4, <1>5, <1>6 DEF CommitUndo

LEMMA RestoreFileInd ==
  ASSUME IndInv, NEW p \in Procs, RestoreFile(p)
  PROVE  IndInv'
<1>1. loc[p].pc = "undoFiles" /\ loc[p].pc \in OutsidePCs /\ "undoIndex" \in OutsidePCs
      /\ "undoIndex" \notin Deleting
  BY DEF RestoreFile, At, OutsidePCs, Deleting
<1>2. TypeOK /\ loc[p] \in Locals /\ loc[p].undo \subseteq Saved
  BY <1>1, Outside
<1>3. UNCHANGED <<row, flock, index, staged, rollback, journal, outcome, backup>>
  BY DEF RestoreFile, move_vars
<1>4. CASE Goto(p, "undoIndex") /\ UNCHANGED <<path, writer, given, report, budget>>
  BY <1>1, <1>2, <1>3, <1>4, OutsideGoes, IndStepInPlace DEF TypeOK
<1>5. CASE Fault /\ UndoFails(p) /\ UNCHANGED path
  BY <1>1, <1>2, <1>3, <1>5, UndoFailsInd, IndStepInPlace DEF TypeOK
<1>6. ASSUME NEW b \in loc[p].undo, backup[b].file # None,
             path' = [backup[b].file EXCEPT !.ino = FreshInode],
             Goto(p, "undoIndex"), UNCHANGED <<writer, given, report, budget>>
      PROVE  IndInv'
  BY <1>2, <1>6, FilesFit, FreshIsFresh, <1>3, <1>1, OutsideGoes, IndStepOnDisk DEF Fitting, File,
    Short, TypeOK
<1> QED BY <1>4, <1>5, <1>6 DEF RestoreFile

LEMMA RestoreIndexInd ==
  ASSUME IndInv, NEW p \in Procs, RestoreIndex(p)
  PROVE  IndInv'
<1>1. loc[p].pc \in OutsidePCs
  BY DEF RestoreIndex, At, OutsidePCs
<1>2. TypeOK /\ TRUE \in BOOLEAN
  BY DEF IndInv
<1>3. UNCHANGED <<row, path, flock, staged, rollback, journal, outcome, backup>>
  BY DEF RestoreIndex, move_vars
<1>4. CASE /\ index' = (index \/ \E b \in loc[p].undo : backup[b].index)
           /\ AfterUndo(p, TRUE)
           /\ UNCHANGED <<writer, budget>>
  BY <1>4, <1>1, <1>2, <1>3, AfterUndoInd, IndStepInPlace DEF TypeOK
<1>5. CASE Fault /\ UndoFails(p) /\ UNCHANGED index
  BY <1>1, <1>2, <1>3, <1>5, UndoFailsInd, IndStepInPlace DEF TypeOK
<1> QED BY <1>4, <1>5 DEF RestoreIndex

----
(* ... and what Codex and the system do. *)

LEMMA CodexAppendsInd ==
  ASSUME IndInv, CodexAppends
  PROVE  IndInv'
<1> DEFINE longer(f) == IF f # None /\ f.ino = path.ino THEN [f EXCEPT !.len = @ + 1] ELSE f
           Shorter(f) == f # None => f.len + budget'.events <= MaxEvents
<1>1. /\ TypeOK /\ Fits /\ budget.events > 0 /\ path # None
      /\ path' = longer(path) /\ rollback' = [k \in Moves |-> longer(rollback[k])]
      /\ budget' = [budget EXCEPT !.events = @ - 1]
      /\ UNCHANGED <<row, writer, flock, index, staged, journal, outcome, backup, given, report, loc>>
  BY DEF IndInv, CodexAppends, db_vars, del_vars
<1>2. Saved' = Saved
  BY <1>1 DEF Saved
<1>3. /\ budget' \in [requests : 0 .. MaxRequests, events : 0 .. MaxEvents,
                 faults : 0 .. MaxFaults, deletes : 0 .. MaxDeletes, undos : 0 .. MaxUndos]
      /\ budget'.events = budget.events - 1 /\ budget.events \in Nat
  <2>1. budget \in [requests : 0 .. MaxRequests, events : 0 .. MaxEvents,
                 faults : 0 .. MaxFaults, deletes : 0 .. MaxDeletes, undos : 0 .. MaxUndos]
    BY <1>1 DEF TypeOK
  <2>2. budget.events - 1 \in 0 .. MaxEvents /\ budget.events \in Nat
    BY <2>1, <1>1, SessionAssumption
  <2> QED BY <2>1, <2>2, <1>1
<1>4. ASSUME NEW f \in File \cup {None}, Short(f)
      PROVE  longer(f) \in File \cup {None} /\ Shorter(longer(f)) /\ Shorter(f)
  <2>1. CASE f # None
    <3>1. f \in File /\ f.len + budget.events <= MaxEvents /\ f.len \in Nat
      BY <1>4, <2>1 DEF Short, File
    <3>2. f.len + 1 \in 0 .. MaxEvents
      <4>1. budget.events \in Nat /\ MaxEvents \in Nat /\ budget.events > 0
        BY <1>1, <1>3, SessionAssumption
      <4> QED BY <3>1, <4>1
    <3>3. [f EXCEPT !.len = @ + 1] \in File /\ [f EXCEPT !.len = @ + 1].len = f.len + 1
      BY <3>1, <3>2 DEF File
    <3>4. f.len + 1 + budget'.events <= MaxEvents /\ f.len + budget'.events <= MaxEvents
      <4>1. /\ budget.events \in Nat /\ MaxEvents \in Nat
            /\ budget'.events = budget.events - 1
        BY <1>3, SessionAssumption
      <4> QED BY <3>1, <4>1
    <3>5. longer(f) = f \/ longer(f) = [f EXCEPT !.len = @ + 1]
      OBVIOUS
    <3> HIDE DEF longer
    <3> QED BY <3>1, <3>3, <3>4, <3>5
  <2>2. CASE f = None
    BY <2>2
  <2> QED BY <2>1, <2>2
<1>5. TypeOK'
  <2>1. path' \in File \cup {None} /\ rollback' \in [Moves -> File \cup {None}]
    <3> HIDE DEF longer
    <3> QED BY <1>1, <1>4 DEF TypeOK, Fits
  <2> QED BY <1>1, <1>3, <2>1 DEF TypeOK
<1>6. Fits'
  <2>1. Shorter(path')
    <3> HIDE DEF longer, Shorter
    <3> QED BY <1>1, <1>4 DEF TypeOK, Fits
  <2>2. ASSUME NEW k \in Moves PROVE Shorter(rollback'[k]) /\ Shorter(staged'[k])
    <3>1. /\ rollback[k] \in File \cup {None} /\ Short(rollback[k])
          /\ staged[k] \in File \cup {None} /\ Short(staged[k])
      BY <1>1 DEF TypeOK, Fits
    <3>2. rollback'[k] = longer(rollback[k]) /\ staged'[k] = staged[k]
      BY <1>1
    <3> HIDE DEF longer, Shorter
    <3> QED BY <1>4, <3>1, <3>2
  <2>3. ASSUME NEW b \in Saved PROVE Shorter(backup'[b].file)
    <3>1. backup[b].file \in File \cup {None} /\ Short(backup[b].file) /\ backup' = backup
      BY <1>1 DEF TypeOK, Fits, Saved, BackupRecords
    <3> HIDE DEF longer, Shorter
    <3> QED BY <1>4, <3>1
  <2>4. given' \subseteq Saved'
    BY <1>1, <1>2 DEF Fits
  <2> QED BY <1>2, <2>1, <2>2, <2>3, <2>4 DEF Fits, Short
<1>7. ASSUME NEW p \in Procs PROVE Placed(p)'
  BY <1>1, <1>2 DEF IndInv, Placed
<1> QED BY <1>5, <1>6, <1>7 DEF IndInv

LEMMA CrashInd ==
  ASSUME IndInv, NEW p \in Procs, Crash(p)
  PROVE  IndInv'
<1>1. /\ TypeOK /\ Fits /\ budget.events > 0
      /\ loc' = [loc EXCEPT ![p] = Idle] /\ ReleaseDb(p) /\ Unlock(p)
      /\ budget' = [budget EXCEPT !.events = @ - 1]
      /\ UNCHANGED <<row, path, index, staged, rollback, journal, outcome, backup, given, report>>
  BY DEF IndInv, Crash, move_vars, del_vars
<1>2. Saved' = Saved
  BY <1>1 DEF Saved
<1>3. /\ budget' \in [requests : 0 .. MaxRequests, events : 0 .. MaxEvents,
                 faults : 0 .. MaxFaults, deletes : 0 .. MaxDeletes, undos : 0 .. MaxUndos]
      /\ budget'.events = budget.events - 1 /\ budget.events \in Nat
  <2>1. budget \in [requests : 0 .. MaxRequests, events : 0 .. MaxEvents,
                 faults : 0 .. MaxFaults, deletes : 0 .. MaxDeletes, undos : 0 .. MaxUndos]
    BY <1>1 DEF TypeOK
  <2>2. budget.events - 1 \in 0 .. MaxEvents /\ budget.events \in Nat
    BY <2>1, <1>1, SessionAssumption
  <2> QED BY <2>1, <2>2, <1>1
<1>4. /\ loc' \in [Procs -> Locals] /\ loc'[p] = Idle /\ \A q \in Procs \ {p} : Untouched(q)
  BY <1>1, IdleTyped, GoesOn
<1>5. Placed(p)'
  BY <1>4 DEF Placed, Idle, InDb, Recovering, Preparing, Replacing, Attempting, Deleting
<1>6. TypeOK'
  BY <1>1, <1>3, <1>4, Releases DEF TypeOK
<1>7. Fits'
  <2>1. ASSUME NEW f \in File \cup {None}, Short(f)
        PROVE  f # None => f.len + budget'.events <= MaxEvents
    <3>1. MaxEvents \in Nat
      BY SessionAssumption
    <3>2. f # None => f.len \in Nat /\ f.len + budget.events <= MaxEvents
      BY <2>1 DEF Short, File
    <3> QED BY <1>3, <3>1, <3>2
  <2>2. /\ path \in File \cup {None} /\ Short(path)
        /\ \A k \in Moves : /\ staged[k] \in File \cup {None} /\ Short(staged[k])
                            /\ rollback[k] \in File \cup {None} /\ Short(rollback[k])
        /\ \A b \in Saved : backup[b].file \in File \cup {None} /\ Short(backup[b].file)
    BY <1>1 DEF TypeOK, Fits, Saved, BackupRecords
  <2>3. path' # None => path'.len + budget'.events <= MaxEvents
    BY <1>1, <2>1, <2>2
  <2>4. \A k \in Moves : /\ staged'[k] # None => staged'[k].len + budget'.events <= MaxEvents
                         /\ rollback'[k] # None => rollback'[k].len + budget'.events <= MaxEvents
    BY <1>1, <2>1, <2>2
  <2>5. \A b \in Saved' : backup'[b].file # None
                            => backup'[b].file.len + budget'.events <= MaxEvents
    BY <1>1, <1>2, <2>1, <2>2
  <2> QED BY <1>1, <1>2, <2>3, <2>4, <2>5 DEF Fits, Short
<1> QED BY <1>2, <1>4, <1>5, <1>6, <1>7, IndStep

LEMMA IndNext == IndInv /\ [Next]_vars => IndInv'
<1> SUFFICES ASSUME IndInv, [Next]_vars PROVE IndInv'
  OBVIOUS
<1>1. CASE UNCHANGED vars
  BY <1>1 DEF IndInv, TypeOK, Fits, Short, Saved, Placed, vars
<1>2. CASE CodexAppends
  BY <1>2, CodexAppendsInd
<1>3. ASSUME NEW p \in Procs, StartList(p) \/ (\E cwd \in Cwds : StartMove(p, cwd))
                               \/ StartDelete(p) \/ StartUndo(p)
      PROVE  IndInv'
  BY <1>3, StartListInd, StartMoveInd, StartDeleteInd, StartUndoInd
<1>4. ASSUME NEW p \in Procs, Recover(p)
      PROVE  IndInv'
  BY <1>4, ScanInd, NextJournalInd, AllRecoveredInd, RecoveryTimeoutInd, RecoveryBeginInd,
     RecoveryActInd, RecoveryCommitInd, RecoveryCleanInd, RecoveryDoneInd DEF Recover
<1>5. ASSUME NEW p \in Procs, Move(p)
      PROVE  IndInv'
  BY <1>5, StageInd, LinkInd, BeginInd, WriteJournalInd, VerifyInd, ReplaceInd, CommitInd,
     RecheckInd, PutBackInd, UnjournalInd, FinishInd, ClearJournalInd DEF Move
<1>6. ASSUME NEW p \in Procs, Delete(p)
      PROVE  IndInv'
  BY <1>6, BackUpInd, VerifyBackupInd, DeleteRowsInd, DeleteFileInd, DeleteIndexInd DEF Delete
<1>7. ASSUME NEW p \in Procs, Undo(p)
      PROVE  IndInv'
  BY <1>7, CheckUndoInd, BeginUndoInd, CommitUndoInd, RestoreFileInd, RestoreIndexInd DEF Undo
<1>8. ASSUME NEW p \in Procs, Crash(p)
      PROVE  IndInv'
  BY <1>8, CrashInd
<1> QED BY <1>1, <1>2, <1>3, <1>4, <1>5, <1>6, <1>7, <1>8 DEF Next

(* Every variable has its type in every reachable state, the variables a   *)
(* process carries through its operation included: none is read where the  *)
(* code has not set it.                                                    *)
THEOREM TypesHold == Spec => []TypeOK
<1>1. IndInv => TypeOK
  BY DEF IndInv
<1> QED BY <1>1, IndInit, IndNext, PTL DEF Spec

----
(* The rollout is never lost.  It goes from the path in a delete, which    *)
(* has a backup of it, and by the rename of a staged copy: for that, the   *)
(* copy has to be there still, so nobody else may have a move in hand      *)
(* between its staging and its rename.                                     *)

LEMMA UntouchedFields ==
  ASSUME TypeOK, NEW q \in Procs, Untouched(q)
  PROVE  /\ loc'[q].pc = loc[q].pc /\ loc'[q].move = loc[q].move /\ loc'[q].mode = loc[q].mode
         /\ loc'[q].todo = loc[q].todo /\ loc'[q].job = loc[q].job /\ loc'[q].at = loc[q].at
         /\ loc'[q].sig = loc[q].sig /\ loc'[q].token = loc[q].token
         /\ Db(q)' = Db(q)
<1>1. loc[q] \in Locals
  BY DEF TypeOK
<1> QED BY <1>1 DEF Untouched, Locals, Db

(* The moves of the others stay theirs. *)
LEMMA OthersKeep ==
  ASSUME IndInv, KeepInv, NEW p \in Procs, Gentle(p), NEW q \in Procs \ {p}
  PROVE  Owned(q)' /\ BackedUp(q)'
<1> DEFINE k == loc[q].move
<1>1. /\ TypeOK /\ Placed(p) /\ Placed(q) /\ Owned(p) /\ Owned(q) /\ BackedUp(q) /\ Apart
      /\ None \notin Moves
  BY SessionAssumption DEF IndInv, KeepInv
<1>2. /\ loc'[q].pc = loc[q].pc /\ loc'[q].move = loc[q].move /\ loc'[q].mode = loc[q].mode
      /\ loc'[q].todo = loc[q].todo /\ loc'[q].job = loc[q].job /\ loc'[q].at = loc[q].at
      /\ loc'[q].sig = loc[q].sig /\ loc'[q].token = loc[q].token
      /\ Db(q)' = Db(q)
  BY <1>1, UntouchedFields DEF Gentle
<1>3. loc[q].pc \in Attempting => k \in Moves /\ k # loc[p].move /\ outcome[k] = "open"
  BY <1>1 DEF Placed, Apart, Owned
<1>4. loc[q].pc \in Attempting => outcome'[k] = "open"
  BY <1>3 DEF Gentle
<1>5. loc[q].pc \in Preparing => Fresh(k)'
  <2> SUFFICES ASSUME loc[q].pc \in Preparing PROVE Fresh(k)'
    OBVIOUS
  <2>1. k \in Moves /\ k # loc[p].move /\ Fresh(k)
    BY <1>1, <1>3 DEF Attempting, Owned
  <2>2. journal'[k] = None
    BY <2>1 DEF Gentle, Fresh
  <2>3. k \notin loc'[p].todo /\ loc'[p].job # k
    BY <2>1 DEF Gentle, Fresh
  <2>4. ASSUME NEW r \in Procs \ {p} PROVE k \notin loc'[r].todo /\ loc'[r].job # k
    BY <1>1, <2>1, UntouchedFields DEF Gentle, Fresh
  <2> QED BY <2>2, <2>3, <2>4, <1>2 DEF Fresh
<1>6. loc[q].pc \in Preparing \cup Replacing /\ loc[q].mode = "staged" => staged'[k] # None
  <2> SUFFICES ASSUME loc[q].pc \in Preparing \cup Replacing, loc[q].mode = "staged"
               PROVE  staged'[k] # None
    OBVIOUS
  <2>1. k \in Moves /\ k # loc[p].move /\ outcome[k] = "open" /\ staged[k] # None
    BY <1>1, <1>3 DEF Attempting, Owned
  <2>2. ~(k = loc[p].job /\ loc[p].pc \in {"recAct", "recClean"})
    BY <1>1, <2>1 DEF Owned, Fresh
  <2> QED BY <2>1, <2>2 DEF Gentle
<1>7. loc[q].pc \in Replacing =>
        /\ loc[q].mode = "staged"
        /\ journal'[k] # None /\ journal'[k].db = Db(q)
        /\ \A r \in Procs : loc'[r].job = k => loc'[r].pc = "recTx"
  <2> SUFFICES ASSUME loc[q].pc \in Replacing
               PROVE  /\ loc[q].mode = "staged"
                      /\ journal'[k] # None /\ journal'[k].db = Db(q)
                      /\ \A r \in Procs : loc'[r].job = k => loc'[r].pc = "recTx"
    OBVIOUS
  <2>1. /\ k \in Moves /\ k # loc[p].move /\ loc[q].mode = "staged"
        /\ journal[k] # None /\ journal[k].db = Db(q) /\ writer[Db(q)] = q
        /\ \A r \in Procs : loc[r].job = k => loc[r].pc = "recTx"
    BY <1>1, <1>3 DEF Attempting, Owned
  <2>2. journal'[k] = journal[k]
    BY <2>1 DEF Gentle
  <2>3. loc'[p].job = k => loc'[p].pc = "recTx"
    <3>1. CASE loc'[p].job = loc[p].job /\ loc[p].pc = "recTx" /\ writer[Db(p)] = None
               /\ loc'[p].job = k
      BY <1>1, <2>1, <3>1, SessionAssumption DEF Owned, Recovering
    <3> QED BY <1>1, <2>1, <3>1 DEF Gentle
  <2>4. ASSUME NEW r \in Procs \ {p}, loc'[r].job = k PROVE loc'[r].pc = "recTx"
    BY <1>1, <2>1, <2>4, UntouchedFields DEF Gentle
  <2> QED BY <2>1, <2>2, <2>3, <2>4
<1>8. loc[q].pc \in {"journal"} \cup Replacing => writer'[Db(q)] = q
  <2> SUFFICES ASSUME loc[q].pc \in {"journal"} \cup Replacing PROVE writer'[Db(q)] = q
    OBVIOUS
  <2>1. Db(q) \in Dbs /\ writer[Db(q)] = q
    BY <1>1, AtDb DEF Owned, InDb, Attempting, Preparing
  <2> QED BY <2>1 DEF Gentle
<1>9. loc[q].pc \in {"recover"} \cup Recovering =>
        \A j \in Moves : j \in loc[q].todo \cup {loc[q].job} /\ journal'[j] # None
          => journal'[j].db = Db(q)
  <2> SUFFICES ASSUME loc[q].pc \in {"recover"} \cup Recovering,
                      NEW j \in Moves, j \in loc[q].todo \cup {loc[q].job}, journal'[j] # None
               PROVE  journal'[j].db = Db(q)
    OBVIOUS
  <2>1. journal'[j] = journal[j]
    BY <1>1 DEF Owned, Fresh, Gentle
  <2> QED BY <1>1, <2>1 DEF Owned
<1>10. Owned(q)'
  BY <1>2, <1>4, <1>5, <1>6, <1>7, <1>8, <1>9 DEF Owned
<1>11. BackedUp(q)'
  BY <1>1, <1>2 DEF Placed, BackedUp, Gentle
<1> QED BY <1>10, <1>11

LEMMA KeepStep ==
  ASSUME IndInv, KeepInv, NEW p \in Procs, Gentle(p), Owned(p)', BackedUp(p)'
  PROVE  KeepInv'
<1>1. /\ TypeOK /\ Placed(p) /\ Owned(p) /\ Apart /\ UnusedIsFresh /\ Somewhere
      /\ None \notin Moves
  BY SessionAssumption DEF IndInv, KeepInv
<1>2. UnusedIsFresh'
  <2> SUFFICES ASSUME NEW k \in Moves, outcome'[k] = "unused" PROVE Fresh(k)'
    BY DEF UnusedIsFresh
  <2>1. outcome[k] = "unused" /\ Fresh(k)
    BY <1>1 DEF Gentle, UnusedIsFresh
  <2>2. k # loc[p].move
    BY <1>1, <2>1 DEF Placed, Owned
  <2>3. journal'[k] = None
    BY <2>1, <2>2 DEF Gentle, Fresh
  <2>4. k \notin loc'[p].todo /\ loc'[p].job # k
    BY <2>1 DEF Gentle, Fresh
  <2>5. ASSUME NEW r \in Procs \ {p} PROVE k \notin loc'[r].todo /\ loc'[r].job # k
    BY <1>1, <2>1, UntouchedFields DEF Gentle, Fresh
  <2> QED BY <2>3, <2>4, <2>5 DEF Fresh
<1>3. Apart'
  <2>1. ASSUME NEW q \in Procs \ {p}, loc'[p].pc \in Attempting, loc'[q].pc \in Attempting
        PROVE  loc'[p].move # loc'[q].move
    BY <1>1, <2>1, UntouchedFields DEF Gentle, KeepInv, Owned, Apart
  <2>2. ASSUME NEW q \in Procs \ {p}, NEW r \in Procs \ {p}, q # r,
               loc'[r].pc \in Attempting, loc'[q].pc \in Attempting
        PROVE  loc'[r].move # loc'[q].move
    BY <1>1, <2>2, UntouchedFields DEF Gentle, Apart
  <2> QED BY <2>1, <2>2 DEF Apart
<1>4. Somewhere'
  BY <1>1 DEF Gentle, Saved, Somewhere
<1> QED BY <1>2, <1>3, <1>4, OthersKeep DEF KeepInv

(* A process that stops what it was doing in a database holds nothing. *)
LEMMA Leaves ==
  ASSUME IndInv, KeepInv, NEW p \in Procs,
         \A q \in Procs \ {p} : Untouched(q),
         loc'[p].job = None, loc'[p].todo = {}, loc'[p].pc \in {"idle", "scan"},
         ReleaseDb(p) \/ UNCHANGED writer,
         \A k \in Moves \ {loc[p].move} : /\ outcome'[k] = outcome[k]
                                          /\ journal'[k] = journal[k] /\ staged'[k] = staged[k],
         \A k \in Moves : /\ outcome'[k] \in {outcome[k], "moved", "failed"}
                          /\ journal'[k] \in {journal[k], None},
         UNCHANGED <<path, backup>>
  PROVE  KeepInv'
<1>1. None \notin Moves /\ writer \in [Dbs -> Procs \cup {None}]
  BY SessionAssumption DEF IndInv, TypeOK
<1>2. Gentle(p)
  BY <1>1 DEF Gentle, ReleaseDb, Attempting, Preparing, Replacing
<1>3. Owned(p)' /\ BackedUp(p)'
  BY DEF Owned, BackedUp, Recovering, Preparing, Replacing, Attempting, Deleting
<1> QED BY <1>2, <1>3, KeepStep

LEMMA RecoveryFailsKeeps ==
  ASSUME IndInv, KeepInv, NEW p \in Procs, loc[p].pc \in InDb, RecoveryFails(p),
         UNCHANGED <<path, staged, journal, outcome, backup>>
  PROVE  KeepInv'
<1>1. ReleaseDb(p)
  BY DEF RecoveryFails
<1> QED BY <1>1, RecoveryFailsInd, Leaves

LEMMA MoveFailsKeeps ==
  ASSUME IndInv, KeepInv, NEW p \in Procs, loc[p].pc \in InDb, MoveFails(p),
         UNCHANGED staged \/ staged' = [staged EXCEPT ![loc[p].move] = None],
         UNCHANGED journal \/ journal' = [journal EXCEPT ![loc[p].move] = None],
         UNCHANGED <<path, backup>>
  PROVE  KeepInv'
<1>1. ReleaseDb(p) /\ TypeOK
  BY DEF MoveFails, IndInv
<1>2. /\ \A k \in Moves \ {loc[p].move} : /\ outcome'[k] = outcome[k]
                                          /\ journal'[k] = journal[k] /\ staged'[k] = staged[k]
      /\ \A k \in Moves : /\ outcome'[k] \in {outcome[k], "moved", "failed"}
                          /\ journal'[k] \in {journal[k], None}
  BY <1>1 DEF MoveFails, TypeOK
<1> QED BY <1>1, <1>2, MoveFailsInd, Leaves

LEMMA MovedKeeps ==
  ASSUME IndInv, KeepInv, NEW p \in Procs, Moved(p),
         UNCHANGED staged \/ staged' = [staged EXCEPT ![loc[p].move] = None],
         UNCHANGED journal \/ journal' = [journal EXCEPT ![loc[p].move] = None],
         UNCHANGED <<writer, path, backup>>
  PROVE  KeepInv'
<1>1. TypeOK /\ loc'[p].job = None /\ loc'[p].todo = {} /\ loc'[p].pc = "idle"
      /\ \A q \in Procs \ {p} : Untouched(q)
  BY MovedInd DEF IndInv, Idle
<1>2. /\ \A k \in Moves \ {loc[p].move} : /\ outcome'[k] = outcome[k]
                                          /\ journal'[k] = journal[k] /\ staged'[k] = staged[k]
      /\ \A k \in Moves : /\ outcome'[k] \in {outcome[k], "moved", "failed"}
                          /\ journal'[k] \in {journal[k], None}
  BY <1>1 DEF Moved, TypeOK
<1> QED BY <1>1, <1>2, Leaves

LEMMA ScanKeep ==
  ASSUME IndInv, KeepInv, NEW p \in Procs, Scan(p)
  PROVE  KeepInv'
<1>1. /\ TypeOK /\ Placed(p) /\ loc[p].pc = "scan" /\ loc[p] \in Locals
      /\ UNCHANGED <<writer, path, staged, journal, outcome, backup>> /\ None \notin Moves
  BY SessionAssumption
     DEF IndInv, TypeOK, Scan, At, db_vars, file_vars, move_vars, del_vars
<1>2. /\ loc'[p].pc = "recover" /\ loc'[p].todo = Pending(Db(p)) /\ loc'[p].job = None
      /\ Db(p)' = Db(p) /\ \A q \in Procs \ {p} : Untouched(q)
  BY <1>1 DEF Scan, TypeOK, Locals, Untouched, Placed, Recovering, Db
<1>3. Gentle(p)
  BY <1>1, <1>2 DEF Gentle, Pending, Attempting, Preparing, Replacing
<1>4. Owned(p)' /\ BackedUp(p)'
  BY <1>1, <1>2
     DEF Owned, BackedUp, Pending, Recovering, Preparing, Replacing, Attempting, Deleting
<1> QED BY <1>3, <1>4, KeepStep

LEMMA NextJournalKeep ==
  ASSUME IndInv, KeepInv, NEW p \in Procs, NextJournal(p)
  PROVE  KeepInv'
<1>1. /\ TypeOK /\ Placed(p) /\ Owned(p) /\ loc[p].pc = "recover" /\ loc[p] \in Locals
      /\ UNCHANGED <<writer, path, staged, journal, outcome, backup>> /\ None \notin Moves
  BY SessionAssumption
     DEF IndInv, KeepInv, TypeOK, NextJournal, At, db_vars, file_vars, move_vars, del_vars
<1>2. PICK k \in loc[p].todo :
        loc' = [loc EXCEPT ![p] =
            [@ EXCEPT !.todo = loc[p].todo \ {k}, !.copy = journal[k],
                      !.job = IF journal[k] = None THEN None ELSE k,
                      !.pc = IF journal[k] = None THEN "recover" ELSE "recTx"]]
  BY DEF NextJournal
<1>3. /\ loc'[p].todo = loc[p].todo \ {k}
      /\ loc'[p].job = IF journal[k] = None THEN None ELSE k
      /\ loc'[p].pc = IF journal[k] = None THEN "recover" ELSE "recTx"
      /\ Db(p)' = Db(p) /\ \A q \in Procs \ {p} : Untouched(q)
  <2> DEFINE l == [loc[p] EXCEPT !.todo = loc[p].todo \ {k}, !.copy = journal[k],
                      !.job = IF journal[k] = None THEN None ELSE k,
                      !.pc = IF journal[k] = None THEN "recover" ELSE "recTx"]
  <2>1. loc' = [loc EXCEPT ![p] = l]
    BY Zenon, <1>2
  <2>2. /\ l.todo = loc[p].todo \ {k} /\ l.at = loc[p].at
        /\ l.job = IF journal[k] = None THEN None ELSE k
        /\ l.pc = IF journal[k] = None THEN "recover" ELSE "recTx"
    BY <1>1 DEF Locals
  <2> HIDE DEF l
  <2>3. loc'[p] = l /\ \A q \in Procs \ {p} : Untouched(q)
    BY <1>1, <2>1 DEF TypeOK, Untouched
  <2> QED BY <2>2, <2>3 DEF Db
<1>4. Gentle(p)
  BY <1>1, <1>3 DEF Gentle, Attempting, Preparing, Replacing
<1>5. Owned(p)' /\ BackedUp(p)'
  BY <1>1, <1>3
     DEF Owned, BackedUp, Recovering, Preparing, Replacing, Attempting, Deleting
<1> QED BY <1>4, <1>5, KeepStep

LEMMA AllRecoveredKeep ==
  ASSUME IndInv, KeepInv, NEW p \in Procs, AllRecovered(p)
  PROVE  KeepInv'
<1>1. /\ TypeOK /\ Placed(p) /\ loc[p].pc = "recover" /\ loc[p].todo = {} /\ loc[p] \in Locals
      /\ loc[p].pc \in InDb
      /\ UNCHANGED <<writer, path, staged, journal, outcome, backup>> /\ None \notin Moves
  BY SessionAssumption
     DEF IndInv, TypeOK, AllRecovered, At, InDb, db_vars, file_vars, move_vars, del_vars
<1>2. CASE loc[p].op = "list"
  BY <1>2, <1>1, GoesToNext, Leaves DEF AllRecovered, Reports
<1>3. CASE loc[p].op # "list"
  <2>1. Goto(p, "stage") /\ "stage" \in PCs
    BY <1>3 DEF AllRecovered, PCs
  <2>2. /\ loc'[p] = [loc[p] EXCEPT !.pc = "stage"] /\ \A q \in Procs \ {p} : Untouched(q)
    BY <1>1, <2>1, Goes
  <2>3. loc'[p].pc = "stage" /\ loc'[p].job = None /\ loc'[p].todo = {}
    BY <1>1, <2>2 DEF Locals, Placed, Recovering
  <2>4. Gentle(p)
    BY <1>1, <2>2, <2>3 DEF Gentle, Attempting, Preparing, Replacing
  <2>5. Owned(p)' /\ BackedUp(p)'
    BY <2>3 DEF Owned, BackedUp, Recovering, Preparing, Replacing, Attempting, Deleting
  <2> QED BY <2>4, <2>5, KeepStep
<1> QED BY <1>2, <1>3

LEMMA RecoveryTimeoutKeep ==
  ASSUME IndInv, KeepInv, NEW p \in Procs, RecoveryTimeout(p)
  PROVE  KeepInv'
<1>1. loc[p].pc \in InDb /\ RecoveryFails(p)
      /\ UNCHANGED <<path, staged, journal, outcome, backup>>
  BY DEF RecoveryTimeout, At, InDb, Recovering, move_vars, del_vars
<1> QED BY <1>1, RecoveryFailsKeeps

(* A recovery that goes on keeps its journal, and the rest of its list. *)
LEMMA RecoveryGoesOn ==
  ASSUME IndInv, KeepInv, NEW p \in Procs, loc[p].pc \in Recovering,
         \A q \in Procs \ {p} : Untouched(q),
         loc'[p].todo = loc[p].todo, loc'[p].at = loc[p].at,
         \/ loc'[p].job = loc[p].job /\ loc'[p].pc \in Recovering
            /\ loc'[p].pc # "recTx" /\ UNCHANGED journal
         \/ loc'[p].job = None /\ loc'[p].pc = "recover" /\ loc[p].pc = "recDone"
            /\ journal' = [journal EXCEPT ![loc[p].job] = None],
         loc[p].pc # "recTx" \/ writer[Db(p)] = None,
         \A d \in Dbs, q \in Procs \ {p} : writer[d] = q => writer'[d] = q,
         UNCHANGED staged \/ ( /\ staged' = [staged EXCEPT ![loc[p].job] = None]
                               /\ loc[p].pc \in {"recAct", "recClean"} ),
         path' = path \/ path' # None, UNCHANGED <<outcome, backup>>
  PROVE  KeepInv'
<1>1. TypeOK /\ Placed(p) /\ Owned(p) /\ loc[p].job \in Moves /\ None \notin Moves
      /\ Db(p)' = Db(p)
  BY SessionAssumption DEF IndInv, KeepInv, Placed, Db
<1>2. Gentle(p)
  BY <1>1 DEF Gentle, TypeOK, Recovering, Attempting, Preparing, Replacing
<1>3. Owned(p)'
  BY <1>1 DEF Owned, TypeOK, Recovering, Preparing, Replacing, Attempting
<1>4. BackedUp(p)'
  BY DEF BackedUp, Recovering, Deleting
<1> QED BY <1>2, <1>3, <1>4, KeepStep

LEMMA RecoveryBeginKeep ==
  ASSUME IndInv, KeepInv, NEW p \in Procs, RecoveryBegin(p)
  PROVE  KeepInv'
<1>1. /\ TypeOK /\ Placed(p) /\ loc[p].pc = "recTx" /\ loc[p].pc \in InDb /\ loc[p].pc \in Recovering
      /\ loc[p] \in Locals
      /\ UNCHANGED <<path, staged, journal, outcome, backup>> /\ writer[Db(p)] = None
      /\ None \notin Procs
  BY SessionAssumption
     DEF IndInv, TypeOK, RecoveryBegin, At, InDb, Recovering, move_vars, del_vars
<1>2. CASE row[Db(p)] = None \/ ~Lockable(p)
  <2>1. RecoveryFails(p)
    BY <1>2 DEF RecoveryBegin
  <2> QED BY <1>1, <2>1, RecoveryFailsKeeps
<1>3. CASE ~(row[Db(p)] = None \/ ~Lockable(p))
  <2> DEFINE c == IF path = None THEN None ELSE path.cwd
  <2>1. /\ writer' = [writer EXCEPT ![Db(p)] = p]
        /\ loc' = [loc EXCEPT ![p].pc = "recAct", ![p].prev = c]
    BY <1>3 DEF RecoveryBegin
  <2> HIDE DEF c
  <2>2. /\ loc'[p].todo = loc[p].todo /\ loc'[p].at = loc[p].at
        /\ loc'[p].job = loc[p].job /\ loc'[p].pc = "recAct"
        /\ \A q \in Procs \ {p} : Untouched(q)
    BY <1>1, <2>1 DEF TypeOK, Locals, Untouched
  <2>3. \A d \in Dbs, q \in Procs \ {p} : writer[d] = q => writer'[d] = q
    BY <1>1, <2>1 DEF TypeOK
  <2> QED BY <1>1, <2>2, <2>3, RecoveryGoesOn DEF Recovering
<1> QED BY <1>2, <1>3

LEMMA RecoveryActKeep ==
  ASSUME IndInv, KeepInv, NEW p \in Procs, RecoveryAct(p)
  PROVE  KeepInv'
<1> DEFINE k == loc[p].job
           plan == RecoveryPlan(loc[p].copy, row[Db(p)], loc[p].prev,
                                CwdOf(staged[k]), CwdOf(rollback[k]))
<1>1. /\ TypeOK /\ Placed(p) /\ loc[p].pc = "recAct" /\ loc[p].pc \in InDb
      /\ loc[p].pc \in Recovering /\ loc[p] \in Locals
      /\ UNCHANGED <<journal, outcome, backup>>
  BY DEF IndInv, TypeOK, RecoveryAct, At, InDb, Recovering, del_vars
<1>2. CASE RecoveryFails(p) /\ UNCHANGED <<path, staged, rollback>>
  BY <1>1, <1>2, RecoveryFailsKeeps
<1>3. ASSUME NEW r \in plan,
             /\ path' = CASE r.file = "staged" -> staged[k]
                          [] r.file = "rollback" -> rollback[k]
                          [] OTHER -> path
             /\ staged' = IF r.file = "staged" THEN [staged EXCEPT ![k] = None] ELSE staged
             /\ loc' = [loc EXCEPT ![p].pc = "recCommit", ![p].prev = r.row]
             /\ UNCHANGED writer
      PROVE  KeepInv'
  <2>1. loc[p].copy \in Journals /\ k \in Moves
    BY <1>1 DEF Placed
  <2>2. loc[p].copy.prev # None /\ loc[p].copy.target # None
    BY <2>1, SessionAssumption DEF Journals
  <2>3. /\ r.file = "staged" => CwdOf(staged[k]) # None
        /\ r.file = "rollback" => CwdOf(rollback[k]) # None
    <3> DEFINE s == CwdOf(staged[k])
               b == CwdOf(rollback[k])
    <3>1. plan = RecoveryPlan(loc[p].copy, row[Db(p)], loc[p].prev, s, b)
      OBVIOUS
    <3> HIDE DEF s, b, plan
    <3>2. /\ r.file = "staged" => s = loc[p].copy.target
          /\ r.file = "rollback" => b = loc[p].copy.prev
      BY <1>3, <3>1, SMTT(30) DEF RecoveryPlan
    <3> QED BY <2>2, <3>2 DEF s, b
  <2>4. path' = path \/ path' # None
    <3> HIDE DEF plan
    <3> QED BY <1>3, <2>3 DEF CwdOf
  <2>5. /\ loc'[p].todo = loc[p].todo /\ loc'[p].at = loc[p].at
        /\ loc'[p].job = loc[p].job /\ loc'[p].pc = "recCommit"
        /\ \A q \in Procs \ {p} : Untouched(q)
    <3> HIDE DEF plan
    <3> QED BY <1>1, <1>3 DEF TypeOK, Locals, Untouched
  <2> HIDE DEF plan
  <2> QED BY <1>1, <1>3, <2>4, <2>5, RecoveryGoesOn DEF Recovering
<1> QED
  <2> HIDE DEF k
  <2> QED BY <1>2, <1>3 DEF RecoveryAct, k

LEMMA RecoveryCommitKeep ==
  ASSUME IndInv, KeepInv, NEW p \in Procs, RecoveryCommit(p)
  PROVE  KeepInv'
<1>1. /\ TypeOK /\ Placed(p) /\ loc[p].pc = "recCommit" /\ loc[p].pc \in InDb
      /\ loc[p].pc \in Recovering /\ loc[p] \in Locals /\ None \notin Procs
      /\ UNCHANGED <<path, staged, journal, outcome, backup>>
  BY SessionAssumption
     DEF IndInv, TypeOK, RecoveryCommit, At, InDb, Recovering, move_vars, del_vars
<1>2. CASE RecoveryFails(p)
  BY <1>1, <1>2, RecoveryFailsKeeps
<1>3. CASE ~RecoveryFails(p)
  <2> DEFINE b == IF loc[p].before = None THEN None
                  ELSE [loc[p].before EXCEPT !.row = row', !.file = path]
  <2>1. ReleaseDb(p) /\ loc' = [loc EXCEPT ![p].pc = "recClean", ![p].before = b]
    BY <1>3 DEF RecoveryCommit
  <2> HIDE DEF b
  <2>2. /\ loc'[p].todo = loc[p].todo /\ loc'[p].at = loc[p].at
        /\ loc'[p].job = loc[p].job /\ loc'[p].pc = "recClean"
        /\ \A q \in Procs \ {p} : Untouched(q)
    BY <1>1, <2>1 DEF TypeOK, Locals, Untouched
  <2>3. \A d \in Dbs, q \in Procs \ {p} : writer[d] = q => writer'[d] = q
    BY <1>1, <2>1 DEF ReleaseDb
  <2> QED BY <1>1, <2>2, <2>3, RecoveryGoesOn DEF Recovering
<1> QED BY <1>2, <1>3

LEMMA RecoveryCleanKeep ==
  ASSUME IndInv, KeepInv, NEW p \in Procs, RecoveryClean(p)
  PROVE  KeepInv'
<1>1. /\ TypeOK /\ Placed(p) /\ loc[p].pc = "recClean" /\ loc[p].pc \in InDb
      /\ loc[p].pc \in Recovering /\ loc[p] \in Locals
      /\ UNCHANGED <<path, journal, outcome, backup>>
  BY DEF IndInv, TypeOK, RecoveryClean, At, InDb, Recovering, del_vars
<1>2. CASE RecoveryFails(p) /\ UNCHANGED <<staged, rollback>>
  BY <1>1, <1>2, RecoveryFailsKeeps
<1>3. CASE /\ staged' = [staged EXCEPT ![loc[p].job] = None]
           /\ Goto(p, "recDone") /\ UNCHANGED writer
  <2>1. "recDone" \in PCs
    BY DEF PCs
  <2>2. /\ loc'[p] = [loc[p] EXCEPT !.pc = "recDone"] /\ \A q \in Procs \ {p} : Untouched(q)
    BY <1>1, <1>3, <2>1, Goes
  <2>3. /\ loc'[p].todo = loc[p].todo /\ loc'[p].at = loc[p].at
        /\ loc'[p].job = loc[p].job /\ loc'[p].pc = "recDone"
    BY <1>1, <2>2 DEF Locals
  <2> QED BY <1>1, <1>3, <2>2, <2>3, RecoveryGoesOn DEF Recovering
<1> QED BY <1>2, <1>3 DEF RecoveryClean

LEMMA RecoveryDoneKeep ==
  ASSUME IndInv, KeepInv, NEW p \in Procs, RecoveryDone(p)
  PROVE  KeepInv'
<1>1. /\ TypeOK /\ Placed(p) /\ loc[p].pc = "recDone" /\ loc[p].pc \in InDb
      /\ loc[p].pc \in Recovering /\ loc[p] \in Locals
      /\ UNCHANGED <<path, staged, outcome, backup>>
  BY DEF IndInv, TypeOK, RecoveryDone, At, InDb, Recovering, del_vars
<1>2. CASE RecoveryFails(p) /\ UNCHANGED journal
  BY <1>1, <1>2, RecoveryFailsKeeps
<1>3. CASE ~(RecoveryFails(p) /\ UNCHANGED journal)
  <2> DEFINE l == [loc[p] EXCEPT !.job = None, !.copy = None, !.prev = None, !.pc = "recover"]
  <2>1. /\ journal' = [journal EXCEPT ![loc[p].job] = None] /\ UNCHANGED writer
        /\ loc' = [loc EXCEPT ![p] = l]
    BY <1>3 DEF RecoveryDone
  <2>2. l.todo = loc[p].todo /\ l.at = loc[p].at /\ l.job = None /\ l.pc = "recover"
    BY <1>1 DEF Locals
  <2> HIDE DEF l
  <2>3. loc'[p] = l /\ \A q \in Procs \ {p} : Untouched(q)
    BY <1>1, <2>1 DEF TypeOK, Untouched
  <2> QED BY <1>1, <2>1, <2>2, <2>3, RecoveryGoesOn
<1> QED BY <1>2, <1>3

(* A move that goes on keeps what it owns. *)
LEMMA MoveGoesOn ==
  ASSUME IndInv, KeepInv, NEW p \in Procs, loc[p].pc \in Attempting,
         NEW place \in Attempting, Goto(p, place),
         UNCHANGED journal \/ (loc[p].pc \in Preparing
                               /\ \E j : journal' = [journal EXCEPT ![loc[p].move] = j]),
         UNCHANGED staged \/ staged' = [staged EXCEPT ![loc[p].move] = None],
         \A d \in Dbs, q \in Procs \ {p} : writer[d] = q => writer'[d] = q,
         path' = path \/ path' # None, UNCHANGED <<outcome, backup>>
  PROVE  /\ loc'[p].pc = place /\ loc'[p].move = loc[p].move /\ loc'[p].mode = loc[p].mode
         /\ loc'[p].job = None /\ Db(p)' = Db(p) /\ Db(p) \in Dbs /\ loc[p].move \in Moves
         /\ \A q \in Procs : loc'[q].job = loc[q].job /\ loc'[q].todo = loc[q].todo
         /\ \A q \in Procs : q # p => loc'[q].pc = loc[q].pc
         /\ place \notin Preparing \cup Replacing => KeepInv'
         /\ Owned(p)' => KeepInv'
<1>1. /\ TypeOK /\ Placed(p) /\ Owned(p) /\ loc[p] \in Locals /\ place \in PCs
      /\ None \notin Moves /\ loc[p].pc \in InDb /\ loc[p].job = None /\ loc[p].move \in Moves
  BY SessionAssumption
     DEF IndInv, KeepInv, TypeOK, Placed, InDb, Attempting, Preparing, Replacing, Recovering, PCs
<1>2. /\ loc'[p] = [loc[p] EXCEPT !.pc = place] /\ \A q \in Procs \ {p} : Untouched(q)
  BY <1>1, Goes
<1>3. /\ loc'[p].pc = place /\ loc'[p].move = loc[p].move /\ loc'[p].mode = loc[p].mode
      /\ loc'[p].job = None /\ loc'[p].todo = loc[p].todo /\ Db(p)' = Db(p)
  BY <1>1, <1>2 DEF Locals, Db
<1>4. Db(p) \in Dbs
  BY <1>1, AtDb
<1>5. ASSUME NEW q \in Procs
      PROVE  loc'[q].job = loc[q].job /\ loc'[q].todo = loc[q].todo /\ (q # p => loc'[q].pc = loc[q].pc)
  BY <1>1, <1>2, <1>3, UntouchedFields
<1>6. Gentle(p)
  BY <1>1, <1>2, <1>3 DEF Gentle, TypeOK
<1>7. BackedUp(p)'
  BY <1>3 DEF BackedUp, Deleting, Attempting, Preparing, Replacing
<1>8. place \notin Preparing \cup Replacing => Owned(p)'
  BY <1>1, <1>3 DEF Owned, Recovering, Attempting, Preparing, Replacing
<1> QED BY <1>1, <1>3, <1>4, <1>5, <1>6, <1>7, <1>8, KeepStep

LEMMA DroppedSides ==
  ASSUME NEW k, Dropped(k)
  PROVE  UNCHANGED staged \/ staged' = [staged EXCEPT ![k] = None]
BY DEF Dropped

LEMMA LinkKeep ==
  ASSUME IndInv, KeepInv, NEW p \in Procs, Link(p)
  PROVE  KeepInv'
<1>1. /\ loc[p].pc = "link" /\ loc[p].pc \in Attempting /\ loc[p].pc \in InDb /\ Owned(p)
      /\ UNCHANGED <<path, journal, backup>>
  BY DEF KeepInv, Link, At, InDb, Attempting, Preparing, del_vars
<1>2. CASE ~Unchanged(p)
  BY <1>2, <1>1, DroppedSides, MoveFailsKeeps DEF Link
<1>3. CASE Unchanged(p)
  <2>1. Goto(p, "begin") /\ UNCHANGED <<staged, outcome, writer>> /\ "begin" \in Attempting
    BY <1>3 DEF Link, Attempting, Preparing
  <2>2. /\ loc'[p].pc = "begin" /\ loc'[p].move = loc[p].move /\ loc'[p].mode = loc[p].mode
        /\ loc'[p].job = None
        /\ \A q \in Procs : loc'[q].job = loc[q].job /\ loc'[q].todo = loc[q].todo
        /\ Owned(p)' => KeepInv'
    BY <1>1, <2>1, MoveGoesOn
  <2>3. Owned(p)'
    BY <1>1, <2>1, <2>2 DEF Owned, Fresh, Recovering, Attempting, Preparing, Replacing
  <2> QED BY <2>2, <2>3
<1> QED BY <1>2, <1>3

LEMMA BeginKeep ==
  ASSUME IndInv, KeepInv, NEW p \in Procs, Begin(p)
  PROVE  KeepInv'
<1>1. /\ loc[p].pc = "begin" /\ loc[p].pc \in Attempting /\ loc[p].pc \in InDb /\ Owned(p)
      /\ UNCHANGED <<path, journal, backup>> /\ None \notin Procs
      /\ writer \in [Dbs -> Procs \cup {None}]
  BY SessionAssumption
     DEF KeepInv, IndInv, TypeOK, Begin, At, InDb, Attempting, Preparing, del_vars
<1>2. CASE MoveFails(p) /\ Dropped(loc[p].move)
  BY <1>1, <1>2, DroppedSides, MoveFailsKeeps
<1>3. CASE ~(MoveFails(p) /\ Dropped(loc[p].move))
  <2> DEFINE place == IF loc[p].mode = "staged"
                        \/ (loc[p].mode = "current" /\ loc[p].prev # loc[p].target)
                      THEN "journal" ELSE "commit"
  <2>1. /\ writer' = [writer EXCEPT ![Db(p)] = p] /\ Goto(p, place) /\ writer[Db(p)] = None
        /\ UNCHANGED <<staged, outcome>>
    BY <1>3 DEF Begin
  <2>2. place \in Attempting /\ place \in {"journal", "commit"}
    BY DEF Attempting, Preparing
  <2>3. \A d \in Dbs, q \in Procs \ {p} : writer[d] = q => writer'[d] = q
    BY <1>1, <2>1
  <2> HIDE DEF place
  <2>4. /\ loc'[p].pc = place /\ loc'[p].move = loc[p].move /\ loc'[p].mode = loc[p].mode
        /\ loc'[p].job = None /\ Db(p)' = Db(p) /\ Db(p) \in Dbs
        /\ \A q \in Procs : loc'[q].job = loc[q].job /\ loc'[q].todo = loc[q].todo
        /\ Owned(p)' => KeepInv'
    BY <1>1, <2>1, <2>2, <2>3, MoveGoesOn
  <2>5. Owned(p)'
    BY <1>1, <2>1, <2>2, <2>4 DEF Owned, Fresh, Recovering, Attempting, Preparing, Replacing
  <2> QED BY <2>4, <2>5
<1> QED BY <1>2, <1>3

LEMMA WriteJournalKeep ==
  ASSUME IndInv, KeepInv, NEW p \in Procs, WriteJournal(p)
  PROVE  KeepInv'
<1>1. /\ loc[p].pc = "journal" /\ loc[p].pc \in Attempting /\ loc[p].pc \in Preparing
      /\ loc[p].pc \in InDb /\ Owned(p) /\ TypeOK
      /\ UNCHANGED <<path, backup>>
  BY DEF KeepInv, IndInv, WriteJournal, At, InDb, Attempting, Preparing, del_vars
<1>2. CASE MoveFails(p) /\ Dropped(loc[p].move) /\ UNCHANGED journal
  BY <1>1, <1>2, DroppedSides, MoveFailsKeeps
<1>3. CASE ~(MoveFails(p) /\ Dropped(loc[p].move) /\ UNCHANGED journal)
  <2> DEFINE place == IF loc[p].mode = "staged" THEN "verify" ELSE "commit"
  <2>1. /\ journal' = [journal EXCEPT ![loc[p].move] = JournalOf(p)] /\ Goto(p, place)
        /\ UNCHANGED <<staged, outcome, writer>>
    BY <1>3 DEF WriteJournal
  <2>2. place \in Attempting /\ place \in {"verify", "commit"}
        /\ (place = "verify" => loc[p].mode = "staged")
    BY DEF Attempting, Replacing
  <2> HIDE DEF place
  <2>3. /\ loc'[p].pc = place /\ loc'[p].move = loc[p].move /\ loc'[p].mode = loc[p].mode
        /\ loc'[p].job = None /\ Db(p)' = Db(p) /\ loc[p].move \in Moves
        /\ \A q \in Procs : loc'[q].job = loc[q].job /\ loc'[q].todo = loc[q].todo
        /\ Owned(p)' => KeepInv'
    BY <1>1, <2>1, <2>2, MoveGoesOn
  <2>4. JournalOf(p) # None /\ JournalOf(p).db = Db(p)
    <3>1. JournalOf(p) \in Journals
      BY <1>1, AtDb DEF IndInv, Placed, JournalOf, Journals
    <3> QED BY <3>1, SessionAssumption DEF JournalOf
  <2>5. journal'[loc[p].move] # None /\ journal'[loc[p].move].db = Db(p)
    BY <1>1, <2>1, <2>3, <2>4 DEF TypeOK
  <2>6. Owned(p)'
    BY <1>1, <2>1, <2>2, <2>3, <2>5
       DEF Owned, Fresh, Recovering, Attempting, Preparing, Replacing
  <2> QED BY <2>3, <2>6
<1> QED BY <1>2, <1>3

LEMMA VerifyKeep ==
  ASSUME IndInv, KeepInv, NEW p \in Procs, Verify(p)
  PROVE  KeepInv'
<1>1. /\ loc[p].pc = "verify" /\ loc[p].pc \in Attempting /\ loc[p].pc \in InDb /\ Owned(p)
      /\ UNCHANGED <<path, staged, journal, backup>> /\ "replace" \in Attempting
  BY DEF KeepInv, Verify, At, InDb, Attempting, Replacing, del_vars
<1>2. CASE MoveFails(p)
  BY <1>1, <1>2, MoveFailsKeeps
<1>3. CASE Goto(p, "replace") /\ UNCHANGED <<outcome, writer>>
  BY <1>1, <1>3, MoveGoesOn, SessionAssumption DEF Owned, Recovering, Attempting, Preparing, Replacing
<1> QED BY <1>2, <1>3 DEF Verify

LEMMA ReplaceKeep ==
  ASSUME IndInv, KeepInv, NEW p \in Procs, Replace(p)
  PROVE  KeepInv'
<1>1. /\ loc[p].pc = "replace" /\ loc[p].pc \in Attempting /\ loc[p].pc \in InDb /\ Owned(p)
      /\ UNCHANGED <<journal, backup>> /\ "commit" \in Attempting
      /\ "commit" \notin Preparing \cup Replacing
  BY DEF KeepInv, Replace, At, InDb, Attempting, Preparing, Replacing, del_vars
<1>2. CASE MoveFails(p) /\ UNCHANGED <<path, staged>>
  BY <1>1, <1>2, MoveFailsKeeps
<1>3. CASE /\ path' = staged[loc[p].move] /\ staged' = [staged EXCEPT ![loc[p].move] = None]
           /\ Goto(p, "commit") /\ UNCHANGED <<outcome, writer>>
  BY <1>1, <1>3, MoveGoesOn DEF Owned, Replacing
<1> QED BY <1>2, <1>3 DEF Replace

LEMMA CommitKeep ==
  ASSUME IndInv, KeepInv, NEW p \in Procs, Commit(p)
  PROVE  KeepInv'
<1>1. /\ loc[p].pc \in Attempting /\ loc[p].pc \in InDb
      /\ UNCHANGED <<path, journal, backup>> /\ None \notin Procs
      /\ "finish" \in Attempting \ (Preparing \cup Replacing)
      /\ "recheck" \in Attempting \ (Preparing \cup Replacing)
  BY SessionAssumption
     DEF Commit, At, InDb, Attempting, Preparing, Replacing, del_vars
<1>2. CASE MoveFails(p) /\ Dropped(loc[p].move)
  BY <1>1, <1>2, DroppedSides, MoveFailsKeeps
<1>3. ASSUME NEW place \in {"finish", "recheck"},
             ReleaseDb(p), Goto(p, place), UNCHANGED <<staged, outcome>>
      PROVE  KeepInv'
  BY <1>1, <1>3, MoveGoesOn DEF ReleaseDb
<1> QED BY <1>2, <1>3 DEF Commit

LEMMA RecheckKeep ==
  ASSUME IndInv, KeepInv, NEW p \in Procs, Recheck(p)
  PROVE  KeepInv'
<1>1. /\ loc[p].pc \in Attempting /\ loc[p].pc \in InDb
      /\ UNCHANGED <<path, staged, journal, backup>>
      /\ "restore" \in Attempting \ (Preparing \cup Replacing)
  BY DEF Recheck, At, InDb, Attempting, Preparing, Replacing, del_vars
<1>2. CASE MoveFails(p)
  BY <1>1, <1>2, MoveFailsKeeps
<1>3. CASE Goto(p, "restore") /\ UNCHANGED <<outcome, writer>>
  BY <1>1, <1>3, MoveGoesOn
<1> QED BY <1>2, <1>3 DEF Recheck

LEMMA PutBackKeep ==
  ASSUME IndInv, KeepInv, NEW p \in Procs, PutBack(p)
  PROVE  KeepInv'
<1>1. /\ loc[p].pc \in Attempting /\ loc[p].pc \in InDb
      /\ UNCHANGED <<staged, journal, backup>>
      /\ "unjournal" \in Attempting \ (Preparing \cup Replacing)
  BY DEF PutBack, At, InDb, Attempting, Preparing, Replacing, del_vars
<1>2. CASE MoveFails(p) /\ UNCHANGED path
  BY <1>1, <1>2, MoveFailsKeeps
<1>3. CASE /\ rollback[loc[p].move] # None /\ path' = rollback[loc[p].move]
           /\ Goto(p, "unjournal") /\ UNCHANGED <<outcome, writer>>
  BY <1>1, <1>3, MoveGoesOn
<1> QED BY <1>2, <1>3 DEF PutBack

LEMMA UnjournalKeep ==
  ASSUME IndInv, KeepInv, NEW p \in Procs, Unjournal(p)
  PROVE  KeepInv'
<1>1. /\ loc[p].pc \in InDb /\ UNCHANGED <<path, backup>> /\ MoveFails(p)
      /\ UNCHANGED staged \/ staged' = [staged EXCEPT ![loc[p].move] = None]
      /\ UNCHANGED journal \/ journal' = [journal EXCEPT ![loc[p].move] = None]
  BY DEF Unjournal, At, InDb, Attempting, del_vars
<1> QED BY <1>1, MoveFailsKeeps

LEMMA FinishKeep ==
  ASSUME IndInv, KeepInv, NEW p \in Procs, Finish(p)
  PROVE  KeepInv'
<1>1. /\ loc[p].pc \in Attempting /\ UNCHANGED <<path, writer, journal, backup>>
      /\ UNCHANGED staged \/ staged' = [staged EXCEPT ![loc[p].move] = None]
      /\ "clear" \in Attempting \ (Preparing \cup Replacing)
  BY DEF Finish, At, Attempting, Preparing, Replacing, del_vars
<1>2. CASE Moved(p)
  BY <1>1, <1>2, MovedKeeps
<1>3. CASE Goto(p, "clear") /\ UNCHANGED outcome
  BY <1>1, <1>3, MoveGoesOn
<1> QED BY <1>2, <1>3 DEF Finish

LEMMA ClearJournalKeep ==
  ASSUME IndInv, KeepInv, NEW p \in Procs, ClearJournal(p)
  PROVE  KeepInv'
<1>1. /\ Moved(p) /\ UNCHANGED <<staged, path, writer, backup>>
      /\ UNCHANGED journal \/ journal' = [journal EXCEPT ![loc[p].move] = None]
  BY DEF ClearJournal, db_vars, file_vars, del_vars
<1> QED BY <1>1, MovedKeeps

(* A new attempt is nobody's yet. *)
LEMMA StageKeep ==
  ASSUME IndInv, KeepInv, NEW p \in Procs, Stage(p)
  PROVE  KeepInv'
<1>1. /\ TypeOK /\ loc[p] \in Locals /\ Placed(p) /\ loc[p].pc = "stage" /\ loc[p].pc \in InDb
      /\ loc[p].job = None /\ None \notin Moves
      /\ UNCHANGED <<path, journal, backup>>
  BY SessionAssumption
     DEF IndInv, TypeOK, Placed, Stage, At, InDb, Recovering, del_vars
<1>2. CASE row[Db(p)] = None \/ ~Lockable(p)
  BY <1>2, <1>1, MoveFailsKeeps DEF Stage
<1>3. CASE ~(row[Db(p)] = None \/ ~Lockable(p))
  <2> DEFINE m == ModeOf(loc[p].target)
             s == IF path = None THEN None ELSE SignatureOf(path)
             place == IF path = None THEN "begin" ELSE "link"
             l(k) == [loc[p] EXCEPT !.move = k, !.prev = row[Db(p)], !.sig = s, !.mode = m,
                                    !.pc = place]
  <2>1. PICK k \in NextMove :
            /\ outcome' = [outcome EXCEPT ![k] = "open"]
            /\ staged' = IF path = None THEN staged
                         ELSE [staged EXCEPT ![k] = Rewritten(loc[p].target)]
            /\ loc' = [loc EXCEPT ![p] = l(k)]
            /\ UNCHANGED writer
    BY <1>3 DEF Stage
  <2>2. k \in Moves /\ outcome[k] = "unused" /\ Fresh(k)
    BY <2>1 DEF NextMove, KeepInv, UnusedIsFresh
  <2>3. /\ l(k).pc = place /\ l(k).move = k /\ l(k).mode = m /\ l(k).job = None
        /\ l(k).todo = loc[p].todo /\ l(k).at = loc[p].at
    <3> HIDE DEF m, s, place
    <3> QED BY <1>1 DEF Locals
  <2> HIDE DEF l
  <2>4. loc'[p] = l(k) /\ \A q \in Procs \ {p} : Untouched(q)
    BY <1>1, <2>1 DEF TypeOK, Untouched
  <2>5. place \in Preparing \ {"journal"} /\ place \in Attempting
    BY DEF Attempting, Preparing
  <2>6. m = "staged" => staged'[k] # None
    <3>1. path # None => Rewritten(loc[p].target) # None
      <4>1. loc[p].target \in Cwds /\ FreshInode \in Inodes
        BY <1>1, FreshIsFresh DEF Placed, InDb
      <4>2. path # None => Rewritten(loc[p].target) \in File
        BY <1>1, <4>1 DEF Rewritten, File, TypeOK
      <4> QED BY <4>2, SessionAssumption
    <3>2. m = "staged" => path # None
      BY DEF ModeOf
    <3> HIDE DEF m
    <3> QED BY <1>1, <2>1, <2>2, <3>1, <3>2 DEF TypeOK
  <2> HIDE DEF m, place
  <2>7. Gentle(p)
    BY <1>1, <2>1, <2>2, <2>3, <2>4 DEF Gentle, TypeOK
  <2>8. Fresh(k)'
    <3>1. ASSUME NEW q \in Procs PROVE k \notin loc'[q].todo /\ loc'[q].job # k
      BY <1>1, <2>2, <2>3, <2>4, UntouchedFields DEF Fresh
    <3> QED BY <1>1, <2>2, <3>1 DEF Fresh
  <2>9. Owned(p)'
    BY <1>1, <2>1, <2>2, <2>5, <2>3, <2>4, <2>6, <2>8 DEF TypeOK, Preparing, Replacing, Recovering,
      Owned
  <2>10. BackedUp(p)'
    BY <2>3, <2>4, <2>5 DEF BackedUp, Deleting, Preparing
  <2> QED BY <2>7, <2>9, <2>10, KeepStep
<1> QED BY <1>2, <1>3

(* A process outside of the moves leaves them alone. *)
LEMMA OutsideKeeps ==
  ASSUME IndInv, KeepInv, NEW p \in Procs, \A q \in Procs \ {p} : Untouched(q),
         loc'[p].pc \in OutsidePCs \cup {"idle", "scan"},
         loc'[p].job = None, loc'[p].todo \subseteq loc[p].todo,
         \A d \in Dbs, q \in Procs \ {p} : writer[d] = q => writer'[d] = q,
         UNCHANGED <<outcome, journal, staged>>,
         \A b \in Saved : backup'[b] = backup[b],
         path' = path \/ path' # None \/ \E b \in Saved : backup[b].file # None,
         BackedUp(p)'
  PROVE  KeepInv'
<1>1. None \notin Moves /\ loc'[p].pc \notin Attempting \cup Recovering \cup {"recover"}
  BY SessionAssumption
     DEF OutsidePCs, Deleting, Recovering, Attempting, Preparing, Replacing
<1>2. Gentle(p)
  BY <1>1 DEF Gentle
<1>3. Owned(p)'
  BY <1>1 DEF Owned, Attempting, Preparing, Replacing
<1> QED BY <1>2, <1>3, KeepStep

LEMMA ReleaseKeeps ==
  ASSUME NEW p \in Procs, ReleaseDb(p) \/ UNCHANGED writer
  PROVE  \A d \in Dbs, q \in Procs \ {p} : writer[d] = q => writer'[d] = q
BY SessionAssumption DEF ReleaseDb

LEMMA StartKeeps ==
  ASSUME IndInv, KeepInv, NEW p \in Procs, NEW l, Start(p, l), DOMAIN l = DOMAIN Idle,
         l.pc \in {"scan", "delTx", "undoCheck"}, l.job = None, l.todo = {},
         UNCHANGED <<db_vars, file_vars, move_vars, del_vars>>
  PROVE  KeepInv'
<1>1. TypeOK
  BY DEF IndInv
<1>2. loc'[p] = [l EXCEPT !.alone = \A r \in Procs \ {p} : loc[r] = Idle]
  BY DEF Start
<1>3. loc'[p].pc = l.pc /\ loc'[p].job = None /\ loc'[p].todo = {}
  BY <1>2 DEF Idle
<1>4. \A q \in Procs \ {p} : Untouched(q)
  BY DEF Start, Untouched
<1>5. BackedUp(p)' /\ loc'[p].pc \in OutsidePCs \cup {"idle", "scan"}
  BY <1>3 DEF BackedUp, Deleting, OutsidePCs
<1>6. UNCHANGED <<writer, outcome, journal, staged, backup, path>>
  BY DEF db_vars, file_vars, move_vars, del_vars
<1> QED BY <1>3, <1>4, <1>5, <1>6, OutsideKeeps

LEMMA StartsKeep ==
  ASSUME IndInv, KeepInv, NEW p \in Procs,
         StartList(p) \/ (\E cwd \in Cwds : StartMove(p, cwd)) \/ StartDelete(p) \/ StartUndo(p)
  PROVE  KeepInv'
<1>1. UNCHANGED <<db_vars, file_vars, move_vars, del_vars>>
  BY DEF StartList, StartMove, StartDelete, StartUndo
<1>2. CASE StartList(p)
  <2> DEFINE l == [Idle EXCEPT !.pc = "scan", !.op = "list", !.at = 1]
  <2>1. Start(p, l)
    BY <1>2 DEF StartList
  <2>2. l.pc = "scan" /\ l.job = None /\ l.todo = {} /\ DOMAIN l = DOMAIN Idle
    BY DEF Idle
  <2> HIDE DEF l
  <2> QED BY <1>1, <2>1, <2>2, StartKeeps
<1>3. ASSUME NEW cwd \in Cwds, StartMove(p, cwd)
      PROVE  KeepInv'
  <2> DEFINE l == [Idle EXCEPT !.pc = "scan", !.op = "move", !.at = 1, !.target = cwd,
                               !.before = Picture]
  <2>1. Start(p, l)
    BY <1>3 DEF StartMove
  <2>2. l.pc = "scan" /\ l.job = None /\ l.todo = {} /\ DOMAIN l = DOMAIN Idle
    BY DEF Idle
  <2> HIDE DEF l
  <2> QED BY <1>1, <2>1, <2>2, StartKeeps
<1>4. CASE StartDelete(p)
  <2> DEFINE l == [Idle EXCEPT !.pc = "delTx", !.op = "delete", !.before = Picture,
                               !.dbs = Holders]
  <2>1. Start(p, l)
    BY <1>4 DEF StartDelete
  <2>2. l.pc = "delTx" /\ l.job = None /\ l.todo = {} /\ DOMAIN l = DOMAIN Idle
    BY DEF Idle
  <2> HIDE DEF l
  <2> QED BY <1>1, <2>1, <2>2, StartKeeps
<1>5. CASE StartUndo(p)
  <2> DEFINE l == [Idle EXCEPT !.pc = "undoCheck", !.op = "undo", !.undo = given,
                               !.before = Picture]
  <2>1. Start(p, l)
    BY <1>5 DEF StartUndo
  <2>2. l.pc = "undoCheck" /\ l.job = None /\ l.todo = {} /\ DOMAIN l = DOMAIN Idle
    BY DEF Idle
  <2> HIDE DEF l
  <2> QED BY <1>1, <2>1, <2>2, StartKeeps
<1> QED BY <1>2, <1>3, <1>4, <1>5

(* A delete that fails, or an undo that ends, goes to where nothing of the *)
(* backup is used any more.                                                *)
LEMMA CandidateFailsKeeps ==
  ASSUME IndInv, KeepInv, NEW p \in Procs, loc[p].pc \in OutsidePCs,
         NEW own \in SUBSET Saved, CandidateFails(p, own),
         UNCHANGED <<path, outcome, journal, staged, backup>>
  PROVE  KeepInv'
<1>1. /\ \A q \in Procs \ {p} : Untouched(q)
      /\ loc'[p].pc \in {"idle", "undoCheck"} /\ loc'[p].job = None
      /\ loc'[p].todo \subseteq loc[p].todo
  BY CandidateFailsInd
<1>2. BackedUp(p)' /\ loc'[p].pc \in OutsidePCs \cup {"idle", "scan"}
  BY <1>1 DEF BackedUp, Deleting, OutsidePCs
<1>3. ReleaseDb(p)
  BY DEF CandidateFails
<1> QED BY <1>1, <1>2, <1>3, ReleaseKeeps, OutsideKeeps

LEMMA AfterUndoKeeps ==
  ASSUME IndInv, KeepInv, NEW p \in Procs, loc[p].pc \in OutsidePCs,
         NEW ok \in BOOLEAN, AfterUndo(p, ok), ReleaseDb(p) \/ UNCHANGED writer,
         UNCHANGED <<path, outcome, journal, staged, backup>>
  PROVE  KeepInv'
<1>1. /\ \A q \in Procs \ {p} : Untouched(q)
      /\ loc'[p].pc \in {"idle", "undoCheck"} /\ loc'[p].job = None
      /\ loc'[p].todo \subseteq loc[p].todo
  BY AfterUndoInd
<1>2. BackedUp(p)' /\ loc'[p].pc \in OutsidePCs \cup {"idle", "scan"}
  BY <1>1 DEF BackedUp, Deleting, OutsidePCs
<1> QED BY <1>1, <1>2, ReleaseKeeps, OutsideKeeps

LEMMA UndoFailsKeeps ==
  ASSUME IndInv, KeepInv, NEW p \in Procs, loc[p].pc \in OutsidePCs, UndoFails(p),
         UNCHANGED <<path, outcome, journal, staged, backup>>
  PROVE  KeepInv'
BY AfterUndoKeeps DEF UndoFails

(* ... and one that goes on takes its variables along. *)
LEMMA OutsideGoesOn ==
  ASSUME IndInv, KeepInv, NEW p \in Procs, loc[p].pc \in OutsidePCs, NEW place \in OutsidePCs,
         place \in Deleting => loc[p].pc \in Deleting,
         Goto(p, place),
         \A d \in Dbs, q \in Procs \ {p} : writer[d] = q => writer'[d] = q,
         UNCHANGED <<outcome, journal, staged, backup>>,
         path' = path \/ path' # None
  PROVE  KeepInv'
<1>1. /\ \A q \in Procs \ {p} : Untouched(q)
      /\ loc'[p] = [loc[p] EXCEPT !.pc = place]
  BY OutsideGoes
<1>2. /\ loc[p] \in Locals /\ loc[p].job = None /\ BackedUp(p)
  BY Outside DEF OutsidePCs, KeepInv
<1>3. /\ loc'[p].pc = place /\ loc'[p].job = None /\ loc'[p].todo = loc[p].todo
      /\ loc'[p].sig = loc[p].sig /\ loc'[p].token = loc[p].token
  BY <1>1, <1>2 DEF Locals
<1>4. BackedUp(p)'
  BY <1>2, <1>3 DEF BackedUp
<1> QED BY <1>1, <1>3, <1>4, OutsideKeeps

(* The backup holds the rollout, when there is one. *)
LEMMA BackUpKeep ==
  ASSUME IndInv, KeepInv, NEW p \in Procs, BackUp(p)
  PROVE  KeepInv'
<1>1. loc[p].pc = "delTx" /\ loc[p].pc \in OutsidePCs /\ {} \in SUBSET Saved
  BY DEF BackUp, At, OutsidePCs
<1>2. /\ TypeOK /\ loc[p] \in Locals /\ loc[p].job = None
      /\ UNCHANGED <<path, staged, journal, outcome>>
  BY <1>1, Outside DEF BackUp, move_vars
<1>3. CASE CandidateFails(p, {}) /\ UNCHANGED backup
  BY <1>1, <1>2, <1>3, CandidateFailsKeeps
<1>4. ASSUME NEW d \in NextDb(p), NEW b \in NextBackup, writer[d] = None,
             writer' = [writer EXCEPT ![d] = p],
             backup' = [backup EXCEPT ![b] = BackupOf(d)],
             loc' = [loc EXCEPT ![p] =
                    [@ EXCEPT !.token = b, !.pc = "delVerify", !.bad = FALSE,
                              !.sig = IF path = None THEN None ELSE SignatureOf(path)]]
      PROVE  KeepInv'
  <2> DEFINE s == IF path = None THEN None ELSE SignatureOf(path)
             l == [loc[p] EXCEPT !.token = b, !.pc = "delVerify", !.bad = FALSE, !.sig = s]
  <2>1. b \in Backups /\ backup[b] = None
    BY DEF NextBackup
  <2>2. loc' = [loc EXCEPT ![p] = l]
    BY Zenon, <1>4
  <2>3. /\ l.pc = "delVerify" /\ l.job = None /\ l.todo = loc[p].todo
        /\ l.token = b /\ l.sig = s
    <3> HIDE DEF s
    <3> QED BY <1>2 DEF Locals
  <2> HIDE DEF l
  <2>4. loc'[p] = l /\ \A q \in Procs \ {p} : Untouched(q)
    BY <1>2, <2>2 DEF TypeOK, Untouched
  <2>5. BackedUp(p)'
    <3>1. backup'[b].file = path
      BY <1>2, <1>4, <2>1 DEF TypeOK, BackupOf
    <3>2. s # None => path # None
      OBVIOUS
    <3> HIDE DEF s
    <3> QED BY <1>2, <2>3, <2>4, <3>1, <3>2 DEF BackedUp
  <2>6. \A e \in Dbs, q \in Procs \ {p} : writer[e] = q => writer'[e] = q
    BY <1>2, <1>4, SessionAssumption DEF TypeOK
  <2>7. \A a \in Saved : backup'[a] = backup[a]
    BY <1>2, <1>4, <2>1 DEF Saved, TypeOK
  <2>8. loc'[p].pc \in OutsidePCs
    BY <2>3, <2>4 DEF OutsidePCs, Deleting
  <2> HIDE DEF s
  <2> QED BY <1>2, <2>3, <2>4, <2>5, <2>6, <2>7, <2>8, OutsideKeeps
<1>5. PICK d \in NextDb(p) :
       \/ CandidateFails(p, {}) /\ UNCHANGED backup
       \/ /\ writer[d] = None
          /\ writer' = [writer EXCEPT ![d] = p]
          /\ \E b \in NextBackup :
               /\ backup' = [backup EXCEPT ![b] = BackupOf(d)]
               /\ loc' = [loc EXCEPT ![p] =
                    [@ EXCEPT !.token = b, !.pc = "delVerify", !.bad = FALSE,
                              !.sig = IF path = None THEN None ELSE SignatureOf(path)]]
  BY DEF BackUp
<1> QED BY <1>3, <1>4, <1>5

LEMMA VerifyBackupKeep ==
  ASSUME IndInv, KeepInv, NEW p \in Procs, VerifyBackup(p)
  PROVE  KeepInv'
<1>1. loc[p].pc \in OutsidePCs /\ loc[p].pc \in Deleting /\ "delCommit" \in OutsidePCs
      /\ UNCHANGED <<path, staged, journal, outcome, backup>>
  BY DEF VerifyBackup, At, OutsidePCs, Deleting, move_vars
<1>2. {loc[p].token} \in SUBSET Saved
  BY <1>1, Outside
<1>3. CASE Goto(p, "delCommit") /\ UNCHANGED writer
  BY <1>1, <1>3, OutsideGoesOn
<1>4. CASE CandidateFails(p, {loc[p].token})
  BY <1>1, <1>2, <1>4, CandidateFailsKeeps
<1> QED BY <1>3, <1>4 DEF VerifyBackup

LEMMA DeleteRowsKeep ==
  ASSUME IndInv, KeepInv, NEW p \in Procs, DeleteRows(p)
  PROVE  KeepInv'
<1>1. loc[p].pc \in OutsidePCs /\ loc[p].pc \in Deleting /\ "delFile" \in OutsidePCs
      /\ UNCHANGED <<path, staged, journal, outcome, backup>>
  BY DEF DeleteRows, At, OutsidePCs, Deleting, move_vars
<1>2. {loc[p].token} \in SUBSET Saved
  BY <1>1, Outside
<1>3. CASE Goto(p, "delFile") /\ ReleaseDb(p)
  BY <1>1, <1>3, ReleaseKeeps, OutsideGoesOn
<1>4. CASE CandidateFails(p, {loc[p].token})
  BY <1>1, <1>2, <1>4, CandidateFailsKeeps
<1> QED BY <1>3, <1>4 DEF DeleteRows

(* The rollout goes only when the backup of this delete holds it. *)
LEMMA DeleteFileKeep ==
  ASSUME IndInv, KeepInv, NEW p \in Procs, DeleteFile(p)
  PROVE  KeepInv'
<1>1. loc[p].pc \in OutsidePCs /\ loc[p].pc \in Deleting
      /\ UNCHANGED <<writer, staged, journal, outcome, backup>>
  BY DEF DeleteFile, At, OutsidePCs, Deleting, move_vars, del_vars
<1>2. /\ TypeOK /\ loc[p] \in Locals /\ loc[p].job = None /\ loc[p].token \in Saved /\ BackedUp(p)
  BY <1>1, Outside DEF KeepInv
<1>3. PICK bad : loc' = [loc EXCEPT ![p].bad = bad, ![p].pc = "delIndex"]
  BY DEF DeleteFile
<1>4. /\ loc'[p].pc = "delIndex" /\ loc'[p].job = None /\ loc'[p].todo = loc[p].todo
      /\ loc'[p].sig = loc[p].sig /\ loc'[p].token = loc[p].token
      /\ \A q \in Procs \ {p} : Untouched(q)
  BY <1>2, <1>3 DEF TypeOK, Locals, Untouched
<1>5. path' = path \/ \E b \in Saved : backup[b].file # None
  BY <1>1, <1>2 DEF DeleteFile, BackedUp
<1>6. BackedUp(p)' /\ loc'[p].pc \in OutsidePCs
  BY <1>1, <1>2, <1>4 DEF BackedUp, OutsidePCs, Deleting
<1> QED BY <1>1, <1>4, <1>5, <1>6, OutsideKeeps

LEMMA DeleteIndexKeep ==
  ASSUME IndInv, KeepInv, NEW p \in Procs, DeleteIndex(p)
  PROVE  KeepInv'
<1>1. loc[p].pc \in OutsidePCs
      /\ UNCHANGED <<writer, path, staged, journal, outcome, backup>>
      /\ \E bad \in BOOLEAN : Verdict(p, bad)
  BY Outside DEF DeleteIndex, At, OutsidePCs, Deleting, move_vars, Locals
<1>2. TypeOK /\ loc[p] \in Locals /\ loc[p].job = None
  BY <1>1, Outside DEF OutsidePCs
<1>3. PICK bad \in BOOLEAN : Verdict(p, bad)
  BY <1>1
<1>4. /\ loc'[p].pc \in {"undoCheck", "delTx", "idle"} /\ loc'[p].job = None
      /\ loc'[p].todo \subseteq loc[p].todo
      /\ \A q \in Procs \ {p} : Untouched(q)
  <2>1. CASE bad
    <3> DEFINE l == [loc[p] EXCEPT !.bad = TRUE, !.undo = {loc[p].token}, !.pc = "undoCheck"]
    <3>1. loc' = [loc EXCEPT ![p] = l]
      BY <1>3, <2>1 DEF Verdict
    <3>2. l.pc = "undoCheck" /\ l.job = None /\ l.todo = loc[p].todo
      BY <1>2 DEF Locals
    <3> HIDE DEF l
    <3> QED BY <1>2, <3>1, <3>2 DEF TypeOK, Untouched
  <2>2. CASE ~bad /\ loc[p].dbs # NextDb(p)
    <3> DEFINE l == [loc[p] EXCEPT !.dbs = loc[p].dbs \ NextDb(p),
                                   !.done = loc[p].done \cup {loc[p].token},
                                   !.token = None, !.sig = None, !.pc = "delTx"]
    <3>1. loc' = [loc EXCEPT ![p] = l]
      BY <1>3, <2>2 DEF Verdict
    <3>2. l.pc = "delTx" /\ l.job = None /\ l.todo = loc[p].todo
      BY <1>2 DEF Locals
    <3> HIDE DEF l
    <3> QED BY <1>2, <3>1, <3>2 DEF TypeOK, Untouched
  <2>3. CASE ~bad /\ loc[p].dbs = NextDb(p)
    BY <1>3, <2>3, <1>2, Ends DEF Verdict, Reports, Idle
  <2> QED BY <2>1, <2>2, <2>3
<1>5. BackedUp(p)' /\ loc'[p].pc \in OutsidePCs \cup {"idle", "scan"}
  BY <1>4 DEF BackedUp, Deleting, OutsidePCs
<1> QED BY <1>1, <1>4, <1>5, OutsideKeeps

LEMMA CheckUndoKeep ==
  ASSUME IndInv, KeepInv, NEW p \in Procs, CheckUndo(p)
  PROVE  KeepInv'
<1>1. loc[p].pc \in OutsidePCs
      /\ UNCHANGED <<path, staged, journal, outcome, backup>>
  BY DEF CheckUndo, At, OutsidePCs, move_vars
<1>2. TypeOK /\ loc[p] \in Locals /\ loc[p].job = None
  BY <1>1, Outside DEF OutsidePCs
<1>3. CASE UndoFails(p)
  BY <1>1, <1>3, UndoFailsKeeps
<1>4. CASE ~UndoFails(p)
  <2> DEFINE w == {b \in loc[p].undo : row[backup[b].db] = None}
             l == [loc[p] EXCEPT !.pending = w, !.pc = "undoBegin"]
  <2>1. loc' = [loc EXCEPT ![p] = l] /\ UNCHANGED writer
    BY <1>4 DEF CheckUndo
  <2>2. l.pc = "undoBegin" /\ l.job = None /\ l.todo = loc[p].todo
    <3> HIDE DEF w
    <3> QED BY <1>2 DEF Locals
  <2> HIDE DEF l, w
  <2>3. loc'[p] = l /\ \A q \in Procs \ {p} : Untouched(q)
    BY <1>2, <2>1 DEF TypeOK, Untouched
  <2>4. BackedUp(p)' /\ loc'[p].pc \in OutsidePCs
    BY <2>2, <2>3 DEF BackedUp, Deleting, OutsidePCs
  <2> QED BY <1>1, <2>1, <2>2, <2>3, <2>4, OutsideKeeps
<1> QED BY <1>3, <1>4

LEMMA BeginUndoKeep ==
  ASSUME IndInv, KeepInv, NEW p \in Procs, BeginUndo(p)
  PROVE  KeepInv'
<1>1. loc[p].pc \in OutsidePCs
      /\ UNCHANGED <<path, staged, journal, outcome, backup>>
  BY DEF BeginUndo, At, OutsidePCs, move_vars
<1>2. TypeOK /\ loc[p] \in Locals /\ loc[p].job = None
  BY <1>1, Outside DEF OutsidePCs
<1>3. CASE UndoFails(p)
  BY <1>1, <1>3, UndoFailsKeeps
<1>4. CASE ~UndoFails(p)
  <2> DEFINE l == [loc[p] EXCEPT !.pending = {}, !.pc = "undoCommit"]
  <2>1. /\ loc' = [loc EXCEPT ![p] = l]
        /\ \A b \in loc[p].pending : writer[backup[b].db] = None
        /\ writer' = [d \in Dbs |-> IF \E b \in loc[p].pending : backup[b].db = d
                                    THEN p ELSE writer[d]]
    BY <1>4 DEF BeginUndo
  <2>2. l.pc = "undoCommit" /\ l.job = None /\ l.todo = loc[p].todo
    BY <1>2 DEF Locals
  <2> HIDE DEF l
  <2>3. loc'[p] = l /\ \A q \in Procs \ {p} : Untouched(q)
    BY <1>2, <2>1 DEF TypeOK, Untouched
  <2>4. BackedUp(p)' /\ loc'[p].pc \in OutsidePCs
    BY <2>2, <2>3 DEF BackedUp, Deleting, OutsidePCs
  <2>5. \A d \in Dbs, q \in Procs \ {p} : writer[d] = q => writer'[d] = q
    BY <2>1, SessionAssumption
  <2> QED BY <1>1, <2>2, <2>3, <2>4, <2>5, OutsideKeeps
<1> QED BY <1>3, <1>4

LEMMA CommitUndoKeep ==
  ASSUME IndInv, KeepInv, NEW p \in Procs, CommitUndo(p)
  PROVE  KeepInv'
<1>1. loc[p].pc = "undoCommit" /\ loc[p].pc \in OutsidePCs /\ "undoFiles" \in OutsidePCs
      /\ "undoFiles" \notin Deleting
      /\ UNCHANGED <<path, staged, journal, outcome, backup>>
  BY DEF CommitUndo, At, OutsidePCs, Deleting, move_vars
<1>2. TypeOK /\ loc[p] \in Locals /\ loc[p].job = None
  BY <1>1, Outside DEF OutsidePCs
<1>3. CASE Goto(p, "undoFiles") /\ UNCHANGED writer
  BY <1>1, <1>3, OutsideGoesOn
<1>4. CASE UndoFails(p)
  BY <1>1, <1>4, UndoFailsKeeps
<1>5. ASSUME NEW b \in loc[p].undo, writer[backup[b].db] = p,
             writer' = [writer EXCEPT ![backup[b].db] = None], UNCHANGED loc
      PROVE  KeepInv'
  BY <1>2, <1>5, <1>1, OutsideKeeps DEF TypeOK, Untouched, BackedUp, Deleting
<1> QED BY <1>3, <1>4, <1>5 DEF CommitUndo

LEMMA RestoreFileKeep ==
  ASSUME IndInv, KeepInv, NEW p \in Procs, RestoreFile(p)
  PROVE  KeepInv'
<1>1. loc[p].pc = "undoFiles" /\ loc[p].pc \in OutsidePCs /\ "undoIndex" \in OutsidePCs
      /\ "undoIndex" \notin Deleting
      /\ UNCHANGED <<staged, journal, outcome, backup>>
  BY DEF RestoreFile, At, OutsidePCs, Deleting, move_vars
<1>2. TypeOK /\ loc[p] \in Locals /\ loc[p].undo \subseteq Saved
  BY <1>1, Outside
<1>3. CASE Goto(p, "undoIndex") /\ UNCHANGED <<path, writer>>
  BY <1>1, <1>3, OutsideGoesOn
<1>4. CASE UndoFails(p) /\ UNCHANGED path
  BY <1>1, <1>4, UndoFailsKeeps
<1>5. ASSUME NEW b \in loc[p].undo, backup[b].file # None,
             path' = [backup[b].file EXCEPT !.ino = FreshInode],
             Goto(p, "undoIndex"), UNCHANGED writer
      PROVE  KeepInv'
  <2>1. path' # None
    BY <1>2, <1>5, FilesFit, FreshIsFresh, SessionAssumption DEF Fitting, File
  <2> QED BY <1>1, <1>5, <2>1, OutsideGoesOn
<1> QED BY <1>3, <1>4, <1>5 DEF RestoreFile

LEMMA RestoreIndexKeep ==
  ASSUME IndInv, KeepInv, NEW p \in Procs, RestoreIndex(p)
  PROVE  KeepInv'
<1>1. loc[p].pc \in OutsidePCs
      /\ UNCHANGED <<path, staged, journal, outcome, backup>>
  BY DEF RestoreIndex, At, OutsidePCs, move_vars
<1>2. CASE AfterUndo(p, TRUE) /\ UNCHANGED writer
  BY <1>1, <1>2, AfterUndoKeeps
<1>3. CASE UndoFails(p)
  BY <1>1, <1>3, UndoFailsKeeps
<1> QED BY <1>2, <1>3 DEF RestoreIndex

LEMMA CrashKeep ==
  ASSUME IndInv, KeepInv, NEW p \in Procs, Crash(p)
  PROVE  KeepInv'
<1>1. /\ TypeOK /\ ReleaseDb(p) /\ loc' = [loc EXCEPT ![p] = Idle]
      /\ UNCHANGED <<path, staged, journal, outcome, backup>>
  BY DEF IndInv, Crash, move_vars, del_vars
<1>2. loc'[p] = Idle /\ \A q \in Procs \ {p} : Untouched(q)
  BY <1>1 DEF TypeOK, Untouched
<1>3. loc'[p].pc = "idle" /\ loc'[p].job = None /\ loc'[p].todo = {}
  BY <1>2 DEF Idle
<1> QED BY <1>1, <1>2, <1>3, Leaves

LEMMA CodexAppendsKeep ==
  ASSUME IndInv, KeepInv, CodexAppends
  PROVE  KeepInv'
<1>1. /\ UNCHANGED <<writer, staged, journal, outcome, backup, loc>>
      /\ path # None /\ path \in File /\ budget.events > 0
      /\ path' = [path EXCEPT !.len = @ + 1]
  BY DEF IndInv, TypeOK, CodexAppends, db_vars, del_vars
<1>2. path' # None
  <2>1. path.len + budget.events <= MaxEvents /\ path.len \in Nat /\ budget.events \in Nat
    BY <1>1, SessionAssumption DEF IndInv, Fits, Short, TypeOK, File
  <2>2. path.len + 1 \in 0 .. MaxEvents
    BY <1>1, <2>1, SessionAssumption
  <2>3. path' \in File
    BY <1>1, <2>2 DEF File
  <2> QED BY <2>3, SessionAssumption
<1>3. UnusedIsFresh' /\ Apart'
  BY <1>1 DEF KeepInv, UnusedIsFresh, Fresh, Apart
<1>4. ASSUME NEW q \in Procs PROVE Owned(q)' /\ BackedUp(q)'
  BY <1>1 DEF KeepInv, Owned, BackedUp, Fresh, Db
<1> QED BY <1>2, <1>3, <1>4 DEF KeepInv, Somewhere

LEMMA KeepInit == Init => KeepInv
<1> SUFFICES ASSUME Init PROVE KeepInv
  OBVIOUS
<1>1. /\ \A p \in Procs : loc[p] = Idle
      /\ \A k \in Moves : journal[k] = None /\ outcome[k] = "unused"
  BY DEF Init
<1>2. path # None
  <2>1. TypeOK
    BY IndInit DEF IndInv
  <2>2. path \in [ino : {0}, cwd : Cwds, len : {0}]
    BY DEF Init
  <2>3. 0 \in Inodes /\ 0 \in 0 .. MaxEvents
    BY SessionAssumption, FS_CardinalityType DEF Inodes
  <2>4. path \in File
    BY <2>2, <2>3 DEF File
  <2> QED BY <2>4, SessionAssumption
<1>3. None \notin Moves /\ Idle.pc = "idle" /\ Idle.job = None /\ Idle.todo = {}
  BY SessionAssumption DEF Idle
<1>4. UnusedIsFresh
  BY <1>1, <1>3 DEF UnusedIsFresh, Fresh
<1>5. Apart
  BY <1>1, <1>3 DEF Apart, Attempting, Preparing, Replacing
<1>6. ASSUME NEW p \in Procs PROVE Owned(p) /\ BackedUp(p)
  BY <1>1, <1>3 DEF Owned, BackedUp, Attempting, Preparing, Replacing, Recovering, Deleting
<1> QED BY <1>2, <1>4, <1>5, <1>6 DEF KeepInv, Somewhere

LEMMA KeepNext == IndInv /\ KeepInv /\ [Next]_vars => KeepInv'
<1> SUFFICES ASSUME IndInv, KeepInv, [Next]_vars PROVE KeepInv'
  OBVIOUS
<1>1. CASE UNCHANGED vars
  BY <1>1 DEF KeepInv, UnusedIsFresh, Apart, Owned, BackedUp, Somewhere, Fresh, Saved, Db, vars
<1>2. CASE CodexAppends
  BY <1>2, CodexAppendsKeep
<1>3. ASSUME NEW p \in Procs, StartList(p) \/ (\E cwd \in Cwds : StartMove(p, cwd))
                               \/ StartDelete(p) \/ StartUndo(p)
      PROVE  KeepInv'
  BY <1>3, StartsKeep
<1>4. ASSUME NEW p \in Procs, Recover(p)
      PROVE  KeepInv'
  BY <1>4, ScanKeep, NextJournalKeep, AllRecoveredKeep, RecoveryTimeoutKeep, RecoveryBeginKeep,
     RecoveryActKeep, RecoveryCommitKeep, RecoveryCleanKeep, RecoveryDoneKeep DEF Recover
<1>5. ASSUME NEW p \in Procs, Move(p)
      PROVE  KeepInv'
  BY <1>5, StageKeep, LinkKeep, BeginKeep, WriteJournalKeep, VerifyKeep, ReplaceKeep, CommitKeep,
     RecheckKeep, PutBackKeep, UnjournalKeep, FinishKeep, ClearJournalKeep DEF Move
<1>6. ASSUME NEW p \in Procs, Delete(p)
      PROVE  KeepInv'
  BY <1>6, BackUpKeep, VerifyBackupKeep, DeleteRowsKeep, DeleteFileKeep, DeleteIndexKeep
     DEF Delete
<1>7. ASSUME NEW p \in Procs, Undo(p)
      PROVE  KeepInv'
  BY <1>7, CheckUndoKeep, BeginUndoKeep, CommitUndoKeep, RestoreFileKeep, RestoreIndexKeep
     DEF Undo
<1>8. ASSUME NEW p \in Procs, Crash(p)
      PROVE  KeepInv'
  BY <1>8, CrashKeep
<1> QED BY <1>1, <1>2, <1>3, <1>4, <1>5, <1>6, <1>7, <1>8 DEF Next

(* The conversation survives: whatever is moved, deleted, undone, killed   *)
(* or fails, the rollout is at its path or in a backup.                    *)
THEOREM ConversationSurvives == Spec => []RolloutNeverLost
<1>1. IndInv /\ KeepInv => RolloutNeverLost
  BY DEF KeepInv, Somewhere, Saved, RolloutNeverLost
<1>2. Init => IndInv /\ KeepInv
  BY IndInit, KeepInit
<1>3. IndInv /\ KeepInv /\ [Next]_vars => IndInv' /\ KeepInv'
  BY IndNext, KeepNext
<1> QED BY <1>1, <1>2, <1>3, PTL DEF Spec

----
(* Moves settle: of a session one database lists, while no delete is tried *)
(* and moves take turns, row and rollout agree but for one torn move whose *)
(* journal leads recovery to an agreement.                                 *)
(* What the proof needs to know of a process it does not look at.          *)
LEMMA UntouchedMore ==
  ASSUME TypeOK, NEW q \in Procs, Untouched(q)
  PROVE  /\ loc'[q].op = loc[q].op /\ loc'[q].target = loc[q].target
         /\ loc'[q].prev = loc[q].prev /\ loc'[q].copy = loc[q].copy
         /\ JournalOf(q)' = JournalOf(q)
<1>1. loc[q] \in Locals
  BY DEF TypeOK
<1> QED BY <1>1 DEF Untouched, Locals, JournalOf, Db

(* A torn move is not in agreement. *)
LEMMA TornDisagrees ==
  ASSUME NEW h, Consistent(h), NEW k \in Moves, Torn(h, k)
  PROVE  ~Agreed(h) /\ k \in Journaled
BY DEF Consistent, Torn, Agreed, Journaled

(* The files of a process in recovery, acted on, agree with the row it     *)
(* will commit; with nothing to mend, they stay.                           *)
LEMMA PlansAgree ==
  ASSUME NEW j \in Journals, ~j.dbOnly, j.prev # j.target,
         NEW db, NEW seen, seen # None, NEW stage, NEW roll,
         NEW r \in RecoveryPlan(j, db, seen, stage, roll)
  PROVE  /\ r.file \in {"keep", "staged", "rollback"}
         /\ r.file = "keep" => r.row = seen
         /\ r.file = "staged" => r.row = stage /\ stage = j.target
         /\ r.file = "rollback" => r.row = roll /\ roll = j.prev
         /\ seen = db => r.file = "keep"
BY SMTT(60) DEF RecoveryPlan

(* There is a plan where row and rollout agree, and for a torn move the    *)
(* plan is to put the original back.                                       *)
LEMMA PlansExist ==
  ASSUME NEW j \in Journals, ~j.dbOnly, j.prev # j.target,
         NEW db, NEW seen, seen # None, NEW stage, NEW roll
  PROVE  /\ seen = db => RecoveryPlan(j, db, seen, stage, roll) # {}
         /\ db = j.prev /\ seen = j.target /\ roll = j.prev
              => RecoveryPlan(j, db, seen, stage, roll) = {[file |-> "rollback", row |-> db]}
<1> DEFINE keep == [file |-> "keep", row |-> db]
           back == [file |-> "rollback", row |-> db]
<1>1. ASSUME seen = db PROVE keep \in RecoveryPlan(j, db, seen, stage, roll)
  <2>1. CASE db = j.prev \/ db = j.target
    BY <1>1, <2>1 DEF RecoveryPlan
  <2>2. CASE db # j.prev /\ db # j.target
    BY <1>1, <2>2 DEF RecoveryPlan
  <2> QED BY <2>1, <2>2
<1>2. ASSUME db = j.prev, seen = j.target, roll = j.prev
      PROVE  RecoveryPlan(j, db, seen, stage, roll) = {back}
  BY <1>2 DEF RecoveryPlan
<1> QED BY <1>1, <1>2

----
(* What a step of p leaves to the recoveries of the others. *)
LEMMA OthersRecover ==
  ASSUME NEW h \in Dbs, Settling(h), NEW p \in Procs, NEW q \in Procs \ {p}, Untouched(q),
         Seen' = Seen \/ writer[h] = p,
         writer[h] = q => writer'[h] = q,
         \A k \in Moves :
           \/ Fresh(k)
           \/ /\ \/ journal'[k] = journal[k]
                 \/ journal'[k] = None /\ Copy(k)' = None /\ Original(k)' = None
              /\ Copy(k)' \in {Copy(k), None} /\ Original(k)' \in {Original(k), None}
  PROVE  RecoveringSound(q, h)'
<1> SUFFICES ASSUME loc[q].pc \in Recovering
             PROVE  RecoveringSound(q, h)'
  BY UntouchedFields DEF RecoveringSound, Settling, IndInv
<1> PICK k : k = loc[q].job
  OBVIOUS
<1>1. TypeOK /\ k \in Moves /\ RecoveringSound(q, h) /\ None \notin Procs
  BY SessionAssumption DEF Settling, Whole, IndInv, Placed
<1>2. /\ loc'[q].pc = loc[q].pc /\ loc'[q].job = k /\ Db(q)' = Db(q)
      /\ loc'[q].copy = loc[q].copy /\ loc'[q].prev = loc[q].prev
  BY <1>1, UntouchedFields, UntouchedMore
<1>3. ~Fresh(k)
  BY DEF Fresh
<1>4. /\ journal'[k] # None => loc[q].copy = journal'[k]
      /\ journal'[k] = None \/ loc[q].pc = "recDone" => Copy(k)' = None /\ Original(k)' = None
  BY <1>1, <1>3 DEF RecoveringSound
<1>5. loc[q].pc \in {"recAct", "recCommit"} => writer'[h] = q /\ loc[q].prev = Seen'
  BY <1>1 DEF RecoveringSound
<1> QED BY <1>1, <1>2, <1>4, <1>5 DEF RecoveringSound

(* A move beside which p does not move. *)
LEMMA StillMoving ==
  ASSUME NEW h \in Dbs, Settling(h), NEW p \in Procs, NEW q \in Procs \ {p}, Untouched(q),
         loc[q].op # "move"
  PROVE  MovingSound(q, h)'
<1>1. /\ loc'[q].pc = loc[q].pc /\ loc'[q].op = loc[q].op /\ loc[q].pc \notin {"stage"} \cup Attempting
  BY UntouchedFields, UntouchedMore DEF Settling, IndInv, Placed
<1> QED BY <1>1 DEF MovingSound, Attempting, Preparing, Replacing, Recovering

LEMMA OthersMove ==
  ASSUME NEW h \in Dbs, Settling(h), OneMover', NEW p \in Procs, Recovers(p, h),
         NEW q \in Procs \ {p}, loc[q].op = "move"
  PROVE  MovingSound(q, h)'
<1> DEFINE l == loc[q]
<1> PICK k : k = l.move
  OBVIOUS
<1>1. /\ TypeOK /\ Placed(q) /\ Owned(q) /\ Consistent(h) /\ MovingSound(q, h)
      /\ RecoveringSound(p, h) /\ None \notin Moves /\ None \notin Procs
  BY SessionAssumption DEF Settling, Whole, IndInv, KeepInv
<1>2. /\ loc'[q].pc = l.pc /\ loc'[q].move = k /\ loc'[q].mode = l.mode /\ loc'[q].todo = l.todo
      /\ loc'[q].job = l.job /\ loc'[q].op = l.op /\ loc'[q].target = l.target
      /\ loc'[q].prev = l.prev /\ Db(q)' = Db(q) /\ JournalOf(q)' = JournalOf(q)
  BY <1>1, UntouchedFields, UntouchedMore DEF Recovers
<1>3. Journaled' \subseteq Journaled
  BY DEF Recovers, Journaled
<1>4. l.pc \in Attempting => k \in Moves
  BY <1>1 DEF Placed
<1>5. CASE l.pc \notin Attempting
  BY <1>1, <1>2, <1>3, <1>5
     DEF MovingSound, Attempting, Preparing, Replacing, Recovering
<1>6. CASE l.pc \in Preparing
  BY <1>1, <1>6, <1>4, <1>2, <1>3 DEF MovingSound, Consistent, Owned, Fresh, Recovers, Attempting,
    Preparing, Replacing, Recovering
<1>7. CASE l.pc \in Replacing \cup {"commit"}
  <2>1. writer[h] = q /\ k \in Moves /\ l.pc \in Attempting /\ Db(q) = h
    BY <1>1, <1>4, <1>7 DEF MovingSound, Owned, Attempting, Preparing, Replacing
  <2>2. loc[p].pc \notin {"recAct", "recCommit"}
    BY <1>1, <2>1 DEF RecoveringSound, Recovering
  <2>3. row'[h] = row[h] /\ Seen' = Seen /\ writer'[h] = q
    BY <2>1, <2>2 DEF Recovers
  <2>4. l.mode = "staged" /\ loc[p].job = k => loc[p].pc = "recTx"
    BY <1>1, <1>7, <2>2 DEF Owned, MovingSound, Torn, Replacing
  <2>5. l.mode = "staged" =>
          journal'[k] = journal[k] /\ Copy(k)' = Copy(k) /\ Original(k)' = Original(k)
    BY <2>1, <2>4 DEF Recovers
  <2>6. l.pc = "commit" /\ l.mode = "staged" => Torn(h, k)'
    <3> SUFFICES ASSUME l.pc = "commit", l.mode = "staged" PROVE Torn(h, k)'
      OBVIOUS
    <3>1. Torn(h, k) /\ outcome'[k] # "moved"
      BY <1>1 DEF MovingSound, Torn, Recovers
    <3>2. ASSUME NEW r \in Procs \ {p}, loc'[r].job = k PROVE loc'[r].pc \in {"recTx", "recAct"}
      BY <1>1, <3>1, <3>2, UntouchedFields DEF Recovers, Torn
    <3>3. loc'[p].job = k => loc'[p].pc \in {"recTx", "recAct"}
      BY <1>1, <2>1, <2>4 DEF Recovers
    <3> QED BY <2>3, <2>5, <3>1, <3>2, <3>3 DEF Torn
  <2>7. l.pc = "commit" => l.mode \in {"current", "staged"}
    BY <1>1, <2>1 DEF MovingSound
  <2>8. l.pc \in Replacing => l.mode = "staged"
    BY <1>1 DEF Owned
  <2> QED BY <1>1, <1>2, <1>3, <1>7, <2>1, <2>3, <2>5, <2>6, <2>7, <2>8
          DEF MovingSound, Agreed, Attempting, Preparing, Replacing, Recovering
<1>8. CASE l.pc \in {"recheck", "restore", "unjournal"}
  <2>1. loc[p] = Idle /\ loc'[p] = Idle
    BY <1>2, <1>8 DEF Settling, OneMover
  <2>2. loc[p].pc = "idle" /\ loc'[p].job = None
    BY <2>1 DEF Idle
  <2>3. /\ row'[h] = row[h] /\ Seen' = Seen /\ k \in Moves
        /\ journal'[k] = journal[k] /\ Copy(k)' = Copy(k) /\ Original(k)' = Original(k)
    BY <1>4, <1>8, <2>2 DEF Recovers, Attempting
  <2>4. Torn(h, k) => Torn(h, k)'
    <3> SUFFICES ASSUME Torn(h, k) PROVE Torn(h, k)'
      OBVIOUS
    <3>1. ASSUME NEW r \in Procs \ {p}, loc'[r].job = k PROVE loc'[r].pc \in {"recTx", "recAct"}
      BY <1>1, <3>1, UntouchedFields DEF Recovers, Torn
    <3> QED BY <1>1, <2>2, <2>3, <3>1 DEF Torn, Recovers
  <2> QED BY <1>1, <1>2, <1>3, <1>8, <2>3, <2>4
          DEF MovingSound, Agreed, Attempting, Preparing, Replacing, Recovering
<1>9. CASE l.pc \in {"finish", "clear"}
  BY <1>1, <1>4, <1>9, <1>2, <1>3 DEF MovingSound, Attempting, Recovers, Agreed, Preparing, Replacing,
    Recovering
<1> QED BY <1>5, <1>6, <1>7, <1>8, <1>9 DEF Attempting

LEMMA RecoveryStep ==
  ASSUME NEW h \in Dbs, Settling(h), OneMover', NEW p \in Procs, Recovers(p, h),
         Consistent(h)', RecoveringSound(p, h)', MovingSound(p, h)'
  PROVE  Whole(h)'
<1>1. ASSUME NEW q \in Procs \ {p} PROVE RecoveringSound(q, h)' /\ MovingSound(q, h)'
  <2>1. RecoveringSound(p, h)
    BY DEF Settling, Whole
  <2>2. Seen' = Seen \/ writer[h] = p
    BY <2>1 DEF Recovers, RecoveringSound, Recovering
  <2>3. RecoveringSound(q, h)'
    BY <2>2, OthersRecover DEF Recovers
  <2>4. MovingSound(q, h)'
    BY OthersMove, StillMoving DEF Recovers
  <2> QED BY <2>3, <2>4
<1> QED BY <1>1 DEF Whole

(* A torn move stays torn beside what does not touch it. *)
LEMMA TornStays ==
  ASSUME NEW h \in Dbs, Settling(h), NEW p \in Procs, \A q \in Procs \ {p} : Untouched(q),
         NEW k \in Moves, Torn(h, k), row'[h] = row[h], Seen' = Seen,
         journal'[k] = journal[k], Original(k)' = Original(k), outcome'[k] # "moved",
         loc'[p].job = k => loc'[p].pc \in {"recTx", "recAct"}
  PROVE  Torn(h, k)'
<1>1. ASSUME NEW r \in Procs \ {p}, loc'[r].job = k PROVE loc'[r].pc \in {"recTx", "recAct"}
  BY <1>1, UntouchedFields DEF Torn, Settling, IndInv
<1> QED BY <1>1 DEF Torn

(* Whatever is as before, or less, is consistent still. *)
LEMMA StaysConsistent ==
  ASSUME NEW h \in Dbs, Settling(h), Seen' # None,
         \A k \in Moves : journal'[k] \in {journal[k], None},
         Agreed(h)' \/ \E k \in Moves : Torn(h, k)'
  PROVE  Consistent(h)'
BY DEF Settling, Whole, Consistent, Journaled, Torn

(* A step of a move. *)
LEMMA MoveStep ==
  ASSUME NEW h \in Dbs, Settling(h), NEW p \in Procs, \A q \in Procs \ {p} : Untouched(q),
         loc[p].pc \in {"stage"} \cup Attempting,
         Seen' = Seen \/ writer[h] = p,
         \A q \in Procs \ {p} : writer[h] = q => writer'[h] = q,
         \A k \in Moves :
           \/ Fresh(k)
           \/ /\ \/ journal'[k] = journal[k]
                 \/ journal'[k] = None /\ Copy(k)' = None /\ Original(k)' = None
              /\ Copy(k)' \in {Copy(k), None} /\ Original(k)' \in {Original(k), None},
         Consistent(h)', RecoveringSound(p, h)', MovingSound(p, h)'
  PROVE  Whole(h)'
<1>1. loc[p].op = "move"
  BY DEF Settling, IndInv, Placed
<1>2. ASSUME NEW q \in Procs \ {p} PROVE RecoveringSound(q, h)' /\ MovingSound(q, h)'
  BY <1>1, OthersRecover, StillMoving DEF Settling, OneMover
<1> QED BY <1>2 DEF Whole

(* A step of a move whose process is alone, its commit having failed. *)
LEMMA AloneStep ==
  ASSUME NEW h \in Dbs, Settling(h), NEW p \in Procs, \A q \in Procs \ {p} : Untouched(q),
         loc[p].pc \in {"recheck", "restore", "unjournal"},
         Consistent(h)', RecoveringSound(p, h)', MovingSound(p, h)'
  PROVE  Whole(h)'
<1>1. ASSUME NEW q \in Procs \ {p} PROVE RecoveringSound(q, h)' /\ MovingSound(q, h)'
  BY UntouchedFields DEF Settling, OneMover, IndInv, Idle, RecoveringSound, MovingSound, Attempting,
    Preparing, Replacing, Recovering
<1> QED BY <1>1 DEF Whole

LEMMA PrimedRest ==
  ASSUME NEW h, NEW p \in Procs, loc'[p].pc \in {"idle", "scan"}
  PROVE  RecoveringSound(p, h)' /\ MovingSound(p, h)'
BY DEF RecoveringSound, MovingSound, Attempting, Preparing, Replacing, Recovering

(* Whoever stops what it was doing, having changed neither row nor rollout *)
(* nor journal.                                                            *)
LEMMA Stops ==
  ASSUME NEW h \in Dbs, Settling(h), OneMover', NEW p \in Procs,
         \A q \in Procs \ {p} : Untouched(q),
         loc'[p].pc \in {"idle", "scan"}, loc'[p].job = None,
         ReleaseDb(p) \/ UNCHANGED writer,
         UNCHANGED <<row, path, journal>>,
         UNCHANGED <<staged, rollback>> \/ Dropped(loc[p].move),
         \/ UNCHANGED outcome
         \/ loc[p].move # None /\ outcome' = [outcome EXCEPT ![loc[p].move] = "failed"]
  PROVE  Whole(h)'
<1>1. /\ TypeOK /\ Placed(p) /\ Consistent(h) /\ None \notin Moves /\ None \notin Procs
  BY SessionAssumption DEF Settling, Whole, IndInv
<1>2. Seen' = Seen /\ row'[h] = row[h] /\ RecoveringSound(p, h)' /\ MovingSound(p, h)'
  BY PrimedRest DEF Seen, CwdOf
<1>3. \A q \in Procs \ {p} : writer[h] = q => writer'[h] = q
  BY <1>1 DEF TypeOK, ReleaseDb
<1>4. ASSUME NEW k \in Moves
      PROVE  /\ Copy(k)' \in {Copy(k), None} /\ Original(k)' \in {Original(k), None}
             /\ k \in Journaled \/ loc[p].move = None =>
                  Copy(k)' = Copy(k) /\ Original(k)' = Original(k)
  <2>1. CASE UNCHANGED <<staged, rollback>>
    BY <2>1 DEF Copy, Original, CwdOf
  <2>2. CASE /\ staged' = [staged EXCEPT ![loc[p].move] = None]
             /\ rollback' = [rollback EXCEPT ![loc[p].move] = None]
             /\ loc[p].move # None
             /\ ~(journal[loc[p].move] # None /\ ~journal[loc[p].move].dbOnly)
    BY <1>1, <2>2 DEF TypeOK, Copy, Original, CwdOf, Consistent, Journaled
  <2> QED BY <2>1, <2>2 DEF Dropped
<1>5. Agreed(h)' \/ \E k \in Moves : Torn(h, k)'
  <2>1. CASE Agreed(h)
    BY <1>2, <2>1 DEF Agreed
  <2>2. ASSUME NEW k \in Moves, Torn(h, k) PROVE Torn(h, k)'
    BY <1>1, <2>2, <1>4, TornDisagrees, <1>2, TornStays DEF TypeOK, Torn
  <2> QED BY <1>1, <2>1, <2>2 DEF Consistent, Journaled
<1>6. Consistent(h)'
  BY <1>1, <1>2, <1>5, StaysConsistent DEF Consistent
<1>7. CASE loc[p].pc \in Attempting
  BY <1>2, <1>3, <1>4, <1>6, <1>7, MoveStep
<1>8. CASE loc[p].pc \notin Attempting
  BY <1>1, <1>8, <1>2, <1>3, <1>4, <1>6, RecoveryStep DEF Placed, Recovers
<1> QED BY <1>7, <1>8

LEMMA RecoveryFailsSettling ==
  ASSUME NEW h \in Dbs, Settling(h), OneMover', NEW p \in Procs, loc[p].pc \in InDb,
         RecoveryFails(p), UNCHANGED <<row, path, journal, staged, rollback, outcome>>
  PROVE  Whole(h)'
<1>1. ReleaseDb(p)
  BY DEF RecoveryFails
<1> QED BY <1>1, RecoveryFailsInd, Stops DEF Settling

LEMMA MoveFailsSettling ==
  ASSUME NEW h \in Dbs, Settling(h), OneMover', NEW p \in Procs, loc[p].pc \in InDb,
         MoveFails(p), UNCHANGED <<row, path, journal>>,
         UNCHANGED <<staged, rollback>> \/ Dropped(loc[p].move)
  PROVE  Whole(h)'
<1>1. ReleaseDb(p)
  BY DEF MoveFails
<1>2. \/ UNCHANGED outcome
      \/ loc[p].move # None /\ outcome' = [outcome EXCEPT ![loc[p].move] = "failed"]
  BY DEF MoveFails
<1> QED BY <1>1, <1>2, MoveFailsInd, Stops DEF Settling

LEMMA ScanSettling ==
  ASSUME NEW h \in Dbs, Settling(h), OneMover', NEW p \in Procs, Scan(p)
  PROVE  Whole(h)'
<1>1. /\ TypeOK /\ Placed(p) /\ loc[p].pc = "scan" /\ loc[p] \in Locals /\ Consistent(h)
      /\ UNCHANGED <<row, writer, path, staged, rollback, journal, outcome>> /\ None \notin Moves
      /\ loc[p].job = None /\ loc[p].move = None
  BY SessionAssumption
     DEF Settling, Whole, IndInv, TypeOK, Placed, Scan, At, Recovering, Attempting, Preparing,
         Replacing, db_vars, file_vars, move_vars
<1>2. /\ loc'[p].pc = "recover" /\ loc'[p].todo = Pending(Db(p)) /\ loc'[p].job = None
      /\ loc'[p].op = loc[p].op /\ Db(p)' = Db(p) /\ \A q \in Procs \ {p} : Untouched(q)
  BY <1>1 DEF Scan, TypeOK, Locals, Db, Untouched
<1>3. Recovers(p, h)
  BY <1>1, <1>2 DEF Recovers, Seen, Copy, Original, CwdOf
<1>4. Consistent(h)'
  BY <1>1, <1>2, TornStays, StaysConsistent DEF Consistent, Agreed, Seen, Original, CwdOf, Torn,
    Journaled
<1>5. RecoveringSound(p, h)' /\ MovingSound(p, h)'
  BY <1>1, <1>2 DEF Pending, Journaled, Consistent, RecoveringSound, MovingSound, Recovering,
    Attempting, Preparing, Replacing
<1> QED BY <1>3, <1>4, <1>5, RecoveryStep

LEMMA NextJournalSettling ==
  ASSUME NEW h \in Dbs, Settling(h), OneMover', NEW p \in Procs, NextJournal(p)
  PROVE  Whole(h)'
<1>1. /\ TypeOK /\ Placed(p) /\ loc[p].pc = "recover" /\ loc[p] \in Locals /\ Consistent(h)
      /\ Owned(p) /\ MovingSound(p, h)
      /\ UNCHANGED <<row, writer, path, staged, rollback, journal, outcome>> /\ None \notin Moves
      /\ loc[p].job = None
  BY SessionAssumption
     DEF Settling, Whole, IndInv, KeepInv, TypeOK, Placed, NextJournal, At, Recovering,
         db_vars, file_vars, move_vars
<1>2. PICK k \in loc[p].todo :
        loc' = [loc EXCEPT ![p] =
            [@ EXCEPT !.todo = loc[p].todo \ {k}, !.copy = journal[k],
                      !.job = IF journal[k] = None THEN None ELSE k,
                      !.pc = IF journal[k] = None THEN "recover" ELSE "recTx"]]
  BY DEF NextJournal
<1>3. k \in Moves
  BY <1>1 DEF Locals
<1>4. /\ loc'[p].todo = loc[p].todo \ {k} /\ loc'[p].copy = journal[k]
      /\ loc'[p].job = (IF journal[k] = None THEN None ELSE k)
      /\ loc'[p].pc = (IF journal[k] = None THEN "recover" ELSE "recTx")
      /\ loc'[p].op = loc[p].op /\ Db(p)' = Db(p) /\ \A q \in Procs \ {p} : Untouched(q)
  BY <1>1, <1>2 DEF TypeOK, Locals, Db, Untouched
<1>5. Recovers(p, h)
  BY <1>1, <1>4 DEF Recovers, Seen, Copy, Original, CwdOf
<1>6. Consistent(h)'
  BY <1>1, <1>4, TornStays, StaysConsistent DEF Consistent, Agreed, Seen, Original, CwdOf, Torn,
    Journaled
<1>7. journal[k] # None => Db(p) = h /\ ~journal[k].dbOnly /\ journal[k].prev # journal[k].target
  BY <1>1, <1>3 DEF Owned, Consistent, Journaled
<1>8. RecoveringSound(p, h)'
  BY <1>1, <1>3, <1>4, <1>7 DEF RecoveringSound, Recovering
<1>9. MovingSound(p, h)'
  BY <1>1, <1>3, <1>4 DEF Journaled, MovingSound, Recovering, Attempting, Preparing, Replacing
<1> QED BY <1>5, <1>6, <1>8, <1>9, RecoveryStep

LEMMA AllRecoveredSettling ==
  ASSUME NEW h \in Dbs, Settling(h), OneMover', NEW p \in Procs, AllRecovered(p)
  PROVE  Whole(h)'
<1>1. /\ TypeOK /\ Placed(p) /\ loc[p].pc = "recover" /\ loc[p] \in Locals /\ Consistent(h)
      /\ loc[p].pc \in InDb /\ IndInv /\ loc[p].todo = {}
      /\ MovingSound(p, h) /\ loc[p].op \in {"list", "move"}
      /\ UNCHANGED <<row, writer, path, staged, rollback, journal, outcome>> /\ None \notin Moves
      /\ loc[p].job = None
  BY SessionAssumption
     DEF Settling, Whole, IndInv, TypeOK, Placed, AllRecovered, At, Recovering, InDb,
         db_vars, file_vars, move_vars
<1>2. CASE NextDatabase(p, "listed")
  BY <1>1, <1>2, GoesToNext, Stops DEF Reports
<1>3. CASE Goto(p, "stage") /\ loc[p].op # "list"
  <2>1. /\ loc'[p].pc = "stage" /\ loc'[p].job = None
        /\ loc'[p].op = loc[p].op /\ Db(p)' = Db(p) /\ \A q \in Procs \ {p} : Untouched(q)
    BY <1>1, <1>3 DEF Goto, TypeOK, Locals, Db, Untouched
  <2>2. Recovers(p, h)
    BY <1>1, <2>1 DEF Recovers, Seen, Copy, Original, CwdOf
  <2>3. Consistent(h)'
    BY <1>1, <2>1, TornStays, StaysConsistent DEF Consistent, Agreed, Seen, Original, CwdOf, Torn,
      Journaled
  <2>4. RecoveringSound(p, h)' /\ MovingSound(p, h)'
    BY <1>1, <1>3, <2>1
       DEF RecoveringSound, MovingSound, Recovering, Attempting, Preparing, Replacing, Journaled
  <2> QED BY <2>2, <2>3, <2>4, RecoveryStep
<1> QED BY <1>2, <1>3 DEF AllRecovered

LEMMA RecoveryTimeoutSettling ==
  ASSUME NEW h \in Dbs, Settling(h), OneMover', NEW p \in Procs, RecoveryTimeout(p)
  PROVE  Whole(h)'
<1>1. loc[p].pc \in InDb /\ RecoveryFails(p)
      /\ UNCHANGED <<row, path, staged, rollback, journal, outcome>>
  BY DEF RecoveryTimeout, At, InDb, Recovering, move_vars
<1> QED BY <1>1, RecoveryFailsSettling

LEMMA RecoveryBeginSettling ==
  ASSUME NEW h \in Dbs, Settling(h), OneMover', NEW p \in Procs, RecoveryBegin(p)
  PROVE  Whole(h)'
<1>1. /\ TypeOK /\ Placed(p) /\ loc[p].pc = "recTx" /\ loc[p].pc \in InDb /\ loc[p].pc \in Recovering
      /\ loc[p] \in Locals /\ Consistent(h) /\ RecoveringSound(p, h) /\ MovingSound(p, h)
      /\ UNCHANGED <<row, path, staged, rollback, journal, outcome>> /\ writer[Db(p)] = None
      /\ None \notin Procs /\ Db(p) = h
  BY SessionAssumption
     DEF Settling, Whole, IndInv, TypeOK, RecoveryBegin, At, InDb, Recovering, move_vars,
         RecoveringSound
<1>2. CASE RecoveryFails(p)
  BY <1>1, <1>2, RecoveryFailsSettling
<1>3. CASE ~RecoveryFails(p)
  <2>1. /\ writer' = [writer EXCEPT ![Db(p)] = p]
        /\ loc' = [loc EXCEPT ![p].pc = "recAct", ![p].prev = Seen]
    BY <1>3 DEF RecoveryBegin, Seen, CwdOf
  <2> DEFINE c == Seen
  <2>2. /\ loc'[p].todo = loc[p].todo /\ loc'[p].job = loc[p].job /\ loc'[p].pc = "recAct"
        /\ loc'[p].prev = c /\ loc'[p].copy = loc[p].copy /\ loc'[p].op = loc[p].op
        /\ Db(p)' = Db(p) /\ \A q \in Procs \ {p} : Untouched(q)
    <3>1. loc' = [loc EXCEPT ![p].pc = "recAct", ![p].prev = c]
      BY <2>1
    <3> HIDE DEF c
    <3> QED BY <1>1, <3>1 DEF TypeOK, Locals, Db, Untouched
  <2>3. \A q \in Procs \ {p} : writer[h] = q => writer'[h] = q
    BY <1>1, <2>1 DEF TypeOK
  <2>4. Recovers(p, h)
    BY <1>1, <2>2, <2>3 DEF Recovers, Seen, Copy, Original, CwdOf
  <2>5. Consistent(h)'
    BY <1>1, <2>2, TornStays, StaysConsistent DEF Consistent, Agreed, Seen, Original, CwdOf, Torn,
      Journaled
  <2>6. writer'[h] = p
    BY <1>1, <2>1 DEF TypeOK
  <2>7. Seen' = Seen /\ Copy(loc[p].job)' = CwdOf(staged[loc[p].job]) /\ Original(loc[p].job)' = CwdOf(rollback[loc[p].job])
    BY <1>1, <2>2 DEF Seen, Copy, Original, CwdOf
  <2>8. RecoveringSound(p, h)'
    BY <1>1, <2>2, <2>6, <2>7 DEF RecoveringSound, Recovering, Copy, Original
  <2>9. MovingSound(p, h)'
    BY <1>1, <2>2 DEF MovingSound, Recovering, Attempting, Preparing, Replacing, Journaled
  <2> QED BY <2>4, <2>5, <2>8, <2>9, RecoveryStep
<1> QED BY <1>2, <1>3

(* The step of a recovery inside the journal's transaction. *)
LEMMA RecoveryActSettling ==
  ASSUME NEW h \in Dbs, Settling(h), OneMover', NEW p \in Procs, RecoveryAct(p)
  PROVE  Whole(h)'
<1> PICK k : k = loc[p].job
  OBVIOUS
<1> DEFINE j    == loc[p].copy
           plan == RecoveryPlan(j, row[h], Seen, Copy(k), Original(k))
<1>1. /\ TypeOK /\ Placed(p) /\ loc[p].pc = "recAct" /\ loc[p].pc \in InDb
      /\ loc[p].pc \in Recovering /\ loc[p] \in Locals /\ k \in Moves /\ j \in Journals
      /\ Consistent(h) /\ RecoveringSound(p, h) /\ MovingSound(p, h)
      /\ UNCHANGED <<row, journal, outcome>> /\ None \notin Moves
  BY SessionAssumption
     DEF Settling, Whole, IndInv, TypeOK, Placed, RecoveryAct, At, InDb, Recovering
<1>2. /\ Db(p) = h /\ ~j.dbOnly /\ j.prev # j.target /\ writer[h] = p /\ loc[p].prev = Seen
      /\ journal[k] # None => j = journal[k]
      /\ journal[k] = None => Copy(k) = None /\ Original(k) = None
      /\ Seen # None
  BY <1>1 DEF RecoveringSound, Consistent
<1>3. CASE RecoveryFails(p) /\ UNCHANGED <<path, staged, rollback>>
  BY <1>1, <1>3, RecoveryFailsSettling
<1>4. ASSUME NEW r \in plan,
             /\ path' = CASE r.file = "staged" -> staged[k]
                          [] r.file = "rollback" -> rollback[k]
                          [] OTHER -> path
             /\ staged' = IF r.file = "staged" THEN [staged EXCEPT ![k] = None] ELSE staged
             /\ rollback' = IF r.file = "rollback" THEN [rollback EXCEPT ![k] = None]
                            ELSE rollback
             /\ loc' = [loc EXCEPT ![p].pc = "recCommit", ![p].prev = r.row]
             /\ UNCHANGED writer
      PROVE  Whole(h)'
  <2>1. /\ loc'[p].todo = loc[p].todo /\ loc'[p].job = loc[p].job /\ loc'[p].pc = "recCommit"
        /\ loc'[p].prev = r.row /\ loc'[p].copy = j /\ loc'[p].op = loc[p].op
        /\ Db(p)' = Db(p) /\ \A q \in Procs \ {p} : Untouched(q)
    <3> HIDE DEF plan
    <3> QED BY <1>1, <1>4 DEF TypeOK, Locals, Db, Untouched
  <2>2. /\ r.file \in {"keep", "staged", "rollback"}
        /\ r.file = "keep" => r.row = Seen
        /\ r.file = "staged" => r.row = Copy(k) /\ Copy(k) = j.target
        /\ r.file = "rollback" => r.row = Original(k) /\ Original(k) = j.prev
        /\ Agreed(h) => r.file = "keep"
    BY <1>1, <1>2, <1>4, PlansAgree DEF Agreed
  <2>3. j.target # None /\ j.prev # None
    BY <1>1, SessionAssumption DEF Journals
  <2>4. /\ Seen' = r.row /\ Seen' # None
        /\ r.file = "keep" => Seen' = Seen
        /\ \A i \in Moves : Copy(i)' \in {Copy(i), None} /\ Original(i)' \in {Original(i), None}
        /\ \A i \in Moves \ {k} : Copy(i)' = Copy(i) /\ Original(i)' = Original(i)
        /\ r.file = "keep" => \A i \in Moves : Copy(i)' = Copy(i) /\ Original(i)' = Original(i)
    <3> HIDE DEF plan
    <3> QED BY <1>1, <1>2, <1>4, <2>2, <2>3 DEF TypeOK, Seen, Copy, Original, CwdOf
  <2>5. r.file # "keep" => Torn(h, k)
    <3> SUFFICES ASSUME r.file # "keep" PROVE Torn(h, k)
      OBVIOUS
    <3>1. k \in Journaled
      BY <1>1, <1>2, <2>2, <2>3 DEF Journaled
    <3> QED BY <1>1, <2>2, <3>1 DEF Consistent
  <2>6. Torn(h, k) => r.file = "rollback" /\ r.row = row[h]
    <3> SUFFICES ASSUME Torn(h, k) PROVE r.file = "rollback" /\ r.row = row[h]
      OBVIOUS
    <3>1. j = journal[k] /\ row[h] = j.prev /\ Seen = j.target /\ Original(k) = j.prev
      BY <1>2 DEF Torn
    <3>2. plan = {[file |-> "rollback", row |-> row[h]]}
      BY <1>1, <1>2, <3>1, PlansExist
    <3> QED BY <1>4, <3>2
  <2>7. Recovers(p, h)
    BY <1>1, <1>4, <2>1, <2>2, <2>4 DEF Recovers
  <2>8. Agreed(h)' \/ \E i \in Moves : Torn(h, i)'
    <3>1. CASE Agreed(h)
      BY <1>1, <2>2, <2>4, <3>1 DEF Agreed
    <3>2. CASE Torn(h, k)
      BY <1>1, <2>4, <2>6, <3>2 DEF Agreed
    <3>3. ASSUME NEW i \in Moves, Torn(h, i), i # k PROVE Torn(h, i)'
      BY <1>1, <3>3, TornDisagrees, <2>4, <2>5, <2>1, TornStays DEF Consistent, Torn
    <3> QED BY <1>1, <3>1, <3>2, <3>3 DEF Consistent, Journaled
  <2>9. Consistent(h)'
    BY <1>1, <2>4, <2>8, StaysConsistent
  <2>10. RecoveringSound(p, h)'
    BY <1>1, <1>2, <2>4, <1>4, <2>1 DEF RecoveringSound, Recovering, Copy, Original
  <2>11. MovingSound(p, h)'
    BY <1>1, <2>1 DEF MovingSound, Recovering, Attempting, Preparing, Replacing, Journaled
  <2> QED BY <2>7, <2>9, <2>10, <2>11, RecoveryStep
<1>5. plan = RecoveryPlan(loc[p].copy, row[Db(p)], loc[p].prev,
                          CwdOf(staged[loc[p].job]), CwdOf(rollback[loc[p].job]))
  BY <1>2 DEF Copy, Original
<1> QED
  <2> HIDE DEF plan
  <2> QED BY <1>3, <1>4, <1>5 DEF RecoveryAct

LEMMA RecoveryCommitSettling ==
  ASSUME NEW h \in Dbs, Settling(h), OneMover', NEW p \in Procs, RecoveryCommit(p)
  PROVE  Whole(h)'
<1>1. /\ TypeOK /\ Placed(p) /\ loc[p].pc = "recCommit" /\ loc[p].pc \in InDb
      /\ loc[p].pc \in Recovering /\ loc[p] \in Locals
      /\ Consistent(h) /\ RecoveringSound(p, h) /\ MovingSound(p, h)
      /\ UNCHANGED <<path, staged, rollback, journal, outcome>> /\ None \notin Moves
      /\ None \notin Procs
  BY SessionAssumption
     DEF Settling, Whole, IndInv, TypeOK, RecoveryCommit, At, InDb, Recovering, move_vars
<1>2. Db(p) = h /\ writer[h] = p /\ loc[p].prev = Seen /\ Seen # None
  BY <1>1 DEF RecoveringSound, Consistent
<1>3. CASE RecoveryFails(p) /\ UNCHANGED row
  BY <1>1, <1>3, RecoveryFailsSettling
<1>4. CASE ~(RecoveryFails(p) /\ UNCHANGED row)
  <2>1. /\ row' = [row EXCEPT ![Db(p)] = loc[p].prev] /\ ReleaseDb(p)
        /\ loc' = [loc EXCEPT ![p].pc = "recClean",
                ![p].before = IF @ = None THEN None ELSE [@ EXCEPT !.row = row', !.file = path]]
    BY <1>4 DEF RecoveryCommit
  <2>2. /\ loc'[p].todo = loc[p].todo /\ loc'[p].job = loc[p].job /\ loc'[p].pc = "recClean"
        /\ loc'[p].copy = loc[p].copy /\ loc'[p].op = loc[p].op
        /\ Db(p)' = Db(p) /\ \A q \in Procs \ {p} : Untouched(q)
    BY <1>1, <2>1 DEF TypeOK, Locals, Db, Untouched
  <2>3. row'[h] = Seen /\ Seen' = Seen
    BY <1>1, <1>2, <2>1 DEF TypeOK, Seen
  <2>4. \A q \in Procs \ {p} : writer[h] = q => writer'[h] = q
    BY <1>1, <2>1 DEF TypeOK, ReleaseDb
  <2>5. Recovers(p, h)
    BY <1>1, <2>2, <2>3, <2>4 DEF Recovers, Agreed, Copy, Original
  <2>6. Consistent(h)'
    BY <1>1, <1>2, <2>3, StaysConsistent DEF Agreed
  <2>7. RecoveringSound(p, h)' /\ MovingSound(p, h)'
    BY <1>1, <1>2, <2>2
       DEF RecoveringSound, MovingSound, Recovering, Attempting, Preparing, Replacing, Journaled,
           Copy, Original
  <2> QED BY <2>5, <2>6, <2>7, RecoveryStep
<1> QED BY <1>3, <1>4

LEMMA RecoveryCleanSettling ==
  ASSUME NEW h \in Dbs, Settling(h), OneMover', NEW p \in Procs, RecoveryClean(p)
  PROVE  Whole(h)'
<1> PICK k : k = loc[p].job
  OBVIOUS
<1>1. /\ TypeOK /\ Placed(p) /\ loc[p].pc = "recClean" /\ loc[p].pc \in InDb
      /\ loc[p].pc \in Recovering /\ loc[p] \in Locals /\ k \in Moves
      /\ Consistent(h) /\ RecoveringSound(p, h) /\ MovingSound(p, h)
      /\ UNCHANGED <<row, path, journal, outcome>> /\ None \notin Moves
  BY SessionAssumption
     DEF Settling, Whole, IndInv, TypeOK, RecoveryClean, At, InDb, Recovering, Placed
<1>2. CASE RecoveryFails(p) /\ UNCHANGED <<staged, rollback>>
  BY <1>1, <1>2, RecoveryFailsSettling
<1>3. CASE ~(RecoveryFails(p) /\ UNCHANGED <<staged, rollback>>)
  <2>1. /\ staged' = [staged EXCEPT ![k] = None] /\ rollback' = [rollback EXCEPT ![k] = None]
        /\ Goto(p, "recDone") /\ UNCHANGED writer
    BY <1>3 DEF RecoveryClean
  <2>2. /\ loc'[p].todo = loc[p].todo /\ loc'[p].job = k /\ loc'[p].pc = "recDone"
        /\ loc'[p].copy = loc[p].copy /\ loc'[p].op = loc[p].op
        /\ Db(p)' = Db(p) /\ \A q \in Procs \ {p} : Untouched(q)
    BY <1>1, <2>1 DEF Goto, TypeOK, Locals, Db, Untouched
  <2>3. /\ \A i \in Moves \ {k} : Copy(i)' = Copy(i) /\ Original(i)' = Original(i)
        /\ Copy(k)' = None /\ Original(k)' = None /\ Seen' = Seen
    BY <1>1, <2>1 DEF TypeOK, Seen, Copy, Original, CwdOf
  <2>4. Recovers(p, h)
    BY <1>1, <2>1, <2>2, <2>3 DEF Recovers
  <2>5. ASSUME NEW i \in Moves, Torn(h, i) PROVE Torn(h, i)'
    BY <1>1, <2>5, <2>2, <2>3, TornStays DEF Torn
  <2>6. Consistent(h)'
    BY <1>1, <2>3, <2>5, StaysConsistent DEF Consistent, Agreed, Journaled
  <2>7. RecoveringSound(p, h)' /\ MovingSound(p, h)'
    BY <1>1, <2>1, <2>2, <2>3
       DEF RecoveringSound, MovingSound, Recovering, Attempting, Preparing, Replacing, Journaled
  <2> QED BY <2>4, <2>6, <2>7, RecoveryStep
<1> QED BY <1>2, <1>3

LEMMA RecoveryDoneSettling ==
  ASSUME NEW h \in Dbs, Settling(h), OneMover', NEW p \in Procs, RecoveryDone(p)
  PROVE  Whole(h)'
<1> PICK k : k = loc[p].job
  OBVIOUS
<1>1. /\ TypeOK /\ Placed(p) /\ loc[p].pc = "recDone" /\ loc[p].pc \in InDb
      /\ loc[p].pc \in Recovering /\ loc[p] \in Locals /\ k \in Moves
      /\ Consistent(h) /\ RecoveringSound(p, h) /\ MovingSound(p, h)
      /\ UNCHANGED <<row, path, staged, rollback, outcome>> /\ None \notin Moves
  BY SessionAssumption
     DEF Settling, Whole, IndInv, TypeOK, RecoveryDone, At, InDb, Recovering, Placed
<1>2. CASE RecoveryFails(p) /\ UNCHANGED journal
  BY <1>1, <1>2, RecoveryFailsSettling
<1>3. CASE ~(RecoveryFails(p) /\ UNCHANGED journal)
  <2>1. /\ journal' = [journal EXCEPT ![k] = None] /\ UNCHANGED writer
        /\ loc' = [loc EXCEPT ![p] =
             [@ EXCEPT !.job = None, !.copy = None, !.prev = None, !.pc = "recover"]]
    BY <1>3 DEF RecoveryDone
  <2>2. /\ loc'[p].todo = loc[p].todo /\ loc'[p].job = None /\ loc'[p].pc = "recover"
        /\ loc'[p].op = loc[p].op
        /\ Db(p)' = Db(p) /\ \A q \in Procs \ {p} : Untouched(q)
    BY <1>1, <2>1 DEF TypeOK, Locals, Db, Untouched
  <2>3. /\ \A i \in Moves : Copy(i)' = Copy(i) /\ Original(i)' = Original(i)
        /\ \A i \in Moves \ {k} : journal'[i] = journal[i]
        /\ journal'[k] = None /\ Copy(k) = None /\ Original(k) = None /\ Seen' = Seen
    BY <1>1, <2>1 DEF TypeOK, Seen, Copy, Original, RecoveringSound
  <2>4. Recovers(p, h)
    BY <1>1, <2>1, <2>2, <2>3 DEF Recovers
  <2>5. ASSUME NEW i \in Moves, Torn(h, i) PROVE Torn(h, i)'
    BY <1>1, <2>5, <2>2, <2>3, TornStays DEF Torn
  <2>6. Consistent(h)'
    BY <1>1, <2>3, <2>5, StaysConsistent DEF Consistent, Agreed, Journaled
  <2>7. RecoveringSound(p, h)' /\ MovingSound(p, h)'
    BY <1>1, <2>1, <2>2, <2>3
       DEF RecoveringSound, MovingSound, Recovering, Attempting, Preparing, Replacing, Journaled
  <2> QED BY <2>4, <2>6, <2>7, RecoveryStep
<1> QED BY <1>2, <1>3

LEMMA CrashSettling ==
  ASSUME NEW h \in Dbs, Settling(h), OneMover', NEW p \in Procs, Crash(p)
  PROVE  Whole(h)'
<1>1. /\ TypeOK /\ ReleaseDb(p) /\ loc' = [loc EXCEPT ![p] = Idle]
      /\ UNCHANGED <<row, path, staged, rollback, journal, outcome>>
  BY DEF Settling, IndInv, Crash, move_vars
<1>2. loc'[p] = Idle /\ \A q \in Procs \ {p} : Untouched(q)
  BY <1>1 DEF TypeOK, Untouched
<1>3. loc'[p].pc = "idle" /\ loc'[p].job = None
  BY <1>2 DEF Idle
<1> QED BY <1>1, <1>2, <1>3, Stops

LEMMA Starts ==
  ASSUME NEW p \in Procs, StartList(p) \/ \E cwd \in Cwds : StartMove(p, cwd)
  PROVE  loc'[p].pc = "scan" /\ loc'[p].job = None
<1>1. PICK l : Start(p, l) /\ l.pc = "scan" /\ l.job = None /\ DOMAIN l = DOMAIN Idle
  <2>1. CASE StartList(p)
    <3> DEFINE l == [Idle EXCEPT !.pc = "scan", !.op = "list", !.at = 1]
    <3>1. Start(p, l) /\ l.pc = "scan" /\ l.job = None /\ DOMAIN l = DOMAIN Idle
      BY <2>1 DEF StartList, Idle
    <3> HIDE DEF l
    <3> QED BY <3>1
  <2>2. ASSUME NEW cwd \in Cwds, StartMove(p, cwd)
        PROVE  \E l : Start(p, l) /\ l.pc = "scan" /\ l.job = None /\ DOMAIN l = DOMAIN Idle
    <3> DEFINE l == [Idle EXCEPT !.pc = "scan", !.op = "move", !.at = 1, !.target = cwd,
                                 !.before = Picture]
    <3>1. Start(p, l)
      BY <2>2 DEF StartMove
    <3>2. l.pc = "scan" /\ l.job = None /\ DOMAIN l = DOMAIN Idle
      BY DEF Idle
    <3> HIDE DEF l
    <3> QED BY <3>1, <3>2
  <2> QED BY <2>1, <2>2
<1>2. loc'[p] = [l EXCEPT !.alone = \A r \in Procs \ {p} : loc[r] = Idle]
  BY <1>1 DEF Start
<1> QED BY <1>1, <1>2 DEF Idle

LEMMA StartSettling ==
  ASSUME NEW h \in Dbs, Settling(h), OneMover', NEW p \in Procs,
         StartList(p) \/ \E cwd \in Cwds : StartMove(p, cwd)
  PROVE  Whole(h)'
<1>1. /\ UNCHANGED <<row, writer, path, staged, rollback, journal, outcome>>
      /\ \A q \in Procs \ {p} : Untouched(q)
  BY DEF StartList, StartMove, Start, Untouched, db_vars, file_vars, move_vars
<1>2. loc'[p].pc = "scan" /\ loc'[p].job = None
  BY Starts
<1> QED BY <1>1, <1>2, Stops

(* Codex changes no workspace. *)
LEMMA Lengthened ==
  ASSUME IndInv, budget.events > 0, NEW f \in File, Short(f)
  PROVE  LET g == [f EXCEPT !.len = @ + 1] IN g \in File /\ g # None /\ g.cwd = f.cwd
<1>1. f.len + budget.events <= MaxEvents /\ f.len \in Nat /\ budget.events \in Nat /\ f # None
  BY SessionAssumption DEF IndInv, Short, TypeOK, File
<1>2. f.len + 1 \in 0 .. MaxEvents
  BY <1>1, SessionAssumption
<1>3. [f EXCEPT !.len = @ + 1] \in File
  BY <1>2 DEF File
<1> QED BY <1>3, SessionAssumption DEF File

LEMMA AppendSettling ==
  ASSUME NEW h \in Dbs, Settling(h), CodexAppends
  PROVE  Whole(h)'
<1>1. /\ UNCHANGED <<row, writer, staged, journal, outcome, loc>>
      /\ path # None /\ path \in File /\ TypeOK /\ Fits /\ IndInv /\ budget.events > 0
      /\ path' = [path EXCEPT !.len = @ + 1]
      /\ rollback' = [k \in Moves |-> IF rollback[k] # None /\ rollback[k].ino = path.ino
                                      THEN [rollback[k] EXCEPT !.len = @ + 1] ELSE rollback[k]]
  BY DEF Settling, IndInv, TypeOK, CodexAppends, db_vars
<1>2. Seen' = Seen
  BY <1>1, Lengthened DEF Fits, Seen, CwdOf
<1>3. ASSUME NEW k \in Moves PROVE Original(k)' = Original(k) /\ Copy(k)' = Copy(k)
  <2>1. CASE rollback[k] # None /\ rollback[k].ino = path.ino
    BY <1>1, <2>1, Lengthened DEF TypeOK, Fits, Original, Copy, CwdOf
  <2>2. CASE ~(rollback[k] # None /\ rollback[k].ino = path.ino)
    BY <1>1, <2>2 DEF Original, Copy, CwdOf
  <2> QED BY <2>1, <2>2
<1>4. \A k \in Moves : Torn(h, k)' <=> Torn(h, k)
  BY <1>1, <1>2, <1>3 DEF Torn
<1>5. Consistent(h)'
  BY <1>1, <1>2, <1>4 DEF Settling, Whole, Consistent, Agreed, Journaled
<1>6. ASSUME NEW q \in Procs PROVE RecoveringSound(q, h)' /\ MovingSound(q, h)'
  <2> PICK k, j : k = loc[q].move /\ j = loc[q].job
    OBVIOUS
  <2>1. /\ RecoveringSound(q, h) /\ MovingSound(q, h) /\ Db(q)' = Db(q) /\ (Agreed(h)' <=> Agreed(h))
        /\ JournalOf(q)' = JournalOf(q) /\ Journaled' = Journaled
        /\ loc[q].pc \in Attempting => k \in Moves
        /\ loc[q].pc \in Recovering => j \in Moves
    BY <1>1, <1>2 DEF Settling, Whole, IndInv, Placed, Db, Agreed, JournalOf, Journaled
  <2>2. RecoveringSound(q, h)'
    BY <1>1, <1>2, <1>3, <2>1 DEF RecoveringSound
  <2>3. loc'[q] = loc[q] /\ loc[q].move = k /\ row' = row /\ journal' = journal /\ writer' = writer
    BY <1>1
  <2>4. CASE loc[q].pc \in Attempting
    BY <1>3, <1>4, <2>1, <2>4, <2>2, <2>3 DEF MovingSound
  <2>5. CASE loc[q].pc \notin Attempting
    BY <2>1, <2>2, <2>3, <2>5 DEF MovingSound, Attempting, Preparing, Replacing
  <2> QED BY <2>4, <2>5
<1> QED BY <1>5, <1>6 DEF Whole

----
(* The steps of a move. *)
LEMMA MovesOn ==
  ASSUME NEW h \in Dbs, Settling(h), NEW p \in Procs, loc[p].pc \in Attempting,
         NEW place \in PCs, Goto(p, place)
  PROVE  /\ loc'[p].pc = place /\ loc'[p].op = loc[p].op /\ loc'[p].move = loc[p].move
         /\ loc'[p].mode = loc[p].mode /\ loc'[p].target = loc[p].target
         /\ loc'[p].prev = loc[p].prev /\ loc'[p].job = None /\ Db(p)' = Db(p)
         /\ JournalOf(p)' = JournalOf(p)
         /\ \A q \in Procs \ {p} : Untouched(q)
<1>1. loc[p] \in Locals /\ TypeOK /\ loc[p].job = None
  BY DEF Settling, IndInv, TypeOK, Placed, Attempting, Preparing, Replacing, Recovering
<1>2. loc'[p] = [loc[p] EXCEPT !.pc = place] /\ \A q \in Procs \ {p} : Untouched(q)
  BY <1>1, Goes
<1>3. /\ loc'[p].pc = place /\ loc'[p].op = loc[p].op /\ loc'[p].move = loc[p].move
      /\ loc'[p].mode = loc[p].mode /\ loc'[p].target = loc[p].target
      /\ loc'[p].prev = loc[p].prev /\ loc'[p].job = loc[p].job /\ loc'[p].at = loc[p].at
  BY <1>1, <1>2 DEF Locals
<1> QED BY <1>1, <1>2, <1>3 DEF JournalOf, Db

(* What is known of an attempt. *)
LEMMA AttemptKnown ==
  ASSUME NEW h \in Dbs, Settling(h), NEW p \in Procs, loc[p].pc \in Attempting
  PROVE  /\ TypeOK /\ loc[p].op = "move" /\ loc[p].pc \in InDb /\ loc[p].job = None
         /\ loc[p].move \in Moves /\ loc[p].prev \in Cwds /\ loc[p].target \in Cwds
         /\ Owned(p) /\ MovingSound(p, h) /\ Consistent(h) /\ Db(p) = h
         /\ loc[p].mode = (IF loc[p].target = loc[p].prev THEN "current" ELSE "staged")
         /\ None \notin Moves /\ None \notin Cwds /\ None \notin Procs /\ None \notin File
         /\ None \notin Journals
<1>1. /\ Placed(p) /\ Owned(p) /\ MovingSound(p, h) /\ Consistent(h) /\ TypeOK
  BY DEF Settling, Whole, IndInv, KeepInv
<1>2. loc[p].pc \in InDb /\ loc[p].pc \notin Recovering
  BY DEF InDb, Recovering, Attempting, Preparing, Replacing
<1>3. Db(p) = h /\ loc[p].mode = (IF loc[p].target = loc[p].prev THEN "current" ELSE "staged")
  BY <1>1 DEF MovingSound
<1> QED BY <1>1, <1>2, <1>3, SessionAssumption DEF Placed

(* A move that goes on, nothing but its own place having changed. *)
LEMMA Advances ==
  ASSUME NEW h \in Dbs, Settling(h), NEW p \in Procs, loc[p].pc \in Attempting,
         NEW place \in Attempting, Goto(p, place),
         UNCHANGED <<row, path, staged, rollback, journal, outcome>>,
         \A q \in Procs \ {p} : writer[h] = q => writer'[h] = q,
         MovingSound(p, h)'
  PROVE  Whole(h)'
<1>1. place \in PCs
  BY DEF Attempting, Preparing, Replacing, PCs
<1>2. /\ loc'[p].pc = place /\ loc'[p].job = None /\ \A q \in Procs \ {p} : Untouched(q)
  BY <1>1, MovesOn
<1>3. Consistent(h) /\ None \notin Moves
  BY AttemptKnown
<1>4. Seen' = Seen /\ \A k \in Moves : Copy(k)' = Copy(k) /\ Original(k)' = Original(k)
  BY DEF Seen, Copy, Original, CwdOf
<1>5. Consistent(h)'
  BY <1>2, <1>3, <1>4, TornStays, StaysConsistent DEF Consistent, Agreed, Torn, Journaled
<1>6. RecoveringSound(p, h)'
  BY <1>2 DEF RecoveringSound, Recovering, Attempting, Preparing, Replacing
<1> QED BY <1>2, <1>4, <1>5, <1>6, MoveStep

LEMMA StageSettling ==
  ASSUME NEW h \in Dbs, Settling(h), OneMover', NEW p \in Procs, Stage(p)
  PROVE  Whole(h)'
<1>1. /\ TypeOK /\ Placed(p) /\ loc[p].pc = "stage" /\ loc[p].pc \in InDb /\ loc[p] \in Locals
      /\ loc[p].op = "move" /\ loc[p].target \in Cwds /\ MovingSound(p, h) /\ Consistent(h)
      /\ loc[p].job = None
      /\ UNCHANGED <<row, path, rollback, journal>> /\ None \notin Moves /\ None \notin File
      /\ None \notin Procs
  BY SessionAssumption
     DEF Settling, Whole, IndInv, TypeOK, Placed, Stage, At, InDb, Recovering
<1>2. CASE MoveFails(p) /\ UNCHANGED staged
  BY <1>1, <1>2, MoveFailsSettling
<1>3. CASE ~(MoveFails(p) /\ UNCHANGED staged)
  <2>1. Db(p) = h
    BY <1>1, <1>3, AtDb DEF Stage, Settling, Holders
  <2>2. Journaled = {} /\ Agreed(h) /\ Seen # None
    BY <1>1, <2>1 DEF MovingSound, Consistent
  <2>3. path # None /\ path \in File /\ path.cwd = row[h]
    BY <1>1, <2>2 DEF TypeOK, Agreed, Seen, CwdOf
  <2>4. PICK k \in NextMove :
          /\ outcome' = [outcome EXCEPT ![k] = "open"]
          /\ staged' = [staged EXCEPT ![k] = Rewritten(loc[p].target)]
          /\ UNCHANGED writer
          /\ loc' = [loc EXCEPT ![p] =
                 [@ EXCEPT !.move = k, !.prev = row[Db(p)],
                    !.sig  = IF path = None THEN None ELSE SignatureOf(path),
                    !.mode = ModeOf(loc[p].target),
                    !.pc = IF path = None THEN "begin" ELSE "link"]]
    BY <1>3, <2>3 DEF Stage
  <2>5. k \in Moves /\ outcome[k] = "unused" /\ Fresh(k)
    BY DEF NextMove, Settling, KeepInv, UnusedIsFresh
  <2>6. /\ loc'[p].pc = "link" /\ loc'[p].move = k /\ loc'[p].prev = row[h]
        /\ loc'[p].mode = ModeOf(loc[p].target) /\ loc'[p].target = loc[p].target
        /\ loc'[p].job = None /\ Db(p)' = h /\ \A q \in Procs \ {p} : Untouched(q)
    BY <1>1, <2>1, <2>3, <2>4 DEF TypeOK, Locals, Db, Untouched
  <2>7. loc'[p].mode = IF loc'[p].target = loc'[p].prev THEN "current" ELSE "staged"
    BY <2>3, <2>6 DEF ModeOf
  <2>8. Copy(k)' = loc[p].target
    BY <1>1, <2>3, FreshIsFresh, <2>4, <2>5 DEF Rewritten, File, TypeOK, Copy, CwdOf
  <2>9. /\ Seen' = Seen /\ \A i \in Moves : Original(i)' = Original(i)
        /\ \A i \in Moves \ {k} : Copy(i)' = Copy(i)
    BY <1>1, <2>4 DEF TypeOK, Seen, Copy, Original, CwdOf
  <2>10. Consistent(h)'
    BY <1>1, <2>2, <2>9, StaysConsistent DEF Agreed
  <2>11. RecoveringSound(p, h)' /\ MovingSound(p, h)'
    BY <1>1, <2>2, <2>6, <2>7, <2>8, <2>9
       DEF RecoveringSound, MovingSound, Recovering, Attempting, Preparing, Replacing, Journaled
  <2> QED BY <1>1, <2>4, <2>5, <2>6, <2>9, <2>10, <2>11, MoveStep
<1> QED BY <1>2, <1>3

LEMMA LinkSettling ==
  ASSUME NEW h \in Dbs, Settling(h), OneMover', NEW p \in Procs, Link(p)
  PROVE  Whole(h)'
<1> PICK k : k = loc[p].move
  OBVIOUS
<1>1. /\ loc[p].pc = "link" /\ loc[p].pc \in Attempting /\ UNCHANGED <<row, path, journal>>
  BY DEF Link, At, Attempting, Preparing
<1>2. CASE ~Unchanged(p)
  BY <1>1, <1>2, AttemptKnown, MoveFailsSettling DEF Link
<1>3. CASE Unchanged(p)
  <2>1. /\ Goto(p, "begin") /\ UNCHANGED <<staged, outcome, writer>> /\ "begin" \in PCs
        /\ \/ loc[p].mode = "current" /\ UNCHANGED rollback
           \/ /\ loc[p].mode = "staged"
              /\ \E ino \in {path.ino, FreshInode} :
                   rollback' = [rollback EXCEPT ![k] = [path EXCEPT !.ino = ino]]
    BY <1>3 DEF Link, PCs
  <2>2. /\ loc'[p].pc = "begin" /\ loc'[p].move = k
        /\ loc'[p].mode = loc[p].mode /\ loc'[p].target = loc[p].target
        /\ loc'[p].prev = loc[p].prev /\ loc'[p].job = None /\ Db(p)' = Db(p)
        /\ \A q \in Procs \ {p} : Untouched(q)
    BY <1>1, <2>1, MovesOn
  <2>3. /\ TypeOK /\ k \in Moves /\ Fresh(k) /\ MovingSound(p, h) /\ Consistent(h) /\ Db(p) = h
        /\ Journaled = {} /\ loc[p].prev = row[h] /\ None \notin File
        /\ loc[p].mode = (IF loc[p].target = loc[p].prev THEN "current" ELSE "staged")
        /\ (loc[p].mode = "staged" => Copy(k) = loc[p].target)
    BY <1>1, AttemptKnown DEF MovingSound, Owned, Preparing
  <2>4. Agreed(h) /\ Seen # None
    BY <2>3 DEF Consistent
  <2>5. loc[p].mode = "staged" => Original(k)' = loc[p].prev
    <3> SUFFICES ASSUME loc[p].mode = "staged" PROVE Original(k)' = loc[p].prev
      OBVIOUS
    <3>1. path \in File /\ path.cwd = loc[p].prev
      BY <2>3, <2>4 DEF TypeOK, Agreed, Seen, CwdOf
    <3>2. PICK ino \in {path.ino, FreshInode} :
            rollback' = [rollback EXCEPT ![k] = [path EXCEPT !.ino = ino]]
      BY <2>1
    <3>3. ino \in Inodes
      BY <2>3, <3>1, FreshIsFresh DEF File
    <3>4. [path EXCEPT !.ino = ino] \in File /\ [path EXCEPT !.ino = ino].cwd = path.cwd
      BY <3>1, <3>3 DEF File
    <3> QED BY <2>3, <3>1, <3>2, <3>4 DEF TypeOK, Original, CwdOf
  <2>6. /\ Seen' = Seen /\ \A i \in Moves : Copy(i)' = Copy(i)
        /\ \A i \in Moves \ {k} : Original(i)' = Original(i)
    BY <1>1, <2>1, <2>3 DEF TypeOK, Seen, Copy, Original, CwdOf
  <2>7. Consistent(h)'
    BY <1>1, <2>4, <2>6, StaysConsistent DEF Agreed
  <2>8. RecoveringSound(p, h)' /\ MovingSound(p, h)'
    BY <1>1, <2>2, <2>3, <2>5, <2>6
       DEF RecoveringSound, MovingSound, Recovering, Attempting, Preparing, Replacing, Journaled
  <2> QED BY <1>1, <2>1, <2>2, <2>3, <2>6, <2>7, <2>8, MoveStep
<1> QED BY <1>2, <1>3

LEMMA BeginSettling ==
  ASSUME NEW h \in Dbs, Settling(h), OneMover', NEW p \in Procs, Begin(p)
  PROVE  Whole(h)'
<1> PICK k : k = loc[p].move
  OBVIOUS
<1>1. /\ loc[p].pc = "begin" /\ loc[p].pc \in Attempting /\ UNCHANGED <<row, path, journal>>
  BY DEF Begin, At, Attempting, Preparing
<1>2. CASE MoveFails(p) /\ Dropped(loc[p].move)
  BY <1>1, <1>2, AttemptKnown, MoveFailsSettling
<1>3. CASE ~(MoveFails(p) /\ Dropped(loc[p].move))
  <2> DEFINE place == IF loc[p].mode = "staged"
                        \/ (loc[p].mode = "current" /\ loc[p].prev # loc[p].target)
                      THEN "journal" ELSE "commit"
  <2>1. /\ writer' = [writer EXCEPT ![Db(p)] = p] /\ Goto(p, place) /\ writer[Db(p)] = None
        /\ UNCHANGED <<staged, rollback, outcome>>
    BY <1>3 DEF Begin
  <2>2. /\ TypeOK /\ MovingSound(p, h) /\ Db(p) = h /\ k \in Moves /\ None \notin Procs
        /\ Journaled = {} /\ loc[p].prev = row[h]
        /\ loc[p].mode = (IF loc[p].target = loc[p].prev THEN "current" ELSE "staged")
        /\ (loc[p].mode = "staged" => Copy(k) = loc[p].target /\ Original(k) = loc[p].prev)
    BY <1>1, AttemptKnown DEF MovingSound, Preparing
  <2>3. place = IF loc[p].mode = "staged" THEN "journal" ELSE "commit"
    BY <2>2
  <2>4. place \in Attempting /\ place \in PCs
    BY DEF Attempting, Preparing, PCs
  <2>5. writer'[h] = p /\ \A q \in Procs \ {p} : writer[h] = q => writer'[h] = q
    BY <2>1, <2>2 DEF TypeOK
  <2> HIDE DEF place
  <2>6. /\ loc'[p].pc = place /\ loc'[p].move = k
        /\ loc'[p].mode = loc[p].mode /\ loc'[p].target = loc[p].target
        /\ loc'[p].prev = loc[p].prev /\ loc'[p].job = None /\ Db(p)' = Db(p)
    BY <1>1, <2>1, <2>4, MovesOn
  <2>7. Copy(k)' = Copy(k) /\ Original(k)' = Original(k) /\ Journaled' = Journaled
    BY <1>1, <2>1 DEF Copy, Original, CwdOf, Journaled
  <2>8. MovingSound(p, h)'
    BY <1>1, <2>2, <2>3, <2>5, <2>6, <2>7
       DEF MovingSound, Recovering, Attempting, Preparing, Replacing
  <2> QED BY <1>1, <2>1, <2>4, <2>5, <2>8, Advances
<1> QED BY <1>2, <1>3

LEMMA WriteJournalSettling ==
  ASSUME NEW h \in Dbs, Settling(h), OneMover', NEW p \in Procs, WriteJournal(p)
  PROVE  Whole(h)'
<1> PICK k : k = loc[p].move
  OBVIOUS
<1>1. /\ loc[p].pc = "journal" /\ loc[p].pc \in Attempting /\ UNCHANGED <<row, path>>
  BY DEF WriteJournal, At, Attempting, Preparing
<1>2. CASE MoveFails(p) /\ Dropped(loc[p].move) /\ UNCHANGED journal
  BY <1>1, <1>2, AttemptKnown, MoveFailsSettling
<1>3. CASE ~(MoveFails(p) /\ Dropped(loc[p].move) /\ UNCHANGED journal)
  <2>1. /\ TypeOK /\ MovingSound(p, h) /\ Db(p) = h /\ k \in Moves /\ Fresh(k) /\ Consistent(h)
        /\ Journaled = {} /\ loc[p].prev = row[h] /\ loc[p].mode = "staged"
        /\ loc[p].target # loc[p].prev /\ loc[p].prev \in Cwds /\ loc[p].target \in Cwds
        /\ Copy(k) = loc[p].target /\ Original(k) = loc[p].prev /\ None \notin Journals
    BY <1>1, AttemptKnown DEF MovingSound, Preparing, Owned
  <2>2. /\ journal' = [journal EXCEPT ![k] = JournalOf(p)] /\ Goto(p, "verify")
        /\ UNCHANGED <<staged, rollback, outcome, writer>> /\ "verify" \in PCs
    BY <1>3, <2>1 DEF WriteJournal, PCs
  <2>3. /\ loc'[p].pc = "verify" /\ loc'[p].move = k
        /\ loc'[p].mode = loc[p].mode /\ loc'[p].target = loc[p].target
        /\ loc'[p].prev = loc[p].prev /\ loc'[p].job = None /\ Db(p)' = Db(p)
        /\ JournalOf(p)' = JournalOf(p)
        /\ \A q \in Procs \ {p} : Untouched(q)
    BY <1>1, <2>2, MovesOn
  <2>4. Agreed(h) /\ Seen # None
    BY <2>1 DEF Consistent
  <2>5. /\ JournalOf(p).db = h /\ JournalOf(p).prev = loc[p].prev
        /\ JournalOf(p).target = loc[p].target /\ ~JournalOf(p).dbOnly
    BY <2>1 DEF JournalOf
  <2>6. journal'[k] = JournalOf(p) /\ \A i \in Moves \ {k} : journal'[i] = journal[i]
    BY <2>1, <2>2 DEF TypeOK
  <2>7. /\ Seen' = Seen /\ \A i \in Moves : Copy(i)' = Copy(i) /\ Original(i)' = Original(i)
    BY <1>1, <2>2 DEF Seen, Copy, Original, CwdOf
  <2>8. Journaled' \subseteq {k}
    BY <2>1, <2>6 DEF Journaled
  <2>9. Consistent(h)'
    BY <1>1, <2>4, <2>7, <2>1, <2>5, <2>6, <2>8 DEF Agreed, Consistent
  <2>10. RecoveringSound(p, h)' /\ MovingSound(p, h)'
    BY <1>1, <2>4, <2>7, <2>1, <2>3, <2>6 DEF Agreed, RecoveringSound, MovingSound, Recovering,
      Attempting, Preparing, Replacing
  <2> QED BY <1>1, <2>1, <2>2, <2>3, <2>6, <2>7, <2>9, <2>10, MoveStep
<1> QED BY <1>2, <1>3 DEF WriteJournal

LEMMA VerifySettling ==
  ASSUME NEW h \in Dbs, Settling(h), OneMover', NEW p \in Procs, Verify(p)
  PROVE  Whole(h)'
<1> PICK k : k = loc[p].move
  OBVIOUS
<1>1. /\ loc[p].pc = "verify" /\ loc[p].pc \in Attempting
      /\ UNCHANGED <<row, path, staged, rollback, journal>>
  BY DEF Verify, At, Attempting, Replacing
<1>2. CASE MoveFails(p)
  BY <1>1, <1>2, AttemptKnown, MoveFailsSettling
<1>3. CASE Goto(p, "replace") /\ UNCHANGED <<outcome, writer>>
  <2>1. "replace" \in PCs /\ "replace" \in Attempting
    BY DEF PCs, Attempting, Replacing
  <2>2. /\ loc'[p].pc = "replace" /\ loc'[p].move = k
        /\ loc'[p].mode = loc[p].mode /\ loc'[p].target = loc[p].target
        /\ loc'[p].prev = loc[p].prev /\ loc'[p].job = None /\ Db(p)' = Db(p)
        /\ JournalOf(p)' = JournalOf(p)
    BY <1>1, <1>3, <2>1, MovesOn
  <2>3. MovingSound(p, h)
    BY <1>1, AttemptKnown
  <2>4. Copy(k)' = Copy(k) /\ Original(k)' = Original(k) /\ (Agreed(h)' <=> Agreed(h))
    BY <1>1 DEF Copy, Original, CwdOf, Agreed, Seen
  <2>5. MovingSound(p, h)'
    BY <1>1, <2>2, <2>3, <2>4 DEF MovingSound, Recovering, Attempting, Preparing, Replacing
  <2> QED BY <1>1, <1>3, <2>1, <2>5, Advances
<1> QED BY <1>2, <1>3 DEF Verify

(* The rename tears the move. *)
LEMMA ReplaceSettling ==
  ASSUME NEW h \in Dbs, Settling(h), OneMover', NEW p \in Procs, Replace(p)
  PROVE  Whole(h)'
<1> PICK k : k = loc[p].move
  OBVIOUS
<1>1. /\ loc[p].pc = "replace" /\ loc[p].pc \in Attempting
      /\ UNCHANGED <<row, rollback, journal>>
  BY DEF Replace, At, Attempting, Replacing
<1>2. CASE MoveFails(p) /\ UNCHANGED <<path, staged>>
  BY <1>1, <1>2, AttemptKnown, MoveFailsSettling
<1>3. CASE ~(MoveFails(p) /\ UNCHANGED <<path, staged>>)
  <2>1. /\ path' = staged[k] /\ staged' = [staged EXCEPT ![k] = None]
        /\ Goto(p, "commit") /\ UNCHANGED <<outcome, writer>> /\ "commit" \in PCs
    BY <1>3 DEF Replace, PCs
  <2>2. /\ loc'[p].pc = "commit" /\ loc'[p].move = k
        /\ loc'[p].mode = loc[p].mode /\ loc'[p].target = loc[p].target
        /\ loc'[p].prev = loc[p].prev /\ loc'[p].job = None /\ Db(p)' = Db(p)
        /\ JournalOf(p)' = JournalOf(p)
        /\ \A q \in Procs \ {p} : Untouched(q)
    BY <1>1, <2>1, MovesOn
  <2>3. /\ TypeOK /\ MovingSound(p, h) /\ Db(p) = h /\ k \in Moves /\ Consistent(h)
        /\ loc[p].prev = row[h] /\ loc[p].mode = "staged" /\ writer[h] = p
        /\ loc[p].target # loc[p].prev /\ loc[p].prev \in Cwds /\ loc[p].target \in Cwds
        /\ Copy(k) = loc[p].target /\ Original(k) = loc[p].prev /\ None \notin Cwds
        /\ journal[k] = JournalOf(p) /\ journal[k] # None /\ outcome[k] = "open"
        /\ (\A q \in Procs : loc[q].job = k => loc[q].pc = "recTx") /\ None \notin Moves
    BY <1>1, AttemptKnown DEF MovingSound, Replacing, Owned
  <2>4. JournalOf(p).prev = loc[p].prev /\ JournalOf(p).target = loc[p].target
    BY DEF JournalOf
  <2>5. /\ Seen' = loc[p].target /\ \A i \in Moves : Original(i)' = Original(i)
        /\ Copy(k)' = None /\ \A i \in Moves \ {k} : Copy(i)' = Copy(i)
    BY <1>1, <2>1, <2>3 DEF TypeOK, Seen, Copy, Original, CwdOf
  <2>6. Torn(h, k)'
    <3>1. ASSUME NEW r \in Procs \ {p}, loc'[r].job = k PROVE loc'[r].pc = "recTx"
      BY <2>2, <2>3, <3>1, UntouchedFields
    <3> QED BY <1>1, <2>1, <2>2, <2>3, <2>4, <2>5, <3>1 DEF Torn
  <2>7. Consistent(h)'
    BY <1>1, <2>3, <2>5, <2>6, StaysConsistent
  <2>8. RecoveringSound(p, h)' /\ MovingSound(p, h)'
    BY <1>1, <2>1, <2>2, <2>3, <2>5, <2>6
       DEF RecoveringSound, MovingSound, Recovering, Attempting, Preparing, Replacing
  <2> QED BY <1>1, <2>1, <2>2, <2>3, <2>5, <2>7, <2>8, MoveStep
<1> QED BY <1>2, <1>3

(* The commit: a torn move has happened, or has to be taken back. *)
LEMMA CommitSettling ==
  ASSUME NEW h \in Dbs, Settling(h), OneMover', NEW p \in Procs, Commit(p)
  PROVE  Whole(h)'
<1> PICK k : k = loc[p].move
  OBVIOUS
<1>1. /\ loc[p].pc = "commit" /\ loc[p].pc \in Attempting /\ UNCHANGED <<path, journal>>
  BY DEF Commit, At, Attempting
<1>2. /\ TypeOK /\ MovingSound(p, h) /\ Db(p) = h /\ k \in Moves /\ Consistent(h)
      /\ loc[p].prev = row[h] /\ writer[h] = p /\ loc[p].mode \in {"current", "staged"}
      /\ (loc[p].mode = "current" <=> loc[p].target = loc[p].prev)
      /\ None \notin Moves /\ None \notin Procs /\ loc[p].target \in Cwds
  BY <1>1, AttemptKnown DEF MovingSound
<1>3. loc[p].mode = "current" => Journaled = {} /\ Agreed(h)
  BY <1>1, <1>2 DEF MovingSound, Consistent
<1>4. loc[p].mode = "staged" =>
        /\ Torn(h, k) /\ journal[k] = JournalOf(p) /\ Seen = loc[p].target
        /\ Journaled = {k} /\ Copy(k) = None
  <2> SUFFICES ASSUME loc[p].mode = "staged"
               PROVE  /\ Torn(h, k) /\ journal[k] = JournalOf(p) /\ Seen = loc[p].target
                      /\ Journaled = {k} /\ Copy(k) = None
    OBVIOUS
  <2>1. Torn(h, k) /\ journal[k] = JournalOf(p) /\ Copy(k) = None
    BY <1>1, <1>2 DEF MovingSound
  <2>2. JournalOf(p).target = loc[p].target
    BY DEF JournalOf
  <2>3. k \in Journaled /\ \A i, j \in Journaled : i = j
    BY <1>2, <2>1 DEF Torn, Consistent, Journaled
  <2> QED BY <2>1, <2>2, <2>3 DEF Torn
<1>5. CASE /\ row' = [row EXCEPT ![Db(p)] = loc[p].target] /\ ReleaseDb(p)
           /\ Goto(p, "finish") /\ UNCHANGED <<staged, rollback, outcome>>
  <2>1. "finish" \in PCs
    BY DEF PCs
  <2>2. /\ loc'[p].pc = "finish" /\ loc'[p].move = k
        /\ loc'[p].mode = loc[p].mode /\ loc'[p].target = loc[p].target
        /\ loc'[p].prev = loc[p].prev /\ loc'[p].job = None /\ Db(p)' = Db(p)
        /\ \A q \in Procs \ {p} : Untouched(q)
    BY <1>1, <1>5, <2>1, MovesOn
  <2>3. row'[h] = loc[p].target /\ \A q \in Procs \ {p} : writer[h] = q => writer'[h] = q
    BY <1>2, <1>5 DEF TypeOK, ReleaseDb
  <2>4. Seen' = Seen /\ \A i \in Moves : Copy(i)' = Copy(i) /\ Original(i)' = Original(i)
    BY <1>1, <1>5 DEF Seen, Copy, Original, CwdOf
  <2>5. Agreed(h)'
    BY <1>2, <1>3, <1>4, <2>3, <2>4 DEF Agreed
  <2>6. Consistent(h)'
    BY <1>1, <1>2, <2>4, <2>5, StaysConsistent DEF Consistent
  <2>7. Journaled' \subseteq {k}
    BY <1>1, <1>2, <1>3, <1>4 DEF Journaled
  <2>8. RecoveringSound(p, h)' /\ MovingSound(p, h)'
    BY <1>2, <1>4, <2>2, <2>4, <2>5, <2>7
       DEF RecoveringSound, MovingSound, Recovering, Attempting, Preparing, Replacing
  <2> QED BY <1>1, <2>2, <2>3, <2>4, <2>6, <2>8, MoveStep
<1>6. CASE /\ loc[p].mode = "staged" /\ ReleaseDb(p) /\ Goto(p, "recheck")
           /\ UNCHANGED <<row, staged, rollback, outcome>>
  <2>1. "recheck" \in PCs /\ "recheck" \in Attempting
    BY DEF PCs, Attempting
  <2>2. /\ loc'[p].pc = "recheck" /\ loc'[p].move = k
        /\ loc'[p].mode = loc[p].mode /\ loc'[p].target = loc[p].target
        /\ loc'[p].prev = loc[p].prev /\ loc'[p].job = None /\ Db(p)' = Db(p)
        /\ JournalOf(p)' = JournalOf(p)
        /\ \A q \in Procs \ {p} : Untouched(q)
    BY <1>1, <1>6, <2>1, MovesOn
  <2>3. \A q \in Procs \ {p} : writer[h] = q => writer'[h] = q
    BY <1>2, <1>6 DEF TypeOK, ReleaseDb
  <2>4. Seen' = Seen /\ \A i \in Moves : Copy(i)' = Copy(i) /\ Original(i)' = Original(i)
    BY <1>1, <1>6 DEF Seen, Copy, Original, CwdOf
  <2>5. Torn(h, k)'
    BY <1>4, <1>6, <1>1, <1>2, <2>2, <2>4, TornStays DEF Torn
  <2>6. MovingSound(p, h)'
    BY <1>1, <1>2, <1>4, <1>6, <2>2, <2>5
       DEF MovingSound, Recovering, Attempting, Preparing, Replacing
  <2> QED BY <1>1, <1>6, <2>1, <2>3, <2>6, Advances
<1>7. CASE MoveFails(p) /\ Dropped(loc[p].move) /\ UNCHANGED row
  BY <1>1, <1>7, AttemptKnown, MoveFailsSettling
<1> QED BY <1>5, <1>6, <1>7 DEF Commit

LEMMA RecheckSettling ==
  ASSUME NEW h \in Dbs, Settling(h), OneMover', NEW p \in Procs, Recheck(p)
  PROVE  Whole(h)'
<1> PICK k : k = loc[p].move
  OBVIOUS
<1>1. /\ loc[p].pc = "recheck" /\ loc[p].pc \in Attempting
      /\ UNCHANGED <<row, path, staged, rollback, journal>>
  BY DEF Recheck, At, Attempting
<1>2. CASE MoveFails(p)
  BY <1>1, <1>2, AttemptKnown, MoveFailsSettling
<1>3. CASE Goto(p, "restore") /\ UNCHANGED <<outcome, writer>>
  <2>1. "restore" \in PCs /\ "restore" \in Attempting
    BY DEF PCs, Attempting
  <2>2. /\ loc'[p].pc = "restore" /\ loc'[p].move = k
        /\ loc'[p].mode = loc[p].mode /\ loc'[p].target = loc[p].target
        /\ loc'[p].prev = loc[p].prev /\ loc'[p].job = None /\ Db(p)' = Db(p)
        /\ JournalOf(p)' = JournalOf(p)
        /\ \A q \in Procs \ {p} : Untouched(q)
    BY <1>1, <1>3, <2>1, MovesOn
  <2>3. /\ MovingSound(p, h) /\ Db(p) = h /\ k \in Moves /\ None \notin Moves
        /\ loc[p].prev = row[h] /\ loc[p].mode = "staged"
        /\ journal[k] = JournalOf(p) /\ Torn(h, k)
    BY <1>1, AttemptKnown DEF MovingSound
  <2>4. Seen' = Seen /\ \A i \in Moves : Copy(i)' = Copy(i) /\ Original(i)' = Original(i)
    BY <1>1, <1>3 DEF Seen, Copy, Original, CwdOf
  <2>5. Torn(h, k)'
    BY <1>3, <2>3, <1>1, <2>2, <2>4, TornStays DEF Torn
  <2>6. MovingSound(p, h)'
    BY <1>1, <1>3, <2>2, <2>3, <2>5
       DEF MovingSound, Recovering, Attempting, Preparing, Replacing
  <2> QED BY <1>1, <1>3, <2>1, <2>6, Advances
<1> QED BY <1>2, <1>3 DEF Recheck

(* The original goes back over the rollout: agreement, for nobody else is  *)
(* at work.                                                                *)
LEMMA PutBackSettling ==
  ASSUME NEW h \in Dbs, Settling(h), OneMover', NEW p \in Procs, PutBack(p)
  PROVE  Whole(h)'
<1> PICK k : k = loc[p].move
  OBVIOUS
<1>1. /\ loc[p].pc = "restore" /\ loc[p].pc \in Attempting /\ UNCHANGED <<row, staged, journal>>
  BY DEF PutBack, At, Attempting
<1>2. CASE MoveFails(p) /\ UNCHANGED <<path, rollback>>
  BY <1>1, <1>2, AttemptKnown, MoveFailsSettling
<1>3. CASE /\ rollback[k] # None /\ path' = rollback[k]
           /\ rollback' = [rollback EXCEPT ![k] = None]
           /\ Goto(p, "unjournal") /\ UNCHANGED <<outcome, writer>>
  <2>1. "unjournal" \in PCs
    BY DEF PCs
  <2>2. /\ loc'[p].pc = "unjournal" /\ loc'[p].move = k /\ loc'[p].job = None
        /\ loc'[p].mode = loc[p].mode /\ loc'[p].target = loc[p].target
        /\ loc'[p].prev = loc[p].prev /\ Db(p)' = Db(p)
        /\ \A q \in Procs \ {p} : Untouched(q)
    BY <1>1, <1>3, <2>1, MovesOn
  <2>3. /\ TypeOK /\ MovingSound(p, h) /\ Db(p) = h /\ k \in Moves /\ None \notin Moves
        /\ loc[p].prev = row[h] /\ loc[p].prev \in Cwds /\ None \notin Cwds
        /\ journal[k] = JournalOf(p) /\ Torn(h, k) /\ Consistent(h)
        /\ loc[p].mode = (IF loc[p].target = loc[p].prev THEN "current" ELSE "staged")
    BY <1>1, AttemptKnown DEF MovingSound
  <2>4. Seen' = row[h] /\ Seen' # None
    BY <1>3, <2>3 DEF Torn, JournalOf, Seen, Original, CwdOf
  <2>5. Agreed(h)' /\ Journaled' \subseteq {k}
    BY <1>1, <2>3, <2>4 DEF Agreed, Consistent, Journaled, Torn
  <2>6. Consistent(h)'
    BY <1>1, <2>4, <2>5, StaysConsistent
  <2>7. RecoveringSound(p, h)' /\ MovingSound(p, h)'
    BY <2>2, <2>3, <2>5
       DEF RecoveringSound, MovingSound, Recovering, Attempting, Preparing, Replacing
  <2> QED BY <1>1, <2>2, <2>6, <2>7, AloneStep
<1> QED BY <1>2, <1>3 DEF PutBack

LEMMA UnjournalSettling ==
  ASSUME NEW h \in Dbs, Settling(h), OneMover', NEW p \in Procs, Unjournal(p)
  PROVE  Whole(h)'
<1> PICK k : k = loc[p].move
  OBVIOUS
<1>1. /\ loc[p].pc = "unjournal" /\ loc[p].pc \in Attempting /\ UNCHANGED <<row, path, rollback>>
      /\ MoveFails(p)
  BY DEF Unjournal, At, Attempting
<1>2. CASE UNCHANGED <<journal, staged>>
  BY <1>1, <1>2, AttemptKnown, MoveFailsSettling
<1>3. CASE journal' = [journal EXCEPT ![k] = None]
  <2>1. TypeOK /\ k \in Moves /\ Consistent(h) /\ Agreed(h) /\ loc[p].pc \in InDb /\ IndInv
    BY <1>1, AttemptKnown DEF MovingSound, Settling
  <2>2. \A i \in Moves : journal'[i] \in {journal[i], None}
    BY <1>3, <2>1 DEF TypeOK
  <2>3. Seen' # None /\ Agreed(h)'
    BY <1>1, <2>1 DEF Agreed, Seen, Consistent
  <2>4. Consistent(h)'
    BY <2>2, <2>3, StaysConsistent
  <2>5. loc'[p].pc \in {"idle", "scan"} /\ \A q \in Procs \ {p} : Untouched(q)
    BY <1>1, <2>1, MoveFailsInd
  <2>6. RecoveringSound(p, h)' /\ MovingSound(p, h)'
    BY <2>5, PrimedRest
  <2> QED BY <1>1, <2>4, <2>5, <2>6, AloneStep
<1> QED BY <1>2, <1>3 DEF Unjournal

(* A move that has happened is cleaned up. *)
LEMMA FinishSettling ==
  ASSUME NEW h \in Dbs, Settling(h), OneMover', NEW p \in Procs, Finish(p)
  PROVE  Whole(h)'
<1> PICK k : k = loc[p].move
  OBVIOUS
<1>1. /\ loc[p].pc = "finish" /\ loc[p].pc \in Attempting
      /\ UNCHANGED <<row, writer, path, journal>>
  BY DEF Finish, At, Attempting
<1>2. /\ TypeOK /\ MovingSound(p, h) /\ Db(p) = h /\ k \in Moves /\ Consistent(h) /\ IndInv
      /\ loc[p].mode = (IF loc[p].target = loc[p].prev THEN "current" ELSE "staged")
      /\ Agreed(h) /\ Journaled \subseteq {k} /\ (loc[p].mode = "staged" => Copy(k) = None)
  BY <1>1, AttemptKnown DEF MovingSound, Settling
<1>3. Seen' # None /\ Agreed(h)' /\ Seen' = Seen /\ Journaled' \subseteq {k}
  BY <1>1, <1>2 DEF Agreed, Seen, Consistent, Journaled
<1>4. Consistent(h)'
  BY <1>1, <1>3, StaysConsistent
<1>5. ASSUME NEW i \in Moves
      PROVE  Copy(i)' \in {Copy(i), None} /\ Original(i)' \in {Original(i), None}
  BY <1>2 DEF Finish, TypeOK, Copy, Original, CwdOf
<1>6. CASE Moved(p)
  BY <1>2, <1>6, MovedInd, PrimedRest, <1>1, <1>3, <1>4, <1>5, MoveStep DEF Idle
<1>7. CASE /\ staged' = IF loc[p].mode = "current" THEN [staged EXCEPT ![k] = None] ELSE staged
           /\ rollback' = [rollback EXCEPT ![k] = None] /\ Goto(p, "clear")
  <2>1. "clear" \in PCs
    BY DEF PCs
  <2>2. /\ loc'[p].pc = "clear" /\ loc'[p].move = k /\ loc'[p].job = None
        /\ loc'[p].mode = loc[p].mode /\ loc'[p].target = loc[p].target
        /\ loc'[p].prev = loc[p].prev /\ Db(p)' = Db(p)
        /\ \A q \in Procs \ {p} : Untouched(q)
    BY <1>1, <1>7, <2>1, MovesOn
  <2>3. Copy(k)' = None /\ Original(k)' = None
    BY <1>2, <1>7 DEF TypeOK, Copy, Original, CwdOf
  <2>4. RecoveringSound(p, h)' /\ MovingSound(p, h)'
    BY <1>2, <1>3, <2>2, <2>3
       DEF RecoveringSound, MovingSound, Recovering, Attempting, Preparing, Replacing
  <2> QED BY <1>1, <1>3, <1>4, <1>5, <2>2, <2>4, MoveStep
<1> QED BY <1>6, <1>7 DEF Finish

LEMMA ClearJournalSettling ==
  ASSUME NEW h \in Dbs, Settling(h), OneMover', NEW p \in Procs, ClearJournal(p)
  PROVE  Whole(h)'
<1> PICK k : k = loc[p].move
  OBVIOUS
<1>1. /\ loc[p].pc = "clear" /\ loc[p].pc \in Attempting
      /\ UNCHANGED <<row, writer, path, staged, rollback>> /\ Moved(p)
      /\ UNCHANGED journal \/ journal' = [journal EXCEPT ![k] = None]
  BY DEF ClearJournal, At, Attempting, db_vars, file_vars
<1>2. /\ TypeOK /\ k \in Moves /\ Consistent(h) /\ IndInv /\ Agreed(h)
      /\ Copy(k) = None /\ Original(k) = None
  BY <1>1, AttemptKnown DEF MovingSound, Settling
<1>3. Seen' # None /\ Agreed(h)' /\ Seen' = Seen
  BY <1>1, <1>2 DEF Agreed, Seen, Consistent
<1>4. \A i \in Moves : /\ Copy(i)' = Copy(i) /\ Original(i)' = Original(i)
                       /\ journal'[i] = journal[i] \/ (i = k /\ journal'[i] = None)
  <2>1. \A i \in Moves : Copy(i)' = Copy(i) /\ Original(i)' = Original(i)
    BY <1>1 DEF Copy, Original, CwdOf
  <2>2. ASSUME NEW i \in Moves PROVE journal'[i] = journal[i] \/ (i = k /\ journal'[i] = None)
    <3>1. CASE journal' = journal
      BY <3>1
    <3>2. CASE journal' = [journal EXCEPT ![k] = None]
      BY <1>2, <3>2 DEF TypeOK
    <3> QED BY <1>1, <3>1, <3>2
  <2> QED BY <2>1, <2>2
<1>5. Consistent(h)'
  BY <1>3, <1>4, StaysConsistent
<1>6. loc'[p].pc = "idle" /\ \A q \in Procs \ {p} : Untouched(q)
  BY <1>1, <1>2, MovedInd DEF Idle
<1>7. RecoveringSound(p, h)' /\ MovingSound(p, h)'
  BY <1>6, PrimedRest
<1> QED BY <1>1, <1>2, <1>3, <1>4, <1>5, <1>6, <1>7, MoveStep

----
(* As long as no delete was tried, none runs and no row goes. *)

(* Deletes asked for are not given back. *)
LEMMA DeletesStay ==
  ASSUME IndInv, [Next]_vars, Quiet'
  PROVE  Quiet
<1>1. TypeOK
  BY DEF IndInv
<1>2. ASSUME UNCHANGED budget \/ Fault PROVE Quiet
  BY <1>1, <1>2 DEF TypeOK, Fault, Quiet
<1>3. CASE UNCHANGED vars
  BY <1>2, <1>3 DEF vars
<1>4. CASE CodexAppends
  BY <1>1, <1>4 DEF CodexAppends, TypeOK, Quiet
<1>5. ASSUME NEW p \in Procs, StartList(p) PROVE Quiet
  BY <1>2, <1>5 DEF StartList
<1>6. ASSUME NEW p \in Procs, NEW cwd \in Cwds, StartMove(p, cwd) PROVE Quiet
  BY <1>1, <1>6 DEF StartMove, TypeOK, Quiet
<1>7. ASSUME NEW p \in Procs, StartDelete(p) \/ StartUndo(p) \/ Crash(p) PROVE Quiet
  <2>1. CASE StartDelete(p)
    BY <1>1, <2>1, SessionAssumption DEF StartDelete, TypeOK, Quiet
  <2>2. CASE StartUndo(p) \/ Crash(p)
    BY <1>1, <2>2 DEF StartUndo, Crash, TypeOK, Quiet
  <2> QED BY <1>7, <2>1, <2>2
<1>8. ASSUME NEW p \in Procs, Recover(p) PROVE Quiet
  BY <1>8, <1>2 DEF Recover, Scan, NextJournal, AllRecovered, RecoveryTimeout, RecoveryBegin,
    RecoveryAct, RecoveryCommit, RecoveryClean, RecoveryDone
<1>9. ASSUME NEW p \in Procs, Move(p) PROVE Quiet
  BY <1>9, <1>2 DEF Move, Stage, Link, Begin, WriteJournal, Verify, Replace, Commit, Recheck, PutBack,
    Unjournal, Finish, ClearJournal
<1>10. ASSUME NEW p \in Procs, Delete(p) \/ Undo(p) PROVE Quiet
  BY <1>10, <1>2 DEF Delete, BackUp, VerifyBackup, DeleteRows, DeleteFile, DeleteIndex, Undo, CheckUndo,
    BeginUndo, CommitUndo, RestoreFile, RestoreIndex
<1> QED BY <1>3, <1>4, <1>5, <1>6, <1>7, <1>8, <1>9, <1>10 DEF Next

LEMMA SteadyIsCalm ==
  ASSUME IndInv, Calm, Quiet, NEW p \in Procs, Steady(p)
  PROVE  Calm' /\ Holders \subseteq Holders'
<1>1. Holders \subseteq Holders'
  BY DEF Steady, Holders
<1>2. ASSUME NEW q \in Procs
      PROVE  /\ loc'[q].pc \notin OutsidePCs
             /\ loc'[q].pc = "recAct" => row'[Db(q)'] # None
             /\ loc'[q].pc = "recCommit" => loc'[q].prev # None
  <2>1. CASE q = p
    BY <2>1 DEF Steady
  <2>2. CASE q # p
    BY <2>2, UntouchedFields, UntouchedMore, AtDb DEF Steady, IndInv, InDb, Recovering, Calm
  <2> QED BY <2>1, <2>2
<1> QED BY <1>1, <1>2 DEF Calm, Steady

(* Where a process is that goes on. *)
LEMMA GoesTo ==
  ASSUME IndInv, NEW p \in Procs, NEW place \in PCs, Goto(p, place)
  PROVE  loc'[p].pc = place /\ \A q \in Procs \ {p} : Untouched(q)
<1>1. TypeOK /\ loc[p] \in Locals
  BY DEF IndInv, TypeOK
<1>2. loc'[p] = [loc[p] EXCEPT !.pc = place] /\ \A q \in Procs \ {p} : Untouched(q)
  BY <1>1, Goes
<1> QED BY <1>1, <1>2 DEF Locals

LEMMA RecoverIsSteady ==
  ASSUME IndInv, Calm, Quiet, NEW p \in Procs, Recover(p)
  PROVE  Steady(p)
<1>1. TypeOK /\ loc[p] \in Locals /\ Placed(p) /\ given' = given /\ None \notin Cwds
  BY SessionAssumption
     DEF IndInv, TypeOK, Recover, Scan, NextJournal, AllRecovered, RecoveryTimeout, RecoveryBegin,
         RecoveryAct, RecoveryCommit, RecoveryClean, RecoveryDone, del_vars
<1>2. loc[p].pc \in InDb
  BY DEF Recover, Scan, NextJournal, AllRecovered, RecoveryTimeout, RecoveryBegin,
         RecoveryAct, RecoveryCommit, RecoveryClean, RecoveryDone, At, InDb, Recovering
<1>3. CASE RecoveryFails(p) /\ UNCHANGED row
  BY <1>2, <1>3, RecoveryFailsInd, <1>1 DEF Steady, OutsidePCs, Deleting
<1>4. ASSUME NEW place \in PCs \ OutsidePCs, place \notin {"recAct", "recCommit"},
             loc'[p].pc = place, \A q \in Procs \ {p} : Untouched(q), UNCHANGED row
      PROVE  Steady(p)
  BY <1>1, <1>4 DEF Steady
<1>5. CASE Scan(p)
  BY <1>1, <1>5, <1>4 DEF Scan, TypeOK, Locals, Untouched, db_vars, PCs, OutsidePCs, Deleting
<1>6. CASE NextJournal(p)
  BY <1>1, <1>6, <1>4 DEF NextJournal, TypeOK, Locals, Untouched, db_vars, PCs, OutsidePCs, Deleting
<1>7. CASE AllRecovered(p)
  <2>1. CASE NextDatabase(p, "listed")
    BY <1>2, <1>7, <2>1, GoesToNext, <1>4 DEF Reports, AllRecovered, db_vars, PCs, OutsidePCs, Deleting
  <2>2. CASE Goto(p, "stage")
    BY <1>7, <2>2, GoesTo, <1>4 DEF PCs, OutsidePCs, Deleting, AllRecovered, db_vars
  <2> QED BY <1>7, <2>1, <2>2 DEF AllRecovered
<1>8. CASE RecoveryTimeout(p)
  BY <1>3, <1>8 DEF RecoveryTimeout
<1>9. CASE RecoveryBegin(p) /\ ~RecoveryFails(p)
  <2> DEFINE c == IF path = None THEN None ELSE path.cwd
  <2>1. row[Db(p)] # None /\ UNCHANGED row /\ loc' = [loc EXCEPT ![p].pc = "recAct", ![p].prev = c]
    BY <1>9 DEF RecoveryBegin
  <2> HIDE DEF c
  <2>2. loc'[p].pc = "recAct" /\ Db(p)' = Db(p) /\ \A q \in Procs \ {p} : Untouched(q)
    BY <1>1, <2>1 DEF TypeOK, Locals, Db, Untouched
  <2> QED BY <1>1, <2>1, <2>2 DEF Steady, OutsidePCs, Deleting
<1>10. CASE RecoveryAct(p) /\ ~RecoveryFails(p)
  <2> DEFINE plan == RecoveryPlan(loc[p].copy, row[Db(p)], loc[p].prev,
                                  CwdOf(staged[loc[p].job]), CwdOf(rollback[loc[p].job]))
  <2>1. PICK r \in plan : loc' = [loc EXCEPT ![p].pc = "recCommit", ![p].prev = r.row]
    BY <1>10 DEF RecoveryAct
  <2>2. r.row # None
    <3>1. loc[p].copy \in Journals /\ row[Db(p)] # None
      BY <1>1, <1>10 DEF RecoveryAct, At, Placed, Recovering, Calm
    <3>2. r.row \in {row[Db(p)], loc[p].copy.prev, loc[p].copy.target}
      BY DEF RecoveryPlan
    <3> QED BY <1>1, <3>1, <3>2 DEF Journals
  <2> HIDE DEF plan
  <2>3. /\ loc'[p].pc = "recCommit" /\ loc'[p].prev = r.row
        /\ (\A q \in Procs \ {p} : Untouched(q)) /\ UNCHANGED row
    BY <1>1, <1>10, <2>1 DEF TypeOK, Locals, Untouched, RecoveryAct
  <2> QED BY <1>1, <2>2, <2>3 DEF Steady, OutsidePCs, Deleting
<1>11. CASE RecoveryCommit(p) /\ ~(RecoveryFails(p) /\ UNCHANGED row)
  BY <1>11, <1>1 DEF RecoveryCommit, At, Calm, TypeOK, Locals, Untouched, Steady, OutsidePCs, Deleting
<1>12. CASE RecoveryClean(p) /\ ~RecoveryFails(p)
  BY <1>12, <1>4, GoesTo DEF RecoveryClean, PCs, OutsidePCs, Deleting
<1>13. CASE RecoveryDone(p) /\ ~RecoveryFails(p)
  <2>1. /\ UNCHANGED row /\ loc' = [loc EXCEPT ![p] =
             [@ EXCEPT !.job = None, !.copy = None, !.prev = None, !.pc = "recover"]]
    BY <1>13 DEF RecoveryDone
  <2>2. loc'[p].pc = "recover" /\ \A q \in Procs \ {p} : Untouched(q)
    BY <1>1, <2>1 DEF TypeOK, Locals, Untouched
  <2> QED BY <1>4, <2>1, <2>2 DEF PCs, OutsidePCs, Deleting
<1>14. (RecoveryBegin(p) \/ RecoveryAct(p) \/ RecoveryClean(p) \/ RecoveryDone(p)) => UNCHANGED row
  BY DEF RecoveryBegin, RecoveryAct, RecoveryClean, RecoveryDone
<1> QED BY <1>3, <1>5, <1>6, <1>7, <1>8, <1>9, <1>10, <1>11, <1>12, <1>13, <1>14 DEF Recover

LEMMA MoveIsSteady ==
  ASSUME IndInv, NEW p \in Procs, Move(p)
  PROVE  Steady(p)
<1> DEFINE Places == {"link", "begin", "journal", "verify", "replace", "commit", "recheck",
                      "restore", "unjournal", "finish", "clear"}
<1>1. TypeOK /\ loc[p] \in Locals /\ Placed(p) /\ given' = given /\ None \notin Cwds
  BY SessionAssumption
     DEF IndInv, TypeOK, Move, Stage, Link, Begin, WriteJournal, Verify, Replace, Commit, Recheck,
         PutBack, Unjournal, Finish, ClearJournal, del_vars
<1>2. loc[p].pc \in InDb
  BY DEF Move, Stage, Link, Begin, WriteJournal, Verify, Replace, Commit, Recheck,
         PutBack, Unjournal, Finish, ClearJournal, At, InDb, Attempting, Preparing, Replacing
<1>3. \A d \in Dbs : row'[d] = row[d] \/ row'[d] # None
  <2>1. CASE Commit(p)
    BY <1>1, <2>1 DEF Commit, At, Placed, InDb, Attempting, TypeOK
  <2>2. CASE ~Commit(p)
    <3>1. UNCHANGED row
      BY <2>2 DEF Move, Stage, Link, Begin, WriteJournal, Verify, Replace, Recheck,
         PutBack, Unjournal, Finish, ClearJournal, db_vars
    <3> QED BY <3>1
  <2> QED BY <2>1, <2>2
<1>4. CASE MoveFails(p)
  BY <1>2, <1>4, MoveFailsInd, <1>1, <1>3 DEF Steady, OutsidePCs, Deleting
<1>5. CASE Moved(p)
  BY <1>5, MovedInd, <1>1, <1>3 DEF Idle, Steady, OutsidePCs, Deleting
<1>6. ASSUME NEW place \in Places, Goto(p, place) PROVE Steady(p)
  BY <1>6, GoesTo, <1>1, <1>3 DEF PCs, OutsidePCs, Deleting, Steady
<1>7. CASE Stage(p) /\ ~MoveFails(p)
  <2>1. PICK k \in NextMove :
          loc' = [loc EXCEPT ![p] =
                 [@ EXCEPT !.move = k, !.prev = row[Db(p)],
                    !.sig  = IF path = None THEN None ELSE SignatureOf(path),
                    !.mode = ModeOf(loc[p].target),
                    !.pc = IF path = None THEN "begin" ELSE "link"]]
    BY <1>7 DEF Stage
  <2>2. loc'[p].pc \in {"begin", "link"} /\ \A q \in Procs \ {p} : Untouched(q)
    BY <1>1, <2>1 DEF TypeOK, Locals, Untouched
  <2> QED BY <1>1, <1>3, <2>2 DEF Steady, OutsidePCs, Deleting
<1>8. Move(p) => Stage(p) \/ MoveFails(p) \/ Moved(p) \/ \E place \in Places : Goto(p, place)
  BY DEF Move, Link, Begin, WriteJournal, Verify, Replace, Commit, Recheck,
         PutBack, Unjournal, Finish, ClearJournal
<1> QED BY <1>4, <1>5, <1>6, <1>7, <1>8

LEMMA StaysCalm ==
  ASSUME IndInv, Calm, [Next]_vars
  PROVE  /\ Calm'
         /\ Quiet' => Quiet /\ [CalmStep]_vars /\ Holders \subseteq Holders' /\ Holders # {}
<1> SUFFICES ASSUME Quiet'
             PROVE  Calm' /\ Quiet /\ [CalmStep]_vars /\ Holders \subseteq Holders' /\ Holders # {}
  BY DEF Calm
<1>1. Quiet /\ TypeOK /\ given = {} /\ Holders # {} /\ \A p \in Procs : loc[p].pc \notin OutsidePCs
  BY DeletesStay DEF IndInv, Calm
<1>2. [CalmStep]_vars
  <2>1. ASSUME NEW p \in Procs PROVE ~StartDelete(p) /\ ~StartUndo(p)
    <3>1. ASSUME StartDelete(p) PROVE FALSE
      BY <1>1, <3>1, SessionAssumption DEF StartDelete, TypeOK, Quiet
    <3> QED BY <1>1, <3>1 DEF StartUndo
  <2>2. ASSUME NEW p \in Procs PROVE ~Delete(p) /\ ~Undo(p)
    BY <1>1 DEF Delete, BackUp, VerifyBackup, DeleteRows, DeleteFile, DeleteIndex,
                Undo, CheckUndo, BeginUndo, CommitUndo, RestoreFile, RestoreIndex,
                At, OutsidePCs, Deleting
  <2> QED BY <2>1, <2>2 DEF Next, CalmStep
<1>3. CASE UNCHANGED vars \/ CodexAppends
  BY <1>3, <1>1, <1>2 DEF vars, CodexAppends, db_vars, del_vars, Calm, Holders, Db
<1>4. ASSUME NEW p \in Procs, StartList(p) \/ \E cwd \in Cwds : StartMove(p, cwd)
      PROVE  Steady(p)
  BY <1>4, Starts DEF StartList, StartMove, Start, Untouched, db_vars, del_vars, Steady, OutsidePCs,
    Deleting
<1>5. ASSUME NEW p \in Procs, Crash(p)
      PROVE  Steady(p)
  BY <1>1, <1>5 DEF Crash, TypeOK, Untouched, del_vars, Idle, Steady, OutsidePCs, Deleting
<1>6. ASSUME NEW p \in Procs, Recover(p) \/ Move(p)
      PROVE  Steady(p)
  BY <1>1, <1>6, RecoverIsSteady, MoveIsSteady
<1>7. ASSUME NEW p \in Procs, Steady(p)
      PROVE  Calm' /\ Holders \subseteq Holders'
  BY <1>1, <1>7, SteadyIsCalm
<1> QED BY <1>1, <1>2, <1>3, <1>4, <1>5, <1>6, <1>7 DEF CalmStep

LEMMA SettleInit == AgreedInit => SettleInv
<1> SUFFICES ASSUME AgreedInit PROVE SettleInv
  OBVIOUS
<1>1. /\ Init /\ IndInv /\ KeepInv /\ path # None /\ path \in File
      /\ \A d \in Holders : row[d] = path.cwd
  BY IndInit, KeepInit DEF AgreedInit, Init, KeepInv, Somewhere, Saved, IndInv, TypeOK
<1>2. /\ \A p \in Procs : loc[p] = Idle
      /\ \A k \in Moves : journal[k] = None /\ outcome[k] = "unused"
      /\ given = {}
  BY <1>1 DEF Init
<1>3. Idle.pc = "idle" /\ Idle.op = "none"
  BY DEF Idle
<1>4. Holders # {}
  <2>1. PICK c \in Cwds, D \in SUBSET Dbs :
          D # {} /\ row = [d \in Dbs |-> IF d \in D THEN c ELSE None]
    BY <1>1 DEF Init
  <2> QED BY <2>1, SessionAssumption DEF Holders
<1>5. Calm
  BY <1>2, <1>3, <1>4 DEF Calm, OutsidePCs, Deleting
<1>6. OneMover
  BY <1>2, <1>3 DEF OneMover
<1>7. ASSUME NEW h \in Dbs, Holders = {h} PROVE Whole(h)
  <2>1. Seen # None /\ Agreed(h) /\ Journaled = {}
    BY <1>1, <1>2, <1>7, SessionAssumption DEF Seen, CwdOf, Agreed, Journaled, File
  <2>2. ASSUME NEW p \in Procs PROVE RecoveringSound(p, h) /\ MovingSound(p, h)
    BY <1>2, <1>3
       DEF RecoveringSound, MovingSound, Attempting, Preparing, Replacing, Recovering
  <2> QED BY <2>1, <2>2 DEF Whole, Consistent
<1> QED BY <1>1, <1>5, <1>6, <1>7 DEF SettleInv, MovesInv

LEMMA StaysWhole ==
  ASSUME NEW h \in Dbs, Settling(h), OneMover', [CalmStep]_vars
  PROVE  Whole(h)'
<1>1. CASE UNCHANGED vars
  <2>1. UNCHANGED <<row, writer, path, staged, rollback, journal, outcome, loc>>
    BY <1>1 DEF vars
  <2>2. /\ Seen' = Seen /\ Journaled' = Journaled
        /\ \A k : Copy(k)' = Copy(k) /\ Original(k)' = Original(k)
    BY <2>1 DEF Seen, Journaled, Copy, Original, CwdOf
  <2>3. \A k : Torn(h, k)' <=> Torn(h, k)
    BY <2>1, <2>2 DEF Torn
  <2>4. Consistent(h)'
    BY <2>1, <2>2, <2>3 DEF Settling, Whole, Consistent, Agreed
  <2>5. ASSUME NEW q \in Procs PROVE RecoveringSound(q, h)' /\ MovingSound(q, h)'
    BY <2>1, <2>2, <2>3 DEF Settling, Whole, Db, JournalOf, RecoveringSound, MovingSound, Agreed
  <2> QED BY <2>4, <2>5 DEF Whole
<1>2. CASE CodexAppends
  BY <1>2, AppendSettling
<1>3. ASSUME NEW p \in Procs, StartList(p) \/ \E cwd \in Cwds : StartMove(p, cwd)
      PROVE  Whole(h)'
  BY <1>3, StartSettling
<1>4. ASSUME NEW p \in Procs, Recover(p)
      PROVE  Whole(h)'
  BY <1>4, ScanSettling, NextJournalSettling, AllRecoveredSettling, RecoveryTimeoutSettling,
     RecoveryBeginSettling, RecoveryActSettling, RecoveryCommitSettling, RecoveryCleanSettling,
     RecoveryDoneSettling DEF Recover
<1>5. ASSUME NEW p \in Procs, Move(p)
      PROVE  Whole(h)'
  BY <1>5, StageSettling, LinkSettling, BeginSettling, WriteJournalSettling, VerifySettling,
     ReplaceSettling, CommitSettling, RecheckSettling, PutBackSettling, UnjournalSettling,
     FinishSettling, ClearJournalSettling DEF Move
<1>6. ASSUME NEW p \in Procs, Crash(p)
      PROVE  Whole(h)'
  BY <1>6, CrashSettling
<1> QED BY <1>1, <1>2, <1>3, <1>4, <1>5, <1>6 DEF CalmStep

LEMMA SettleNext == SettleInv /\ [Next /\ Orderly]_vars => SettleInv'
<1> SUFFICES ASSUME SettleInv, [Next /\ Orderly]_vars PROVE SettleInv'
  OBVIOUS
<1>1. [Next]_vars /\ IndInv /\ KeepInv /\ Calm /\ OneMover /\ MovesInv
  BY DEF SettleInv
<1>2. IndInv' /\ KeepInv' /\ Calm'
  BY <1>1, IndNext, KeepNext, StaysCalm
<1>3. OneMover'
  <2>1. CASE Orderly
    BY <2>1 DEF Orderly, OneMover
  <2>2. CASE UNCHANGED vars
    BY <1>1, <2>2 DEF OneMover, vars
  <2> QED BY <2>1, <2>2
<1>4. ASSUME NEW h \in Dbs, Quiet', Holders' = {h} PROVE Whole(h)'
  BY <1>1, <1>4, StaysCalm, <1>3, StaysWhole DEF MovesInv, Settling
<1> QED BY <1>2, <1>3, <1>4 DEF SettleInv, MovesInv

LEMMA OneHolder ==
  ASSUME Cardinality(Holders) = 1
  PROVE  \E h \in Dbs : Holders = {h}
<1>1. IsFiniteSet(Holders)
  BY SessionAssumption, FS_Subset DEF Holders
<1> QED BY <1>1, FS_Singleton DEF Holders

(* Moves settle: of a session one database lists, as long as no delete is  *)
(* tried, and moves take turns and put back undisturbed, the row names the *)
(* workspace the rollout names once nothing runs and no journal is left,   *)
(* and a journal that is left has a plan.                                  *)
THEOREM MovesAlwaysSettle == OrderlySpec => []MovesSettle
<1>1. SettleInv => MovesSettle
  <2> SUFFICES ASSUME SettleInv, Quiet, Cardinality(Holders) = 1, AllIdle
               PROVE  /\ (\A k \in Moves : journal[k] = None)
                            => \A d \in Holders : row[d] = path.cwd
                      /\ RecoveryHasAPlan
    BY DEF MovesSettle, RowAndRolloutAgree, MovesAreRecoverable, Settled, RecoveryHasAPlan, Quiet
  <2>1. PICK h \in Dbs : Holders = {h}
    BY OneHolder
  <2>2. Consistent(h) /\ TypeOK
    BY <2>1 DEF SettleInv, MovesInv, Whole, IndInv
  <2>3. (\A k \in Moves : journal[k] = None) => \A d \in Holders : row[d] = path.cwd
    BY <2>1, <2>2 DEF Consistent, Journaled, Agreed, Seen, CwdOf
  <2>4. ASSUME NEW k \in Moves, journal[k] # None
        PROVE  RecoveryPlan(journal[k], row[journal[k].db], CwdOf(path),
                            CwdOf(staged[k]), CwdOf(rollback[k])) # {}
    <3>1. /\ journal[k].db = h /\ ~journal[k].dbOnly /\ journal[k].prev # journal[k].target
          /\ journal[k] \in Journals /\ Seen # None
          /\ Agreed(h) \/ Torn(h, k)
      BY <2>2, <2>4 DEF Consistent, Journaled, TypeOK
    <3>2. \/ Seen = row[journal[k].db]
          \/ /\ row[journal[k].db] = journal[k].prev /\ Seen = journal[k].target
             /\ CwdOf(rollback[k]) = journal[k].prev
      BY <3>1 DEF Agreed, Torn, Original
    <3>3. CwdOf(path) # None /\ CwdOf(path) = Seen
      BY <3>1 DEF Seen
    <3> QED BY <3>1, <3>2, <3>3, PlansExist
  <2> QED BY <2>3, <2>4 DEF RecoveryHasAPlan
<1> QED BY <1>1, SettleInit, SettleNext, PTL DEF OrderlySpec

(* Who takes a process into the commit of a recovery. *)
LEMMA OnlyRecoveryActs ==
  ASSUME IndInv, Calm, Quiet, [Next]_vars, NEW p \in Procs,
         loc[p].pc = "recAct", loc'[p].pc = "recCommit"
  PROVE  RecoveryAct(p)
<1>1. TypeOK /\ given = {} /\ loc[p].pc \notin OutsidePCs /\ Idle.pc = "idle"
      /\ \A q \in Procs : ~Delete(q) /\ ~Undo(q)
  BY DEF IndInv, Calm, Idle, Delete, BackUp, VerifyBackup, DeleteRows, DeleteFile, DeleteIndex,
         Undo, CheckUndo, BeginUndo, CommitUndo, RestoreFile, RestoreIndex,
         At, OutsidePCs, Deleting
<1>2. ~Untouched(p)
  BY <1>1, UntouchedFields
<1>3. ~(UNCHANGED vars \/ CodexAppends)
  BY <1>2 DEF vars, CodexAppends, Untouched
<1>4. ASSUME NEW q \in Procs, StartList(q) \/ (\E cwd \in Cwds : StartMove(q, cwd))
                               \/ StartDelete(q) \/ StartUndo(q)
      PROVE  FALSE
  <2>1. PICK l : Start(q, l)
    BY <1>4 DEF StartList, StartMove, StartDelete, StartUndo
  <2>2. p # q
    BY <1>1, <2>1 DEF Start
  <2> QED BY <1>2, <2>1, <2>2 DEF Start, Untouched
<1>5. ASSUME NEW q \in Procs, Crash(q)
      PROVE  FALSE
  BY <1>1, <1>2, <1>5 DEF Crash, TypeOK, Untouched
<1>6. ASSUME NEW q \in Procs, Recover(q) \/ Move(q)
      PROVE  RecoveryAct(p)
  BY <1>2, <1>6, RecoverIsSteady, MoveIsSteady DEF Steady, Recover, Scan, NextJournal, AllRecovered,
    RecoveryTimeout, RecoveryBegin, RecoveryCommit, RecoveryClean, RecoveryDone, Move, Stage, Link,
    Begin, WriteJournal, Verify, Replace, Commit, Recheck, PutBack, Unjournal, Finish, ClearJournal, At
<1> QED BY <1>1, <1>3, <1>4, <1>5, <1>6 DEF Next

(* A move its caller was told about is not taken back by the recovery of   *)
(* the journal it left behind.                                             *)
THEOREM MovesAreKept == OrderlySpec => RecoveryKeepsMoves
<1>1. SettleInv /\ [Next /\ Orderly]_vars =>
        [\A p \in Procs :
           /\ At(p, "recAct") /\ At(p, "recCommit")'
           /\ outcome[loc[p].job] = "moved"
           /\ \A k \in Moves \ {loc[p].job} : journal[k] = None
           /\ budget.deletes = MaxDeletes /\ Cardinality(Holders) = 1
           => path' = path /\ loc'[p].prev = row[Db(p)]]_vars
  <2> SUFFICES ASSUME SettleInv, [Next]_vars, NEW p \in Procs,
                      loc[p].pc = "recAct", loc'[p].pc = "recCommit",
                      outcome[loc[p].job] = "moved",
                      \A k \in Moves \ {loc[p].job} : journal[k] = None,
                      Quiet, Cardinality(Holders) = 1
               PROVE  path' = path /\ loc'[p].prev = row[Db(p)]
    BY DEF At, Quiet
  <2> DEFINE j    == loc[p].copy
             k    == loc[p].job
             plan == RecoveryPlan(j, row[Db(p)], loc[p].prev, CwdOf(staged[k]), CwdOf(rollback[k]))
  <2>1. PICK h \in Dbs : Holders = {h}
    BY OneHolder
  <2>2. IndInv /\ Calm /\ TypeOK /\ Placed(p) /\ Consistent(h) /\ RecoveringSound(p, h)
        /\ loc[p].pc \in Recovering /\ loc[p].pc \in InDb
    BY <2>1 DEF SettleInv, MovesInv, Whole, IndInv, Recovering, InDb
  <2>3. RecoveryAct(p)
    BY <2>2, OnlyRecoveryActs
  <2>4. ~RecoveryFails(p)
    BY <2>2, RecoveryFailsInd
  <2>5. PICK r \in plan :
             /\ path' = CASE r.file = "staged" -> staged[k]
                          [] r.file = "rollback" -> rollback[k]
                          [] OTHER -> path
             /\ loc' = [loc EXCEPT ![p].pc = "recCommit", ![p].prev = r.row]
    BY <2>3, <2>4 DEF RecoveryAct
  <2>6. /\ Db(p) = h /\ ~j.dbOnly /\ j.prev # j.target /\ loc[p].prev = Seen /\ Seen # None
        /\ j \in Journals
    BY <2>2 DEF RecoveringSound, Consistent, Placed
  <2>7. Seen = row[h]
    BY <2>2 DEF Consistent, Journaled, Torn, Agreed
  <2>8. r.file = "keep" /\ r.row = row[h]
    BY <2>6, <2>7, PlansAgree
  <2> HIDE DEF plan, j, k
  <2>9. loc'[p].prev = r.row /\ path' = path
    BY <2>2, <2>5, <2>8 DEF TypeOK, Locals
  <2> QED BY <2>6, <2>8, <2>9
<1> QED BY <1>1, SettleInit, SettleNext, PTL DEF OrderlySpec, RecoveryKeepsMoves
=============================================================================

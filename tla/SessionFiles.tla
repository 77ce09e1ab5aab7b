----------------------------- MODULE SessionFiles ------------------------------
(***************************************************************************)
(* What a local session of Codex is on disk, and what the operations of    *)
(* crates/codex-plus-data/src/storage.rs share: the thread's row in each   *)
(* session database, its rollout file, its line in session_index.jsonl,    *)
(* the journals and side files of workspace moves, the backups of deletes. *)
(* One session is modelled: no operation touches another one's row, file   *)
(* or line.  A file is its inode, the cwd its session_meta names and how   *)
(* many lines Codex has appended to it.                                    *)
(***************************************************************************)
EXTENDS Naturals, Sequences, FiniteSets

CONSTANTS
  Procs,       \* processes that run operations: the Manager, the launcher
  Dbs,         \* the session databases
  DbOrder,     \* the order in which callers try them
  Cwds,        \* workspaces
  None,
  MaxRequests, \* bound: moves and deletes asked for, together
  MaxMoves,    \* bound: attempts of a move, at most one per database each
  MaxDeletes,  \* bound: delete requests
  MaxUndos,    \* bound: undo requests
  MaxFaults,   \* bound: calls that fail
  MaxEvents    \* bound: processes killed and lines Codex appends, together

Moves   == 1 .. MaxMoves
Backups == 1 .. MaxDeletes * Cardinality(Dbs)

(* At most one inode per name a file can have at one time, and per lock. *)
Inodes == 0 .. 2 * MaxMoves + Cardinality(Procs) + 1

File     == [ino : Inodes, cwd : Cwds, len : 0 .. MaxEvents]
Journals == [db : Dbs, prev : Cwds, target : Cwds, dbOnly : BOOLEAN]
BackupRecords == [db : Dbs, cwd : Cwds, file : File \cup {None}, index : BOOLEAN]

Ops == {"none", "list", "move", "delete", "undo"}

PCs == {"idle", "scan", "recover", "recTx", "recAct", "recCommit", "recClean", "recDone",
        "stage", "link", "begin", "journal", "verify", "replace", "commit", "recheck",
        "restore", "unjournal", "finish", "clear",
        "delTx", "delVerify", "delCommit", "delFile", "delIndex",
        "undoCheck", "undoBegin", "undoCommit", "undoFiles", "undoIndex"}

Reports == {"none", "moved", "failed", "listed", "deleted", "restored", "stuck", "undone"}

Signatures == [ino : Inodes, len : 0 .. MaxEvents]
Pictures   == [row : [Dbs -> Cwds \cup {None}], file : File \cup {None}, index : BOOLEAN]

(* A process: where it is, and the local variables it carries. *)
Locals == [pc : PCs, op : Ops, at : 0 .. Len(DbOrder), move : Moves \cup {None},
           target : Cwds \cup {None}, prev : Cwds \cup {None},
           mode : {"missing", "current", "staged", "none"},
           sig : Signatures \cup {None}, todo : SUBSET Moves, job : Moves \cup {None},
           copy : Journals \cup {None}, dbs : SUBSET Dbs, token : Backups \cup {None}, done : SUBSET Backups,
           undo : SUBSET Backups, pending : SUBSET Backups, bad : BOOLEAN,
           alone : BOOLEAN, before : Pictures \cup {None}]

Idle == [pc |-> "idle", op |-> "none", at |-> 0, move |-> None, target |-> None,
         prev |-> None, mode |-> "none", sig |-> None, todo |-> {}, job |-> None, copy |-> None,
         dbs |-> {}, token |-> None, done |-> {}, undo |-> {}, pending |-> {},
         bad |-> FALSE,
         alone |-> FALSE, before |-> None]

ASSUME SessionAssumption ==
  /\ MaxRequests \in Nat /\ MaxMoves \in Nat /\ MaxDeletes \in Nat /\ MaxUndos \in Nat
  /\ MaxFaults \in Nat /\ MaxEvents \in Nat
  /\ IsFiniteSet(Procs) /\ IsFiniteSet(Dbs)
  /\ DbOrder \in Seq(Dbs) /\ Dbs = {DbOrder[i] : i \in DOMAIN DbOrder}
  /\ \A i, j \in DOMAIN DbOrder : DbOrder[i] = DbOrder[j] => i = j
  /\ None \notin Procs \cup Cwds \cup Moves \cup Backups
  /\ None \notin File \cup Journals \cup BackupRecords \cup Signatures \cup Pictures

VARIABLES
  row,       \* each database: the cwd of the thread's row, None without a row
  writer,    \* each database: who holds its write transaction
  path,      \* the file at the thread's rollout_path
  flock,     \* the inode each process holds an advisory lock on
  index,     \* session_index.jsonl lists the thread
  staged,    \* each move's .workspace-move-stage.*.tmp
  rollback,  \* each move's .workspace-move-rollback.*.tmp
  journal,   \* each move's .workspace-move-journal.*.json
  outcome,   \* what the caller of each move was told
  backup,    \* the backups deletes have committed
  given,     \* the undo token the last delete reported
  report,    \* what the last operation that ended told its process
  loc,
  budget     \* what the bounds leave

db_vars   == <<row, writer>>
file_vars == <<path, flock, index>>
move_vars == <<staged, rollback, journal, outcome>>
del_vars  == <<backup, given>>
vars == <<row, writer, path, flock, index, staged, rollback, journal, outcome,
          backup, given, report, loc, budget>>

TypeOK ==
  /\ row \in [Dbs -> Cwds \cup {None}]
  /\ writer \in [Dbs -> Procs \cup {None}]
  /\ path \in File \cup {None}
  /\ flock \in [Procs -> Inodes \cup {None}]
  /\ index \in BOOLEAN
  /\ staged \in [Moves -> File \cup {None}]
  /\ rollback \in [Moves -> File \cup {None}]
  /\ journal \in [Moves -> Journals \cup {None}]
  /\ outcome \in [Moves -> {"unused", "open", "moved", "failed"}]
  /\ backup \in [Backups -> BackupRecords \cup {None}]
  /\ given \in SUBSET Backups
  /\ report \in [Procs -> Reports]
  /\ loc \in [Procs -> Locals]
  /\ budget \in [requests : 0 .. MaxRequests, events : 0 .. MaxEvents,
                 faults : 0 .. MaxFaults, deletes : 0 .. MaxDeletes, undos : 0 .. MaxUndos]

(* A session Codex has written: one rollout, rows for it in one database   *)
(* or more that agree with it, or a rollout a row lags behind (the repair  *)
(* a move also does).                                                      *)
Init ==
  /\ \E c \in Cwds, D \in SUBSET Dbs, e \in Cwds :
       /\ D # {}
       /\ row = [d \in Dbs |-> IF d \in D THEN c ELSE None]
       /\ path = [ino |-> 0, cwd |-> e, len |-> 0]
  /\ writer = [d \in Dbs |-> None]
  /\ flock = [p \in Procs |-> None]
  /\ index = TRUE
  /\ staged = [k \in Moves |-> None]
  /\ rollback = [k \in Moves |-> None]
  /\ journal = [k \in Moves |-> None]
  /\ outcome = [k \in Moves |-> "unused"]
  /\ backup = [b \in Backups |-> None]
  /\ given = {}
  /\ report = [p \in Procs |-> "none"]
  /\ loc = [p \in Procs |-> Idle]
  /\ budget = [requests |-> MaxRequests, events |-> MaxEvents, faults |-> MaxFaults,
               deletes |-> MaxDeletes, undos |-> MaxUndos]

----
At(p, pc) == loc[p].pc = pc
Goto(p, pc) == loc' = [loc EXCEPT ![p].pc = pc]

(* The database the process is at, and who is in the way of its lock. *)
Db(p) == DbOrder[loc[p].at]

(* The databases that list the session. *)
Holders == {d \in Dbs : row[d] # None}

(* The session as it is now. *)
Picture == [row |-> row, file |-> path, index |-> index]

(* One more call fails. *)
Fault == budget.faults > 0 /\ budget' = [budget EXCEPT !.faults = @ - 1]

(* The files under any name, and an inode none of them and no lock uses. *)
Named == ({path} \cup {staged[k] : k \in Moves} \cup {rollback[k] : k \in Moves}) \ {None}
FreshInode ==
  CHOOSE i \in Inodes : i \notin {f.ino : f \in Named} \cup {flock[p] : p \in Procs}

SignatureOf(f) == [ino |-> f.ino, len |-> f.len]
SameContent(f, g) == f.cwd = g.cwd /\ f.len = g.len

(* FileExt::try_lock_exclusive on the inode at the rollout's path. *)
Lockable(p) == \A q \in Procs \ {p} : path # None => flock[q] # path.ino

(* verify_source_unchanged: length and modification time. *)
Unchanged(p) == path # None /\ SignatureOf(path) = loc[p].sig

ReleaseDb(p) == writer' = [d \in Dbs |-> IF writer[d] = p THEN None ELSE writer[d]]
Unlock(p) == flock' = [flock EXCEPT ![p] = None]

(* A process begins an operation; one that was running is no longer alone. *)
Start(p, l) ==
  /\ loc[p] = Idle
  /\ loc' = [q \in Procs |->
       IF q = p THEN [l EXCEPT !.alone = \A r \in Procs \ {p} : loc[r] = Idle]
       ELSE IF loc[q] = Idle THEN Idle ELSE [loc[q] EXCEPT !.alone = FALSE]]
  /\ report' = [q \in Procs |-> "none"]

(* ... and ends it, telling its caller. *)
Ended(p, said) ==
  /\ loc' = [loc EXCEPT ![p] = Idle]
  /\ report' = [q \in Procs |-> IF q = p THEN said ELSE "none"]
=============================================================================

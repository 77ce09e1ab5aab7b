---------------------------- MODULE PhoneOutbox ----------------------------
(***************************************************************************)
(* The phone web app sending messages to one Codex thread (pwa/app.js over *)
(* pwa/relay.js).  A submission is kept in memory and in localStorage from *)
(* the moment its text leaves the composer until the app knows what became *)
(* of it.  It starts a turn or steers the one that runs; which of the two, *)
(* whether it arrived and what to do when nothing is known is decided by   *)
(* continuations of calls, between which notifications, reconnections, a   *)
(* reload of the page and the user's wandering off to another thread come. *)
(*                                                                         *)
(* The page is one JavaScript thread: an action is one event and every     *)
(* continuation it runs.  A task is a chain of continuations, in at most   *)
(* one call at a time.  Codex, seen through the relay and the desktop's    *)
(* host, answers in order within a connection, but for acknowledgements of *)
(* steers, which the end of the turn may overtake.  A request under way is *)
(* as good as one made later, so it is handled when it is made and what    *)
(* travels is the answer.  Over a connection that is already broken a      *)
(* request is lost, or arrives late, and nothing comes back.               *)
(*                                                                         *)
(* Left out: what comes before a submission exists (attachments and their  *)
(* upload, resuming or forking the thread), submissions an older version   *)
(* stored as queued, matching a delivered message by its text instead of   *)
(* its id, and interruptTurn: what it asks of Codex is a turn that ends,   *)
(* what it reads of the turn a synchronisation.  Threads share nothing but *)
(* the composer: another thread is the screen being elsewhere.             *)
(***************************************************************************)
EXTENDS Naturals, Sequences, FiniteSets

CONSTANTS
    Msgs, NoMsg,      \* the messages the user may write
    Slots,            \* bound on the tasks at a time
    MaxTurns,         \* bound on the turns of the thread
    MaxMishaps        \* bound on mishaps: see Befalls

ASSUME PhoneAssumption ==
    /\ NoMsg \notin Msgs
    /\ IsFiniteSet(Slots) /\ Slots \subseteq Nat \ {0}
    /\ MaxTurns \in Nat /\ MaxMishaps \in Nat

VARIABLES
    phone,     \* the page: see PhoneTypeOK
    task,      \* the chains of continuations
    link,      \* the connection: "up", "broken" unnoticed, "down"
    down,      \* what is on its way to the page
    late,      \* requests of broken connections
    codex,     \* the thread on the desktop: its turn and what it was told
    mishaps,                \* those that have befallen it
    sent,                   \* history: what the user sent
    raced, doubted, wandered, erred     \* history: see Properties

phone_vars == <<phone, task, link, down, late, codex, mishaps,
                sent, raced, doubted, wandered, erred>>

NoTurn == 0
Turns == 1 .. MaxTurns
Free == [pc |-> "free", kind |-> "none", m |-> NoMsg, turn |-> NoTurn, flag |-> FALSE]

\* kind: sendMessage awaits it ("send"), nobody does ("bare"), a completed
\* turn or a resumed session set it off ("notice", "sync"), or it opens the
\* thread.  m: the submission it holds in a local variable.  turn: the turn
\* it steers.  flag: it may retry, or the thread list said active.
TaskKinds == {"none", "send", "bare", "notice", "sync", "open"}
TaskPcs == {"free", "start", "locate", "check", "steer", "verify",
            "relocate", "pause", "settle", "sync", "syncTurn", "refresh", "open"}
Unawaited == {"free", "pause"}
Mishaps == {"wander", "loss", "timeout", "error"}

PhoneInit ==
    /\ phone = [screen |-> TRUE, connected |-> TRUE, entered |-> TRUE,
                active |-> FALSE, turn |-> NoTurn, done |-> NoTurn,
                listed |-> FALSE,
                pending |-> NoMsg, intent |-> "start",
                stored |-> NoMsg, composer |-> NoMsg]
    /\ task = [s \in Slots |-> Free]
    /\ link = "up" /\ down = <<>> /\ late = <<>>
    /\ codex = [turn |-> NoTurn, last |-> NoTurn, told |-> [m \in Msgs |-> 0]]
    /\ mishaps = {}
    /\ sent = {} /\ raced = {} /\ doubted = {} /\ wandered = {} /\ erred = {}

SomeMsg == Msgs \cup {NoMsg}
SomeTurn == Turns \cup {NoTurn}
NoSlot == 0

PhoneTypeOK ==
    phone \in [screen : BOOLEAN,      \* the thread is the selected one
               connected : BOOLEAN,   \* rpc.connected, and not reconnecting
               entered : BOOLEAN,     \* state.hasEnteredWorkspace
               active : BOOLEAN, turn : SomeTurn, done : SomeTurn,  \* runtime
               listed : BOOLEAN,      \* the thread list shows it active
               pending : SomeMsg, intent : {"start", "steer"},
               stored : SomeMsg,      \* localStorage
               composer : SomeMsg]    \* given back, to the input or the draft

OutboxTypeOK ==
    /\ PhoneTypeOK
    /\ task \in [Slots -> [pc : TaskPcs, kind : TaskKinds, m : SomeMsg, turn : SomeTurn,
                           flag : BOOLEAN]]
    /\ \A s \in Slots : (task[s].kind = "none") = (task[s].pc = "free")
    /\ Cardinality({s \in Slots : task[s].kind = "send"}) <= 1
    /\ codex.turn \in {NoTurn, codex.last} /\ codex.last \in SomeTurn
    /\ codex.told \in [Msgs -> Nat] /\ erred \subseteq Turns
    /\ mishaps \subseteq Mishaps
    /\ sent \subseteq Msgs
    /\ raced \subseteq sent /\ doubted \subseteq sent /\ wandered \subseteq sent
    /\ link \in {"up", "broken", "down"}
    /\ phone.connected = (link # "down")
    /\ link = "down" => down = <<>>

(***************************************************************************)
(* Continuations.  Each gives the page p, the task k and the request q it  *)
(* goes on with.                                                           *)
(***************************************************************************)
Ended(p) == [p |-> p, k |-> Free, q |-> <<>>]

Calling(p, k, pc, op) ==
    [p |-> p, k |-> [k EXCEPT !.pc = pc], q |-> <<[op |-> op, m |-> k.m, turn |-> k.turn]>>]

Settled(p) == [p EXCEPT !.pending = NoMsg, !.stored = NoMsg]

\* A submission that could not be sent goes back to the composer.
Returned(p, m) == IF p.screen THEN [p EXCEPT !.composer = m] ELSE p

\* startPendingSubmission sends whatever is pending by now.
Start(p, k) ==
    IF p.pending = NoMsg THEN Ended(p)
    ELSE Calling([p EXCEPT !.intent = "start", !.stored = p.pending],
                 [k EXCEPT !.m = p.pending, !.turn = NoTurn], "start", "start")

\* steerPendingSubmission from the call on; the submission it holds is
\* stored again.
SteerCall(p, k, turn) ==
    Calling([p EXCEPT !.intent = IF p.pending = k.m THEN "steer" ELSE @, !.stored = k.m],
            [k EXCEPT !.turn = turn], "steer", "steer")

Steer(p, k) ==
    IF p.pending = NoMsg THEN Ended(p)
    ELSE IF p.turn # NoTurn THEN SteerCall(p, [k EXCEPT !.m = p.pending], p.turn)
    ELSE Calling(p, [k EXCEPT !.m = p.pending], "locate", "page")

Submit(p, k) == IF p.active THEN Steer(p, k) ELSE Start(p, k)

\* Without looking at the connection first.
FailAtOnce(p, k, running) ==
    IF p.pending = NoMsg THEN Ended(p)
    ELSE Ended(Returned(Settled(p), p.pending))

\* Clearing the submission before looking at the connection.
FailForgets(p, k, running) ==
    IF p.pending = NoMsg \/ ~p.connected THEN Ended(Settled(p))
    ELSE Ended(Returned(Settled(p), p.pending))

\* handleSubmissionFailure: a start refused because a turn runs becomes a
\* steer; without a connection the submission stays, to be confirmed.
Fail(p, k, running) ==
    IF p.pending = NoMsg THEN Ended(p)
    ELSE IF p.intent # "steer" /\ running
         THEN Steer([p EXCEPT !.intent = "steer", !.stored = p.pending,
                              !.active = @ \/ p.screen],
                    [Free EXCEPT !.kind = "bare", !.flag = TRUE])
    ELSE IF ~p.connected THEN Ended(p)
    ELSE Ended(Returned(Settled(p), p.pending))

\* sendMessage.
Submission(p, k) ==
    Submit([p EXCEPT !.pending = k.m, !.stored = k.m, !.composer = NoMsg,
                     !.intent = IF p.active THEN "steer" ELSE "start"], k)

\* reconcilePendingSubmission, up to its call.
Settle(p, k) ==
    LET m == IF p.pending # NoMsg THEN p.pending ELSE p.stored
    IN IF m = NoMsg THEN Ended(p)
       ELSE Calling([p EXCEPT !.pending = m], [k EXCEPT !.m = m], "settle", "page")

\* reconcilePendingSubmission, from what the last page of turns says of it;
\* while a turn runs nothing is
\* concluded from its absence.
SettleAnswered(p, k, a) ==
    IF k.m \in a.has THEN Ended(Settled(p))
    ELSE IF p.active THEN Ended([p EXCEPT !.stored = k.m])
    ELSE Ended(Returned(Settled(p), k.m))

(***************************************************************************)
(* Answers.  a.ok, a.turn: the active turn, or the one started or steered; *)
(* a.has: the messages of the page.                                        *)
(***************************************************************************)
NotActive(p) == [p EXCEPT !.active = FALSE, !.turn = NoTurn]

OnStart(p, k, a) ==
    IF a.ok THEN Ended([Settled(p) EXCEPT !.active = TRUE, !.turn = a.turn, !.listed = TRUE])
    ELSE Fail(p, k, TRUE)

OnLocate(p, k, a) ==
    IF a.turn # NoTurn THEN SteerCall([p EXCEPT !.turn = a.turn], k, a.turn)
    ELSE Calling(p, k, "check", "read")

OnCheck(p, k, a) ==
    IF a.turn = NoTurn THEN Start(NotActive(p), k) ELSE Fail(p, k, FALSE)

\* An acknowledgement that leaves a completed turn running.
OnSteerRunning(p, k, a) ==
    IF a.ok THEN Ended([Settled(p) EXCEPT !.active = TRUE, !.turn = k.turn])
    ELSE Calling(p, k, "verify", "read")

\* The turn may have completed before the acknowledgement came.
OnSteer(p, k, a) ==
    IF a.ok
    THEN LET over == ~p.active /\ p.done = k.turn
         IN Ended([Settled(p) EXCEPT !.active = ~over,
                                     !.turn = IF over THEN NoTurn ELSE k.turn])
    ELSE Calling(p, k, "verify", "read")

OnVerify(p, k, a) ==
    IF a.turn = NoTurn THEN Start(NotActive(p), k)
    ELSE IF k.flag THEN Calling(p, k, "relocate", "page")
    ELSE Fail(p, k, FALSE)

OnRelocate(p, k, a) ==
    LET found == [p EXCEPT !.turn = IF a.turn = NoTurn THEN @ ELSE a.turn]
    IN IF a.turn \notin {NoTurn, k.turn} THEN Steer(found, [k EXCEPT !.flag = FALSE])
       ELSE Fail(found, k, FALSE)

\* reconcileResumedThread.
OnSync(p, k, a) ==
    IF ~p.screen THEN Ended(p)
    ELSE LET shown == [p EXCEPT !.listed = (a.turn # NoTurn),
                                !.pending = IF @ = NoMsg THEN p.stored ELSE @]
         IN IF a.turn = NoTurn THEN Calling(NotActive(shown), k, "refresh", "page")
            ELSE IF p.turn = NoTurn
                 THEN Calling([shown EXCEPT !.active = TRUE], k, "syncTurn", "page")
            ELSE Settle([shown EXCEPT !.active = TRUE], k)

OnSyncTurn(p, k, a) ==
    IF p.screen THEN Settle([p EXCEPT !.turn = a.turn], k) ELSE Ended(p)

\* openThread, when its page of turns is there.
OnOpen(p, k, a) ==
    IF ~p.screen THEN Ended(p)
    ELSE IF a.turn # NoTurn THEN Ended([p EXCEPT !.active = TRUE, !.turn = a.turn])
    ELSE Ended(IF k.flag THEN p ELSE NotActive(p))

Answered(p, k, a) ==
    CASE k.pc = "start"    -> OnStart(p, k, a)
      [] k.pc = "locate"   -> OnLocate(p, k, a)
      [] k.pc = "check"    -> OnCheck(p, k, a)
      [] k.pc = "steer"    -> OnSteer(p, k, a)
      [] k.pc = "verify"   -> OnVerify(p, k, a)
      [] k.pc = "relocate" -> OnRelocate(p, k, a)
      [] k.pc = "settle"   -> SettleAnswered(p, k, a)
      [] k.pc = "sync"     -> OnSync(p, k, a)
      [] k.pc = "syncTurn" -> OnSyncTurn(p, k, a)
      [] k.pc = "refresh"  -> Settle(p, k)
      [] k.pc = "open"     -> OnOpen(p, k, a)

\* The call was rejected.  A steer that failed with the connection up asks
\* whether the turn still runs; synchronising and opening only note it,
\* refreshing not even that.
OnRejected(p, k) ==
    IF k.pc = "refresh" THEN Settle(p, k)
    ELSE IF k.kind \in {"sync", "open"} THEN Ended(p)
    ELSE IF k.pc = "steer" /\ p.connected THEN Calling(p, k, "verify", "read")
    ELSE Fail(p, k, FALSE)

(***************************************************************************)
(* Codex, as far as the page can tell.                                     *)
(***************************************************************************)
TellsOf(c, m) == [c EXCEPT !.told[m] = @ + 1]

Fresh(c) == [c EXCEPT !.turn = c.last + 1, !.last = c.last + 1]

Note(op, turn) == [op |-> op, of |-> "", turn |-> turn, slot |-> NoSlot]

Answer(r, s, ok, turn) ==
    [op |-> "answer", of |-> r.op, slot |-> s, ok |-> ok, turn |-> turn,
     has |-> IF r.op = "page" THEN {m \in Msgs : codex.told[m] > 0} ELSE {}]

\* What it sends after rest, if the connection still carries it.
Says(rest, q) == down' = IF link = "up" THEN rest \o q ELSE rest

\* Request r of task s: starting a turn, steering the one that runs, or
\* reading the thread or its last page of turns.
Handle(r, s, rest) ==
    CASE r.op = "start" /\ codex.turn = NoTurn ->
             /\ codex.last < MaxTurns
             /\ codex' = TellsOf(Fresh(codex), r.m)
             /\ Says(rest, <<Answer(r, s, TRUE, codex'.turn), Note("started", codex'.turn)>>)
      [] r.op = "steer" /\ codex.turn = r.turn ->
             /\ codex' = TellsOf(codex, r.m)
             /\ Says(rest, <<Answer(r, s, TRUE, r.turn)>>)
      [] \/ r.op = "start" /\ codex.turn # NoTurn
         \/ r.op = "steer" /\ codex.turn # r.turn ->
             /\ UNCHANGED codex
             /\ Says(rest, <<Answer(r, s, FALSE, NoTurn)>>)
      [] r.op \in {"read", "page"} ->
             /\ UNCHANGED codex
             /\ Says(rest, <<Answer(r, s, TRUE, codex.turn)>>)

LateArrives ==
    /\ late # <<>>
    /\ Handle(Head(late), NoSlot, down)
    /\ late' = Tail(late)
    /\ UNCHANGED <<phone, task, link, mishaps, sent, raced, doubted, wandered, erred>>

\* What is said of the turn may overtake the acknowledgements of steers.
SaysOfTurn(op) ==
    \E i \in 0 .. Len(down) :
        LET rest == SubSeq(down, i + 1, Len(down))
        IN /\ \A j \in DOMAIN rest : rest[j].of = "steer"
           /\ down' = IF link = "up"
                      THEN SubSeq(down, 1, i) \o <<Note(op, codex.turn)>> \o rest
                      ELSE down

TurnEnds ==
    /\ codex.turn # NoTurn
    /\ codex' = [codex EXCEPT !.turn = NoTurn]
    /\ SaysOfTurn("completed")
    /\ UNCHANGED <<phone, task, link, late, mishaps, sent, raced, doubted, wandered, erred>>

\* Somebody at the desktop starts a turn.
DesktopStarts ==
    /\ codex.turn = NoTurn /\ codex.last < MaxTurns
    /\ codex' = Fresh(codex)
    /\ Says(down, <<Note("started", codex'.turn)>>)
    /\ UNCHANGED <<phone, task, link, late, mishaps, sent, raced, doubted, wandered, erred>>

(***************************************************************************)
(* Each mishap happens once, up to the bound: the user wanders off, the    *)
(* connection is lost or the page reloaded, a call times out, Codex tells  *)
(* of an error of the turn.                                                *)
(***************************************************************************)
Befalls(x) ==
    /\ x \notin mishaps /\ Cardinality(mishaps) < MaxMishaps
    /\ mishaps' = mishaps \cup {x}

\* The turn goes on with what it tried in vain, or ends of it.
TurnErrs ==
    /\ codex.turn # NoTurn
    /\ Befalls("error")
    /\ erred' = erred \cup {codex.turn}
    /\ SaysOfTurn("error")
    /\ UNCHANGED <<phone, task, link, late, codex, sent, raced, doubted, wandered>>

(***************************************************************************)
(* Tasks.                                                                  *)
(***************************************************************************)
\* The answers to the calls of s are nobody's any more.
Disown(q, s) ==
    [i \in DOMAIN q |-> IF q[i].slot = s THEN [q[i] EXCEPT !.slot = NoSlot] ELSE q[i]]

\* Task s goes on as o says; rest is still on its way to the page.
GoesOn(s, o, rest) ==
    /\ phone' = o.p
    /\ task' = [task EXCEPT ![s] = o.k]
    /\ IF o.q = <<>> THEN down' = rest /\ UNCHANGED <<codex, late>>
       ELSE IF link = "broken"
            THEN late' = late \o o.q /\ down' = rest /\ UNCHANGED codex
       ELSE Handle(o.q[1], s, rest) /\ UNCHANGED late

\* The first free slot.
FreeSlot(s) == task[s].pc = "free" /\ \A r \in Slots : r < s => task[r].pc # "free"

\* The submissions that are on their way while another task still sends or
\* concludes about one.
Contested(t) ==
    LET senders  == {s \in Slots : t[s].kind \in {"send", "bare"}}
        settlers == {s \in Slots : t[s].pc = "settle"}
    IN IF senders = {} \/ Cardinality(senders \cup settlers) < 2 THEN {}
       ELSE {t[s].m : s \in senders \cup settlers}

Races == raced' = raced \cup (Contested(task') \cap Msgs)

(***************************************************************************)
(* The user.                                                               *)
(***************************************************************************)
\* The user writes a message, or sends again the one that was given back;
\* the input is disabled while a submission of the thread is on its way.
Sends(s, m) ==
    /\ phone.screen /\ phone.connected
    /\ phone.pending = NoMsg /\ \A r \in Slots : task[r].kind # "send"
    /\ IF phone.composer = NoMsg THEN m \notin sent ELSE m = phone.composer
    /\ FreeSlot(s)
    /\ GoesOn(s, Submission(phone, [Free EXCEPT !.kind = "send", !.m = m, !.flag = TRUE]), down)
    /\ sent' = sent \cup {m}
    /\ Races
    /\ UNCHANGED <<link, mishaps, doubted, wandered, erred>>

\* The user opens another thread; the composer becomes this one's draft.
Leaves ==
    /\ phone.screen
    /\ Befalls("wander")
    /\ phone' = [phone EXCEPT !.screen = FALSE]
    /\ wandered' = (wandered \cup {phone.pending, phone.stored}
                        \cup {task[s].m : s \in Slots}) \ {NoMsg}
    /\ UNCHANGED <<task, link, down, late, codex, sent, raced, doubted, erred>>

Shown(p) == [p EXCEPT !.screen = TRUE,
                      !.pending = IF @ = NoMsg THEN p.stored ELSE @]

\* openThread: an earlier opening is superseded.
Returns(s) ==
    /\ ~phone.screen /\ phone.connected
    /\ IF \E r \in Slots : task[r].kind = "open" THEN task[s].kind = "open" ELSE FreeSlot(s)
    /\ GoesOn(s, Calling(Shown(phone), [Free EXCEPT !.kind = "open", !.flag = phone.listed],
                         "open", "page"), Disown(down, s))
    /\ UNCHANGED <<link, mishaps, sent, raced, doubted, wandered, erred>>

(***************************************************************************)
(* What the page receives.                                                 *)
(***************************************************************************)
TurnStarted(p, turn) ==
    [p EXCEPT !.active = TRUE, !.turn = turn, !.listed = TRUE]

TurnCompleted(p, turn) ==
    [p EXCEPT !.active = FALSE, !.turn = NoTurn, !.done = turn, !.listed = FALSE]

\* An error is not taken for the end of the turn.
TurnErred(p) == [p EXCEPT !.active = FALSE, !.turn = NoTurn, !.listed = FALSE]

Noticed(p, n) ==
    CASE n.op = "started"   -> TurnStarted(p, n.turn)
      [] n.op = "completed" -> TurnCompleted(p, n.turn)
      [] n.op = "error"     -> TurnErred(p)

\* A turn that completed while a submission is pending has it settled soon.
Notified(s) ==
    /\ down # <<>> /\ Head(down).op \in {"started", "completed", "error"}
    /\ FreeSlot(s)
    /\ down' = Tail(down)
    /\ phone' = Noticed(phone, Head(down))
    /\ task' = IF Head(down).op = "completed" /\ phone.pending # NoMsg
               THEN [task EXCEPT ![s] = [Free EXCEPT !.kind = "notice", !.pc = "pause"]]
               ELSE task
    /\ UNCHANGED <<link, late, codex, mishaps, sent, raced, doubted, wandered, erred>>

\* A quarter of a second after a turn completed.
Settles(s) ==
    /\ task[s].pc = "pause"
    /\ LET o == Settle(phone, task[s])
       IN GoesOn(s, IF o.q # <<>> /\ ~phone.connected THEN Fail(o.p, o.k, FALSE) ELSE o, down)
    /\ Races
    /\ UNCHANGED <<link, mishaps, sent, doubted, wandered, erred>>

\* The answer to a call nobody waits for any more is dropped.
Receives ==
    /\ down # <<>> /\ Head(down).op = "answer"
    /\ LET a == Head(down)
       IN IF a.slot = NoSlot
          THEN down' = Tail(down) /\ UNCHANGED <<phone, task, codex, late>>
          ELSE GoesOn(a.slot, Answered(phone, task[a.slot], a), Tail(down))
    /\ Races
    /\ UNCHANGED <<link, mishaps, sent, doubted, wandered, erred>>

TimesOut(s) ==
    /\ Befalls("timeout")
    /\ task[s].pc \notin Unawaited
    /\ GoesOn(s, OnRejected(phone, task[s]), Disown(down, s))
    /\ Races
    /\ doubted' = doubted \cup ({phone.pending, task[s].m} \cap Msgs)
    /\ UNCHANGED <<link, sent, wandered, erred>>

(***************************************************************************)
(* The connection.                                                         *)
(***************************************************************************)
Breaks ==
    /\ link = "up" /\ link' = "broken"
    /\ Befalls("loss")
    /\ UNCHANGED <<phone, task, down, late, codex, sent, raced, doubted, wandered, erred>>

\* What was sent over the broken connection may still arrive.
Closed ==
    /\ link = "broken"
    /\ link' = "down" /\ down' = <<>>
    /\ doubted' = doubted \cup ({late[i].m : i \in DOMAIN late} \cap Msgs)

\* rejectAll, on a closed socket or when the desktop's session ended: what a
\* continuation would ask next is not asked, and without a connection they all
\* leave the page as it is, or all that do not leave it the same.
Disconnects ==
    /\ Closed
    /\ LET lost  == [phone EXCEPT !.connected = FALSE]
           after == {OnRejected(lost, task[s]).p : s \in {r \in Slots : task[r].pc \notin Unawaited}}
       IN phone' \in IF after \subseteq {lost} THEN {lost} ELSE after \ {lost}
    /\ task' = [s \in Slots |-> IF task[s].pc = "pause" THEN task[s] ELSE Free]
    /\ UNCHANGED <<late, codex, mishaps, sent, raced, wandered, erred>>

\* The page is loaded anew: what localStorage holds is what is left.
Reloads ==
    /\ Closed
    /\ phone' = [phone EXCEPT !.connected = FALSE, !.entered = FALSE, !.active = FALSE,
                              !.turn = NoTurn, !.done = NoTurn, !.listed = FALSE,
                              !.pending = NoMsg, !.intent = "start"]
    /\ task' = [s \in Slots |-> Free]
    /\ UNCHANGED <<late, codex, mishaps, sent, raced, wandered, erred>>

\* The session is open and the thread list is there.  A session that went on
\* is reconciled, otherwise the selected thread is opened.
Reconnects(s, how) ==
    /\ link = "down" /\ link' = "up"
    /\ FreeSlot(s)
    /\ how = "sync" => phone.entered
    /\ LET p == [phone EXCEPT !.connected = TRUE, !.entered = TRUE,
                              !.listed = (codex.turn # NoTurn)]
           k == [Free EXCEPT !.kind = how, !.pc = how,
                             !.flag = (how = "open" /\ p.listed)]
           r == [op |-> IF how = "sync" THEN "read" ELSE "page", m |-> NoMsg, turn |-> NoTurn]
       IN /\ phone' = IF how = "open" /\ p.screen THEN Shown(p) ELSE p
          /\ task' = IF p.screen THEN [task EXCEPT ![s] = k] ELSE task
          /\ down' = IF p.screen THEN <<Answer(r, s, TRUE, codex.turn)>> ELSE <<>>
    /\ UNCHANGED <<late, codex, mishaps, sent, raced, doubted, wandered, erred>>

PhoneNext ==
    \/ \E s \in Slots : \E m \in Msgs : Sends(s, m)
    \/ \E s \in Slots :
           Returns(s) \/ Notified(s) \/ Settles(s) \/ TimesOut(s)
    \/ \E s \in Slots : \E how \in {"sync", "open"} : Reconnects(s, how)
    \/ Leaves \/ Receives \/ Breaks \/ Disconnects \/ Reloads
    \/ LateArrives \/ TurnEnds \/ TurnErrs \/ DesktopStarts

PhoneSpec == PhoneInit /\ [][PhoneNext]_phone_vars

(***************************************************************************)
(* Properties.  raced: two continuations were at the message.  doubted: a  *)
(* call about it timed out, or a frame with it was late.  wandered: the    *)
(* thread was not on the screen at some time between its sending and its   *)
(* settling.  erred: the turns Codex told an error of.                     *)
(***************************************************************************)
Kept(m) ==
    \/ codex.told[m] > 0
    \/ m \in {phone.pending, phone.stored, phone.composer}

\* A message that was sent reaches Codex, or the app still means to find
\* out, or it is back in the composer, across lost connections, timeouts and
\* reloads, unless the user wanders off or two continuations are at it.
SentIsKept == \A m \in sent \ (wandered \cup raced) : Kept(m)

\* Neither a steer that becomes a start, nor a start that becomes a steer,
\* nor a message the user sends again tells Codex the same thing twice, and
\* what is given back as not sent was not, unless two continuations were at
\* it, a call about it timed out or a frame with it was late.
ToldOnce ==
    \A m \in sent \ (raced \cup doubted) :
        codex.told[m] <= IF phone.composer = m THEN 0 ELSE 1

Quiet == link = "up" /\ down = <<>> /\ \A s \in Slots : task[s].pc = "free"

\* Once everything is answered the page shows no turn that is over, and
\* shows the one the thread on its screen is at unless Codex told of an error
\* of it, whatever the page missed while away, until a call times out.
ViewAgrees ==
    phone.screen /\ Quiet /\ "timeout" \notin mishaps =>
        /\ phone.active => codex.turn # NoTurn
        /\ codex.turn \notin erred \cup {NoTurn} => phone.active

\* The page shows a turn that runs as long as it runs.
ViewIsExact ==
    phone.screen /\ Quiet /\ "timeout" \notin mishaps =>
        phone.active = (codex.turn # NoTurn)

=============================================================================

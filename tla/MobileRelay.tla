----------------------------- MODULE MobileRelay -------------------------------
(***************************************************************************)
(* The relay server, apps/codex-plus-mobile-relay/src/main.rs: a room per  *)
(* credential with one slot for the desktop host and one for the phone,    *)
(* and per connection a reader (the handler itself), an unbounded channel  *)
(* and a writer task.  Registration, the lookup of a forward and           *)
(* unregistration each run under the one lock of RelayState; the send that *)
(* follows a lookup, the writers and the readers run between them in any   *)
(* order.  Conns are the connections of a behaviour, each used once.       *)
(***************************************************************************)
EXTENDS Integers, FiniteSets, Sequences

CONSTANTS
  Conns, Rooms, Tokens,
  Arrivals,    \* what the connections may register as
  None,        \* no connection
  NoRoom,      \* no entry in the map of rooms
  MaxForwards  \* bound: frames read from peers in a behaviour

Roles == {"host", "client"}
Other(role) == IF role = "host" THEN "client" ELSE "host"

Registrations == [role : Roles, room : Rooms, token : Tokens]

RoomRecords == [token : Tokens, slot : [Roles -> Conns \cup {None}]]

(* A frame the relay sends: its own notices, or data passed on. *)
Notices == {"registered", "HOST_OFFLINE", "CLIENT_REPLACED", "TOKEN_MISMATCH",
            "RATE_LIMITED", "INVALID_REGISTRATION", "close"}
Notice(kind) == [kind |-> kind, from |-> None, n |-> 0]
Frames == [kind : Notices \cup {"data"}, from : Conns \cup {None}, n : Nat]

PCs == {"new", "live", "sending", "leaving", "unregistered", "gone"}

ASSUME RelayAssumption ==
  /\ IsFiniteSet(Conns) /\ MaxForwards \in Nat
  /\ Arrivals \subseteq [Conns -> Registrations]
  /\ None \notin Conns
  /\ NoRoom \notin RoomRecords

VARIABLES
  rooms,      \* RelayState.rooms
  active, total, rejected, forwarded,  \* its counters
  pc, reg,    \* each handler's place and its registration
  target,     \* the channel a forward has looked up and not yet sent to
  queue,      \* each channel
  writer,     \* is the writer task (which owns the receiver) running?
  sock,       \* does the peer still read?
  got         \* history: the frames each peer received

counters == <<active, total, rejected>>
tasks == <<pc, reg, target>>
pipes == <<queue, writer, sock, got>>
vars == <<rooms, counters, forwarded, tasks, pipes>>

Init ==
  /\ rooms = [r \in Rooms |-> NoRoom]
  /\ active = 0 /\ total = 0 /\ rejected = 0 /\ forwarded = 0
  /\ pc = [c \in Conns |-> "new"]
  /\ reg \in Arrivals
  /\ target = [c \in Conns |-> None]
  /\ queue = [c \in Conns |-> <<>>]
  /\ writer = [c \in Conns |-> FALSE]
  /\ sock = [c \in Conns |-> TRUE]
  /\ got = [c \in Conns |-> <<>>]

RoomOf(c) == rooms[reg[c].room]
IsEmpty(room) == \A role \in Roles : room.slot[role] = None

(* Registered and not yet unregistered. *)
Counted(c) == pc[c] \in {"live", "sending", "leaving"}

(* same_channel: the connection is still the one its room's slot names. *)
HoldsSlot(c) == RoomOf(c) # NoRoom /\ RoomOf(c).slot[reg[c].role] = c

(* Mutant: a frame overtakes those already queued. *)
SentFirst(q, c, frames) ==
  IF c # None /\ writer[c] THEN [q EXCEPT ![c] = frames \o @] ELSE q

(* UnboundedSender::send: lost once the writer has dropped the receiver. *)
Sent(q, c, frames) ==
  IF c # None /\ writer[c] THEN [q EXCEPT ![c] = @ \o frames] ELSE q

Leave(c, at) == pc' = [pc EXCEPT ![c] = at]

----
(* Registration. *)

Refuse(c, code) ==
  /\ Leave(c, "gone")
  /\ got' = [got EXCEPT ![c] = <<Notice(code), Notice("close")>>]
  /\ UNCHANGED <<forwarded, active, reg, target, queue, writer, sock>>

(* No registration in the URI, and none that parses within ten seconds. *)
RejectInvalid(c) ==
  /\ pc[c] = "new"
  /\ Refuse(c, "INVALID_REGISTRATION")
  /\ UNCHANGED <<rooms, total, rejected>>

(* The limiter (module RateLimiter) turns the address away. *)
RejectRateLimited(c) ==
  /\ pc[c] = "new"
  /\ Refuse(c, "RATE_LIMITED")
  /\ rejected' = rejected + 1
  /\ UNCHANGED <<rooms, total>>

(* The room as register_peer finds it or makes it; an empty one changes    *)
(* hands.                                                                  *)
EmptyRoom(token) == [token |-> token, slot |-> [role \in Roles |-> None]]

Entered(c) ==
  IF RoomOf(c) = NoRoom \/ IsEmpty(RoomOf(c)) THEN EmptyRoom(reg[c].token)
  ELSE RoomOf(c)

RejectMismatch(c) ==
  /\ pc[c] = "new"
  /\ Entered(c).token # reg[c].token
  /\ Refuse(c, "TOKEN_MISMATCH")
  /\ total' = total + 1 /\ rejected' = rejected + 1
  /\ UNCHANGED rooms

HostMissing(c) == reg[c].role = "client" /\ Entered(c).slot["host"] = None

(* A phone whose desktop is away leaves no empty room behind. *)
RejectHostOffline(c) ==
  /\ pc[c] = "new"
  /\ Entered(c).token = reg[c].token /\ HostMissing(c)
  /\ Refuse(c, "HOST_OFFLINE")
  /\ total' = total + 1 /\ rejected' = rejected + 1
  /\ rooms' = [rooms EXCEPT ![reg[c].room] =
                 IF IsEmpty(Entered(c)) THEN NoRoom ELSE Entered(c)]

(* Mutant: whoever is replaced is only told why. *)
FarewellWithoutClose(role) == <<Notice("CLIENT_REPLACED")>>

(* What the connection it replaces is sent. *)
Farewell(role) ==
  IF role = "client" THEN <<Notice("CLIENT_REPLACED"), Notice("close")>>
  ELSE <<Notice("close")>>

Register(c) ==
  LET room == Entered(c)
      role == reg[c].role
  IN /\ pc[c] = "new"
     /\ room.token = reg[c].token /\ ~HostMissing(c)
     /\ rooms' = [rooms EXCEPT ![reg[c].room] = [room EXCEPT !.slot[role] = c]]
     /\ active' = active + 1 /\ total' = total + 1
     /\ queue' = [Sent(queue, room.slot[role], Farewell(role)) EXCEPT
                    ![c] = <<Notice("registered")>>]
     /\ writer' = [writer EXCEPT ![c] = TRUE]
     /\ Leave(c, "live")
     /\ UNCHANGED <<rejected, forwarded, reg, target, sock, got>>

----
(* Forwarding. *)

(* A data frame of at most 2 MiB arrives: forward_message counts it and    *)
(* looks its target up under the lock ...                                  *)
Forward(c) ==
  LET to == IF RoomOf(c) = NoRoom THEN None ELSE RoomOf(c).slot[Other(reg[c].role)]
  IN /\ pc[c] = "live" /\ sock[c]
     /\ forwarded < MaxForwards
     /\ forwarded' = forwarded + 1
     /\ target' = [target EXCEPT ![c] = to]
     /\ Leave(c, IF to = None THEN "live" ELSE "sending")
     /\ UNCHANGED <<rooms, counters, reg, pipes>>

(* ... and sends after releasing it. *)
Send(c) ==
  /\ pc[c] = "sending"
  /\ queue' = Sent(queue, target[c],
                   <<[kind |-> "data", from |-> c, n |-> forwarded]>>)
  /\ target' = [target EXCEPT ![c] = None]
  /\ Leave(c, "live")
  /\ UNCHANGED <<rooms, counters, forwarded, reg, writer, sock, got>>

----
(* The writer task and the peer. *)

Stop(c) ==
  /\ writer' = [writer EXCEPT ![c] = FALSE]
  /\ queue' = [queue EXCEPT ![c] = <<>>]

(* One frame reaches the peer; the writer ends after a close.  What a dead *)
(* connection's buffers swallow is left in the queue here.                 *)
Write(c) ==
  /\ writer[c] /\ sock[c] /\ queue[c] # <<>>
  /\ got' = [got EXCEPT ![c] = Append(@, Head(queue[c]))]
  /\ IF Head(queue[c]).kind = "close"
     THEN Stop(c)
     ELSE queue' = [queue EXCEPT ![c] = Tail(@)] /\ UNCHANGED writer
  /\ UNCHANGED <<rooms, counters, forwarded, tasks, sock>>

(* A frame or a keepalive ping cannot be written any more. *)
WriteFails(c) ==
  /\ writer[c] /\ ~sock[c]
  /\ Stop(c)
  /\ UNCHANGED <<rooms, counters, forwarded, tasks, sock, got>>

(* The phone is locked, the computer sleeps, the network drops. *)
PeerVanishes(c) ==
  /\ Counted(c) /\ sock[c]
  /\ sock' = [sock EXCEPT ![c] = FALSE]
  /\ UNCHANGED <<rooms, counters, forwarded, tasks, queue, writer, got>>

----
(* The end of a connection. *)

(* A close from the peer, a read error or a frame over the limit. *)
ReaderEnds(c) ==
  /\ pc[c] = "live"
  /\ Leave(c, "leaving")
  /\ UNCHANGED <<rooms, counters, forwarded, reg, target, pipes>>

(* The other arm of the select: the writer task has ended. *)
WriterEnded(c) ==
  /\ pc[c] = "live" /\ ~writer[c]
  /\ Leave(c, "leaving")
  /\ UNCHANGED <<rooms, counters, forwarded, reg, target, pipes>>

(* Mutant: the slot of the leaving connection is not cleared. *)
VacatedNothing(c) == RoomOf(c)

(* The room once the leaving connection's slot is cleared: a host takes    *)
(* the phone with it, and an empty room goes.                              *)
Vacated(c) ==
  LET room == IF reg[c].role = "host" THEN EmptyRoom(RoomOf(c).token)
              ELSE [RoomOf(c) EXCEPT !.slot["client"] = None]
  IN IF IsEmpty(room) THEN NoRoom ELSE room

(* unregister_peer *)
Unregister(c) ==
  /\ pc[c] = "leaving"
  /\ active' = active - 1
  /\ rooms' = IF HoldsSlot(c) THEN [rooms EXCEPT ![reg[c].room] = Vacated(c)] ELSE rooms
  /\ queue' = IF HoldsSlot(c) /\ reg[c].role = "host"
              THEN Sent(queue, RoomOf(c).slot["client"],
                        <<Notice("HOST_OFFLINE"), Notice("close")>>)
              ELSE queue
  /\ Leave(c, "unregistered")
  /\ UNCHANGED <<total, rejected, forwarded, reg, target, writer, sock, got>>

(* writer.abort() *)
Abort(c) ==
  /\ pc[c] = "unregistered"
  /\ Stop(c)
  /\ Leave(c, "gone")
  /\ UNCHANGED <<rooms, counters, forwarded, reg, target, sock, got>>

----
Handler(c) ==
  \/ RejectInvalid(c) \/ RejectRateLimited(c) \/ RejectMismatch(c)
  \/ RejectHostOffline(c) \/ Register(c)
  \/ Forward(c) \/ Send(c)
  \/ ReaderEnds(c) \/ WriterEnded(c) \/ Unregister(c) \/ Abort(c)

Next == \E c \in Conns : Handler(c) \/ Write(c) \/ WriteFails(c) \/ PeerVanishes(c)

Safety == Init /\ [][Next]_vars

(* Tokio keeps polling every task; select! picks at random among its ready *)
(* arms, so an arm that is ready again and again is taken in the end.      *)
Fairness ==
  \A c \in Conns :
    /\ WF_vars(Send(c)) /\ WF_vars(Write(c)) /\ WF_vars(WriteFails(c))
    /\ SF_vars(WriterEnded(c)) /\ WF_vars(Unregister(c)) /\ WF_vars(Abort(c))

Spec == Safety /\ Fairness

----
(* Properties. *)

(* Every variable has its type. *)
TypeOK ==
  /\ rooms \in [Rooms -> RoomRecords \cup {NoRoom}]
  /\ active \in Nat /\ total \in Nat /\ rejected \in Nat /\ forwarded \in Nat
  /\ pc \in [Conns -> PCs] /\ reg \in [Conns -> Registrations]
  /\ target \in [Conns -> Conns \cup {None}]
  /\ queue \in [Conns -> Seq(Frames)] /\ got \in [Conns -> Seq(Frames)]
  /\ writer \in [Conns -> BOOLEAN] /\ sock \in [Conns -> BOOLEAN]

(* A room in the map always has a host: no phone is left waiting in a room *)
(* without a desktop, and no empty room survives a handler.                *)
RoomsHaveHosts ==
  \A r \in Rooms : rooms[r] # NoRoom => rooms[r].slot["host"] # None

(* Whoever a slot names is a registered connection of that room, role and  *)
(* token that has not unregistered, whatever replaced what in the          *)
(* meantime.                                                               *)
SlotsNameTheirOwners ==
  \A r \in Rooms : \A role \in Roles :
    rooms[r] # NoRoom /\ rooms[r].slot[role] # None =>
      LET c == rooms[r].slot[role]
      IN Counted(c) /\ reg[c] = [role |-> role, room |-> r, token |-> rooms[r].token]

(* The counter the status page shows is the number of connections that     *)
(* registered and have not unregistered; refusals leave it as it was.      *)
ActiveCounts == active = Cardinality({c \in Conns : Counted(c)})

(* The rooms, the slots and the counter tell of the same connections. *)
RegistryAgrees == RoomsHaveHosts /\ SlotsNameTheirOwners /\ ActiveCounts

(* A registered connection that has lost its slot has been told to close,  *)
(* or can no longer be told anything: none keeps listening for frames that *)
(* will never be routed to it.                                             *)
EvictedIsToldToClose ==
  \A c \in Conns :
    Counted(c) /\ ~HoldsSlot(c) /\ writer[c] =>
      \E i \in DOMAIN queue[c] : queue[c][i].kind = "close"

Reasons == {"HOST_OFFLINE", "CLIENT_REPLACED", "TOKEN_MISMATCH", "RATE_LIMITED",
            "INVALID_REGISTRATION"}

(* What a peer sees: "registered" before anything else if it was accepted, *)
(* nothing after a close, and, for a phone, the reason before the close.   *)
PeerStream ==
  \A c \in Conns :
    LET closed(i) == got[c][i].kind = "close"
    IN /\ \A i \in DOMAIN got[c] : closed(i) => i = Len(got[c])
       /\ \A i \in DOMAIN got[c] : got[c][i].kind = "data" => got[c][1].kind = "registered"
       /\ reg[c].role = "client" =>
            \A i \in DOMAIN got[c] : closed(i) =>
              \E j \in 1..(i - 1) : got[c][j].kind \in Reasons

(* Data reaches only the other side of the same room, and the frames of    *)
(* one sender in the order it sent them.                                   *)
DataInOrder ==
  \A c \in Conns : \A i \in DOMAIN got[c] : got[c][i].kind = "data" =>
    /\ reg[got[c][i].from].room = reg[c].room
    /\ reg[got[c][i].from].role = Other(reg[c].role)
    /\ \A j \in 1..(i - 1) : got[c][j].from = got[c][i].from => got[c][j].n < got[c][i].n

(* What a peer is sent, from the registration to the close. *)
FramesMakeSense == PeerStream /\ DataInOrder

(* A connection that has lost its slot, or whose peer has vanished, is     *)
(* unregistered and its tasks end: it never blocks its room for good.      *)
LostConnectionsEnd ==
  \A c \in Conns :
    Counted(c) /\ (~HoldsSlot(c) \/ ~sock[c]) ~> pc[c] = "gone"

(* "A room admits a single active phone or tab" (docs/mobile/              *)
(* Architecture.md:510): what is forwarded comes from the connection that  *)
(* holds the slot at the time.                                             *)
OnlyTheCurrentPeerSpeaks ==
  [][\A c \in Conns : Forward(c) /\ target'[c] # None => HoldsSlot(c)]_vars
=============================================================================

--------------------------- MODULE MobileRelayProofs ----------------------------
(***************************************************************************)
(* The relay's bookkeeping, for any number of connections, rooms and       *)
(* tokens and whatever they register as: every variable keeps its type,    *)
(* a room always has a host, a slot names a live connection that belongs   *)
(* there, and the counter of active connections is exact.  Below, its      *)
(* limiter of handshakes.                                                  *)
(***************************************************************************)
EXTENDS MobileRelay, RateLimiter, FiniteSetTheorems, SequenceTheorems, TLAPS

CountedSet == {c \in Conns : Counted(c)}

(* TypeOK without the counter of active connections, whose type follows    *)
(* from ActiveCounts.                                                      *)
RoomsTyped == rooms \in [Rooms -> RoomRecords \cup {NoRoom}]

TasksTyped ==
  /\ pc \in [Conns -> PCs] /\ reg \in [Conns -> Registrations]
  /\ target \in [Conns -> Conns \cup {None}]

PipesTyped ==
  /\ queue \in [Conns -> Seq(Frames)] /\ got \in [Conns -> Seq(Frames)]
  /\ writer \in [Conns -> BOOLEAN] /\ sock \in [Conns -> BOOLEAN]

CountsTyped == total \in Nat /\ rejected \in Nat /\ forwarded \in Nat

Sound ==
  /\ RoomsTyped /\ TasksTyped /\ PipesTyped /\ CountsTyped
  /\ RoomsHaveHosts /\ SlotsNameTheirOwners /\ ActiveCounts

----
(* Frames. *)
LEMMA NoticesAreFrames ==
  /\ \A kind \in Notices : Notice(kind) \in Frames /\ <<Notice(kind)>> \in Seq(Frames)
  /\ \A k1, k2 \in Notices : <<Notice(k1), Notice(k2)>> \in Seq(Frames)
<1>1. \A kind \in Notices : Notice(kind) \in Frames
  BY DEF Notice, Frames
<1> QED BY <1>1

LEMMA SentTyped ==
  ASSUME PipesTyped, NEW c \in Conns \cup {None}, NEW frames \in Seq(Frames)
  PROVE  Sent(queue, c, frames) \in [Conns -> Seq(Frames)]
<1>1. CASE c # None /\ writer[c]
  <2>1. c \in Conns /\ queue[c] \o frames \in Seq(Frames)
    BY <1>1 DEF PipesTyped
  <2>2. Sent(queue, c, frames) = [queue EXCEPT ![c] = queue[c] \o frames]
    BY <1>1 DEF Sent
  <2> QED BY <2>1, <2>2 DEF PipesTyped
<1>2. CASE ~(c # None /\ writer[c])
  BY <1>2 DEF Sent, PipesTyped
<1> QED BY <1>1, <1>2

----
(* Rooms. *)
LEMMA RegTyped ==
  ASSUME Sound, NEW c \in Conns
  PROVE  /\ reg[c].role \in Roles /\ reg[c].room \in Rooms /\ reg[c].token \in Tokens
         /\ reg[c] = [role |-> reg[c].role, room |-> reg[c].room, token |-> reg[c].token]
BY DEF Sound, TasksTyped, Registrations

(* A room found in the map is not empty, so it is entered as it is. *)
LEMMA EnteredIs ==
  ASSUME Sound, NEW c \in Conns
  PROVE  /\ Entered(c) = IF RoomOf(c) = NoRoom THEN EmptyRoom(reg[c].token) ELSE RoomOf(c)
         /\ Entered(c) \in RoomRecords
         /\ RoomOf(c) # NoRoom => ~IsEmpty(RoomOf(c))
<1>1. RoomOf(c) # NoRoom => RoomOf(c) \in RoomRecords /\ ~IsEmpty(RoomOf(c))
  BY RegTyped DEF Sound, RoomsTyped, RoomsHaveHosts, RoomOf, IsEmpty, Roles
<1>2. EmptyRoom(reg[c].token) \in RoomRecords
  BY RegTyped DEF EmptyRoom, RoomRecords
<1>3. RoomOf(c) # NoRoom => Entered(c) = RoomOf(c)
  BY <1>1 DEF Entered
<1>4. RoomOf(c) = NoRoom => Entered(c) = EmptyRoom(reg[c].token)
  BY DEF Entered
<1> QED BY <1>1, <1>2, <1>3, <1>4

(* A connection the map names belongs where it is named; one that is not   *)
(* counted is named nowhere.                                               *)
LEMMA Named ==
  ASSUME Sound, NEW r \in Rooms, NEW role \in Roles, NEW c \in Conns,
         rooms[r] # NoRoom, rooms[r].slot[role] = c
  PROVE  Counted(c) /\ reg[c].room = r /\ reg[c].role = role /\ HoldsSlot(c)
<1>1. c # None
  BY RelayAssumption
<1>2. Counted(c) /\ reg[c] = [role |-> role, room |-> r, token |-> rooms[r].token]
  BY <1>1 DEF Sound, SlotsNameTheirOwners
<1> QED BY <1>2 DEF HoldsSlot, RoomOf

(* It is enough to check the slots that name a connection. *)
LEMMA OwnersFromConns ==
  ASSUME RoomsTyped',
         \A r \in Rooms, role \in Roles, c \in Conns :
           rooms'[r] # NoRoom /\ rooms'[r].slot[role] = c =>
             /\ Counted(c)'
             /\ reg'[c] = [role |-> role, room |-> r, token |-> rooms'[r].token]
  PROVE  SlotsNameTheirOwners'
<1> SUFFICES ASSUME NEW r \in Rooms, NEW role \in Roles,
                    rooms'[r] # NoRoom, rooms'[r].slot[role] # None
             PROVE  /\ pc'[rooms'[r].slot[role]] \in {"live", "sending", "leaving"}
                    /\ reg'[rooms'[r].slot[role]]
                         = [role |-> role, room |-> r, token |-> rooms'[r].token]
  BY DEF SlotsNameTheirOwners, Counted
<1>1. rooms'[r].slot[role] \in Conns
  BY DEF RoomsTyped, RoomRecords
<1> QED BY <1>1 DEF Counted

(* Steps that leave the rooms alone and unregister nobody. *)
LEMMA RoomsStay ==
  ASSUME Sound, UNCHANGED <<rooms, reg>>, \A c \in Conns : Counted(c) => Counted(c)'
  PROVE  RoomsTyped' /\ RoomsHaveHosts' /\ SlotsNameTheirOwners'
<1>1. RoomsTyped' /\ RoomsHaveHosts'
  BY DEF Sound, RoomsTyped, RoomsHaveHosts
<1>2. ASSUME NEW r \in Rooms, NEW role \in Roles, NEW c \in Conns,
             rooms'[r] # NoRoom, rooms'[r].slot[role] = c
      PROVE  /\ Counted(c)'
             /\ reg'[c] = [role |-> role, room |-> r, token |-> rooms'[r].token]
  <2>1. rooms[r] # NoRoom /\ rooms[r].slot[role] = c /\ c # None
    BY <1>2, RelayAssumption
  <2>2. Counted(c) /\ reg[c] = [role |-> role, room |-> r, token |-> rooms[r].token]
    BY <2>1 DEF Sound, SlotsNameTheirOwners
  <2> QED BY <2>2
<1>3. SlotsNameTheirOwners'
  BY <1>1, <1>2, OwnersFromConns
<1> QED BY <1>1, <1>3

----
(* Counting. *)
LEMMA CountedFinite == IsFiniteSet(CountedSet) /\ Cardinality(CountedSet) \in Nat
<1>1. IsFiniteSet(CountedSet)
  BY RelayAssumption, FS_Subset DEF CountedSet
<1> QED BY <1>1, FS_CardinalityType

LEMMA SameCount ==
  ASSUME Sound, UNCHANGED active, \A c \in Conns : Counted(c)' <=> Counted(c)
  PROVE  ActiveCounts'
<1>1. {c \in Conns : Counted(c)'} = {c \in Conns : Counted(c)}
  OBVIOUS
<1> QED BY <1>1 DEF Sound, ActiveCounts

LEMMA OneMore ==
  ASSUME Sound, NEW c \in Conns, ~Counted(c), pc' = [pc EXCEPT ![c] = "live"],
         active' = active + 1
  PROVE  ActiveCounts'
<1>1. CountedSet' = CountedSet \cup {c}
  BY DEF CountedSet, Counted, Sound, TasksTyped
<1>2. c \notin CountedSet
  BY DEF CountedSet
<1>3. Cardinality(CountedSet \cup {c}) = Cardinality(CountedSet) + 1
  BY <1>2, CountedFinite, FS_AddElement
<1> QED BY <1>1, <1>3 DEF Sound, ActiveCounts, CountedSet

LEMMA OneLess ==
  ASSUME Sound, NEW c \in Conns, Counted(c), pc' = [pc EXCEPT ![c] = "unregistered"],
         active' = active - 1
  PROVE  ActiveCounts'
<1>1. CountedSet' = CountedSet \ {c}
  BY DEF CountedSet, Counted, Sound, TasksTyped
<1>2. c \in CountedSet
  BY DEF CountedSet
<1>3. Cardinality(CountedSet \ {c}) = Cardinality(CountedSet) - 1
  BY <1>2, CountedFinite, FS_RemoveElement
<1> QED BY <1>1, <1>3 DEF Sound, ActiveCounts, CountedSet

(* A step that changes neither the rooms nor who is counted. *)
LEMMA StepAside ==
  ASSUME Sound, UNCHANGED <<rooms, active, reg>>,
         \A c \in Conns : Counted(c)' <=> Counted(c),
         TasksTyped', PipesTyped', CountsTyped'
  PROVE  Sound'
BY RoomsStay, SameCount DEF Sound

LEMMA LeaveCounts ==
  ASSUME Sound, NEW c \in Conns, NEW at \in PCs, Leave(c, at),
         at \in {"live", "sending", "leaving"} <=> Counted(c)
  PROVE  /\ pc' \in [Conns -> PCs]
         /\ \A d \in Conns : Counted(d)' <=> Counted(d)
BY DEF Sound, TasksTyped, Leave, Counted

----
(* The refusals. *)
LEMMA RefuseTyped ==
  ASSUME Sound, NEW c \in Conns, NEW code \in Notices, pc[c] = "new", Refuse(c, code)
  PROVE  /\ TasksTyped' /\ PipesTyped' /\ UNCHANGED <<active, reg, forwarded>>
         /\ \A d \in Conns : Counted(d)' <=> Counted(d)
<1>1. <<Notice(code), Notice("close")>> \in Seq(Frames)
  BY NoticesAreFrames DEF Notices
<1>2. PipesTyped'
  BY <1>1 DEF Refuse, Sound, PipesTyped
<1>3. pc' \in [Conns -> PCs] /\ \A d \in Conns : Counted(d)' <=> Counted(d)
  BY LeaveCounts DEF Refuse, Counted, PCs
<1> QED BY <1>2, <1>3 DEF Refuse, Sound, TasksTyped

LEMMA RejectsKeep ==
  ASSUME Sound, NEW c \in Conns,
         RejectInvalid(c) \/ RejectRateLimited(c) \/ RejectMismatch(c)
  PROVE  Sound'
<1>1. PICK code \in Notices : pc[c] = "new" /\ Refuse(c, code)
  BY DEF RejectInvalid, RejectRateLimited, RejectMismatch, Notices
<1>2. UNCHANGED rooms /\ CountsTyped'
  BY <1>1 DEF RejectInvalid, RejectRateLimited, RejectMismatch, Refuse, Sound, CountsTyped
<1> QED BY <1>1, <1>2, RefuseTyped, StepAside

(* The room a phone is refused in does not stay in the map. *)
LEMMA RefusedRoomGoes ==
  ASSUME Sound, NEW c \in Conns, RejectHostOffline(c)
  PROVE  rooms' = rooms
<1>1. RoomOf(c) = NoRoom
  <2>1. Entered(c).slot["host"] = None
    BY DEF RejectHostOffline, HostMissing
  <2>2. RoomOf(c) # NoRoom => RoomOf(c).slot["host"] # None
    BY RegTyped DEF Sound, RoomsHaveHosts, RoomOf
  <2> QED BY <2>1, <2>2, EnteredIs
<1>2. IsEmpty(Entered(c))
  BY <1>1, EnteredIs DEF IsEmpty, EmptyRoom
<1>3. rooms' = [rooms EXCEPT ![reg[c].room] = NoRoom]
  BY <1>2 DEF RejectHostOffline
<1> QED BY <1>1, <1>3, RegTyped DEF Sound, RoomsTyped, RoomOf

LEMMA RejectHostOfflineKeeps ==
  ASSUME Sound, NEW c \in Conns, RejectHostOffline(c)
  PROVE  Sound'
<1>1. pc[c] = "new" /\ Refuse(c, "HOST_OFFLINE") /\ "HOST_OFFLINE" \in Notices
  BY DEF RejectHostOffline, Notices
<1>2. CountsTyped'
  BY <1>1 DEF RejectHostOffline, Refuse, Sound, CountsTyped
<1> QED BY <1>1, <1>2, RefusedRoomGoes, RefuseTyped, StepAside

----
(* Registration puts the newcomer where it belongs and leaves the other    *)
(* slot to its owner.                                                      *)
LEMMA RegisterKeeps ==
  ASSUME Sound, NEW c \in Conns, Register(c)
  PROVE  Sound'
<1> DEFINE room == Entered(c)
           role == reg[c].role
           here == reg[c].room
           entered == [room EXCEPT !.slot[role] = c]
<1>1. /\ pc[c] = "new" /\ room.token = reg[c].token /\ ~HostMissing(c)
      /\ rooms' = [rooms EXCEPT ![here] = entered]
      /\ active' = active + 1 /\ total' = total + 1
      /\ queue' = [Sent(queue, room.slot[role], Farewell(role)) EXCEPT
                     ![c] = <<Notice("registered")>>]
      /\ writer' = [writer EXCEPT ![c] = TRUE]
      /\ pc' = [pc EXCEPT ![c] = "live"]
      /\ UNCHANGED <<rejected, forwarded, reg, target, sock, got>>
  BY DEF Register, Leave
<1>2. /\ room \in RoomRecords /\ role \in Roles /\ here \in Rooms /\ ~Counted(c)
      /\ reg[c] = [role |-> role, room |-> here, token |-> room.token]
  BY <1>1, EnteredIs, RegTyped DEF Counted
<1>3. TasksTyped' /\ CountsTyped'
  BY <1>1 DEF Sound, TasksTyped, CountsTyped, PCs
<1>4. PipesTyped'
  <2>1. room.slot[role] \in Conns \cup {None}
    BY <1>2 DEF RoomRecords
  <2>2. Farewell(role) \in Seq(Frames) /\ <<Notice("registered")>> \in Seq(Frames)
    BY NoticesAreFrames DEF Farewell, Notices
  <2>3. Sent(queue, room.slot[role], Farewell(role)) \in [Conns -> Seq(Frames)]
    <3> HIDE DEF room, role
    <3> QED BY <2>1, <2>2, SentTyped DEF Sound
  <2> HIDE DEF room, role
  <2> QED BY <1>1, <2>2, <2>3 DEF Sound, PipesTyped
<1>5. ActiveCounts'
  BY <1>1, <1>2, OneMore
<1>6. /\ entered \in RoomRecords /\ entered.token = room.token
      /\ entered.slot[role] = c
      /\ \A other \in Roles : other # role => entered.slot[other] = room.slot[other]
  <2> HIDE DEF room, role
  <2> QED BY <1>2 DEF RoomRecords
<1> HIDE DEF room, role, here, entered
<1>7. RoomsTyped'
  BY <1>1, <1>6 DEF Sound, RoomsTyped
<1>8. \A r \in Rooms : rooms'[r] = IF r = here THEN entered ELSE rooms[r]
  BY <1>1 DEF Sound, RoomsTyped
<1>9. entered.slot["host"] # None
  <2>1. CASE role = "host"
    BY <1>6, <2>1, RelayAssumption
  <2>2. CASE role = "client"
    <3>1. room.slot["host"] # None
      BY <1>1, <2>2 DEF HostMissing, room, role
    <3> QED BY <1>6, <2>2, <3>1 DEF Roles
  <2> QED BY <1>2, <2>1, <2>2 DEF Roles
<1>10. RoomsHaveHosts'
  BY <1>8, <1>9 DEF Sound, RoomsHaveHosts
<1>11. ASSUME NEW r \in Rooms, NEW slot \in Roles, NEW d \in Conns,
              rooms'[r] # NoRoom, rooms'[r].slot[slot] = d
       PROVE  Counted(d)' /\ reg'[d] = [role |-> slot, room |-> r, token |-> rooms'[r].token]
  <2>1. CASE r = here /\ slot = role
    BY <1>1, <1>2, <1>6, <1>8, <1>11, <2>1 DEF Counted, Sound, TasksTyped
  <2>2. CASE ~(r = here /\ slot = role)
    <3>1. rooms[r] # NoRoom /\ rooms[r].slot[slot] = d /\ rooms'[r].token = rooms[r].token
      <4>1. CASE r # here
        BY <1>8, <1>11, <4>1
      <4>2. CASE r = here
        <5>1. slot # role /\ room.slot[slot] = d
          BY <1>6, <1>8, <1>11, <2>2, <4>2
        <5>2. room = IF rooms[here] = NoRoom THEN EmptyRoom(reg[c].token) ELSE rooms[here]
          BY EnteredIs DEF room, here, RoomOf
        <5>3. d # None
          BY RelayAssumption
        <5>4. rooms[here] # NoRoom
          BY <5>1, <5>2, <5>3 DEF EmptyRoom
        <5> QED BY <1>6, <1>8, <4>2, <5>1, <5>2, <5>4
      <4> QED BY <4>1, <4>2
    <3>2. d # None /\ Counted(d) /\ reg[d] = [role |-> slot, room |-> r, token |-> rooms[r].token]
      BY <3>1, RelayAssumption DEF Sound, SlotsNameTheirOwners
    <3>3. d # c
      BY <1>2, <3>2
    <3> QED BY <1>1, <3>1, <3>2, <3>3 DEF Counted, Sound, TasksTyped
  <2> QED BY <2>1, <2>2
<1>12. SlotsNameTheirOwners'
  BY <1>7, <1>11, OwnersFromConns
<1> QED BY <1>3, <1>4, <1>5, <1>7, <1>10, <1>12 DEF Sound

----
(* Forwarding, writing and ending a connection leave the rooms alone. *)
LEMMA ForwardKeeps ==
  ASSUME Sound, NEW c \in Conns, Forward(c) \/ Send(c)
  PROVE  Sound'
<1>1. UNCHANGED <<rooms, active, total, rejected, reg, writer, sock, got>>
  BY DEF Forward, Send, counters, pipes
<1>2. CASE Forward(c)
  <2> DEFINE to == IF RoomOf(c) = NoRoom THEN None ELSE RoomOf(c).slot[Other(reg[c].role)]
  <2>1. /\ target' = [target EXCEPT ![c] = to] /\ forwarded' = forwarded + 1
        /\ UNCHANGED queue /\ Counted(c)
        /\ \E at \in {"live", "sending"} : Leave(c, at)
    BY <1>2 DEF Forward, pipes, Counted
  <2>2. to \in Conns \cup {None}
    <3>1. RoomOf(c) # NoRoom => RoomOf(c) \in RoomRecords
      BY RegTyped DEF Sound, RoomsTyped, RoomOf
    <3>2. Other(reg[c].role) \in Roles
      BY DEF Other, Roles
    <3> QED BY <3>1, <3>2 DEF RoomRecords
  <2>3. pc' \in [Conns -> PCs] /\ \A d \in Conns : Counted(d)' <=> Counted(d)
    BY <2>1, LeaveCounts DEF PCs
  <2> HIDE DEF to
  <2>4. TasksTyped' /\ PipesTyped' /\ CountsTyped'
    <3>1. target' \in [Conns -> Conns \cup {None}]
      BY <2>1, <2>2 DEF Sound, TasksTyped
    <3>2. UNCHANGED pipes /\ forwarded' \in Nat
      BY <1>1, <2>1 DEF pipes, Sound, CountsTyped
    <3> QED BY <1>1, <2>3, <3>1, <3>2 DEF Sound, TasksTyped, PipesTyped, CountsTyped, pipes
  <2> QED BY <1>1, <2>3, <2>4, StepAside
<1>3. CASE Send(c)
  <2> DEFINE frame == [kind |-> "data", from |-> c, n |-> forwarded]
  <2>1. /\ queue' = Sent(queue, target[c], <<frame>>) /\ target' = [target EXCEPT ![c] = None]
        /\ UNCHANGED forwarded /\ Counted(c) /\ Leave(c, "live")
    BY <1>3 DEF Send, Counted
  <2>2. frame \in Frames
    BY DEF Frames, Sound, CountsTyped
  <2>3. <<frame>> \in Seq(Frames) /\ target[c] \in Conns \cup {None}
    BY <2>2 DEF Sound, TasksTyped
  <2>4. queue' \in [Conns -> Seq(Frames)]
    <3> HIDE DEF frame
    <3> QED BY <2>1, <2>3, SentTyped DEF Sound
  <2>5. pc' \in [Conns -> PCs] /\ \A d \in Conns : Counted(d)' <=> Counted(d)
    BY <2>1, LeaveCounts DEF PCs
  <2>6. TasksTyped' /\ PipesTyped' /\ CountsTyped'
    BY <1>1, <2>1, <2>4, <2>5 DEF Sound, TasksTyped, PipesTyped, CountsTyped
  <2> QED BY <1>1, <2>5, <2>6, StepAside
<1> QED BY <1>2, <1>3

LEMMA StopTyped ==
  ASSUME Sound, NEW c \in Conns, Stop(c)
  PROVE  queue' \in [Conns -> Seq(Frames)] /\ writer' \in [Conns -> BOOLEAN]
<1>1. <<>> \in Seq(Frames)
  OBVIOUS
<1>2. queue' \in [Conns -> Seq(Frames)]
  BY <1>1 DEF Stop, Sound, PipesTyped
<1>3. writer' \in [Conns -> BOOLEAN]
  BY DEF Stop, Sound, PipesTyped
<1> QED BY <1>2, <1>3

LEMMA PipesKeep ==
  ASSUME Sound, NEW c \in Conns, Write(c) \/ WriteFails(c) \/ PeerVanishes(c)
  PROVE  Sound'
<1>1. UNCHANGED <<rooms, counters, forwarded, tasks>>
  BY DEF Write, WriteFails, PeerVanishes
<1>2. TasksTyped' /\ CountsTyped' /\ \A d \in Conns : Counted(d)' <=> Counted(d)
  BY <1>1 DEF Sound, TasksTyped, CountsTyped, Counted, counters, tasks
<1>3. PipesTyped'
  <2>1. CASE Write(c)
    <3>1. queue[c] \in Seq(Frames) /\ queue[c] # <<>> /\ got[c] \in Seq(Frames)
      BY <2>1 DEF Write, Sound, PipesTyped
    <3>2. Head(queue[c]) \in Frames /\ Tail(queue[c]) \in Seq(Frames)
      BY <3>1
    <3>3. got' = [got EXCEPT ![c] = Append(got[c], Head(queue[c]))] /\ UNCHANGED sock
      BY <2>1 DEF Write
    <3>4. Append(got[c], Head(queue[c])) \in Seq(Frames)
      BY <3>1, <3>2
    <3>5. got' \in [Conns -> Seq(Frames)]
      BY <3>3, <3>4 DEF Sound, PipesTyped
    <3>6. /\ queue' = [queue EXCEPT ![c] = <<>>] \/ queue' = [queue EXCEPT ![c] = Tail(queue[c])]
          /\ writer' = [writer EXCEPT ![c] = FALSE] \/ writer' = writer
      BY <2>1 DEF Write, Stop
    <3>7. queue' \in [Conns -> Seq(Frames)]
      <4>1. <<>> \in Seq(Frames) /\ queue \in [Conns -> Seq(Frames)]
        BY DEF Sound, PipesTyped
      <4> QED BY <3>2, <3>6, <4>1
    <3>8. writer' \in [Conns -> BOOLEAN]
      BY <3>6 DEF Sound, PipesTyped
    <3> QED BY <3>3, <3>5, <3>7, <3>8 DEF Sound, PipesTyped
  <2>2. CASE WriteFails(c) \/ PeerVanishes(c)
    <3>1. UNCHANGED got /\ (UNCHANGED sock \/ sock' = [sock EXCEPT ![c] = FALSE])
      BY <2>2 DEF WriteFails, PeerVanishes
    <3>2. Stop(c) \/ UNCHANGED <<queue, writer>>
      BY <2>2 DEF WriteFails, PeerVanishes
    <3> QED BY <3>1, <3>2, StopTyped DEF Sound, PipesTyped
  <2> QED BY <2>1, <2>2
<1> QED BY <1>1, <1>2, <1>3, StepAside DEF counters, tasks

LEMMA EndsKeep ==
  ASSUME Sound, NEW c \in Conns, ReaderEnds(c) \/ WriterEnded(c) \/ Abort(c)
  PROVE  Sound'
<1>1. UNCHANGED <<rooms, counters, forwarded, reg, target, sock, got>>
  BY DEF ReaderEnds, WriterEnded, Abort, pipes
<1>2. pc' \in [Conns -> PCs] /\ \A d \in Conns : Counted(d)' <=> Counted(d)
  BY LeaveCounts DEF ReaderEnds, WriterEnded, Abort, Counted, PCs
<1>3. PipesTyped'
  <2>1. Stop(c) \/ UNCHANGED <<queue, writer>>
    BY DEF ReaderEnds, WriterEnded, Abort, pipes
  <2> QED BY <1>1, <2>1, StopTyped DEF Sound, PipesTyped
<1>4. TasksTyped' /\ CountsTyped'
  BY <1>1, <1>2 DEF Sound, TasksTyped, CountsTyped, counters
<1> QED BY <1>1, <1>2, <1>3, <1>4, StepAside DEF counters

----
(* Unregistering clears the slot if it is still held; a host takes the     *)
(* room with it.                                                           *)
LEMMA UnregisterKeeps ==
  ASSUME Sound, NEW c \in Conns, Unregister(c)
  PROVE  Sound'
<1> DEFINE here == reg[c].room
<1>1. /\ pc[c] = "leaving" /\ active' = active - 1 /\ Counted(c)
      /\ pc' = [pc EXCEPT ![c] = "unregistered"]
      /\ rooms' = IF HoldsSlot(c) THEN [rooms EXCEPT ![here] = Vacated(c)] ELSE rooms
      /\ UNCHANGED <<total, rejected, forwarded, reg, target, writer, sock, got>>
  BY DEF Unregister, Leave, Counted
<1>2. here \in Rooms /\ reg[c].role \in Roles
  BY RegTyped
<1>3. TasksTyped' /\ CountsTyped'
  BY <1>1 DEF Sound, TasksTyped, CountsTyped, PCs
<1>4. PipesTyped'
  <2>1. <<Notice("HOST_OFFLINE"), Notice("close")>> \in Seq(Frames)
    BY NoticesAreFrames DEF Notices
  <2>2. HoldsSlot(c) => RoomOf(c).slot["client"] \in Conns \cup {None}
    BY <1>2 DEF HoldsSlot, RoomOf, Sound, RoomsTyped, RoomRecords, Roles
  <2>3. queue' \in [Conns -> Seq(Frames)]
    BY <2>1, <2>2, SentTyped DEF Unregister, Sound, PipesTyped
  <2> QED BY <1>1, <2>3 DEF Sound, PipesTyped
<1>5. ActiveCounts'
  BY <1>1, OneLess
<1> HIDE DEF here
<1>6. \A r \in Rooms :
        rooms'[r] = IF HoldsSlot(c) /\ r = here THEN Vacated(c) ELSE rooms[r]
  BY <1>1, <1>2 DEF Sound, RoomsTyped
<1>7. ASSUME HoldsSlot(c)
      PROVE  \/ Vacated(c) = NoRoom
             \/ /\ reg[c].role = "client" /\ Vacated(c) \in RoomRecords
                /\ Vacated(c).token = rooms[here].token
                /\ Vacated(c).slot["host"] = rooms[here].slot["host"]
                /\ Vacated(c).slot["client"] = None
  <2>1. rooms[here] \in RoomRecords /\ RoomOf(c) = rooms[here]
    BY <1>2, <1>7 DEF HoldsSlot, RoomOf, Sound, RoomsTyped, here
  <2>2. CASE reg[c].role = "host"
    <3>1. IsEmpty(EmptyRoom(rooms[here].token))
      BY DEF IsEmpty, EmptyRoom
    <3> QED BY <2>1, <2>2, <3>1 DEF Vacated
  <2>3. CASE reg[c].role = "client"
    <3> DEFINE left == [rooms[here] EXCEPT !.slot["client"] = None]
    <3>1. /\ left \in RoomRecords /\ left.token = rooms[here].token
          /\ left.slot["host"] = rooms[here].slot["host"] /\ left.slot["client"] = None
      BY <2>1 DEF RoomRecords, Roles
    <3>2. Vacated(c) = IF IsEmpty(left) THEN NoRoom ELSE left
      BY <2>1, <2>3 DEF Vacated
    <3> HIDE DEF left
    <3> QED BY <2>3, <3>1, <3>2
  <2> QED BY <1>2, <2>2, <2>3 DEF Roles
<1>8. RoomsTyped'
  <2>1. HoldsSlot(c) => Vacated(c) \in RoomRecords \cup {NoRoom}
    BY <1>7
  <2> QED BY <1>1, <2>1 DEF Sound, RoomsTyped
<1>9. RoomsHaveHosts'
  <2>1. ASSUME NEW r \in Rooms, rooms'[r] # NoRoom PROVE rooms'[r].slot["host"] # None
    <3>1. CASE HoldsSlot(c) /\ r = here
      <4>1. Vacated(c).slot["host"] = rooms[here].slot["host"]
        BY <1>6, <1>7, <2>1, <3>1
      <4>2. rooms[here] # NoRoom
        BY <3>1 DEF HoldsSlot, RoomOf, here
      <4> QED BY <1>2, <1>6, <3>1, <4>1, <4>2 DEF Sound, RoomsHaveHosts
    <3>2. CASE ~(HoldsSlot(c) /\ r = here)
      BY <1>6, <2>1, <3>2 DEF Sound, RoomsHaveHosts
    <3> QED BY <3>1, <3>2
  <2> QED BY <2>1 DEF RoomsHaveHosts
<1>10. ASSUME NEW r \in Rooms, NEW slot \in Roles, NEW d \in Conns,
              rooms'[r] # NoRoom, rooms'[r].slot[slot] = d
       PROVE  Counted(d)' /\ reg'[d] = [role |-> slot, room |-> r, token |-> rooms'[r].token]
  <2>1. d # None
    BY RelayAssumption
  <2>2. rooms[r] # NoRoom /\ rooms[r].slot[slot] = d /\ rooms'[r].token = rooms[r].token
        /\ ~(HoldsSlot(c) /\ r = here /\ slot = reg[c].role)
    <3>1. CASE HoldsSlot(c) /\ r = here
      <4>1. /\ reg[c].role = "client" /\ Vacated(c).token = rooms[here].token
            /\ Vacated(c).slot["host"] = rooms[here].slot["host"]
            /\ Vacated(c).slot["client"] = None
        BY <1>6, <1>7, <1>10, <3>1
      <4>2. slot = "host"
        BY <1>6, <1>10, <2>1, <3>1, <4>1 DEF Roles
      <4>3. rooms[here] # NoRoom
        BY <3>1 DEF HoldsSlot, RoomOf, here
      <4> QED BY <1>6, <1>10, <3>1, <4>1, <4>2, <4>3
    <3>2. CASE ~(HoldsSlot(c) /\ r = here)
      BY <1>6, <1>10, <3>2
    <3> QED BY <3>1, <3>2
  <2>3. Counted(d) /\ HoldsSlot(d) /\ reg[d].room = r /\ reg[d].role = slot
        /\ reg[d] = [role |-> slot, room |-> r, token |-> rooms[r].token]
    BY <2>1, <2>2, Named DEF Sound, SlotsNameTheirOwners
  <2>4. d # c
    BY <2>2, <2>3 DEF here
  <2> QED BY <1>1, <2>2, <2>3, <2>4 DEF Counted, Sound, TasksTyped
<1>11. SlotsNameTheirOwners'
  BY <1>8, <1>10, OwnersFromConns
<1> QED BY <1>3, <1>4, <1>5, <1>8, <1>9, <1>11 DEF Sound

----
LEMMA SoundInit == Init => Sound
<1> SUFFICES ASSUME Init PROVE Sound
  OBVIOUS
<1>1. RoomsTyped /\ PipesTyped /\ CountsTyped
  BY DEF Init, RoomsTyped, PipesTyped, CountsTyped
<1>2. TasksTyped
  BY RelayAssumption DEF Init, TasksTyped, PCs
<1>3. RoomsHaveHosts /\ SlotsNameTheirOwners
  BY DEF Init, RoomsHaveHosts, SlotsNameTheirOwners
<1>4. ActiveCounts
  <2>1. {c \in Conns : Counted(c)} = {}
    BY DEF Init, Counted
  <2> QED BY <2>1, FS_EmptySet DEF Init, ActiveCounts
<1> QED BY <1>1, <1>2, <1>3, <1>4 DEF Sound

LEMMA SoundNext == Sound /\ [Next]_vars => Sound'
<1> SUFFICES ASSUME Sound, [Next]_vars PROVE Sound'
  OBVIOUS
<1>1. ASSUME NEW c \in Conns, Handler(c) PROVE Sound'
  BY <1>1, RejectsKeep, RejectHostOfflineKeeps, RegisterKeeps, ForwardKeeps, EndsKeep,
     UnregisterKeeps DEF Handler
<1>2. ASSUME NEW c \in Conns, Write(c) \/ WriteFails(c) \/ PeerVanishes(c) PROVE Sound'
  BY <1>2, PipesKeep
<1>3. CASE UNCHANGED vars
  BY <1>3 DEF vars, counters, tasks, pipes, Sound, RoomsTyped, TasksTyped, PipesTyped,
              CountsTyped, RoomsHaveHosts, SlotsNameTheirOwners, ActiveCounts, Counted
<1> QED BY <1>1, <1>2, <1>3 DEF Next

LEMMA SoundGives ==
  Sound => TypeOK /\ RoomsHaveHosts /\ SlotsNameTheirOwners /\ ActiveCounts
<1> SUFFICES ASSUME Sound PROVE TypeOK
  BY DEF Sound
<1>1. active \in Nat
  BY CountedFinite DEF Sound, ActiveCounts, CountedSet
<1> QED BY <1>1 DEF Sound, TypeOK, RoomsTyped, TasksTyped, PipesTyped, CountsTyped

(* Rooms, counters, tasks and channels keep their types; in particular the *)
(* counter of active connections never goes below zero.                    *)
THEOREM TypeCorrect == Safety => []TypeOK
BY SoundInit, SoundNext, SoundGives, PTL DEF Safety

(* No interleaving of registrations, replacements and disconnections       *)
(* leaves a room without a desktop in the map; a slot never names a        *)
(* connection that has unregistered or that belongs to another room, role  *)
(* or token; every registration is counted once and uncounted once.        *)
THEOREM RegistryThroughout == Safety => []RegistryAgrees
<1>1. Sound => RegistryAgrees
  BY SoundGives DEF RegistryAgrees
<1> QED BY <1>1, SoundInit, SoundNext, PTL DEF Safety
----
(* The histories of the peers.  What a connection was sent so far is what  *)
(* its peer has received and what is still queued for it.                  *)
Stream(c) == got[c] \o queue[c]

(* A sequence of frames a connection c, registered as in regs, may see. *)
Sensible(c, s, regs) ==
  /\ \A i \in 1 .. Len(s) :
       IF s[i].kind = "data"
       THEN /\ s[i].from \in Conns /\ s[1].kind = "registered"
            /\ regs[s[i].from].room = regs[c].room
            /\ regs[s[i].from].role = Other(regs[c].role)
            /\ \A j \in 1 .. (i - 1) : s[j].from = s[i].from => s[j].n < s[i].n
       ELSE s[i].from = None
  /\ regs[c].role = "client" =>
       \A i \in 1 .. Len(s) : s[i].kind = "close" =>
         \E j \in 1 .. (i - 1) : s[j].kind \in Reasons

(* No frame is numbered beyond the counter, and one of a sender that has   *)
(* counted its next frame and not yet sent it is numbered below.           *)
Numbered(s, count, busy) ==
  \A i \in 1 .. Len(s) : s[i].kind = "data" =>
    s[i].n <= count /\ (s[i].from \in busy => s[i].n < count)

Busy == {d \in Conns : pc[d] = "sending"}

StreamsSensible ==
  \A c \in Conns : Sensible(c, Stream(c), reg) /\ Numbered(Stream(c), forwarded, Busy)

(* The channel of a connection: unused before the registration, which is   *)
(* its first frame, and gone with the close.                               *)
ChannelSound(c) ==
  /\ pc[c] = "new" => got[c] = <<>> /\ queue[c] = <<>> /\ ~writer[c]
  /\ writer[c] => Stream(c) # <<>> /\ Stream(c)[1].kind = "registered"
  /\ \A i \in 1 .. Len(got[c]) : got[c][i].kind = "close" => i = Len(got[c]) /\ ~writer[c]

ChannelsSound == \A c \in Conns : ChannelSound(c)

TargetsAcross ==
  \A c \in Conns : target[c] # None =>
    /\ reg[target[c]].room = reg[c].room
    /\ reg[target[c]].role = Other(reg[c].role)

HistoryInv ==
  Sound /\ StreamsSensible /\ ChannelsSound /\ TargetsAcross /\ EvictedIsToldToClose

----
(* Sequences of frames: a part of what may be seen may be seen, and what   *)
(* the relay appends keeps it so.                                          *)
LEMMA PartSensible ==
  ASSUME NEW c \in Conns, NEW regs \in [Conns -> Registrations],
         NEW s \in Seq(Frames), NEW part \in Seq(Frames), Len(part) <= Len(s),
         \A i \in 1 .. Len(part) : part[i] = s[i],
         NEW count \in Nat, NEW busy, Sensible(c, s, regs), Numbered(s, count, busy)
  PROVE  Sensible(c, part, regs) /\ Numbered(part, count, busy)
<1>1. Numbered(part, count, busy)
  BY DEF Numbered
<1>2. ASSUME NEW i \in 1 .. Len(part)
      PROVE  IF part[i].kind = "data"
             THEN /\ part[i].from \in Conns /\ part[1].kind = "registered"
                  /\ regs[part[i].from].room = regs[c].room
                  /\ regs[part[i].from].role = Other(regs[c].role)
                  /\ \A j \in 1 .. (i - 1) : part[j].from = part[i].from => part[j].n < part[i].n
             ELSE part[i].from = None
  <2>1. i \in 1 .. Len(s) /\ part[i] = s[i] /\ part[1] = s[1]
        /\ \A j \in 1 .. (i - 1) : part[j] = s[j]
    OBVIOUS
  <2> QED BY <2>1 DEF Sensible
<1>3. ASSUME regs[c].role = "client", NEW i \in 1 .. Len(part), part[i].kind = "close"
      PROVE  \E j \in 1 .. (i - 1) : part[j].kind \in Reasons
  <2>1. i \in 1 .. Len(s) /\ s[i].kind = "close"
    BY <1>3
  <2>2. PICK j \in 1 .. (i - 1) : s[j].kind \in Reasons
    BY <1>3, <2>1 DEF Sensible
  <2>3. part[j] = s[j]
    BY <2>1
  <2> QED BY <2>2, <2>3
<1>4. Sensible(c, part, regs)
  BY <1>2, <1>3 DEF Sensible
<1> QED BY <1>1, <1>4

LEMMA MoreNotices ==
  ASSUME NEW c \in Conns, NEW regs \in [Conns -> Registrations],
         NEW s \in Seq(Frames), NEW reason \in Notices, NEW more \in Seq(Frames),
         NEW count \in Nat, NEW busy, Sensible(c, s, regs), Numbered(s, count, busy),
         \/ more = <<Notice(reason), Notice("close")>> /\ reason \in Reasons
         \/ more = <<Notice("close")>> /\ regs[c].role = "host"
  PROVE  Sensible(c, s \o more, regs) /\ Numbered(s \o more, count, busy)
<1> DEFINE all == s \o more
<1>1. /\ all \in Seq(Frames) /\ Len(all) = Len(s) + Len(more)
      /\ \A i \in 1 .. Len(s) : all[i] = s[i]
      /\ \A i \in Len(s) + 1 .. Len(all) : all[i] = more[i - Len(s)]
  OBVIOUS
<1>2. \A i \in 1 .. Len(more) : more[i].kind # "data" /\ more[i].from = None
  BY DEF Notice, Notices
<1> HIDE DEF all
<1>3. \A i \in Len(s) + 1 .. Len(all) : all[i].kind # "data" /\ all[i].from = None
  BY <1>1, <1>2
<1>4. Numbered(all, count, busy)
  <2>1. ASSUME NEW i \in 1 .. Len(all), all[i].kind = "data"
        PROVE  i \in 1 .. Len(s) /\ all[i] = s[i]
    BY <1>1, <1>3, <2>1
  <2> QED BY <2>1 DEF Numbered
<1>5. ASSUME regs[c].role = "client", NEW i \in 1 .. Len(all), all[i].kind = "close"
      PROVE  \E j \in 1 .. (i - 1) : all[j].kind \in Reasons
  <2>1. CASE i \in 1 .. Len(s)
    <3>1. all[i] = s[i] /\ s[i].kind = "close"
      BY <1>1, <1>5, <2>1
    <3>2. PICK j \in 1 .. (i - 1) : s[j].kind \in Reasons
      BY <1>5, <2>1, <3>1 DEF Sensible
    <3>3. j \in 1 .. Len(s) /\ all[j] = s[j]
      BY <1>1, <2>1
    <3> QED BY <3>2, <3>3
  <2>2. CASE i \notin 1 .. Len(s)
    <3>1. more = <<Notice(reason), Notice("close")>> /\ reason \in Reasons
      BY <1>5
    <3>2. more[1].kind = reason /\ Len(more) = 2 /\ more[1].kind # "close"
      BY <3>1 DEF Notice, Reasons
    <3>3. i = Len(s) + 2 /\ all[Len(s) + 1].kind = reason
      BY <1>1, <1>5, <2>2, <3>2
    <3> QED BY <3>1, <3>3, <1>1
  <2> QED BY <2>1, <2>2
<1>6. ASSUME NEW i \in 1 .. Len(all)
      PROVE  IF all[i].kind = "data"
             THEN /\ all[i].from \in Conns /\ all[1].kind = "registered"
                  /\ regs[all[i].from].room = regs[c].room
                  /\ regs[all[i].from].role = Other(regs[c].role)
                  /\ \A j \in 1 .. (i - 1) : all[j].from = all[i].from => all[j].n < all[i].n
             ELSE all[i].from = None
  <2>1. CASE i \in 1 .. Len(s)
    <3>1. 1 \in 1 .. Len(s) /\ \A j \in 1 .. (i - 1) : j \in 1 .. Len(s)
      BY <2>1
    <3>2. all[i] = s[i] /\ all[1] = s[1] /\ \A j \in 1 .. (i - 1) : all[j] = s[j]
      BY <1>1, <2>1, <3>1
    <3> QED BY <2>1, <3>2 DEF Sensible
  <2>2. CASE i \notin 1 .. Len(s)
    BY <1>1, <1>3, <2>2
  <2> QED BY <2>1, <2>2
<1>7. Sensible(c, all, regs)
  BY <1>5, <1>6 DEF Sensible
<1> QED BY <1>4, <1>7 DEF all

LEMMA MoreData ==
  ASSUME NEW c \in Conns, NEW from \in Conns, NEW regs \in [Conns -> Registrations],
         NEW s \in Seq(Frames), NEW count \in Nat, NEW busy,
         Sensible(c, s, regs), Numbered(s, count, busy),
         s # <<>>, s[1].kind = "registered", from \in busy,
         regs[from].room = regs[c].room, regs[from].role = Other(regs[c].role)
  PROVE  LET all == s \o <<[kind |-> "data", from |-> from, n |-> count]>>
         IN Sensible(c, all, regs) /\ Numbered(all, count, busy \ {from})
<1> DEFINE frame == [kind |-> "data", from |-> from, n |-> count]
           all == s \o <<frame>>
<1>1. frame \in Frames
  BY DEF Frames
<1>2. /\ all \in Seq(Frames) /\ Len(all) = Len(s) + 1 /\ Len(s) >= 1
      /\ \A i \in 1 .. Len(s) : all[i] = s[i]
      /\ all[Len(s) + 1] = frame
  BY <1>1
<1>3. frame.kind = "data" /\ frame.from = from /\ frame.n = count
  OBVIOUS
<1> HIDE DEF frame, all
<1>4. Numbered(all, count, busy \ {from})
  BY <1>2, <1>3 DEF Numbered
<1>5. ASSUME NEW i \in 1 .. Len(s), s[i].from = from PROVE s[i].n < count
  BY <1>5, RelayAssumption DEF Sensible, Numbered
<1>6. ASSUME regs[c].role = "client", NEW i \in 1 .. Len(all), all[i].kind = "close"
      PROVE  \E j \in 1 .. (i - 1) : all[j].kind \in Reasons
  <2>1. i \in 1 .. Len(s)
    BY <1>2, <1>3, <1>6
  <2> QED BY <1>2, <1>6, <2>1 DEF Sensible
<1>7. ASSUME NEW i \in 1 .. Len(all)
      PROVE  IF all[i].kind = "data"
             THEN /\ all[i].from \in Conns /\ all[1].kind = "registered"
                  /\ regs[all[i].from].room = regs[c].room
                  /\ regs[all[i].from].role = Other(regs[c].role)
                  /\ \A j \in 1 .. (i - 1) : all[j].from = all[i].from => all[j].n < all[i].n
             ELSE all[i].from = None
  <2>1. CASE i \in 1 .. Len(s)
    BY <1>2, <2>1 DEF Sensible
  <2>2. CASE i = Len(s) + 1
    BY <1>2, <1>3, <1>5, <2>2
  <2> QED BY <1>2, <2>1, <2>2
<1>8. Sensible(c, all, regs)
  BY <1>6, <1>7 DEF Sensible
<1> QED BY <1>4, <1>8 DEF all, frame

(* The counter grows, and who begins to send has raised it. *)
LEMMA CountGrows ==
  ASSUME NEW s \in Seq(Frames), NEW count \in Nat, NEW count2 \in Nat, NEW busy, NEW busy2,
         Numbered(s, count, busy), count <= count2, busy2 \subseteq busy \/ count < count2
  PROVE  Numbered(s, count2, busy2)
<1>1. ASSUME NEW i \in 1 .. Len(s) PROVE s[i].n \in Nat
  <2>1. s[i] \in Frames
    OBVIOUS
  <2> QED BY <2>1 DEF Frames
<1> QED BY <1>1 DEF Numbered

----
(* What a step does to the stream of one connection. *)
LEMMA Concatenated ==
  ASSUME NEW s \in Seq(Frames), NEW t \in Seq(Frames)
  PROVE  /\ s \o t \in Seq(Frames) /\ Len(s) \in Nat /\ Len(t) \in Nat
         /\ Len(s \o t) = Len(s) + Len(t) /\ DOMAIN (s \o t) = 1 .. (Len(s) + Len(t))
         /\ \A i \in 1 .. Len(s) : (s \o t)[i] = s[i]
         /\ \A i \in 1 .. Len(t) : (s \o t)[Len(s) + i] = t[i]
OBVIOUS

LEMMA Associative ==
  ASSUME NEW s \in Seq(Frames), NEW t \in Seq(Frames), NEW u \in Seq(Frames)
  PROVE  s \o (t \o u) = (s \o t) \o u
BY ConcatAssociative

LEMMA PipesAre ==
  ASSUME Sound, NEW c \in Conns
  PROVE  /\ got[c] \in Seq(Frames) /\ queue[c] \in Seq(Frames) /\ Stream(c) \in Seq(Frames)
         /\ writer[c] \in BOOLEAN /\ pc[c] \in PCs
         /\ Len(got[c]) \in Nat /\ Len(queue[c]) \in Nat
         /\ Len(Stream(c)) = Len(got[c]) + Len(queue[c])
         /\ \A i \in 1 .. Len(got[c]) : Stream(c)[i] = got[c][i]
<1>1. got[c] \in Seq(Frames) /\ queue[c] \in Seq(Frames) /\ writer[c] \in BOOLEAN /\ pc[c] \in PCs
  BY DEF Sound, PipesTyped, TasksTyped
<1> QED BY <1>1, Concatenated DEF Stream

LEMMA SentAt ==
  ASSUME Sound, NEW to \in Conns \cup {None}, NEW frames \in Seq(Frames), NEW d \in Conns
  PROVE  Sent(queue, to, frames)[d]
           = IF d = to /\ writer[d] THEN queue[d] \o frames ELSE queue[d]
<1>1. CASE to # None /\ writer[to]
  BY <1>1 DEF Sent, Sound, PipesTyped
<1>2. CASE ~(to # None /\ writer[to])
  BY <1>2, RelayAssumption DEF Sent
<1> QED BY <1>1, <1>2

(* Nothing more than before is in the stream of c. *)
LEMMA StreamPart ==
  ASSUME HistoryInv, UNCHANGED reg, forwarded' \in Nat, forwarded <= forwarded',
         Busy' \subseteq Busy \/ forwarded < forwarded',
         NEW c \in Conns, Stream(c)' \in Seq(Frames), Len(Stream(c)') <= Len(Stream(c)),
         \A i \in 1 .. Len(Stream(c)') : Stream(c)'[i] = Stream(c)[i]
  PROVE  Sensible(c, Stream(c)', reg') /\ Numbered(Stream(c)', forwarded', Busy')
<1>1. /\ Stream(c) \in Seq(Frames) /\ forwarded \in Nat /\ reg \in [Conns -> Registrations]
      /\ Sensible(c, Stream(c), reg) /\ Numbered(Stream(c), forwarded, Busy)
  BY PipesAre DEF HistoryInv, Sound, CountsTyped, TasksTyped, StreamsSensible
<1>2. Sensible(c, Stream(c)', reg) /\ Numbered(Stream(c)', forwarded, Busy)
  BY <1>1, PartSensible
<1> QED BY <1>1, <1>2, CountGrows

LEMMA StreamSame ==
  ASSUME HistoryInv, UNCHANGED reg, forwarded' \in Nat, forwarded <= forwarded',
         Busy' \subseteq Busy \/ forwarded < forwarded',
         NEW c \in Conns, UNCHANGED <<got[c], queue[c]>>
  PROVE  Sensible(c, Stream(c)', reg') /\ Numbered(Stream(c)', forwarded', Busy')
<1>1. Stream(c)' = Stream(c) /\ Stream(c) \in Seq(Frames)
  BY PipesAre DEF Stream, HistoryInv
<1> QED BY <1>1, StreamPart

(* Notices are appended to the stream of c. *)
LEMMA StreamTold ==
  ASSUME HistoryInv, UNCHANGED <<reg, forwarded>>, Busy' \subseteq Busy, NEW c \in Conns,
         NEW more \in Seq(Frames), NEW reason \in Notices,
         \/ more = <<Notice(reason), Notice("close")>> /\ reason \in Reasons
         \/ more = <<Notice("close")>> /\ reg[c].role = "host",
         got'[c] = got[c], queue'[c] = queue[c] \o more
  PROVE  /\ Sensible(c, Stream(c)', reg') /\ Numbered(Stream(c)', forwarded', Busy')
         /\ Stream(c)' = Stream(c) \o more
         /\ \E i \in DOMAIN queue'[c] : queue'[c][i].kind = "close"
<1>1. /\ got[c] \in Seq(Frames) /\ queue[c] \in Seq(Frames) /\ Stream(c) \in Seq(Frames)
      /\ forwarded \in Nat /\ reg \in [Conns -> Registrations]
      /\ Sensible(c, Stream(c), reg) /\ Numbered(Stream(c), forwarded, Busy)
  BY PipesAre DEF HistoryInv, Sound, CountsTyped, TasksTyped, StreamsSensible
<1>2. Stream(c)' = Stream(c) \o more
  <2>1. got[c] \o (queue[c] \o more) = (got[c] \o queue[c]) \o more
    BY <1>1, Associative
  <2>2. (got[c] \o queue[c])' = got[c] \o (queue[c] \o more)
    OBVIOUS
  <2> QED BY <2>1, <2>2 DEF Stream
<1>3. Sensible(c, Stream(c) \o more, reg) /\ Numbered(Stream(c) \o more, forwarded, Busy)
  BY <1>1, MoreNotices
<1>4. Stream(c) \o more \in Seq(Frames)
  BY <1>1
<1>5. Numbered(Stream(c) \o more, forwarded, Busy')
  <2>1. forwarded <= forwarded
    BY <1>1
  <2> QED BY <1>1, <1>3, <1>4, <2>1, CountGrows
<1>6. \E i \in DOMAIN queue'[c] : queue'[c][i].kind = "close"
  <2>1. Notice("close").kind = "close"
    BY DEF Notice
  <2>2. PICK k \in 1 .. Len(more) : more[k].kind = "close"
    <3>1. CASE more = <<Notice(reason), Notice("close")>>
      BY <2>1, <3>1
    <3>2. CASE more = <<Notice("close")>>
      BY <2>1, <3>2
    <3> QED BY <3>1, <3>2
  <2>3. /\ Len(queue[c]) + k \in DOMAIN (queue[c] \o more)
        /\ (queue[c] \o more)[Len(queue[c]) + k] = more[k]
    BY <1>1, Concatenated
  <2> QED BY <2>2, <2>3
<1> QED BY <1>2, <1>3, <1>5, <1>6

(* The channel of c as it is kept by a step that at most appends to it. *)
LEMMA ChannelAppended ==
  ASSUME Sound, NEW c \in Conns, ChannelSound(c), pc'[c] = "new" => pc[c] = "new",
         UNCHANGED <<got[c], writer[c]>>, NEW more \in Seq(Frames),
         queue'[c] = IF writer[c] THEN queue[c] \o more ELSE queue[c]
  PROVE  ChannelSound(c)'
<1>1. /\ got[c] \in Seq(Frames) /\ queue[c] \in Seq(Frames) /\ Stream(c) \in Seq(Frames)
      /\ writer[c] \in BOOLEAN
  BY PipesAre
<1>2. CASE writer[c]
  <2>1. Stream(c)' = Stream(c) \o more
    <3>1. got[c] \o (queue[c] \o more) = (got[c] \o queue[c]) \o more
      BY <1>1, Associative
    <3>2. (got[c] \o queue[c])' = got[c] \o (queue[c] \o more)
      BY <1>2
    <3> QED BY <3>1, <3>2 DEF Stream
  <2>2. Stream(c) # <<>> /\ Stream(c)[1].kind = "registered"
    BY <1>2 DEF ChannelSound
  <2>3. Stream(c)' # <<>> /\ Stream(c)'[1] = Stream(c)[1]
    BY <1>1, <2>1, <2>2
  <2> QED BY <1>2, <2>2, <2>3 DEF ChannelSound
<1>3. CASE ~writer[c]
  <2>1. UNCHANGED <<got[c], queue[c], writer[c]>>
    BY <1>3
  <2> QED BY <1>3, <2>1 DEF ChannelSound
<1> QED BY <1>1, <1>2, <1>3

LEMMA ChannelSame ==
  ASSUME Sound, NEW c \in Conns, ChannelSound(c), pc'[c] = "new" => pc[c] = "new",
         UNCHANGED <<got[c], queue[c], writer[c]>>
  PROVE  ChannelSound(c)'
BY DEF ChannelSound, Stream

----
(* Who has been told to close stays told until its channel ends. *)
Told(c) == \E i \in DOMAIN queue[c] : queue[c][i].kind = "close"

LEMMA ToldStays ==
  ASSUME Sound, NEW c \in Conns, Told(c), NEW more \in Seq(Frames),
         queue'[c] = queue[c] \o more
  PROVE  Told(c)'
<1>1. queue[c] \in Seq(Frames) /\ DOMAIN queue[c] = 1 .. Len(queue[c])
  <2>1. queue[c] \in Seq(Frames)
    BY PipesAre
  <2> QED BY <2>1
<1>2. PICK i \in DOMAIN queue[c] : queue[c][i].kind = "close"
  BY DEF Told
<1>3. i \in DOMAIN (queue[c] \o more) /\ (queue[c] \o more)[i] = queue[c][i]
  BY <1>1, Concatenated
<1> QED BY <1>2, <1>3 DEF Told

LEMMA EvictedStay ==
  ASSUME EvictedIsToldToClose, UNCHANGED <<rooms, reg>>,
         \A d \in Conns : Counted(d)' /\ writer'[d] =>
           Counted(d) /\ writer[d] /\ (Told(d) => Told(d)')
  PROVE  EvictedIsToldToClose'
<1> SUFFICES ASSUME NEW d \in Conns, Counted(d)', ~HoldsSlot(d)', writer'[d]
             PROVE  Told(d)'
  BY DEF EvictedIsToldToClose, Told
<1>1. HoldsSlot(d)' <=> HoldsSlot(d)
  BY DEF HoldsSlot, RoomOf
<1>2. Told(d)
  BY <1>1 DEF EvictedIsToldToClose, Told
<1> QED BY <1>2

LEMMA TargetsStay ==
  ASSUME TargetsAcross, UNCHANGED reg,
         \A d \in Conns : target'[d] # None => target'[d] = target[d]
  PROVE  TargetsAcross'
BY DEF TargetsAcross

(* Steps that touch neither rooms nor channels. *)
LEMMA QuietKeeps ==
  ASSUME HistoryInv, Sound', UNCHANGED <<rooms, reg, got, queue, writer>>,
         forwarded <= forwarded', Busy' \subseteq Busy \/ forwarded < forwarded',
         \A d \in Conns : /\ pc'[d] = "new" => pc[d] = "new"
                          /\ Counted(d)' => Counted(d),
         TargetsAcross'
  PROVE  HistoryInv'
<1>1. forwarded' \in Nat
  BY DEF Sound, CountsTyped
<1>2. StreamsSensible'
  BY <1>1, StreamSame DEF StreamsSensible
<1>3. ChannelsSound'
  BY ChannelSame DEF HistoryInv, ChannelsSound
<1>4. EvictedIsToldToClose'
  BY EvictedStay DEF HistoryInv, Told
<1> QED BY <1>2, <1>3, <1>4 DEF HistoryInv

LEMMA QuietStepsKeep ==
  ASSUME HistoryInv, Sound', NEW c \in Conns,
         PeerVanishes(c) \/ ReaderEnds(c) \/ WriterEnded(c)
  PROVE  HistoryInv'
<1>1. /\ UNCHANGED <<rooms, reg, got, queue, writer, forwarded, target>>
      /\ UNCHANGED pc \/ (pc[c] = "live" /\ pc' = [pc EXCEPT ![c] = "leaving"])
  BY DEF PeerVanishes, ReaderEnds, WriterEnded, Leave, pipes, tasks
<1>2. pc \in [Conns -> PCs] /\ forwarded \in Nat
  BY DEF HistoryInv, Sound, TasksTyped, CountsTyped
<1>3. \A d \in Conns : /\ pc'[d] = "new" => pc[d] = "new"
                       /\ pc'[d] = "sending" => pc[d] = "sending"
                       /\ Counted(d)' => Counted(d)
  BY <1>1, <1>2 DEF Counted
<1>4. Busy' \subseteq Busy
  BY <1>3 DEF Busy
<1>5. TargetsAcross'
  BY <1>1, TargetsStay DEF HistoryInv
<1>6. forwarded <= forwarded'
  BY <1>1, <1>2
<1> QED BY <1>1, <1>3, <1>4, <1>5, <1>6, QuietKeeps

(* A forward looks its target up across the room. *)
LEMMA ForwardTold ==
  ASSUME HistoryInv, Sound', NEW c \in Conns, Forward(c)
  PROVE  HistoryInv'
<1> DEFINE other == Other(reg[c].role)
           to == IF RoomOf(c) = NoRoom THEN None ELSE RoomOf(c).slot[other]
<1>1. /\ UNCHANGED <<rooms, reg, got, queue, writer>>
      /\ forwarded' = forwarded + 1 /\ target' = [target EXCEPT ![c] = to]
      /\ pc[c] = "live" /\ pc' = [pc EXCEPT ![c] = IF to = None THEN "live" ELSE "sending"]
  BY DEF Forward, Leave, pipes
<1>2. pc \in [Conns -> PCs] /\ forwarded \in Nat /\ target \in [Conns -> Conns \cup {None}]
  BY DEF HistoryInv, Sound, TasksTyped, CountsTyped
<1>3. reg[c].role \in Roles /\ reg[c].room \in Rooms /\ other \in Roles
  BY RegTyped DEF HistoryInv, Other, Roles
<1>4. ASSUME to # None PROVE reg[to].room = reg[c].room /\ reg[to].role = other
  <2>1. rooms[reg[c].room] # NoRoom /\ to = rooms[reg[c].room].slot[other]
    BY <1>4 DEF RoomOf
  <2> HIDE DEF to, other
  <2>2. reg[to] = [role |-> other, room |-> reg[c].room, token |-> rooms[reg[c].room].token]
    BY <1>3, <1>4, <2>1 DEF HistoryInv, Sound, SlotsNameTheirOwners
  <2> QED BY <2>2
<1> HIDE DEF to, other
<1>5. TargetsAcross'
  <2>1. ASSUME NEW d \in Conns, target'[d] # None
        PROVE  reg[target'[d]].room = reg[d].room /\ reg[target'[d]].role = Other(reg[d].role)
    <3>1. CASE d = c
      BY <1>1, <1>2, <1>4, <2>1, <3>1 DEF other
    <3>2. CASE d # c
      BY <1>1, <1>2, <2>1, <3>2 DEF HistoryInv, TargetsAcross
    <3> QED BY <3>1, <3>2
  <2> QED BY <1>1, <2>1 DEF TargetsAcross
<1>6. forwarded < forwarded' /\ forwarded <= forwarded'
  BY <1>1, <1>2
<1>7. \A d \in Conns : /\ pc'[d] = "new" => pc[d] = "new"
                       /\ Counted(d)' => Counted(d)
  BY <1>1, <1>2 DEF Counted
<1> QED BY <1>1, <1>5, <1>6, <1>7, QuietKeeps

(* A frame is sent across; a peer that has sent all it counted is not busy.*)
LEMMA SendTold ==
  ASSUME HistoryInv, Sound', NEW c \in Conns, Send(c)
  PROVE  HistoryInv'
<1> DEFINE frame == [kind |-> "data", from |-> c, n |-> forwarded]
           to == target[c]
<1>1. /\ UNCHANGED <<rooms, reg, got, writer, forwarded>>
      /\ pc[c] = "sending" /\ pc' = [pc EXCEPT ![c] = "live"]
      /\ queue' = Sent(queue, to, <<frame>>)
      /\ target' = [target EXCEPT ![c] = None]
  BY DEF Send, Leave
<1>2. /\ pc \in [Conns -> PCs] /\ forwarded \in Nat /\ target \in [Conns -> Conns \cup {None}]
      /\ reg \in [Conns -> Registrations]
  BY DEF HistoryInv, Sound, TasksTyped, CountsTyped
<1>3. Busy' = Busy \ {c} /\ c \in Busy
  BY <1>1, <1>2 DEF Busy
<1>4. <<frame>> \in Seq(Frames) /\ to \in Conns \cup {None}
  <2>1. frame \in Frames
    BY <1>2 DEF Frames
  <2> QED BY <1>2, <2>1
<1>5. \A d \in Conns : queue'[d] = IF d = to /\ writer[d] THEN queue[d] \o <<frame>> ELSE queue[d]
  <2> HIDE DEF frame, to
  <2> QED BY <1>1, <1>4, SentAt DEF HistoryInv
<1>6. \A d \in Conns : /\ pc'[d] = "new" => pc[d] = "new"
                       /\ Counted(d)' => Counted(d)
  BY <1>1, <1>2 DEF Counted
<1>7. ASSUME NEW d \in Conns
      PROVE  Sensible(d, Stream(d)', reg') /\ Numbered(Stream(d)', forwarded', Busy')
  <2>1. CASE d = to /\ writer[d]
    <3>1. /\ got[d] \in Seq(Frames) /\ queue[d] \in Seq(Frames) /\ Stream(d) \in Seq(Frames)
          /\ Sensible(d, Stream(d), reg) /\ Numbered(Stream(d), forwarded, Busy)
          /\ Stream(d) # <<>> /\ Stream(d)[1].kind = "registered"
      BY <2>1, PipesAre DEF HistoryInv, StreamsSensible, ChannelsSound, ChannelSound
    <3>2. reg[c].room = reg[d].room /\ reg[c].role = Other(reg[d].role)
      <4>1. reg[d].room = reg[c].room /\ reg[d].role = Other(reg[c].role)
        BY <2>1, RelayAssumption DEF HistoryInv, TargetsAcross
      <4>2. reg[c].role \in Roles
        BY <1>2 DEF Registrations
      <4> QED BY <4>1, <4>2 DEF Other, Roles
    <3>3. Stream(d)' = Stream(d) \o <<frame>>
      <4> HIDE DEF frame
      <4>1. got[d] \o (queue[d] \o <<frame>>) = (got[d] \o queue[d]) \o <<frame>>
        BY <1>4, <3>1, Associative
      <4>2. (got[d] \o queue[d])' = got[d] \o (queue[d] \o <<frame>>)
        BY <1>1, <1>5, <2>1
      <4> QED BY <4>1, <4>2 DEF Stream
    <3>4. Sensible(d, Stream(d) \o <<frame>>, reg)
          /\ Numbered(Stream(d) \o <<frame>>, forwarded, Busy \ {c})
      BY <1>2, <1>3, <3>1, <3>2, MoreData
    <3> QED BY <1>1, <1>3, <3>3, <3>4
  <2>2. CASE ~(d = to /\ writer[d])
    <3>1. UNCHANGED <<got[d], queue[d]>> /\ Busy' \subseteq Busy /\ forwarded <= forwarded'
      BY <1>1, <1>2, <1>3, <1>5, <2>2
    <3> QED BY <1>1, <1>2, <3>1, StreamSame
  <2> QED BY <2>1, <2>2
<1> HIDE DEF frame
<1>8. ASSUME NEW d \in Conns PROVE ChannelSound(d)'
  <2>1. CASE d = to
    BY <1>1, <1>4, <1>5, <1>6, <2>1, ChannelAppended DEF HistoryInv, ChannelsSound
  <2>2. CASE d # to
    BY <1>1, <1>5, <1>6, <2>2, ChannelSame DEF HistoryInv, ChannelsSound
  <2> QED BY <2>1, <2>2
<1>9. ASSUME NEW d \in Conns, Told(d) PROVE Told(d)'
  <2>1. CASE d = to /\ writer[d]
    BY <1>4, <1>5, <1>9, <2>1, ToldStays DEF HistoryInv
  <2>2. CASE ~(d = to /\ writer[d])
    BY <1>5, <1>9, <2>2 DEF Told
  <2> QED BY <2>1, <2>2
<1>10. EvictedIsToldToClose'
  BY <1>1, <1>6, <1>9, EvictedStay DEF HistoryInv
<1>11. TargetsAcross'
  BY <1>1, <1>2, TargetsStay DEF HistoryInv
<1> QED BY <1>7, <1>8, <1>10, <1>11 DEF HistoryInv, StreamsSensible, ChannelsSound

(* A channel that ends leaves what its peer has received. *)
LEMMA StopsKeep ==
  ASSUME HistoryInv, Sound', NEW c \in Conns, WriteFails(c) \/ Abort(c)
  PROVE  HistoryInv'
<1>1. /\ UNCHANGED <<rooms, reg, got, forwarded, target>>
      /\ writer' = [writer EXCEPT ![c] = FALSE] /\ queue' = [queue EXCEPT ![c] = <<>>]
      /\ UNCHANGED pc \/ (pc[c] = "unregistered" /\ pc' = [pc EXCEPT ![c] = "gone"])
  BY DEF WriteFails, Abort, Stop, Leave, tasks
<1>2. /\ pc \in [Conns -> PCs] /\ forwarded \in Nat /\ writer \in [Conns -> BOOLEAN]
      /\ queue \in [Conns -> Seq(Frames)]
  BY DEF HistoryInv, Sound, TasksTyped, CountsTyped, PipesTyped
<1>3. \A d \in Conns : /\ pc'[d] = "new" => pc[d] = "new"
                       /\ pc'[d] = "sending" => pc[d] = "sending"
                       /\ Counted(d)' => Counted(d)
  BY <1>1, <1>2 DEF Counted
<1>4. Busy' \subseteq Busy /\ forwarded <= forwarded' /\ forwarded' \in Nat
  BY <1>1, <1>2, <1>3 DEF Busy
<1>5. ASSUME NEW d \in Conns
      PROVE  Sensible(d, Stream(d)', reg') /\ Numbered(Stream(d)', forwarded', Busy')
  <2>1. CASE d = c
    <3>1. got[d] \in Seq(Frames) /\ Len(got[d]) <= Len(Stream(d))
          /\ \A i \in 1 .. Len(got[d]) : got[d][i] = Stream(d)[i]
      <4>1. /\ got[d] \in Seq(Frames) /\ Len(got[d]) \in Nat /\ Len(queue[d]) \in Nat
            /\ Len(Stream(d)) = Len(got[d]) + Len(queue[d])
            /\ \A i \in 1 .. Len(got[d]) : Stream(d)[i] = got[d][i]
        BY PipesAre DEF HistoryInv
      <4>2. Len(got[d]) <= Len(Stream(d))
        <5> DEFINE n == Len(got[d])
                   m == Len(queue[d])
                   k == Len(Stream(d))
        <5>1. n \in Nat /\ m \in Nat /\ k = n + m
          BY <4>1
        <5> HIDE DEF n, m, k
        <5>2. n <= k
          BY <5>1
        <5> QED BY <5>2 DEF n, k
      <4>3. \A i \in 1 .. Len(got[d]) : got[d][i] = Stream(d)[i]
        BY <4>1
      <4> QED BY <4>1, <4>2, <4>3
    <3>2. Stream(d)' = got[d]
      BY <1>1, <1>2, <2>1, <3>1 DEF Stream
    <3> QED BY <1>1, <1>4, <3>1, <3>2, StreamPart
  <2>2. CASE d # c
    BY <1>1, <1>2, <1>4, <2>2, StreamSame
  <2> QED BY <2>1, <2>2
<1>6. ASSUME NEW d \in Conns PROVE ChannelSound(d)'
  <2>1. CASE d = c
    BY <1>1, <1>2, <1>3, <2>1 DEF HistoryInv, ChannelsSound, ChannelSound
  <2>2. CASE d # c
    BY <1>1, <1>2, <1>3, <2>2, ChannelSame DEF HistoryInv, ChannelsSound
  <2> QED BY <2>1, <2>2
<1>7. EvictedIsToldToClose'
  <2>1. \A d \in Conns : writer'[d] => d # c /\ writer[d] /\ queue'[d] = queue[d]
    BY <1>1, <1>2
  <2> QED BY <1>1, <1>3, <2>1, EvictedStay DEF HistoryInv, Told
<1>8. TargetsAcross'
  BY <1>1, TargetsStay DEF HistoryInv
<1> QED BY <1>5, <1>6, <1>7, <1>8 DEF HistoryInv, StreamsSensible, ChannelsSound

LEMMA FrameMoves ==
  ASSUME NEW g \in Seq(Frames), NEW q \in Seq(Frames), q # <<>>,
         NEW rest \in Seq(Frames), Len(rest) <= Len(q) - 1,
         \A i \in 1 .. Len(rest) : rest[i] = q[i + 1]
  PROVE  /\ Append(g, Head(q)) \o rest \in Seq(Frames)
         /\ Len(Append(g, Head(q)) \o rest) <= Len(g \o q)
         /\ \A i \in 1 .. Len(Append(g, Head(q)) \o rest) :
              (Append(g, Head(q)) \o rest)[i] = (g \o q)[i]
<1> DEFINE seen == Append(g, Head(q))
           all == seen \o rest
           old == g \o q
           n == Len(g)
<1>1. /\ n \in Nat /\ Len(q) \in Nat /\ Len(rest) \in Nat /\ Len(q) >= 1
      /\ seen \in Seq(Frames) /\ Len(seen) = n + 1 /\ seen[n + 1] = q[1]
      /\ \A i \in 1 .. n : seen[i] = g[i]
  OBVIOUS
<1> HIDE DEF seen
<1>2. /\ all \in Seq(Frames) /\ Len(all) = (n + 1) + Len(rest)
      /\ \A i \in 1 .. n + 1 : all[i] = seen[i]
      /\ \A i \in 1 .. Len(rest) : all[(n + 1) + i] = rest[i]
  <2>1. /\ all \in Seq(Frames) /\ Len(all) = Len(seen) + Len(rest)
        /\ \A i \in 1 .. Len(seen) : all[i] = seen[i]
        /\ \A i \in 1 .. Len(rest) : all[Len(seen) + i] = rest[i]
    BY <1>1, Concatenated
  <2> HIDE DEF all, n
  <2> QED BY <1>1, <2>1
<1>3. /\ old \in Seq(Frames) /\ Len(old) = n + Len(q)
      /\ \A i \in 1 .. n : old[i] = g[i]
      /\ \A i \in 1 .. Len(q) : old[n + i] = q[i]
  BY Concatenated
<1> HIDE DEF all, old, n
<1>4. Len(all) <= Len(old)
  BY <1>1, <1>2, <1>3
<1>5. ASSUME NEW i \in 1 .. Len(all) PROVE all[i] = old[i]
  <2>1. CASE i \in 1 .. n
    BY <1>1, <1>2, <1>3, <2>1
  <2>2. CASE i = n + 1
    BY <1>1, <1>2, <1>3, <2>2
  <2>3. CASE i > n + 1
    <3> DEFINE k == i - (n + 1)
    <3>1. k \in 1 .. Len(rest) /\ i = (n + 1) + k /\ k + 1 \in 1 .. Len(q) /\ i = n + (k + 1)
      BY <1>1, <1>2, <2>3
    <3> HIDE DEF k
    <3>2. all[i] = rest[k] /\ rest[k] = q[k + 1]
      BY <1>2, <3>1
    <3>3. old[i] = q[k + 1]
      BY <1>3, <3>1
    <3> QED BY <3>2, <3>3
  <2> QED BY <1>1, <1>2, <2>1, <2>2, <2>3
<1> QED BY <1>2, <1>4, <1>5 DEF all, old, seen

(* Writing a frame moves it from the channel to the peer; after a close    *)
(* nothing more is written.                                                *)
LEMMA WriteTold ==
  ASSUME HistoryInv, Sound', NEW c \in Conns, Write(c)
  PROVE  HistoryInv'
<1> DEFINE frame == Head(queue[c])
           seen == Append(got[c], frame)
<1>1. /\ UNCHANGED <<rooms, reg, forwarded, target, pc>>
      /\ writer[c] /\ queue[c] # <<>> /\ got' = [got EXCEPT ![c] = seen]
      /\ \/ /\ frame.kind = "close" /\ writer' = [writer EXCEPT ![c] = FALSE]
            /\ queue' = [queue EXCEPT ![c] = <<>>]
         \/ /\ frame.kind # "close" /\ UNCHANGED writer
            /\ queue' = [queue EXCEPT ![c] = Tail(queue[c])]
  BY DEF Write, Stop, tasks
<1>2. /\ pc \in [Conns -> PCs] /\ forwarded \in Nat /\ writer \in [Conns -> BOOLEAN]
      /\ queue \in [Conns -> Seq(Frames)] /\ got \in [Conns -> Seq(Frames)]
  BY DEF HistoryInv, Sound, TasksTyped, CountsTyped, PipesTyped
<1>3. /\ got[c] \in Seq(Frames) /\ queue[c] \in Seq(Frames)
      /\ Len(queue[c]) >= 1 /\ Len(queue[c]) \in Nat /\ Len(got[c]) \in Nat
      /\ frame \in Frames /\ frame = queue[c][1] /\ Tail(queue[c]) \in Seq(Frames)
      /\ Len(Tail(queue[c])) = Len(queue[c]) - 1
      /\ \A i \in 1 .. Len(Tail(queue[c])) : Tail(queue[c])[i] = queue[c][i + 1]
  <2>1. got[c] \in Seq(Frames) /\ queue[c] \in Seq(Frames) /\ queue[c] # <<>>
    BY <1>1, <1>2
  <2> QED BY <2>1
<1>4. /\ seen \in Seq(Frames) /\ Len(seen) = Len(got[c]) + 1
      /\ \A i \in 1 .. Len(got[c]) : seen[i] = got[c][i]
      /\ seen[Len(got[c]) + 1] = frame
  <2> HIDE DEF frame
  <2> QED BY <1>3
<1> HIDE DEF frame, seen
<1>5. /\ Stream(c) \in Seq(Frames) /\ Len(Stream(c)) = Len(got[c]) + Len(queue[c])
      /\ \A i \in 1 .. Len(got[c]) : Stream(c)[i] = got[c][i]
      /\ \A i \in 1 .. Len(queue[c]) : Stream(c)[Len(got[c]) + i] = queue[c][i]
  BY <1>3, Concatenated DEF Stream
<1>6. ASSUME NEW rest \in Seq(Frames), Len(rest) <= Len(queue[c]) - 1,
             \A i \in 1 .. Len(rest) : rest[i] = queue[c][i + 1]
      PROVE  /\ seen \o rest \in Seq(Frames) /\ Len(seen \o rest) <= Len(Stream(c))
             /\ \A i \in 1 .. Len(seen \o rest) : (seen \o rest)[i] = Stream(c)[i]
  BY <1>1, <1>3, <1>6, FrameMoves DEF seen, frame, Stream
<1>7. PICK rest \in Seq(Frames) :
        /\ Len(rest) <= Len(queue[c]) - 1
        /\ \A i \in 1 .. Len(rest) : rest[i] = queue[c][i + 1]
        /\ got'[c] = seen /\ queue'[c] = rest
  <2>1. CASE frame.kind = "close"
    <3>1. got'[c] = seen /\ queue'[c] = <<>>
      BY <1>1, <1>2, <2>1
    <3>2. <<>> \in Seq(Frames) /\ Len(<<>>) = 0 /\ 0 <= Len(queue[c]) - 1
      BY <1>3
    <3>3. \A i \in 1 .. 0 : FALSE
      OBVIOUS
    <3> WITNESS <<>> \in Seq(Frames)
    <3> QED BY <3>1, <3>2, <3>3
  <2>2. CASE frame.kind # "close"
    <3>1. got'[c] = seen /\ queue'[c] = Tail(queue[c])
      BY <1>1, <1>2, <2>2
    <3>2. Tail(queue[c]) \in Seq(Frames) /\ Len(Tail(queue[c])) <= Len(queue[c]) - 1
      BY <1>3
    <3> QED BY <1>3, <3>1, <3>2
  <2> QED BY <2>1, <2>2
<1>8. forwarded' \in Nat /\ forwarded <= forwarded' /\ Busy' \subseteq Busy /\ UNCHANGED reg
  BY <1>1, <1>2 DEF Busy
<1>9. Stream(c)' = seen \o rest
  BY <1>7 DEF Stream
<1>10. ASSUME NEW d \in Conns
       PROVE  Sensible(d, Stream(d)', reg') /\ Numbered(Stream(d)', forwarded', Busy')
  <2>1. CASE d = c
    BY <1>6, <1>7, <1>8, <1>9, <2>1, StreamPart
  <2>2. CASE d # c
    BY <1>1, <1>2, <1>8, <2>2, StreamSame
  <2> QED BY <2>1, <2>2
<1>11. ASSUME NEW d \in Conns PROVE ChannelSound(d)'
  <2>1. CASE d = c
    <3>1. ChannelSound(c)
      BY DEF HistoryInv, ChannelsSound
    <3>2. pc[c] # "new" /\ pc'[c] = pc[c]
      BY <1>1, <3>1 DEF ChannelSound
    <3>3. Stream(c)' # <<>> /\ Stream(c)'[1].kind = "registered"
      <4>1. Stream(c)[1].kind = "registered"
        BY <1>1, <3>1 DEF ChannelSound
      <4>2. Len(seen \o rest) >= 1
        BY <1>3, <1>4, <1>7, Concatenated
      <4>3. (seen \o rest)[1] = Stream(c)[1] /\ seen \o rest # <<>>
        BY <1>6, <1>7, <4>2
      <4> QED BY <1>9, <4>1, <4>3
    <3>4. ASSUME NEW i \in 1 .. Len(seen), seen[i].kind = "close"
          PROVE  i = Len(seen) /\ ~writer'[c]
      <4>1. i \notin 1 .. Len(got[c])
        BY <1>1, <1>4, <3>1, <3>4 DEF ChannelSound
      <4>2. i = Len(seen) /\ seen[i] = frame
        BY <1>3, <1>4, <3>4, <4>1
      <4> QED BY <1>1, <1>2, <3>4, <4>2
    <3> QED BY <1>7, <2>1, <3>2, <3>3, <3>4 DEF ChannelSound
  <2>2. CASE d # c
    BY <1>1, <1>2, <2>2, ChannelSame DEF HistoryInv, ChannelsSound
  <2> QED BY <2>1, <2>2
<1>12. ASSUME NEW d \in Conns, writer'[d]
       PROVE  writer[d] /\ (Told(d) => Told(d)')
  <2>1. CASE d = c
    <3>1. frame.kind # "close" /\ writer[c] /\ queue'[c] = Tail(queue[c])
      BY <1>1, <1>2, <1>12, <2>1
    <3>2. ASSUME NEW i \in DOMAIN queue[c], queue[c][i].kind = "close"
          PROVE  \E k \in DOMAIN queue'[c] : queue'[c][k].kind = "close"
      <4>1. i \in 1 .. Len(queue[c]) /\ i # 1
        BY <1>3, <3>1, <3>2
      <4>2. i - 1 \in 1 .. Len(Tail(queue[c])) /\ (i - 1) + 1 = i
        BY <1>3, <4>1
      <4>3. Tail(queue[c])[i - 1] = queue[c][i]
        BY <1>3, <4>2
      <4>4. DOMAIN Tail(queue[c]) = 1 .. Len(Tail(queue[c]))
        BY <1>3
      <4> QED BY <3>1, <3>2, <4>2, <4>3, <4>4
    <3> QED BY <2>1, <3>1, <3>2 DEF Told
  <2>2. CASE d # c
    BY <1>1, <1>2, <1>12, <2>2 DEF Told
  <2> QED BY <2>1, <2>2
<1>13. EvictedIsToldToClose'
  BY <1>1, <1>12, EvictedStay DEF HistoryInv, Counted
<1>14. TargetsAcross'
  BY <1>1, TargetsStay DEF HistoryInv
<1> QED BY <1>10, <1>11, <1>13, <1>14 DEF HistoryInv, StreamsSensible, ChannelsSound

(* Who is refused is told why, then the connection is closed. *)
LEMMA RefusalsTold ==
  ASSUME HistoryInv, Sound', NEW c \in Conns,
         \/ RejectInvalid(c) \/ RejectRateLimited(c) \/ RejectMismatch(c)
         \/ RejectHostOffline(c)
  PROVE  HistoryInv'
<1>1. PICK code \in Reasons \cap Notices : pc[c] = "new" /\ Refuse(c, code)
  BY DEF RejectInvalid, RejectRateLimited, RejectMismatch, RejectHostOffline, Reasons, Notices
<1>2. UNCHANGED rooms
  BY RefusedRoomGoes DEF RejectInvalid, RejectRateLimited, RejectMismatch, HistoryInv
<1> DEFINE told == <<Notice(code), Notice("close")>>
<1>3. /\ UNCHANGED <<reg, forwarded, target, queue, writer>>
      /\ pc' = [pc EXCEPT ![c] = "gone"] /\ got' = [got EXCEPT ![c] = told]
  BY <1>1 DEF Refuse, Leave
<1>4. /\ pc \in [Conns -> PCs] /\ forwarded \in Nat /\ got \in [Conns -> Seq(Frames)]
      /\ reg \in [Conns -> Registrations]
  BY DEF HistoryInv, Sound, TasksTyped, CountsTyped, PipesTyped
<1>5. queue[c] = <<>> /\ got[c] = <<>> /\ ~writer[c]
  BY <1>1 DEF HistoryInv, ChannelsSound, ChannelSound
<1>6. told \in Seq(Frames) /\ Len(told) = 2 /\ told[1] = Notice(code) /\ told[2] = Notice("close")
  <2>1. told \in Seq(Frames)
    BY NoticesAreFrames DEF Notices
  <2> QED BY <2>1
<1> HIDE DEF told
<1>7. \A d \in Conns : /\ pc'[d] = "new" => pc[d] = "new"
                       /\ pc'[d] = "sending" => pc[d] = "sending"
                       /\ Counted(d)' => Counted(d)
  BY <1>1, <1>3, <1>4 DEF Counted
<1>8. Busy' \subseteq Busy /\ forwarded <= forwarded' /\ forwarded' \in Nat
  BY <1>3, <1>4, <1>7 DEF Busy
<1>9. ASSUME NEW d \in Conns
      PROVE  Sensible(d, Stream(d)', reg') /\ Numbered(Stream(d)', forwarded', Busy')
  <2>1. CASE d = c
    <3>1. Stream(d)' = told
      <4>1. told \o <<>> = told
        BY <1>6
      <4> QED BY <1>3, <1>4, <1>5, <2>1, <4>1 DEF Stream
    <3>2. /\ told[1].kind = code /\ code \in Reasons /\ told[1].from = None
          /\ told[2].kind = "close" /\ told[2].from = None
      BY <1>1, <1>6 DEF Notice
    <3>3. Numbered(told, forwarded, Busy')
      BY <1>6, <3>2 DEF Numbered, Reasons
    <3>4. Sensible(c, told, reg)
      <4>1. \A i \in 1 .. Len(told) : told[i].kind # "data" /\ told[i].from = None
        BY <1>6, <3>2 DEF Reasons
      <4>2. \A i \in 1 .. Len(told) : told[i].kind = "close" =>
              \E j \in 1 .. (i - 1) : told[j].kind \in Reasons
        BY <1>6, <3>2 DEF Reasons
      <4> QED BY <4>1, <4>2 DEF Sensible
    <3> QED BY <1>3, <2>1, <3>1, <3>3, <3>4
  <2>2. CASE d # c
    BY <1>3, <1>4, <1>8, <2>2, StreamSame
  <2> QED BY <2>1, <2>2
<1>10. ASSUME NEW d \in Conns PROVE ChannelSound(d)'
  <2>1. CASE d = c
    <3>1. got'[c] = told /\ pc'[c] = "gone" /\ ~writer'[c]
      BY <1>3, <1>4, <1>5
    <3>2. \A i \in 1 .. Len(told) : told[i].kind = "close" => i = Len(told)
      BY <1>1, <1>6 DEF Notice, Reasons
    <3> QED BY <2>1, <3>1, <3>2 DEF ChannelSound
  <2>2. CASE d # c
    BY <1>3, <1>4, <1>7, <2>2, ChannelSame DEF HistoryInv, ChannelsSound
  <2> QED BY <2>1, <2>2
<1>11. EvictedIsToldToClose'
  BY <1>2, <1>3, <1>7, EvictedStay DEF HistoryInv, Told
<1>12. TargetsAcross'
  BY <1>3, TargetsStay DEF HistoryInv
<1> QED BY <1>9, <1>10, <1>11, <1>12 DEF HistoryInv, StreamsSensible, ChannelsSound

(* A registration displaces at most the connection in its slot, and that   *)
(* one is told.                                                            *)
LEMMA RegisterTold ==
  ASSUME HistoryInv, Sound', NEW c \in Conns, Register(c)
  PROVE  HistoryInv'
<1> DEFINE room == Entered(c)
           role == reg[c].role
           here == reg[c].room
           before == room.slot[role]
           more == Farewell(role)
           hello == <<Notice("registered")>>
<1>1. /\ pc[c] = "new" /\ UNCHANGED <<forwarded, reg, target, sock, got>>
      /\ rooms' = [rooms EXCEPT ![here] = [room EXCEPT !.slot[role] = c]]
      /\ queue' = [Sent(queue, before, more) EXCEPT ![c] = hello]
      /\ writer' = [writer EXCEPT ![c] = TRUE]
      /\ pc' = [pc EXCEPT ![c] = "live"]
  BY DEF Register, Leave
<1>2. /\ pc \in [Conns -> PCs] /\ forwarded \in Nat /\ got \in [Conns -> Seq(Frames)]
      /\ writer \in [Conns -> BOOLEAN] /\ reg \in [Conns -> Registrations]
      /\ rooms \in [Rooms -> RoomRecords \cup {NoRoom}]
  BY DEF HistoryInv, Sound, TasksTyped, CountsTyped, PipesTyped, RoomsTyped
<1>3. /\ room \in RoomRecords /\ role \in Roles /\ here \in Rooms /\ ~Counted(c)
      /\ before \in Conns \cup {None}
  <2>1. room \in RoomRecords /\ role \in Roles /\ here \in Rooms /\ ~Counted(c)
    BY <1>1, EnteredIs, RegTyped DEF HistoryInv, Counted
  <2> HIDE DEF room, role
  <2> QED BY <2>1 DEF RoomRecords
<1>4. more \in Seq(Frames) /\ hello \in Seq(Frames)
      /\ Len(hello) = 1 /\ hello[1].kind = "registered" /\ hello[1].from = None
  <2>1. more \in Seq(Frames) /\ hello \in Seq(Frames)
    BY NoticesAreFrames DEF Farewell, Notices
  <2>2. hello[1] = Notice("registered") /\ Len(hello) = 1
    OBVIOUS
  <2> HIDE DEF more, hello
  <2> QED BY <2>1, <2>2 DEF Notice
<1>5. room = IF rooms[here] = NoRoom THEN EmptyRoom(reg[c].token) ELSE rooms[here]
  BY EnteredIs DEF RoomOf, HistoryInv
<1>6. got[c] = <<>> /\ queue[c] = <<>> /\ ~writer[c]
  BY <1>1 DEF HistoryInv, ChannelsSound, ChannelSound
<1> HIDE DEF room, here, before, hello
<1>7. ASSUME before # None
      PROVE  /\ before \in Conns /\ before # c /\ reg[before].role = role
             /\ rooms[here] # NoRoom
  <2>1. rooms[here] # NoRoom /\ rooms[here].slot[role] = before
    BY <1>3, <1>5, <1>7 DEF before, EmptyRoom
  <2>2. before \in Conns
    BY <1>3, <1>7
  <2>3. Counted(before) /\ reg[before].role = role
    BY <1>3, <2>1, <2>2, Named DEF HistoryInv
  <2> QED BY <1>3, <2>1, <2>2, <2>3
<1> HIDE DEF role, more
<1>8. \A d \in Conns : queue'[d] = IF d = c THEN hello
                                   ELSE IF d = before /\ writer[d] THEN queue[d] \o more
                                   ELSE queue[d]
  <2>1. Sent(queue, before, more) \in [Conns -> Seq(Frames)]
    BY <1>3, <1>4, SentTyped DEF HistoryInv, Sound
  <2>2. \A d \in Conns : Sent(queue, before, more)[d]
          = IF d = before /\ writer[d] THEN queue[d] \o more ELSE queue[d]
    BY <1>3, <1>4, SentAt DEF HistoryInv
  <2> QED BY <1>1, <2>1, <2>2
<1>9. \A d \in Conns : /\ pc'[d] = "new" => pc[d] = "new"
                       /\ pc'[d] = "sending" => pc[d] = "sending"
                       /\ d # c => (Counted(d)' <=> Counted(d)) /\ writer'[d] = writer[d]
  BY <1>1, <1>2 DEF Counted
<1>10. Busy' \subseteq Busy /\ forwarded <= forwarded' /\ forwarded' \in Nat
  BY <1>1, <1>2, <1>9 DEF Busy
<1>11. ASSUME NEW d \in Conns, d = before, writer[d]
       PROVE  /\ Sensible(d, Stream(d)', reg') /\ Numbered(Stream(d)', forwarded', Busy')
              /\ Told(d)'
  <2>1. before # None /\ d # c /\ reg[d].role = role
    BY <1>7, <1>11, RelayAssumption
  <2>2. got'[d] = got[d] /\ queue'[d] = queue[d] \o more
    BY <1>1, <1>8, <1>11, <2>1
  <2>3. "CLIENT_REPLACED" \in Notices /\ "CLIENT_REPLACED" \in Reasons
    BY DEF Notices, Reasons
  <2>4. \/ more = <<Notice("CLIENT_REPLACED"), Notice("close")>> /\ "CLIENT_REPLACED" \in Reasons
        \/ more = <<Notice("close")>> /\ reg[d].role = "host"
    BY <1>3, <2>1, <2>3 DEF more, Farewell, Roles
  <2>5. UNCHANGED <<reg, forwarded>> /\ Busy' \subseteq Busy
    BY <1>1, <1>10
  <2> QED BY <1>4, <2>2, <2>3, <2>4, <2>5, StreamTold DEF Told
<1>12. ASSUME NEW d \in Conns
       PROVE  Sensible(d, Stream(d)', reg') /\ Numbered(Stream(d)', forwarded', Busy')
  <2>1. CASE d = c
    <3>1. Stream(d)' = hello
      <4>1. <<>> \o hello = hello
        BY <1>4
      <4> QED BY <1>1, <1>6, <1>8, <2>1, <4>1 DEF Stream
    <3>2. \A i \in 1 .. Len(hello) : hello[i].kind = "registered" /\ hello[i].from = None
      BY <1>4
    <3>3. Numbered(hello, forwarded, Busy')
      BY <3>2 DEF Numbered
    <3>4. Sensible(c, hello, reg)
      BY <3>2 DEF Sensible
    <3> QED BY <1>1, <2>1, <3>1, <3>3, <3>4
  <2>2. CASE d # c /\ d = before /\ writer[d]
    BY <1>11, <2>2
  <2>3. CASE d # c /\ ~(d = before /\ writer[d])
    BY <1>1, <1>8, <1>10, <2>3, StreamSame
  <2> QED BY <2>1, <2>2, <2>3
<1>13. ASSUME NEW d \in Conns PROVE ChannelSound(d)'
  <2>1. CASE d = c
    <3>1. Stream(d)' = hello
      <4>1. <<>> \o hello = hello
        BY <1>4
      <4> QED BY <1>1, <1>6, <1>8, <2>1, <4>1 DEF Stream
    <3>2. pc'[d] = "live" /\ got'[d] = <<>>
      BY <1>1, <1>2, <1>6, <2>1
    <3>3. hello # <<>> /\ Len(<<>>) = 0
      BY DEF hello
    <3> QED BY <1>4, <3>1, <3>2, <3>3 DEF ChannelSound
  <2>2. CASE d # c /\ d = before
    BY <1>1, <1>4, <1>8, <1>9, <2>2, ChannelAppended DEF HistoryInv, ChannelsSound
  <2>3. CASE d # c /\ d # before
    BY <1>1, <1>8, <1>9, <2>3, ChannelSame DEF HistoryInv, ChannelsSound
  <2> QED BY <2>1, <2>2, <2>3
<1>14. /\ rooms'[here] # NoRoom /\ rooms'[here].slot[role] = c
       /\ \A r \in Rooms : r # here => rooms'[r] = rooms[r]
       /\ \A slot \in Roles : slot # role => rooms'[here].slot[slot] = room.slot[slot]
  <2>1. rooms'[here] = [room EXCEPT !.slot[role] = c]
        /\ \A r \in Rooms : r # here => rooms'[r] = rooms[r]
    BY <1>1, <1>2, <1>3
  <2>2. [room EXCEPT !.slot[role] = c] \in RoomRecords
    BY <1>3 DEF RoomRecords
  <2> QED BY <1>3, <2>1, <2>2, RelayAssumption DEF RoomRecords
<1>15. ASSUME NEW d \in Conns, Counted(d)', ~HoldsSlot(d)', writer'[d]
       PROVE  Told(d)'
  <2>1. d # c
    <3>1. here = reg'[c].room /\ role = reg'[c].role
      BY <1>1 DEF here, role
    <3>2. HoldsSlot(c)'
      BY <1>14, <3>1 DEF HoldsSlot, RoomOf
    <3> QED BY <1>15, <3>2
  <2>2. Counted(d) /\ writer[d]
    BY <1>9, <1>15, <2>1
  <2>3. CASE HoldsSlot(d)
    <3>1. rooms[reg[d].room] # NoRoom /\ rooms[reg[d].room].slot[reg[d].role] = d
          /\ reg[d].room \in Rooms /\ reg[d].role \in Roles
      BY <2>3, RegTyped DEF HoldsSlot, RoomOf, HistoryInv
    <3>2. reg[d].room = here
      BY <1>1, <1>14, <1>15, <3>1 DEF HoldsSlot, RoomOf
    <3>3. reg[d].role = role
      <4>1. rooms'[here].slot[reg[d].role] # d
        BY <1>1, <1>14, <1>15, <3>2 DEF HoldsSlot, RoomOf
      <4>2. room = rooms[here]
        BY <1>5, <3>1, <3>2
      <4> QED BY <1>14, <3>1, <3>2, <4>1, <4>2
    <3>4. before = d
      BY <1>5, <3>1, <3>2, <3>3 DEF before
    <3> QED BY <1>11, <2>2, <3>4
  <2>4. CASE ~HoldsSlot(d)
    <3>1. Told(d)
      BY <2>2, <2>4 DEF HistoryInv, EvictedIsToldToClose, Told
    <3>2. CASE d = before
      BY <1>4, <1>8, <2>1, <2>2, <3>1, <3>2, ToldStays DEF HistoryInv
    <3>3. CASE d # before
      BY <1>8, <2>1, <3>1, <3>3 DEF Told
    <3> QED BY <3>2, <3>3
  <2> QED BY <2>3, <2>4
<1>16. EvictedIsToldToClose'
  BY <1>15 DEF EvictedIsToldToClose, Told
<1>17. TargetsAcross'
  BY <1>1, TargetsStay DEF HistoryInv
<1> QED BY <1>12, <1>13, <1>16, <1>17 DEF HistoryInv, StreamsSensible, ChannelsSound

(* When a desktop leaves, its phone loses the slot and is told. *)
LEMMA UnregisterTold ==
  ASSUME HistoryInv, Sound', NEW c \in Conns, Unregister(c)
  PROVE  HistoryInv'
<1> DEFINE here == reg[c].room
           more == <<Notice("HOST_OFFLINE"), Notice("close")>>
           left(d) == HoldsSlot(c) /\ reg[c].role = "host" /\ d = RoomOf(c).slot["client"]
<1>1. /\ pc[c] = "leaving" /\ UNCHANGED <<forwarded, reg, target, writer, sock, got>>
      /\ pc' = [pc EXCEPT ![c] = "unregistered"]
      /\ rooms' = IF HoldsSlot(c) THEN [rooms EXCEPT ![here] = Vacated(c)] ELSE rooms
      /\ queue' = IF HoldsSlot(c) /\ reg[c].role = "host"
                  THEN Sent(queue, RoomOf(c).slot["client"], more) ELSE queue
  BY DEF Unregister, Leave
<1>2. /\ pc \in [Conns -> PCs] /\ forwarded \in Nat
      /\ rooms \in [Rooms -> RoomRecords \cup {NoRoom}]
      /\ reg[c].role \in Roles /\ here \in Rooms
  BY RegTyped DEF HistoryInv, Sound, TasksTyped, CountsTyped, RoomsTyped
<1>3. more \in Seq(Frames)
  BY NoticesAreFrames DEF Notices
<1>4. \A d \in Conns : queue'[d] = IF left(d) /\ writer[d] THEN queue[d] \o more ELSE queue[d]
  <2>1. CASE HoldsSlot(c) /\ reg[c].role = "host"
    <3>1. RoomOf(c).slot["client"] \in Conns \cup {None}
      BY <1>2, <2>1 DEF HoldsSlot, RoomOf, RoomRecords, Roles
    <3>2. \A d \in Conns : Sent(queue, RoomOf(c).slot["client"], more)[d]
            = IF d = RoomOf(c).slot["client"] /\ writer[d] THEN queue[d] \o more ELSE queue[d]
      <4> HIDE DEF more
      <4> QED BY <1>3, <3>1, SentAt DEF HistoryInv
    <3>3. queue' = Sent(queue, RoomOf(c).slot["client"], more)
      BY <1>1, <2>1
    <3> QED BY <2>1, <3>2, <3>3
  <2>2. CASE ~(HoldsSlot(c) /\ reg[c].role = "host")
    BY <1>1, <2>2
  <2> QED BY <2>1, <2>2
<1> HIDE DEF more
<1>5. ASSUME NEW d \in Conns, left(d) PROVE reg[d].role = "client" /\ Counted(d)
  <2>1. rooms[here] # NoRoom /\ rooms[here].slot["client"] = d
    BY <1>5 DEF HoldsSlot, RoomOf
  <2> QED BY <1>2, <2>1, Named DEF HistoryInv, Roles
<1>6. \A d \in Conns : /\ pc'[d] = "new" => pc[d] = "new"
                       /\ pc'[d] = "sending" => pc[d] = "sending"
                       /\ Counted(d)' => Counted(d) /\ d # c
  BY <1>1, <1>2 DEF Counted
<1>7. Busy' \subseteq Busy /\ forwarded <= forwarded' /\ forwarded' \in Nat
  BY <1>1, <1>2, <1>6 DEF Busy
<1>8. ASSUME NEW d \in Conns, left(d), writer[d]
      PROVE  /\ Sensible(d, Stream(d)', reg') /\ Numbered(Stream(d)', forwarded', Busy')
             /\ Told(d)'
  <2>1. "HOST_OFFLINE" \in Notices /\ "HOST_OFFLINE" \in Reasons
    BY DEF Notices, Reasons
  <2>2. more = <<Notice("HOST_OFFLINE"), Notice("close")>> /\ "HOST_OFFLINE" \in Reasons
    BY <2>1 DEF more
  <2>3. UNCHANGED <<reg, forwarded>> /\ Busy' \subseteq Busy
    BY <1>1, <1>7
  <2>4. got'[d] = got[d] /\ queue'[d] = queue[d] \o more
    BY <1>1, <1>4, <1>8
  <2> HIDE DEF left
  <2> QED BY <1>3, <2>1, <2>2, <2>3, <2>4, StreamTold DEF Told
<1> HIDE DEF left, here
<1>9. ASSUME NEW d \in Conns
      PROVE  Sensible(d, Stream(d)', reg') /\ Numbered(Stream(d)', forwarded', Busy')
  <2>1. CASE left(d) /\ writer[d]
    BY <1>8, <2>1
  <2>2. CASE ~(left(d) /\ writer[d])
    BY <1>1, <1>4, <1>7, <2>2, StreamSame
  <2> QED BY <2>1, <2>2
<1>10. ASSUME NEW d \in Conns PROVE ChannelSound(d)'
  <2>1. CASE left(d)
    BY <1>1, <1>3, <1>4, <1>6, <2>1, ChannelAppended DEF HistoryInv, ChannelsSound
  <2>2. CASE ~left(d)
    BY <1>1, <1>4, <1>6, <2>2, ChannelSame DEF HistoryInv, ChannelsSound
  <2> QED BY <2>1, <2>2
<1>11. ASSUME NEW d \in Conns, Told(d) PROVE Told(d)'
  <2>1. CASE left(d) /\ writer[d]
    BY <1>3, <1>4, <1>11, <2>1, ToldStays DEF HistoryInv
  <2>2. CASE ~(left(d) /\ writer[d])
    BY <1>4, <1>11, <2>2 DEF Told
  <2> QED BY <2>1, <2>2
<1>12. ASSUME NEW d \in Conns, Counted(d)', ~HoldsSlot(d)', writer'[d]
       PROVE  Told(d)'
  <2>1. d # c /\ Counted(d) /\ writer[d]
    BY <1>1, <1>6, <1>12
  <2>2. CASE HoldsSlot(d)
    <3>1. rooms[reg[d].room] # NoRoom /\ rooms[reg[d].room].slot[reg[d].role] = d
          /\ reg[d].room \in Rooms /\ reg[d].role \in Roles
      BY <2>2, RegTyped DEF HoldsSlot, RoomOf, HistoryInv
    <3>2. rooms'[reg[d].room] = NoRoom \/ rooms'[reg[d].room].slot[reg[d].role] # d
      BY <1>1, <1>12 DEF HoldsSlot, RoomOf
    <3>3. HoldsSlot(c) /\ reg[d].room = here /\ rooms'[here] = Vacated(c)
          /\ RoomOf(c) = rooms[here]
      BY <1>1, <1>2, <3>1, <3>2 DEF here, RoomOf
    <3>4. reg[d].role # reg[c].role
      BY <2>1, <3>1, <3>3 DEF HoldsSlot, RoomOf
    <3>5. CASE reg[c].role = "host"
      <4>1. left(d)
        BY <1>2, <3>1, <3>3, <3>4, <3>5 DEF left, Roles
      <4> QED BY <1>8, <2>1, <4>1
    <3>6. CASE reg[c].role = "client"
      <4> DEFINE kept == [rooms[here] EXCEPT !.slot["client"] = None]
      <4>1. reg[d].role = "host"
        BY <1>2, <3>1, <3>4, <3>6 DEF Roles
      <4>2. kept.slot["host"] = d
        BY <1>2, <3>1, <3>3, <4>1 DEF RoomRecords, Roles
      <4>3. ~IsEmpty(kept)
        BY <4>2, RelayAssumption DEF IsEmpty, Roles
      <4>4. rooms'[here] = kept
        BY <3>3, <3>6, <4>3 DEF Vacated
      <4>5. kept # NoRoom
        BY <1>2, <3>1, <3>3, RelayAssumption DEF RoomRecords, Roles
      <4> QED BY <3>2, <3>3, <4>1, <4>2, <4>4, <4>5
    <3> QED BY <1>2, <3>5, <3>6 DEF Roles
  <2>3. CASE ~HoldsSlot(d)
    BY <1>11, <2>1, <2>3 DEF HistoryInv, EvictedIsToldToClose, Told
  <2> QED BY <2>2, <2>3
<1>13. EvictedIsToldToClose'
  BY <1>12 DEF EvictedIsToldToClose, Told
<1>14. TargetsAcross'
  BY <1>1, TargetsStay DEF HistoryInv
<1> QED BY <1>9, <1>10, <1>13, <1>14 DEF HistoryInv, StreamsSensible, ChannelsSound

----
LEMMA HistoryInit == Init => HistoryInv
<1> SUFFICES ASSUME Init PROVE HistoryInv
  OBVIOUS
<1>1. Sound
  BY SoundInit
<1>2. ASSUME NEW c \in Conns
      PROVE  Stream(c) = <<>> /\ got[c] = <<>> /\ queue[c] = <<>> /\ ~writer[c]
             /\ target[c] = None /\ ~Counted(c)
  BY DEF Init, Stream, Counted
<1>3. Len(<<>>) = 0
  OBVIOUS
<1>4. StreamsSensible
  BY <1>2, <1>3 DEF StreamsSensible, Sensible, Numbered
<1>5. ChannelsSound
  BY <1>2, <1>3 DEF ChannelsSound, ChannelSound
<1>6. TargetsAcross /\ EvictedIsToldToClose
  BY <1>2 DEF TargetsAcross, EvictedIsToldToClose
<1> QED BY <1>1, <1>4, <1>5, <1>6 DEF HistoryInv

LEMMA HistoryNext == HistoryInv /\ [Next]_vars => HistoryInv'
<1> SUFFICES ASSUME HistoryInv, [Next]_vars PROVE HistoryInv'
  OBVIOUS
<1>1. Sound'
  BY SoundNext DEF HistoryInv
<1>2. ASSUME NEW c \in Conns, Handler(c) PROVE HistoryInv'
  BY <1>1, <1>2, RefusalsTold, RegisterTold, ForwardTold, SendTold, QuietStepsKeep,
     UnregisterTold, StopsKeep DEF Handler
<1>3. ASSUME NEW c \in Conns, Write(c) \/ WriteFails(c) \/ PeerVanishes(c)
      PROVE  HistoryInv'
  BY <1>1, <1>3, WriteTold, StopsKeep, QuietStepsKeep
<1>4. CASE UNCHANGED vars
  BY <1>4 DEF vars, counters, tasks, pipes, HistoryInv, Sound, RoomsTyped, TasksTyped,
              PipesTyped, CountsTyped, RoomsHaveHosts, SlotsNameTheirOwners, ActiveCounts,
              Counted, StreamsSensible, Stream, Busy, ChannelsSound, ChannelSound,
              TargetsAcross, EvictedIsToldToClose, HoldsSlot, RoomOf
<1> QED BY <1>2, <1>3, <1>4 DEF Next

(* What was received is the beginning of the stream. *)
LEMMA HistoryGives == HistoryInv => FramesMakeSense
<1> SUFFICES ASSUME HistoryInv, NEW c \in Conns
    PROVE  /\ \A i \in DOMAIN got[c] : got[c][i].kind = "close" => i = Len(got[c])
           /\ \A i \in DOMAIN got[c] : got[c][i].kind = "data" => got[c][1].kind = "registered"
           /\ reg[c].role = "client" =>
                \A i \in DOMAIN got[c] : got[c][i].kind = "close" =>
                  \E j \in 1 .. (i - 1) : got[c][j].kind \in Reasons
           /\ \A i \in DOMAIN got[c] : got[c][i].kind = "data" =>
                /\ reg[got[c][i].from].room = reg[c].room
                /\ reg[got[c][i].from].role = Other(reg[c].role)
                /\ \A j \in 1 .. (i - 1) : got[c][j].from = got[c][i].from
                                             => got[c][j].n < got[c][i].n
  BY DEF FramesMakeSense, PeerStream, DataInOrder
<1>1. /\ got[c] \in Seq(Frames) /\ Stream(c) \in Seq(Frames) /\ Len(got[c]) \in Nat
      /\ Len(queue[c]) \in Nat /\ Len(Stream(c)) = Len(got[c]) + Len(queue[c])
      /\ \A i \in 1 .. Len(got[c]) : Stream(c)[i] = got[c][i]
  BY PipesAre DEF HistoryInv
<1>2. /\ forwarded \in Nat /\ reg \in [Conns -> Registrations]
      /\ Sensible(c, Stream(c), reg) /\ Numbered(Stream(c), forwarded, Busy)
  BY DEF HistoryInv, Sound, CountsTyped, TasksTyped, StreamsSensible
<1>3. Len(got[c]) <= Len(Stream(c))
  <2> DEFINE n == Len(got[c])
             m == Len(queue[c])
             k == Len(Stream(c))
  <2>1. n \in Nat /\ m \in Nat /\ k = n + m
    BY <1>1
  <2> HIDE DEF n, m, k
  <2>2. n <= k
    BY <2>1
  <2> QED BY <2>2 DEF n, k
<1>4. Sensible(c, got[c], reg)
  BY <1>1, <1>2, <1>3, PartSensible
<1>5. DOMAIN got[c] = 1 .. Len(got[c])
  BY <1>1
<1>6. \A i \in 1 .. Len(got[c]) : got[c][i].kind = "close" => i = Len(got[c])
  BY DEF HistoryInv, ChannelsSound, ChannelSound
<1> QED BY <1>4, <1>5, <1>6 DEF Sensible

(* No registration, replacement or departure leaves a connection without   *)
(* its slot and still waiting: it has been told to close, or nothing can   *)
(* be told to it any more.                                                 *)
THEOREM EvictedAreTold == Safety => []EvictedIsToldToClose
<1>1. HistoryInv => EvictedIsToldToClose
  BY DEF HistoryInv
<1> QED BY <1>1, HistoryInit, HistoryNext, PTL DEF Safety

(* Whatever is replaced, delayed or lost, a peer sees its registration     *)
(* first, the reason before the close and nothing after it, and data only  *)
(* of the other side of its room, each sender's in the order it was sent.  *)
THEOREM StreamsMakeSense == Safety => []FramesMakeSense
BY HistoryInit, HistoryNext, HistoryGives, PTL DEF Safety

----
(* The limiter of handshakes keeps its buckets typed, keeps every address  *)
(* within its budget, and is indistinguishable from one that never forgets *)
(* a bucket, for any capacity, window, cleanup period and number of        *)
(* addresses.                                                              *)

(* Arithmetic about the refill. *)
LEMMA FullNat == Full \in Nat /\ Window <= Full
<1>1. Capacity \in Nat /\ Capacity >= 1 /\ Window \in Nat /\ Window >= 1
  BY LimiterAssumption
<1> QED BY <1>1 DEF Full

LEMMA RefillNat ==
  ASSUME NEW d \in Nat
  PROVE  /\ d * Capacity \in Nat
         /\ (d + 1) * Capacity = d * Capacity + Capacity
         /\ d >= Window => d * Capacity >= Full
<1>1. Capacity \in Nat /\ Window \in Nat
  BY LimiterAssumption
<1>2. d * Capacity \in Nat /\ (d + 1) * Capacity = d * Capacity + Capacity
  BY <1>1
<1>3. ASSUME d >= Window PROVE d * Capacity >= Full
  <2>1. (d - Window) * Capacity \in Nat
    BY <1>1, <1>3
  <2>2. d * Capacity = (d - Window) * Capacity + Window * Capacity
    BY <1>1
  <2>3. Window * Capacity = Full
    BY <1>1 DEF Full
  <2>4. d * Capacity \in Nat /\ Full \in Nat
    BY <1>2, FullNat
  <2> QED BY <2>1, <2>2, <2>3, <2>4
<1> QED BY <1>2, <1>3

----
(* Levels. *)
BucketRecords == [tokens : 0..Full, at : 0..now]

LEMMA BucketTyped ==
  ASSUME LimiterTypeOK, NEW ip \in Ips, buckets[ip] # NoBucket
  PROVE  /\ buckets[ip].tokens \in 0..Full /\ buckets[ip].at \in 0..now
         /\ now \in Nat /\ now - buckets[ip].at \in Nat
<1>1. buckets[ip] \in BucketRecords /\ now \in Nat
  BY LimiterAssumption DEF LimiterTypeOK, BucketRecords
<1>2. /\ buckets[ip].tokens \in 0..Full /\ buckets[ip].at \in 0..now
  BY <1>1 DEF BucketRecords
<1>3. now - buckets[ip].at \in Nat
  BY <1>1, <1>2
<1> QED BY <1>1, <1>2, <1>3

LEMMA LevelTyped ==
  ASSUME LimiterTypeOK, NEW ip \in Ips
  PROVE  LevelOf(ip) \in 0..Full
<1>1. CASE buckets[ip] = NoBucket
  BY <1>1, FullNat DEF LevelOf, TokensAtUse
<1>2. CASE buckets[ip] # NoBucket
  <2> DEFINE refill == (now - buckets[ip].at) * Capacity
  <2>1. refill \in Nat /\ buckets[ip].tokens \in 0..Full
    BY <1>2, BucketTyped, RefillNat
  <2>2. LevelOf(ip) = Lower(Full, buckets[ip].tokens + refill)
    BY <1>2 DEF LevelOf, TokensAtUse, Refilled
  <2> HIDE DEF refill
  <2> QED BY <2>1, <2>2, FullNat DEF Lower
<1> QED BY <1>1, <1>2

(* A bucket that may be forgotten is full: nothing is lost with it. *)
LEMMA StaleIsFull ==
  ASSUME LimiterTypeOK, NEW ip \in Ips, Stale(buckets[ip])
  PROVE  LevelOf(ip) = Full
<1> DEFINE idle == now - buckets[ip].at
           refill == idle * Capacity
<1>1. buckets[ip] # NoBucket /\ idle >= StaleAfter
  BY DEF Stale
<1>2. idle \in Nat /\ buckets[ip].tokens \in 0..Full
  BY <1>1, BucketTyped
<1>3. StaleAfter \in Nat /\ Window \in Nat /\ StaleAfter >= Window
  BY LimiterAssumption
<1>4. idle >= Window
  <2> HIDE DEF idle
  <2> QED BY <1>1, <1>2, <1>3
<1>5. refill \in Nat /\ refill >= Full
  <2> HIDE DEF idle
  <2> QED BY <1>2, <1>4, RefillNat
<1>6. LevelOf(ip) = Lower(Full, buckets[ip].tokens + refill)
  BY <1>1 DEF LevelOf, TokensAtUse, Refilled
<1> HIDE DEF refill
<1> QED BY <1>2, <1>5, <1>6, FullNat DEF Lower

(* A cleanup leaves every bucket at its level. *)
LEMMA CleaningUnobserved ==
  ASSUME LimiterTypeOK, NEW ip \in Ips
  PROVE  /\ TokensAtUse(Cleaned[ip]) = LevelOf(ip)
         /\ Cleaned[ip] \in BucketRecords \cup {NoBucket}
<1>1. buckets[ip] \in BucketRecords \cup {NoBucket}
  BY DEF LimiterTypeOK, BucketRecords
<1>2. CASE Cleaned[ip] = buckets[ip]
  BY <1>1, <1>2 DEF LevelOf
<1>3. CASE Cleaned[ip] # buckets[ip]
  <2>1. Cleaned[ip] = NoBucket /\ Stale(buckets[ip])
    BY <1>3 DEF Cleaned
  <2> QED BY <2>1, StaleIsFull DEF TokensAtUse
<1> QED BY <1>2, <1>3

(* An instant refills every bucket by Capacity units, up to a full one. *)
LEMMA TickRefills ==
  ASSUME LimiterTypeOK, Tick, NEW ip \in Ips
  PROVE  LevelOf(ip)' = Lower(Full, LevelOf(ip) + Capacity)
<1>1. now' = now + 1 /\ UNCHANGED buckets /\ Capacity \in Nat
  BY LimiterAssumption DEF Tick
<1>2. CASE buckets[ip] = NoBucket
  <2>1. LevelOf(ip) = Full /\ LevelOf(ip)' = Full
    BY <1>1, <1>2 DEF LevelOf, TokensAtUse
  <2> QED BY <1>1, <2>1, FullNat DEF Lower
<1>3. CASE buckets[ip] # NoBucket
  <2> DEFINE idle == now - buckets[ip].at
             refill == idle * Capacity
             tokens == buckets[ip].tokens
  <2>1. idle \in Nat /\ tokens \in 0..Full /\ now \in Nat /\ buckets[ip].at \in Nat
    BY <1>3, BucketTyped
  <2>2. refill \in Nat /\ (idle + 1) * Capacity = refill + Capacity
    <3> HIDE DEF idle
    <3> QED BY <2>1, RefillNat
  <2>3. LevelOf(ip) = Lower(Full, tokens + refill)
    BY <1>3 DEF LevelOf, TokensAtUse, Refilled
  <2>4. now' - buckets'[ip].at = idle + 1
    BY <1>1, <2>1
  <2>5. LevelOf(ip)' = Lower(Full, tokens + (refill + Capacity))
    <3>1. LevelOf(ip)' = Lower(Full, tokens + (now' - buckets'[ip].at) * Capacity)
      BY <1>1, <1>3 DEF LevelOf, TokensAtUse, Refilled, Full
    <3> HIDE DEF idle, tokens, refill
    <3> QED BY <2>2, <2>4, <3>1
  <2> HIDE DEF refill, tokens
  <2> QED BY <1>1, <2>1, <2>2, <2>3, <2>5, FullNat DEF Lower
<1> QED BY <1>2, <1>3

(* A handshake takes one token's worth from its own level, if it is there. *)
LEMMA HandshakeTakes ==
  ASSUME LimiterTypeOK, NEW ip \in Ips, Handshake(ip)
  PROVE  /\ \A other \in Ips : LevelOf(other)' =
              IF other = ip /\ LevelOf(ip) >= Window THEN LevelOf(ip) - Window
              ELSE LevelOf(other)
         /\ IF LevelOf(ip) >= Window
            THEN granted' = [granted EXCEPT ![ip] = @ + 1] /\ UNCHANGED refused
            ELSE refused' = [refused EXCEPT ![ip] = @ + 1] /\ UNCHANGED granted
         /\ buckets' \in [Ips -> BucketRecords \cup {NoBucket}]
         /\ UNCHANGED now
<1> DEFINE tokens == TokensAtUse(Cleaned[ip])
           left == IF tokens >= Window THEN tokens - Window ELSE tokens
<1>1. /\ buckets' = [Cleaned EXCEPT ![ip] = [tokens |-> left, at |-> now]]
      /\ granted' = IF tokens >= Window THEN [granted EXCEPT ![ip] = @ + 1] ELSE granted
      /\ refused' = IF tokens >= Window THEN refused ELSE [refused EXCEPT ![ip] = @ + 1]
      /\ UNCHANGED now
  BY DEF Handshake, LeftWith
<1>2. tokens = LevelOf(ip) /\ tokens \in 0..Full
  BY CleaningUnobserved, LevelTyped
<1>3. left \in 0..Full
  <2>1. Window \in Nat /\ Full \in Nat
    BY FullNat, LimiterAssumption
  <2> HIDE DEF tokens
  <2> QED BY <1>2, <2>1
<1>4. now \in Nat /\ buckets \in [Ips -> BucketRecords \cup {NoBucket}]
  BY DEF LimiterTypeOK, BucketRecords
<1>5. Cleaned \in [Ips -> BucketRecords \cup {NoBucket}]
  BY <1>4 DEF Cleaned
<1> HIDE DEF tokens, left
<1>6. [tokens |-> left, at |-> now] \in BucketRecords
  BY <1>3, <1>4 DEF BucketRecords
<1>7. buckets' \in [Ips -> BucketRecords \cup {NoBucket}]
  BY <1>1, <1>5, <1>6
<1>8. LevelOf(ip)' = left
  <2> DEFINE b == [tokens |-> left, at |-> now]
  <2>1. buckets'[ip] = b /\ now' = now
    BY <1>1, <1>5
  <2>2. b # NoBucket /\ b.tokens = left /\ b.at = now
    BY <1>3, <1>4, FullNat, LimiterAssumption
  <2>3. LevelOf(ip)' = Lower(Full, left + (now - now) * Capacity)
    <3> HIDE DEF b
    <3> QED BY <2>1, <2>2 DEF LevelOf, TokensAtUse, Refilled, Full
  <2>4. (now - now) * Capacity = 0
    BY <1>4, LimiterAssumption
  <2> QED BY <1>3, <2>3, <2>4, FullNat DEF Lower
<1>9. ASSUME NEW other \in Ips, other # ip
      PROVE  LevelOf(other)' = LevelOf(other)
  <2>1. buckets'[other] = Cleaned[other] /\ now' = now
    BY <1>1, <1>5, <1>9
  <2>2. LevelOf(other)' = TokensAtUse(Cleaned[other])
    BY <2>1 DEF LevelOf, TokensAtUse, Refilled, Full
  <2> QED BY <2>2, CleaningUnobserved
<1>10. left = IF LevelOf(ip) >= Window THEN LevelOf(ip) - Window ELSE LevelOf(ip)
  BY <1>2 DEF left
<1> QED BY <1>1, <1>2, <1>7, <1>8, <1>9, <1>10

----
(* Type correctness. *)
LEMMA LimiterTypeInit == LimiterInit => LimiterTypeOK
BY LimiterAssumption DEF LimiterInit, LimiterTypeOK

LEMMA LimiterTypeNext == LimiterTypeOK /\ [LimiterNext]_limiter_vars => LimiterTypeOK'
<1> SUFFICES ASSUME LimiterTypeOK, [LimiterNext]_limiter_vars PROVE LimiterTypeOK'
  OBVIOUS
<1>1. CASE Tick
  <2>1. /\ now \in 0..MaxTime /\ lastCleanup \in 0..now /\ MaxTime \in Nat
        /\ now < MaxTime /\ now' = now + 1
        /\ UNCHANGED <<buckets, lastCleanup, granted, refused>>
    BY <1>1, LimiterAssumption DEF Tick, LimiterTypeOK
  <2>2. now' \in 0..MaxTime /\ lastCleanup' \in 0..now' /\ 0..now \subseteq 0..now'
    BY <2>1
  <2>3. buckets' \in [Ips -> [tokens : 0..Full, at : 0..now'] \cup {NoBucket}]
    BY <2>1, <2>2 DEF LimiterTypeOK
  <2> QED BY <2>1, <2>2, <2>3 DEF LimiterTypeOK, Full
<1>2. ASSUME NEW ip \in Ips, Handshake(ip) PROVE LimiterTypeOK'
  <2>1. /\ buckets' \in [Ips -> BucketRecords \cup {NoBucket}] /\ UNCHANGED now
        /\ lastCleanup' \in {now, lastCleanup}
    BY <1>2, HandshakeTakes DEF Handshake
  <2>2. granted' \in [Ips -> Nat]
    BY <1>2, HandshakeTakes DEF LimiterTypeOK
  <2>3. refused' \in [Ips -> 0..MaxRefused]
    <3>1. refused' = refused \/ (refused[ip] < MaxRefused /\ refused' = [refused EXCEPT ![ip] = @ + 1])
      BY <1>2 DEF Handshake
    <3>2. refused \in [Ips -> 0..MaxRefused] /\ MaxRefused \in Nat
      BY LimiterAssumption DEF LimiterTypeOK
    <3>3. refused[ip] < MaxRefused => refused[ip] + 1 \in 0..MaxRefused
      BY <3>2
    <3> QED BY <3>1, <3>2, <3>3
  <2>4. now' \in 0..MaxTime /\ lastCleanup' \in 0..now'
    BY <2>1 DEF LimiterTypeOK
  <2> QED BY <2>1, <2>2, <2>3, <2>4 DEF LimiterTypeOK, BucketRecords, Full
<1>3. CASE UNCHANGED limiter_vars
  BY <1>3 DEF limiter_vars, LimiterTypeOK, Full
<1> QED BY <1>1, <1>2, <1>3 DEF LimiterNext

(* The clock, the buckets and the counts keep their types: a bucket never  *)
(* holds more than a full one and never lies in the future.                *)
THEOREM LimiterTypeCorrect == LimiterSpec => []LimiterTypeOK
BY LimiterTypeInit, LimiterTypeNext, PTL DEF LimiterSpec

----
(* The budget. *)
LEMMA BudgetInit == LimiterInit => BurstBound
<1> SUFFICES ASSUME LimiterInit, NEW ip \in Ips
             PROVE  granted[ip] * Window + LevelOf(ip) <= Full + now * Capacity
  BY DEF BurstBound
<1>1. granted[ip] = 0 /\ now = 0 /\ LevelOf(ip) = Full
  BY DEF LimiterInit, LevelOf, TokensAtUse
<1> QED BY <1>1, FullNat, LimiterAssumption

LEMMA BudgetNext == LimiterTypeOK /\ BurstBound /\ [LimiterNext]_limiter_vars => BurstBound'
<1> SUFFICES ASSUME LimiterTypeOK, BurstBound, [LimiterNext]_limiter_vars, NEW ip \in Ips
             PROVE  granted'[ip] * Window + LevelOf(ip)' <= Full + now' * Capacity
  BY DEF BurstBound, Full
<1> DEFINE used == granted[ip] * Window
           grown == now * Capacity
           level == LevelOf(ip)
<1>1. /\ granted \in [Ips -> Nat] /\ granted[ip] \in Nat /\ now \in Nat
      /\ Window \in Nat /\ Capacity \in Nat
  BY LimiterAssumption DEF LimiterTypeOK
<1>2. used \in Nat /\ grown \in Nat /\ level \in 0..Full /\ Full \in Nat
  BY <1>1, LevelTyped, FullNat, RefillNat
<1>3. used + level <= Full + grown
  BY DEF BurstBound
<1>4. CASE Tick
  <2>1. granted'[ip] * Window = used /\ now' = now + 1
    BY <1>4 DEF Tick
  <2>2. now' * Capacity = grown + Capacity
    BY <1>1, <2>1, RefillNat
  <2>3. LevelOf(ip)' = Lower(Full, level + Capacity)
    BY <1>4, TickRefills
  <2> HIDE DEF used, grown, level
  <2> QED BY <1>1, <1>2, <1>3, <2>1, <2>2, <2>3 DEF Lower
<1>5. ASSUME NEW other \in Ips, Handshake(other)
      PROVE  granted'[ip] * Window + LevelOf(ip)' <= Full + now' * Capacity
  <2>1. now' * Capacity = grown
    BY <1>5, HandshakeTakes
  <2>2. CASE ip = other /\ level >= Window
    <3>1. granted'[ip] = granted[ip] + 1 /\ LevelOf(ip)' = level - Window
      BY <1>1, <1>5, <2>2, HandshakeTakes
    <3>2. (granted[ip] + 1) * Window = used + Window
      BY <1>1
    <3>3. granted'[ip] * Window = used + Window
      BY <3>1, <3>2
    <3> HIDE DEF used, grown, level
    <3> QED BY <1>1, <1>2, <1>3, <2>1, <3>1, <3>3
  <2>3. CASE ~(ip = other /\ level >= Window)
    <3>1. LevelOf(ip)' = level
      BY <1>5, <2>3, HandshakeTakes
    <3>2. granted'[ip] * Window = used
      BY <1>1, <1>5, <2>3, HandshakeTakes
    <3> HIDE DEF used, grown, level
    <3> QED BY <1>3, <2>1, <3>1, <3>2
  <2> QED BY <2>2, <2>3
<1>6. CASE UNCHANGED limiter_vars
  <2>1. granted' = granted /\ now' = now /\ LevelOf(ip)' = level
    BY <1>6 DEF limiter_vars, LevelOf, TokensAtUse, Refilled, Full
  <2> QED BY <1>3, <2>1
<1> QED BY <1>4, <1>5, <1>6 DEF LimiterNext

(* Whatever the order of handshakes, refills and cleanups, an address is   *)
(* never let through more often than its burst and the refill allow.       *)
THEOREM Budget == LimiterSpec => []BurstBound
BY LimiterTypeCorrect, BudgetInit, BudgetNext, PTL DEF LimiterSpec

----
(* The refinement. *)
Level == [ip \in Ips |-> LevelOf(ip)]

LEMMA IdealInit == LimiterInit => Ideal!Init
BY DEF LimiterInit, Ideal!Init, Ideal!Full, Full, LevelOf, TokensAtUse

LEMMA IdealNext ==
  LimiterTypeOK /\ [LimiterNext]_limiter_vars => [Ideal!Next]_<<now, Level, granted, refused>>
<1> SUFFICES ASSUME LimiterTypeOK, [LimiterNext]_limiter_vars
             PROVE  Ideal!Next \/ UNCHANGED <<now, Level, granted, refused>>
  OBVIOUS
<1>1. CASE Tick
  <2>1. \A ip \in Ips : LevelOf(ip)' = Lower(Full, LevelOf(ip) + Capacity)
    BY <1>1, TickRefills
  <2>2. Ideal!Tick
    BY <1>1, <2>1 DEF Tick, Ideal!Tick, Ideal!Lower, Ideal!Full, Lower, Full
  <2> QED BY <2>2 DEF Ideal!Next
<1>2. ASSUME NEW ip \in Ips, Handshake(ip) PROVE Ideal!Next
  <2>1. /\ \A other \in Ips : LevelOf(other)' =
              IF other = ip /\ LevelOf(ip) >= Window THEN LevelOf(ip) - Window
              ELSE LevelOf(other)
        /\ UNCHANGED now
    BY <1>2, HandshakeTakes
  <2>2. CASE LevelOf(ip) >= Window
    <3>1. granted' = [granted EXCEPT ![ip] = @ + 1] /\ UNCHANGED refused
      BY <1>2, <2>2, HandshakeTakes
    <3>2. Ideal!Admit(ip)
      BY <2>1, <2>2, <3>1 DEF Ideal!Admit
    <3> QED BY <3>2 DEF Ideal!Next
  <2>3. CASE ~(LevelOf(ip) >= Window)
    <3>1. refused' = [refused EXCEPT ![ip] = @ + 1] /\ UNCHANGED granted
      BY <1>2, <2>3, HandshakeTakes
    <3>2. LevelOf(ip) < Window
      BY <2>3, LevelTyped, FullNat, LimiterAssumption
    <3>3. Ideal!Refuse(ip)
      BY <2>1, <2>3, <3>1, <3>2 DEF Ideal!Refuse
    <3> QED BY <3>3 DEF Ideal!Next
  <2> QED BY <2>2, <2>3
<1>3. CASE UNCHANGED limiter_vars
  BY <1>3 DEF limiter_vars, Level, LevelOf, TokensAtUse, Refilled, Full
<1> QED BY <1>1, <1>2, <1>3 DEF LimiterNext

(* The limiter, which creates buckets on first use, refills them lazily    *)
(* and forgets them, implements the one that keeps a full bucket for every *)
(* address from the start.                                                 *)
THEOREM Refinement == LimiterSpec => ImplementsIdeal
BY LimiterTypeCorrect, IdealInit, IdealNext, PTL DEF LimiterSpec, ImplementsIdeal, Ideal!Spec, Level
=============================================================================

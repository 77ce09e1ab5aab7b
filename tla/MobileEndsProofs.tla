-------------------------- MODULE MobileEndsProofs --------------------------
(***************************************************************************)
(* Proofs about the two ends of the mobile channel.                        *)
(*                                                                         *)
(* The switch of the channel in the Manager (MobileControl), for any       *)
(* number of commands at a time, of starts and stops, and of phone         *)
(* sessions: a host that runs is in charge or in the hands of one command, *)
(* the newest command has its way, and the status shown is the last word   *)
(* of the host in charge.  The argument is the ownership of generations.   *)
(* A generation belongs to one command at most, its host is unborn until   *)
(* that command spawns it, and a host that was born passes from hand to    *)
(* hand: from the command to the shared state if its generation is still   *)
(* the newest, and from there to the command that takes the next           *)
(* generation, which stops it.                                             *)
(*                                                                         *)
(* The outbox of the phone (PhoneOutbox), for any messages, any number of  *)
(* continuations at a time, of turns and of mishaps: a message that was    *)
(* sent is kept until it is known to have arrived, and is told Codex once  *)
(* at most.  The argument is that a submission not raced for is in one pair*)
(* of hands: of one task that sends it or concludes about it, of           *)
(* localStorage, or of the composer; and that what may still tell Codex of *)
(* it, a request of a broken connection, is that task's.  Last, the page   *)
(* comes to show whether a turn runs: what is on its way to it is read in  *)
(* an order in which each answer agrees with the news before it.           *)
(***************************************************************************)
EXTENDS MobileControl, PhoneOutbox, FiniteSetTheorems, SequenceTheorems, TLAPS

(***************************************************************************)
(* The switch in the Manager.                                              *)
(***************************************************************************)

HostRecords ==
  [phase : Phases, told : BOOLEAN, sess : Sessions \cup {NoSession},
   wants : Sessions \cup {NoSession},
   backend : {"none", "up", "falling", "down"}, reading : BOOLEAN]

CallerRecords ==
  [pc : Pcs, kind : Kinds, on : BOOLEAN, gen : 0 .. MaxGen,
   held : Hosts \cup {NoHost}, next : {"idle", "check", "save"}]

----
(* The inductive invariant. *)

(* A host's session has a backend, and only a told host ends. *)
HostOK(r) ==
  /\ r.phase = "unborn" =>
       ~r.told /\ r.sess = NoSession /\ ~r.reading /\ r.backend = "none"
  /\ r.phase \in {"closing", "ended"} => r.told
  /\ r.phase \in {"draining", "starting", "dismissing", "closing"} =>
       r.sess = NoSession /\ ~r.reading
  /\ r.phase \in {"draining", "starting", "started"} => r.wants # NoSession
  /\ r.phase = "started" => r.backend # "none"
  /\ r.reading => r.sess # NoSession \/ r.phase \in {"started", "ended"}
  /\ r.sess # NoSession \/ r.reading => r.backend # "none"

HostsSound == host \in [Hosts -> HostRecords] /\ \A h \in Hosts : HostOK(host[h])

WordsTyped == status \in StatusPhases /\ said \in StatusPhases

CommandsTyped ==
  /\ caller \in [Callers -> CallerRecords]
  /\ enabled \in BOOLEAN /\ newest \in {"start", "stop"}
  /\ generation \in 0 .. MaxGen /\ runtime \in Hosts \cup {NoHost}

(* A command on the way to spawn the host of its generation. *)
Starting(c) ==
  \/ caller[c].pc = "check"
  \/ caller[c].pc \in {"tell", "wait"} /\ caller[c].next = "check"

Numbers ==
  /\ \A h \in Hosts : h > generation => host[h].phase = "unborn"
  /\ \A c \in Callers : caller[c].gen <= generation
  /\ \A c, d \in Callers : c # d /\ caller[c].gen # 0 => caller[c].gen # caller[d].gen
  /\ \A c \in Callers :
       Starting(c) => caller[c].gen # 0 /\ host[caller[c].gen].phase = "unborn"

Hands ==
  /\ \A c \in Callers : caller[c].held # NoHost <=> caller[c].pc \in {"tell", "wait", "offer"}
  /\ \A c, d \in Callers :
       c # d /\ caller[c].held # NoHost => caller[c].held # caller[d].held
  /\ \A c \in Callers : caller[c].held # NoHost =>
       /\ caller[c].held # runtime
       /\ host[caller[c].held].phase # "unborn"
       /\ host[caller[c].held].told <=> caller[c].pc = "wait"
  /\ \A c \in Callers : caller[c].pc = "offer" => caller[c].held = caller[c].gen

InCharge ==
  runtime # NoHost =>
    /\ runtime = generation /\ newest = "start" /\ status = said
    /\ host[runtime].phase # "unborn" /\ ~host[runtime].told

NobodyLost ==
  \A h \in Hosts : Alive(h) => runtime = h \/ \E c \in Callers : caller[c].held = h

Outcome ==
  /\ newest = "start" =>
       \/ runtime = generation /\ runtime # NoHost
       \/ \E c \in Callers :
            caller[c].gen = generation /\ (Starting(c) \/ caller[c].pc = "offer")
  /\ newest = "stop" =>
       /\ status = "Stopped"
       /\ \A h \in Hosts : h = generation => host[h].phase = "unborn"
       /\ \A c \in Callers : caller[c].gen = generation => ~Starting(c)

IInv ==
  /\ HostsSound /\ WordsTyped /\ CommandsTyped
  /\ Numbers /\ Hands /\ InCharge /\ NobodyLost /\ Outcome

----
(* What a step of a host's task does: the host stays sound, is told nothing *)
(* and neither is born nor comes back, and it may report.                  *)
Moved(h, r) ==
  /\ r \in HostRecords /\ HostOK(r) /\ r.told = host[h].told
  /\ host[h].phase # "unborn" /\ r.phase # "unborn"
  /\ host[h].phase = "ended" => r.phase = "ended"

Spoke(h) == Silent \/ \E s \in StatusPhases : Report(h, s)

LEMMA RecordOfHost ==
  ASSUME HostsSound, NEW h \in Hosts
  PROVE  host[h] \in HostRecords /\ HostOK(host[h])
BY DEF HostsSound

LEMMA DrainsEffect ==
  ASSUME HostsSound, NEW h \in Hosts, NEW s \in Sessions, ConnectDrains(h, s)
  PROVE  (\E r \in HostRecords : Becomes(h, r) /\ Moved(h, r)) /\ Spoke(h)
<1> DEFINE drained == [host[h] EXCEPT !.phase = "draining", !.wants = s,
                                      !.sess = NoSession, !.reading = FALSE]
<1>1. Becomes(h, drained) /\ (Silent \/ Report(h, "StartingCodex"))
  BY DEF ConnectDrains
<1>2. drained \in HostRecords /\ Moved(h, drained)
  BY RecordOfHost, HostsAssumption DEF ConnectDrains, Hears, Moved, HostOK, HostRecords, Phases, Deaf
<1>3. Spoke(h)
  BY <1>1 DEF Spoke, StatusPhases
<1> HIDE DEF drained
<1> QED BY <1>1, <1>2, <1>3

LEMMA HostStepEffect ==
  ASSUME HostsSound, NEW h \in Hosts, HostStep(h)
  PROVE  /\ \E r \in HostRecords : Becomes(h, r) /\ Moved(h, r)
         /\ Spoke(h)
<1>d. ASSUME NEW s \in Sessions, ConnectDrains(h, s)
      PROVE  (\E r \in HostRecords : Becomes(h, r) /\ Moved(h, r)) /\ Spoke(h)
  BY <1>d, DrainsEffect
<1> USE RecordOfHost, HostsAssumption
<1> USE DEF Moved, Spoke, HostOK, HostRecords, Phases, Deaf, StatusPhases
<1>1. ASSUME Run(h)
      PROVE  (\E r \in HostRecords : Becomes(h, r) /\ Moved(h, r)) /\ Spoke(h)
  BY <1>1 DEF Run, Dial
<1>2. ASSUME DialSucceeds(h)
      PROVE  (\E r \in HostRecords : Becomes(h, r) /\ Moved(h, r)) /\ Spoke(h)
  BY <1>2 DEF DialSucceeds
<1>3. ASSUME DialFails(h)
      PROVE  (\E r \in HostRecords : Becomes(h, r) /\ Moved(h, r)) /\ Spoke(h)
  BY <1>3 DEF DialFails, BackOff
<1>4. ASSUME LoopCompletes(h)
      PROVE  (\E r \in HostRecords : Becomes(h, r) /\ Moved(h, r)) /\ Spoke(h)
  BY <1>4 DEF LoopCompletes, Hears, Dial
<1>5. ASSUME LoopFails(h)
      PROVE  (\E r \in HostRecords : Becomes(h, r) /\ Moved(h, r)) /\ Spoke(h)
  BY <1>5 DEF LoopFails, Hears, BackOff
<1>6. ASSUME BackoffEnds(h)
      PROVE  (\E r \in HostRecords : Becomes(h, r) /\ Moved(h, r)) /\ Spoke(h)
  BY <1>6 DEF BackoffEnds, Dial
<1>7. ASSUME Shutdown(h)
      PROVE  (\E r \in HostRecords : Becomes(h, r) /\ Moved(h, r)) /\ Spoke(h)
  BY <1>7 DEF Shutdown
<1>8. ASSUME ShutdownEnds(h)
      PROVE  (\E r \in HostRecords : Becomes(h, r) /\ Moved(h, r)) /\ Spoke(h)
  BY <1>8 DEF ShutdownEnds
<1>9. ASSUME NEW s \in Sessions, ConnectResumes(h, s)
      PROVE  (\E r \in HostRecords : Becomes(h, r) /\ Moved(h, r)) /\ Spoke(h)
  BY <1>9 DEF ConnectResumes, Hears, Becomes, HostsSound
<1>11. ASSUME NEW s \in Sessions, ConnectStarts(h, s)
      PROVE  (\E r \in HostRecords : Becomes(h, r) /\ Moved(h, r)) /\ Spoke(h)
  BY <1>11 DEF ConnectStarts, Hears
<1>12. ASSUME NEW s \in Sessions, CloseUnknown(h, s)
      PROVE  (\E r \in HostRecords : Becomes(h, r) /\ Moved(h, r)) /\ Spoke(h)
  BY <1>12 DEF CloseUnknown, Hears, Becomes, HostsSound
<1>13. ASSUME Drained(h)
      PROVE  (\E r \in HostRecords : Becomes(h, r) /\ Moved(h, r)) /\ Spoke(h)
  BY <1>13 DEF Drained
<1>14. ASSUME BackendStarts(h)
      PROVE  (\E r \in HostRecords : Becomes(h, r) /\ Moved(h, r)) /\ Spoke(h)
  BY <1>14 DEF BackendStarts
<1>15. ASSUME StartFails(h)
      PROVE  (\E r \in HostRecords : Becomes(h, r) /\ Moved(h, r)) /\ Spoke(h)
  BY <1>15 DEF StartFails, BackOff
<1>16. ASSUME SessionEnters(h)
      PROVE  (\E r \in HostRecords : Becomes(h, r) /\ Moved(h, r)) /\ Spoke(h)
  BY <1>16 DEF SessionEnters, BackOff
<1>17. ASSUME CloseDismisses(h)
      PROVE  (\E r \in HostRecords : Becomes(h, r) /\ Moved(h, r)) /\ Spoke(h)
  BY <1>17 DEF CloseDismisses, Hears
<1>18. ASSUME Dismissed(h)
      PROVE  (\E r \in HostRecords : Becomes(h, r) /\ Moved(h, r)) /\ Spoke(h)
  BY <1>18 DEF Dismissed, BackOff
<1>19. ASSUME BackendDies(h)
      PROVE  (\E r \in HostRecords : Becomes(h, r) /\ Moved(h, r)) /\ Spoke(h)
  BY <1>19 DEF BackendDies
<1>20. ASSUME ReaderEnds(h)
      PROVE  (\E r \in HostRecords : Becomes(h, r) /\ Moved(h, r)) /\ Spoke(h)
  <2> DEFINE r == [host[h] EXCEPT !.reading = FALSE]
  <2>1. Becomes(h, r) /\ Report(h, "WaitingPhone") /\ host[h].reading
    BY <1>20 DEF ReaderEnds
  <2>2. host[h].phase # "unborn"
    BY <2>1
  <2>3. r \in HostRecords /\ HostOK(r) /\ r.told = host[h].told /\ r.phase = host[h].phase
    BY <2>1
  <2> QED BY <2>1, <2>2, <2>3
<1> QED BY <1>1, <1>2, <1>3, <1>4, <1>5, <1>6, <1>7, <1>8, <1>9, <1>d, <1>11, <1>12, <1>13, <1>14, <1>15, <1>16, <1>17, <1>18, <1>19, <1>20 DEF HostStep

LEMMA HostStepKeeps ==
  ASSUME IInv, NEW h \in Hosts, HostStep(h), UNCHANGED <<enabled, caller, newest>>
  PROVE  IInv'
<1>1. PICK r \in HostRecords : Becomes(h, r) /\ Moved(h, r)
  BY HostStepEffect DEF IInv
<1>2. Spoke(h)
  BY HostStepEffect DEF IInv
<1>3. UNCHANGED <<generation, runtime>>
  BY <1>2 DEF Spoke, Silent, Report
<1>4. HostsSound'
  BY <1>1 DEF IInv, HostsSound, Becomes, Moved
<1>5. /\ host'[h].told = host[h].told
      /\ host'[h].phase # "unborn" /\ host[h].phase # "unborn"
      /\ host[h].phase = "ended" => host'[h].phase = "ended"
      /\ \A g \in Hosts : g # h => host'[g] = host[g]
  BY <1>1 DEF IInv, HostsSound, Becomes, Moved
<1>6. /\ status' \in StatusPhases /\ said' \in StatusPhases
      /\ runtime = generation /\ status = said => status' = said'
      /\ generation # h => status' = status
  BY <1>2 DEF Spoke, Silent, Report, UpdateHostStatus, IInv, WordsTyped
<1>7. CommandsTyped' /\ WordsTyped'
  BY <1>3, <1>6 DEF IInv, CommandsTyped, WordsTyped
<1>8. /\ \A g \in Hosts : host'[g].phase = "unborn" <=> host[g].phase = "unborn"
      /\ \A g \in Hosts : host'[g].told <=> host[g].told
      /\ \A g \in Hosts : Alive(g)' => Alive(g)
  BY <1>5 DEF Alive
<1>9. \A c \in Callers : caller[c].held \in Hosts \cup {NoHost} /\ caller[c].gen \in 0 .. MaxGen
  BY DEF IInv, CommandsTyped, CallerRecords
<1>10. Numbers'
  BY <1>3, <1>8, <1>9, HostsAssumption DEF IInv, Numbers, Starting, Hosts
<1>11. Hands'
  BY <1>3, <1>8, <1>9 DEF IInv, Hands, NoHost
<1>12. InCharge'
  BY <1>3, <1>6, <1>8 DEF IInv, InCharge, CommandsTyped, NoHost
<1>13. NobodyLost'
  BY <1>3, <1>8 DEF IInv, NobodyLost
<1>14. Outcome'
  BY <1>3, <1>5, <1>6, <1>8 DEF IInv, Outcome, Starting, CommandsTyped
<1> QED BY <1>4, <1>7, <1>10, <1>11, <1>12, <1>13, <1>14 DEF IInv

----
(* A command that goes on without touching a host or the shared state: it  *)
(* keeps its generation or gives it up, gives up a host only when it has   *)
(* ended, and goes on to spawn only if it was going to.                    *)
SpawnsFrom(r) == r.pc = "check" \/ (r.pc \in {"tell", "wait"} /\ r.next = "check")

LEMMA CommandMoves ==
  ASSUME IInv, NEW c \in Callers, NEW r \in CallerRecords, Goes(c, r),
         UNCHANGED <<hostVars, newest>>, enabled' \in BOOLEAN,
         r.gen \in {caller[c].gen, 0},
         r.held # NoHost <=> r.pc \in {"tell", "wait", "offer"},
         r.held # NoHost => r.held = caller[c].held,
         r.held = NoHost /\ caller[c].held # NoHost => ~Alive(caller[c].held),
         r.held # NoHost => (host[r.held].told <=> r.pc = "wait"),
         r.pc # "offer",
         SpawnsFrom(r) => Starting(c) /\ r.gen = caller[c].gen,
         newest = "start" /\ caller[c].gen = generation /\ (Starting(c) \/ caller[c].pc = "offer")
           => SpawnsFrom(r)
  PROVE  IInv'
<1>1. /\ caller'[c] = r /\ caller' \in [Callers -> CallerRecords]
      /\ \A d \in Callers : d # c => caller'[d] = caller[d]
  BY DEF Goes, IInv, CommandsTyped
<1>2. UNCHANGED <<host, generation, runtime, status, said, newest>>
  BY DEF hostVars
<1>3. HostsSound' /\ WordsTyped' /\ CommandsTyped' /\ InCharge'
  BY <1>1, <1>2 DEF IInv, HostsSound, WordsTyped, CommandsTyped, InCharge
<1>4. /\ Starting(c)' <=> SpawnsFrom(r)
      /\ \A d \in Callers : d # c => (Starting(d)' <=> Starting(d))
  BY <1>1 DEF Starting, SpawnsFrom
<1>5. Numbers'
  <2>1. \A d \in Callers : caller'[d].gen \in {caller[d].gen, 0}
    BY <1>1
  <2>2. \A d \in Callers : caller[d].gen \in Nat /\ generation \in Nat
    BY HostsAssumption DEF IInv, CommandsTyped, CallerRecords
  <2>3. \A d \in Callers : Starting(d)' => Starting(d) /\ caller'[d].gen = caller[d].gen
    BY <1>1, <1>4
  <2> QED BY <1>2, <2>1, <2>2, <2>3 DEF IInv, Numbers
<1>6. Hands'
  <2>1. \A d \in Callers :
          caller'[d].held # NoHost <=> caller'[d].pc \in {"tell", "wait", "offer"}
    BY <1>1 DEF IInv, Hands
  <2>2. \A d \in Callers : caller'[d].held # NoHost => caller'[d].held = caller[d].held
    BY <1>1
  <2>3. \A d \in Callers : caller'[d].held # NoHost =>
          (host[caller'[d].held].told <=> caller'[d].pc = "wait")
    BY <1>1 DEF IInv, Hands
  <2>4. \A d \in Callers : caller'[d].pc = "offer" => caller'[d] = caller[d]
    BY <1>1
  <2> QED BY <1>2, <2>1, <2>2, <2>3, <2>4 DEF IInv, Hands
<1>7. NobodyLost'
  <2> SUFFICES ASSUME NEW h \in Hosts, Alive(h), runtime # h
               PROVE  \E d \in Callers : caller'[d].held = h
    BY <1>2 DEF NobodyLost, Alive
  <2>1. PICK d \in Callers : caller[d].held = h
    BY DEF IInv, NobodyLost
  <2>2. h # NoHost
    BY DEF Hosts, NoHost
  <2> QED BY <1>1, <2>1, <2>2
<1>8. Outcome'
  BY <1>1, <1>2, <1>4 DEF IInv, Outcome
<1> QED BY <1>3, <1>5, <1>6, <1>7, <1>8 DEF IInv

LEMMA CommandTyped ==
  ASSUME IInv, NEW c \in Callers
  PROVE  /\ caller[c] \in CallerRecords /\ Idle \in CallerRecords
         /\ enabled \in BOOLEAN
         /\ caller[c].held # NoHost => caller[c].held \in Hosts
BY HostsAssumption DEF IInv, CommandsTyped, CallerRecords, Idle, Pcs, Kinds, Hosts, NoHost

LEMMA QuietCommands ==
  ASSUME IInv, NEW c \in Callers,
         Repoint(c) \/ HostEnded(c) \/ Superseded(c) \/ Reject(c) \/ Save(c) \/ SaveFails(c)
  PROVE  IInv'
<1> USE CommandTyped
<1>h. /\ caller[c].held # NoHost <=> caller[c].pc \in {"tell", "wait", "offer"}
      /\ caller[c].held # NoHost => (host[caller[c].held].told <=> caller[c].pc = "wait")
  BY DEF IInv, Hands
<1>i. Idle.gen = 0 /\ Idle.held = NoHost /\ Idle.pc = "idle" /\ ~SpawnsFrom(Idle)
  BY DEF Idle, SpawnsFrom
<1>e. ASSUME Ends(c), UNCHANGED <<hostVars, newest>>, enabled' \in BOOLEAN,
             caller[c].held = NoHost, ~Starting(c) \/ caller[c].gen # generation,
             caller[c].pc # "offer"
      PROVE  IInv'
  BY <1>e, <1>i, CommandMoves DEF Ends
<1>1. CASE Repoint(c)
  <2> DEFINE r == [Idle EXCEPT !.pc = "save", !.kind = "repoint", !.on = enabled]
  <2>1. /\ Goes(c, r) /\ caller[c].pc = "idle"
        /\ UNCHANGED <<hostVars, newest>> /\ enabled' \in BOOLEAN
    BY <1>1 DEF Repoint
  <2>2. r \in CallerRecords /\ r.gen = 0 /\ r.held = NoHost /\ r.pc = "save"
    BY DEF CallerRecords, Idle, Pcs, Kinds
  <2>3. ~SpawnsFrom(r) /\ ~Starting(c)
    BY <2>1, <2>2 DEF SpawnsFrom, Starting
  <2> HIDE DEF r
  <2> QED BY <1>h, <2>1, <2>2, <2>3, CommandMoves
<1>2. CASE HostEnded(c)
  <2> DEFINE r == [caller[c] EXCEPT !.pc = caller[c].next, !.held = NoHost]
  <2>1. /\ Goes(c, r) /\ caller[c].pc = "wait" /\ host[caller[c].held].phase = "ended"
        /\ UNCHANGED <<hostVars, newest>> /\ enabled' \in BOOLEAN
    BY <1>2 DEF HostEnded
  <2>2. /\ r \in CallerRecords /\ r.gen = caller[c].gen /\ r.held = NoHost
        /\ r.pc = caller[c].next /\ r.pc \in {"idle", "check", "save"}
    BY DEF CallerRecords, Pcs
  <2>3. SpawnsFrom(r) <=> Starting(c)
    BY <2>1, <2>2 DEF SpawnsFrom, Starting
  <2>4. ~Alive(caller[c].held)
    BY <2>1 DEF Alive
  <2> HIDE DEF r
  <2> QED BY <2>1, <2>2, <2>3, <2>4, CommandMoves
<1>3. CASE Superseded(c)
  BY <1>3, <1>e, <1>h DEF Superseded, Newest
<1>4. CASE Reject(c)
  <2> DEFINE r == [caller[c] EXCEPT !.pc = "tell", !.next = "idle"]
  <2>1. /\ Goes(c, r) /\ caller[c].pc = "offer" /\ caller[c].gen # generation
        /\ UNCHANGED <<hostVars, newest>> /\ enabled' \in BOOLEAN
    BY <1>4 DEF Reject, Rejected, Newest
  <2>2. /\ r \in CallerRecords /\ r.gen = caller[c].gen /\ r.held = caller[c].held
        /\ r.pc = "tell" /\ r.next = "idle"
    BY DEF CallerRecords, Pcs
  <2>3. ~SpawnsFrom(r)
    BY <2>2 DEF SpawnsFrom
  <2> HIDE DEF r
  <2> QED BY <1>h, <2>1, <2>2, <2>3, CommandMoves
<1>5. CASE Save(c)
  <2>1. /\ caller[c].pc = "save" /\ enabled' \in BOOLEAN /\ UNCHANGED <<hostVars, newest>>
        /\ Ends(c) \/ Goes(c, [caller[c] EXCEPT !.pc = "begin"])
    BY <1>5 DEF Save, CallerRecords
  <2>2. caller[c].held = NoHost /\ ~Starting(c)
    BY <1>h, <2>1 DEF Starting
  <2>3. CASE Ends(c)
    BY <1>e, <2>1, <2>2, <2>3
  <2>4. CASE Goes(c, [caller[c] EXCEPT !.pc = "begin"])
    <3> DEFINE r == [caller[c] EXCEPT !.pc = "begin"]
    <3>1. /\ r \in CallerRecords /\ r.gen = caller[c].gen /\ r.held = caller[c].held
          /\ r.pc = "begin"
      BY DEF CallerRecords, Pcs
    <3>2. ~SpawnsFrom(r) /\ Goes(c, r)
      BY <2>4, <3>1 DEF SpawnsFrom
    <3> HIDE DEF r
    <3> QED BY <2>1, <2>2, <3>1, <3>2, CommandMoves
  <2> QED BY <2>1, <2>3, <2>4
<1>6. CASE SaveFails(c)
  BY <1>6, <1>e, <1>h DEF SaveFails, Starting
<1> QED BY <1>1, <1>2, <1>3, <1>4, <1>5, <1>6

----
(* The steps of a command that touch a host. *)
LEMMA TellKeeps ==
  ASSUME IInv, NEW c \in Callers, Tell(c)
  PROVE  IInv'
<1> DEFINE h == caller[c].held
<1>1. /\ caller[c].pc = "tell" /\ h \in Hosts /\ h # runtime /\ host[h].phase # "unborn"
      /\ host[h] \in HostRecords /\ HostOK(host[h]) /\ caller[c] \in CallerRecords
  BY CommandTyped DEF Tell, IInv, Hands, HostsSound
<1>2. /\ host' = [host EXCEPT ![h] = [host[h] EXCEPT !.told = TRUE]]
      /\ caller' = [caller EXCEPT ![c] = [caller[c] EXCEPT !.pc = "wait"]]
      /\ UNCHANGED <<generation, runtime, status, said, enabled, newest>>
  BY DEF Tell, Told, Goes
<1>3. /\ host' \in [Hosts -> HostRecords] /\ HostOK(host'[h])
      /\ host'[h].phase = host[h].phase /\ host'[h].told
      /\ \A g \in Hosts : g # h => host'[g] = host[g]
  BY <1>1, <1>2 DEF IInv, HostsSound, HostRecords, HostOK
<1>4. /\ caller' \in [Callers -> CallerRecords]
      /\ caller'[c].pc = "wait" /\ caller'[c].held = h
      /\ caller'[c].gen = caller[c].gen /\ caller'[c].next = caller[c].next
      /\ \A d \in Callers : d # c => caller'[d] = caller[d]
  BY <1>1, <1>2 DEF IInv, CommandsTyped, CallerRecords, Pcs
<1>5. HostsSound' /\ WordsTyped' /\ CommandsTyped'
  BY <1>2, <1>3, <1>4 DEF IInv, HostsSound, WordsTyped, CommandsTyped
<1>6. /\ \A d \in Callers : Starting(d)' <=> Starting(d)
      /\ \A d \in Callers : caller'[d].gen = caller[d].gen /\ caller'[d].held = caller[d].held
      /\ \A g \in Hosts : host'[g].phase = host[g].phase
  BY <1>1, <1>3, <1>4 DEF Starting
<1>7. \A d \in Callers : caller[d].gen \in 0 .. MaxGen
  BY CommandTyped DEF CallerRecords
<1>8. Numbers'
  BY <1>2, <1>6, <1>7, HostsAssumption DEF IInv, Numbers, Hosts
<1>9. Hands'
  <2>1. \A d \in Callers : d # c /\ caller[d].held # NoHost =>
          caller[d].held \in Hosts /\ caller[d].held # h
    BY <1>1, CommandTyped DEF IInv, Hands
  <2>2. \A d \in Callers : caller[d].held # NoHost => caller[d].held \in Hosts
    BY CommandTyped
  <2> HIDE DEF h
  <2> QED BY <1>1, <1>2, <1>3, <1>4, <1>6, <2>1, <2>2 DEF IInv, Hands
<1>10. InCharge'
  BY <1>1, <1>2, <1>3 DEF IInv, InCharge, CommandsTyped
<1>11. NobodyLost'
  BY <1>2, <1>6 DEF IInv, NobodyLost, Alive
<1>12. Outcome'
  <2>1. \A d \in Callers : caller[d].pc = "offer" => caller'[d].pc = "offer"
    BY <1>1, <1>4
  <2> QED BY <1>2, <1>6, <2>1 DEF IInv, Outcome
<1> QED BY <1>5, <1>8, <1>9, <1>10, <1>11, <1>12 DEF IInv

LEMMA AbortKeeps ==
  ASSUME IInv, NEW c \in Callers, StopTimesOut(c)
  PROVE  IInv'
<1> DEFINE h == caller[c].held
<1>1. /\ caller[c].pc = "wait" /\ h \in Hosts /\ h # runtime /\ host[h].phase # "unborn"
      /\ host[h].told /\ host[h] \in HostRecords /\ HostOK(host[h])
  BY CommandTyped DEF StopTimesOut, Aborts, IInv, Hands, HostsSound
<1>2. /\ host' = [host EXCEPT ![h] = Aborted(host[h])]
      /\ UNCHANGED <<generation, runtime, status, said, enabled, caller, newest>>
  BY DEF StopTimesOut
<1>3. /\ Aborted(host[h]) \in HostRecords /\ HostOK(Aborted(host[h]))
      /\ Aborted(host[h]).phase = "ended" /\ Aborted(host[h]).told
  BY <1>1 DEF Aborted, HostRecords, HostOK, Phases
<1>4. /\ host' \in [Hosts -> HostRecords] /\ HostOK(host'[h])
      /\ host'[h].phase = "ended" /\ host'[h].told
      /\ \A g \in Hosts : g # h => host'[g] = host[g]
  BY <1>1, <1>2, <1>3 DEF IInv, HostsSound
<1>5. HostsSound' /\ WordsTyped' /\ CommandsTyped'
  BY <1>2, <1>4 DEF IInv, HostsSound, WordsTyped, CommandsTyped
<1>6. /\ \A g \in Hosts : host'[g].phase = "unborn" <=> host[g].phase = "unborn"
      /\ \A g \in Hosts : host'[g].told <=> host[g].told
      /\ \A g \in Hosts : Alive(g)' => Alive(g)
  BY <1>1, <1>4 DEF Alive
<1>7. \A d \in Callers : caller[d].held \in Hosts \cup {NoHost} /\ caller[d].gen \in 0 .. MaxGen
  BY CommandTyped DEF CallerRecords
<1>8. Numbers'
  BY <1>2, <1>6, <1>7, HostsAssumption DEF IInv, Numbers, Starting, Hosts
<1>9. Hands'
  BY <1>2, <1>6, <1>7 DEF IInv, Hands, NoHost
<1>10. InCharge'
  BY <1>2, <1>6 DEF IInv, InCharge, CommandsTyped, NoHost
<1>11. NobodyLost'
  BY <1>2, <1>6 DEF IInv, NobodyLost
<1>12. Outcome'
  BY <1>2, <1>6 DEF IInv, Outcome, Starting, CommandsTyped
<1> QED BY <1>5, <1>8, <1>9, <1>10, <1>11, <1>12 DEF IInv

LEMMA SpawnKeeps ==
  ASSUME IInv, NEW c \in Callers, Spawn(c)
  PROVE  IInv'
<1> DEFINE h == caller[c].gen
<1>1. /\ caller[c].pc = "check" /\ h = generation /\ h \in Hosts /\ host[h].phase = "unborn"
      /\ host[h] \in HostRecords /\ HostOK(host[h]) /\ caller[c] \in CallerRecords
      /\ caller[c].held = NoHost /\ Starting(c)
  <2>1. caller[c].pc = "check" /\ h = generation /\ Starting(c)
    BY DEF Spawn, Newest, Starting
  <2>2. h # 0 /\ host[h].phase = "unborn" /\ caller[c].held = NoHost
    BY <2>1 DEF IInv, Numbers, Hands
  <2>3. caller[c] \in CallerRecords /\ h \in 0 .. MaxGen
    BY CommandTyped DEF CallerRecords
  <2>4. h \in Hosts
    BY <2>2, <2>3, HostsAssumption DEF Hosts
  <2> QED BY <2>1, <2>2, <2>3, <2>4 DEF IInv, HostsSound
<1>2. /\ host' = [host EXCEPT ![h] = [host[h] EXCEPT !.phase = "born"]]
      /\ caller' = [caller EXCEPT ![c] = [caller[c] EXCEPT !.pc = "offer", !.held = h]]
      /\ UNCHANGED <<generation, runtime, status, said, enabled, newest>>
  BY DEF Spawn, Spawned, Goes
<1>3. /\ host' \in [Hosts -> HostRecords] /\ HostOK(host'[h])
      /\ host'[h].phase = "born" /\ ~host'[h].told
      /\ \A g \in Hosts : g # h => host'[g] = host[g]
  BY <1>1, <1>2 DEF IInv, HostsSound, HostRecords, HostOK, Phases
<1>4. /\ caller' \in [Callers -> CallerRecords]
      /\ caller'[c].pc = "offer" /\ caller'[c].held = h /\ caller'[c].gen = h
      /\ \A d \in Callers : d # c => caller'[d] = caller[d]
  BY <1>1, <1>2 DEF IInv, CommandsTyped, CallerRecords, Pcs
<1>5. HostsSound' /\ WordsTyped' /\ CommandsTyped'
  BY <1>2, <1>3, <1>4 DEF IInv, HostsSound, WordsTyped, CommandsTyped
<1>6. /\ ~Starting(c)' /\ \A d \in Callers : d # c => (Starting(d)' <=> Starting(d))
      /\ \A d \in Callers : caller'[d].gen = caller[d].gen
  BY <1>1, <1>3, <1>4 DEF Starting
<1>7. \A d \in Callers : caller[d].gen \in 0 .. MaxGen /\ caller[d].held \in Hosts \cup {NoHost}
  BY CommandTyped DEF CallerRecords
<1>8. h # 0 /\ \A d \in Callers : d # c => caller[d].gen # h
  BY <1>1, HostsAssumption DEF IInv, Numbers, Hosts
<1>9. Numbers'
  <2> HIDE DEF h
  <2>1. \A g \in Hosts : g > generation => g # h
    BY <1>1, HostsAssumption DEF Hosts
  <2>2. \A d \in Callers : Starting(d)' => d # c /\ Starting(d)
    BY <1>6
  <2>3. \A d \in Callers : Starting(d) => caller[d].gen \in Hosts
    BY <1>7, HostsAssumption DEF IInv, Numbers, Hosts
  <2> QED BY <1>2, <1>3, <1>6, <1>8, <2>1, <2>2, <2>3 DEF IInv, Numbers
<1>10. \A d \in Callers : caller[d].held # h
  BY <1>1, <1>7, HostsAssumption DEF IInv, Hands, NoHost, Hosts
<1>11. runtime # h
  BY <1>1, HostsAssumption DEF IInv, InCharge, NoHost, Hosts
<1>12. Hands'
  <2> HIDE DEF h
  <2>1. h # NoHost
    BY <1>1, HostsAssumption DEF NoHost, Hosts
  <2> QED BY <1>2, <1>3, <1>4, <1>7, <1>10, <1>11, <2>1 DEF IInv, Hands
<1>13. InCharge'
  BY <1>2, <1>3, <1>11 DEF IInv, InCharge, CommandsTyped
<1>14. NobodyLost'
  <2> SUFFICES ASSUME NEW g \in Hosts, Alive(g)', runtime # g
               PROVE  \E d \in Callers : caller'[d].held = g
    BY <1>2 DEF NobodyLost
  <2>1. CASE g = h
    BY <1>4, <2>1
  <2>2. CASE g # h
    <3>1. Alive(g)
      BY <1>3, <2>2 DEF Alive
    <3>2. PICK d \in Callers : caller[d].held = g
      BY <3>1 DEF IInv, NobodyLost
    <3>3. g # NoHost /\ d # c
      BY <1>1, <3>2, HostsAssumption DEF NoHost, Hosts
    <3> QED BY <1>4, <3>2, <3>3
  <2> QED BY <2>1, <2>2
<1>15. Outcome'
  <2>1. newest = "start"
    BY <1>1 DEF IInv, Outcome, CommandsTyped
  <2> QED BY <1>1, <1>2, <1>4, <2>1 DEF Outcome
<1> QED BY <1>5, <1>9, <1>12, <1>13, <1>14, <1>15 DEF IInv

LEMMA AcceptKeeps ==
  ASSUME IInv, NEW c \in Callers, Accept(c)
  PROVE  IInv'
<1> DEFINE h == caller[c].gen
<1>1. /\ caller[c].pc = "offer" /\ h = generation /\ h \in Hosts /\ caller[c].held = h
      /\ host[h].phase # "unborn" /\ ~host[h].told /\ caller[c] \in CallerRecords
  BY CommandTyped DEF Accept, Newest, IInv, Hands
<1>2. PICK r \in CallerRecords :
        /\ caller' = [caller EXCEPT ![c] = r]
        /\ r.held = NoHost /\ r.pc \in {"save", "idle"} /\ r.gen \in {h, 0}
  <2>1. CASE caller[c].kind = "enable"
    <3>1. /\ [caller[c] EXCEPT !.pc = "save", !.held = NoHost] \in CallerRecords
          /\ [caller[c] EXCEPT !.pc = "save", !.held = NoHost].held = NoHost
          /\ [caller[c] EXCEPT !.pc = "save", !.held = NoHost].pc = "save"
          /\ [caller[c] EXCEPT !.pc = "save", !.held = NoHost].gen = h
      BY <1>1 DEF CallerRecords, Pcs
    <3>2. caller' = [caller EXCEPT ![c] = [caller[c] EXCEPT !.pc = "save", !.held = NoHost]]
      BY <2>1 DEF Accept, Goes
    <3> QED BY <3>1, <3>2
  <2>2. CASE caller[c].kind # "enable"
    <3>1. Idle \in CallerRecords /\ Idle.held = NoHost /\ Idle.pc = "idle" /\ Idle.gen = 0
      BY CommandTyped DEF Idle
    <3>2. caller' = [caller EXCEPT ![c] = Idle]
      BY <2>2 DEF Accept, Goes
    <3> QED BY <3>1, <3>2
  <2> QED BY <2>1, <2>2
<1>3. /\ runtime' = h /\ status' = "Starting" /\ said' = "Starting"
      /\ UNCHANGED <<host, generation, enabled, newest>>
  BY <1>1 DEF Accept
<1>4. newest = "start"
  <2>1. newest = "stop" => host[h].phase = "unborn"
    BY <1>1 DEF IInv, Outcome
  <2> QED BY <1>1, <2>1 DEF IInv, CommandsTyped
<1>5. /\ caller' \in [Callers -> CallerRecords] /\ caller'[c] = r
      /\ \A d \in Callers : d # c => caller'[d] = caller[d]
  BY <1>2 DEF IInv, CommandsTyped
<1>6. HostsSound' /\ WordsTyped' /\ CommandsTyped'
  BY <1>1, <1>3, <1>5 DEF IInv, HostsSound, WordsTyped, CommandsTyped, StatusPhases
<1>7. /\ ~Starting(c)' /\ \A d \in Callers : d # c => (Starting(d)' <=> Starting(d))
      /\ \A d \in Callers : caller'[d].gen \in {caller[d].gen, 0}
  BY <1>2, <1>5 DEF Starting
<1>8. Numbers'
  <2>1. \A d \in Callers : caller[d].gen \in Nat /\ generation \in Nat
    BY HostsAssumption DEF IInv, CommandsTyped, CallerRecords
  <2>2. \A d \in Callers : Starting(d)' => Starting(d) /\ caller'[d].gen = caller[d].gen
    BY <1>5, <1>7
  <2> QED BY <1>3, <1>7, <2>1, <2>2 DEF IInv, Numbers
<1>9. Hands'
  <2>1. \A d \in Callers : d # c => caller[d].held # h
    BY <1>1, CommandTyped, HostsAssumption DEF IInv, Hands, NoHost, Hosts
  <2> HIDE DEF h
  <2> QED BY <1>2, <1>3, <1>5, <2>1 DEF IInv, Hands
<1>10. InCharge'
  BY <1>1, <1>3, <1>4 DEF InCharge
<1>11. NobodyLost'
  <2> SUFFICES ASSUME NEW g \in Hosts, Alive(g), g # h
               PROVE  \E d \in Callers : caller'[d].held = g
    BY <1>3 DEF NobodyLost, Alive
  <2>1. runtime # g
    BY <1>1 DEF IInv, InCharge, NoHost, Hosts
  <2>2. PICK d \in Callers : caller[d].held = g
    BY <2>1 DEF IInv, NobodyLost
  <2>3. d # c
    BY <1>1, <2>2
  <2> QED BY <1>5, <2>2, <2>3
<1>12. Outcome'
  BY <1>1, <1>3, <1>4, HostsAssumption DEF Outcome, NoHost, Hosts
<1> QED BY <1>6, <1>8, <1>9, <1>10, <1>11, <1>12 DEF IInv

----
(* A start or a stop: the new generation is nobody else's, its host is     *)
(* unborn, and the host in charge passes into the command's hands.         *)
LEMMA TakingTyped ==
  ASSUME IInv, NEW q \in CallerRecords, NEW n \in {"check", "save"},
         generation + 1 \in Hosts
  PROVE  /\ Taking(q, n) \in CallerRecords /\ Taking(q, n).gen = generation + 1
         /\ Taking(q, n).held = runtime /\ Taking(q, n).next = n
         /\ Taking(q, n).pc = IF runtime = NoHost THEN n ELSE "tell"
<1> DEFINE p == IF runtime = NoHost THEN n ELSE "tell"
<1>1. p \in Pcs /\ generation + 1 \in 0 .. MaxGen /\ runtime \in Hosts \cup {NoHost}
  BY HostsAssumption DEF Pcs, Hosts, IInv, CommandsTyped
<1>2. Taking(q, n) = [q EXCEPT !.held = runtime, !.gen = generation + 1, !.next = n, !.pc = p]
  BY DEF Taking
<1> HIDE DEF p
<1>3. Taking(q, n) \in CallerRecords
  BY <1>1, <1>2 DEF CallerRecords
<1>4. /\ Taking(q, n).gen = generation + 1 /\ Taking(q, n).held = runtime
      /\ Taking(q, n).next = n /\ Taking(q, n).pc = p
  BY <1>2 DEF CallerRecords
<1> QED BY <1>3, <1>4 DEF p

LEMMA TakesCharge ==
  ASSUME IInv, NEW c \in Callers, caller[c].pc \in {"idle", "begin"},
         NEW q \in CallerRecords, NEW n \in {"check", "save"}, NEW s \in StatusPhases,
         NewGeneration(s), Goes(c, Taking(q, n)), UNCHANGED <<host, enabled>>,
         newest' = IF n = "check" THEN "start" ELSE "stop",
         n = "save" => s = "Stopped"
  PROVE  IInv'
<1> DEFINE h == generation + 1
<1>1. /\ generation \in Nat /\ h \in Hosts /\ h # 0
      /\ runtime' = NoHost /\ generation' = h /\ status' = s /\ said' = s
  BY HostsAssumption DEF NewGeneration, Hosts, IInv, CommandsTyped
<1>2. PICK r \in CallerRecords :
        /\ caller' = [caller EXCEPT ![c] = r]
        /\ r.gen = h /\ r.held = runtime /\ r.next = n
        /\ r.pc = IF runtime = NoHost THEN n ELSE "tell"
  BY <1>1, TakingTyped DEF Goes
<1> HIDE DEF h
<1>3. /\ caller' \in [Callers -> CallerRecords] /\ caller'[c] = r
      /\ \A d \in Callers : d # c => caller'[d] = caller[d]
  BY <1>2 DEF IInv, CommandsTyped
<1>4. HostsSound' /\ WordsTyped'
  BY <1>1 DEF IInv, HostsSound, WordsTyped
<1>5. CommandsTyped'
  BY <1>1, <1>3, HostsAssumption DEF IInv, CommandsTyped, Hosts
<1>6. \A d \in Callers : caller[d].gen \in Nat /\ caller[d].gen <= generation
  BY HostsAssumption DEF IInv, Numbers, CommandsTyped, CallerRecords
<1>7. \A d \in Callers : caller[d].gen <= h /\ caller[d].gen # h
  BY <1>1, <1>6 DEF h
<1>8. \A d \in Callers : d # c => (Starting(d)' <=> Starting(d))
  BY <1>3 DEF Starting
<1>9. (Starting(c)' <=> n = "check") /\ r.pc # "offer"
  BY <1>2, <1>3 DEF Starting
<1>10. \A g \in Hosts : g >= h => host[g].phase = "unborn"
  <2>1. \A g \in Hosts : g >= h => g > generation
    BY <1>1, HostsAssumption DEF h, Hosts
  <2> QED BY <2>1 DEF IInv, Numbers
<1>11. Numbers'
  <2>1. \A g \in Hosts : g > h => g >= h
    BY <1>1, HostsAssumption DEF Hosts
  <2>2. \A d \in Callers : caller'[d].gen <= h
    BY <1>1, <1>2, <1>3, <1>7, HostsAssumption DEF Hosts
  <2>3. \A d, e \in Callers :
          d # e /\ caller'[d].gen # 0 => caller'[d].gen # caller'[e].gen
    BY <1>2, <1>3, <1>7 DEF IInv, Numbers
  <2>4. h >= h
    BY <1>1, HostsAssumption DEF Hosts
  <2>5. \A d \in Callers :
          Starting(d)' => caller'[d].gen # 0 /\ host[caller'[d].gen].phase = "unborn"
    BY <1>1, <1>2, <1>3, <1>8, <1>10, <2>4 DEF IInv, Numbers
  <2> QED BY <1>1, <1>10, <2>1, <2>2, <2>3, <2>5 DEF Numbers
<1>12. caller[c].held = NoHost /\ runtime \in Hosts \cup {NoHost}
  BY DEF IInv, Hands, CommandsTyped
<1>13. \A d \in Callers : caller[d].held # NoHost => caller[d].held # runtime
  BY DEF IInv, Hands
<1>14. Hands'
  <2>1. r.held # NoHost <=> r.pc \in {"tell", "wait", "offer"}
    BY <1>2
  <2>2. r.held # NoHost =>
          host[r.held].phase # "unborn" /\ ~host[r.held].told /\ r.pc = "tell"
    BY <1>2 DEF IInv, InCharge
  <2> QED BY <1>1, <1>2, <1>3, <1>9, <1>12, <1>13, <2>1, <2>2 DEF IInv, Hands
<1>15. InCharge'
  BY <1>1 DEF InCharge
<1>16. NobodyLost'
  <2> SUFFICES ASSUME NEW g \in Hosts, Alive(g)
               PROVE  \E d \in Callers : caller'[d].held = g
    BY DEF NobodyLost, Alive
  <2>1. CASE runtime = g
    BY <1>2, <1>3, <2>1
  <2>2. CASE runtime # g
    <3>1. PICK d \in Callers : caller[d].held = g
      BY <2>2 DEF IInv, NobodyLost
    <3>2. g # NoHost
      BY HostsAssumption DEF Hosts, NoHost
    <3> QED BY <1>3, <1>12, <3>1, <3>2
  <2> QED BY <2>1, <2>2
<1>17. Outcome'
  <2>1. CASE n = "check"
    BY <1>1, <1>2, <1>3, <1>9, <2>1 DEF Outcome
  <2>2. CASE n = "save"
    <3>1. \A d \in Callers : caller'[d].gen = h => ~Starting(d)'
      BY <1>3, <1>7, <1>9, <2>2
    <3>2. h >= h
      BY <1>1, HostsAssumption DEF Hosts
    <3> QED BY <1>1, <1>10, <2>2, <3>1, <3>2 DEF Outcome
  <2> QED BY <2>1, <2>2
<1> QED BY <1>4, <1>5, <1>11, <1>14, <1>15, <1>16, <1>17 DEF IInv

LEMMA NewGenerations ==
  ASSUME IInv, NEW c \in Callers, Enable(c) \/ StartBegins(c) \/ Disable(c)
  PROVE  IInv'
<1>1. CASE Enable(c)
  <2>1. [Idle EXCEPT !.on = TRUE] \in CallerRecords
    BY CommandTyped DEF CallerRecords
  <2> QED BY <1>1, <2>1, TakesCharge DEF Enable, Starts, StatusPhases
<1>2. CASE StartBegins(c)
  BY <1>2, CommandTyped, TakesCharge DEF StartBegins, Starts, StatusPhases
<1>3. CASE Disable(c)
  <2>1. [Idle EXCEPT !.kind = "disable"] \in CallerRecords
    BY CommandTyped DEF CallerRecords, Kinds
  <2> QED BY <1>3, <2>1, TakesCharge DEF Disable, StatusPhases
<1> QED BY <1>1, <1>2, <1>3

----
(* The invariant holds throughout. *)
LEMMA InitIInv == Init => IInv
<1> SUFFICES ASSUME Init PROVE IInv
  OBVIOUS
<1>1. /\ \A h \in Hosts : host[h] = Unborn
      /\ host = [h \in Hosts |-> Unborn]
      /\ generation = 0 /\ runtime = NoHost /\ status = "Stopped" /\ said = "Stopped"
      /\ newest = "stop" /\ enabled \in BOOLEAN
  BY DEF Init, HostsInit
<1>2. Unborn \in HostRecords /\ HostOK(Unborn) /\ Unborn.phase = "unborn"
  BY DEF Unborn, HostRecords, HostOK, Phases
<1>3. HostsSound /\ WordsTyped
  BY <1>1, <1>2 DEF HostsSound, WordsTyped, StatusPhases
<1> DEFINE resume == [Idle EXCEPT !.pc = "begin", !.kind = "resume", !.on = TRUE]
<1>4. /\ Idle \in CallerRecords /\ resume \in CallerRecords
      /\ Idle.gen = 0 /\ Idle.held = NoHost /\ Idle.pc = "idle"
      /\ resume.gen = 0 /\ resume.held = NoHost /\ resume.pc = "begin"
  <2>1. 0 \in 0 .. MaxGen /\ NoHost \in Hosts \cup {NoHost}
    BY HostsAssumption
  <2>2. Idle \in CallerRecords /\ Idle.gen = 0 /\ Idle.held = NoHost /\ Idle.pc = "idle"
    BY <2>1 DEF Idle, CallerRecords, Pcs, Kinds
  <2>3. resume.gen = 0 /\ resume.held = NoHost /\ resume.pc = "begin"
    BY <2>2 DEF Idle
  <2>4. resume \in CallerRecords
    BY <2>2 DEF CallerRecords, Pcs, Kinds
  <2> QED BY <2>2, <2>3, <2>4
<1>5. /\ caller \in [Callers -> CallerRecords]
      /\ \A d \in Callers : caller[d] = resume \/ caller[d] = Idle
  BY <1>4 DEF Init
<1>6. \A d \in Callers : /\ caller[d].gen = 0 /\ caller[d].held = NoHost
                         /\ caller[d].pc \in {"idle", "begin"}
  BY <1>4, <1>5
<1>7. CommandsTyped
  BY <1>1, <1>5, HostsAssumption DEF CommandsTyped
<1>8. \A h \in Hosts : host[h].phase = "unborn" /\ ~Alive(h)
  BY <1>1, <1>2 DEF Alive
<1>9. Numbers /\ Hands /\ NobodyLost /\ Outcome /\ InCharge
  BY <1>1, <1>6, <1>8 DEF Numbers, Hands, NobodyLost, Outcome, InCharge, Starting
<1> QED BY <1>3, <1>7, <1>9 DEF IInv

LEMMA NextIInv == IInv /\ [Next]_vars => IInv'
<1> SUFFICES ASSUME IInv, [Next]_vars PROVE IInv'
  OBVIOUS
<1>1. ASSUME NEW h \in Hosts, HostStep(h), UNCHANGED <<enabled, caller, newest>>
      PROVE  IInv'
  BY <1>1, HostStepKeeps
<1>2. ASSUME NEW c \in Callers, Enable(c) \/ Disable(c) \/ Repoint(c) \/ CommandGoesOn(c)
      PROVE  IInv'
  BY <1>2, NewGenerations, QuietCommands, TellKeeps, AbortKeeps, SpawnKeeps, AcceptKeeps
     DEF CommandGoesOn
<1>3. CASE UNCHANGED vars
  BY <1>3 DEF vars, IInv, HostsSound, WordsTyped, CommandsTyped, Numbers, Starting, Hands,
              InCharge, NobodyLost, Alive, Outcome
<1> QED BY <1>1, <1>2, <1>3 DEF Next

LEMMA Always == Spec => []IInv
<1> QED BY InitIInv, NextIInv, PTL DEF Spec

----
(* Every variable of the hosts and of the commands keeps its type, and a   *)
(* session in a host's map always has a backend: no step of                *)
(* mobile_relay_host.rs or mobile_control.rs mixes the two up.             *)
THEOREM TypeCorrect == Spec => []TypeOK
<1>1. IInv => TypeOK
  BY DEF IInv, TypeOK, HostsTypeOK, HostsSound, HostOK, WordsTyped, CommandsTyped,
         HostRecords, CallerRecords
<1> QED BY <1>1, Always, PTL

(* Whatever starts and stops overlap (mobile_control.rs:139 and :226), a   *)
(* host that runs untold is in charge or in the hands of exactly one       *)
(* command that is about to offer or to stop it.                           *)
THEOREM NoHostEscapes == Spec => []HostsAreHeld
<1>1. IInv => HostsAreHeld
  <2> SUFFICES ASSUME IInv, NEW h \in Hosts, Alive(h), ~host[h].told
               PROVE  \/ runtime = h /\ \A c \in Callers : caller[c].held # h
                      \/ /\ runtime # h
                         /\ \E c \in Callers :
                              /\ caller[c].held = h /\ caller[c].pc \in {"offer", "tell"}
                              /\ \A d \in Callers \ {c} : caller[d].held # h
    BY DEF HostsAreHeld
  <2>1. h # NoHost
    BY HostsAssumption DEF Hosts, NoHost
  <2>2. CASE runtime = h
    BY <2>1, <2>2 DEF IInv, Hands
  <2>3. CASE runtime # h
    <3>1. PICK c \in Callers : caller[c].held = h
      BY <2>3 DEF IInv, NobodyLost
    <3>2. caller[c].pc \in {"offer", "tell"}
      BY <2>1, <3>1 DEF IInv, Hands
    <3>3. \A d \in Callers \ {c} : caller[d].held # h
      BY <2>1, <3>1 DEF IInv, Hands
    <3> QED BY <2>3, <3>1, <3>2, <3>3
  <2> QED BY <2>2, <2>3
<1> QED BY <1>1, Always, PTL

(* In whatever order overlapping commands reached the mutex and came back  *)
(* from waiting for a host (mobile_control.rs:165), the newest one decides *)
(* which host is in charge once all have returned.                         *)
THEOREM NewestDecides == Spec => []LastCommandWins
<1>1. IInv => LastCommandWins
  <2> SUFFICES ASSUME IInv, AllReturned
               PROVE  /\ runtime = IF newest = "start" THEN generation ELSE NoHost
                      /\ \A h \in Hosts \ {runtime} : ~Alive(h)
    BY DEF LastCommandWins
  <2>1. \A c \in Callers : caller[c].held = NoHost /\ ~Starting(c) /\ caller[c].pc # "offer"
    BY DEF IInv, Hands, AllReturned, Starting
  <2>2. newest = "start" => runtime = generation
    BY <2>1 DEF IInv, Outcome
  <2>3. newest # "start" => runtime = NoHost
    BY DEF IInv, InCharge
  <2>4. \A h \in Hosts : h # NoHost
    BY HostsAssumption DEF Hosts, NoHost
  <2>5. \A h \in Hosts \ {runtime} : ~Alive(h)
    BY <2>1, <2>4 DEF IInv, NobodyLost
  <2> QED BY <2>2, <2>3, <2>5
<1> QED BY <1>1, Always, PTL

(* The comparison of generations in update_host_status                     *)
(* (mobile_control.rs:101) keeps the reports of stopped, aborted and       *)
(* rejected hosts from what the Manager shows.                             *)
THEOREM StatusIsTrue == Spec => []StatusIsOfTheRuntime
<1>1. IInv => StatusIsOfTheRuntime
  <2> SUFFICES ASSUME IInv
               PROVE  /\ runtime # NoHost => status = said
                      /\ AllReturned /\ runtime = NoHost => status = "Stopped"
    BY DEF StatusIsOfTheRuntime
  <2>1. runtime # NoHost => status = said
    BY DEF IInv, InCharge
  <2>2. ASSUME AllReturned, runtime = NoHost PROVE status = "Stopped"
    <3>1. \A c \in Callers : ~Starting(c) /\ caller[c].pc # "offer"
      BY <2>2 DEF AllReturned, Starting
    <3>2. newest # "start"
      BY <2>2, <3>1 DEF IInv, Outcome
    <3> QED BY <3>2 DEF IInv, Outcome, CommandsTyped
  <2> QED BY <2>1, <2>2
<1> QED BY <1>1, Always, PTL

(***************************************************************************)
(* The outbox of the phone.                                                *)
(*                                                                         *)
(* The inductive invariant has three parts.  Sound: what the state is made *)
(* of, and that an answer on its way is to the call its task is in.        *)
(* Keeping: where the submissions are.  Telling: what Codex knows of them. *)
(***************************************************************************)
(* The tasks that send a submission, and those that may conclude about one.*)
SenderPcs == {"start", "locate", "check", "steer", "verify", "relocate"}
Sender(k) == k.kind \in {"send", "bare"}
AtWork(k) == Sender(k) \/ k.pc = "settle"

Tasks == [pc : TaskPcs, kind : TaskKinds, m : SomeMsg, turn : SomeTurn, flag : BOOLEAN]

TaskSound(k) ==
  /\ k \in Tasks
  /\ k.pc = "free" => k = Free
  /\ k.kind = "none" <=> k.pc = "free"
  /\ Sender(k) <=> k.pc \in SenderPcs
  /\ k.kind = "open" <=> k.pc = "open"
  /\ k.kind = "notice" => k.pc \in {"pause", "settle"}
  /\ k.kind = "sync" => k.pc \in {"sync", "syncTurn", "refresh", "settle"}
  /\ IF AtWork(k) THEN k.m \in Msgs ELSE k.m = NoMsg

(* What a task asks of Codex where it is. *)
OpAt(pc) ==
  CASE pc = "start" -> "start"
    [] pc = "steer" -> "steer"
    [] pc \in {"check", "verify", "sync"} -> "read"
    [] OTHER -> "page"

Heard == {m \in Msgs : codex.told[m] > 0}

Notes    == [op : {"started", "completed", "error"}, of : {""}, turn : SomeTurn, slot : {NoSlot}]
Replies  == [op : {"answer"}, of : {"start", "steer", "read", "page"}, turn : SomeTurn,
             slot : Slots \cup {NoSlot}, ok : BOOLEAN, has : SUBSET Msgs]
Ask(x) == x \in {"start", "steer"}

Requests ==
  {r \in [op : {"start", "steer", "read", "page"}, m : SomeMsg, turn : SomeTurn] :
     Ask(r.op) => r.m \in Msgs}

Held == ({phone.pending, phone.stored, phone.composer}
          \cup {task[s].m : s \in {r \in Slots : AtWork(task[r])}}) \ {NoMsg}

Doubtful == raced \cup doubted

Typed ==
  /\ PhoneTypeOK
  /\ task \in [Slots -> Tasks] /\ \A s \in Slots : TaskSound(task[s])
  /\ \A r, s \in Slots : task[r].kind = "send" /\ task[s].kind = "send" => r = s
  /\ link \in {"up", "broken", "down"}
  /\ down \in Seq(Notes \cup Replies)
  /\ late \in Seq(Requests)
  /\ codex \in [turn : SomeTurn, last : SomeTurn, told : [Msgs -> Nat]]
  /\ codex.turn \in {NoTurn, codex.last}
  /\ mishaps \subseteq Mishaps
  /\ sent \subseteq Msgs /\ Doubtful \subseteq sent /\ wandered \subseteq sent
  /\ phone.connected = (link # "down")
  /\ link = "down" => down = <<>> /\ \A s \in Slots : task[s].pc \in Unawaited
  /\ ~phone.entered => ~phone.connected
  /\ Held \subseteq sent

(* An answer is to the call its task is in, and there is one at most. *)
Fits(x, tk, heard) ==
  x.op = "answer" =>
    /\ x.has \subseteq heard
    /\ x.slot # NoSlot =>
         /\ tk[x.slot].pc \notin Unawaited
         /\ x.of = OpAt(tk[x.slot].pc)
         /\ Ask(x.of) /\ x.ok => tk[x.slot].m \in heard

OneAnswerEach(q) ==
  \A i, j \in DOMAIN q : q[i].slot = q[j].slot /\ q[i].slot # NoSlot => i = j

AnswersSound ==
  /\ \A i \in DOMAIN down : Fits(down[i], task, Heard)
  /\ OneAnswerEach(down)

LateSent == \A i \in DOMAIN late : late[i].m \in sent \cup {NoMsg}

Sound == Typed /\ AnswersSound /\ LateSent

(* Two tasks at work, one of which sends, have raced. *)
Alone ==
  \A r, s \in Slots : r # s /\ Sender(task[r]) /\ AtWork(task[s])
                        => task[r].m \in raced /\ task[s].m \in raced

(* One submission at a time is on its way or given back. *)
OneAtATime ==
  \A x, y \in Held : x # y => x \in raced /\ y \in raced

Away == ~phone.screen =>
  /\ {phone.pending, phone.stored} \subseteq wandered \cup {NoMsg}
  /\ \A s \in Slots : task[s].m \in wandered \cup {NoMsg}

Unclear == wandered \cup raced \cup Heard

Holding ==
  /\ phone.pending # NoMsg => phone.stored # NoMsg
  /\ \A s \in Slots : Sender(task[s]) /\ task[s].m \notin raced => phone.pending = task[s].m
  /\ \A s \in Slots : task[s].pc = "settle" =>
       task[s].m \in {phone.pending, phone.composer} \cup Unclear
  /\ phone.entered /\ phone.pending = NoMsg /\ phone.stored # NoMsg =>
       phone.stored \in {phone.composer} \cup Unclear

Keeping == Alone /\ OneAtATime /\ Away /\ Holding /\ SentIsKept

(* What of a message Codex was told.  A request of the broken connection   *)
(* that still counts is of one task, which has no answer to it coming.     *)
Asks(i, m) == late[i].op \in {"start", "steer"} /\ late[i].m = m

LateSound ==
  /\ link # "broken" => \A i \in DOMAIN late : late[i].m \in Doubtful \cup {NoMsg}
  /\ \A i \in DOMAIN late : late[i].op \in {"start", "steer"} /\ late[i].m \notin Doubtful =>
       /\ late[i].m \in Msgs \ Heard
       /\ \E s \in Slots : Ask(task[s].pc) /\ task[s].m = late[i].m
                           /\ \A j \in DOMAIN down : down[j].slot # s
       /\ \A j \in DOMAIN late : Asks(j, late[i].m) => j = i

(* A task whose message Codex has waits for the answer that says so. *)
SendersSound ==
  \A s \in Slots : Sender(task[s]) /\ task[s].m \in Heard \ Doubtful =>
     /\ Ask(task[s].pc)
     /\ \/ link = "broken" /\ \A i \in DOMAIN down : down[i].slot # s
        \/ \E i \in DOMAIN down : down[i].slot = s /\ down[i].ok

(* A page of turns that was read shows the message Codex has. *)
SettlersSound ==
  \A i \in DOMAIN down : down[i].op = "answer" /\ down[i].slot # NoSlot =>
    LET k == task[down[i].slot] IN
    k.pc = "settle" /\ k.m \notin Doubtful /\ k.m \in Heard => k.m \in down[i].has

Telling ==
  /\ LateSound /\ SendersSound /\ SettlersSound
  /\ Heard \subseteq sent
  /\ \A m \in sent \ Doubtful : phone.composer = m => \A s \in Slots : Sender(task[s]) => task[s].m # m
  /\ ToldOnce

----
(* What becomes of the page and of a task in one continuation o, of page p *)
(* and task k, as far as submissions go.                                   *)
Pages == [screen : BOOLEAN, connected : BOOLEAN, entered : BOOLEAN,
          active : BOOLEAN, turn : SomeTurn, done : SomeTurn, listed : BOOLEAN,
          pending : SomeMsg, intent : {"start", "steer"},
          stored : SomeMsg, composer : SomeMsg]

Where(p)    == <<p.screen, p.connected, p.entered, p.done>>
Hold(p)     == <<p.pending, p.stored, p.composer>>
Adopted(p)  == IF p.pending = NoMsg THEN p.stored ELSE p.pending
Request(k)  == [op |-> OpAt(k.pc), m |-> k.m, turn |-> k.turn]

GoesWell(p, o) ==
  /\ o.p \in Pages /\ Where(o.p) = Where(p)
  /\ TaskSound(o.k)
  /\ IF o.q = <<>> THEN o.k = Free ELSE o.k.pc \notin Unawaited /\ o.q = <<Request(o.k)>>

Stops(p, o)  == o.q = <<>> /\ Hold(o.p) = Hold(p)
Clears(p, o) == o.q = <<>> /\ Hold(o.p) = <<NoMsg, NoMsg, p.composer>>
Stores(p, m, o) == o.q = <<>> /\ Hold(o.p) = <<p.pending, m, p.composer>>
GivesBack(p, m, o) ==
  /\ o.q = <<>> /\ m # NoMsg
  /\ Hold(o.p) = <<NoMsg, NoMsg, IF p.screen THEN m ELSE p.composer>>
SendsOn(p, k, o) ==
  /\ Sender(o.k) /\ o.k.kind \in {k.kind, "bare"} /\ o.k.m \in {k.m, p.pending}
  /\ o.p.stored \in {p.stored, o.k.m}
  /\ o.p.pending = p.pending /\ o.p.composer = p.composer
Concludes(p, o) ==
  /\ o.k.pc = "settle" /\ ~Sender(o.k) /\ o.k.m = Adopted(p)
  /\ Hold(o.p) = <<Adopted(p), p.stored, p.composer>>
Synchronises(p, k, o) ==
  /\ o.k.kind = "sync" /\ o.k.pc \in {"syncTurn", "refresh"} /\ o.k.m = k.m
  /\ o.p.pending \in {p.pending, Adopted(p)} /\ o.p.stored = p.stored /\ o.p.composer = p.composer

LEMMA EndsWell ==
  ASSUME NEW p \in Pages, NEW p2 \in Pages, Where(p2) = Where(p)
  PROVE  GoesWell(p, Ended(p2)) /\ Ended(p2).q = <<>> /\ Ended(p2).p = p2
BY DEF GoesWell, Ended, Free, TaskSound, Tasks, TaskPcs, TaskKinds, SomeMsg, SomeTurn, Sender,
       SenderPcs, AtWork, NoTurn

LEMMA CallsWell ==
  ASSUME NEW p \in Pages, NEW p2 \in Pages, Where(p2) = Where(p), NEW k, NEW pc, NEW op,
         TaskSound([k EXCEPT !.pc = pc]), k \in Tasks,
         pc \in TaskPcs \ Unawaited, op = OpAt(pc)
  PROVE  LET o == Calling(p2, k, pc, op) IN
         /\ GoesWell(p, o) /\ o.q # <<>> /\ o.p = p2 /\ o.k = [k EXCEPT !.pc = pc]
BY DEF GoesWell, Calling, Request, Tasks

LEMMA SettledPage ==
  ASSUME NEW p \in Pages
  PROVE  /\ Settled(p) \in Pages /\ Where(Settled(p)) = Where(p)
         /\ Hold(Settled(p)) = <<NoMsg, NoMsg, p.composer>>
         /\ Settled(p).screen = p.screen
BY DEF Settled, Pages, Where, Hold, SomeMsg

LEMMA ReturnedPage ==
  ASSUME NEW p \in Pages, NEW m \in SomeMsg
  PROVE  /\ Returned(p, m) \in Pages /\ Where(Returned(p, m)) = Where(p)
         /\ Hold(Returned(p, m)) = <<p.pending, p.stored, IF p.screen THEN m ELSE p.composer>>
<1>1. CASE p.screen
  <2> DEFINE q == [p EXCEPT !.composer = m]
  <2>1. q \in Pages /\ Where(q) = Where(p) /\ Hold(q) = <<p.pending, p.stored, m>>
    BY DEF Pages, Where, Hold
  <2> QED BY <1>1, <2>1 DEF Returned
<1>2. CASE ~p.screen
  BY <1>2 DEF Returned, Hold
<1> QED BY <1>1, <1>2

LEMMA NotActivePage ==
  ASSUME NEW p \in Pages
  PROVE  /\ NotActive(p) \in Pages /\ Where(NotActive(p)) = Where(p)
         /\ Hold(NotActive(p)) = Hold(p)
         /\ NotActive(p).pending = p.pending /\ NotActive(p).stored = p.stored
         /\ NotActive(p).composer = p.composer
BY DEF NotActive, Pages, Where, Hold, SomeTurn, NoTurn

LEMMA OpsAt ==
  /\ OpAt("start") = "start" /\ OpAt("steer") = "steer"
  /\ \A pc \in {"check", "verify", "sync"} : OpAt(pc) = "read"
  /\ \A pc \in {"locate", "relocate", "settle", "syncTurn", "refresh", "open"} : OpAt(pc) = "page"
BY DEF OpAt

LEMMA SenderCallsWell ==
  ASSUME NEW p \in Pages, NEW p2 \in Pages, Where(p2) = Where(p),
         NEW k \in Tasks, Sender(k), k.m \in Msgs, NEW pc \in SenderPcs, NEW op, op = OpAt(pc)
  PROVE  LET o == Calling(p2, k, pc, op) IN
         /\ GoesWell(p, o) /\ o.q # <<>> /\ o.p = p2
         /\ Sender(o.k) /\ o.k.kind = k.kind /\ o.k.m = k.m /\ o.k.pc = pc /\ o.k.turn = k.turn
<1> DEFINE k2 == [k EXCEPT !.pc = pc]
<1>1. pc \in TaskPcs \ Unawaited
  BY DEF SenderPcs, TaskPcs, Unawaited
<1>2. /\ k2 \in Tasks /\ k2.pc = pc /\ k2.kind = k.kind /\ k2.m = k.m /\ k2.turn = k.turn
  BY <1>1 DEF Tasks
<1>3. TaskSound(k2) /\ Sender(k2)
  BY <1>2 DEF TaskSound, Sender, SenderPcs, AtWork
<1>4. LET o == Calling(p2, k, pc, op) IN GoesWell(p, o) /\ o.q # <<>> /\ o.p = p2 /\ o.k = k2
  BY <1>1, <1>3, CallsWell
<1> QED BY <1>2, <1>3, <1>4

LEMMA StartsWell ==
  ASSUME NEW p \in Pages, NEW k \in Tasks, Sender(k)
  PROVE  LET o == Start(p, k) IN
         /\ GoesWell(p, o)
         /\ IF p.pending = NoMsg THEN Stops(p, o) ELSE SendsOn(p, k, o)
<1>1. CASE p.pending = NoMsg
  BY <1>1, EndsWell DEF Start, Stops
<1>2. CASE p.pending # NoMsg
  <2> DEFINE p2 == [p EXCEPT !.intent = "start", !.stored = p.pending]
             k2 == [k EXCEPT !.m = p.pending, !.turn = NoTurn]
  <2>1. /\ p2 \in Pages /\ Where(p2) = Where(p)
        /\ p2.pending = p.pending /\ p2.stored = p.pending /\ p2.composer = p.composer
    BY DEF Pages, Where
  <2>2. k2 \in Tasks /\ k2.m = p.pending /\ k2.kind = k.kind /\ k2.m \in Msgs
    BY <1>2 DEF Tasks, Pages, SomeMsg, SomeTurn, NoTurn
  <2>3. Start(p, k) = Calling(p2, k2, "start", "start")
    BY <1>2 DEF Start
  <2>4. Sender(k2) /\ "start" \in SenderPcs
    BY <2>2 DEF Sender, SenderPcs
  <2> HIDE DEF p2, k2
  <2> QED BY <1>2, <2>1, <2>2, <2>3, <2>4, SenderCallsWell, OpsAt DEF SendsOn
<1> QED BY <1>1, <1>2

LEMMA SteerCallsWell ==
  ASSUME NEW p \in Pages, NEW k \in Tasks, Sender(k), k.m \in Msgs, NEW turn \in SomeTurn
  PROVE  GoesWell(p, SteerCall(p, k, turn)) /\ SendsOn(p, k, SteerCall(p, k, turn))
<1> DEFINE p2 == [p EXCEPT !.intent = IF p.pending = k.m THEN "steer" ELSE @, !.stored = k.m]
           k2 == [k EXCEPT !.turn = turn]
<1>1. /\ p2 \in Pages /\ Where(p2) = Where(p)
      /\ p2.pending = p.pending /\ p2.stored = k.m /\ p2.composer = p.composer
  BY DEF Pages, Where, SomeMsg
<1>2. k2 \in Tasks /\ k2.m = k.m /\ k2.kind = k.kind /\ k2.m \in Msgs
  BY DEF Tasks
<1>3. SteerCall(p, k, turn) = Calling(p2, k2, "steer", "steer")
  BY DEF SteerCall
<1>4. Sender(k2) /\ "steer" \in SenderPcs
  BY <1>2 DEF Sender, SenderPcs
<1> HIDE DEF p2, k2
<1> QED BY <1>1, <1>2, <1>3, <1>4, SenderCallsWell, OpsAt DEF SendsOn

LEMMA SteersWell ==
  ASSUME NEW p \in Pages, NEW k \in Tasks, Sender(k)
  PROVE  LET o == Steer(p, k) IN
         /\ GoesWell(p, o)
         /\ IF p.pending = NoMsg THEN Stops(p, o) ELSE SendsOn(p, k, o)
<1>1. CASE p.pending = NoMsg
  BY <1>1, EndsWell DEF Steer, Stops
<1>2. CASE p.pending # NoMsg
  <2> DEFINE k2 == [k EXCEPT !.m = p.pending]
  <2>1. k2 \in Tasks /\ k2.m = p.pending /\ k2.kind = k.kind /\ k2.m \in Msgs
    BY <1>2 DEF Tasks, Pages, SomeMsg
  <2>2. Sender(k2) /\ "locate" \in SenderPcs /\ p.turn \in SomeTurn
    BY <2>1 DEF Sender, SenderPcs, Pages
  <2>3. Steer(p, k) = IF p.turn # NoTurn THEN SteerCall(p, k2, p.turn)
                      ELSE Calling(p, k2, "locate", "page")
    BY <1>2 DEF Steer
  <2> HIDE DEF k2
  <2>4. CASE p.turn # NoTurn
    BY <1>2, <2>1, <2>2, <2>3, <2>4, SteerCallsWell DEF SendsOn
  <2>5. CASE p.turn = NoTurn
    BY <1>2, <2>1, <2>2, <2>3, <2>5, SenderCallsWell, OpsAt DEF SendsOn
  <2> QED BY <2>4, <2>5
<1> QED BY <1>1, <1>2

(* What a submission that fails becomes. *)
LEMMA FailsWell ==
  ASSUME NEW p \in Pages, NEW k, NEW running \in BOOLEAN
  PROVE  LET o == Fail(p, k, running) IN
         /\ GoesWell(p, o)
         /\ \/ (p.pending = NoMsg \/ ~p.connected) /\ Stops(p, o)
            \/ p.pending # NoMsg /\ p.connected /\ GivesBack(p, p.pending, o)
            \/ running /\ p.pending # NoMsg /\ SendsOn(p, [Free EXCEPT !.kind = "bare"], o)
<1>1. CASE p.pending = NoMsg
  BY <1>1, EndsWell DEF Fail, Stops
<1>2. CASE p.pending # NoMsg /\ p.intent # "steer" /\ running
  <2> DEFINE p2 == [p EXCEPT !.intent = "steer", !.stored = p.pending, !.active = @ \/ p.screen]
             k2 == [Free EXCEPT !.kind = "bare", !.flag = TRUE]
  <2>1. /\ p2 \in Pages /\ Where(p2) = Where(p)
        /\ p2.pending = p.pending /\ p2.stored = p.pending /\ p2.composer = p.composer
    BY DEF Pages, Where
  <2>2. k2 \in Tasks /\ Sender(k2) /\ k2.kind = "bare" /\ k2.m = NoMsg
    BY DEF Free, Tasks, TaskPcs, TaskKinds, SomeMsg, SomeTurn, NoTurn, Sender
  <2>3. Fail(p, k, running) = Steer(p2, k2)
    BY <1>2 DEF Fail
  <2>4. LET k3 == [Free EXCEPT !.kind = "bare"] IN k3.kind = "bare" /\ k3.m = NoMsg
    BY DEF Free
  <2> HIDE DEF p2, k2
  <2>5. GoesWell(p2, Steer(p2, k2)) /\ SendsOn(p2, k2, Steer(p2, k2))
    BY <1>2, <2>1, <2>2, SteersWell
  <2>6. GoesWell(p, Steer(p2, k2))
    BY <2>1, <2>5 DEF GoesWell
  <2>7. SendsOn(p, [Free EXCEPT !.kind = "bare"], Steer(p2, k2))
    <3> DEFINE o == Steer(p2, k2)
    <3>1. o.k.m # NoMsg
      BY <2>5, PhoneAssumption DEF GoesWell, SendsOn, TaskSound, AtWork
    <3> HIDE DEF o
    <3> QED BY <1>2, <2>1, <2>2, <2>4, <2>5, <3>1 DEF SendsOn, o
  <2> QED BY <1>2, <2>3, <2>6, <2>7
<1>3. CASE p.pending # NoMsg /\ ~(p.intent # "steer" /\ running) /\ ~p.connected
  BY <1>3, EndsWell DEF Fail, Stops
<1>4. CASE p.pending # NoMsg /\ ~(p.intent # "steer" /\ running) /\ p.connected
  <2> DEFINE p2 == Settled(p)
             p3 == Returned(p2, p.pending)
  <2>1. p2 \in Pages /\ Where(p2) = Where(p) /\ p2.screen = p.screen
        /\ Hold(p2) = <<NoMsg, NoMsg, p.composer>> /\ p.pending \in SomeMsg
    BY SettledPage DEF Pages
  <2>2. p3 \in Pages /\ Where(p3) = Where(p2)
        /\ Hold(p3) = <<p2.pending, p2.stored, IF p2.screen THEN p.pending ELSE p2.composer>>
    BY <2>1, ReturnedPage
  <2>3. Fail(p, k, running) = Ended(p3)
    BY <1>4 DEF Fail
  <2> HIDE DEF p2, p3
  <2>4. Hold(p3) = <<NoMsg, NoMsg, IF p.screen THEN p.pending ELSE p.composer>>
    BY <2>1, <2>2 DEF Hold
  <2>5. GoesWell(p, Ended(p3)) /\ Ended(p3).q = <<>> /\ Ended(p3).p = p3
    BY <2>1, <2>2, EndsWell
  <2> QED BY <1>4, <2>3, <2>4, <2>5 DEF GivesBack
<1> QED BY <1>1, <1>2, <1>3, <1>4

LEMMA SettlesWell ==
  ASSUME NEW p \in Pages, NEW k \in Tasks, k.kind \in {"notice", "sync"}
  PROVE  LET o == Settle(p, k) IN
         /\ GoesWell(p, o)
         /\ \/ Adopted(p) = NoMsg /\ Stops(p, o)
            \/ Adopted(p) # NoMsg /\ Concludes(p, o) /\ o.k.kind = k.kind
<1> DEFINE m == Adopted(p)
<1>1. CASE m = NoMsg
  BY <1>1, EndsWell DEF Settle, Stops, Adopted
<1>2. CASE m # NoMsg
  <2> DEFINE p2 == [p EXCEPT !.pending = m]
             k2 == [k EXCEPT !.m = m]
             k3 == [k2 EXCEPT !.pc = "settle"]
  <2>1. m \in Msgs
    BY <1>2 DEF Adopted, Pages, SomeMsg
  <2>2. p2 \in Pages /\ Where(p2) = Where(p) /\ Hold(p2) = <<m, p.stored, p.composer>>
    BY <2>1 DEF Pages, Where, Hold, SomeMsg
  <2>3. k2 \in Tasks /\ k3 \in Tasks /\ k3.m = m /\ k3.kind = k.kind /\ k3.pc = "settle"
    BY <2>1 DEF Tasks, SomeMsg, TaskPcs
  <2>4. TaskSound(k3) /\ ~Sender(k3)
    BY <2>1, <2>3 DEF TaskSound, Sender, SenderPcs, AtWork
  <2>5. Settle(p, k) = Calling(p2, k2, "settle", "page")
    BY <1>2 DEF Settle, Adopted
  <2>6. "settle" \in TaskPcs \ Unawaited
    BY DEF TaskPcs, Unawaited
  <2> HIDE DEF m, p2, k2
  <2>7. LET o == Calling(p2, k2, "settle", "page") IN GoesWell(p, o) /\ o.p = p2 /\ o.k = k3
    BY <2>2, <2>3, <2>4, <2>6, CallsWell, OpsAt
  <2> QED BY <1>2, <2>2, <2>3, <2>4, <2>5, <2>7 DEF Concludes, m
<1> QED BY <1>1, <1>2

----
(* A task with its answer. *)
Failing(p, k, o) ==
  \/ (p.pending = NoMsg \/ ~p.connected) /\ Stops(p, o)
  \/ p.pending # NoMsg /\ GivesBack(p, p.pending, o)
  \/ SendsOn(p, k, o)

Answering(p, k, a, o) ==
  /\ GoesWell(p, o)
  /\ IF Sender(k)
     THEN IF Ask(k.pc) /\ a.ok THEN Clears(p, o) ELSE Failing(p, k, o)
     ELSE IF k.pc = "settle"
     THEN IF k.m \in a.has THEN Clears(p, o) ELSE Stores(p, k.m, o) \/ GivesBack(p, k.m, o)
     ELSE Stops(p, o) \/ (k.kind = "sync" /\ (Concludes(p, o) \/ Synchronises(p, k, o)))

(* What the page knows of turns does not matter to submissions. *)
LEMMA SamePage ==
  ASSUME NEW p \in Pages, NEW p2 \in Pages, Where(p2) = Where(p), Hold(p2) = Hold(p), NEW o
  PROVE  /\ GoesWell(p2, o) <=> GoesWell(p, o)
         /\ Stops(p2, o) <=> Stops(p, o)
         /\ \A m : GivesBack(p2, m, o) <=> GivesBack(p, m, o)
         /\ \A k : SendsOn(p2, k, o) <=> SendsOn(p, k, o)
         /\ \A k : Failing(p2, k, o) <=> Failing(p, k, o)
         /\ Adopted(p2) = Adopted(p) /\ (Concludes(p2, o) <=> Concludes(p, o))
         /\ p2.pending = p.pending /\ p2.stored = p.stored /\ p2.screen = p.screen
         /\ p2.connected = p.connected
<1>1. /\ p2.pending = p.pending /\ p2.stored = p.stored /\ p2.screen = p.screen
      /\ p2.connected = p.connected /\ p2.composer = p.composer
  BY DEF Where, Hold
<1>2. Adopted(p2) = Adopted(p)
  BY <1>1 DEF Adopted
<1>3. \A m : GivesBack(p2, m, o) <=> GivesBack(p, m, o)
  BY <1>1 DEF GivesBack
<1>4. \A k : SendsOn(p2, k, o) <=> SendsOn(p, k, o)
  BY <1>1 DEF SendsOn
<1>5. (GoesWell(p2, o) <=> GoesWell(p, o)) /\ (Stops(p2, o) <=> Stops(p, o))
  BY DEF GoesWell, Stops
<1>6. Concludes(p2, o) <=> Concludes(p, o)
  BY <1>1, <1>2 DEF Concludes
<1>7. \A k : Failing(p2, k, o) <=> Failing(p, k, o)
  BY <1>1, <1>3, <1>4, <1>5 DEF Failing
<1> QED BY <1>1, <1>2, <1>3, <1>4, <1>5, <1>6, <1>7

LEMMA FailsSo ==
  ASSUME NEW p \in Pages, NEW k, NEW running \in BOOLEAN
  PROVE  GoesWell(p, Fail(p, k, running)) /\ Failing(p, k, Fail(p, k, running))
<1> DEFINE o == Fail(p, k, running)
           b == [Free EXCEPT !.kind = "bare"]
<1>1. GoesWell(p, o) /\ (Failing(p, k, o) \/ SendsOn(p, b, o))
  <2>1. /\ GoesWell(p, o)
        /\ \/ (p.pending = NoMsg \/ ~p.connected) /\ Stops(p, o)
           \/ p.pending # NoMsg /\ p.connected /\ GivesBack(p, p.pending, o)
           \/ p.pending # NoMsg /\ SendsOn(p, b, o)
    BY FailsWell
  <2> HIDE DEF o, b
  <2> QED BY <2>1 DEF Failing
<1>2. ASSUME SendsOn(p, b, o) PROVE SendsOn(p, k, o)
  <2>1. b.m = NoMsg /\ b.kind = "bare"
    BY DEF Free
  <2>2. o.k.m # NoMsg
    BY <1>1, <1>2, PhoneAssumption DEF GoesWell, SendsOn, TaskSound, AtWork
  <2> HIDE DEF o, b
  <2> QED BY <1>2, <2>1, <2>2 DEF SendsOn
<1> QED BY <1>1, <1>2 DEF Failing

LEMMA TurnsOfPage ==
  ASSUME NEW p \in Pages, NEW turn \in SomeTurn, NEW active \in BOOLEAN
  PROVE  LET p2 == [p EXCEPT !.active = active, !.turn = turn]
             p3 == [p EXCEPT !.turn = turn]
         IN /\ p2 \in Pages /\ Where(p2) = Where(p) /\ Hold(p2) = Hold(p)
            /\ p3 \in Pages /\ Where(p3) = Where(p) /\ Hold(p3) = Hold(p)
BY DEF Pages, Where, Hold

LEMMA StartAnswered ==
  ASSUME NEW p \in Pages, NEW k \in Tasks, TaskSound(k), k.pc = "start", NEW a \in Replies
  PROVE  Answering(p, k, a, OnStart(p, k, a))
<1>1. Sender(k) /\ Ask(k.pc)
  BY DEF TaskSound, SenderPcs, Ask
<1>2. CASE a.ok
  <2> DEFINE p2 == Settled(p)
             p3 == [p2 EXCEPT !.active = TRUE, !.turn = a.turn, !.listed = TRUE]
  <2>1. p2 \in Pages /\ Where(p2) = Where(p) /\ Hold(p2) = <<NoMsg, NoMsg, p.composer>>
    BY SettledPage
  <2>2. p3 \in Pages /\ Where(p3) = Where(p2) /\ Hold(p3) = Hold(p2)
    <3> HIDE DEF p2
    <3> QED BY <2>1 DEF Pages, Where, Hold, Replies
  <2>3. OnStart(p, k, a) = Ended(p3)
    BY <1>2 DEF OnStart
  <2> HIDE DEF p2, p3
  <2> QED BY <1>1, <1>2, <2>1, <2>2, <2>3, EndsWell DEF Answering, Clears
<1>3. CASE ~a.ok
  BY <1>1, <1>3, FailsSo DEF Answering, OnStart
<1> QED BY <1>2, <1>3

LEMMA LocateAnswered ==
  ASSUME NEW p \in Pages, NEW k \in Tasks, TaskSound(k), k.pc = "locate", NEW a \in Replies
  PROVE  Answering(p, k, a, OnLocate(p, k, a))
<1>1. Sender(k) /\ ~Ask(k.pc) /\ k.m \in Msgs /\ "check" \in SenderPcs
  BY DEF TaskSound, SenderPcs, Ask, AtWork
<1>2. CASE a.turn # NoTurn
  <2> DEFINE p2 == [p EXCEPT !.turn = a.turn]
  <2>1. p2 \in Pages /\ Where(p2) = Where(p) /\ Hold(p2) = Hold(p) /\ a.turn \in SomeTurn
    BY TurnsOfPage DEF Replies
  <2>2. OnLocate(p, k, a) = SteerCall(p2, k, a.turn)
    BY <1>2 DEF OnLocate
  <2> HIDE DEF p2
  <2> QED BY <1>1, <2>1, <2>2, SteerCallsWell, SamePage DEF Answering, Failing
<1>3. CASE a.turn = NoTurn
  <2>1. OnLocate(p, k, a) = Calling(p, k, "check", "read")
    BY <1>3 DEF OnLocate
  <2> QED BY <1>1, <2>1, SenderCallsWell, OpsAt DEF Answering, Failing, SendsOn
<1> QED BY <1>2, <1>3

LEMMA CheckAnswered ==
  ASSUME NEW p \in Pages, NEW k \in Tasks, TaskSound(k), k.pc \in {"check", "verify", "relocate"},
         NEW p2 \in Pages, Where(p2) = Where(p), Hold(p2) = Hold(p), NEW a
  PROVE  /\ Answering(p, k, a, Start(NotActive(p2), k))
         /\ Answering(p, k, a, Fail(p2, k, FALSE))
<1>1. Sender(k) /\ ~Ask(k.pc)
  BY DEF TaskSound, SenderPcs, Ask
<1> DEFINE p3 == NotActive(p2)
<1>2. p3 \in Pages /\ Where(p3) = Where(p) /\ Hold(p3) = Hold(p)
  BY NotActivePage
<1> HIDE DEF p3
<1>3. GoesWell(p3, Start(p3, k)) /\ Failing(p3, k, Start(p3, k))
  BY <1>1, <1>2, StartsWell DEF Failing
<1>4. GoesWell(p, Start(p3, k)) /\ Failing(p, k, Start(p3, k))
  BY <1>2, <1>3, SamePage
<1>5. GoesWell(p, Fail(p2, k, FALSE)) /\ Failing(p, k, Fail(p2, k, FALSE))
  BY FailsSo, SamePage
<1> QED BY <1>1, <1>4, <1>5 DEF Answering, p3

LEMMA SteerAnswered ==
  ASSUME NEW p \in Pages, NEW k \in Tasks, TaskSound(k), k.pc = "steer", NEW a \in Replies
  PROVE  Answering(p, k, a, OnSteer(p, k, a))
<1>1. Sender(k) /\ Ask(k.pc) /\ k.m \in Msgs /\ "verify" \in SenderPcs
  BY DEF TaskSound, SenderPcs, Ask, AtWork
<1>2. CASE a.ok
  <2> DEFINE over == ~p.active /\ p.done = k.turn
             p2 == Settled(p)
             t == IF over THEN NoTurn ELSE k.turn
             p3 == [p2 EXCEPT !.active = ~over, !.turn = t]
  <2>1. p2 \in Pages /\ Where(p2) = Where(p) /\ Hold(p2) = <<NoMsg, NoMsg, p.composer>>
    BY SettledPage
  <2>2. t \in SomeTurn /\ over \in BOOLEAN
    BY DEF Tasks, SomeTurn, NoTurn
  <2>3. OnSteer(p, k, a) = Ended(p3)
    BY <1>2 DEF OnSteer
  <2> HIDE DEF p2, t, over
  <2>4. p3 \in Pages /\ Where(p3) = Where(p2) /\ Hold(p3) = Hold(p2)
    BY <2>1, <2>2, TurnsOfPage
  <2> HIDE DEF p3
  <2> QED BY <1>1, <1>2, <2>1, <2>3, <2>4, EndsWell DEF Answering, Clears
<1>3. CASE ~a.ok
  <2>1. OnSteer(p, k, a) = Calling(p, k, "verify", "read")
    BY <1>3 DEF OnSteer
  <2> QED BY <1>1, <1>3, <2>1, SenderCallsWell, OpsAt DEF Answering, Failing, SendsOn
<1> QED BY <1>2, <1>3

LEMMA VerifyAnswered ==
  ASSUME NEW p \in Pages, NEW k \in Tasks, TaskSound(k), k.pc = "verify", NEW a \in Replies
  PROVE  Answering(p, k, a, OnVerify(p, k, a))
<1>1. Sender(k) /\ ~Ask(k.pc) /\ k.m \in Msgs /\ "relocate" \in SenderPcs
  BY DEF TaskSound, SenderPcs, Ask, AtWork
<1>2. Answering(p, k, a, Calling(p, k, "relocate", "page"))
  BY <1>1, SenderCallsWell, OpsAt DEF Answering, Failing, SendsOn
<1> QED BY <1>2, CheckAnswered DEF OnVerify

LEMMA RelocateAnswered ==
  ASSUME NEW p \in Pages, NEW k \in Tasks, TaskSound(k), k.pc = "relocate", NEW a \in Replies
  PROVE  Answering(p, k, a, OnRelocate(p, k, a))
<1> DEFINE t == IF a.turn = NoTurn THEN p.turn ELSE a.turn
           p2 == [p EXCEPT !.turn = t]
           k2 == [k EXCEPT !.flag = FALSE]
<1>1. t \in SomeTurn
  BY DEF Pages, Replies
<1>2. p2 = [p EXCEPT !.turn = IF a.turn = NoTurn THEN @ ELSE a.turn]
  BY DEF Pages
<1>3. OnRelocate(p, k, a) = IF a.turn \notin {NoTurn, k.turn} THEN Steer(p2, k2)
                            ELSE Fail(p2, k, FALSE)
  BY <1>2 DEF OnRelocate
<1> HIDE DEF t
<1>4. p2 \in Pages /\ Where(p2) = Where(p) /\ Hold(p2) = Hold(p)
  BY <1>1, TurnsOfPage
<1>5. Sender(k) /\ ~Ask(k.pc)
  BY DEF TaskSound, SenderPcs, Ask
<1>6. k2 \in Tasks /\ Sender(k2) /\ k2.m = k.m /\ k2.kind = k.kind
  BY <1>5 DEF Tasks, Sender
<1> HIDE DEF p2, k2
<1>7. GoesWell(p, Steer(p2, k2)) /\ Failing(p, k2, Steer(p2, k2))
  <2>1. GoesWell(p2, Steer(p2, k2)) /\ Failing(p2, k2, Steer(p2, k2))
    BY <1>4, <1>6, SteersWell DEF Failing
  <2> QED BY <1>4, <2>1, SamePage
<1>8. Failing(p, k, Steer(p2, k2))
  BY <1>6, <1>7 DEF Failing, SendsOn
<1> QED BY <1>3, <1>4, <1>5, <1>7, <1>8, CheckAnswered DEF Answering

LEMMA ConclusionAnswered ==
  ASSUME NEW p \in Pages, NEW k \in Tasks, TaskSound(k), k.pc = "settle", NEW a \in Replies
  PROVE  Answering(p, k, a, SettleAnswered(p, k, a))
<1> DEFINE p2 == Settled(p)
           p3 == [p EXCEPT !.stored = k.m]
           p4 == Returned(p2, k.m)
<1>1. ~Sender(k) /\ k.m \in Msgs /\ k.m \in SomeMsg /\ k.m # NoMsg
  BY PhoneAssumption DEF TaskSound, SenderPcs, AtWork, SomeMsg
<1>2. p2 \in Pages /\ Where(p2) = Where(p) /\ Hold(p2) = <<NoMsg, NoMsg, p.composer>>
      /\ p2.screen = p.screen
  BY SettledPage
<1>3. p3 \in Pages /\ Where(p3) = Where(p) /\ Hold(p3) = <<p.pending, k.m, p.composer>>
  BY <1>1 DEF Pages, Where, Hold
<1>4. SettleAnswered(p, k, a) = IF k.m \in a.has THEN Ended(p2) ELSE IF p.active THEN Ended(p3)
                                ELSE Ended(p4)
  BY DEF SettleAnswered
<1> HIDE DEF p2, p3
<1>5. p4 \in Pages /\ Where(p4) = Where(p)
      /\ Hold(p4) = <<p2.pending, p2.stored, IF p2.screen THEN k.m ELSE p2.composer>>
  BY <1>1, <1>2, ReturnedPage
<1> HIDE DEF p4
<1>6. Hold(p4) = <<NoMsg, NoMsg, IF p.screen THEN k.m ELSE p.composer>>
  BY <1>2, <1>5 DEF Hold
<1>7. \A q \in {p2, p3, p4} : GoesWell(p, Ended(q)) /\ Ended(q).q = <<>> /\ Ended(q).p = q
  BY <1>2, <1>3, <1>5, EndsWell
<1> QED BY <1>1, <1>2, <1>3, <1>4, <1>6, <1>7 DEF Answering, Clears, Stores, GivesBack

LEMMA SyncCalls ==
  ASSUME NEW p \in Pages, NEW p2 \in Pages, Where(p2) = Where(p),
         p2.pending \in {p.pending, Adopted(p)}, p2.stored = p.stored, p2.composer = p.composer,
         NEW k \in Tasks, k.kind = "sync", k.m = NoMsg, NEW pc \in {"syncTurn", "refresh"}
  PROVE  LET o == Calling(p2, k, pc, "page") IN GoesWell(p, o) /\ Synchronises(p, k, o)
<1> DEFINE k2 == [k EXCEPT !.pc = pc]
<1>1. pc \in TaskPcs \ Unawaited
  BY DEF TaskPcs, Unawaited
<1>2. k2 \in Tasks /\ k2.pc = pc /\ k2.kind = "sync" /\ k2.m = k.m
  BY <1>1 DEF Tasks
<1>3. TaskSound(k2)
  BY <1>2 DEF TaskSound, Sender, SenderPcs, AtWork
<1>4. LET o == Calling(p2, k, pc, "page") IN GoesWell(p, o) /\ o.p = p2 /\ o.k = k2
  BY <1>1, <1>3, CallsWell, OpsAt
<1> HIDE DEF k2
<1> QED BY <1>2, <1>4 DEF Synchronises

LEMMA SyncAnswered ==
  ASSUME NEW p \in Pages, NEW k \in Tasks, k.pc = "sync", k.kind = "sync", k.m = NoMsg, NEW a \in Replies
  PROVE  Answering(p, k, a, OnSync(p, k, a))
<1>1. ~Sender(k)
  BY DEF Sender
<1>2. CASE ~p.screen
  BY <1>1, <1>2, EndsWell DEF OnSync, Answering, Stops
<1>3. CASE p.screen
  <2> DEFINE q == [p EXCEPT !.listed = (a.turn # NoTurn), !.pending = Adopted(p)]
             i == NotActive(q)
             r == [q EXCEPT !.active = TRUE]
  <2>1. Adopted(p) \in SomeMsg
    BY DEF Adopted, Pages
  <2>2. q \in Pages /\ Where(q) = Where(p) /\ q.pending = Adopted(p) /\ q.stored = p.stored
        /\ q.composer = p.composer /\ Hold(q) = <<Adopted(p), p.stored, p.composer>>
    BY <2>1 DEF Pages, Where, Hold
  <2>3. OnSync(p, k, a) = IF a.turn = NoTurn THEN Calling(i, k, "refresh", "page")
                          ELSE IF p.turn = NoTurn THEN Calling(r, k, "syncTurn", "page")
                          ELSE Settle(r, k)
    <3>1. q = [p EXCEPT !.listed = (a.turn # NoTurn),
                        !.pending = IF @ = NoMsg THEN p.stored ELSE @]
      BY DEF Adopted, Pages
    <3> QED BY <1>3, <3>1 DEF OnSync
  <2> HIDE DEF q
  <2>4. i \in Pages /\ Where(i) = Where(p) /\ i.pending = Adopted(p) /\ i.stored = p.stored
        /\ i.composer = p.composer
    BY <2>2, NotActivePage
  <2>5. r \in Pages /\ Where(r) = Where(p) /\ r.pending = Adopted(p) /\ r.stored = p.stored
        /\ r.composer = p.composer /\ Hold(r) = <<Adopted(p), p.stored, p.composer>>
    BY <2>2 DEF Pages, Where, Hold
  <2> HIDE DEF i, r
  <2>6. GoesWell(p, Settle(r, k)) /\ (Stops(p, Settle(r, k)) \/ Concludes(p, Settle(r, k)))
    <3>1. Adopted(r) = Adopted(p)
      BY <2>5 DEF Adopted
    <3>2. GoesWell(r, Settle(r, k))
          /\ \/ Adopted(r) = NoMsg /\ Stops(r, Settle(r, k))
             \/ Concludes(r, Settle(r, k))
      BY <2>5, SettlesWell
    <3>3. GoesWell(p, Settle(r, k))
      BY <2>5, <3>2 DEF GoesWell
    <3>4. Adopted(p) = NoMsg => Adopted(p) = p.pending
      BY DEF Adopted
    <3> QED BY <2>5, <3>1, <3>2, <3>3, <3>4 DEF Stops, Concludes, Hold
  <2>7. \A q2 \in {i, r} : \A pc \in {"syncTurn", "refresh"} :
          LET o == Calling(q2, k, pc, "page") IN GoesWell(p, o) /\ Synchronises(p, k, o)
    BY <2>4, <2>5, SyncCalls
  <2> QED BY <1>1, <2>3, <2>6, <2>7 DEF Answering
<1> QED BY <1>2, <1>3

LEMMA SyncTurnAnswered ==
  ASSUME NEW p \in Pages, NEW k \in Tasks, k.pc \in {"syncTurn", "refresh"}, k.kind = "sync",
         NEW a \in Replies
  PROVE  Answering(p, k, a, OnSyncTurn(p, k, a)) /\ Answering(p, k, a, Settle(p, k))
<1>1. ~Sender(k)
  BY DEF Sender
<1> DEFINE q == [p EXCEPT !.turn = a.turn]
<1>2. q \in Pages /\ Where(q) = Where(p) /\ Hold(q) = Hold(p)
  BY TurnsOfPage DEF Replies
<1> HIDE DEF q
<1>3. \A x \in {p, q} : GoesWell(p, Settle(x, k)) /\ (Stops(p, Settle(x, k)) \/ Concludes(p, Settle(x, k)))
  BY <1>2, SettlesWell, SamePage
<1>4. GoesWell(p, Ended(p)) /\ Stops(p, Ended(p))
  BY EndsWell DEF Stops
<1> QED BY <1>1, <1>3, <1>4 DEF Answering, OnSyncTurn, q

LEMMA OpenAnswered ==
  ASSUME NEW p \in Pages, NEW k \in Tasks, k.pc = "open", k.kind = "open", NEW a \in Replies
  PROVE  Answering(p, k, a, OnOpen(p, k, a)) /\ OnOpen(p, k, a).q = <<>>
<1>1. ~Sender(k)
  BY DEF Sender
<1> DEFINE q == [p EXCEPT !.active = TRUE, !.turn = a.turn]
           i == NotActive(p)
<1>2. q \in Pages /\ Where(q) = Where(p) /\ Hold(q) = Hold(p)
  BY TurnsOfPage DEF Replies
<1>3. i \in Pages /\ Where(i) = Where(p) /\ Hold(i) = Hold(p)
  BY NotActivePage
<1>4. \E x \in {p, q, i} : OnOpen(p, k, a) = Ended(x)
  BY DEF OnOpen
<1> HIDE DEF q, i
<1>5. \A x \in {p, q, i} : GoesWell(p, Ended(x)) /\ Stops(p, Ended(x)) /\ Ended(x).q = <<>>
  BY <1>2, <1>3, EndsWell DEF Stops
<1> QED BY <1>1, <1>4, <1>5 DEF Answering

LEMMA AnsweredWell ==
  ASSUME NEW p \in Pages, NEW k \in Tasks, TaskSound(k), k.pc \notin Unawaited, NEW a \in Replies
  PROVE  Answering(p, k, a, Answered(p, k, a))
<1>1. k.pc \in SenderPcs \cup {"settle", "sync", "syncTurn", "refresh", "open"}
  BY DEF Tasks, TaskPcs, SenderPcs, Unawaited
<1>2. k.pc \in {"sync", "syncTurn", "refresh"} => k.kind = "sync" /\ k.m = NoMsg
  BY DEF TaskSound, Tasks, TaskKinds, Sender, SenderPcs, AtWork
<1>3. k.pc = "open" => k.kind = "open"
  BY DEF TaskSound
<1>4. CASE k.pc = "start"
  BY <1>4, StartAnswered DEF Answered
<1>5. CASE k.pc = "locate"
  BY <1>5, LocateAnswered DEF Answered
<1>6. CASE k.pc = "check"
  <2>1. Answered(p, k, a) = IF a.turn = NoTurn THEN Start(NotActive(p), k) ELSE Fail(p, k, FALSE)
    BY <1>6 DEF Answered, OnCheck
  <2> QED BY <1>6, <2>1, CheckAnswered
<1>7. CASE k.pc = "steer"
  BY <1>7, SteerAnswered DEF Answered
<1>8. CASE k.pc = "verify"
  BY <1>8, VerifyAnswered DEF Answered
<1>9. CASE k.pc = "relocate"
  BY <1>9, RelocateAnswered DEF Answered
<1>10. CASE k.pc = "settle"
  BY <1>10, ConclusionAnswered DEF Answered
<1>11. CASE k.pc = "sync"
  BY <1>2, <1>11, SyncAnswered DEF Answered
<1>12. CASE k.pc = "syncTurn"
  BY <1>2, <1>12, SyncTurnAnswered DEF Answered
<1>13. CASE k.pc = "refresh"
  BY <1>2, <1>13, SyncTurnAnswered DEF Answered
<1>14. CASE k.pc = "open"
  BY <1>3, <1>14, OpenAnswered DEF Answered
<1> QED BY <1>1, <1>4, <1>5, <1>6, <1>7, <1>8, <1>9, <1>10, <1>11, <1>12, <1>13, <1>14 DEF SenderPcs

LEMMA RejectedWell ==
  ASSUME NEW p \in Pages, NEW k \in Tasks, TaskSound(k), k.pc \notin Unawaited
  PROVE  LET o == OnRejected(p, k) IN
         /\ GoesWell(p, o)
         /\ Sender(k) => Failing(p, k, o)
         /\ ~Sender(k) =>
              \/ Stops(p, o)
              \/ k.pc = "settle" /\ p.pending # NoMsg /\ p.connected /\ GivesBack(p, p.pending, o)
              \/ k.kind = "sync" /\ Concludes(p, o)
         /\ ~p.connected => Stops(p, o) \/ Concludes(p, o)
<1> DEFINE o == OnRejected(p, k)
<1>1. CASE k.pc = "refresh"
  <2>1. k.kind = "sync" /\ ~Sender(k)
    BY <1>1 DEF TaskSound, Tasks, TaskKinds, Sender, SenderPcs
  <2>2. o = Settle(p, k)
    BY <1>1 DEF OnRejected
  <2> HIDE DEF o
  <2> QED BY <2>1, <2>2, SettlesWell DEF o
<1>2. CASE k.pc # "refresh" /\ k.kind \in {"sync", "open"}
  <2>1. o = Ended(p) /\ ~Sender(k)
    BY <1>2 DEF OnRejected, Sender
  <2> QED BY <2>1, EndsWell DEF Stops
<1>3. CASE k.pc = "steer" /\ p.connected
  <2>1. Sender(k) /\ k.m \in Msgs /\ "verify" \in SenderPcs
    BY <1>3 DEF TaskSound, SenderPcs, AtWork
  <2>2. o = Calling(p, k, "verify", "read")
    BY <1>3, <2>1 DEF OnRejected, Sender
  <2>3. GoesWell(p, o) /\ SendsOn(p, k, o)
    BY <2>1, <2>2, SenderCallsWell, OpsAt DEF SendsOn
  <2> QED BY <1>3, <2>1, <2>3 DEF Failing
<1>4. CASE k.pc # "refresh" /\ k.kind \notin {"sync", "open"} /\ ~(k.pc = "steer" /\ p.connected)
  <2>1. o = Fail(p, k, FALSE)
    BY <1>4 DEF OnRejected
  <2>2. GoesWell(p, o) /\ Failing(p, k, o)
    BY <2>1, FailsSo
  <2>3. Stops(p, o) \/ (p.pending # NoMsg /\ p.connected /\ GivesBack(p, p.pending, o))
    BY <2>1, FailsWell
  <2>4. ~Sender(k) => k.pc = "settle"
    BY <1>4 DEF TaskSound, Tasks, TaskKinds, Sender, Unawaited
  <2> HIDE DEF o
  <2> QED BY <2>2, <2>3, <2>4 DEF o
<1> QED BY <1>1, <1>2, <1>3, <1>4

LEMMA SubmitsWell ==
  ASSUME NEW p \in Pages, NEW m \in Msgs
  PROVE  LET o == Submission(p, [Free EXCEPT !.kind = "send", !.m = m, !.flag = TRUE]) IN
         /\ GoesWell(p, o) /\ Sender(o.k) /\ o.k.m = m
         /\ Hold(o.p) = <<m, m, NoMsg>>
<1> DEFINE k == [Free EXCEPT !.kind = "send", !.m = m, !.flag = TRUE]
           p2 == [p EXCEPT !.pending = k.m, !.stored = k.m, !.composer = NoMsg,
                           !.intent = IF p.active THEN "steer" ELSE "start"]
<1>1. k \in Tasks /\ k.m = m /\ k.kind = "send" /\ Sender(k) /\ m # NoMsg
  BY PhoneAssumption DEF Tasks, Free, TaskPcs, TaskKinds, SomeMsg, SomeTurn, NoTurn, Sender
<1>2. p2 \in Pages /\ Where(p2) = Where(p) /\ p2.pending = m /\ p2.stored = m /\ p2.composer = NoMsg
  <2> HIDE DEF k
  <2> QED BY <1>1 DEF Pages, Where, SomeMsg
<1>3. Submission(p, k) = IF p2.active THEN Steer(p2, k) ELSE Start(p2, k)
  BY DEF Submission, Submit
<1> HIDE DEF p2, k
<1>4. \A o \in {Steer(p2, k), Start(p2, k)} : GoesWell(p2, o) /\ SendsOn(p2, k, o)
  BY <1>1, <1>2, SteersWell, StartsWell
<1>5. \A o \in {Steer(p2, k), Start(p2, k)} : GoesWell(p, o) /\ Sender(o.k) /\ o.k.m = m /\ Hold(o.p) = <<m, m, NoMsg>>
  BY <1>1, <1>2, <1>4 DEF GoesWell, SendsOn, Hold
<1> QED BY <1>3, <1>5 DEF k

----
(* Codex and the connection. *)
Threads == [turn : SomeTurn, last : SomeTurn, told : [Msgs -> Nat]]

Begins(r, a, n, q) ==
  /\ r.op = "start" /\ codex.turn = NoTurn /\ a.ok /\ q = <<a, n>>
  /\ codex'.turn = codex.last + 1 /\ codex'.last = codex.last + 1
  /\ n.op = "started" /\ n.turn = codex.last + 1
  /\ codex'.told = [codex.told EXCEPT ![r.m] = @ + 1]
Joins(r, a, q) ==
  /\ r.op = "steer" /\ codex.turn = r.turn /\ a.ok /\ q = <<a>>
  /\ codex'.turn = codex.turn /\ codex'.last = codex.last
  /\ codex'.told = [codex.told EXCEPT ![r.m] = @ + 1]
Refuses(r, a, q) ==
  /\ Ask(r.op) /\ ~a.ok /\ q = <<a>> /\ codex' = codex
  /\ r.op = "start" => codex.turn # NoTurn
Tells(r, a, q) ==
  /\ r.op \in {"read", "page"} /\ a.ok /\ a.turn = codex.turn /\ q = <<a>> /\ codex' = codex

Handled(r, s, rest) ==
  \E a \in Replies, n \in Notes : \E q \in {<<a>>, <<a, n>>} :
     /\ a.of = r.op /\ a.slot = s
     /\ a.has = IF r.op = "page" THEN Heard ELSE {}
     /\ down' = IF link = "up" THEN rest \o q ELSE rest
     /\ Begins(r, a, n, q) \/ Joins(r, a, q) \/ Refuses(r, a, q) \/ Tells(r, a, q)
     /\ codex' \in Threads /\ codex'.turn \in {NoTurn, codex'.last}

LEMMA Handles ==
  ASSUME Typed, NEW r \in Requests, NEW s \in Slots \cup {NoSlot}, NEW rest, Handle(r, s, rest)
  PROVE  Handled(r, s, rest)
<1> DEFINE A(ok, turn) == Answer(r, s, ok, turn)
           x == Note("started", NoTurn)
<1>1. \A ok \in BOOLEAN, turn \in SomeTurn :
        /\ A(ok, turn) \in Replies /\ A(ok, turn).of = r.op /\ A(ok, turn).slot = s
        /\ A(ok, turn).has = IF r.op = "page" THEN Heard ELSE {}
        /\ A(ok, turn).ok = ok /\ A(ok, turn).turn = turn
  BY DEF Answer, Replies, Requests, Heard
<1>2. \A turn \in SomeTurn :
        Note("started", turn) \in Notes /\ Note("started", turn).op = "started"
        /\ Note("started", turn).turn = turn
  BY DEF Note, Notes, NoSlot
<1>3. NoTurn \in SomeTurn /\ codex.turn \in SomeTurn /\ x \in Notes /\ codex \in Threads
      /\ codex.turn \in {NoTurn, codex.last}
  BY <1>2 DEF SomeTurn, Typed, Threads
<1>4. CASE r.op = "start" /\ codex.turn = NoTurn
  <2> DEFINE t == codex.last + 1
             f == [codex EXCEPT !.turn = t, !.last = t]
             c == [f EXCEPT !.told[r.m] = @ + 1]
  <2>1. codex' = c /\ codex.last < MaxTurns
        /\ Says(rest, <<Answer(r, s, TRUE, codex'.turn), Note("started", codex'.turn)>>)
    BY <1>4 DEF Handle, Fresh, TellsOf
  <2>2. t \in SomeTurn /\ r.m \in Msgs
    BY <1>3, <1>4, <2>1, PhoneAssumption DEF Threads, SomeTurn, Turns, NoTurn, Ask, Requests
  <2>3. f \in Threads /\ f.turn = t /\ f.last = t /\ f.told = codex.told
    BY <1>3, <2>2 DEF Threads
  <2> HIDE DEF t, f
  <2>4. c \in Threads /\ c.turn = t /\ c.last = t /\ c.told = [codex.told EXCEPT ![r.m] = @ + 1]
    BY <2>2, <2>3 DEF Threads
  <2> HIDE DEF c
  <2> DEFINE a == A(TRUE, t)
             n == Note("started", t)
             q == <<a, n>>
  <2>5. a \in Replies /\ n \in Notes /\ q \in {<<a>>, <<a, n>>}
    BY <1>1, <1>2, <2>2
  <2>6. down' = IF link = "up" THEN rest \o q ELSE rest
    BY <2>1, <2>4 DEF Says
  <2>7. Begins(r, a, n, q)
    BY <1>1, <1>2, <1>4, <2>1, <2>2, <2>4 DEF Begins, t
  <2>8. a.of = r.op /\ a.slot = s /\ a.has = IF r.op = "page" THEN Heard ELSE {}
    BY <1>1, <2>2
  <2> HIDE DEF a, n, q
  <2> QED BY <2>1, <2>4, <2>5, <2>6, <2>7, <2>8 DEF Handled
<1>5. CASE r.op = "steer" /\ codex.turn = r.turn
  <2> DEFINE c == [codex EXCEPT !.told[r.m] = @ + 1]
             a == A(TRUE, r.turn)
             q == <<a>>
  <2>1. codex' = c /\ Says(rest, q)
    BY <1>5 DEF Handle, TellsOf
  <2>0. r.m \in Msgs
    BY <1>5 DEF Requests, Ask
  <2>2. c \in Threads /\ c.turn = codex.turn /\ c.last = codex.last
        /\ c.told = [codex.told EXCEPT ![r.m] = @ + 1]
    BY <2>0, <1>3 DEF Threads
  <2>3. a \in Replies /\ a.of = r.op /\ a.slot = s /\ a.ok /\ a.has = IF r.op = "page" THEN Heard ELSE {}
    BY <1>1, <1>3, <1>5
  <2>4. down' = IF link = "up" THEN rest \o q ELSE rest
    BY <2>1 DEF Says
  <2>5. Joins(r, a, q)
    BY <1>5, <2>1, <2>2, <2>3 DEF Joins
  <2> HIDE DEF a, c
  <2> QED BY <1>3, <2>1, <2>2, <2>3, <2>4, <2>5 DEF Handled
<1>6. CASE (r.op = "start" /\ codex.turn # NoTurn) \/ (r.op = "steer" /\ codex.turn # r.turn)
  <2> DEFINE a == A(FALSE, NoTurn)
             q == <<a>>
  <2>1. codex' = codex /\ Says(rest, q)
    BY <1>6 DEF Handle
  <2>2. a \in Replies /\ a.of = r.op /\ a.slot = s /\ ~a.ok /\ a.has = IF r.op = "page" THEN Heard ELSE {}
    BY <1>1, <1>3
  <2>3. Refuses(r, a, q)
    BY <1>6, <2>1, <2>2 DEF Refuses, Ask
  <2>4. down' = IF link = "up" THEN rest \o q ELSE rest
    BY <2>1 DEF Says
  <2> HIDE DEF a
  <2> QED BY <1>3, <2>1, <2>2, <2>3, <2>4 DEF Handled
<1>7. CASE r.op \in {"read", "page"}
  <2> DEFINE a == A(TRUE, codex.turn)
             q == <<a>>
  <2>1. codex' = codex /\ Says(rest, q)
    BY <1>7 DEF Handle
  <2>2. a \in Replies /\ a.of = r.op /\ a.slot = s /\ a.ok /\ a.turn = codex.turn
        /\ a.has = IF r.op = "page" THEN Heard ELSE {}
    BY <1>1, <1>3
  <2>3. Tells(r, a, q)
    BY <1>7, <2>1, <2>2 DEF Tells
  <2>4. down' = IF link = "up" THEN rest \o q ELSE rest
    BY <2>1 DEF Says
  <2> HIDE DEF a
  <2> QED BY <1>3, <2>1, <2>2, <2>3, <2>4 DEF Handled
<1> QED BY <1>4, <1>5, <1>6, <1>7 DEF Requests, Handled

LEMMA HearsOf ==
  ASSUME Typed, NEW r \in Requests, NEW a, NEW n, NEW q,
         Begins(r, a, n, q) \/ Joins(r, a, q) \/ Refuses(r, a, q) \/ Tells(r, a, q)
  PROVE  /\ Heard \subseteq Heard'
         /\ Ask(r.op) /\ a.ok => Heard' = Heard \cup {r.m}
         /\ ~(Ask(r.op) /\ a.ok) => codex' = codex
<1>1. codex \in Threads
  BY DEF Typed, Threads
<1>2. ASSUME NEW m \in Msgs, codex'.told = [codex.told EXCEPT ![m] = @ + 1]
      PROVE  Heard' = Heard \cup {m}
  <2>1. codex.told \in [Msgs -> Nat]
    BY <1>1 DEF Threads
  <2>2. \A x \in Msgs : codex'.told[x] = IF x = m THEN codex.told[x] + 1 ELSE codex.told[x]
    BY <1>2, <2>1
  <2>3. \A x \in Msgs : codex.told[x] \in Nat
    BY <2>1
  <2>4. \A x \in Msgs : codex'.told[x] > 0 <=> (x = m \/ codex.told[x] > 0)
    BY <2>2, <2>3
  <2> QED BY <2>4 DEF Heard
<1>3. CASE Begins(r, a, n, q) \/ Joins(r, a, q)
  <2>1. r.m \in Msgs /\ codex'.told = [codex.told EXCEPT ![r.m] = @ + 1] /\ a.ok /\ Ask(r.op)
    BY <1>3 DEF Begins, Joins, Requests, Ask
  <2> QED BY <1>2, <2>1
<1>4. CASE Refuses(r, a, q) \/ Tells(r, a, q)
  <2>1. codex' = codex /\ ~(Ask(r.op) /\ a.ok)
    BY <1>4 DEF Refuses, Tells, Ask
  <2> QED BY <2>1 DEF Heard
<1> QED BY <1>3, <1>4

----
(* Task s goes on as o, from page p: what is left on its way, rest, has    *)
(* nothing for s.                                                          *)
Resting(s, rest) ==
  /\ rest \in Seq(Notes \cup Replies)
  /\ \A i \in DOMAIN rest : rest[i].slot # s /\ Fits(rest[i], task, Heard)
  /\ OneAnswerEach(rest)
  /\ link = "down" => rest = <<>>

Advances(s, p, o, rest) ==
  /\ s \in Slots /\ Resting(s, rest)
  /\ p \in Pages /\ GoesWell(p, o)
  /\ p.connected = phone.connected /\ p.entered = phone.entered
  /\ phone' = o.p /\ task' = [task EXCEPT ![s] = o.k] /\ link' = link
  /\ \/ o.q = <<>> /\ o.k = Free /\ down' = rest /\ codex' = codex /\ late' = late
     \/ /\ o.k.pc \notin Unawaited /\ o.q = <<Request(o.k)>> /\ Request(o.k) \in Requests
        /\ \/ link = "broken" /\ late' = Append(late, Request(o.k)) /\ down' = rest /\ codex' = codex
           \/ link = "up" /\ late' = late /\ Handled(Request(o.k), s, rest)

LEMMA RequestsAre ==
  ASSUME NEW k \in Tasks, TaskSound(k), k.pc \notin Unawaited
  PROVE  Request(k) \in Requests /\ Request(k).op = OpAt(k.pc) /\ Request(k).m = k.m
         /\ Request(k).turn = k.turn
<1>1. Ask(OpAt(k.pc)) => k.m \in Msgs
  BY DEF OpAt, Ask, TaskSound, AtWork, SenderPcs
<1>2. OpAt(k.pc) \in {"start", "steer", "read", "page"}
  BY DEF OpAt
<1> QED BY <1>1, <1>2 DEF Request, Requests, Tasks

LEMMA GoesOnAdvances ==
  ASSUME Typed, NEW s \in Slots, NEW p \in Pages, NEW o, NEW rest, Resting(s, rest), GoesWell(p, o),
         p.connected = phone.connected, p.entered = phone.entered,
         o.q = <<>> \/ link # "down", GoesOn(s, o, rest), link' = link
  PROVE  Advances(s, p, o, rest)
<1>1. phone' = o.p /\ task' = [task EXCEPT ![s] = o.k]
  BY DEF GoesOn
<1>2. CASE o.q = <<>>
  BY <1>1, <1>2 DEF GoesOn, Advances, GoesWell
<1>3. CASE o.q # <<>>
  <2> DEFINE r == Request(o.k)
  <2>1. o.q = <<r>> /\ o.k.pc \notin Unawaited /\ TaskSound(o.k) /\ o.k \in Tasks
    BY <1>3 DEF GoesWell, TaskSound
  <2>2. r \in Requests
    BY <2>1, RequestsAre
  <2> HIDE DEF r
  <2>3. CASE link = "broken"
    <3>1. late' = late \o <<r>> /\ down' = rest /\ codex' = codex
      BY <1>3, <2>1, <2>3 DEF GoesOn
    <3>2. late \in Seq(Requests)
      BY DEF Typed
    <3>3. late \o <<r>> = Append(late, r)
      BY <3>2, <2>2
    <3> QED BY <1>1, <2>1, <2>2, <2>3, <3>1, <3>3 DEF Advances, r
  <2>4. CASE link # "broken"
    <3>1. link = "up"
      BY <1>3, <2>4 DEF Typed
    <3>2. Handle(r, s, rest) /\ late' = late
      BY <1>3, <2>1, <2>4 DEF GoesOn
    <3>3. Handled(r, s, rest)
      BY <2>2, <3>2, Handles
    <3> QED BY <1>1, <2>1, <2>2, <3>1, <3>2, <3>3 DEF Advances, r
  <2> QED BY <2>3, <2>4
<1> QED BY <1>2, <1>3

(* Queue d is rest with an answer, or an answer and a note, at its end. *)
Continues(d, rest, a, n, q) ==
  /\ d \in Seq(Notes \cup Replies)
  /\ \A i \in DOMAIN d :
       \/ i \in DOMAIN rest /\ d[i] = rest[i]
       \/ i = Len(rest) + 1 /\ d[i] = a
       \/ i = Len(rest) + 2 /\ d[i] = n /\ q = <<a, n>>
  /\ \A i \in DOMAIN rest : i \in DOMAIN d /\ d[i] = rest[i]
  /\ Len(rest) + 1 \in DOMAIN d /\ d[Len(rest) + 1] = a
  /\ q = <<a, n>> => Len(rest) + 2 \in DOMAIN d /\ d[Len(rest) + 2] = n
  /\ Len(d) = Len(rest) + Len(q) /\ DOMAIN rest = 1 .. Len(rest) /\ DOMAIN d = 1 .. Len(d)
  /\ Len(rest) \in Nat /\ Len(q) \in {1, 2} /\ (q = <<a, n>> => Len(q) = 2)

LEMMA AnswersAtTheEnd ==
  ASSUME NEW rest \in Seq(Notes \cup Replies), NEW a \in Replies, NEW n \in Notes,
         NEW q \in {<<a>>, <<a, n>>}
  PROVE  Continues(rest \o q, rest, a, n, q)
<1> DEFINE T == Notes \cup Replies
           d == rest \o q
<1>1. q \in Seq(T) /\ Len(q) \in {1, 2} /\ q[1] = a
      /\ (Len(q) = 2 => q = <<a, n>> /\ q[2] = n) /\ (q = <<a, n>> => Len(q) = 2)
  <2>1. CASE q = <<a>>
    BY <2>1
  <2>2. CASE q = <<a, n>>
    BY <2>2
  <2> QED BY <2>1, <2>2
<1> HIDE DEF T
<1>20. rest \in Seq(T)
  BY DEF T
<1>2. d \in Seq(T) /\ Len(d) = Len(rest) + Len(q)
      /\ \A i \in 1 .. (Len(rest) + Len(q)) : d[i] = IF i <= Len(rest) THEN rest[i] ELSE q[i - Len(rest)]
  BY <1>1, <1>20, ConcatProperties
<1> HIDE DEF d
<1>3. DOMAIN rest = 1 .. Len(rest) /\ DOMAIN d = 1 .. (Len(rest) + Len(q)) /\ Len(rest) \in Nat
      /\ DOMAIN d = 1 .. Len(d)
  BY <1>2, <1>20
<1>4. \A i \in DOMAIN rest : i \in DOMAIN d /\ d[i] = rest[i]
  <2> SUFFICES ASSUME NEW i \in 1 .. Len(rest) PROVE i \in 1 .. (Len(rest) + Len(q)) /\ d[i] = rest[i]
    BY <1>3
  <2>1. i \in 1 .. (Len(rest) + Len(q)) /\ i <= Len(rest)
    BY <1>1, <1>3
  <2> QED BY <1>2, <2>1
<1>5. Len(rest) + 1 \in DOMAIN d /\ d[Len(rest) + 1] = a
  <2>1. Len(rest) + 1 \in 1 .. (Len(rest) + Len(q)) /\ ~(Len(rest) + 1 <= Len(rest))
        /\ (Len(rest) + 1) - Len(rest) = 1
    BY <1>1, <1>3
  <2> QED BY <1>1, <1>2, <1>3, <2>1
<1>6. Len(q) = 2 => Len(rest) + 2 \in DOMAIN d /\ d[Len(rest) + 2] = n
  <2> SUFFICES ASSUME Len(q) = 2 PROVE Len(rest) + 2 \in DOMAIN d /\ d[Len(rest) + 2] = n
    OBVIOUS
  <2>1. Len(rest) + 2 \in 1 .. (Len(rest) + Len(q)) /\ ~(Len(rest) + 2 <= Len(rest))
        /\ (Len(rest) + 2) - Len(rest) = 2
    BY <1>3
  <2> QED BY <1>1, <1>2, <1>3, <2>1
<1>7. \A i \in DOMAIN d :
        \/ i \in DOMAIN rest /\ d[i] = rest[i]
        \/ i = Len(rest) + 1 /\ d[i] = a
        \/ i = Len(rest) + 2 /\ d[i] = n /\ q = <<a, n>>
  <2> SUFFICES ASSUME NEW i \in 1 .. (Len(rest) + Len(q))
               PROVE  \/ i \in DOMAIN rest /\ d[i] = rest[i]
                      \/ i = Len(rest) + 1 /\ d[i] = a
                      \/ i = Len(rest) + 2 /\ d[i] = n /\ q = <<a, n>>
    BY <1>3
  <2>1. i \in 1 .. Len(rest) \/ i = Len(rest) + 1 \/ (i = Len(rest) + 2 /\ Len(q) = 2)
    <3>1. CASE Len(q) = 1
      BY <1>3, <3>1
    <3>2. CASE Len(q) = 2
      BY <1>3, <3>2
    <3> QED BY <1>1, <3>1, <3>2
  <2> QED BY <1>1, <1>3, <1>4, <1>5, <1>6, <2>1
<1>8. q = <<a, n>> => Len(q) = 2
  BY <1>1
<1> QED BY <1>1, <1>2, <1>3, <1>4, <1>5, <1>6, <1>7, <1>8 DEF Continues, T, d

LEMMA FitsStill ==
  ASSUME Typed, NEW x \in Notes \cup Replies, Fits(x, task, Heard), NEW s \in Slots, x.slot # s,
         NEW k, task' = [task EXCEPT ![s] = k], Heard \subseteq Heard'
  PROVE  Fits(x, task', Heard')
<1>1. CASE x.op = "answer" /\ x.slot # NoSlot
  <2>1. x.slot \in Slots
    BY <1>1 DEF Notes, Replies
  <2>2. task'[x.slot] = task[x.slot]
    BY <2>1 DEF Typed
  <2> QED BY <2>2 DEF Fits
<1>2. CASE x.op = "answer" /\ x.slot = NoSlot
  BY <1>2 DEF Fits
<1>3. CASE x.op # "answer"
  BY <1>3 DEF Fits
<1> QED BY <1>1, <1>2, <1>3

LEMMA AdvanceSound ==
  ASSUME Sound, NEW s, NEW p, NEW o, NEW rest, Advances(s, p, o, rest)
  PROVE  /\ AnswersSound' /\ Heard \subseteq Heard'
         /\ down' \in Seq(Notes \cup Replies) /\ late' \in Seq(Requests)
         /\ link' = "down" => down' = <<>>
         /\ codex' \in Threads /\ codex'.turn \in {NoTurn, codex'.last}
         /\ phone' \in Pages /\ phone'.connected = phone.connected /\ phone'.entered = phone.entered
         /\ task' \in [Slots -> Tasks] /\ \A r \in Slots : TaskSound(task'[r])
         /\ task'[s] = o.k /\ \A r \in Slots \ {s} : task'[r] = task[r]
<1>1. /\ Typed /\ s \in Slots /\ Resting(s, rest) /\ TaskSound(o.k) /\ o.k \in Tasks
      /\ phone' = o.p /\ task' = [task EXCEPT ![s] = o.k] /\ link' = link
      /\ task \in [Slots -> Tasks] /\ \A r \in Slots : TaskSound(task[r])
      /\ late \in Seq(Requests) /\ codex \in Threads /\ codex.turn \in {NoTurn, codex.last}
  BY DEF Sound, Advances, GoesWell, TaskSound, Typed, Threads
<1>2. /\ phone' \in Pages /\ phone'.connected = phone.connected /\ phone'.entered = phone.entered
  BY DEF Advances, GoesWell, Where
<1>3. /\ task' \in [Slots -> Tasks] /\ \A r \in Slots : TaskSound(task'[r])
      /\ task'[s] = o.k /\ \A r \in Slots \ {s} : task'[r] = task[r]
  BY <1>1
<1>4. /\ rest \in Seq(Notes \cup Replies) /\ OneAnswerEach(rest) /\ (link = "down" => rest = <<>>)
      /\ \A i \in DOMAIN rest : rest[i].slot # s /\ Fits(rest[i], task, Heard)
      /\ \A i \in DOMAIN rest : rest[i] \in Notes \cup Replies
  BY <1>1 DEF Resting
<1>5. ASSUME Heard \subseteq Heard'
      PROVE  \A i \in DOMAIN rest : Fits(rest[i], task', Heard')
  BY <1>1, <1>4, <1>5, FitsStill
<1>6. CASE down' = rest /\ codex' = codex /\ late' \in Seq(Requests)
  <2>1. Heard' = Heard
    BY <1>6 DEF Heard
  <2>2. AnswersSound'
    BY <1>4, <1>5, <1>6, <2>1 DEF AnswersSound
  <2> QED BY <1>1, <1>2, <1>3, <1>4, <1>6, <2>1, <2>2
<1>7. CASE /\ o.k.pc \notin Unawaited /\ Request(o.k) \in Requests
           /\ link = "up" /\ late' = late /\ Handled(Request(o.k), s, rest)
  <2> DEFINE r == Request(o.k)
  <2>1. PICK a \in Replies, n \in Notes : \E q \in {<<a>>, <<a, n>>} :
           /\ a.of = r.op /\ a.slot = s
           /\ a.has = IF r.op = "page" THEN Heard ELSE {}
           /\ down' = IF link = "up" THEN rest \o q ELSE rest
           /\ Begins(r, a, n, q) \/ Joins(r, a, q) \/ Refuses(r, a, q) \/ Tells(r, a, q)
           /\ codex' \in Threads /\ codex'.turn \in {NoTurn, codex'.last}
    BY <1>7 DEF Handled
  <2>2. PICK q \in {<<a>>, <<a, n>>} :
           /\ a.of = r.op /\ a.slot = s
           /\ a.has = IF r.op = "page" THEN Heard ELSE {}
           /\ down' = IF link = "up" THEN rest \o q ELSE rest
           /\ Begins(r, a, n, q) \/ Joins(r, a, q) \/ Refuses(r, a, q) \/ Tells(r, a, q)
           /\ codex' \in Threads /\ codex'.turn \in {NoTurn, codex'.last}
    BY <2>1
  <2>3. r \in Requests /\ r.op = OpAt(o.k.pc) /\ r.m = o.k.m
    BY <1>1, <1>7, RequestsAre
  <2> HIDE DEF r
  <2>4. /\ Heard \subseteq Heard' /\ (Ask(r.op) /\ a.ok => r.m \in Heard')
    BY <1>1, <2>2, <2>3, HearsOf
  <2>5. down' = rest \o q
    BY <1>7, <2>2
  <2>6. Fits(a, task', Heard') /\ Fits(n, task', Heard') /\ n.slot = NoSlot
    <3>1. a.has \subseteq Heard' /\ task'[s] = o.k
      BY <1>3, <2>2, <2>4
    <3>2. n.slot = NoSlot /\ n.op # "answer"
      BY DEF Notes
    <3> QED BY <1>7, <2>2, <2>3, <2>4, <3>1, <3>2 DEF Fits
  <2>7. /\ down' \in Seq(Notes \cup Replies)
         /\ \A i \in DOMAIN down' :
              \/ i \in DOMAIN rest /\ down'[i] = rest[i]
              \/ i = Len(rest) + 1 /\ down'[i] = a
              \/ i = Len(rest) + 2 /\ down'[i] = n
    <3>1. Continues(rest \o q, rest, a, n, q)
      BY <1>4, AnswersAtTheEnd
    <3> QED BY <2>5, <3>1 DEF Continues
  <2>8. \A i \in DOMAIN down' : Fits(down'[i], task', Heard')
    BY <1>5, <2>4, <2>6, <2>7
  <2>9. OneAnswerEach(down')
    <3> SUFFICES ASSUME NEW i \in DOMAIN down', NEW j \in DOMAIN down',
                        down'[i].slot = down'[j].slot, down'[i].slot # NoSlot
                 PROVE  i = j
      BY DEF OneAnswerEach
    <3>1. /\ \/ i \in DOMAIN rest /\ down'[i] = rest[i]
             \/ i = Len(rest) + 1 /\ down'[i].slot = s
          /\ \/ j \in DOMAIN rest /\ down'[j] = rest[j]
             \/ j = Len(rest) + 1 /\ down'[j].slot = s
      BY <2>2, <2>6, <2>7
    <3> QED BY <1>4, <3>1 DEF OneAnswerEach
  <2>10. AnswersSound'
    BY <2>8, <2>9 DEF AnswersSound
  <2>11. link' # "down"
    BY <1>1, <1>7
  <2> QED BY <1>1, <1>2, <1>3, <1>7, <2>2, <2>4, <2>7, <2>10, <2>11
<1>8. late' \in Seq(Requests)
  <2>1. CASE late' = late
    BY <1>1, <2>1
  <2>2. CASE Request(o.k) \in Requests /\ late' = Append(late, Request(o.k))
    BY <1>1, <2>2, AppendProperties
  <2> QED BY <2>1, <2>2 DEF Advances
<1> QED BY <1>6, <1>7, <1>8 DEF Advances

----
(* What a continuation of task k may do to page p and its submissions. *)
Adopts(p, o) == o.q = <<>> /\ Hold(o.p) = <<Adopted(p), p.stored, p.composer>>

Moves(p, k, o) ==
  \/ Stops(p, o) \/ Adopts(p, o) \/ Concludes(p, o) \/ Synchronises(p, k, o)
  \/ /\ AtWork(k)
     /\ \/ k.m \in Heard /\ Clears(p, o)
        \/ \E m \in {p.pending, k.m} : GivesBack(p, m, o)
        \/ Sender(k) /\ SendsOn(p, k, o)
        \/ k.pc = "settle" /\ Stores(p, k.m, o)

Resumed(s, rest) == \E o : Advances(s, phone, o, rest) /\ Moves(phone, task[s], o)

LEMMA RestOfQueue ==
  ASSUME Sound, down # <<>>
  PROVE  /\ Tail(down) \in Seq(Notes \cup Replies)
         /\ \A i \in DOMAIN Tail(down) : i + 1 \in DOMAIN down /\ Tail(down)[i] = down[i + 1]
                                         /\ Fits(Tail(down)[i], task, Heard)
         /\ OneAnswerEach(Tail(down))
         /\ Head(down) = down[1] /\ 1 \in DOMAIN down /\ link # "down"
         /\ DOMAIN Tail(down) = 1 .. (Len(down) - 1) /\ Len(down) \in Nat /\ DOMAIN down = 1 .. Len(down)
<1>1. down \in Seq(Notes \cup Replies) /\ link # "down"
  BY DEF Sound, Typed
<1>2. /\ Tail(down) \in Seq(Notes \cup Replies) /\ Len(Tail(down)) = Len(down) - 1
      /\ \A i \in 1 .. Len(Tail(down)) : Tail(down)[i] = down[i + 1]
      /\ Head(down) = down[1] /\ Len(down) \in Nat /\ Len(down) > 0
  BY <1>1, HeadTailProperties, LenProperties, EmptySeq
<1>3. DOMAIN Tail(down) = 1 .. (Len(down) - 1) /\ DOMAIN down = 1 .. Len(down)
  BY <1>1, <1>2, LenProperties
<1> DEFINE t == Tail(down)
<1>4. \A i \in DOMAIN t : i + 1 \in DOMAIN down /\ t[i] = down[i + 1]
  BY <1>2, <1>3
<1>5. /\ \A i \in DOMAIN down : Fits(down[i], task, Heard)
      /\ \A i, j \in DOMAIN down : down[i].slot = down[j].slot /\ down[i].slot # NoSlot => i = j
  BY DEF Sound, AnswersSound, OneAnswerEach
<1>6. t \in Seq(Notes \cup Replies) /\ Head(down) = down[1] /\ 1 \in DOMAIN down
      /\ DOMAIN t = 1 .. (Len(down) - 1)
  BY <1>2, <1>3
<1> HIDE DEF t
<1>7. OneAnswerEach(t)
  <2> SUFFICES ASSUME NEW i \in DOMAIN t, NEW j \in DOMAIN t, t[i].slot = t[j].slot, t[i].slot # NoSlot
               PROVE  i = j
    BY DEF OneAnswerEach
  <2>1. i + 1 = j + 1
    BY <1>4, <1>5
  <2> QED BY <2>1, <1>6
<1>8. \A i \in DOMAIN t : Fits(t[i], task, Heard)
  BY <1>4, <1>5
<1> QED BY <1>1, <1>2, <1>3, <1>4, <1>6, <1>7, <1>8 DEF t

(* The queue without an owner for the answers to s. *)
LEMMA Disowned ==
  ASSUME Sound, NEW s \in Slots
  PROVE  /\ Resting(s, Disown(down, s))
         /\ DOMAIN Disown(down, s) = DOMAIN down
         /\ \A i \in DOMAIN down :
              /\ down[i].slot = s => Disown(down, s)[i] = [down[i] EXCEPT !.slot = NoSlot]
              /\ down[i].slot # s => Disown(down, s)[i] = down[i]
<1> DEFINE d == Disown(down, s)
<1>1. down \in Seq(Notes \cup Replies) /\ (link = "down" => down = <<>>)
  BY DEF Sound, Typed
<1>2. DOMAIN d = DOMAIN down /\ DOMAIN down = 1 .. Len(down) /\ Len(down) \in Nat
      /\ \A i \in DOMAIN down : d[i] = IF down[i].slot = s THEN [down[i] EXCEPT !.slot = NoSlot] ELSE down[i]
  BY <1>1 DEF Disown
<1>3. s # NoSlot /\ s \in Slots
  BY PhoneAssumption DEF NoSlot
<1>4. \A i \in DOMAIN down : Fits(down[i], task, Heard) /\ down[i] \in Notes \cup Replies
  BY <1>1 DEF Sound, AnswersSound
<1>5. \A x \in Notes \cup Replies : Fits(x, task, Heard) =>
        LET y == [x EXCEPT !.slot = NoSlot] IN
        y \in Notes \cup Replies /\ y.slot = NoSlot /\ Fits(y, task, Heard)
  <2> SUFFICES ASSUME NEW x \in Notes \cup Replies, Fits(x, task, Heard)
               PROVE  LET y == [x EXCEPT !.slot = NoSlot] IN
                      y \in Notes \cup Replies /\ y.slot = NoSlot /\ Fits(y, task, Heard)
    OBVIOUS
  <2>1. CASE x \in Notes
    BY <2>1 DEF Notes, Fits
  <2>2. CASE x \in Replies
    BY <2>2 DEF Replies, Fits
  <2> QED BY <2>1, <2>2
<1>6. d = [i \in 1 .. Len(down) |-> IF down[i].slot = s THEN [down[i] EXCEPT !.slot = NoSlot] ELSE down[i]]
  BY <1>2 DEF Disown
<1> HIDE DEF d
<1>7. \A i \in DOMAIN down : d[i] \in Notes \cup Replies /\ d[i].slot # s /\ Fits(d[i], task, Heard)
                             /\ d[i].slot \in {down[i].slot, NoSlot}
  <2> SUFFICES ASSUME NEW i \in DOMAIN down
               PROVE  d[i] \in Notes \cup Replies /\ d[i].slot # s /\ Fits(d[i], task, Heard)
                      /\ d[i].slot \in {down[i].slot, NoSlot}
    OBVIOUS
  <2> DEFINE x == down[i]
             y == [x EXCEPT !.slot = NoSlot]
  <2>1. x \in Notes \cup Replies /\ Fits(x, task, Heard) /\ d[i] = IF x.slot = s THEN y ELSE x
    BY <1>2, <1>4
  <2>2. y \in Notes \cup Replies /\ y.slot = NoSlot /\ Fits(y, task, Heard)
    BY <1>5, <2>1
  <2> HIDE DEF y
  <2>3. d[i] \in {x, y} /\ (d[i] = x => x.slot # s)
    BY <2>1, <2>2, <1>3
  <2> QED BY <2>1, <2>2, <2>3, <1>3
<1>8. d \in Seq(Notes \cup Replies)
  BY <1>2, <1>6, <1>7
<1>9. OneAnswerEach(d)
  BY <1>2, <1>7 DEF Sound, AnswersSound, OneAnswerEach
<1>10. link = "down" => d = <<>>
  BY <1>1, <1>2, <1>8
<1> QED BY <1>2, <1>7, <1>8, <1>9, <1>10 DEF Resting, d

(* The queue as it is has nothing for a task that waits for nothing. *)
LEMMA NothingAwaited ==
  ASSUME Sound, NEW s \in Slots, task[s].pc \in Unawaited
  PROVE  Resting(s, down)
<1>1. s # NoSlot
  BY PhoneAssumption DEF NoSlot
<1>2. \A i \in DOMAIN down : down[i] \in Notes \cup Replies /\ Fits(down[i], task, Heard)
  BY DEF Sound, Typed, AnswersSound
<1>3. \A x \in Notes \cup Replies : Fits(x, task, Heard) => x.slot # s
  BY <1>1 DEF Notes, Replies, Fits
<1> QED BY <1>2, <1>3 DEF Sound, Typed, AnswersSound, Resting

LEMMA SettlesMoves ==
  ASSUME Sound, NEW s \in Slots, Settles(s)
  PROVE  Resumed(s, down) /\ task[s].kind = "notice" /\ ~Sender(task[s]) /\ ~AtWork(task[s])
<1> DEFINE k == task[s]
           u == Settle(phone, k)
           o == IF u.q # <<>> /\ ~phone.connected THEN Fail(u.p, u.k, FALSE) ELSE u
<1>1. /\ phone \in Pages /\ k \in Tasks /\ TaskSound(k) /\ phone.connected = (link # "down")
      /\ k.pc = "pause" /\ Typed
  BY DEF Sound, Typed, PhoneTypeOK, Pages, Settles
<1>2. k.kind = "notice"
  BY <1>1 DEF TaskSound, Tasks, TaskKinds, Sender, SenderPcs
<1>3. Resting(s, down)
  BY <1>1, NothingAwaited DEF Unawaited
<1>4. GoesOn(s, o, down) /\ link' = link
  BY DEF Settles
<1>5. GoesWell(phone, u) /\ (Stops(phone, u) \/ (Adopted(phone) # NoMsg /\ Concludes(phone, u)))
  BY <1>1, <1>2, SettlesWell
<1>60. task[s].kind = "notice" /\ ~Sender(task[s]) /\ ~AtWork(task[s])
  BY <1>1, <1>2 DEF k, Sender, AtWork
<1> HIDE DEF k, u
<1>6. CASE u.q # <<>> /\ ~phone.connected
  <2>1. Concludes(phone, u) /\ u.p \in Pages /\ Where(u.p) = Where(phone) /\ o = Fail(u.p, u.k, FALSE)
    BY <1>5, <1>6 DEF Stops, GoesWell
  <2>2. ~u.p.connected
    BY <1>6, <2>1 DEF Where
  <2> HIDE DEF o
  <2>3. GoesWell(u.p, o) /\ Stops(u.p, o)
    BY <2>1, <2>2, FailsWell
  <2>4. GoesWell(phone, o) /\ Adopts(phone, o)
    BY <2>1, <2>3 DEF GoesWell, Stops, Adopts, Concludes
  <2>5. Advances(s, phone, o, down)
    BY <1>1, <1>3, <1>4, <2>3, <2>4, GoesOnAdvances DEF Stops
  <2> QED BY <1>60, <2>4, <2>5 DEF Resumed, Moves
<1>7. CASE ~(u.q # <<>> /\ ~phone.connected)
  <2>1. o = u
    BY <1>7
  <2>2. u.q = <<>> \/ link # "down"
    BY <1>1, <1>7
  <2>3. Advances(s, phone, u, down)
    BY <1>1, <1>3, <1>4, <1>5, <2>1, <2>2, GoesOnAdvances
  <2> QED BY <1>5, <1>60, <2>3 DEF Resumed, Moves
<1> QED BY <1>6, <1>7

LEMMA ReceivesMoves ==
  ASSUME Sound, Receives
  PROVE  \/ /\ down # <<>> /\ Head(down).slot = NoSlot
            /\ down' = Tail(down) /\ UNCHANGED <<phone, task, codex, late>>
         \/ \E s \in Slots : \E o :
              /\ Advances(s, phone, o, Tail(down)) /\ Moves(phone, task[s], o)
              /\ down # <<>> /\ Head(down).slot = s /\ Head(down) \in Replies
              /\ Answering(phone, task[s], Head(down), o)
              /\ o = Answered(phone, task[s], Head(down))
<1> DEFINE a == Head(down)
           s == a.slot
           k == task[s]
           o == Answered(phone, k, a)
<1>1. /\ phone \in Pages /\ Typed /\ down # <<>> /\ a.op = "answer" /\ link' = link
      /\ IF s = NoSlot THEN down' = Tail(down) /\ UNCHANGED <<phone, task, codex, late>>
         ELSE GoesOn(s, o, Tail(down))
  BY DEF Sound, Typed, PhoneTypeOK, Pages, Receives
<1>2. /\ Tail(down) \in Seq(Notes \cup Replies)
      /\ \A i \in DOMAIN Tail(down) : i + 1 \in DOMAIN down /\ Tail(down)[i] = down[i + 1]
                                      /\ Fits(Tail(down)[i], task, Heard)
      /\ OneAnswerEach(Tail(down))
      /\ a = down[1] /\ 1 \in DOMAIN down /\ link # "down"
      /\ DOMAIN Tail(down) = 1 .. (Len(down) - 1) /\ Len(down) \in Nat
  BY <1>1, RestOfQueue
<1>3. Fits(a, task, Heard) /\ a \in Replies /\ OneAnswerEach(down)
  <2>1. down \in Seq(Notes \cup Replies)
    BY <1>1 DEF Typed
  <2>2. down[1] \in Notes \cup Replies
    BY <1>2, <2>1
  <2>3. a \in Replies
    BY <1>1, <1>2, <2>2 DEF Notes
  <2> QED BY <1>2, <2>3 DEF Sound, AnswersSound
<1>4. CASE s = NoSlot
  BY <1>1, <1>4
<1>5. CASE s # NoSlot
  <2>1. s \in Slots /\ a.has \subseteq Heard /\ k.pc \notin Unawaited /\ a.of = OpAt(k.pc)
        /\ (Ask(a.of) /\ a.ok => k.m \in Heard)
    BY <1>1, <1>3, <1>5 DEF Fits, Replies
  <2>2. TaskSound(k) /\ k \in Tasks
    BY <1>1, <2>1 DEF Typed
  <2>3. \A i \in DOMAIN Tail(down) : Tail(down)[i].slot # s
    <3> SUFFICES ASSUME NEW i \in DOMAIN Tail(down), Tail(down)[i].slot = s PROVE FALSE
      OBVIOUS
    <3>1. i + 1 = 1 /\ i \in Nat /\ i > 0
      BY <1>2, <1>3, <1>5 DEF OneAnswerEach
    <3> QED BY <3>1
  <2>4. Resting(s, Tail(down))
    BY <1>2, <2>3 DEF Resting
  <2>5. GoesOn(s, o, Tail(down))
    BY <1>1, <1>5
  <2>6. Answering(phone, k, a, o)
    BY <1>1, <1>3, <2>1, <2>2, AnsweredWell
  <2>7. Ask(k.pc) => a.of = k.pc
    BY <2>1 DEF OpAt, Ask
  <2>10. o = Answered(phone, k, a)
    OBVIOUS
  <2> HIDE DEF o, k
  <2>8. Advances(s, phone, o, Tail(down))
    BY <1>1, <1>2, <2>1, <2>4, <2>5, <2>6, GoesOnAdvances DEF Answering
  <2>9. Moves(phone, k, o)
    <3>1. Ask(k.pc) /\ a.ok => k.m \in Heard
      BY <2>1, <2>7
    <3>2. k.m \in a.has => k.m \in Heard
      BY <2>1
    <3> QED BY <2>6, <3>1, <3>2 DEF Answering, Failing, Moves, AtWork
  <2> QED BY <1>1, <1>3, <2>1, <2>6, <2>10, <2>8, <2>9 DEF k
<1> QED BY <1>4, <1>5

LEMMA TimesOutMoves ==
  ASSUME Sound, NEW s \in Slots, TimesOut(s)
  PROVE  Resumed(s, Disown(down, s))
<1> DEFINE k == task[s]
           o == OnRejected(phone, k)
           rest == Disown(down, s)
<1>1. /\ phone \in Pages /\ Typed /\ k \in Tasks /\ TaskSound(k) /\ k.pc \notin Unawaited
      /\ GoesOn(s, o, rest) /\ link' = link
  BY DEF Sound, Typed, PhoneTypeOK, Pages, TimesOut
<1>2. link # "down"
  BY <1>1 DEF Typed
<1>3. Resting(s, rest)
  BY Disowned
<1>4. /\ GoesWell(phone, o)
      /\ Sender(k) => Failing(phone, k, o)
      /\ ~Sender(k) =>
           \/ Stops(phone, o)
           \/ k.pc = "settle" /\ GivesBack(phone, phone.pending, o)
           \/ Concludes(phone, o)
  BY <1>1, RejectedWell
<1> HIDE DEF k, o, rest
<1>5. Advances(s, phone, o, rest)
  BY <1>1, <1>2, <1>3, <1>4, GoesOnAdvances
<1>6. Moves(phone, k, o)
  BY <1>4 DEF Moves, Failing, AtWork
<1> QED BY <1>5, <1>6 DEF Resumed, k, rest

(* Nothing is carried on that was not there. *)
LEMMA MovesCarry ==
  ASSUME Typed, NEW s \in Slots, NEW o, GoesWell(phone, o), Moves(phone, task[s], o)
  PROVE  /\ {o.p.pending, o.p.stored, o.p.composer} \subseteq Held \cup {NoMsg}
         /\ AtWork(o.k) => o.k.m \in Held
         /\ o.k.kind = "send" => task[s].kind = "send"
<1> DEFINE k == task[s]
           H == Held \cup {NoMsg}
<1>1. /\ {phone.pending, phone.stored, phone.composer, Adopted(phone)} \subseteq H
      /\ AtWork(k) => k.m \in H
      /\ TaskSound(k) /\ TaskSound(o.k)
  BY DEF Held, Adopted, Typed, GoesWell
<1>2. o.q = <<>> => o.k = Free
  BY DEF GoesWell
<1>3. ~AtWork(Free) /\ Free.kind # "send"
  BY DEF Free, AtWork, Sender
<1>4. AtWork(o.k) => o.k.m # NoMsg
  BY <1>1, PhoneAssumption DEF TaskSound
<1>5. \A m \in H : m # NoMsg => m \in Held
  OBVIOUS
<1> HIDE DEF k, H
<1>6. CASE Stops(phone, o) \/ Adopts(phone, o) \/ Clears(phone, o)
           \/ (AtWork(k) /\ Stores(phone, k.m, o)) \/ GivesBack(phone, phone.pending, o)
           \/ (AtWork(k) /\ GivesBack(phone, k.m, o))
  <2>1. o.q = <<>>
    BY <1>6 DEF Stops, Adopts, Clears, Stores, GivesBack
  <2>2. {o.p.pending, o.p.stored, o.p.composer} \subseteq H
    BY <1>1, <1>6 DEF Stops, Adopts, Clears, Stores, GivesBack, Hold, H
  <2> QED BY <1>2, <1>3, <2>1, <2>2 DEF H
<1>7. CASE Concludes(phone, o)
  <2>1. {o.p.pending, o.p.stored, o.p.composer} \subseteq H /\ o.k.m \in H /\ ~Sender(o.k)
    BY <1>1, <1>7 DEF Concludes, Hold
  <2> QED BY <1>4, <1>5, <2>1 DEF H, Sender
<1>8. CASE Synchronises(phone, k, o)
  <2>1. {o.p.pending, o.p.stored, o.p.composer} \subseteq H /\ ~AtWork(o.k) /\ o.k.kind = "sync"
    BY <1>1, <1>8 DEF Synchronises, AtWork, Sender
  <2> QED BY <2>1 DEF H
<1>9. CASE AtWork(k) /\ Sender(k) /\ SendsOn(phone, k, o)
  <2>1. {o.p.pending, o.p.stored, o.p.composer} \subseteq H /\ o.k.m \in H
    BY <1>1, <1>9 DEF SendsOn
  <2>2. o.k.kind = "send" => k.kind = "send"
    BY <1>9 DEF SendsOn
  <2> QED BY <1>4, <1>5, <2>1, <2>2 DEF H, k
<1> QED BY <1>6, <1>7, <1>8, <1>9 DEF Moves, k

----
(* Two at work, one of which sends, are contested. *)
LEMMA ContestedOnes ==
  ASSUME task' \in [Slots -> Tasks]
  PROVE  /\ Contested(task') \subseteq {task'[s].m : s \in {r \in Slots : AtWork(task'[r])}}
         /\ \A r, s \in Slots : r # s /\ Sender(task'[r]) /\ AtWork(task'[s])
              => task'[r].m \in Contested(task') /\ task'[s].m \in Contested(task')
<1> DEFINE senders == {s \in Slots : task'[s].kind \in {"send", "bare"}}
           settlers == {s \in Slots : task'[s].pc = "settle"}
           all == senders \cup settlers
<1>1. Contested(task') = IF senders = {} \/ Cardinality(all) < 2 THEN {} ELSE {task'[s].m : s \in all}
  BY DEF Contested
<1>2. all = {r \in Slots : AtWork(task'[r])} /\ senders = {r \in Slots : Sender(task'[r])}
  BY DEF AtWork, Sender
<1>3. IsFiniteSet(all)
  BY PhoneAssumption, FS_Subset
<1> HIDE DEF senders, settlers, all
<1>4. ASSUME NEW r \in all, NEW s \in all, r # s
      PROVE  ~(Cardinality(all) < 2)
  <2>1. Cardinality({r, s}) = 2 /\ {r, s} \subseteq all
    <3>1. IsFiniteSet({r}) /\ Cardinality({r}) = 1
      BY FS_Singleton
    <3>2. Cardinality({r} \cup {s}) = Cardinality({r}) + 1
      BY <1>4, <3>1, FS_AddElement
    <3>3. {r} \cup {s} = {r, s}
      OBVIOUS
    <3> QED BY <3>1, <3>2, <3>3
  <2>2. Cardinality({r, s}) <= Cardinality(all) /\ Cardinality(all) \in Nat
    BY <1>3, <2>1, FS_Subset, FS_CardinalityType
  <2> QED BY <2>1, <2>2
<1>5. ASSUME NEW r \in Slots, NEW s \in Slots, r # s, Sender(task'[r]), AtWork(task'[s])
      PROVE  task'[r].m \in Contested(task') /\ task'[s].m \in Contested(task')
  <2>1. r \in senders /\ r \in all /\ s \in all
    BY <1>2, <1>5 DEF AtWork
  <2> QED BY <1>1, <1>4, <1>5, <2>1
<1> QED BY <1>1, <1>2, <1>5

(* What is raced after a continuation. *)
LEMMA RacesOf ==
  ASSUME Typed, Races, task' \in [Slots -> Tasks], \A s \in Slots : TaskSound(task'[s])
  PROVE  raced \subseteq raced' /\ raced' \subseteq raced \cup Held' /\ Alone'
<1>1. raced' = raced \cup (Contested(task') \cap Msgs)
  BY DEF Races
<1>2. \A s \in Slots : AtWork(task'[s]) => task'[s].m \in Msgs /\ task'[s].m # NoMsg
  BY PhoneAssumption DEF TaskSound
<1>3. Contested(task') \subseteq Held'
  BY <1>2, ContestedOnes DEF Held
<1>4. \A r, s \in Slots : r # s /\ Sender(task'[r]) /\ AtWork(task'[s])
         => task'[r].m \in raced' /\ task'[s].m \in raced'
  BY <1>1, <1>2, ContestedOnes DEF AtWork
<1> QED BY <1>1, <1>3, <1>4 DEF Alone

LEMMA HeldAfter ==
  ASSUME Typed, NEW s \in Slots, NEW k, NEW S, Held \subseteq S,
         task'[s] = k, \A r \in Slots \ {s} : task'[r] = task[r], AtWork(k) => k.m \in S,
         {phone'.pending, phone'.stored, phone'.composer} \subseteq S \cup {NoMsg}
  PROVE  Held' \subseteq S
<1>1. \A r \in Slots : AtWork(task'[r]) => task'[r].m \in S \cup {NoMsg}
  <2> SUFFICES ASSUME NEW r \in Slots, AtWork(task'[r]) PROVE task'[r].m \in S \cup {NoMsg}
    OBVIOUS
  <2>1. CASE r = s
    BY <2>1
  <2>2. CASE r # s
    BY <2>2 DEF Held
  <2> QED BY <2>1, <2>2
<1> QED BY <1>1 DEF Held

(* What is late after a step: what was, and the request of task s. *)
LEMMA LateAfter ==
  ASSUME Typed, NEW s, NEW p, NEW o, NEW rest, Advances(s, p, o, rest)
  PROVE  /\ DOMAIN late = 1 .. Len(late) /\ DOMAIN late' = 1 .. Len(late') /\ Len(late) \in Nat
         /\ \A i \in DOMAIN late : i \in DOMAIN late' /\ late'[i] = late[i]
         /\ \/ late' = late
            \/ /\ link = "broken" /\ link' = link /\ o.k.pc \notin Unawaited /\ Len(late') = Len(late) + 1
               /\ late'[Len(late) + 1] = Request(o.k) /\ Request(o.k) \in Requests
               /\ down' = rest /\ codex' = codex
         /\ \A i \in DOMAIN late' : (i \in DOMAIN late /\ late'[i] = late[i])
                                   \/ (i = Len(late) + 1 /\ late'[i] = Request(o.k) /\ o.k.pc \notin Unawaited)
<1>1. late \in Seq(Requests)
  BY DEF Typed
<1>2. CASE late' = late
  <2>1. DOMAIN late = 1 .. Len(late) /\ Len(late) \in Nat
    BY <1>1, LenProperties
  <2> QED BY <1>2, <2>1
<1>3. CASE late' # late
  <2> DEFINE r == Request(o.k)
  <2>1. /\ late' = Append(late, r) /\ r \in Requests /\ link = "broken" /\ link' = link
        /\ down' = rest /\ codex' = codex /\ o.k.pc \notin Unawaited
    BY <1>3 DEF Advances
  <2> HIDE DEF r
  <2>2. /\ Len(late') = Len(late) + 1 /\ late'[Len(late) + 1] = r
        /\ \A i \in 1 .. Len(late) : late'[i] = late[i]
        /\ DOMAIN late = 1 .. Len(late) /\ Len(late) \in Nat /\ DOMAIN late' = 1 .. Len(late')
    BY <1>1, <2>1
  <2>3. \A i \in DOMAIN late' : (i \in DOMAIN late /\ late'[i] = late[i]) \/ (i = Len(late) + 1 /\ late'[i] = r)
    BY <2>2
  <2>4. \A i \in DOMAIN late : i \in DOMAIN late' /\ late'[i] = late[i]
    BY <2>2
  <2> QED BY <2>1, <2>2, <2>3, <2>4 DEF r
<1> QED BY <1>2, <1>3

(* The types after task s went on. *)
LEMMA SoundAfter ==
  ASSUME Sound, NEW s, NEW p, NEW o, NEW rest, Advances(s, p, o, rest),
         o.k.kind = "send" => task[s].kind = "send" \/ \A r \in Slots : task[r].kind # "send",
         Held' \subseteq sent', sent \subseteq sent', sent' \subseteq Msgs, Doubtful' \subseteq sent',
         wandered' \subseteq sent', mishaps' \subseteq Mishaps
  PROVE  Sound' /\ Heard \subseteq Heard'
<1>1. /\ AnswersSound' /\ Heard \subseteq Heard'
      /\ down' \in Seq(Notes \cup Replies) /\ late' \in Seq(Requests)
      /\ link' = "down" => down' = <<>>
      /\ codex' \in Threads /\ codex'.turn \in {NoTurn, codex'.last}
      /\ phone' \in Pages /\ phone'.connected = phone.connected /\ phone'.entered = phone.entered
      /\ task' \in [Slots -> Tasks] /\ \A r \in Slots : TaskSound(task'[r])
      /\ task'[s] = o.k /\ \A r \in Slots \ {s} : task'[r] = task[r]
  BY AdvanceSound
<1>2. /\ s \in Slots /\ link' = link /\ Typed
      /\ o.k = Free \/ link # "down"
  BY DEF Advances, Sound
<1>3. link' = "down" => \A r \in Slots : task'[r].pc \in Unawaited
  <2> SUFFICES ASSUME link = "down", NEW r \in Slots PROVE task'[r].pc \in Unawaited
    BY <1>2
  <2>1. CASE r = s
    BY <1>1, <1>2, <2>1 DEF Free, Unawaited
  <2>2. CASE r # s
    BY <1>1, <1>2, <2>2 DEF Typed
  <2> QED BY <2>1, <2>2
<1>4. \A q, r \in Slots : task'[q].kind = "send" /\ task'[r].kind = "send" => q = r
  <2>1. \A q, r \in Slots : task[q].kind = "send" /\ task[r].kind = "send" => q = r
    BY <1>2 DEF Typed
  <2>2. ASSUME NEW r \in Slots \ {s}, task'[s].kind = "send", task'[r].kind = "send"
        PROVE  FALSE
    BY <1>1, <1>2, <2>1, <2>2
  <2>3. ASSUME NEW q \in Slots \ {s}, NEW r \in Slots \ {s},
               task'[q].kind = "send", task'[r].kind = "send"
        PROVE  q = r
    BY <1>1, <2>1, <2>3
  <2> QED BY <2>2, <2>3
<1>5. /\ phone'.connected = (link' # "down") /\ link' \in {"up", "broken", "down"}
      /\ ~phone'.entered => ~phone'.connected
  BY <1>1, <1>2 DEF Typed
<1>6. PhoneTypeOK'
  BY <1>1 DEF PhoneTypeOK, Pages
<1>7. codex' \in [turn : SomeTurn, last : SomeTurn, told : [Msgs -> Nat]]
  BY <1>1 DEF Threads
<1>8. Typed'
  BY <1>1, <1>3, <1>4, <1>5, <1>6, <1>7 DEF Typed
<1>9. LateSent'
  <2> SUFFICES ASSUME NEW i \in DOMAIN late' PROVE late'[i].m \in sent' \cup {NoMsg}
    BY DEF LateSent
  <2>1. CASE i \in DOMAIN late /\ late'[i] = late[i]
    BY <2>1 DEF Sound, LateSent
  <2>2. CASE late'[i] = Request(o.k) /\ o.k.pc \notin Unawaited
    <3>1. late'[i].m = o.k.m /\ TaskSound(o.k)
      BY <1>1, <1>2, <2>2, RequestsAre DEF TaskSound
    <3>2. o.k.m \in Held' \cup {NoMsg}
      BY <1>1, <1>2, <3>1 DEF Held, TaskSound
    <3> QED BY <3>1, <3>2
  <2> QED BY <1>2, <2>1, <2>2, LateAfter
<1> QED BY <1>1, <1>8, <1>9 DEF Sound

LEMMA MovedSound ==
  ASSUME Sound, NEW s \in Slots, NEW o, NEW rest, Advances(s, phone, o, rest), Moves(phone, task[s], o),
         Races, doubted' \subseteq doubted \cup Held,
         sent' = sent, wandered' = wandered, mishaps' \subseteq Mishaps
  PROVE  /\ Sound' /\ Heard \subseteq Heard' /\ Held' \subseteq Held /\ Alone'
         /\ raced \subseteq raced'
<1>1. /\ phone' = o.p /\ task' \in [Slots -> Tasks] /\ \A r \in Slots : TaskSound(task'[r])
      /\ task'[s] = o.k /\ \A r \in Slots \ {s} : task'[r] = task[r]
  BY AdvanceSound DEF Advances
<1>2. /\ {o.p.pending, o.p.stored, o.p.composer} \subseteq Held \cup {NoMsg}
      /\ AtWork(o.k) => o.k.m \in Held
      /\ o.k.kind = "send" => task[s].kind = "send"
  BY MovesCarry DEF Sound, Advances
<1>3. Typed /\ Held \subseteq sent /\ sent \subseteq Msgs /\ Doubtful \subseteq sent /\ wandered \subseteq sent
  BY DEF Sound, Typed
<1>4. Held' \subseteq Held
  BY <1>1, <1>2, <1>3, HeldAfter
<1>5. raced \subseteq raced' /\ raced' \subseteq raced \cup Held' /\ Alone'
  BY <1>1, <1>3, RacesOf
<1>6. Doubtful' \subseteq sent
  BY <1>3, <1>4, <1>5 DEF Doubtful
<1>7. Doubtful' \subseteq sent' /\ Held' \subseteq sent' /\ sent \subseteq sent' /\ sent' \subseteq Msgs /\ wandered' \subseteq sent'
  BY <1>3, <1>4, <1>5, <1>6
<1>8. Sound' /\ Heard \subseteq Heard'
  BY <1>2, <1>7, SoundAfter
<1> QED BY <1>4, <1>5, <1>8

LEMMA SendsSound ==
  ASSUME Sound, NEW s \in Slots, NEW m \in Msgs, Sends(s, m)
  PROVE  /\ Sound' /\ Heard \subseteq Heard' /\ Alone' /\ Held' \subseteq Held \cup {m}
         /\ raced \subseteq raced' /\ doubted' = doubted
         /\ sent' = sent \cup {m} /\ wandered' = wandered /\ link' = link
         /\ IF phone.composer = NoMsg THEN m \notin sent ELSE m = phone.composer
         /\ \E o : /\ Advances(s, phone, o, down) /\ Sender(o.k) /\ o.k.m = m
                   /\ phone'.pending = m /\ phone'.stored = m /\ phone'.composer = NoMsg
                   /\ task'[s] = o.k
         /\ \A r \in Slots \ {s} : task'[r] = task[r]
         /\ phone.pending = NoMsg /\ phone.screen /\ phone'.screen /\ phone.entered
         /\ task[s] = Free
<1> DEFINE o == Submission(phone, [Free EXCEPT !.kind = "send", !.m = m, !.flag = TRUE])
<1>1. /\ phone \in Pages /\ Typed /\ phone.connected = (link # "down")
      /\ phone.screen /\ phone.connected /\ phone.pending = NoMsg /\ phone.entered
      /\ \A r \in Slots : task[r].kind # "send"
      /\ IF phone.composer = NoMsg THEN m \notin sent ELSE m = phone.composer
      /\ task[s].pc = "free"
      /\ GoesOn(s, o, down) /\ sent' = sent \cup {m} /\ Races /\ doubted' = doubted
      /\ link' = link /\ mishaps' = mishaps /\ wandered' = wandered
  BY DEF Sound, Typed, PhoneTypeOK, Pages, Sends, FreeSlot
<1>2. task[s] = Free
  BY <1>1 DEF Typed, TaskSound
<1>3. Resting(s, down)
  BY <1>1, NothingAwaited DEF Unawaited
<1>4. GoesWell(phone, o) /\ Sender(o.k) /\ o.k.m = m /\ Hold(o.p) = <<m, m, NoMsg>>
  BY <1>1, SubmitsWell
<1> HIDE DEF o
<1>5. Advances(s, phone, o, down)
  BY <1>1, <1>3, <1>4, GoesOnAdvances
<1>6. /\ phone' = o.p /\ task' \in [Slots -> Tasks] /\ \A r \in Slots : TaskSound(task'[r])
      /\ task'[s] = o.k /\ \A r \in Slots \ {s} : task'[r] = task[r]
  BY <1>5, AdvanceSound DEF Advances
<1>7. o.p.pending = m /\ o.p.stored = m /\ o.p.composer = NoMsg
  BY <1>4 DEF Hold
<1>8. phone'.screen = phone.screen
  BY <1>4, <1>6 DEF GoesWell, Where
<1>9. Held' \subseteq Held \cup {m}
  <2> DEFINE S == Held \cup {m}
  <2>1. Held \subseteq S /\ (AtWork(o.k) => o.k.m \in S)
        /\ {phone'.pending, phone'.stored, phone'.composer} \subseteq S \cup {NoMsg}
    BY <1>4, <1>6, <1>7
  <2> HIDE DEF S
  <2>2. Held' \subseteq S
    BY <1>1, <1>6, <2>1, HeldAfter
  <2> QED BY <2>2 DEF S
<1>10. /\ raced \subseteq raced' /\ raced' \subseteq raced \cup Held' /\ Alone'
  BY <1>1, <1>6, RacesOf
<1>11. /\ Held' \subseteq sent' /\ sent \subseteq sent' /\ sent' \subseteq Msgs /\ Doubtful' \subseteq sent' /\ wandered' \subseteq sent'
       /\ mishaps' \subseteq Mishaps
  BY <1>1, <1>9, <1>10 DEF Typed, Doubtful
<1>12. Sound' /\ Heard \subseteq Heard'
  BY <1>1, <1>5, <1>11, SoundAfter
<1> QED BY <1>1, <1>2, <1>4, <1>5, <1>6, <1>7, <1>8, <1>9, <1>10, <1>12

LEMMA ReturnsSound ==
  ASSUME Sound, NEW s \in Slots, Returns(s)
  PROVE  /\ Sound' /\ Heard \subseteq Heard' /\ Held' \subseteq Held
         /\ raced' = raced /\ doubted' = doubted /\ sent' = sent /\ wandered' = wandered /\ link' = link
         /\ \E o : Advances(s, Shown(phone), o, Disown(down, s)) /\ task'[s] = o.k
                   /\ o.k.pc = "open" /\ o.k.kind = "open" /\ o.k.m = NoMsg
                   /\ o.k.flag = phone.listed
         /\ phone' = Shown(phone) /\ ~phone.screen
         /\ \A r \in Slots \ {s} : task'[r] = task[r]
         /\ task[s] = Free \/ task[s].kind = "open"
<1> DEFINE p == Shown(phone)
           k == [Free EXCEPT !.kind = "open", !.flag = phone.listed]
           o == Calling(p, k, "open", "page")
           rest == Disown(down, s)
<1>1. /\ phone \in Pages /\ Typed /\ phone.connected = (link # "down")
      /\ ~phone.screen /\ phone.connected
      /\ task[s].kind = "open" \/ task[s].pc = "free"
      /\ GoesOn(s, o, rest) /\ sent' = sent /\ raced' = raced /\ doubted' = doubted
      /\ link' = link /\ mishaps' = mishaps /\ wandered' = wandered
  BY DEF Sound, Typed, PhoneTypeOK, Pages, Returns, FreeSlot
<1>2. /\ p \in Pages /\ p.connected = phone.connected /\ p.entered = phone.entered
      /\ p.pending = Adopted(phone) /\ p.stored = phone.stored /\ p.composer = phone.composer
  BY <1>1 DEF Shown, Pages, Adopted
<1>3. /\ k \in Tasks /\ k.kind = "open" /\ k.m = NoMsg /\ k.flag = phone.listed
  <2>1. phone.listed \in BOOLEAN
    BY <1>1 DEF Pages
  <2> QED BY <2>1 DEF Free, Tasks, TaskPcs, TaskKinds, SomeMsg, SomeTurn, NoTurn
<1> HIDE DEF k
<1> DEFINE k2 == [k EXCEPT !.pc = "open"]
<1>30. k2 \in Tasks /\ k2.pc = "open" /\ k2.kind = "open" /\ k2.m = NoMsg /\ k2.flag = phone.listed
  BY <1>3 DEF Tasks, TaskPcs
<1>4. TaskSound(k2) /\ ~AtWork(k2)
  BY <1>30 DEF TaskSound, AtWork, Sender, SenderPcs
<1>5. "open" \in TaskPcs \ Unawaited
  BY DEF TaskPcs, Unawaited
<1>6. Resting(s, rest)
  BY Disowned
<1> HIDE DEF p, rest
<1>7. GoesWell(p, o) /\ o.q # <<>> /\ o.p = p /\ o.k = k2
  <2>1. OpAt("open") = "page" /\ Where(p) = Where(p)
    BY OpsAt
  <2> QED BY <1>2, <1>3, <1>4, <1>5, <2>1, CallsWell
<1> HIDE DEF o, k2
<1>8. Advances(s, p, o, rest)
  BY <1>1, <1>2, <1>6, <1>7, GoesOnAdvances
<1>9. /\ phone' = p /\ task' \in [Slots -> Tasks]
      /\ task'[s] = o.k /\ \A r \in Slots \ {s} : task'[r] = task[r]
  BY <1>7, <1>8, AdvanceSound DEF Advances
<1>10. {p.pending, p.stored, p.composer} \subseteq Held \cup {NoMsg}
  BY <1>2 DEF Held, Adopted
<1>11. Held' \subseteq Held
  BY <1>1, <1>4, <1>7, <1>9, <1>10, HeldAfter
<1>12. /\ Held' \subseteq sent' /\ sent \subseteq sent' /\ sent' \subseteq Msgs /\ Doubtful' \subseteq sent' /\ wandered' \subseteq sent'
       /\ mishaps' \subseteq Mishaps
  BY <1>1, <1>11 DEF Typed, Doubtful
<1>13. o.k.kind # "send"
  BY <1>30, <1>7
<1>14. Sound' /\ Heard \subseteq Heard'
  BY <1>8, <1>12, <1>13, SoundAfter
<1>15. task[s] = Free \/ task[s].kind = "open"
  BY <1>1 DEF Typed, TaskSound
<1> QED BY <1>1, <1>30, <1>7, <1>8, <1>9, <1>11, <1>14, <1>15 DEF p, rest

----
(* What was sent is kept, step by step. *)
LEMMA OneStays ==
  ASSUME OneAtATime, Held' \subseteq Held, raced \subseteq raced'
  PROVE  OneAtATime'
BY DEF OneAtATime

LEMMA MovedKeeps ==
  ASSUME Sound, Keeping, NEW s \in Slots, NEW o, NEW rest, Advances(s, phone, o, rest),
         Moves(phone, task[s], o),
         Races, doubted' \subseteq doubted \cup Held,
         sent' = sent, wandered' = wandered, mishaps' \subseteq Mishaps
  PROVE  Keeping'
<1> DEFINE k == task[s]
           a == phone.pending
           b == phone.stored
           c == phone.composer
           a2 == phone'.pending
           b2 == phone'.stored
           c2 == phone'.composer
           clear == wandered \cup raced' \cup Heard'
           H == Held \cup {NoMsg}
<1>1. /\ Held' \subseteq Held /\ Alone' /\ raced \subseteq raced' /\ Heard \subseteq Heard' /\ Sound'
  BY MovedSound
<1>2. /\ phone' = o.p /\ task'[s] = o.k /\ \A r \in Slots \ {s} : task'[r] = task[r]
      /\ phone'.screen = phone.screen /\ phone'.entered = phone.entered
      /\ o.q = <<>> => o.k = Free
      /\ TaskSound(o.k)
  BY AdvanceSound DEF Advances, GoesWell, Where
<1>3. /\ a \in H /\ b \in H /\ c \in H /\ (AtWork(k) => k.m \in Held /\ k.m # NoMsg)
      /\ \A r \in Slots : TaskSound(task[r]) /\ (AtWork(task[r]) => task[r].m \in Held /\ task[r].m # NoMsg)
      /\ Sender(k) => AtWork(k)
      /\ k.pc = "settle" => AtWork(k)
      /\ TaskSound(k)
  BY PhoneAssumption DEF Sound, Typed, TaskSound, Held, AtWork
<1>4. /\ a # NoMsg => b # NoMsg
      /\ \A r \in Slots : Sender(task[r]) /\ task[r].m \notin raced => a = task[r].m
      /\ \A r \in Slots : task[r].pc = "settle" => task[r].m \in {a, c} \cup Unclear
      /\ phone.entered /\ a = NoMsg /\ b # NoMsg => b \in {c} \cup Unclear
      /\ ~phone.screen => a \in wandered \cup {NoMsg} /\ b \in wandered \cup {NoMsg}
                          /\ \A r \in Slots : task[r].m \in wandered \cup {NoMsg}
  BY DEF Keeping, Holding, Away
<1>5. \A x, y \in Held : x # y => x \in raced' /\ y \in raced'
  BY <1>1 DEF Keeping, OneAtATime
<1>6. \A m \in sent \ (wandered \cup raced') : m \in Heard' \/ m \in {a, b, c}
  BY <1>1 DEF Keeping, SentIsKept, Kept, Heard, Sound, Typed
<1>7. \A r \in Slots : r # s /\ Sender(task[r]) /\ AtWork(k) => task[r].m \in raced'
  BY <1>1 DEF Keeping, Alone
<1>8. Unclear \subseteq clear /\ clear = Unclear'
  BY <1>1 DEF Unclear
<1>9. OneAtATime'
  BY <1>1, OneStays DEF Keeping
<1>10. \A r \in Slots : r # s /\ Sender(task[r]) /\ task'[s].pc = "settle" => task[r].m \in raced'
  BY <1>1, <1>2 DEF Alone, AtWork
<1>11. NoMsg \notin Held /\ sent \subseteq Msgs /\ NoMsg \notin Msgs
  BY PhoneAssumption DEF Held, Sound, Typed
<1>12. ~Sender(Free) /\ Free.pc # "settle" /\ Free.m = NoMsg
  BY DEF Sender, Free
<1> DEFINE Goal ==
       /\ a2 # NoMsg => b2 # NoMsg
       /\ \A r \in Slots : Sender(task'[r]) /\ task'[r].m \notin raced' => a2 = task'[r].m
       /\ \A r \in Slots : task'[r].pc = "settle" => task'[r].m \in {a2, c2} \cup clear
       /\ phone.entered /\ a2 = NoMsg /\ b2 # NoMsg => b2 \in {c2} \cup clear
       /\ ~phone.screen => a2 \in wandered \cup {NoMsg} /\ b2 \in wandered \cup {NoMsg}
                           /\ o.k.m \in wandered \cup {NoMsg}
       /\ \A m \in sent \ (wandered \cup raced') : m \in Heard' \/ m \in {a2, b2, c2}
<1>13. ASSUME Goal PROVE Keeping'
  <2>1. Away'
    <3> SUFFICES ASSUME ~phone.screen
                 PROVE  /\ a2 \in wandered \cup {NoMsg} /\ b2 \in wandered \cup {NoMsg}
                        /\ \A r \in Slots : task'[r].m \in wandered \cup {NoMsg}
      BY <1>2 DEF Away
    <3> QED BY <1>2, <1>4, <1>13
  <2>2. Holding'
    BY <1>2, <1>8, <1>13 DEF Holding
  <2>3. SentIsKept'
    BY <1>11, <1>13 DEF SentIsKept, Kept, Heard
  <2> QED BY <1>1, <1>9, <2>1, <2>2, <2>3 DEF Keeping
<1>14. CASE Stops(phone, o) \/ Adopts(phone, o) \/ Concludes(phone, o) \/ Synchronises(phone, k, o)
  <2>1. /\ a2 \in {a, Adopted(phone)} /\ b2 = b /\ c2 = c /\ ~Sender(o.k)
        /\ o.k.m \in {NoMsg, a2} /\ (o.k.pc = "settle" => o.k.m = a2)
    <3>1. CASE Stops(phone, o) \/ Adopts(phone, o)
      BY <3>1, <1>2, <1>12 DEF Stops, Adopts, Hold
    <3>2. CASE Concludes(phone, o)
      BY <3>2, <1>2 DEF Concludes, Hold
    <3>3. CASE Synchronises(phone, k, o)
      BY <3>3, <1>2 DEF Synchronises, TaskSound, AtWork, Sender
    <3> QED BY <1>14, <3>1, <3>2, <3>3
  <2>2. a2 = a \/ (a = NoMsg /\ a2 = b)
    BY <2>1 DEF Adopted
  <2> HIDE DEF a, b, c, a2, b2, c2, k, clear, H
  <2>3. a2 # NoMsg => b2 # NoMsg
    BY <1>4, <2>1, <2>2
  <2>4. \A r \in Slots : Sender(task'[r]) /\ task'[r].m \notin raced' => a2 = task'[r].m
    <3> SUFFICES ASSUME NEW r \in Slots, Sender(task'[r]), task'[r].m \notin raced' PROVE a2 = task'[r].m
      OBVIOUS
    <3>1. r # s /\ task'[r] = task[r]
      BY <1>2, <2>1
    <3>2. a = task[r].m /\ AtWork(task[r])
      BY <1>1, <1>4, <3>1 DEF AtWork
    <3> QED BY <1>3, <2>2, <3>1, <3>2
  <2>5. \A r \in Slots : task'[r].pc = "settle" => task'[r].m \in {a2, c2} \cup clear
    <3> SUFFICES ASSUME NEW r \in Slots, task'[r].pc = "settle" PROVE task'[r].m \in {a2, c2} \cup clear
      OBVIOUS
    <3>1. CASE r = s
      BY <1>2, <2>1, <3>1
    <3>2. CASE r # s
      <4>1. task'[r] = task[r] /\ AtWork(task[r])
        BY <1>2, <3>2 DEF AtWork
      <4> QED BY <1>3, <1>4, <1>8, <2>1, <2>2, <4>1
    <3> QED BY <3>1, <3>2
  <2>6. phone.entered /\ a2 = NoMsg /\ b2 # NoMsg => b2 \in {c2} \cup clear
    BY <1>4, <1>8, <2>1, <2>2
  <2>7. ~phone.screen => a2 \in wandered \cup {NoMsg} /\ b2 \in wandered \cup {NoMsg}
                         /\ o.k.m \in wandered \cup {NoMsg}
    BY <1>4, <2>1, <2>2
  <2>8. \A m \in sent \ (wandered \cup raced') : m \in Heard' \/ m \in {a2, b2, c2}
    BY <1>6, <1>11, <2>1, <2>2
  <2>9. Goal
    BY <2>3, <2>4, <2>5, <2>6, <2>7, <2>8 DEF a2, b2, c2, clear
  <2> QED BY <1>13, <2>9
<1>15. CASE AtWork(k) /\ k.m \in Heard /\ Clears(phone, o)
  <2>1. a2 = NoMsg /\ b2 = NoMsg /\ c2 = c /\ o.k = Free
    BY <1>2, <1>15 DEF Clears, Hold
  <2> HIDE DEF a, b, c, a2, b2, c2, k, clear, H
  <2>2. k.m \in Heard' /\ k.m \in Held
    BY <1>1, <1>3, <1>15
  <2>3. \A r \in Slots : Sender(task'[r]) => task'[r].m \in raced'
    BY <1>2, <1>7, <1>12, <1>15, <2>1
  <2>4. \A x \in Held : x \in raced' \cup Heard'
    BY <1>5, <2>2
  <2>5. raced' \cup Heard' \subseteq clear
    BY DEF clear
  <2>6. \A r \in Slots : task'[r].pc = "settle" => task'[r].m \in {a2, c2} \cup clear
    BY <1>2, <1>3, <1>12, <2>1, <2>4, <2>5 DEF AtWork
  <2>7. \A m \in sent \ (wandered \cup raced') : m \in Heard' \/ m \in {a2, b2, c2}
    BY <1>3, <1>6, <1>11, <2>4 DEF H
  <2>8. Goal
    BY <1>12, <2>1, <2>3, <2>6, <2>7 DEF a2, b2, c2, clear
  <2> QED BY <1>13, <2>8
<1>16. CASE AtWork(k) /\ \E m \in {a, k.m} : GivesBack(phone, m, o)
  <2>1. PICK m \in {a, k.m} : GivesBack(phone, m, o)
    BY <1>16
  <2>2. a2 = NoMsg /\ b2 = NoMsg /\ c2 = (IF phone.screen THEN m ELSE c) /\ o.k = Free /\ m # NoMsg
    BY <1>2, <2>1 DEF GivesBack, Hold
  <2> HIDE DEF a, b, c, a2, b2, c2, k, clear, H
  <2>3. m \in Held
    BY <1>3, <1>16, <2>2 DEF H
  <2>4. \A r \in Slots : Sender(task'[r]) => task'[r].m \in raced'
    BY <1>2, <1>7, <1>12, <1>16, <2>2
  <2>5. \A x \in Held : x \in raced' \cup wandered \cup {c2}
    <3>1. \A x \in Held : x # m => x \in raced'
      BY <1>5, <2>3
    <3>2. m \in wandered \cup {c2}
      <4>1. ~phone.screen => m \in wandered
        BY <1>4, <2>2, <2>1 DEF k
      <4> QED BY <2>2, <4>1
    <3> QED BY <3>1, <3>2
  <2>6. raced' \cup wandered \subseteq clear
    BY DEF clear
  <2>7. \A r \in Slots : task'[r].pc = "settle" => task'[r].m \in {a2, c2} \cup clear
    BY <1>2, <1>3, <1>12, <2>2, <2>5, <2>6 DEF AtWork
  <2>8. \A x \in sent \ (wandered \cup raced') : x \in Heard' \/ x \in {a2, b2, c2}
    BY <1>3, <1>6, <1>11, <2>5 DEF H
  <2>9. Goal
    BY <1>12, <2>2, <2>4, <2>7, <2>8 DEF a2, b2, c2, clear
  <2> QED BY <1>13, <2>9
<1>17. CASE AtWork(k) /\ Sender(k) /\ SendsOn(phone, k, o)
  <2>1. a2 = a /\ c2 = c /\ b2 \in {b, o.k.m} /\ o.k.m \in {k.m, a} /\ Sender(o.k) /\ o.k.pc # "settle"
        /\ o.k.m # NoMsg
    BY <1>2, <1>17, PhoneAssumption DEF SendsOn, TaskSound, SenderPcs, AtWork
  <2> HIDE DEF a, b, c, a2, b2, c2, k, clear, H
  <2>2. o.k.m \in Held /\ (o.k.m \notin raced' => a = o.k.m)
    BY <1>1, <1>3, <1>4, <1>17, <2>1 DEF H, k
  <2>3. \A r \in Slots : Sender(task'[r]) /\ task'[r].m \notin raced' => a2 = task'[r].m
    BY <1>1, <1>2, <1>4, <2>1, <2>2
  <2>4. \A r \in Slots : task'[r].pc = "settle" => task'[r].m \in {a2, c2} \cup clear
    BY <1>2, <1>4, <1>8, <2>1
  <2>5. raced' \cup wandered \subseteq clear
    BY DEF clear
  <2>6. phone.entered /\ a2 = NoMsg /\ b2 # NoMsg => b2 \in {c2} \cup clear
    BY <1>4, <1>8, <2>1, <2>2, <2>5
  <2>7. ~phone.screen => a2 \in wandered \cup {NoMsg} /\ b2 \in wandered \cup {NoMsg}
                         /\ o.k.m \in wandered \cup {NoMsg}
    BY <1>4, <2>1 DEF k
  <2>8. \A m \in sent \ (wandered \cup raced') : m \in Heard' \/ m \in {a2, b2, c2}
    <3> SUFFICES ASSUME NEW m \in sent \ (wandered \cup raced') PROVE m \in Heard' \/ m \in {a2, b2, c2}
      OBVIOUS
    <3>1. m \in Heard' \/ m \in {a, b, c}
      BY <1>6
    <3>2. CASE m = b /\ b2 = o.k.m
      BY <1>3, <1>5, <1>11, <2>2, <3>2 DEF H
    <3> QED BY <2>1, <3>1, <3>2
  <2>9. a2 # NoMsg => b2 # NoMsg
    BY <1>4, <2>1
  <2>10. Goal
    BY <2>3, <2>4, <2>6, <2>7, <2>8, <2>9 DEF a2, b2, c2, clear
  <2> QED BY <1>13, <2>10
<1>18. CASE k.pc = "settle" /\ Stores(phone, k.m, o)
  <2>1. a2 = a /\ c2 = c /\ b2 = k.m /\ o.k = Free
    BY <1>2, <1>18 DEF Stores, Hold
  <2> HIDE DEF a, b, c, a2, b2, c2, k, clear, H
  <2>2. k.m \in Held /\ k.m # NoMsg /\ k.m \in {a, c} \cup clear
    BY <1>3, <1>4, <1>8, <1>18 DEF k
  <2>3. \A r \in Slots : Sender(task'[r]) /\ task'[r].m \notin raced' => a2 = task'[r].m
    BY <1>1, <1>2, <1>4, <1>12, <2>1
  <2>4. \A r \in Slots : task'[r].pc = "settle" => task'[r].m \in {a2, c2} \cup clear
    BY <1>2, <1>4, <1>8, <1>12, <2>1
  <2>5. \A m \in sent \ (wandered \cup raced') : m \in Heard' \/ m \in {a2, b2, c2}
    <3> SUFFICES ASSUME NEW m \in sent \ (wandered \cup raced') PROVE m \in Heard' \/ m \in {a2, b2, c2}
      OBVIOUS
    <3>1. m \in Heard' \/ m \in {a, b, c}
      BY <1>6
    <3>2. CASE m = b
      BY <1>3, <1>5, <1>11, <2>1, <2>2, <3>2 DEF H
    <3> QED BY <2>1, <3>1, <3>2
  <2>6. phone.entered /\ a2 = NoMsg /\ b2 # NoMsg => b2 \in {c2} \cup clear
    BY <2>1, <2>2
  <2>7. ~phone.screen => a2 \in wandered \cup {NoMsg} /\ b2 \in wandered \cup {NoMsg}
                         /\ o.k.m \in wandered \cup {NoMsg}
    BY <1>4, <1>12, <2>1 DEF k
  <2>8. Goal
    BY <2>1, <2>2, <2>3, <2>4, <2>5, <2>6, <2>7 DEF a2, b2, c2, clear
  <2> QED BY <1>13, <2>8
<1> QED BY <1>14, <1>15, <1>16, <1>17, <1>18 DEF Moves

LEMMA SendsKeeps ==
  ASSUME Sound, Keeping, NEW s \in Slots, NEW m \in Msgs, Sends(s, m)
  PROVE  Keeping'
<1>1. /\ Sound' /\ Heard \subseteq Heard' /\ Alone' /\ Held' \subseteq Held \cup {m}
      /\ raced \subseteq raced'
      /\ sent' = sent \cup {m} /\ wandered' = wandered
      /\ IF phone.composer = NoMsg THEN m \notin sent ELSE m = phone.composer
      /\ \A r \in Slots \ {s} : task'[r] = task[r]
      /\ phone.pending = NoMsg /\ phone.screen /\ phone'.screen /\ phone.entered
  BY SendsSound
<1>2. PICK o : /\ Advances(s, phone, o, down) /\ Sender(o.k) /\ o.k.m = m
               /\ phone'.pending = m /\ phone'.stored = m /\ phone'.composer = NoMsg
               /\ task'[s] = o.k
  BY SendsSound
<1>3. m # NoMsg /\ NoMsg \notin Held /\ sent \subseteq Msgs /\ Held \subseteq sent /\ NoMsg \notin Msgs
  BY PhoneAssumption DEF Held, Sound, Typed
<1>4. \A r \in Slots \ {s} : AtWork(task[r]) => task[r].m \in raced' /\ m \in raced'
  BY <1>1, <1>2 DEF Alone, AtWork
<1>5. \A x \in Held : x # m => x \notin Held' \/ (x \in raced' /\ m \in raced')
  <2> SUFFICES ASSUME NEW x \in Held, x # m, x \in Held' PROVE x \in raced' /\ m \in raced'
    OBVIOUS
  <2>1. \E r \in Slots : AtWork(task'[r]) /\ task'[r].m = x
    BY <1>2, <1>3 DEF Held
  <2> QED BY <1>1, <1>2, <1>4, <2>1
<1>6. OneAtATime'
  <2> SUFFICES ASSUME NEW x \in Held', NEW y \in Held', x # y PROVE x \in raced' /\ y \in raced'
    BY DEF OneAtATime
  <2>1. CASE x = m \/ y = m
    BY <1>1, <1>5, <2>1
  <2>2. CASE x # m /\ y # m
    BY <1>1, <1>5, <2>2
  <2> QED BY <2>1, <2>2
<1>7. Away'
  BY <1>1 DEF Away
<1>8. Holding'
  <2>1. \A r \in Slots : Sender(task'[r]) /\ task'[r].m \notin raced' => m = task'[r].m
    BY <1>1, <1>2, <1>4 DEF AtWork
  <2>2. \A r \in Slots : task'[r].pc = "settle" => task'[r].m \in {m} \cup raced'
    BY <1>1, <1>2, <1>4 DEF AtWork
  <2> QED BY <1>2, <1>3, <2>1, <2>2 DEF Holding, Unclear
<1>9. SentIsKept'
  <2> SUFFICES ASSUME NEW x \in (sent \cup {m}) \ (wandered \cup raced'), x # m
               PROVE  x \in Heard'
    BY <1>1, <1>2, <1>3 DEF SentIsKept, Kept, Heard
  <2>1. x \in sent \ (wandered \cup raced) /\ x \in Msgs
    BY <1>1, <1>3
  <2>2. x \in Heard \/ x \in {phone.pending, phone.stored, phone.composer}
    BY <2>1 DEF Keeping, SentIsKept, Kept, Heard
  <2>3. CASE x = phone.composer
    BY <1>1, <1>3, <2>1, <2>3
  <2>4. CASE x = phone.stored /\ x # phone.composer
    <3>1. x \in Heard \cup {phone.composer}
      BY <1>1, <1>3, <2>1, <2>4 DEF Keeping, Holding, Unclear
    <3> QED BY <1>1, <2>4, <3>1
  <2> QED BY <1>1, <1>3, <2>1, <2>2, <2>3, <2>4
<1> QED BY <1>1, <1>6, <1>7, <1>8, <1>9 DEF Keeping

(* A step that leaves submissions and their tasks alone, or lets go of a   *)
(* pause or of some tasks, and takes up no other submission than the       *)
(* stored one.                                                             *)
Calms ==
  /\ \A r \in Slots : task'[r] = task[r] \/ (~AtWork(task'[r]) /\ task'[r].m = NoMsg)
  /\ Hold(phone') \in {Hold(phone), <<Adopted(phone), phone.stored, phone.composer>>}
  /\ sent' = sent /\ raced \subseteq raced' /\ Doubtful \subseteq Doubtful'
  /\ wandered \subseteq wandered'
  /\ Heard \subseteq Heard'

LEMMA CalmHeld ==
  ASSUME Typed, Calms
  PROVE  Held' \subseteq Held
<1>1. {phone'.pending, phone'.stored, phone'.composer} \subseteq {phone.pending, phone.stored, phone.composer}
  BY DEF Calms, Hold, Adopted
<1> QED BY <1>1 DEF Held, Calms

LEMMA CalmKeeps ==
  ASSUME Sound, Keeping, Calms, NoMsg \notin Held,
         phone'.entered => phone.entered \/ phone'.pending # NoMsg \/ phone'.stored = NoMsg
                             \/ phone.stored \in wandered',
         ~phone'.screen => ~phone.screen \/
           ({phone.pending, phone.stored} \cup {task[s].m : s \in Slots}) \ {NoMsg} \subseteq wandered'
  PROVE  Keeping'
<1>1. /\ phone'.pending \in {phone.pending, Adopted(phone)} /\ phone'.stored = phone.stored
      /\ phone'.composer = phone.composer
  BY DEF Calms, Hold
<1>2. phone'.pending = phone.pending \/ (phone.pending = NoMsg /\ phone'.pending = phone.stored)
  BY <1>1 DEF Adopted
<1>3. Held' \subseteq Held
  BY CalmHeld DEF Sound
<1>4. \A r \in Slots : AtWork(task'[r]) => task'[r] = task[r] /\ AtWork(task[r])
  BY DEF Calms
<1>5. OneAtATime'
  BY <1>3, OneStays DEF Keeping, Calms
<1>6. Alone'
  BY <1>4 DEF Keeping, Calms, Alone, AtWork
<1>7. Unclear \subseteq Unclear'
  BY DEF Unclear, Calms
<1>8. Away'
  <2> SUFFICES ASSUME ~phone'.screen
               PROVE  /\ {phone'.pending, phone'.stored} \subseteq wandered' \cup {NoMsg}
                      /\ \A r \in Slots : task'[r].m \in wandered' \cup {NoMsg}
    BY DEF Away
  <2>1. /\ {phone.pending, phone.stored} \subseteq wandered' \cup {NoMsg}
        /\ \A r \in Slots : task[r].m \in wandered' \cup {NoMsg}
    <3>1. CASE ~phone.screen
      BY <3>1 DEF Keeping, Away, Calms
    <3>2. CASE phone.screen
      BY <3>2
    <3> QED BY <3>1, <3>2
  <2> QED BY <1>1, <1>2, <2>1 DEF Calms
<1>9. Holding'
  <2>1. phone'.pending # NoMsg => phone'.stored # NoMsg
    BY <1>1, <1>2 DEF Keeping, Holding
  <2>2. \A r \in Slots : AtWork(task[r]) => task[r].m # NoMsg
    BY PhoneAssumption DEF Sound, Typed, TaskSound
  <2>3. \A r \in Slots : Sender(task'[r]) /\ task'[r].m \notin raced' => phone'.pending = task'[r].m
    BY <1>2, <1>4, <2>2 DEF Keeping, Holding, Calms, AtWork
  <2>4. \A r \in Slots : task'[r].pc = "settle" =>
          task'[r].m \in {phone'.pending, phone'.composer} \cup Unclear'
    BY <1>1, <1>2, <1>4, <1>7, <2>2 DEF Keeping, Holding, AtWork
  <2>5. phone'.entered /\ phone'.pending = NoMsg /\ phone'.stored # NoMsg =>
          phone'.stored \in {phone'.composer} \cup Unclear'
    BY <1>1, <1>2, <1>7 DEF Keeping, Holding, Unclear
  <2> QED BY <2>1, <2>3, <2>4, <2>5 DEF Holding
<1>10. SentIsKept'
  <2>1. Keeping /\ SentIsKept /\ sent \subseteq Msgs
    BY DEF Keeping, Sound, Typed
  <2> SUFFICES ASSUME NEW m \in sent \ (wandered' \cup raced')
               PROVE  m \in Heard' \/ m \in {phone'.pending, phone'.stored, phone'.composer}
    BY DEF SentIsKept, Kept, Heard, Calms
  <2>2. m \in Heard \/ m \in {phone.pending, phone.stored, phone.composer}
    BY <2>1 DEF SentIsKept, Kept, Heard, Calms
  <2>3. m # NoMsg
    BY <2>1, PhoneAssumption
  <2> QED BY <1>1, <1>2, <2>2, <2>3 DEF Calms
<1> QED BY <1>5, <1>6, <1>8, <1>9, <1>10 DEF Keeping

----
(* The other steps. *)
LEMMA FitsMore ==
  ASSUME NEW x, Fits(x, task, Heard), Heard \subseteq Heard', task' = task
  PROVE  Fits(x, task', Heard')
BY DEF Fits

(* What only Codex does. *)
LEMMA CodexSound ==
  ASSUME Sound, UNCHANGED <<phone, task, link, mishaps, sent, raced, doubted, wandered>>,
         down' \in Seq(Notes \cup Replies), late' \in Seq(Requests), link = "down" => down' = <<>>,
         codex' \in Threads, codex'.turn \in {NoTurn, codex'.last}, Heard \subseteq Heard',
         AnswersSound', late' = late \/ (late # <<>> /\ late' = Tail(late))
  PROVE  Sound' /\ Calms
<1>1. Held' = Held /\ Doubtful' = Doubtful /\ raced' = raced
  BY DEF Held, Doubtful
<1>2. PhoneTypeOK' /\ \A r \in Slots : TaskSound(task'[r])
  BY DEF Sound, Typed, PhoneTypeOK
<1>3. codex' \in [turn : SomeTurn, last : SomeTurn, told : [Msgs -> Nat]]
  BY DEF Threads
<1>4. Typed'
  BY <1>1, <1>2, <1>3 DEF Sound, Typed
<1>5. Calms
  BY <1>1 DEF Calms, Hold
<1>6. LateSent'
  <2>1. late \in Seq(Requests) /\ LateSent
    BY DEF Sound, Typed
  <2>2. CASE late' = late
    BY <2>1, <2>2 DEF LateSent
  <2>3. CASE late' # late
    <3>1. late # <<>> /\ late' = Tail(late)
      BY <2>3
    <3>2. \A i \in DOMAIN late' : i + 1 \in DOMAIN late /\ late'[i] = late[i + 1]
      BY <2>1, <3>1
    <3> QED BY <2>1, <3>2 DEF LateSent
  <2> QED BY <2>2, <2>3
<1> QED BY <1>4, <1>5, <1>6 DEF Sound

LEMMA LateSoundly ==
  ASSUME Sound, LateArrives
  PROVE  /\ Sound' /\ Calms /\ late # <<>> /\ Head(late) \in Requests /\ late' = Tail(late)
         /\ Handled(Head(late), NoSlot, down)
<1> DEFINE r == Head(late)
<1>1. /\ Typed /\ late # <<>> /\ late \in Seq(Requests) /\ down \in Seq(Notes \cup Replies)
      /\ late' = Tail(late) /\ Handle(r, NoSlot, down)
      /\ UNCHANGED <<phone, task, link, mishaps, sent, raced, doubted, wandered>>
  BY DEF Sound, Typed, LateArrives
<1>2. r \in Requests /\ late' \in Seq(Requests)
  BY <1>1, HeadTailProperties
<1> HIDE DEF r
<1>3. Handled(r, NoSlot, down)
  BY <1>1, <1>2, Handles
<1>4. PICK a \in Replies, n \in Notes : \E q \in {<<a>>, <<a, n>>} :
         /\ a.of = r.op /\ a.slot = NoSlot
         /\ a.has = IF r.op = "page" THEN Heard ELSE {}
         /\ down' = IF link = "up" THEN down \o q ELSE down
         /\ Begins(r, a, n, q) \/ Joins(r, a, q) \/ Refuses(r, a, q) \/ Tells(r, a, q)
         /\ codex' \in Threads /\ codex'.turn \in {NoTurn, codex'.last}
  BY <1>3 DEF Handled
<1>5. PICK q \in {<<a>>, <<a, n>>} :
         /\ a.of = r.op /\ a.slot = NoSlot
         /\ a.has = IF r.op = "page" THEN Heard ELSE {}
         /\ down' = IF link = "up" THEN down \o q ELSE down
         /\ Begins(r, a, n, q) \/ Joins(r, a, q) \/ Refuses(r, a, q) \/ Tells(r, a, q)
         /\ codex' \in Threads /\ codex'.turn \in {NoTurn, codex'.last}
  BY <1>4
<1>6. Heard \subseteq Heard'
  BY <1>1, <1>2, <1>5, HearsOf
<1>7. /\ \A i \in DOMAIN down : Fits(down[i], task', Heard')
      /\ OneAnswerEach(down)
  BY <1>1, <1>6, FitsMore DEF Sound, AnswersSound
<1>8. Fits(a, task', Heard') /\ Fits(n, task', Heard') /\ n.slot = NoSlot
  <2>1. a.has \subseteq Heard'
    BY <1>5, <1>6
  <2> QED BY <1>5, <2>1 DEF Fits, Notes
<1>9. CASE link = "up"
  <2>1. /\ down' \in Seq(Notes \cup Replies)
        /\ \A i \in DOMAIN down' :
             \/ i \in DOMAIN down /\ down'[i] = down[i]
             \/ i = Len(down) + 1 /\ down'[i] = a
             \/ i = Len(down) + 2 /\ down'[i] = n
    <3>1. down' = down \o q
      BY <1>5, <1>9
    <3>2. Continues(down \o q, down, a, n, q)
      BY <1>1, AnswersAtTheEnd
    <3> QED BY <3>1, <3>2 DEF Continues
  <2>2. \A i \in DOMAIN down' : Fits(down'[i], task', Heard')
    BY <1>7, <1>8, <2>1
  <2>3. OneAnswerEach(down')
    <3> SUFFICES ASSUME NEW i \in DOMAIN down', NEW j \in DOMAIN down',
                        down'[i].slot = down'[j].slot, down'[i].slot # NoSlot
                 PROVE  i = j
      BY DEF OneAnswerEach
    <3>1. a.slot = NoSlot
      BY <1>5
    <3>2. i \in DOMAIN down /\ down'[i] = down[i] /\ j \in DOMAIN down /\ down'[j] = down[j]
      BY <1>8, <2>1, <3>1
    <3> QED BY <1>7, <3>2 DEF OneAnswerEach
  <2>4. AnswersSound'
    BY <2>2, <2>3 DEF AnswersSound
  <2>5. down' \in Seq(Notes \cup Replies) /\ (link = "down" => down' = <<>>)
    BY <1>9, <2>1
  <2>6. Sound' /\ Calms
    BY <1>1, <1>2, <1>5, <1>6, <2>4, <2>5, CodexSound
  <2> QED BY <1>1, <1>2, <1>3, <2>6 DEF r
<1>10. CASE link # "up"
  <2>1. down' = down
    BY <1>5, <1>10
  <2>2. link = "down" => down' = <<>>
    BY <1>1, <2>1 DEF Typed
  <2> QED BY <1>1, <1>2, <1>3, <1>5, <1>6, <1>7, <2>1, <2>2, CodexSound DEF AnswersSound, r
<1> QED BY <1>9, <1>10

(* A note put into the queue. *)
Insert(d, n, i) == SubSeq(d, 1, i) \o <<n>> \o SubSeq(d, i + 1, Len(d))

Grows(d, n, i) ==
  LET e == Insert(d, n, i) IN
  /\ e \in Seq(Notes \cup Replies) /\ Len(e) = Len(d) + 1
  /\ DOMAIN e = 1 .. (Len(d) + 1) /\ DOMAIN d = 1 .. Len(d)
  /\ \A j \in 1 .. i : e[j] = d[j]
  /\ e[i + 1] = n
  /\ \A j \in (i + 2) .. (Len(d) + 1) : e[j] = d[j - 1]
  /\ DOMAIN SubSeq(d, i + 1, Len(d)) = 1 .. (Len(d) - i)
  /\ \A j \in 1 .. (Len(d) - i) : SubSeq(d, i + 1, Len(d))[j] = d[i + j]

LEMMA Inserted ==
  ASSUME NEW d \in Seq(Notes \cup Replies), NEW n \in Notes, NEW i \in 0 .. Len(d)
  PROVE  Grows(d, n, i)
<1> DEFINE T == Notes \cup Replies
           u == SubSeq(d, 1, i)
           v == SubSeq(d, i + 1, Len(d))
           e == Insert(d, n, i)
<1>1. Len(d) \in Nat /\ i \in Nat /\ i <= Len(d)
  BY LenProperties
<1>2. u \in Seq(T) /\ Len(u) = i /\ \A j \in 1 .. i : u[j] = d[j]
  <2>1. \A j \in 1 .. i : d[j] \in T
    BY <1>1
  <2>2. u = [j \in 1 .. i |-> d[j]]
    BY <1>1
  <2> QED BY <1>1, <2>1, <2>2
<1>3. v \in Seq(T) /\ Len(v) = Len(d) - i /\ \A j \in 1 .. (Len(d) - i) : v[j] = d[i + j]
  <2>1. \A j \in 1 .. (Len(d) - i) : d[i + j] \in T
    BY <1>1
  <2>2. v = [j \in 1 .. (Len(d) - i) |-> d[i + j]]
    BY <1>1
  <2>3. Len(d) - i \in Nat
    BY <1>1
  <2> HIDE DEF v
  <2> QED BY <2>1, <2>2, <2>3
<1> HIDE DEF u, v
<1>4. u \o <<n>> \in Seq(T) /\ Len(u \o <<n>>) = i + 1
      /\ (\A j \in 1 .. i : (u \o <<n>>)[j] = d[j]) /\ (u \o <<n>>)[i + 1] = n
  <2>1. <<n>> \in Seq(T) /\ Len(<<n>>) = 1 /\ <<n>>[1] = n
    OBVIOUS
  <2>2. /\ u \o <<n>> \in Seq(T) /\ Len(u \o <<n>>) = Len(u) + 1
        /\ \A j \in 1 .. (Len(u) + 1) : (u \o <<n>>)[j] = IF j <= Len(u) THEN u[j] ELSE <<n>>[j - Len(u)]
    BY <1>2, <2>1, ConcatProperties
  <2> HIDE DEF T
  <2> QED BY <1>1, <1>2, <2>1, <2>2
<1> DEFINE w == u \o <<n>>
<1> HIDE DEF w
<1>5. w \in Seq(T) /\ Len(w) = i + 1 /\ (\A j \in 1 .. i : w[j] = d[j]) /\ w[i + 1] = n
  BY <1>4 DEF w
<1>6. /\ w \o v \in Seq(T) /\ Len(w \o v) = Len(w) + Len(v)
      /\ \A j \in 1 .. (Len(w) + Len(v)) : (w \o v)[j] = IF j <= Len(w) THEN w[j] ELSE v[j - Len(w)]
  BY <1>3, <1>5, ConcatProperties
<1>70. e = w \o v
  BY DEF w, u, v, Insert
<1> HIDE DEF e
<1>7. e \in Seq(T) /\ Len(e) = Len(d) + 1
      /\ \A j \in 1 .. (Len(d) + 1) : e[j] = IF j <= i + 1 THEN w[j] ELSE v[j - (i + 1)]
  <2>1. e \in Seq(T) /\ Len(e) = (i + 1) + (Len(d) - i)
        /\ \A j \in 1 .. ((i + 1) + (Len(d) - i)) : e[j] = IF j <= i + 1 THEN w[j] ELSE v[j - (i + 1)]
    BY <1>3, <1>5, <1>6, <1>70
  <2>2. (i + 1) + (Len(d) - i) = Len(d) + 1
    BY <1>1
  <2> QED BY <2>1, <2>2
<1>8. DOMAIN e = 1 .. (Len(d) + 1) /\ DOMAIN d = 1 .. Len(d) /\ DOMAIN v = 1 .. (Len(d) - i)
  BY <1>3, <1>7, LenProperties
<1>9. \A j \in 1 .. i : e[j] = d[j]
  <2> SUFFICES ASSUME NEW j \in 1 .. i PROVE e[j] = d[j]
    OBVIOUS
  <2>1. j \in 1 .. (Len(d) + 1) /\ j <= i + 1
    BY <1>1
  <2> QED BY <1>5, <1>7, <2>1
<1>10. e[i + 1] = n
  <2>1. i + 1 \in 1 .. (Len(d) + 1) /\ i + 1 <= i + 1
    BY <1>1
  <2> QED BY <1>5, <1>7, <2>1
<1>11. \A j \in (i + 2) .. (Len(d) + 1) : e[j] = d[j - 1]
  <2> SUFFICES ASSUME NEW j \in (i + 2) .. (Len(d) + 1) PROVE e[j] = d[j - 1]
    OBVIOUS
  <2>1. j - (i + 1) \in 1 .. (Len(d) - i) /\ j \in 1 .. (Len(d) + 1) /\ ~(j <= i + 1)
        /\ i + (j - (i + 1)) = j - 1
    BY <1>1
  <2> QED BY <1>3, <1>7, <2>1
<1> QED BY <1>3, <1>7, <1>8, <1>9, <1>10, <1>11 DEF v, e, Grows

LEMMA NotesAre ==
  ASSUME NEW op \in {"started", "completed", "error"}, NEW turn \in SomeTurn
  PROVE  Note(op, turn) \in Notes /\ Note(op, turn).op = op /\ Note(op, turn).turn = turn
         /\ Note(op, turn).slot = NoSlot
BY DEF Note, Notes, NoSlot

LEMMA InsertedSound ==
  ASSUME Sound, NEW n \in Notes, NEW i \in 0 .. Len(down), Heard \subseteq Heard', task' = task,
         down' = Insert(down, n, i)
  PROVE  AnswersSound' /\ down' \in Seq(Notes \cup Replies)
<1>1. /\ down \in Seq(Notes \cup Replies) /\ Len(down) \in Nat
      /\ \A j \in DOMAIN down : Fits(down[j], task', Heard')
      /\ OneAnswerEach(down)
  BY FitsMore, LenProperties DEF Sound, Typed, AnswersSound
<1>2. /\ down' \in Seq(Notes \cup Replies)
      /\ DOMAIN down' = 1 .. (Len(down) + 1) /\ DOMAIN down = 1 .. Len(down)
      /\ \A j \in 1 .. i : down'[j] = down[j]
      /\ down'[i + 1] = n
      /\ \A j \in (i + 2) .. (Len(down) + 1) : down'[j] = down[j - 1]
  <2>1. Grows(down, n, i)
    BY <1>1, Inserted
  <2> QED BY <2>1 DEF Grows
<1>3. n.slot = NoSlot /\ Fits(n, task', Heard')
  BY DEF Notes, Fits
<1>4. \A j \in DOMAIN down' :
        \/ j \in DOMAIN down /\ j <= i /\ down'[j] = down[j]
        \/ j = i + 1 /\ down'[j] = n
        \/ j - 1 \in DOMAIN down /\ j > i + 1 /\ down'[j] = down[j - 1]
  <2> SUFFICES ASSUME NEW j \in 1 .. (Len(down) + 1)
               PROVE  \/ j \in DOMAIN down /\ j <= i /\ down'[j] = down[j]
                      \/ j = i + 1 /\ down'[j] = n
                      \/ j - 1 \in DOMAIN down /\ j > i + 1 /\ down'[j] = down[j - 1]
    BY <1>2
  <2>1. CASE j <= i
    <3>1. j \in 1 .. i /\ j \in 1 .. Len(down)
      BY <1>1, <2>1
    <3> QED BY <1>2, <2>1, <3>1
  <2>2. CASE j = i + 1
    BY <1>2, <2>2
  <2>3. CASE j > i + 1
    <3>1. j \in (i + 2) .. (Len(down) + 1) /\ j - 1 \in 1 .. Len(down)
      BY <1>1, <2>3
    <3> QED BY <1>2, <2>3, <3>1
  <2>4. j <= i \/ j = i + 1 \/ j > i + 1
    BY <1>1
  <2> QED BY <2>1, <2>2, <2>3, <2>4
<1>5. \A j \in DOMAIN down' : Fits(down'[j], task', Heard')
  BY <1>1, <1>3, <1>4
<1>6. OneAnswerEach(down')
  <2> SUFFICES ASSUME NEW j \in DOMAIN down', NEW k \in DOMAIN down',
                      down'[j].slot = down'[k].slot, down'[j].slot # NoSlot
               PROVE  j = k
    BY DEF OneAnswerEach
  <2>1. /\ \/ j \in DOMAIN down /\ j <= i /\ down'[j] = down[j]
           \/ j - 1 \in DOMAIN down /\ j > i + 1 /\ down'[j] = down[j - 1]
        /\ \/ k \in DOMAIN down /\ k <= i /\ down'[k] = down[k]
           \/ k - 1 \in DOMAIN down /\ k > i + 1 /\ down'[k] = down[k - 1]
    BY <1>3, <1>4
  <2>2. j \in Int /\ k \in Int /\ i \in Int
    BY <1>1, <1>2
  <2>3. \A x, y \in DOMAIN down : down[x].slot = down'[j].slot /\ down[y].slot = down'[j].slot => x = y
    BY <1>1 DEF OneAnswerEach
  <2>4. j <= i => j \in DOMAIN down /\ down'[j] = down[j]
    BY <2>1, <2>2
  <2>5. j > i => j - 1 \in DOMAIN down /\ down'[j] = down[j - 1] /\ j > i + 1
    BY <2>1, <2>2
  <2>6. k <= i => k \in DOMAIN down /\ down'[k] = down[k]
    BY <2>1, <2>2
  <2>7. k > i => k - 1 \in DOMAIN down /\ down'[k] = down[k - 1] /\ k > i + 1
    BY <2>1, <2>2
  <2>8. CASE j <= i /\ k <= i
    BY <2>3, <2>4, <2>6, <2>8
  <2>9. CASE j <= i /\ k > i
    <3>1. j = k - 1
      BY <2>3, <2>4, <2>7, <2>9
    <3> QED BY <2>2, <2>7, <2>9, <3>1
  <2>10. CASE j > i /\ k <= i
    <3>1. j - 1 = k
      BY <2>3, <2>5, <2>6, <2>10
    <3> QED BY <2>2, <2>5, <2>10, <3>1
  <2>11. CASE j > i /\ k > i
    <3>1. j - 1 = k - 1
      BY <2>3, <2>5, <2>7, <2>11
    <3> QED BY <2>2, <3>1
  <2>12. (j <= i \/ j > i) /\ (k <= i \/ k > i)
    BY <2>2
  <2> QED BY <2>8, <2>9, <2>10, <2>11, <2>12
<1> QED BY <1>2, <1>5, <1>6 DEF AnswersSound

(* The types after a calm step. *)
LEMMA CalmSound ==
  ASSUME Sound, Calms, phone' \in Pages, task' \in [Slots -> Tasks],
         \A r \in Slots : TaskSound(task'[r]) /\ (task'[r].kind = "send" => task[r].kind = "send"),
         link' \in {"up", "broken", "down"}, down' \in Seq(Notes \cup Replies), late' = late,
         codex' \in Threads, codex'.turn \in {NoTurn, codex'.last}, mishaps' \subseteq Mishaps,
         Doubtful' \subseteq sent, wandered' \subseteq sent,
         phone'.connected = (link' # "down"), ~phone'.entered => ~phone'.connected,
         link' = "down" => down' = <<>> /\ \A r \in Slots : task'[r].pc \in Unawaited,
         AnswersSound'
  PROVE  Sound'
<1>1. Typed /\ sent' = sent
  BY DEF Sound, Calms
<1>2. Held' \subseteq sent'
  BY <1>1, CalmHeld DEF Typed
<1>3. PhoneTypeOK'
  BY DEF PhoneTypeOK, Pages
<1>4. codex' \in [turn : SomeTurn, last : SomeTurn, told : [Msgs -> Nat]]
  BY DEF Threads
<1>5. \A q, r \in Slots : task'[q].kind = "send" /\ task'[r].kind = "send" => q = r
  BY <1>1 DEF Typed
<1>6. sent' \subseteq Msgs /\ late' \in Seq(Requests) /\ Doubtful' \subseteq sent' /\ wandered' \subseteq sent'
  BY <1>1 DEF Typed
<1>7. LateSent'
  BY <1>1 DEF Sound, LateSent
<1> QED BY <1>2, <1>3, <1>4, <1>5, <1>6, <1>7 DEF Typed, Sound

LEMMA HeldNames ==
  NoMsg \notin Held
BY DEF Held

(* A turn of the thread ends, or there is an error of it. *)
Spoken(op) ==
  \E i \in 0 .. Len(down) :
    /\ \A j \in 1 .. (Len(down) - i) : down[i + j].of = "steer"
    /\ down' = IF link = "up" THEN Insert(down, Note(op, codex.turn), i) ELSE down

LEMMA SpokenSound ==
  ASSUME Sound, NEW op \in {"completed", "error"}, SaysOfTurn(op), Heard' = Heard, task' = task
  PROVE  /\ Spoken(op) /\ AnswersSound' /\ down' \in Seq(Notes \cup Replies)
         /\ link = "down" => down' = <<>>
<1>1. /\ Typed /\ AnswersSound /\ down \in Seq(Notes \cup Replies) /\ codex.turn \in SomeTurn
  BY DEF Sound, Typed
<1>2. PICK i \in 0 .. Len(down) :
        /\ \A j \in DOMAIN SubSeq(down, i + 1, Len(down)) :
             SubSeq(down, i + 1, Len(down))[j].of = "steer"
        /\ down' = IF link = "up" THEN Insert(down, Note(op, codex.turn), i) ELSE down
  BY DEF SaysOfTurn, Insert
<1>3. Note(op, codex.turn) \in Notes
  BY <1>1, NotesAre
<1>4. Grows(down, Note(op, codex.turn), i)
  BY <1>1, <1>3, Inserted
<1>5. \A j \in 1 .. (Len(down) - i) : down[i + j].of = "steer"
  <2> DEFINE v == SubSeq(down, i + 1, Len(down))
  <2>1. /\ DOMAIN v = 1 .. (Len(down) - i) /\ \A j \in 1 .. (Len(down) - i) : v[j] = down[i + j]
        /\ \A j \in DOMAIN v : v[j].of = "steer"
    BY <1>2, <1>4 DEF Grows
  <2> HIDE DEF v
  <2> QED BY <2>1
<1>6. Spoken(op)
  BY <1>2, <1>5 DEF Spoken
<1>7. AnswersSound' /\ down' \in Seq(Notes \cup Replies)
  <2>1. CASE link = "up"
    BY <1>1, <1>2, <1>3, <2>1, InsertedSound
  <2>2. CASE link # "up"
    <3>1. down' = down
      BY <1>2, <2>2
    <3> QED BY <1>1, <3>1 DEF AnswersSound, Fits
  <2> QED BY <2>1, <2>2
<1> QED BY <1>1, <1>2, <1>6, <1>7 DEF Typed

LEMMA TurnEndsSound ==
  ASSUME Sound, TurnEnds
  PROVE  Sound' /\ Calms /\ Spoken("completed")
<1>1. /\ codex' = [codex EXCEPT !.turn = NoTurn]
      /\ late' = late /\ late \in Seq(Requests)
      /\ UNCHANGED <<phone, task, link, mishaps, sent, raced, doubted, wandered>>
      /\ codex \in Threads /\ SaysOfTurn("completed")
  BY DEF Sound, Typed, TurnEnds, Threads
<1>2. codex' \in Threads /\ codex'.turn \in {NoTurn, codex'.last} /\ Heard' = Heard
  BY <1>1 DEF Threads, SomeTurn, Heard
<1>3. /\ Spoken("completed") /\ AnswersSound' /\ down' \in Seq(Notes \cup Replies)
      /\ link = "down" => down' = <<>>
  BY <1>1, <1>2, SpokenSound
<1> QED BY <1>1, <1>2, <1>3, CodexSound

(* A note at the end of the queue. *)
LEMMA NoteAtTheEnd ==
  ASSUME NEW d \in Seq(Notes \cup Replies), NEW n \in Notes
  PROVE  /\ d \o <<n>> \in Seq(Notes \cup Replies)
         /\ DOMAIN (d \o <<n>>) = 1 .. (Len(d) + 1) /\ DOMAIN d = 1 .. Len(d) /\ Len(d) \in Nat
         /\ \A i \in DOMAIN d : (d \o <<n>>)[i] = d[i]
         /\ (d \o <<n>>)[Len(d) + 1] = n
         /\ Len(d \o <<n>>) = Len(d) + 1
<1> DEFINE T == Notes \cup Replies
           e == Append(d, n)
<1>1. n \in T /\ d \in Seq(T)
  OBVIOUS
<1> HIDE DEF T
<1>2. d \o <<n>> = Append(d, n)
  BY <1>1
<1>3. /\ e \in Seq(T) /\ Len(e) = Len(d) + 1 /\ e[Len(d) + 1] = n
      /\ \A i \in 1 .. Len(d) : e[i] = d[i]
      /\ DOMAIN d = 1 .. Len(d) /\ Len(d) \in Nat
  BY <1>1
<1>4. DOMAIN e = 1 .. (Len(d) + 1)
  BY <1>1, <1>3
<1> HIDE DEF e
<1> QED BY <1>2, <1>3, <1>4 DEF T, e

(* Somebody at the desktop starts a turn. *)
LEMMA DesktopStartsSound ==
  ASSUME Sound, DesktopStarts
  PROVE  /\ Sound' /\ Calms
         /\ codex.turn = NoTurn /\ codex'.turn = codex.last + 1 /\ codex'.last = codex.last + 1
         /\ Note("started", codex.last + 1) \in Notes
         /\ down' = IF link = "up" THEN down \o <<Note("started", codex.last + 1)>> ELSE down
<1>1. /\ Typed /\ AnswersSound /\ codex.turn = NoTurn /\ codex.last < MaxTurns /\ codex' = Fresh(codex)
      /\ down \in Seq(Notes \cup Replies) /\ late' = late /\ late \in Seq(Requests)
      /\ UNCHANGED <<phone, task, link, mishaps, sent, raced, doubted, wandered>>
      /\ codex \in Threads
      /\ down' = IF link = "up" THEN down \o <<Note("started", codex'.turn)>> ELSE down
  BY DEF Sound, Typed, DesktopStarts, Threads, Says
<1>2. /\ codex'.turn = codex.last + 1 /\ codex'.last = codex.last + 1 /\ codex'.told = codex.told
      /\ codex' \in Threads /\ codex.last + 1 \in SomeTurn
  <2>1. codex.last \in 0 .. MaxTurns
    BY <1>1, PhoneAssumption DEF Threads, SomeTurn, Turns, NoTurn
  <2>2. codex.last + 1 \in SomeTurn
    BY <1>1, <2>1, PhoneAssumption DEF SomeTurn, Turns
  <2>3. codex' = [codex EXCEPT !.turn = codex.last + 1, !.last = codex.last + 1]
    BY <1>1 DEF Fresh
  <2> QED BY <1>1, <2>2, <2>3 DEF Threads
<1>3. Heard' = Heard
  BY <1>2 DEF Heard
<1> DEFINE n == Note("started", codex.last + 1)
<1>4. n \in Notes /\ n.slot = NoSlot /\ n.op = "started"
  BY <1>2, NotesAre
<1> HIDE DEF n
<1>5. \A i \in DOMAIN down : Fits(down[i], task', Heard')
  BY <1>1, <1>3 DEF AnswersSound
<1>6. AnswersSound' /\ down' \in Seq(Notes \cup Replies)
  <2>1. CASE link = "up"
    <3>1. down' = down \o <<n>>
      BY <1>1, <1>2, <2>1 DEF n
    <3>2. /\ down' \in Seq(Notes \cup Replies)
          /\ DOMAIN down' = 1 .. (Len(down) + 1) /\ DOMAIN down = 1 .. Len(down) /\ Len(down) \in Nat
          /\ \A i \in DOMAIN down : down'[i] = down[i]
          /\ down'[Len(down) + 1] = n
      <4> DEFINE e == down \o <<n>>
      <4>1. /\ e \in Seq(Notes \cup Replies)
            /\ DOMAIN e = 1 .. (Len(down) + 1) /\ DOMAIN down = 1 .. Len(down) /\ Len(down) \in Nat
            /\ \A i \in DOMAIN down : e[i] = down[i]
            /\ e[Len(down) + 1] = n
        BY <1>1, <1>4, NoteAtTheEnd
      <4>2. down' = e
        BY <3>1
      <4> HIDE DEF e
      <4> QED BY <4>1, <4>2
    <3>3. \A i \in DOMAIN down' : (i \in DOMAIN down /\ down'[i] = down[i]) \/ down'[i] = n
      BY <3>2
    <3>4. Fits(n, task', Heard')
      BY <1>4 DEF Fits
    <3>5. OneAnswerEach(down')
      BY <1>1, <1>4, <3>3 DEF OneAnswerEach, AnswersSound
    <3> QED BY <1>5, <3>2, <3>3, <3>4, <3>5 DEF AnswersSound
  <2>2. CASE link # "up"
    <3>1. down' = down
      BY <1>1, <2>2
    <3> QED BY <1>1, <1>5, <3>1 DEF AnswersSound
  <2> QED BY <2>1, <2>2
<1>7. link = "down" => down' = <<>>
  BY <1>1 DEF Typed
<1>8. codex'.turn \in {NoTurn, codex'.last} /\ Heard \subseteq Heard' /\ late' \in Seq(Requests)
  BY <1>1, <1>2, <1>3
<1>9. Sound' /\ Calms
  BY <1>1, <1>2, <1>6, <1>7, <1>8, CodexSound
<1> QED BY <1>1, <1>2, <1>4, <1>9 DEF n

(* A mishap. *)
LEMMA Befallen ==
  ASSUME Typed, NEW x \in Mishaps, Befalls(x)
  PROVE  mishaps' \subseteq Mishaps /\ x \in mishaps' /\ mishaps \subseteq mishaps'
BY DEF Typed, Befalls

(* An error of the turn is told. *)
LEMMA TurnErrsSound ==
  ASSUME Sound, TurnErrs
  PROVE  Sound' /\ Calms /\ Spoken("error")
<1>1. /\ Typed /\ phone \in Pages /\ SaysOfTurn("error")
      /\ UNCHANGED <<phone, task, link, late, codex, sent, raced, doubted, wandered>>
  BY DEF Sound, Typed, TurnErrs, PhoneTypeOK, Pages
<1>2. Heard' = Heard /\ Doubtful' = Doubtful /\ mishaps' \subseteq Mishaps
  BY <1>1, Befallen DEF Heard, Doubtful, TurnErrs, Mishaps
<1>3. /\ Spoken("error") /\ AnswersSound' /\ down' \in Seq(Notes \cup Replies)
      /\ link = "down" => down' = <<>>
  BY <1>1, <1>2, SpokenSound
<1>4. Calms
  BY <1>1, <1>2 DEF Calms, Hold
<1>5. Sound'
  BY <1>1, <1>2, <1>3, <1>4, CalmSound DEF Typed, Threads
<1> QED BY <1>3, <1>4, <1>5

(* The user wanders off. *)
LEMMA LeavesSound ==
  ASSUME Sound, Leaves
  PROVE  /\ Sound' /\ Calms
         /\ phone' = [phone EXCEPT !.screen = FALSE] /\ phone.screen
         /\ ({phone.pending, phone.stored} \cup {task[s].m : s \in Slots}) \ {NoMsg} \subseteq wandered'
<1>1. /\ Typed /\ AnswersSound /\ phone \in Pages /\ phone.screen
      /\ phone' = [phone EXCEPT !.screen = FALSE]
      /\ wandered' = (wandered \cup {phone.pending, phone.stored}
                        \cup {task[s].m : s \in Slots}) \ {NoMsg}
      /\ UNCHANGED <<task, link, down, late, codex, sent, raced, doubted>>
  BY DEF Sound, Typed, Leaves, PhoneTypeOK, Pages
<1>2. mishaps' \subseteq Mishaps
  BY <1>1, Befallen DEF Leaves, Mishaps
<1>3. /\ phone' \in Pages /\ Hold(phone') = Hold(phone) /\ phone'.connected = phone.connected
      /\ phone'.entered = phone.entered
  BY <1>1 DEF Pages, Hold
<1>4. wandered' \subseteq sent
  <2>1. \A r \in Slots : task[r].m \in Held \cup {NoMsg}
    BY <1>1 DEF Typed, TaskSound, Held
  <2>2. {phone.pending, phone.stored} \subseteq Held \cup {NoMsg}
    BY DEF Held
  <2> QED BY <1>1, <2>1, <2>2 DEF Typed
<1>5. wandered \subseteq wandered'
  BY <1>1, PhoneAssumption DEF Typed
<1>6. Heard' = Heard /\ AnswersSound' /\ Doubtful' = Doubtful /\ raced' = raced
  BY <1>1 DEF Heard, AnswersSound, Doubtful
<1>7. Calms
  BY <1>1, <1>3, <1>5, <1>6 DEF Calms
<1>8. Sound'
  BY <1>1, <1>2, <1>3, <1>4, <1>6, <1>7, CalmSound DEF Typed, Threads
<1> QED BY <1>1, <1>7, <1>8

(* The connection breaks. *)
LEMMA BreaksSound ==
  ASSUME Sound, Breaks
  PROVE  Sound' /\ Calms /\ link = "up" /\ link' = "broken"
<1>1. /\ Typed /\ AnswersSound /\ phone \in Pages /\ link = "up" /\ link' = "broken"
      /\ UNCHANGED <<phone, task, down, late, codex, sent, raced, doubted, wandered>>
  BY DEF Sound, Typed, Breaks, PhoneTypeOK, Pages
<1>2. mishaps' \subseteq Mishaps
  BY <1>1, Befallen DEF Breaks, Mishaps
<1>3. Heard' = Heard /\ AnswersSound' /\ Doubtful' = Doubtful /\ raced' = raced
  BY <1>1 DEF Heard, AnswersSound, Doubtful
<1>4. Calms
  BY <1>1, <1>3 DEF Calms, Hold
<1>5. Sound'
  BY <1>1, <1>2, <1>3, <1>4, CalmSound DEF Typed, Threads
<1> QED BY <1>1, <1>4, <1>5

(* What is left of the queue when its head is taken and task s, which      *)
(* awaits nothing, changes.                                                *)
LEMMA TakenSound ==
  ASSUME Sound, down # <<>>, down' = Tail(down), codex' = codex, NEW s \in Slots,
         task[s].pc \in Unawaited, NEW k, task' \in {task, [task EXCEPT ![s] = k]}
  PROVE  AnswersSound' /\ down' \in Seq(Notes \cup Replies) /\ Heard' = Heard
<1>1. /\ Tail(down) \in Seq(Notes \cup Replies) /\ OneAnswerEach(Tail(down))
      /\ \A i \in DOMAIN Tail(down) : Fits(Tail(down)[i], task, Heard)
  BY RestOfQueue
<1>2. Heard' = Heard /\ Typed
  BY DEF Heard, Sound
<1>3. \A i \in DOMAIN down' : Fits(down'[i], task', Heard')
  <2> SUFFICES ASSUME NEW i \in DOMAIN Tail(down) PROVE Fits(Tail(down)[i], task', Heard')
    OBVIOUS
  <2>1. Tail(down)[i] \in Notes \cup Replies /\ Fits(Tail(down)[i], task, Heard)
    BY <1>1
  <2>2. Tail(down)[i].slot # s
    <3>1. s # NoSlot
      BY PhoneAssumption DEF NoSlot
    <3>2. \A x \in Notes \cup Replies : Fits(x, task, Heard) => x.slot # s
      BY <3>1 DEF Notes, Replies, Fits
    <3> QED BY <2>1, <3>2
  <2>3. CASE task' = task
    BY <1>2, <2>1, <2>3
  <2>4. CASE task' = [task EXCEPT ![s] = k]
    BY <1>2, <2>1, <2>2, <2>4, FitsStill
  <2> QED BY <2>3, <2>4
<1> QED BY <1>1, <1>2, <1>3 DEF AnswersSound

(* The end, the beginning or an error of a turn is heard of. *)
LEMMA NotifiedSound ==
  ASSUME Sound, NEW s \in Slots, Notified(s)
  PROVE  /\ Sound' /\ Calms /\ Where(phone')[1] = phone.screen /\ phone'.entered = phone.entered
         /\ Hold(phone') = Hold(phone)
<1> DEFINE n == Head(down)
           k == [Free EXCEPT !.kind = "notice", !.pc = "pause"]
<1>1. /\ Typed /\ AnswersSound /\ phone \in Pages /\ down # <<>> /\ down' = Tail(down)
      /\ n.op \in {"started", "completed", "error"} /\ task[s].pc = "free" /\ phone' = Noticed(phone, n)
      /\ task' \in {task, [task EXCEPT ![s] = k]}
      /\ UNCHANGED <<link, late, codex, mishaps, sent, raced, doubted, wandered>>
  BY DEF Sound, Typed, Notified, FreeSlot, PhoneTypeOK, Pages
<1>2. n \in Notes /\ n.turn \in SomeTurn
  <2>1. down \in Seq(Notes \cup Replies) /\ n = down[1] /\ 1 \in DOMAIN down
    BY <1>1, RestOfQueue DEF Typed
  <2>2. n \in Notes \cup Replies
    BY <2>1
  <2> QED BY <1>1, <2>2 DEF Notes, Replies
<1>3. /\ phone' \in Pages /\ Hold(phone') = Hold(phone) /\ phone'.connected = phone.connected
      /\ phone'.entered = phone.entered /\ phone'.screen = phone.screen
  <2> HIDE DEF n
  <2>1. CASE n.op = "completed"
    <3>1. phone' = TurnCompleted(phone, n.turn)
      BY <1>1, <2>1 DEF Noticed
    <3> QED BY <1>1, <1>2, <3>1 DEF TurnCompleted, Pages, Hold, SomeTurn
  <2>2. CASE n.op = "started"
    <3>1. phone' = TurnStarted(phone, n.turn)
      BY <1>1, <2>2 DEF Noticed
    <3> QED BY <1>1, <1>2, <3>1 DEF TurnStarted, Pages, Hold
  <2>3. CASE n.op = "error"
    <3>1. phone' = TurnErred(phone)
      BY <1>1, <2>3 DEF Noticed
    <3> QED BY <1>1, <3>1 DEF TurnErred, Pages, Hold, SomeTurn
  <2> QED BY <1>1, <2>1, <2>2, <2>3
<1>4. TaskSound(k) /\ k \in Tasks /\ k.m = NoMsg /\ ~AtWork(k) /\ k.kind # "send" /\ k.pc \in Unawaited
  BY DEF Free, TaskSound, Tasks, TaskPcs, TaskKinds, SomeMsg, SomeTurn, NoTurn, AtWork, Sender,
         SenderPcs, Unawaited
<1> HIDE DEF k, n
<1>5. /\ task' \in [Slots -> Tasks]
      /\ \A r \in Slots : task'[r] = task[r] \/ task'[r] = k
  BY <1>1, <1>4 DEF Typed
<1>6. AnswersSound' /\ down' \in Seq(Notes \cup Replies) /\ Heard' = Heard /\ Doubtful' = Doubtful /\ raced' = raced
  BY <1>1, TakenSound DEF Unawaited, Doubtful
<1>7. Calms
  BY <1>1, <1>3, <1>4, <1>5, <1>6 DEF Calms
<1>8. \A r \in Slots : TaskSound(task'[r]) /\ (task'[r].kind = "send" => task[r].kind = "send")
                       /\ (task[r].pc \in Unawaited => task'[r].pc \in Unawaited)
  BY <1>1, <1>4, <1>5 DEF Typed
<1>9. link = "down" => down' = <<>>
  BY <1>1 DEF Typed
<1>10. Sound'
  BY <1>1, <1>3, <1>5, <1>6, <1>7, <1>8, <1>9, CalmSound DEF Typed, Threads
<1> QED BY <1>3, <1>7, <1>10 DEF Where

(* An answer nobody waits for. *)
LEMMA DropsSound ==
  ASSUME Sound, down # <<>>, down' = Tail(down), UNCHANGED <<phone, task, codex, late>>,
         Races, UNCHANGED <<link, mishaps, sent, doubted, wandered>>
  PROVE  Sound' /\ Calms
<1>1. Typed /\ phone \in Pages /\ task' \in [Slots -> Tasks] /\ \A r \in Slots : TaskSound(task'[r])
  BY DEF Sound, Typed, PhoneTypeOK, Pages
<1>2. /\ Tail(down) \in Seq(Notes \cup Replies) /\ OneAnswerEach(Tail(down))
      /\ \A i \in DOMAIN Tail(down) : Fits(Tail(down)[i], task, Heard)
      /\ link # "down"
  BY RestOfQueue
<1>3. Heard' = Heard /\ Held' = Held
  BY DEF Heard, Held
<1>4. AnswersSound'
  BY <1>2, <1>3 DEF AnswersSound
<1>5. raced \subseteq raced' /\ raced' \subseteq raced \cup Held'
  BY <1>1, RacesOf
<1>6. Calms
  BY <1>3, <1>5 DEF Calms, Hold, Doubtful
<1>7. Doubtful' \subseteq sent
  BY <1>1, <1>3, <1>5 DEF Typed, Doubtful
<1>8. Sound'
  BY <1>1, <1>2, <1>4, <1>6, <1>7, CalmSound DEF Typed, Threads
<1> QED BY <1>6, <1>8

(* The connection is closed. *)
LEMMA ClosedDoubts ==
  ASSUME Sound, Closed, raced' = raced
  PROVE  /\ link = "broken" /\ link' = "down" /\ down' = <<>>
         /\ Doubtful \subseteq Doubtful' /\ Doubtful' \subseteq sent
         /\ \A i \in DOMAIN late : late[i].m \in Doubtful' \cup {NoMsg}
<1>1. /\ link = "broken" /\ link' = "down" /\ down' = <<>>
      /\ doubted' = doubted \cup ({late[i].m : i \in DOMAIN late} \cap Msgs)
      /\ Doubtful \subseteq sent /\ late \in Seq(Requests) /\ LateSent
  BY DEF Closed, Sound, Typed
<1>2. \A i \in DOMAIN late : late[i].m \in SomeMsg /\ late[i].m \in sent \cup {NoMsg}
  BY <1>1 DEF LateSent, Requests
<1> QED BY <1>1, <1>2, PhoneAssumption DEF SomeMsg, Doubtful

LEMMA FreeSound ==
  TaskSound(Free) /\ Free \in Tasks /\ Free.m = NoMsg /\ ~AtWork(Free) /\ Free.kind = "none"
  /\ Free.pc = "free"
BY DEF Free, TaskSound, Tasks, TaskPcs, TaskKinds, SomeMsg, SomeTurn, NoTurn, AtWork, Sender,
       SenderPcs

(* Every call is rejected. *)
LEMMA DisconnectsSound ==
  ASSUME Sound, Disconnects
  PROVE  /\ Sound' /\ Calms /\ phone'.screen = phone.screen /\ phone'.entered = phone.entered
         /\ link = "broken" /\ link' = "down" /\ down' = <<>> /\ late' = late /\ codex' = codex
         /\ \A i \in DOMAIN late : late[i].m \in Doubtful' \cup {NoMsg}
         /\ phone'.done = phone.done
<1> DEFINE lost  == [phone EXCEPT !.connected = FALSE]
           after == {OnRejected(lost, task[s]).p : s \in {r \in Slots : task[r].pc \notin Unawaited}}
<1>1. /\ Typed /\ AnswersSound /\ phone \in Pages /\ LateSent
      /\ phone' \in IF after \subseteq {lost} THEN {lost} ELSE after \ {lost}
      /\ task' = [s \in Slots |-> IF task[s].pc = "pause" THEN task[s] ELSE Free]
      /\ UNCHANGED <<late, codex, mishaps, sent, raced, wandered>>
      /\ Closed
  BY DEF Sound, Typed, Disconnects, PhoneTypeOK, Pages
<1>2. /\ link = "broken" /\ link' = "down" /\ down' = <<>> /\ Doubtful \subseteq Doubtful'
      /\ Doubtful' \subseteq sent
      /\ \A i \in DOMAIN late : late[i].m \in Doubtful' \cup {NoMsg}
  BY <1>1, ClosedDoubts
<1>3. /\ lost \in Pages /\ Hold(lost) = Hold(phone) /\ ~lost.connected /\ lost.screen = phone.screen
      /\ lost.entered = phone.entered /\ lost.done = phone.done /\ Adopted(lost) = Adopted(phone)
      /\ lost.stored = phone.stored /\ lost.composer = phone.composer
  BY <1>1 DEF Pages, Hold, Adopted
<1> HIDE DEF lost
<1>4. phone' = lost \/ \E s \in Slots : task[s].pc \notin Unawaited /\ phone' = OnRejected(lost, task[s]).p
  BY <1>1
<1> HIDE DEF after
<1>5. /\ phone' \in Pages /\ ~phone'.connected /\ phone'.screen = phone.screen
      /\ phone'.entered = phone.entered /\ phone'.done = phone.done
      /\ Hold(phone') \in {Hold(phone), <<Adopted(phone), phone.stored, phone.composer>>}
  <2>1. CASE phone' = lost
    BY <1>3, <2>1
  <2>2. CASE \E s \in Slots : task[s].pc \notin Unawaited /\ phone' = OnRejected(lost, task[s]).p
    <3>1. PICK s \in Slots : task[s].pc \notin Unawaited /\ phone' = OnRejected(lost, task[s]).p
      BY <2>2
    <3> DEFINE o == OnRejected(lost, task[s])
    <3>2. TaskSound(task[s]) /\ task[s] \in Tasks
      BY <1>1 DEF Typed
    <3>3. GoesWell(lost, o) /\ (Stops(lost, o) \/ Concludes(lost, o))
      BY <1>3, <3>1, <3>2, RejectedWell
    <3>4. phone' = o.p
      BY <3>1
    <3> HIDE DEF o
    <3> QED BY <1>3, <3>3, <3>4 DEF GoesWell, Where, Stops, Concludes
  <2> QED BY <1>4, <2>1, <2>2
<1>6. /\ task' \in [Slots -> Tasks]
      /\ \A r \in Slots : (task[r].pc = "pause" /\ task'[r] = task[r]) \/ task'[r] = Free
  BY <1>1, FreeSound DEF Typed
<1>7. \A r \in Slots : TaskSound(task'[r]) /\ (task'[r].kind = "send" => task[r].kind = "send")
                       /\ task'[r].pc \in Unawaited
  BY <1>1, <1>6, FreeSound DEF Typed, Unawaited
<1>8. Heard' = Heard /\ AnswersSound'
  BY <1>1, <1>2 DEF Heard, AnswersSound, OneAnswerEach
<1>9. \A r \in Slots : task'[r] = task[r] \/ (~AtWork(task'[r]) /\ task'[r].m = NoMsg)
  BY <1>6, FreeSound
<1>10. Calms
  BY <1>1, <1>2, <1>5, <1>8, <1>9 DEF Calms
<1>11. Sound'
  <2>1. /\ codex' \in Threads /\ codex'.turn \in {NoTurn, codex'.last} /\ mishaps' \subseteq Mishaps
        /\ wandered' \subseteq sent
    BY <1>1 DEF Typed, Threads
  <2>2. /\ link' \in {"up", "broken", "down"} /\ down' \in Seq(Notes \cup Replies) /\ late' = late
        /\ phone'.connected = (link' # "down") /\ (~phone'.entered => ~phone'.connected)
        /\ (link' = "down" => down' = <<>> /\ \A r \in Slots : task'[r].pc \in Unawaited)
    BY <1>1, <1>2, <1>5, <1>7 DEF Pages
  <2> QED BY <1>2, <1>5, <1>6, <1>7, <1>8, <1>10, <2>1, <2>2, CalmSound
<1> QED BY <1>1, <1>2, <1>5, <1>10, <1>11

(* The page is loaded anew. *)
LEMMA ReloadsSound ==
  ASSUME Sound, Reloads
  PROVE  /\ Sound' /\ Held' \subseteq Held /\ Heard' = Heard
         /\ phone'.screen = phone.screen /\ ~phone'.entered /\ phone'.pending = NoMsg
         /\ phone'.stored = phone.stored /\ phone'.composer = phone.composer
         /\ ~phone'.active /\ ~phone'.listed /\ phone'.done = NoTurn
         /\ \A r \in Slots : task'[r] = Free
         /\ raced' = raced /\ Doubtful \subseteq Doubtful' /\ sent' = sent /\ wandered' = wandered
         /\ link = "broken" /\ link' = "down" /\ down' = <<>> /\ late' = late /\ codex' = codex
         /\ mishaps' = mishaps
         /\ \A i \in DOMAIN late : late[i].m \in Doubtful' \cup {NoMsg}
<1>1. /\ Typed /\ AnswersSound /\ phone \in Pages /\ LateSent
      /\ phone' = [phone EXCEPT !.connected = FALSE, !.entered = FALSE, !.active = FALSE,
                                !.turn = NoTurn, !.done = NoTurn, !.listed = FALSE,
                                !.pending = NoMsg, !.intent = "start"]
      /\ task' = [s \in Slots |-> Free]
      /\ UNCHANGED <<late, codex, mishaps, sent, raced, wandered>>
      /\ Closed
  BY DEF Sound, Typed, Reloads, PhoneTypeOK, Pages
<1>2. /\ link = "broken" /\ link' = "down" /\ down' = <<>> /\ Doubtful \subseteq Doubtful'
      /\ Doubtful' \subseteq sent
      /\ \A i \in DOMAIN late : late[i].m \in Doubtful' \cup {NoMsg}
  BY <1>1, ClosedDoubts
<1>3. NoTurn \in SomeTurn /\ NoMsg \in SomeMsg
  BY DEF SomeTurn, SomeMsg
<1>4. /\ phone' \in Pages /\ ~phone'.connected /\ phone'.screen = phone.screen
      /\ ~phone'.entered /\ phone'.pending = NoMsg
      /\ phone'.stored = phone.stored /\ phone'.composer = phone.composer
      /\ ~phone'.active /\ ~phone'.listed /\ phone'.done = NoTurn
  BY <1>1, <1>3 DEF Pages
<1>5. /\ task' \in [Slots -> Tasks] /\ \A r \in Slots : task'[r] = Free
  BY <1>1, FreeSound
<1>6. \A r \in Slots : TaskSound(task'[r]) /\ task'[r].pc \in Unawaited /\ task'[r].kind # "send"
                       /\ ~AtWork(task'[r])
  BY <1>5, FreeSound DEF Unawaited
<1>7. Heard' = Heard /\ AnswersSound'
  BY <1>1, <1>2 DEF Heard, AnswersSound, OneAnswerEach
<1>8. Held' \subseteq Held
  BY <1>4, <1>6 DEF Held
<1>9. PhoneTypeOK' /\ LateSent'
  BY <1>1, <1>4 DEF PhoneTypeOK, Pages, LateSent
<1>10. Typed'
  <2>1. /\ codex' \in [turn : SomeTurn, last : SomeTurn, told : [Msgs -> Nat]]
        /\ codex'.turn \in {NoTurn, codex'.last} /\ mishaps' \subseteq Mishaps
        /\ sent' \subseteq Msgs /\ wandered' \subseteq sent' /\ Held \subseteq sent'
        /\ late' \in Seq(Requests)
    BY <1>1 DEF Typed
  <2>2. /\ link' \in {"up", "broken", "down"} /\ down' \in Seq(Notes \cup Replies)
        /\ phone'.connected = (link' # "down") /\ (~phone'.entered => ~phone'.connected)
        /\ (link' = "down" => down' = <<>> /\ \A r \in Slots : task'[r].pc \in Unawaited)
    BY <1>2, <1>4, <1>6 DEF Pages
  <2>3. Doubtful' \subseteq sent' /\ Held' \subseteq sent'
    BY <1>1, <1>2, <1>8, <2>1
  <2> QED BY <1>5, <1>6, <1>9, <2>1, <2>2, <2>3 DEF Typed
<1> QED BY <1>1, <1>2, <1>4, <1>5, <1>7, <1>8, <1>9, <1>10 DEF Sound

LEMMA ReloadsKeeps ==
  ASSUME Sound, Keeping, Reloads
  PROVE  Keeping'
<1>1. /\ Held' \subseteq Held /\ Heard' = Heard
      /\ phone'.screen = phone.screen /\ ~phone'.entered /\ phone'.pending = NoMsg
      /\ phone'.stored = phone.stored /\ phone'.composer = phone.composer
      /\ \A r \in Slots : task'[r] = Free
      /\ raced' = raced /\ sent' = sent /\ wandered' = wandered
  BY ReloadsSound
<1>2. \A r \in Slots : ~Sender(task'[r]) /\ ~AtWork(task'[r]) /\ task'[r].m = NoMsg /\ task'[r].pc = "free"
  BY <1>1, FreeSound DEF AtWork
<1>3. Alone'
  BY <1>2 DEF Alone
<1>4. OneAtATime'
  BY <1>1, OneStays DEF Keeping
<1>5. Away'
  BY <1>1, <1>2 DEF Keeping, Away
<1>6. Holding'
  BY <1>1, <1>2 DEF Holding
<1>7. SentIsKept'
  <2>1. SentIsKept /\ sent \subseteq Msgs /\ OneAtATime
        /\ (phone.pending # NoMsg => phone.stored # NoMsg)
    BY DEF Keeping, Holding, Sound, Typed
  <2> SUFFICES ASSUME NEW m \in sent \ (wandered \cup raced')
               PROVE  m \in Heard \/ m \in {NoMsg, phone.stored, phone.composer}
    BY <1>1 DEF SentIsKept, Kept, Heard
  <2>2. m \in Heard \/ m \in {phone.pending, phone.stored, phone.composer}
    BY <1>1, <2>1 DEF SentIsKept, Kept, Heard
  <2>3. CASE m = phone.pending /\ m # NoMsg /\ m # phone.stored
    <3>1. phone.pending \in Held /\ phone.stored \in Held
      BY <2>1, <2>3 DEF Held
    <3>2. m \in raced
      BY <2>1, <2>3, <3>1 DEF OneAtATime
    <3> QED BY <1>1, <3>2
  <2> QED BY <2>2, <2>3
<1> QED BY <1>3, <1>4, <1>5, <1>6, <1>7 DEF Keeping

(* The session is open again. *)
LEMMA ReconnectsSound ==
  ASSUME Sound, NEW s \in Slots, NEW how \in {"sync", "open"}, Reconnects(s, how)
  PROVE  /\ Sound' /\ Calms /\ phone'.screen = phone.screen /\ phone'.entered
         /\ link = "down" /\ link' = "up"
         /\ phone.entered \/ how = "open"
         /\ phone.screen /\ how = "open" => phone'.pending = Adopted(phone)
         /\ phone'.listed = (codex.turn # NoTurn) /\ phone'.active = phone.active /\ phone'.done = phone.done
         /\ IF phone.screen
            THEN /\ task'[s].pc = how /\ \A r \in Slots \ {s} : task'[r] = task[r]
                 /\ \E a \in Replies : a.slot = s /\ a.turn = codex.turn /\ a.of = OpAt(how) /\ a.ok
                                      /\ down' = <<a>>
            ELSE task' = task /\ down' = <<>>
         /\ how = "open" => task'[s].flag = (codex.turn # NoTurn) \/ ~phone.screen
         /\ late' = late /\ codex' = codex /\ raced' = raced /\ doubted' = doubted
<1> DEFINE p == [phone EXCEPT !.connected = TRUE, !.entered = TRUE,
                              !.listed = (codex.turn # NoTurn)]
           k == [Free EXCEPT !.kind = how, !.pc = how,
                             !.flag = (how = "open" /\ p.listed)]
           r == [op |-> IF how = "sync" THEN "read" ELSE "page", m |-> NoMsg, turn |-> NoTurn]
           a == Answer(r, s, TRUE, codex.turn)
<1>1. /\ Typed /\ AnswersSound /\ phone \in Pages /\ LateSent
      /\ link = "down" /\ link' = "up" /\ task[s].pc = "free" /\ (how = "sync" => phone.entered)
      /\ phone' = IF how = "open" /\ p.screen THEN Shown(p) ELSE p
      /\ task' = IF p.screen THEN [task EXCEPT ![s] = k] ELSE task
      /\ down' = IF p.screen THEN <<a>> ELSE <<>>
      /\ UNCHANGED <<late, codex, mishaps, sent, raced, doubted, wandered>>
  BY DEF Sound, Typed, Reconnects, FreeSlot, PhoneTypeOK, Pages
<1>2. /\ p \in Pages /\ Hold(p) = Hold(phone) /\ p.connected /\ p.entered /\ p.screen = phone.screen
      /\ p.listed = (codex.turn # NoTurn) /\ p.active = phone.active /\ p.done = phone.done
      /\ p.pending = phone.pending /\ p.stored = phone.stored /\ p.composer = phone.composer
  BY <1>1 DEF Pages, Hold
<1>3. /\ k \in Tasks /\ k.pc = how /\ k.kind = how /\ k.m = NoMsg
      /\ (how = "open" => k.flag = (codex.turn # NoTurn))
  <2>1. (how = "open" /\ p.listed) \in BOOLEAN
    OBVIOUS
  <2>2. (how = "open" /\ p.listed) = (how = "open" /\ codex.turn # NoTurn)
    BY <1>2
  <2> HIDE DEF p
  <2> QED BY <2>2 DEF Free, Tasks, TaskPcs, TaskKinds, SomeMsg, SomeTurn, NoTurn
<1> HIDE DEF k
<1>4. TaskSound(k) /\ ~AtWork(k) /\ k.kind # "send" /\ k.pc \notin Unawaited
  BY <1>3 DEF TaskSound, AtWork, Sender, SenderPcs, Unawaited
<1>5. a \in Replies /\ a.slot = s /\ a.turn = codex.turn /\ a.of = OpAt(how) /\ a.ok /\ a.has \subseteq Heard
      /\ a.op = "answer"
  <2>1. codex.turn \in SomeTurn
    BY <1>1 DEF Typed
  <2>2. r.op = OpAt(how) /\ r.op \in {"read", "page"}
    BY DEF OpAt
  <2> HIDE DEF r
  <2> QED BY <2>1, <2>2 DEF Answer, Replies, Heard
<1> HIDE DEF a, r, p
<1>6. /\ phone' \in Pages /\ phone'.connected /\ phone'.entered /\ phone'.screen = phone.screen
      /\ phone'.listed = (codex.turn # NoTurn) /\ phone'.active = phone.active /\ phone'.done = phone.done
      /\ Hold(phone') \in {Hold(phone), <<Adopted(phone), phone.stored, phone.composer>>}
      /\ (phone.screen /\ how = "open" => phone'.pending = Adopted(phone))
  <2>1. CASE ~(phone.screen /\ how = "open")
    <3>1. phone' = p
      BY <1>1, <1>2, <2>1
    <3> QED BY <1>2, <2>1, <3>1
  <2>2. CASE phone.screen /\ how = "open"
    <3> DEFINE pn == IF p.pending = NoMsg THEN p.stored ELSE p.pending
    <3>1. phone' = [p EXCEPT !.screen = TRUE, !.pending = pn] /\ pn \in SomeMsg /\ pn = Adopted(phone)
      <4>1. phone' = Shown(p)
        BY <1>1, <1>2, <2>2
      <4> QED BY <1>2, <4>1 DEF Shown, Pages, Adopted
    <3> HIDE DEF pn
    <3>3. phone' \in Pages /\ phone'.pending = Adopted(phone) /\ phone'.stored = phone.stored
          /\ phone'.composer = phone.composer /\ phone'.connected /\ phone'.entered /\ phone'.screen
          /\ phone'.listed = p.listed /\ phone'.active = phone.active /\ phone'.done = phone.done
      BY <1>2, <3>1 DEF Pages
    <3> QED BY <1>1, <1>2, <2>2, <3>3 DEF Hold, Pages
  <2> QED BY <1>1, <1>2, <2>1, <2>2
<1>7. /\ task' \in [Slots -> Tasks] /\ task'[s] = IF phone.screen THEN k ELSE task[s]
      /\ \A q \in Slots \ {s} : task'[q] = task[q]
  BY <1>1, <1>2, <1>3 DEF Typed
<1>8. \A q \in Slots : /\ TaskSound(task'[q]) /\ (task'[q].kind = "send" => task[q].kind = "send")
                       /\ task'[q] = task[q] \/ (~AtWork(task'[q]) /\ task'[q].m = NoMsg)
  BY <1>1, <1>3, <1>4, <1>7 DEF Typed
<1>9. Heard' = Heard /\ Doubtful' = Doubtful
  BY <1>1 DEF Heard, Doubtful
<1>10. AnswersSound' /\ down' \in Seq(Notes \cup Replies)
  <2>1. CASE phone.screen
    <3>1. down' = <<a>>
      BY <1>1, <1>2, <2>1
    <3>2. DOMAIN down' = {1} /\ down'[1] = a /\ down' \in Seq(Notes \cup Replies)
      BY <1>5, <3>1
    <3>3. task'[s] = k
      BY <1>7, <2>1
    <3>4. ~Ask(a.of)
      BY <1>5 DEF OpAt, Ask
    <3>5. Fits(a, task', Heard')
      BY <1>3, <1>4, <1>5, <1>9, <3>3, <3>4 DEF Fits
    <3> QED BY <3>2, <3>5 DEF AnswersSound, OneAnswerEach
  <2>2. CASE ~phone.screen
    <3>1. down' = <<>>
      BY <1>1, <1>2, <2>2
    <3> QED BY <3>1 DEF AnswersSound, OneAnswerEach
  <2> QED BY <2>1, <2>2
<1>11. Calms
  BY <1>1, <1>6, <1>8, <1>9 DEF Calms
<1>12. Sound'
  <2>1. /\ codex' \in Threads /\ codex'.turn \in {NoTurn, codex'.last} /\ mishaps' \subseteq Mishaps
        /\ wandered' \subseteq sent /\ Doubtful' \subseteq sent
    BY <1>1, <1>9 DEF Typed, Threads
  <2>2. /\ link' \in {"up", "broken", "down"} /\ late' = late
        /\ phone'.connected = (link' # "down") /\ (~phone'.entered => ~phone'.connected)
        /\ link' # "down"
    BY <1>1, <1>6 DEF Pages
  <2> QED BY <1>6, <1>7, <1>8, <1>10, <1>11, <2>1, <2>2, CalmSound
<1>13. phone.screen => task'[s].pc = how /\ down' = <<a>>
  BY <1>1, <1>2, <1>3, <1>7
<1>14. ~phone.screen => task' = task /\ down' = <<>>
  BY <1>1, <1>2
<1>15. how = "open" => task'[s].flag = (codex.turn # NoTurn) \/ ~phone.screen
  BY <1>3, <1>7
<1> QED BY <1>1, <1>5, <1>6, <1>7, <1>11, <1>12, <1>13, <1>14, <1>15

LEMMA ReconnectsKeeps ==
  ASSUME Sound, Keeping, NEW s \in Slots, NEW how \in {"sync", "open"}, Reconnects(s, how)
  PROVE  Keeping'
<1>1. /\ Calms /\ phone'.screen = phone.screen
      /\ phone.entered \/ how = "open"
      /\ phone.screen /\ how = "open" => phone'.pending = Adopted(phone)
  BY ReconnectsSound
<1>2. phone'.stored = phone.stored
  BY <1>1 DEF Calms, Hold
<1>3. wandered \subseteq wandered' /\ (~phone.screen => phone.stored \in wandered \cup {NoMsg})
  BY <1>1 DEF Calms, Keeping, Away
<1>4. phone'.entered => phone.entered \/ phone'.pending # NoMsg \/ phone'.stored = NoMsg
                          \/ phone.stored \in wandered'
  BY <1>1, <1>2, <1>3 DEF Adopted
<1> QED BY <1>1, <1>4, HeldNames, CalmKeeps

LEMMA ReturnsKeeps ==
  ASSUME Sound, Keeping, NEW s \in Slots, Returns(s)
  PROVE  Keeping'
<1>1. /\ Heard \subseteq Heard' /\ raced' = raced /\ doubted' = doubted /\ sent' = sent /\ wandered' = wandered
      /\ phone' = Shown(phone) /\ task'[s].pc = "open" /\ task'[s].kind = "open" /\ task'[s].m = NoMsg
      /\ \A r \in Slots \ {s} : task'[r] = task[r]
  BY ReturnsSound
<1>2. phone \in Pages
  BY DEF Sound, Typed, PhoneTypeOK, Pages
<1>3. /\ phone'.screen /\ phone'.pending = Adopted(phone) /\ phone'.stored = phone.stored
      /\ phone'.composer = phone.composer
  BY <1>1, <1>2 DEF Shown, Pages, Adopted
<1>4. ~AtWork(task'[s])
  BY <1>1 DEF AtWork, Sender
<1>5. Calms
  BY <1>1, <1>3, <1>4 DEF Calms, Hold, Doubtful
<1>6. phone'.pending # NoMsg \/ phone'.stored = NoMsg
  BY <1>3 DEF Adopted
<1> QED BY <1>3, <1>5, <1>6, HeldNames, CalmKeeps

LEMMA SettlesKeeps ==
  ASSUME Sound, Keeping, NEW s \in Slots, Settles(s)
  PROVE  Sound' /\ Keeping'
<1>1. Races /\ doubted' = doubted /\ sent' = sent /\ wandered' = wandered /\ mishaps' = mishaps /\ mishaps \subseteq Mishaps
  BY DEF Settles, Sound, Typed
<1>2. PICK o : Advances(s, phone, o, down) /\ Moves(phone, task[s], o)
  BY SettlesMoves DEF Resumed
<1> QED BY <1>1, <1>2, MovedSound, MovedKeeps

LEMMA TimesOutKeeps ==
  ASSUME Sound, Keeping, NEW s \in Slots, TimesOut(s)
  PROVE  Sound' /\ Keeping'
<1>1. Races /\ sent' = sent /\ wandered' = wandered /\ mishaps' \subseteq Mishaps
      /\ doubted' = doubted \cup ({phone.pending, task[s].m} \cap Msgs)
  BY Befallen DEF TimesOut, Sound, Mishaps
<1>3. doubted' \subseteq doubted \cup Held
  <2>1. AtWork(task[s]) \/ task[s].m = NoMsg
    BY DEF Sound, Typed, TaskSound
  <2> QED BY <1>1, <2>1, PhoneAssumption DEF Held
<1>2. PICK o : Advances(s, phone, o, Disown(down, s)) /\ Moves(phone, task[s], o)
  BY TimesOutMoves DEF Resumed
<1> QED BY <1>1, <1>2, <1>3, MovedSound, MovedKeeps

(* A step that is calm and leaves the page as it was, as far as            *)
(* submissions go.                                                         *)
LEMMA CalmerKeeps ==
  ASSUME Sound, Keeping, Calms, Hold(phone') = Hold(phone), phone'.entered = phone.entered,
         phone'.screen = phone.screen
  PROVE  Keeping'
BY HeldNames, CalmKeeps

LEMMA ReceivesKeeps ==
  ASSUME Sound, Keeping, Receives
  PROVE  Sound' /\ Keeping'
<1>1. Races /\ doubted' = doubted /\ sent' = sent /\ wandered' = wandered /\ mishaps' = mishaps /\ mishaps \subseteq Mishaps
      /\ link' = link
  BY DEF Receives, Sound, Typed
<1>2. CASE down # <<>> /\ down' = Tail(down) /\ UNCHANGED <<phone, task, codex, late>>
  <2>1. Sound' /\ Calms
    BY <1>1, <1>2, DropsSound
  <2> QED BY <1>2, <2>1, CalmerKeeps
<1>3. CASE \E s \in Slots : \E o : Advances(s, phone, o, Tail(down)) /\ Moves(phone, task[s], o)
  <2>1. PICK s \in Slots : \E o : Advances(s, phone, o, Tail(down)) /\ Moves(phone, task[s], o)
    BY <1>3
  <2>2. PICK o : Advances(s, phone, o, Tail(down)) /\ Moves(phone, task[s], o)
    BY <2>1
  <2> QED BY <1>1, <2>2, MovedSound, MovedKeeps
<1> QED BY <1>2, <1>3, ReceivesMoves

(* The inductive invariant of the outbox. *)
LEMMA KeepsInit ==
  PhoneInit => Sound /\ Keeping
<1> SUFFICES ASSUME PhoneInit PROVE Sound /\ Keeping
  OBVIOUS
<1>1. /\ phone = [screen |-> TRUE, connected |-> TRUE, entered |-> TRUE,
                  active |-> FALSE, turn |-> NoTurn, done |-> NoTurn, listed |-> FALSE,
                  pending |-> NoMsg, intent |-> "start", stored |-> NoMsg, composer |-> NoMsg]
      /\ task = [s \in Slots |-> Free]
      /\ link = "up" /\ down = <<>> /\ late = <<>>
      /\ codex = [turn |-> NoTurn, last |-> NoTurn, told |-> [m \in Msgs |-> 0]]
      /\ mishaps = {} /\ sent = {} /\ raced = {} /\ doubted = {} /\ wandered = {} /\ erred = {}
  BY DEF PhoneInit
<1>2. NoTurn \in SomeTurn /\ NoMsg \in SomeMsg
  BY DEF SomeTurn, SomeMsg
<1>3. PhoneTypeOK /\ phone.screen /\ phone.connected /\ phone.entered
      /\ phone.pending = NoMsg /\ phone.stored = NoMsg /\ phone.composer = NoMsg
  BY <1>1, <1>2 DEF PhoneTypeOK
<1>4. task \in [Slots -> Tasks] /\ \A r \in Slots : TaskSound(task[r]) /\ ~AtWork(task[r])
         /\ task[r].m = NoMsg /\ task[r].kind = "none" /\ task[r].pc = "free"
  BY <1>1, FreeSound
<1>5. Held = {}
  BY <1>3, <1>4 DEF Held
<1>6. codex \in [turn : SomeTurn, last : SomeTurn, told : [Msgs -> Nat]]
      /\ codex.turn \in {NoTurn, codex.last}
  BY <1>1, <1>2
<1>7. Typed
  <2>1. /\ link \in {"up", "broken", "down"} /\ link # "down"
        /\ down \in Seq(Notes \cup Replies) /\ late \in Seq(Requests)
        /\ mishaps \subseteq Mishaps /\ sent \subseteq Msgs /\ Doubtful \subseteq sent /\ wandered \subseteq sent
        /\ Held \subseteq sent
    BY <1>1, <1>5 DEF Doubtful
  <2>2. phone.connected = (link # "down") /\ (~phone.entered => ~phone.connected)
    BY <1>3, <2>1
  <2>3. \A q, r \in Slots : task[q].kind = "send" /\ task[r].kind = "send" => q = r
    BY <1>4
  <2> QED BY <1>3, <1>4, <1>6, <2>1, <2>2, <2>3 DEF Typed
<1>8. AnswersSound /\ LateSent
  BY <1>1 DEF AnswersSound, OneAnswerEach, LateSent
<1>9. Keeping
  BY <1>1, <1>3, <1>4, <1>5 DEF Keeping, Alone, OneAtATime, Away, Holding, SentIsKept, Sender, AtWork
<1> QED BY <1>7, <1>8, <1>9 DEF Sound

LEMMA KeepsStep ==
  Sound /\ Keeping /\ [PhoneNext]_phone_vars => Sound' /\ Keeping'
<1> SUFFICES ASSUME Sound, Keeping, [PhoneNext]_phone_vars PROVE Sound' /\ Keeping'
  OBVIOUS
<1>1. ASSUME NEW s \in Slots, NEW m \in Msgs, Sends(s, m) PROVE Sound' /\ Keeping'
  BY <1>1, SendsSound, SendsKeeps
<1>2. ASSUME NEW s \in Slots, Returns(s) PROVE Sound' /\ Keeping'
  BY <1>2, ReturnsSound, ReturnsKeeps
<1>3. ASSUME NEW s \in Slots, Notified(s) PROVE Sound' /\ Keeping'
  <2>1. /\ Sound' /\ Calms /\ Hold(phone') = Hold(phone) /\ phone'.entered = phone.entered
        /\ phone'.screen = phone.screen
    BY <1>3, NotifiedSound DEF Where
  <2> QED BY <2>1, CalmerKeeps
<1>4. ASSUME NEW s \in Slots, Settles(s) PROVE Sound' /\ Keeping'
  BY <1>4, SettlesKeeps
<1>5. ASSUME NEW s \in Slots, TimesOut(s) PROVE Sound' /\ Keeping'
  BY <1>5, TimesOutKeeps
<1>6. ASSUME NEW s \in Slots, NEW how \in {"sync", "open"}, Reconnects(s, how) PROVE Sound' /\ Keeping'
  BY <1>6, ReconnectsSound, ReconnectsKeeps
<1>7. CASE Leaves
  <2>1. /\ Sound' /\ Calms /\ phone' = [phone EXCEPT !.screen = FALSE] /\ phone \in Pages
        /\ ({phone.pending, phone.stored} \cup {task[s].m : s \in Slots}) \ {NoMsg} \subseteq wandered'
    BY <1>7, LeavesSound DEF Sound, Typed, PhoneTypeOK, Pages
  <2>2. phone'.entered = phone.entered
    BY <2>1 DEF Pages
  <2> QED BY <2>1, <2>2, HeldNames, CalmKeeps
<1>8. CASE Receives
  BY <1>8, ReceivesKeeps
<1>9. CASE Breaks
  <2>1. Sound' /\ Calms /\ phone' = phone
    BY <1>9, BreaksSound DEF Breaks
  <2> QED BY <2>1, CalmerKeeps
<1>10. CASE Disconnects
  <2>1. Sound' /\ Calms /\ phone'.screen = phone.screen /\ phone'.entered = phone.entered
    BY <1>10, DisconnectsSound
  <2> QED BY <2>1, HeldNames, CalmKeeps
<1>11. CASE Reloads
  BY <1>11, ReloadsSound, ReloadsKeeps
<1>12. CASE LateArrives
  <2>1. Sound' /\ Calms /\ phone' = phone
    BY <1>12, LateSoundly DEF LateArrives
  <2> QED BY <2>1, CalmerKeeps
<1>13. CASE TurnEnds
  <2>1. Sound' /\ Calms /\ phone' = phone
    BY <1>13, TurnEndsSound DEF TurnEnds
  <2> QED BY <2>1, CalmerKeeps
<1>14. CASE DesktopStarts
  <2>1. Sound' /\ Calms /\ phone' = phone
    BY <1>14, DesktopStartsSound DEF DesktopStarts
  <2> QED BY <2>1, CalmerKeeps
<1>16. CASE TurnErrs
  <2>1. Sound' /\ Calms /\ phone' = phone
    BY <1>16, TurnErrsSound DEF TurnErrs
  <2> QED BY <2>1, CalmerKeeps
<1>15. CASE UNCHANGED phone_vars
  <2>1. /\ phone' = phone /\ task' = task /\ link' = link /\ down' = down /\ late' = late /\ codex' = codex
        /\ mishaps' = mishaps /\ sent' = sent /\ raced' = raced /\ doubted' = doubted
        /\ wandered' = wandered
    BY <1>15 DEF phone_vars
  <2>2. Sound'
    <3>1. Heard' = Heard
      BY <2>1 DEF Heard
    <3>2. AnswersSound'
      BY <2>1, <3>1 DEF Sound, AnswersSound
    <3>3. /\ down' \in Seq(Notes \cup Replies) /\ late' \in Seq(Requests) /\ (link = "down" => down' = <<>>)
          /\ codex' \in Threads /\ codex'.turn \in {NoTurn, codex'.last}
      BY <2>1 DEF Sound, Typed, Threads
    <3> QED BY <2>1, <3>1, <3>2, <3>3, CodexSound
  <2>3. Calms
    BY <2>1 DEF Calms, Hold, Heard, Doubtful
  <2> QED BY <2>1, <2>2, <2>3, CalmerKeeps
<1> QED BY <1>1, <1>2, <1>3, <1>4, <1>5, <1>6, <1>7, <1>8, <1>9, <1>10, <1>11, <1>12, <1>13, <1>14, <1>15, <1>16
        DEF PhoneNext

(* What the types the runs check say follows. *)
LEMMA TypedTypes ==
  ASSUME Typed, erred \subseteq Turns PROVE OutboxTypeOK
<1>1. Cardinality({s \in Slots : task[s].kind = "send"}) <= 1
  <2> DEFINE S == {s \in Slots : task[s].kind = "send"}
  <2>1. CASE S = {}
    BY <2>1, FS_EmptySet
  <2>2. CASE S # {}
    <3>1. PICK s \in S : TRUE
      BY <2>2
    <3>2. S = {s}
      BY <3>1 DEF Typed
    <3> HIDE DEF S
    <3>3. Cardinality(S) = 1
      BY <3>2, FS_Singleton
    <3> QED BY <3>3 DEF S
  <2> QED BY <2>1, <2>2
<1>2. task \in [Slots -> [pc : TaskPcs, kind : TaskKinds, m : SomeMsg, turn : SomeTurn, flag : BOOLEAN]]
      /\ \A s \in Slots : (task[s].kind = "none") = (task[s].pc = "free")
  BY DEF Typed, Tasks, TaskSound
<1>3. codex.turn \in {NoTurn, codex.last} /\ codex.last \in SomeTurn /\ codex.told \in [Msgs -> Nat]
  BY DEF Typed
<1> QED BY <1>1, <1>2, <1>3 DEF Typed, OutboxTypeOK, Doubtful

(* Codex tells of errors of turns it is at. *)
LEMMA ErredStep ==
  Sound /\ Keeping /\ erred \subseteq Turns /\ [PhoneNext]_phone_vars =>
    Sound' /\ Keeping' /\ (erred \subseteq Turns)'
<1> SUFFICES ASSUME Sound, Keeping, erred \subseteq Turns, [PhoneNext]_phone_vars
             PROVE  erred' \subseteq Turns
  BY KeepsStep
<1>1. TurnErrs => codex.turn \in Turns
  BY DEF TurnErrs, Sound, Typed, SomeTurn
<1>2. erred' = erred \/ (TurnErrs /\ erred' = erred \cup {codex.turn})
  BY DEF PhoneNext, phone_vars, Sends, Returns, Notified, Settles, TimesOut, Reconnects, Leaves, Receives,
         Breaks, Disconnects, Reloads, LateArrives, TurnEnds, TurnErrs, DesktopStarts
<1> QED BY <1>1, <1>2

(* The state of the phone's outbox is what its declarations say, and one   *)
(* submission at most is awaited.                                          *)
THEOREM OutboxTypeCorrect == PhoneSpec => []OutboxTypeOK
<1>1. Sound /\ erred \subseteq Turns => OutboxTypeOK
  BY TypedTypes DEF Sound
<1>2. PhoneInit => erred \subseteq Turns
  BY DEF PhoneInit
<1> QED BY <1>1, <1>2, KeepsInit, ErredStep, PTL DEF PhoneSpec

(* A message that was sent reaches Codex, or the app still means to find   *)
(* out, or it is back in the composer, lost connections, timeouts and      *)
(* reloads included, unless the user wandered off or two continuations     *)
(* were at it.                                                             *)
THEOREM SentStaysKept == PhoneSpec => []SentIsKept
<1>1. Sound /\ Keeping => SentIsKept
  BY DEF Keeping
<1> QED BY <1>1, KeepsInit, KeepsStep, PTL DEF PhoneSpec

----
(* Nothing is told twice.  What a step of task s does to Codex and to the  *)
(* queue.                                                                  *)
Tolds(s, o) ==
  /\ link = "up" /\ Ask(o.k.pc) /\ o.k.m \in Msgs /\ late' = late
  /\ codex'.told = [codex.told EXCEPT ![o.k.m] = @ + 1] /\ Heard' = Heard \cup {o.k.m}
  /\ \E i \in DOMAIN down' : down'[i].slot = s /\ down'[i].ok

LEMMA AdvanceEffect ==
  ASSUME Sound, NEW s, NEW p, NEW o, NEW rest, Advances(s, p, o, rest)
  PROVE  /\ \A i \in DOMAIN rest : i \in DOMAIN down' /\ down'[i] = rest[i]
         /\ \A i \in DOMAIN down' :
              \/ i \in DOMAIN rest /\ down'[i] = rest[i]
              \/ /\ down'[i].slot = s /\ o.k.pc \notin Unawaited /\ down'[i].of = OpAt(o.k.pc)
                 /\ down'[i].has = IF OpAt(o.k.pc) = "page" THEN Heard ELSE {}
              \/ down'[i].slot = NoSlot
         /\ Tolds(s, o) \/ (codex'.told = codex.told /\ Heard' = Heard)
<1>1. /\ Typed /\ s \in Slots /\ rest \in Seq(Notes \cup Replies) /\ TaskSound(o.k) /\ o.k \in Tasks
  BY DEF Sound, Advances, Resting, GoesWell, TaskSound
<1>2. CASE down' = rest /\ codex' = codex
  BY <1>2 DEF Heard
<1>3. CASE /\ o.k.pc \notin Unawaited /\ Request(o.k) \in Requests
           /\ link = "up" /\ late' = late /\ Handled(Request(o.k), s, rest)
  <2> DEFINE r == Request(o.k)
  <2>1. PICK a \in Replies, n \in Notes : \E q \in {<<a>>, <<a, n>>} :
           /\ a.of = r.op /\ a.slot = s
           /\ a.has = IF r.op = "page" THEN Heard ELSE {}
           /\ down' = IF link = "up" THEN rest \o q ELSE rest
           /\ Begins(r, a, n, q) \/ Joins(r, a, q) \/ Refuses(r, a, q) \/ Tells(r, a, q)
    BY <1>3 DEF Handled
  <2>2. PICK q \in {<<a>>, <<a, n>>} :
           /\ a.of = r.op /\ a.slot = s
           /\ a.has = IF r.op = "page" THEN Heard ELSE {}
           /\ down' = IF link = "up" THEN rest \o q ELSE rest
           /\ Begins(r, a, n, q) \/ Joins(r, a, q) \/ Refuses(r, a, q) \/ Tells(r, a, q)
    BY <2>1
  <2>3. r \in Requests /\ r.op = OpAt(o.k.pc) /\ r.m = o.k.m
    BY <1>1, <1>3, RequestsAre
  <2> HIDE DEF r
  <2>4. Continues(rest \o q, rest, a, n, q) /\ down' = rest \o q
    BY <1>1, <1>3, <2>2, AnswersAtTheEnd
  <2>5. n.slot = NoSlot
    BY DEF Notes
  <2>6. /\ \A i \in DOMAIN rest : i \in DOMAIN down' /\ down'[i] = rest[i]
        /\ \A i \in DOMAIN down' :
              \/ i \in DOMAIN rest /\ down'[i] = rest[i]
              \/ i = Len(rest) + 1 /\ down'[i] = a
              \/ i = Len(rest) + 2 /\ down'[i] = n
        /\ Len(rest) + 1 \in DOMAIN down' /\ down'[Len(rest) + 1] = a
    BY <2>4 DEF Continues
  <2>7. CASE Begins(r, a, n, q) \/ Joins(r, a, q)
    <3>1. /\ codex'.told = [codex.told EXCEPT ![r.m] = @ + 1] /\ a.ok /\ Ask(r.op)
          /\ Heard' = Heard \cup {r.m} /\ r.m \in Msgs
      BY <1>1, <2>3, <2>7, HearsOf DEF Begins, Joins, Ask, Requests
    <3>2. Ask(o.k.pc)
      BY <2>3, <3>1 DEF Ask, OpAt
    <3>3. \E i \in DOMAIN down' : down'[i].slot = s /\ down'[i].ok
      BY <2>2, <2>6, <3>1
    <3>4. Tolds(s, o)
      BY <1>3, <2>3, <3>1, <3>2, <3>3 DEF Tolds
    <3> QED BY <1>3, <2>2, <2>3, <2>5, <2>6, <3>4
  <2>8. CASE Refuses(r, a, q) \/ Tells(r, a, q)
    <3>1. codex' = codex
      BY <2>8 DEF Refuses, Tells
    <3>2. Heard' = Heard
      BY <3>1 DEF Heard
    <3> QED BY <1>3, <2>2, <2>3, <2>5, <2>6, <3>1, <3>2
  <2> QED BY <2>2, <2>7, <2>8
<1> QED BY <1>2, <1>3 DEF Advances

(* What is left on the way: every answer, but for those to task s. *)
Leaving(s, rest) ==
  /\ \A i \in DOMAIN down : down[i].slot \notin {NoSlot, s} =>
       \E j \in DOMAIN rest : rest[j] = down[i]
  /\ \A j \in DOMAIN rest : rest[j].slot # NoSlot => \E i \in DOMAIN down : down[i] = rest[j]

LEMMA LeavingAll ==
  ASSUME NEW s
  PROVE  Leaving(s, down)
BY DEF Leaving

LEMMA LeavingTail ==
  ASSUME Sound, down # <<>>
  PROVE  Leaving(Head(down).slot, Tail(down))
<1>1. /\ \A i \in DOMAIN Tail(down) : i + 1 \in DOMAIN down /\ Tail(down)[i] = down[i + 1]
      /\ Head(down) = down[1] /\ Len(down) \in Nat
      /\ DOMAIN Tail(down) = 1 .. (Len(down) - 1) /\ DOMAIN down = 1 .. Len(down)
  BY RestOfQueue
<1>2. ASSUME NEW i \in DOMAIN down, down[i].slot # Head(down).slot
      PROVE  \E j \in DOMAIN Tail(down) : Tail(down)[j] = down[i]
  <2>1. i # 1
    BY <1>1, <1>2
  <2>2. i - 1 \in DOMAIN Tail(down) /\ (i - 1) + 1 = i
    BY <1>1, <2>1
  <2> QED BY <1>1, <2>2
<1> QED BY <1>1, <1>2 DEF Leaving

LEMMA LeavingDisowned ==
  ASSUME Sound, NEW s \in Slots
  PROVE  Leaving(s, Disown(down, s))
<1>1. /\ DOMAIN Disown(down, s) = DOMAIN down
      /\ \A i \in DOMAIN down :
           /\ down[i].slot = s => Disown(down, s)[i] = [down[i] EXCEPT !.slot = NoSlot]
           /\ down[i].slot # s => Disown(down, s)[i] = down[i]
  BY Disowned
<1>2. \A i \in DOMAIN down : down[i].slot = s => [down[i] EXCEPT !.slot = NoSlot].slot = NoSlot
  <2>1. \A i \in DOMAIN down : down[i] \in Notes \cup Replies
    BY DEF Sound, Typed
  <2> QED BY <2>1 DEF Notes, Replies
<1> QED BY <1>1, <1>2 DEF Leaving

(* The calls that are late, of messages that are not in doubt, are not     *)
(* those of task s.                                                        *)
LateOfOthers(s) ==
  \A j \in DOMAIN late : Ask(late[j].op) /\ late[j].m \notin Doubtful' =>
     \E t \in Slots \ {s} : Ask(task[t].pc) /\ task[t].m = late[j].m
                            /\ \A i \in DOMAIN down : down[i].slot # t

Unheard(m) == m \notin Heard /\ \A j \in DOMAIN late : ~Asks(j, m)

LEMMA AdvanceTells ==
  ASSUME Sound, Telling, NEW s, NEW p, NEW o, NEW rest, Advances(s, p, o, rest),
         Leaving(s, rest), LateOfOthers(s), Sound', Alone', Doubtful \subseteq Doubtful', sent \subseteq sent',
         Sender(o.k) => o.k.m \in Doubtful' \/ (Unheard(o.k.m) /\ phone'.composer # o.k.m),
         \A m \in sent' \ Doubtful' : phone'.composer = m =>
            codex.told[m] = 0 /\ \A r \in Slots : Sender(task'[r]) => task'[r].m # m
  PROVE  Telling'
<1>1. /\ Typed /\ s \in Slots /\ link' = link /\ s # NoSlot /\ TaskSound(o.k) /\ o.k \in Tasks
      /\ \A i \in DOMAIN rest : rest[i].slot # s
      /\ \A r \in Slots : TaskSound(task'[r]) /\ TaskSound(task[r])
      /\ task'[s] = o.k /\ \A r \in Slots \ {s} : task'[r] = task[r]
      /\ codex.told \in [Msgs -> Nat] /\ sent \subseteq Msgs /\ sent' \subseteq Msgs /\ Held' \subseteq sent'
      /\ late \in Seq(Requests) /\ down \in Seq(Notes \cup Replies)
  <2>1. /\ Typed /\ s \in Slots /\ link' = link /\ TaskSound(o.k)
        /\ \A i \in DOMAIN rest : rest[i].slot # s
    BY DEF Sound, Advances, Resting, GoesWell
  <2>2. /\ s # NoSlot /\ o.k \in Tasks
    BY <2>1, PhoneAssumption DEF TaskSound, NoSlot
  <2>3. task'[s] = o.k /\ \A r \in Slots \ {s} : task'[r] = task[r]
    BY AdvanceSound
  <2>4. /\ \A r \in Slots : TaskSound(task'[r]) /\ TaskSound(task[r])
        /\ codex.told \in [Msgs -> Nat] /\ sent \subseteq Msgs /\ sent' \subseteq Msgs /\ Held' \subseteq sent'
        /\ late \in Seq(Requests) /\ down \in Seq(Notes \cup Replies)
    BY DEF Sound, Typed
  <2> QED BY <2>1, <2>2, <2>3, <2>4
<1>2. /\ \A i \in DOMAIN rest : i \in DOMAIN down' /\ down'[i] = rest[i]
      /\ \A i \in DOMAIN down' :
              \/ i \in DOMAIN rest /\ down'[i] = rest[i]
              \/ /\ down'[i].slot = s /\ o.k.pc \notin Unawaited /\ down'[i].of = OpAt(o.k.pc)
                 /\ down'[i].has = IF OpAt(o.k.pc) = "page" THEN Heard ELSE {}
              \/ down'[i].slot = NoSlot
      /\ Tolds(s, o) \/ (codex'.told = codex.told /\ Heard' = Heard)
  BY AdvanceEffect
<1>3. /\ \A i \in DOMAIN late : i \in DOMAIN late' /\ late'[i] = late[i]
      /\ \/ late' = late
         \/ link = "broken" /\ down' = rest /\ codex' = codex
      /\ \A i \in DOMAIN late' : (i \in DOMAIN late /\ late'[i] = late[i])
                                \/ (i = Len(late) + 1 /\ late'[i] = Request(o.k) /\ o.k.pc \notin Unawaited)
  BY <1>1, LateAfter
<1>4. \A r \in Slots : Ask(task'[r].pc) => Sender(task'[r])
  BY <1>1 DEF TaskSound, Ask, SenderPcs
<1>5. Tolds(s, o) => Sender(o.k)
  BY <1>1, <1>4 DEF Tolds
<1>6. \A r \in Slots : r # s /\ Tolds(s, o) /\ AtWork(task'[r]) => task'[r].m \in Doubtful' /\ o.k.m \in Doubtful'
  BY <1>1, <1>5 DEF Alone, Doubtful
<1>7. /\ LateSound /\ SendersSound /\ SettlersSound /\ Heard \subseteq sent /\ ToldOnce
      /\ \A m \in sent \ Doubtful : phone.composer = m => \A r \in Slots : Sender(task[r]) => task[r].m # m
  BY DEF Telling
(* No answer comes to a task that had none, but for s. *)
<1>8. ASSUME NEW t \in Slots, t # s, \A i \in DOMAIN down : down[i].slot # t
      PROVE  \A i \in DOMAIN down' : down'[i].slot # t
  <2>1. t # NoSlot
    BY PhoneAssumption DEF NoSlot
  <2> QED BY <1>2, <1>8, <2>1 DEF Leaving
<1>9. LateSound'
  <2>1. link' # "broken" => \A i \in DOMAIN late' : late'[i].m \in Doubtful' \cup {NoMsg}
    BY <1>1, <1>3, <1>7 DEF LateSound
  <2>2. ASSUME NEW i \in DOMAIN late', Ask(late'[i].op), late'[i].m \notin Doubtful'
        PROVE  /\ late'[i].m \in Msgs \ Heard'
               /\ \E t \in Slots : Ask(task'[t].pc) /\ task'[t].m = late'[i].m
                                   /\ \A j \in DOMAIN down' : down'[j].slot # t
               /\ \A j \in DOMAIN late' : Ask(late'[j].op) /\ late'[j].m = late'[i].m => j = i
    <3> DEFINE m == late'[i].m
    <3>1. CASE i \in DOMAIN late /\ late'[i] = late[i]
      <4>1. m = late[i].m /\ Ask(late[i].op) /\ m \notin Doubtful
        BY <2>2, <3>1
      <4>2. /\ m \in Msgs \ Heard /\ (link # "broken" => m \in Doubtful \cup {NoMsg})
            /\ \A j \in DOMAIN late : Asks(j, m) => j = i
        BY <1>7, <3>1, <4>1 DEF LateSound, Ask
      <4>3. m \notin Heard'
        BY <1>2, <4>1, <4>2, PhoneAssumption DEF Tolds
      <4>4. PICK t \in Slots \ {s} : Ask(task[t].pc) /\ task[t].m = m
                                     /\ \A j \in DOMAIN down : down[j].slot # t
        BY <2>2, <3>1 DEF LateOfOthers
      <4>5. Ask(task'[t].pc) /\ task'[t].m = m /\ \A j \in DOMAIN down' : down'[j].slot # t
        BY <1>1, <1>8, <4>4
      <4>6. ASSUME NEW j \in DOMAIN late', Ask(late'[j].op), late'[j].m = m
            PROVE  j = i
        <5>1. CASE j \in DOMAIN late /\ late'[j] = late[j]
          BY <4>2, <4>6, <5>1 DEF Asks, Ask
        <5>2. CASE late'[j] = Request(o.k) /\ o.k.pc \notin Unawaited
          <6>1. Sender(o.k) /\ o.k.m = m
            BY <1>1, <1>4, <4>6, <5>2, RequestsAre DEF Ask, OpAt, TaskSound, SenderPcs
          <6> QED BY <2>2, <3>1, <4>1, <6>1 DEF Unheard, Asks, Ask
        <5> QED BY <1>3, <5>1, <5>2
      <4> QED BY <4>2, <4>3, <4>5, <4>6
    <3>2. CASE i = Len(late) + 1 /\ late'[i] = Request(o.k) /\ o.k.pc \notin Unawaited /\ i \notin DOMAIN late
      <4>1. /\ Ask(o.k.pc) /\ Sender(o.k) /\ o.k.m = m /\ m \in Msgs
        BY <1>1, <2>2, <3>2, RequestsAre DEF Ask, OpAt, TaskSound, SenderPcs, AtWork
      <4>2. late' # late
        BY <3>2
      <4>3. link = "broken" /\ down' = rest /\ codex' = codex
        BY <1>3, <4>2
      <4>4. Heard' = Heard
        BY <4>3 DEF Heard
      <4>5. Unheard(m)
        BY <2>2, <4>1
      <4>6. ASSUME NEW j \in DOMAIN late', Ask(late'[j].op), late'[j].m = m
            PROVE  j = i
        BY <1>3, <3>2, <4>5, <4>6 DEF Unheard, Asks, Ask
      <4> QED BY <1>1, <4>1, <4>3, <4>4, <4>5, <4>6 DEF Unheard
    <3> QED BY <1>3, <3>1, <3>2
  <2> QED BY <2>1, <2>2 DEF LateSound, Ask, Asks
<1>10. SendersSound'
  <2> SUFFICES ASSUME NEW r \in Slots, Sender(task'[r]), task'[r].m \in Heard' \ Doubtful'
               PROVE  /\ Ask(task'[r].pc)
                      /\ \/ link' = "broken" /\ \A i \in DOMAIN down' : down'[i].slot # r
                         \/ \E i \in DOMAIN down' : down'[i].slot = r /\ down'[i].ok
    BY DEF SendersSound
  <2>1. CASE r = s
    <3>1. o.k.m \notin Heard
      BY <1>1, <2>1 DEF Unheard
    <3>2. Tolds(s, o)
      BY <1>1, <1>2, <2>1, <3>1
    <3> QED BY <1>1, <2>1, <3>2 DEF Tolds
  <2>2. CASE r # s
    <3>1. task'[r] = task[r]
      BY <1>1, <2>2
    <3>2. task[r].m \in Heard
      BY <1>2, <1>6, <2>2, <3>1 DEF Tolds, AtWork
    <3>3. /\ Ask(task[r].pc)
          /\ \/ link = "broken" /\ \A i \in DOMAIN down : down[i].slot # r
             \/ \E i \in DOMAIN down : down[i].slot = r /\ down[i].ok
      BY <1>7, <3>1, <3>2 DEF SendersSound
    <3>4. CASE link = "broken" /\ \A i \in DOMAIN down : down[i].slot # r
      BY <1>1, <1>8, <2>2, <3>1, <3>3, <3>4
    <3>5. CASE \E i \in DOMAIN down : down[i].slot = r /\ down[i].ok
      <4>1. PICK i \in DOMAIN down : down[i].slot = r /\ down[i].ok
        BY <3>5
      <4>2. r # NoSlot
        BY PhoneAssumption DEF NoSlot
      <4>3. PICK j \in DOMAIN rest : rest[j] = down[i]
        BY <2>2, <4>1, <4>2 DEF Leaving
      <4> QED BY <1>2, <3>1, <3>3, <4>1, <4>3
    <3> QED BY <3>3, <3>4, <3>5
  <2> QED BY <2>1, <2>2
<1>11. SettlersSound'
  <2> SUFFICES ASSUME NEW i \in DOMAIN down', down'[i].op = "answer", down'[i].slot # NoSlot,
                      task'[down'[i].slot].pc = "settle", task'[down'[i].slot].m \notin Doubtful',
                      task'[down'[i].slot].m \in Heard'
               PROVE  task'[down'[i].slot].m \in down'[i].has
    BY DEF SettlersSound
  <2> DEFINE r == down'[i].slot
  <2>1. CASE i \in DOMAIN rest /\ down'[i] = rest[i]
    <3>1. PICK j \in DOMAIN down : down[j] = down'[i]
      BY <2>1 DEF Leaving
    <3>2. r \in Slots /\ r # s
      <4>1. down[j] \in Notes \cup Replies
        BY <1>1
      <4> QED BY <1>1, <2>1, <3>1, <4>1 DEF Notes, Replies
    <3>3. task'[r] = task[r] /\ AtWork(task'[r])
      BY <1>1, <3>2 DEF AtWork
    <3>4. task[r].m \in Heard
      BY <1>2, <1>6, <3>2, <3>3 DEF Tolds
    <3> QED BY <1>7, <3>1, <3>3, <3>4 DEF SettlersSound
  <2>2. CASE down'[i].slot = s /\ down'[i].has = IF OpAt(o.k.pc) = "page" THEN Heard ELSE {}
    <3>1. o.k.pc = "settle" /\ ~Ask(o.k.pc)
      BY <1>1, <2>2 DEF Ask
    <3>2. Heard' = Heard /\ OpAt(o.k.pc) = "page"
      BY <1>2, <3>1 DEF Tolds, OpAt
    <3> QED BY <2>2, <3>2
  <2> QED BY <1>2, <2>1, <2>2
<1>12. Heard' \subseteq sent'
  <2>1. Tolds(s, o) => o.k.m \in Held'
    BY <1>1, <1>5, PhoneAssumption DEF Held, AtWork, Tolds
  <2> QED BY <1>1, <1>2, <1>7, <2>1 DEF Tolds
<1>13. ToldOnce'
  <2> SUFFICES ASSUME NEW m \in sent' \ Doubtful'
               PROVE  codex'.told[m] <= IF phone'.composer = m THEN 0 ELSE 1
    BY DEF ToldOnce, Doubtful
  <2>1. m \in Msgs /\ codex.told[m] \in Nat
    BY <1>1
  <2>2. codex.told[m] <= 1
    <3>1. CASE m \in sent
      BY <1>7, <2>1, <3>1 DEF ToldOnce, Doubtful
    <3>2. CASE m \notin sent
      <4>1. ~(codex.told[m] > 0)
        BY <1>7, <2>1, <3>2 DEF Heard
      <4> QED BY <2>1, <4>1
    <3> QED BY <3>1, <3>2
  <2>3. CASE codex'.told = codex.told
    BY <2>1, <2>2, <2>3
  <2>4. CASE Tolds(s, o)
    <3>1. codex'.told[m] = IF m = o.k.m THEN codex.told[m] + 1 ELSE codex.told[m]
      BY <1>1, <2>1, <2>4 DEF Tolds
    <3>2. CASE m # o.k.m
      BY <2>1, <2>2, <3>1, <3>2
    <3>3. CASE m = o.k.m
      <4>1. m \notin Heard /\ phone'.composer # m
        BY <1>5, <2>4, <3>3 DEF Unheard
      <4>2. ~(codex.told[m] > 0)
        BY <2>1, <4>1 DEF Heard
      <4> QED BY <2>1, <3>1, <3>3, <4>1, <4>2
    <3> QED BY <3>2, <3>3
  <2> QED BY <1>2, <2>3, <2>4
<1> QED BY <1>9, <1>10, <1>11, <1>12, <1>13 DEF Telling

(* A step of one continuation, seen to tell nothing twice. *)
Informed(s, o) ==
  \/ AtWork(task[s]) => task[s].m \in Doubtful' \/ Unheard(task[s].m)
  \/ ~Sender(o.k) /\ phone'.composer = phone.composer

LEMMA MovedTells ==
  ASSUME Sound, Keeping, Telling, NEW s \in Slots, NEW o, NEW rest, Advances(s, phone, o, rest),
         Moves(phone, task[s], o),
         Races, doubted' \subseteq doubted \cup Held, doubted \subseteq doubted',
         sent' = sent, wandered' = wandered, mishaps' \subseteq Mishaps,
         Leaving(s, rest), LateOfOthers(s), Informed(s, o)
  PROVE  Telling'
<1> DEFINE k == task[s]
           c == phone.composer
           c2 == phone'.composer
<1>1. /\ Sound' /\ Heard \subseteq Heard' /\ Held' \subseteq Held /\ Alone' /\ Doubtful \subseteq Doubtful'
  BY MovedSound DEF Doubtful
<1>2. /\ phone' = o.p /\ task'[s] = o.k /\ \A r \in Slots \ {s} : task'[r] = task[r]
      /\ (o.q = <<>> => o.k = Free) /\ TaskSound(o.k) /\ TaskSound(k)
      /\ \A r \in Slots : TaskSound(task[r])
  BY AdvanceSound DEF Advances, GoesWell, Sound, Typed
<1>3. /\ \A x, y \in Held : x # y => x \in Doubtful /\ y \in Doubtful
      /\ \A r, t \in Slots : r # t /\ Sender(task[r]) /\ AtWork(task[t])
                        => task[r].m \in Doubtful /\ task[t].m \in Doubtful
      /\ \A r \in Slots : Sender(task[r]) /\ task[r].m \notin Doubtful => phone.pending = task[r].m
  BY DEF Keeping, OneAtATime, Alone, Holding, Doubtful
<1>4. /\ Heard \subseteq sent /\ sent \subseteq Msgs /\ ToldOnce /\ codex.told \in [Msgs -> Nat]
      /\ \A m \in sent \ Doubtful : c = m => \A r \in Slots : Sender(task[r]) => task[r].m # m
  BY DEF Telling, Sound, Typed
<1>5. AtWork(k) => k.m \in Held /\ k.m \in Msgs
  BY <1>2, PhoneAssumption DEF Held, TaskSound
<1>6. ~Sender(Free) /\ \A r \in Slots : Sender(task[r]) => AtWork(task[r])
  BY FreeSound DEF AtWork
<1>7. \A m \in sent : codex.told[m] \in Nat /\ (m \notin Heard => codex.told[m] = 0)
  BY <1>4 DEF Heard
<1>8. CASE ~Sender(o.k) /\ c2 = c
  <2>1. ASSUME NEW m \in sent \ Doubtful', c2 = m
        PROVE  codex.told[m] = 0 /\ \A r \in Slots : Sender(task'[r]) => task'[r].m # m
    <3>1. m \in sent \ Doubtful /\ c = m
      BY <1>1, <1>8, <2>1
    <3>2. codex.told[m] = 0
      BY <1>4, <1>7, <3>1 DEF ToldOnce, Doubtful
    <3> QED BY <1>2, <1>4, <1>8, <3>1, <3>2
  <2> QED BY <1>1, <1>8, <2>1, AdvanceTells
<1>9. CASE AtWork(k) /\ (k.m \in Doubtful' \/ Unheard(k.m)) /\ \E m \in {phone.pending, k.m} : GivesBack(phone, m, o)
  <2>1. PICK m \in {phone.pending, k.m} : GivesBack(phone, m, o)
    BY <1>9
  <2>2. m \in Held /\ o.k = Free /\ c2 \in {m, c} /\ m # NoMsg
    BY <1>2, <1>5, <1>9, <2>1 DEF GivesBack, Hold, Held
  <2>3. m = k.m \/ m \in Doubtful'
    BY <1>1, <1>3, <1>5, <1>9, <2>2
  <2>4. ASSUME NEW x \in sent \ Doubtful', c2 = x
        PROVE  codex.told[x] = 0 /\ \A r \in Slots : Sender(task'[r]) => task'[r].m # x
    <3>1. CASE x = c
      <4>1. codex.told[x] = 0
        BY <1>1, <1>4, <1>7, <3>1 DEF ToldOnce, Doubtful
      <4> QED BY <1>1, <1>2, <1>4, <1>6, <2>2, <3>1, <4>1
    <3>2. CASE x = k.m
      <4>1. x \notin Heard
        BY <1>9, <3>2 DEF Unheard
      <4>2. ASSUME NEW r \in Slots, Sender(task'[r]) PROVE task'[r].m # x
        <5>1. r # s /\ task'[r] = task[r]
          BY <1>2, <1>6, <2>2, <4>2
        <5> QED BY <1>1, <1>3, <1>9, <3>2, <4>2, <5>1
      <4> QED BY <1>7, <4>1, <4>2
    <3> QED BY <2>2, <2>3, <2>4, <3>1, <3>2
  <2> QED BY <1>1, <1>6, <2>2, <2>4, AdvanceTells
<1>10. CASE AtWork(k) /\ (k.m \in Doubtful' \/ Unheard(k.m)) /\ Sender(k) /\ SendsOn(phone, k, o)
  <2>1. o.k.m \in {k.m, phone.pending} /\ c2 = c /\ Sender(o.k) /\ AtWork(o.k)
    BY <1>2, <1>10 DEF SendsOn, AtWork
  <2>2. o.k.m = k.m \/ o.k.m \in Doubtful'
    <3>1. o.k.m \in Msgs
      BY <1>2, <2>1 DEF TaskSound
    <3>2. o.k.m \in Held
      BY <1>5, <1>10, <2>1, <3>1, PhoneAssumption DEF Held
    <3> QED BY <1>1, <1>3, <1>5, <1>10, <3>2
  <2>3. Sender(o.k) => o.k.m \in Doubtful' \/ (Unheard(o.k.m) /\ c2 # o.k.m)
    <3> SUFFICES ASSUME o.k.m \notin Doubtful' PROVE Unheard(k.m) /\ c # k.m
      BY <2>1, <2>2
    <3>1. k.m \notin Doubtful' /\ k.m \notin Doubtful /\ k.m \in sent
      <4>1. Held \subseteq sent
        BY DEF Sound, Typed
      <4> QED BY <1>1, <1>5, <1>10, <2>2, <4>1
    <3> QED BY <1>4, <1>10, <3>1
  <2>4. ASSUME NEW x \in sent \ Doubtful', c2 = x
        PROVE  codex.told[x] = 0 /\ \A r \in Slots : Sender(task'[r]) => task'[r].m # x
    <3>1. x \in sent \ Doubtful /\ c = x
      BY <1>1, <2>1, <2>4
    <3>2. codex.told[x] = 0
      BY <1>4, <1>7, <3>1 DEF ToldOnce, Doubtful
    <3> QED BY <1>2, <1>4, <2>1, <2>3, <2>4, <3>1, <3>2
  <2> QED BY <1>1, <2>3, <2>4, AdvanceTells
<1>11. CASE Stops(phone, o) \/ Adopts(phone, o) \/ Concludes(phone, o) \/ Synchronises(phone, k, o)
  <2>1. ~Sender(o.k)
    BY <1>2, <1>6, <1>11 DEF Stops, Adopts, Concludes, Synchronises, Sender
  <2>2. c2 = c
    BY <1>2, <1>11 DEF Stops, Adopts, Concludes, Synchronises, Hold
  <2> QED BY <1>8, <2>1, <2>2
<1>12. CASE Clears(phone, o) \/ Stores(phone, k.m, o)
  <2>1. ~Sender(o.k) /\ c2 = c
    BY <1>2, <1>6, <1>12 DEF Clears, Stores, Hold
  <2> QED BY <1>8, <2>1
<1> QED BY <1>8, <1>9, <1>10, <1>11, <1>12 DEF Moves, Informed

(* A steer or a start that was answered, a page that was read. *)
LEMMA ReceivesTells ==
  ASSUME Sound, Keeping, Telling, NEW s \in Slots, NEW o, Receives,
         Advances(s, phone, o, Tail(down)), Moves(phone, task[s], o),
         down # <<>>, Head(down).slot = s, Head(down) \in Replies,
         Answering(phone, task[s], Head(down), o)
  PROVE  Telling'
<1> DEFINE k == task[s]
           a == Head(down)
<1>1. /\ a = down[1] /\ 1 \in DOMAIN down
  BY RestOfQueue
<1>2. /\ Races /\ doubted' = doubted /\ sent' = sent /\ wandered' = wandered /\ mishaps' = mishaps /\ mishaps \subseteq Mishaps
      /\ Doubtful \subseteq Doubtful'
  BY DEF Receives, Sound, Typed, Races, Doubtful
<1>3. /\ OneAnswerEach(down) /\ s # NoSlot /\ TaskSound(k) /\ a.op = "answer"
      /\ \A r \in Slots : TaskSound(task[r])
  BY PhoneAssumption DEF Sound, AnswersSound, NoSlot, Typed, Replies
<1>4. \A t \in Slots : (\A i \in DOMAIN down : down[i].slot # t) => t # s
  BY <1>1
<1>5. \A r \in Slots : Ask(task[r].pc) => Sender(task[r])
  BY <1>3 DEF TaskSound, Ask, SenderPcs
<1>6. \A j \in DOMAIN late : Ask(late[j].op) /\ late[j].m \notin Doubtful =>
        \E t \in Slots : Ask(task[t].pc) /\ task[t].m = late[j].m /\ t # s
                            /\ \A i \in DOMAIN down : down[i].slot # t
  BY <1>4 DEF Telling, LateSound, Ask
<1>7. LateOfOthers(s)
  BY <1>2, <1>6 DEF LateOfOthers
<1>8. AtWork(k) /\ k.m \notin Doubtful => \A j \in DOMAIN late : ~Asks(j, k.m)
  BY <1>5, <1>6 DEF Asks, Ask, Keeping, Alone, Doubtful
<1>9. Leaving(s, Tail(down))
  BY LeavingTail
<1>10. Informed(s, o)
  <2>1. phone' = o.p /\ task'[s] = o.k /\ TaskSound(o.k)
    BY AdvanceSound DEF Advances, GoesWell
  <2>2. CASE Sender(k) /\ ~(Ask(k.pc) /\ a.ok)
    <3>1. k.m \in Heard => k.m \in Doubtful
      <4> SUFFICES ASSUME k.m \in Heard \ Doubtful PROVE FALSE
        OBVIOUS
      <4>1. /\ Ask(k.pc)
            /\ (\E i \in DOMAIN down : down[i].slot # s) \/ TRUE
            /\ \/ link = "broken" /\ \A i \in DOMAIN down : down[i].slot # s
               \/ \E i \in DOMAIN down : down[i].slot = s /\ down[i].ok
        BY <2>2 DEF Telling, SendersSound
      <4>2. PICK i \in DOMAIN down : down[i].slot = s /\ down[i].ok
        BY <1>1, <4>1
      <4>3. i = 1
        BY <1>1, <1>3, <4>2 DEF OneAnswerEach
      <4> QED BY <1>1, <2>2, <4>1, <4>2, <4>3
    <3> QED BY <1>2, <1>8, <3>1 DEF Informed, Unheard
  <2>3. CASE Clears(phone, o) \/ Stores(phone, k.m, o)
    <3>1. ~Sender(o.k) /\ phone'.composer = phone.composer
      BY <2>1, <2>3, FreeSound DEF Clears, Stores, Hold, Advances, GoesWell, AtWork
    <3> QED BY <3>1 DEF Informed
  <2>4. CASE k.pc = "settle" /\ k.m \notin a.has
    <3>1. k.m \in Heard => k.m \in Doubtful
      BY <1>1, <1>3, <2>4 DEF Telling, SettlersSound
    <3> QED BY <1>2, <1>8, <3>1 DEF Informed, Unheard
  <2>5. CASE ~Sender(k) /\ k.pc # "settle"
    BY <2>5 DEF Informed, AtWork
  <2> QED BY <2>2, <2>3, <2>4, <2>5 DEF Answering
<1> QED BY <1>2, <1>7, <1>9, <1>10, MovedTells

(* The calls that are late are those of tasks that send. *)
LEMMA LateAreSent ==
  ASSUME Sound, Telling, NEW s \in Slots, Doubtful \subseteq Doubtful',
         Ask(task[s].pc) => task[s].m \in Doubtful'
  PROVE  LateOfOthers(s)
BY DEF Telling, LateSound, Ask, LateOfOthers

LEMMA SettlesTells ==
  ASSUME Sound, Keeping, Telling, NEW s \in Slots, Settles(s)
  PROVE  Telling'
<1>1. /\ Races /\ doubted' = doubted /\ sent' = sent /\ wandered' = wandered /\ mishaps' \subseteq Mishaps
      /\ Doubtful \subseteq Doubtful'
  BY DEF Settles, Sound, Typed, Races, Doubtful
<1>2. PICK o : Advances(s, phone, o, down) /\ Moves(phone, task[s], o)
  BY SettlesMoves DEF Resumed
<1>3. ~Sender(task[s]) /\ ~AtWork(task[s]) /\ TaskSound(task[s])
  BY SettlesMoves DEF Sound, Typed
<1>4. ~Ask(task[s].pc)
  BY <1>3 DEF TaskSound, Ask, SenderPcs
<1>5. LateOfOthers(s)
  BY <1>1, <1>4, LateAreSent
<1>6. Leaving(s, down) /\ Informed(s, o)
  BY <1>3, LeavingAll DEF Informed
<1> QED BY <1>1, <1>2, <1>5, <1>6, MovedTells

LEMMA TimesOutTells ==
  ASSUME Sound, Keeping, Telling, NEW s \in Slots, TimesOut(s)
  PROVE  Telling'
<1>1. /\ Races /\ sent' = sent /\ wandered' = wandered /\ mishaps' \subseteq Mishaps
      /\ doubted' = doubted \cup ({phone.pending, task[s].m} \cap Msgs)
  BY Befallen DEF TimesOut, Sound, Mishaps
<1>2. PICK o : Advances(s, phone, o, Disown(down, s)) /\ Moves(phone, task[s], o)
  BY TimesOutMoves DEF Resumed
<1>3. TaskSound(task[s])
  BY DEF Sound, Typed
<1>4. Doubtful \subseteq Doubtful' /\ (AtWork(task[s]) => task[s].m \in Doubtful')
  BY <1>1, <1>3 DEF Doubtful, Races, TaskSound
<1>8. doubted' \subseteq doubted \cup Held /\ doubted \subseteq doubted'
  <2>1. AtWork(task[s]) \/ task[s].m = NoMsg
    BY <1>3 DEF TaskSound
  <2> QED BY <1>1, <2>1, PhoneAssumption DEF Held
<1>5. Ask(task[s].pc) => AtWork(task[s])
  BY <1>3 DEF TaskSound, Ask, SenderPcs, AtWork
<1>6. LateOfOthers(s)
  BY <1>4, <1>5, LateAreSent
<1>7. Leaving(s, Disown(down, s)) /\ Informed(s, o)
  BY <1>4, LeavingDisowned DEF Informed
<1> QED BY <1>1, <1>2, <1>6, <1>7, <1>8, MovedTells

LEMMA SendsTells ==
  ASSUME Sound, Keeping, Telling, NEW s \in Slots, NEW m \in Msgs, Sends(s, m)
  PROVE  Telling'
<1>1. /\ Sound' /\ Alone' /\ Doubtful \subseteq Doubtful' /\ sent' = sent \cup {m} /\ task[s] = Free
      /\ IF phone.composer = NoMsg THEN m \notin sent ELSE m = phone.composer
      /\ \A r \in Slots \ {s} : task'[r] = task[r]
  BY SendsSound DEF Doubtful
<1>2. PICK o : /\ Advances(s, phone, o, down) /\ Sender(o.k) /\ o.k.m = m /\ phone'.composer = NoMsg
               /\ task'[s] = o.k
  BY SendsSound
<1>3. /\ Heard \subseteq sent /\ sent \subseteq Msgs /\ ToldOnce /\ codex.told \in [Msgs -> Nat]
      /\ \A x \in sent \ Doubtful : phone.composer = x => \A r \in Slots : Sender(task[r]) => task[r].m # x
      /\ Held \subseteq sent /\ NoMsg \notin Msgs
  BY PhoneAssumption DEF Telling, Sound, Typed
<1>4. ~Ask(task[s].pc)
  BY <1>1, FreeSound DEF Ask
<1>5. LateOfOthers(s)
  BY <1>1, <1>4, LateAreSent
<1>6. \A r \in Slots : Ask(task[r].pc) => Sender(task[r]) /\ task[r].m \in Held
  BY PhoneAssumption DEF Sound, Typed, TaskSound, Ask, SenderPcs, AtWork, Held
<1>7. m \notin Doubtful' => Unheard(m)
  <2> SUFFICES ASSUME m \notin Doubtful' PROVE Unheard(m)
    OBVIOUS
  <2>1. m \notin Doubtful
    BY <1>1
  <2>2. m \notin Heard
    <3>1. CASE m \notin sent
      BY <1>3, <3>1
    <3>2. CASE m \in sent
      <4>1. m = phone.composer
        BY <1>1, <3>2
      <4>2. codex.told[m] <= 0
        BY <1>3, <2>1, <3>2, <4>1 DEF ToldOnce, Doubtful
      <4> QED BY <1>3, <4>2 DEF Heard
    <3> QED BY <3>1, <3>2
  <2>3. ASSUME NEW j \in DOMAIN late, Asks(j, m) PROVE FALSE
    <3>1. PICK t \in Slots : Ask(task[t].pc) /\ task[t].m = m
      BY <2>1, <2>3 DEF Telling, LateSound, Asks
    <3>2. Sender(task[t]) /\ m \in sent
      BY <1>3, <1>6, <3>1
    <3>3. m = phone.composer
      BY <1>1, <3>2
    <3> QED BY <1>3, <2>1, <3>1, <3>2, <3>3
  <2> QED BY <2>2, <2>3 DEF Unheard
<1>8. Sender(o.k) => o.k.m \in Doubtful' \/ (Unheard(o.k.m) /\ phone'.composer # o.k.m)
  BY <1>2, <1>3, <1>7
<1>9. Leaving(s, down)
  BY LeavingAll
<1>10. \A x \in sent' \ Doubtful' : phone'.composer = x =>
            codex.told[x] = 0 /\ \A r \in Slots : Sender(task'[r]) => task'[r].m # x
  BY <1>1, <1>2, <1>3
<1> QED BY <1>1, <1>2, <1>5, <1>8, <1>9, <1>10, AdvanceTells

LEMMA ReturnsTells ==
  ASSUME Sound, Keeping, Telling, NEW s \in Slots, Returns(s)
  PROVE  Telling'
<1>1. /\ Sound' /\ Doubtful' = Doubtful /\ sent' = sent /\ phone' = Shown(phone)
      /\ \A r \in Slots \ {s} : task'[r] = task[r]
      /\ task[s] = Free \/ task[s].kind = "open"
      /\ raced' = raced
  BY ReturnsSound DEF Doubtful
<1>2. PICK o : /\ Advances(s, Shown(phone), o, Disown(down, s)) /\ task'[s] = o.k
               /\ o.k.pc = "open" /\ o.k.kind = "open"
  BY ReturnsSound
<1>3. ~Sender(o.k) /\ ~AtWork(o.k)
  BY <1>2 DEF Sender, AtWork
<1>4. ~Ask(task[s].pc)
  BY <1>1, FreeSound DEF Ask, Sound, Typed, TaskSound
<1>5. LateOfOthers(s)
  BY <1>1, <1>4, LateAreSent
<1>6. Alone'
  BY <1>1, <1>2, <1>3 DEF Keeping, Alone, AtWork
<1>7. phone'.composer = phone.composer
  BY <1>1 DEF Shown, Sound, Typed, PhoneTypeOK
<1>8. \A m \in sent' \ Doubtful' : phone'.composer = m =>
            codex.told[m] = 0 /\ \A r \in Slots : Sender(task'[r]) => task'[r].m # m
  <2> SUFFICES ASSUME NEW m \in sent \ Doubtful, phone.composer = m
               PROVE  codex.told[m] = 0 /\ \A r \in Slots : Sender(task'[r]) => task'[r].m # m
    BY <1>1, <1>7
  <2>1. codex.told[m] <= 0 /\ codex.told[m] \in Nat
    BY DEF Telling, ToldOnce, Sound, Typed, Doubtful
  <2>2. \A r \in Slots : Sender(task[r]) => task[r].m # m
    BY DEF Telling
  <2> QED BY <1>1, <1>2, <1>3, <2>1, <2>2
<1>9. Leaving(s, Disown(down, s))
  BY LeavingDisowned
<1> QED BY <1>1, <1>2, <1>3, <1>5, <1>6, <1>8, <1>9, AdvanceTells

(* Steps that take up nothing and tell nothing. *)
LEMMA CalmTells ==
  ASSUME Sound, Telling, Calms, codex'.told = codex.told, late' = late,
         \A r \in Slots : task'[r] = task[r] \/ (~AtWork(task'[r]) /\ ~AtWork(task[r])),
         Leaving(NoSlot, down'), link' = link \/ (link = "up" /\ link' = "broken")
  PROVE  Telling'
<1>1. /\ phone'.composer = phone.composer /\ sent' = sent /\ Doubtful \subseteq Doubtful'
  BY DEF Calms, Hold
<1>2. Heard' = Heard
  BY DEF Heard
<1>3. /\ LateSound /\ SendersSound /\ SettlersSound /\ Heard \subseteq sent /\ ToldOnce
      /\ \A m \in sent \ Doubtful : phone.composer = m => \A r \in Slots : Sender(task[r]) => task[r].m # m
      /\ \A r \in Slots : TaskSound(task[r]) /\ r # NoSlot
      /\ \A i \in DOMAIN down : down[i].slot # NoSlot /\ down[i].op = "answer" => down[i].slot \in Slots
  <2>1. \A i \in DOMAIN down : down[i] \in Notes \cup Replies
    BY DEF Sound, Typed
  <2> QED BY <2>1, PhoneAssumption DEF Telling, Sound, Typed, NoSlot, Notes, Replies
<1>4. \A r \in Slots : AtWork(task[r]) \/ AtWork(task'[r]) => task'[r] = task[r]
  OBVIOUS
<1>5. \A r \in Slots : (\A i \in DOMAIN down : down[i].slot # r) => \A j \in DOMAIN down' : down'[j].slot # r
  BY <1>3 DEF Leaving
<1>6. \A r \in Slots : Ask(task[r].pc) => Sender(task[r]) /\ AtWork(task[r])
  BY <1>3 DEF TaskSound, Ask, SenderPcs, AtWork
<1>7. LateSound'
  <2>1. link' # "broken" => \A i \in DOMAIN late' : late'[i].m \in Doubtful' \cup {NoMsg}
    BY <1>1, <1>3 DEF LateSound
  <2>2. ASSUME NEW i \in DOMAIN late, Ask(late[i].op), late[i].m \notin Doubtful'
        PROVE  /\ late[i].m \in Msgs \ Heard
               /\ \E t \in Slots : Ask(task'[t].pc) /\ task'[t].m = late[i].m
                                   /\ \A j \in DOMAIN down' : down'[j].slot # t
               /\ \A j \in DOMAIN late : Ask(late[j].op) /\ late[j].m = late[i].m => j = i
    <3>1. /\ late[i].m \in Msgs \ Heard
          /\ \A j \in DOMAIN late : Asks(j, late[i].m) => j = i
      BY <1>1, <1>3, <2>2 DEF LateSound, Ask
    <3>2. PICK t \in Slots : Ask(task[t].pc) /\ task[t].m = late[i].m
                                   /\ \A j \in DOMAIN down : down[j].slot # t
      BY <1>1, <1>3, <2>2 DEF LateSound, Ask
    <3>3. task'[t] = task[t]
      BY <1>4, <1>6, <3>2
    <3> QED BY <1>5, <3>1, <3>2, <3>3 DEF Asks, Ask
  <2> QED BY <1>2, <2>1, <2>2 DEF LateSound, Ask, Asks
<1>8. SendersSound'
  <2> SUFFICES ASSUME NEW r \in Slots, Sender(task'[r]), task'[r].m \in Heard \ Doubtful'
               PROVE  /\ Ask(task'[r].pc)
                      /\ \/ link' = "broken" /\ \A i \in DOMAIN down' : down'[i].slot # r
                         \/ \E i \in DOMAIN down' : down'[i].slot = r /\ down'[i].ok
    BY <1>2 DEF SendersSound
  <2>1. task'[r] = task[r]
    BY <1>4 DEF AtWork
  <2>2. /\ Ask(task[r].pc)
        /\ \/ link = "broken" /\ \A i \in DOMAIN down : down[i].slot # r
           \/ \E i \in DOMAIN down : down[i].slot = r /\ down[i].ok
    BY <1>1, <1>3, <2>1 DEF SendersSound
  <2>3. (\E i \in DOMAIN down : down[i].slot = r /\ down[i].ok) =>
           \E i \in DOMAIN down' : down'[i].slot = r /\ down'[i].ok
    BY <1>3 DEF Leaving
  <2> QED BY <1>5, <2>1, <2>2, <2>3
<1>9. SettlersSound'
  <2> SUFFICES ASSUME NEW i \in DOMAIN down', down'[i].op = "answer", down'[i].slot # NoSlot,
                      task'[down'[i].slot].pc = "settle", task'[down'[i].slot].m \notin Doubtful',
                      task'[down'[i].slot].m \in Heard
               PROVE  task'[down'[i].slot].m \in down'[i].has
    BY <1>2 DEF SettlersSound
  <2>1. PICK j \in DOMAIN down : down[j] = down'[i]
    BY DEF Leaving
  <2>2. down[j].slot \in Slots /\ task'[down[j].slot] = task[down[j].slot]
    BY <1>3, <1>4, <2>1 DEF AtWork
  <2> QED BY <1>1, <1>3, <2>1, <2>2 DEF SettlersSound
<1>10. \A m \in sent' \ Doubtful' : phone'.composer = m => \A r \in Slots : Sender(task'[r]) => task'[r].m # m
  BY <1>1, <1>3, <1>4 DEF AtWork
<1>11. ToldOnce'
  BY <1>1, <1>3 DEF ToldOnce, Doubtful
<1> QED BY <1>1, <1>2, <1>3, <1>7, <1>8, <1>9, <1>10, <1>11 DEF Telling

(* Steps after which no task sends. *)
LEMMA FreshTells ==
  ASSUME Telling, codex'.told = codex.told, phone'.composer = phone.composer, sent' = sent,
         Doubtful \subseteq Doubtful', link' # "broken",
         \A r \in Slots : ~AtWork(task'[r]),
         \A i \in DOMAIN late' : late'[i].m \in Doubtful' \cup {NoMsg}, late' = late, Sound,
         \A i \in DOMAIN down' : down'[i].slot # NoSlot => down'[i].slot \in Slots
  PROVE  Telling'
<1>1. Heard' = Heard
  BY DEF Heard
<1>2. \A i \in DOMAIN late' : Ask(late'[i].op) => late'[i].m \in Doubtful'
  BY PhoneAssumption DEF Sound, Typed, Requests
<1>3. LateSound'
  BY <1>2 DEF LateSound, Ask
<1>4. SendersSound' /\ SettlersSound'
  BY DEF SendersSound, SettlersSound, AtWork
<1>5. ToldOnce'
  BY DEF Telling, ToldOnce, Doubtful
<1> QED BY <1>1, <1>3, <1>4, <1>5 DEF Telling, AtWork

(* What the desktop gets of a connection that is gone. *)
LEMMA LateEffect ==
  ASSUME Sound, LateArrives
  PROVE  LET r == Head(late) IN
         /\ late # <<>> /\ r = late[1] /\ 1 \in DOMAIN late /\ r \in Requests
         /\ \A i \in DOMAIN late' : i + 1 \in DOMAIN late /\ late'[i] = late[i + 1] /\ i + 1 # 1 /\ i \in Nat
         /\ \A i \in DOMAIN down : i \in DOMAIN down' /\ down'[i] = down[i]
         /\ \A i \in DOMAIN down' : (i \in DOMAIN down /\ down'[i] = down[i]) \/ down'[i].slot = NoSlot
         /\ \/ codex'.told = codex.told /\ Heard' = Heard
            \/ /\ Ask(r.op) /\ r.m \in Msgs
               /\ codex'.told = [codex.told EXCEPT ![r.m] = @ + 1] /\ Heard' = Heard \cup {r.m}
         /\ UNCHANGED <<phone, task, link, mishaps, sent, raced, doubted, wandered>>
<1> DEFINE r == Head(late)
<1>1. /\ Typed /\ late # <<>> /\ late \in Seq(Requests) /\ down \in Seq(Notes \cup Replies)
      /\ late' = Tail(late) /\ Handled(r, NoSlot, down)
      /\ UNCHANGED <<phone, task, link, mishaps, sent, raced, doubted, wandered>>
  BY LateSoundly DEF Sound, Typed, LateArrives
<1>2. r \in Requests /\ r = late[1] /\ 1 \in DOMAIN late
      /\ \A i \in DOMAIN late' : i + 1 \in DOMAIN late /\ late'[i] = late[i + 1] /\ i + 1 # 1 /\ i \in Nat
  BY <1>1
<1> HIDE DEF r
<1>3. PICK a \in Replies, n \in Notes : \E q \in {<<a>>, <<a, n>>} :
         /\ a.of = r.op /\ a.slot = NoSlot
         /\ down' = IF link = "up" THEN down \o q ELSE down
         /\ Begins(r, a, n, q) \/ Joins(r, a, q) \/ Refuses(r, a, q) \/ Tells(r, a, q)
  BY <1>1 DEF Handled
<1>4. PICK q \in {<<a>>, <<a, n>>} :
         /\ a.of = r.op /\ a.slot = NoSlot
         /\ down' = IF link = "up" THEN down \o q ELSE down
         /\ Begins(r, a, n, q) \/ Joins(r, a, q) \/ Refuses(r, a, q) \/ Tells(r, a, q)
  BY <1>3
<1>5. \/ codex'.told = codex.told /\ Heard' = Heard
      \/ /\ Ask(r.op) /\ r.m \in Msgs
         /\ codex'.told = [codex.told EXCEPT ![r.m] = @ + 1] /\ Heard' = Heard \cup {r.m}
  <2>1. CASE Begins(r, a, n, q) \/ Joins(r, a, q)
    BY <1>1, <1>2, <2>1, HearsOf DEF Begins, Joins, Ask, Requests
  <2>2. CASE Refuses(r, a, q) \/ Tells(r, a, q)
    BY <2>2 DEF Refuses, Tells, Heard
  <2> QED BY <1>4, <2>1, <2>2
<1>6. /\ \A i \in DOMAIN down : i \in DOMAIN down' /\ down'[i] = down[i]
      /\ \A i \in DOMAIN down' : (i \in DOMAIN down /\ down'[i] = down[i]) \/ down'[i].slot = NoSlot
  <2>1. CASE link = "up"
    <3>1. down' = down \o q
      BY <1>4, <2>1
    <3>2. Continues(down \o q, down, a, n, q)
      BY <1>1, AnswersAtTheEnd
    <3>3. n.slot = NoSlot
      BY DEF Notes
    <3> QED BY <1>4, <3>1, <3>2, <3>3 DEF Continues
  <2>2. CASE link # "up"
    BY <1>4, <2>2
  <2> QED BY <2>1, <2>2
<1> QED BY <1>1, <1>2, <1>5, <1>6 DEF r

LEMMA LateTells ==
  ASSUME Sound, Keeping, Telling, LateArrives
  PROVE  Telling'
<1> DEFINE r == Head(late)
           Told1 == /\ Ask(r.op) /\ r.m \in Msgs
                    /\ codex'.told = [codex.told EXCEPT ![r.m] = @ + 1] /\ Heard' = Heard \cup {r.m}
<1>1. /\ late # <<>> /\ r = late[1] /\ 1 \in DOMAIN late /\ r \in Requests
      /\ \A i \in DOMAIN late' : i + 1 \in DOMAIN late /\ late'[i] = late[i + 1] /\ i + 1 # 1 /\ i \in Nat
      /\ \A i \in DOMAIN down : i \in DOMAIN down' /\ down'[i] = down[i]
      /\ \A i \in DOMAIN down' : (i \in DOMAIN down /\ down'[i] = down[i]) \/ down'[i].slot = NoSlot
      /\ (codex'.told = codex.told /\ Heard' = Heard) \/ Told1
      /\ UNCHANGED <<phone, task, link, mishaps, sent, raced, doubted, wandered>>
      /\ Doubtful' = Doubtful
  BY LateEffect DEF Doubtful
<1>2. /\ LateSound /\ SendersSound /\ SettlersSound /\ Heard \subseteq sent /\ ToldOnce
      /\ \A m \in sent \ Doubtful : phone.composer = m => \A t \in Slots : Sender(task[t]) => task[t].m # m
      /\ \A t \in Slots : TaskSound(task[t]) /\ t # NoSlot
      /\ codex.told \in [Msgs -> Nat] /\ sent \subseteq Msgs
      /\ \A i \in DOMAIN down : down[i].op = "answer" /\ down[i].slot # NoSlot => down[i].slot \in Slots
  <2>1. \A i \in DOMAIN down : down[i] \in Notes \cup Replies
    BY DEF Sound, Typed
  <2> QED BY <2>1, PhoneAssumption DEF Telling, Sound, Typed, NoSlot, Notes, Replies
<1>3. \A t \in Slots : Ask(task[t].pc) => Sender(task[t]) /\ AtWork(task[t])
  BY <1>2 DEF TaskSound, Ask, SenderPcs, AtWork
<1>4. \A q, t \in Slots : q # t /\ Sender(task[q]) /\ AtWork(task[t])
                        => task[q].m \in Doubtful /\ task[t].m \in Doubtful
  BY DEF Keeping, Alone, Doubtful
<1> HIDE DEF r
(* The message that was late has one task, whose call it is. *)
<1>5. ASSUME Told1, r.m \notin Doubtful
      PROVE  /\ link = "broken" /\ r.m \notin Heard
             /\ \A j \in DOMAIN late : Asks(j, r.m) => j = 1
             /\ \E t \in Slots : Ask(task[t].pc) /\ task[t].m = r.m
                                 /\ \A j \in DOMAIN down : down[j].slot # t
  <2>1. r.m # NoMsg /\ Ask(late[1].op) /\ late[1].m = r.m
    BY <1>1, <1>5, PhoneAssumption
  <2> QED BY <1>1, <1>2, <1>5, <2>1 DEF LateSound, Ask
<1>6. LateSound'
  <2>1. link' # "broken" => \A i \in DOMAIN late' : late'[i].m \in Doubtful' \cup {NoMsg}
    BY <1>1, <1>2 DEF LateSound
  <2>2. ASSUME NEW i \in DOMAIN late', Ask(late'[i].op), late'[i].m \notin Doubtful
        PROVE  /\ late'[i].m \in Msgs \ Heard'
               /\ \E t \in Slots : Ask(task[t].pc) /\ task[t].m = late'[i].m
                                   /\ \A j \in DOMAIN down' : down'[j].slot # t
               /\ \A j \in DOMAIN late' : Ask(late'[j].op) /\ late'[j].m = late'[i].m => j = i
    <3> DEFINE m == late'[i].m
    <3>1. /\ i + 1 \in DOMAIN late /\ m = late[i + 1].m /\ Ask(late[i + 1].op) /\ i + 1 # 1
          /\ i \in Nat
      BY <1>1, <2>2
    <3>2. /\ m \in Msgs \ Heard
          /\ \A j \in DOMAIN late : Asks(j, m) => j = i + 1
      BY <1>2, <2>2, <3>1 DEF LateSound, Ask
    <3>3. PICK t \in Slots : Ask(task[t].pc) /\ task[t].m = m
                                   /\ \A j \in DOMAIN down : down[j].slot # t
      BY <1>2, <2>2, <3>1 DEF LateSound, Ask
    <3>4. m \notin Heard'
      <4>1. Told1 => r.m # m
        BY <1>1, <3>1, <3>2 DEF Asks, Ask
      <4> QED BY <1>1, <3>2, <4>1
    <3>5. \A j \in DOMAIN down' : down'[j].slot # t
      BY <1>1, <1>2, <3>3
    <3>6. \A j \in DOMAIN late' : Ask(late'[j].op) /\ late'[j].m = m => j = i
      <4> SUFFICES ASSUME NEW j \in DOMAIN late', Ask(late'[j].op), late'[j].m = m PROVE j = i
        OBVIOUS
      <4>1. j + 1 = i + 1 /\ j \in Nat
        <5>1. j + 1 \in DOMAIN late /\ late'[j] = late[j + 1] /\ j \in Nat
          BY <1>1
        <5>2. Asks(j + 1, m)
          BY <5>1 DEF Asks, Ask
        <5> QED BY <3>2, <5>1, <5>2
      <4> QED BY <3>1, <4>1
    <3> QED BY <3>2, <3>3, <3>4, <3>5, <3>6
  <2> QED BY <1>1, <2>1, <2>2 DEF LateSound, Ask, Asks
<1>7. SendersSound'
  <2> SUFFICES ASSUME NEW t \in Slots, Sender(task[t]), task[t].m \in Heard' \ Doubtful
               PROVE  /\ Ask(task[t].pc)
                      /\ \/ link = "broken" /\ \A i \in DOMAIN down' : down'[i].slot # t
                         \/ \E i \in DOMAIN down' : down'[i].slot = t /\ down'[i].ok
    BY <1>1 DEF SendersSound
  <2>1. (\A i \in DOMAIN down : down[i].slot # t) => \A i \in DOMAIN down' : down'[i].slot # t
    BY <1>1, <1>2
  <2>2. CASE task[t].m \in Heard
    BY <1>1, <1>2, <2>1, <2>2 DEF SendersSound
  <2>3. CASE task[t].m \notin Heard
    <3>1. Told1 /\ task[t].m = r.m
      BY <1>1, <2>3
    <3>2. PICK q \in Slots : Ask(task[q].pc) /\ task[q].m = r.m
                                 /\ \A j \in DOMAIN down : down[j].slot # q
      BY <1>5, <3>1
    <3>3. q = t
      BY <1>3, <1>4, <3>1, <3>2
    <3> QED BY <1>5, <2>1, <3>1, <3>2, <3>3
  <2> QED BY <2>2, <2>3
<1>8. SettlersSound'
  <2> SUFFICES ASSUME NEW i \in DOMAIN down', down'[i].op = "answer", down'[i].slot # NoSlot,
                      task[down'[i].slot].pc = "settle", task[down'[i].slot].m \notin Doubtful,
                      task[down'[i].slot].m \in Heard'
               PROVE  task[down'[i].slot].m \in down'[i].has
    BY <1>1 DEF SettlersSound
  <2>1. i \in DOMAIN down /\ down'[i] = down[i] /\ down[i].slot \in Slots
    BY <1>1, <1>2
  <2> DEFINE k == task[down[i].slot]
  <2>2. CASE k.m \in Heard
    BY <1>2, <2>1, <2>2 DEF SettlersSound
  <2>3. CASE k.m \notin Heard
    <3>1. Told1 /\ k.m = r.m
      BY <1>1, <2>1, <2>3
    <3>2. PICK q \in Slots : Ask(task[q].pc) /\ task[q].m = r.m
      BY <1>5, <2>1, <3>1
    <3>3. q # down[i].slot
      BY <2>1, <3>2 DEF Ask
    <3> QED BY <1>3, <1>4, <2>1, <3>1, <3>2, <3>3 DEF AtWork
  <2> QED BY <2>2, <2>3
<1>9. Heard' \subseteq sent
  <2>1. Told1 => r.m \in sent
    BY <1>1, PhoneAssumption DEF Sound, LateSent
  <2> QED BY <1>1, <1>2, <2>1
<1>10. ToldOnce'
  <2> SUFFICES ASSUME NEW m \in sent \ Doubtful
               PROVE  codex'.told[m] <= IF phone.composer = m THEN 0 ELSE 1
    BY <1>1 DEF ToldOnce, Doubtful
  <2>1. codex.told[m] <= (IF phone.composer = m THEN 0 ELSE 1) /\ m \in Msgs /\ codex.told[m] \in Nat
    BY <1>2 DEF ToldOnce, Doubtful
  <2>2. CASE codex'.told = codex.told
    BY <2>1, <2>2
  <2>3. CASE Told1 /\ m # r.m
    <3>1. codex'.told[m] = codex.told[m]
      BY <1>2, <2>1, <2>3
    <3> QED BY <2>1, <3>1
  <2>4. CASE Told1 /\ m = r.m
    <3>1. PICK t \in Slots : Ask(task[t].pc) /\ task[t].m = m
      BY <1>5, <2>4
    <3>2. phone.composer # m
      BY <1>2, <1>3, <3>1
    <3>3. m \notin Heard
      BY <1>5, <2>4
    <3>4. codex.told[m] = 0
      BY <2>1, <3>3 DEF Heard
    <3>5. codex'.told[m] = codex.told[m] + 1
      BY <1>2, <2>1, <2>4
    <3> QED BY <3>2, <3>4, <3>5
  <2> QED BY <1>1, <2>2, <2>3, <2>4
<1>11. Telling'
  <2>1. \A m \in sent' \ Doubtful' : phone'.composer = m => \A t \in Slots : Sender(task'[t]) => task'[t].m # m
    BY <1>1, <1>2
  <2> QED BY <1>1, <1>6, <1>7, <1>8, <1>9, <1>10, <2>1 DEF Telling
<1> QED BY <1>11

LEMMA InsertedOnes ==
  ASSUME NEW d \in Seq(Notes \cup Replies), NEW n \in Notes, NEW i \in 0 .. Len(d)
  PROVE  /\ \A j \in DOMAIN Insert(d, n, i) : Insert(d, n, i)[j] = n \/ \E k \in DOMAIN d : d[k] = Insert(d, n, i)[j]
         /\ \A k \in DOMAIN d : \E j \in DOMAIN Insert(d, n, i) : Insert(d, n, i)[j] = d[k]
<1> DEFINE e == Insert(d, n, i)
<1>1. /\ DOMAIN e = 1 .. (Len(d) + 1) /\ DOMAIN d = 1 .. Len(d)
      /\ \A j \in 1 .. i : e[j] = d[j]
      /\ e[i + 1] = n
      /\ \A j \in (i + 2) .. (Len(d) + 1) : e[j] = d[j - 1]
      /\ Len(d) \in Nat /\ i \in Nat /\ i <= Len(d)
  <2>1. Len(d) \in Nat /\ DOMAIN d = 1 .. Len(d)
    OBVIOUS
  <2> QED BY <2>1, Inserted DEF Grows
<1> HIDE DEF e
<1>2. ASSUME NEW j \in 1 .. (Len(d) + 1)
      PROVE  e[j] = n \/ \E k \in DOMAIN d : d[k] = e[j]
  <2>1. CASE j \in 1 .. i
    <3>1. j \in DOMAIN d
      BY <1>1, <2>1
    <3> QED BY <1>1, <2>1, <3>1
  <2>2. CASE j = i + 1
    BY <1>1, <2>2
  <2>3. CASE j \in (i + 2) .. (Len(d) + 1)
    <3>1. j - 1 \in DOMAIN d /\ e[j] = d[j - 1]
      BY <1>1, <2>3
    <3> QED BY <3>1
  <2> QED BY <1>1, <2>1, <2>2, <2>3
<1>3. ASSUME NEW k \in 1 .. Len(d)
      PROVE  \E j \in DOMAIN e : e[j] = d[k]
  <2>1. CASE k \in 1 .. i
    <3>1. k \in DOMAIN e
      BY <1>1, <2>1
    <3> QED BY <1>1, <2>1, <3>1
  <2>2. CASE k > i
    <3>1. k + 1 \in (i + 2) .. (Len(d) + 1) /\ k + 1 \in DOMAIN e /\ (k + 1) - 1 = k
      BY <1>1, <2>2
    <3>2. e[k + 1] = d[k]
      BY <1>1, <3>1
    <3> QED BY <3>1, <3>2
  <2> QED BY <1>1, <2>1, <2>2
<1> QED BY <1>1, <1>2, <1>3 DEF e

LEMMA SpokenTells ==
  ASSUME Sound, Telling, Calms, NEW op \in {"completed", "error"}, Spoken(op),
         codex'.told = codex.told, UNCHANGED <<phone, task, link, late>>
  PROVE  Telling'
<1>1. PICK i \in 0 .. Len(down) :
        down' = IF link = "up" THEN Insert(down, Note(op, codex.turn), i) ELSE down
  BY DEF Spoken
<1>2. /\ down \in Seq(Notes \cup Replies)
      /\ Note(op, codex.turn) \in Notes /\ Note(op, codex.turn).slot = NoSlot
  BY NotesAre DEF Sound, Typed
<1>3. Leaving(NoSlot, down')
  <2>1. CASE link = "up"
    BY <1>1, <1>2, <2>1, InsertedOnes DEF Leaving
  <2>2. CASE link # "up"
    BY <1>1, <2>2 DEF Leaving
  <2> QED BY <2>1, <2>2
<1> QED BY <1>3, CalmTells

LEMMA TurnEndsTells ==
  ASSUME Sound, Telling, TurnEnds \/ TurnErrs
  PROVE  Telling'
<1>1. CASE TurnEnds
  <2>1. codex'.told = codex.told
    BY <1>1 DEF TurnEnds, Sound, Typed
  <2> QED BY <1>1, <2>1, TurnEndsSound, SpokenTells DEF TurnEnds
<1>2. CASE TurnErrs
  BY <1>2, TurnErrsSound, SpokenTells DEF TurnErrs
<1> QED BY <1>1, <1>2

LEMMA DesktopStartsTells ==
  ASSUME Sound, Telling, DesktopStarts
  PROVE  Telling'
<1> DEFINE n == Note("started", codex.last + 1)
<1>1. /\ Calms /\ codex'.told = codex.told /\ UNCHANGED <<phone, task, link, late>>
      /\ down \in Seq(Notes \cup Replies) /\ n \in Notes
      /\ down' = IF link = "up" THEN down \o <<n>> ELSE down
  BY DesktopStartsSound DEF DesktopStarts, Fresh, Sound, Typed
<1>2. n.slot = NoSlot
  BY DEF Note
<1> HIDE DEF n
<1>3. Leaving(NoSlot, down')
  <2>1. CASE link = "up"
    <3>1. down' = down \o <<n>>
      BY <1>1, <2>1
    <3>2. /\ DOMAIN (down \o <<n>>) = 1 .. (Len(down) + 1) /\ DOMAIN down = 1 .. Len(down) /\ Len(down) \in Nat
          /\ \A i \in DOMAIN down : (down \o <<n>>)[i] = down[i]
          /\ (down \o <<n>>)[Len(down) + 1] = n
      BY <1>1, NoteAtTheEnd
    <3>3. /\ \A i \in DOMAIN down : i \in DOMAIN down' /\ down'[i] = down[i]
          /\ \A i \in DOMAIN down' : (i \in DOMAIN down /\ down'[i] = down[i]) \/ down'[i] = n
      BY <3>1, <3>2
    <3> QED BY <1>2, <3>3 DEF Leaving
  <2>2. CASE link # "up"
    BY <1>1, <2>2 DEF Leaving
  <2> QED BY <2>1, <2>2
<1> QED BY <1>1, <1>3, CalmTells

LEMMA LeavingNothing ==
  ASSUME Sound, down # <<>>, Head(down).slot = NoSlot
  PROVE  Leaving(NoSlot, Tail(down))
BY LeavingTail

LEMMA NotifiedTells ==
  ASSUME Sound, Telling, NEW s \in Slots, Notified(s)
  PROVE  Telling'
<1> DEFINE k == [Free EXCEPT !.kind = "notice", !.pc = "pause"]
<1>1. /\ Calms /\ down # <<>> /\ down' = Tail(down) /\ codex' = codex /\ late' = late /\ link' = link
      /\ task' \in {task, [task EXCEPT ![s] = k]} /\ task[s].pc = "free"
      /\ Head(down).op \in {"started", "completed", "error"}
  BY NotifiedSound DEF Notified, FreeSlot
<1>2. Head(down).slot = NoSlot
  <2>1. down \in Seq(Notes \cup Replies) /\ Head(down) = down[1] /\ 1 \in DOMAIN down
    BY <1>1, RestOfQueue DEF Sound, Typed
  <2>2. Head(down) \in Notes \cup Replies
    BY <2>1
  <2> QED BY <1>1, <2>2 DEF Notes, Replies
<1>3. ~AtWork(k) /\ ~AtWork(task[s])
  <2>1. task[s] = Free
    BY <1>1 DEF Sound, Typed, TaskSound
  <2>2. k.kind = "notice" /\ k.pc = "pause"
    BY DEF Free
  <2> HIDE DEF k
  <2> QED BY <2>1, <2>2, FreeSound DEF AtWork, Sender
<1> HIDE DEF k
<1>4. \A r \in Slots : task'[r] = task[r] \/ (~AtWork(task'[r]) /\ ~AtWork(task[r]))
  BY <1>1, <1>3 DEF Sound, Typed
<1>5. Leaving(NoSlot, down')
  BY <1>1, <1>2, LeavingNothing
<1> QED BY <1>1, <1>4, <1>5, CalmTells

LEMMA ReceivingTells ==
  ASSUME Sound, Keeping, Telling, Receives
  PROVE  Telling'
<1>1. CASE /\ down # <<>> /\ Head(down).slot = NoSlot
           /\ down' = Tail(down) /\ UNCHANGED <<phone, task, codex, late>>
  <2>1. Races /\ UNCHANGED <<link, mishaps, sent, doubted, wandered>>
    BY DEF Receives
  <2>2. Calms
    BY <1>1, <2>1, DropsSound
  <2>3. Leaving(NoSlot, down')
    BY <1>1, LeavingNothing
  <2> QED BY <1>1, <2>1, <2>2, <2>3, CalmTells
<1>2. CASE \E s \in Slots : \E o :
              /\ Advances(s, phone, o, Tail(down)) /\ Moves(phone, task[s], o)
              /\ down # <<>> /\ Head(down).slot = s /\ Head(down) \in Replies
              /\ Answering(phone, task[s], Head(down), o)
  <2>1. PICK s \in Slots : \E o :
              /\ Advances(s, phone, o, Tail(down)) /\ Moves(phone, task[s], o)
              /\ down # <<>> /\ Head(down).slot = s /\ Head(down) \in Replies
              /\ Answering(phone, task[s], Head(down), o)
    BY <1>2
  <2>2. PICK o :
              /\ Advances(s, phone, o, Tail(down)) /\ Moves(phone, task[s], o)
              /\ down # <<>> /\ Head(down).slot = s /\ Head(down) \in Replies
              /\ Answering(phone, task[s], Head(down), o)
    BY <2>1
  <2> QED BY <2>2, ReceivesTells
<1> QED BY <1>1, <1>2, ReceivesMoves

LEMMA LeavesTells ==
  ASSUME Sound, Telling, Leaves
  PROVE  Telling'
<1>1. Calms /\ UNCHANGED <<task, link, down, late, codex>>
  BY LeavesSound DEF Leaves
<1>2. Leaving(NoSlot, down')
  BY <1>1, LeavingAll
<1> QED BY <1>1, <1>2, CalmTells

LEMMA BreaksTells ==
  ASSUME Sound, Telling, Breaks
  PROVE  Telling'
<1>1. Calms /\ UNCHANGED <<task, down, late, codex>> /\ link = "up" /\ link' = "broken"
  BY BreaksSound DEF Breaks
<1>2. Leaving(NoSlot, down')
  BY <1>1, LeavingAll
<1> QED BY <1>1, <1>2, CalmTells

LEMMA DisconnectsTells ==
  ASSUME Sound, Telling, Disconnects
  PROVE  Telling'
<1>1. /\ Calms /\ link' = "down" /\ down' = <<>> /\ late' = late /\ codex' = codex
      /\ \A i \in DOMAIN late : late[i].m \in Doubtful' \cup {NoMsg}
      /\ task' = [s \in Slots |-> IF task[s].pc = "pause" THEN task[s] ELSE Free]
  BY DisconnectsSound DEF Disconnects
<1>2. phone'.composer = phone.composer /\ sent' = sent /\ Doubtful \subseteq Doubtful'
  BY <1>1 DEF Calms, Hold
<1>3. \A r \in Slots : ~AtWork(task'[r])
  <2> SUFFICES ASSUME NEW r \in Slots PROVE ~AtWork(task'[r])
    OBVIOUS
  <2>1. TaskSound(task[r])
    BY DEF Sound, Typed
  <2>2. CASE task[r].pc = "pause"
    BY <1>1, <2>1, <2>2 DEF AtWork, TaskSound, SenderPcs
  <2>3. CASE task[r].pc # "pause"
    BY <1>1, <2>3, FreeSound
  <2> QED BY <2>2, <2>3
<1> QED BY <1>1, <1>2, <1>3, FreshTells

LEMMA ReloadsTells ==
  ASSUME Sound, Telling, Reloads
  PROVE  Telling'
<1>1. /\ phone'.composer = phone.composer /\ sent' = sent /\ Doubtful \subseteq Doubtful'
      /\ link' = "down" /\ down' = <<>> /\ late' = late /\ codex' = codex
      /\ \A i \in DOMAIN late : late[i].m \in Doubtful' \cup {NoMsg}
      /\ \A r \in Slots : task'[r] = Free
  BY ReloadsSound DEF Doubtful
<1>2. \A r \in Slots : ~AtWork(task'[r])
  BY <1>1, FreeSound
<1> QED BY <1>1, <1>2, FreshTells

LEMMA ReconnectsTells ==
  ASSUME Sound, Telling, NEW s \in Slots, NEW how \in {"sync", "open"}, Reconnects(s, how)
  PROVE  Telling'
<1>1. /\ Sound' /\ Calms /\ link = "down" /\ link' = "up" /\ late' = late /\ codex' = codex /\ Doubtful' = Doubtful
      /\ IF phone.screen
         THEN /\ task'[s].pc = how /\ \A r \in Slots \ {s} : task'[r] = task[r]
              /\ \E a \in Replies : a.slot = s /\ down' = <<a>>
         ELSE task' = task /\ down' = <<>>
  BY ReconnectsSound DEF Doubtful
<1>2. phone'.composer = phone.composer /\ sent' = sent /\ Doubtful \subseteq Doubtful'
  BY <1>1 DEF Calms, Hold
<1>3. \A r \in Slots : ~AtWork(task'[r])
  <2> SUFFICES ASSUME NEW r \in Slots PROVE ~AtWork(task'[r])
    OBVIOUS
  <2>1. TaskSound(task[r]) /\ TaskSound(task'[r]) /\ task[r].pc \in Unawaited
    BY <1>1 DEF Sound, Typed
  <2>2. ~AtWork(task[r])
    BY <2>1 DEF AtWork, TaskSound, SenderPcs, Unawaited
  <2>3. CASE task'[r].pc = how
    BY <2>1, <2>3 DEF AtWork, TaskSound, SenderPcs
  <2> QED BY <1>1, <2>2, <2>3
<1>4. \A i \in DOMAIN late : late[i].m \in Doubtful \cup {NoMsg}
  BY <1>1 DEF Telling, LateSound
<1>5. \A i \in DOMAIN down' : down'[i].slot # NoSlot => down'[i].slot \in Slots
  <2>1. CASE phone.screen
    BY <1>1, <2>1
  <2>2. CASE ~phone.screen
    BY <1>1, <2>2
  <2> QED BY <2>1, <2>2
<1> QED BY <1>1, <1>2, <1>3, <1>4, <1>5, FreshTells

LEMMA TellsInit ==
  PhoneInit => Telling
<1> SUFFICES ASSUME PhoneInit PROVE Telling
  OBVIOUS
<1>1. /\ task = [s \in Slots |-> Free] /\ down = <<>> /\ late = <<>> /\ sent = {}
      /\ codex.told = [m \in Msgs |-> 0]
  BY DEF PhoneInit
<1>2. \A s \in Slots : ~Sender(task[s])
  BY <1>1, FreeSound DEF Sender
<1>3. Heard = {}
  BY <1>1 DEF Heard
<1> QED BY <1>1, <1>2, <1>3 DEF Telling, LateSound, SendersSound, SettlersSound, ToldOnce, Doubtful

LEMMA TellsStep ==
  Sound /\ Keeping /\ Telling /\ [PhoneNext]_phone_vars => Telling'
<1> SUFFICES ASSUME Sound, Keeping, Telling, [PhoneNext]_phone_vars PROVE Telling'
  OBVIOUS
<1>1. ASSUME NEW s \in Slots, NEW m \in Msgs, Sends(s, m) PROVE Telling'
  BY <1>1, SendsTells
<1>2. ASSUME NEW s \in Slots, Returns(s) PROVE Telling'
  BY <1>2, ReturnsTells
<1>3. ASSUME NEW s \in Slots, Notified(s) PROVE Telling'
  BY <1>3, NotifiedTells
<1>4. ASSUME NEW s \in Slots, Settles(s) PROVE Telling'
  BY <1>4, SettlesTells
<1>5. ASSUME NEW s \in Slots, TimesOut(s) PROVE Telling'
  BY <1>5, TimesOutTells
<1>6. ASSUME NEW s \in Slots, NEW how \in {"sync", "open"}, Reconnects(s, how) PROVE Telling'
  BY <1>6, ReconnectsTells
<1>7. CASE Leaves
  BY <1>7, LeavesTells
<1>8. CASE Receives
  BY <1>8, ReceivingTells
<1>9. CASE Breaks
  BY <1>9, BreaksTells
<1>10. CASE Disconnects
  BY <1>10, DisconnectsTells
<1>11. CASE Reloads
  BY <1>11, ReloadsTells
<1>12. CASE LateArrives
  BY <1>12, LateTells
<1>13. CASE TurnEnds \/ TurnErrs
  BY <1>13, TurnEndsTells
<1>14. CASE DesktopStarts
  BY <1>14, DesktopStartsTells
<1>15. CASE UNCHANGED phone_vars
  <2>1. /\ phone' = phone /\ task' = task /\ link' = link /\ down' = down /\ late' = late /\ codex' = codex
        /\ mishaps' = mishaps /\ sent' = sent /\ raced' = raced /\ doubted' = doubted /\ wandered' = wandered
    BY <1>15 DEF phone_vars
  <2>2. Calms
    BY <2>1 DEF Calms, Hold, Heard, Doubtful
  <2>3. Leaving(NoSlot, down')
    BY <2>1, LeavingAll
  <2> QED BY <2>1, <2>2, <2>3, CalmTells
<1> QED BY <1>1, <1>2, <1>3, <1>4, <1>5, <1>6, <1>7, <1>8, <1>9, <1>10, <1>11, <1>12, <1>13, <1>14, <1>15
        DEF PhoneNext

(* Codex is told a message once at most, and what the page gave back as    *)
(* not sent it was not told, unless two continuations were at it, a call   *)
(* about it timed out or a frame with it was late.                         *)
THEOREM NothingToldTwice == PhoneSpec => []ToldOnce
<1>1. PhoneInit => Sound /\ Keeping /\ Telling
  BY KeepsInit, TellsInit
<1>2. Sound /\ Keeping /\ Telling /\ [PhoneNext]_phone_vars => (Sound /\ Keeping /\ Telling)'
  BY KeepsStep, TellsStep
<1>3. Sound /\ Keeping /\ Telling => ToldOnce
  BY DEF Telling
<1> QED BY <1>1, <1>2, <1>3, PTL DEF PhoneSpec

----
(* The page shows what is so.  Of every turn that begins or ends, and of   *)
(* every answer that says whether one runs, the queue has it in the order  *)
(* it happened, but for acknowledgements of steers, which the end of their *)
(* turn may overtake: what the page has read as far as there is what the   *)
(* next answer says, and a page that is not sure of itself has something   *)
(* on its way that makes it so.  An error of the turn makes the page show  *)
(* none, which neither it nor its list forgets by themselves: what it has  *)
(* heard is kept apart from what it shows.                                 *)

(* What the page shows of the turns.  A face is what a page has heard of   *)
(* them: whether one is active on it, whether one runs (listed), the last  *)
(* that completed, and whether there was an error of it since (off).       *)
Face(p) == [active |-> p.active, listed |-> p.listed, done |-> p.done]
Faces   == [active : BOOLEAN, listed : BOOLEAN, done : SomeTurn, off : BOOLEAN]
Sure(v) == (v.active => v.listed) /\ (v.listed => v.active \/ v.off)
Mirrors(p, f) == f.active = p.active /\ f.done = p.done /\ (p.listed => f.listed)

IsNote(x)  == x.op \in {"started", "completed"}
Refused(x) == x.of = "start" /\ ~x.ok
Begun(x)   == x.op = "answer" /\ x.of = "start" /\ x.ok

(* An answer that says whether a turn runs, and what it says. *)
Speaks(x)  == x.op = "answer" /\ (x.of \in {"read", "page"} \/ Refused(x))
Saying(x)  == Refused(x) \/ x.turn # NoTurn

(* A steer that was accepted. *)
Acks(x) == x.op = "answer" /\ x.of = "steer" /\ x.ok /\ x.slot # NoSlot

(* No note of queue q stands between i and j; note j is the last before i. *)
Clear(q, i, j)  == \A k \in DOMAIN q : i < k /\ k < j => ~IsNote(q[k])
Latest(q, j, i) == j < i /\ IsNote(q[j]) /\ Clear(q, j, i)

(* Once the page has read as far as i, it shows v. *)
Shows(q, f, i, v) ==
  /\ Clear(q, 0, i) => f.listed = v
  /\ \A j \in DOMAIN q : Latest(q, j, i) => (q[j].op = "started") = v

News(q, f, c) ==
  /\ \A i \in DOMAIN q : Speaks(q[i]) => Shows(q, f, i, Saying(q[i]))
  /\ Shows(q, f, Len(q) + 1, c.turn # NoTurn)

(* Turns are numbered in the order they come. *)
Numbered(q, f, c) ==
  \A i \in DOMAIN q : IsNote(q[i]) =>
    /\ q[i].op = "started" => f.done < q[i].turn
    /\ \A j \in DOMAIN q : i < j /\ q[j].op = "started" => q[i].turn < q[j].turn
    /\ c.turn # NoTurn /\ Clear(q, i, Len(q) + 1) => q[i].turn = c.turn

(* An accepted steer is of the turn last heard of before its answer. *)
Steered(q, f, tk, c) ==
  \A i \in DOMAIN q : Acks(q[i]) =>
    LET t == tk[q[i].slot].turn IN
    /\ \A j \in DOMAIN q : Latest(q, j, i) => q[j].turn = t
    /\ Clear(q, 0, i) => IF f.listed THEN f.done # t ELSE ~f.active /\ f.done = t
    /\ c.turn # NoTurn /\ Clear(q, i, Len(q) + 1) => t = c.turn

(* An opening that leaves the page as it is finds it right. *)
Opened(q, f, tk) ==
  \A i \in DOMAIN q : q[i].slot # NoSlot /\ tk[q[i].slot].pc = "open" /\ tk[q[i].slot].flag =>
    q[i].turn # NoTurn \/ ~Clear(q, 0, i) \/ Sure(f)

View(q, f, tk, c) == News(q, f, c) /\ Numbered(q, f, c) /\ Steered(q, f, tk, c) /\ Opened(q, f, tk)

(* A turn that began is announced right behind the answer. *)
Announced(q) == \A i \in DOMAIN q : Begun(q[i]) => i + 1 \in DOMAIN q /\ q[i + 1].op = "started"

Past(q, done, c) ==
  /\ done <= c.last /\ (c.turn # NoTurn => done < c.turn)
  /\ \A i \in DOMAIN q : IsNote(q[i]) =>
       q[i].turn <= c.last /\ (c.turn # NoTurn /\ q[i].op = "completed" => q[i].turn < c.turn)

(* The page is right, or something on its way puts it right. *)
Looks(x, tk) == x.slot # NoSlot /\ tk[x.slot].pc \in {"open", "sync"}
Seen(q, p, f, tk) == p.screen => Sure(f) \/ \E i \in DOMAIN q : IsNote(q[i]) \/ Looks(q[i], tk)

(* What Codex says of a turn it told no error of comes behind every error. *)
Behind(q, i) == \E k \in DOMAIN q : i < k /\ IsNote(q[k])
Blind(q, off, c, E) ==
  c.turn \notin E \cup {NoTurn} =>
    /\ off => Behind(q, 0)
    /\ \A i \in DOMAIN q : q[i].op = "error" => Behind(q, i)

Near(q, p, f, tk, c, E) ==
  Mirrors(p, f) /\ View(q, f, tk, c) /\ Announced(q) /\ Blind(q, f.off, c, E)

Viewed(l, q, p, tk, c, E) ==
  /\ Past(q, p.done, c)
  /\ l = "up" => \E f \in Faces : Near(q, p, f, tk, c, E) /\ Seen(q, p, f, tk)

Viewing == "timeout" \notin mishaps => Viewed(link, down, phone, task, codex, erred)

LEMMA BlindGrows ==
  ASSUME NEW q, NEW e, NEW off, NEW c, NEW c2, NEW E, Blind(q, off, c, E),
         \A i \in DOMAIN q : i \in DOMAIN e /\ e[i] = q[i],
         \A i \in DOMAIN e : i \in DOMAIN q \/ e[i].op # "error",
         \/ c2.turn = c.turn
         \/ \E k \in DOMAIN e : IsNote(e[k]) /\ 0 < k /\ \A i \in DOMAIN q : i < k
  PROVE  Blind(e, off, c2, E)
<1>1. CASE c2.turn = c.turn
  <2>1. \A i : Behind(q, i) => Behind(e, i)
    BY DEF Behind
  <2> QED BY <1>1, <2>1 DEF Blind
<1>2. CASE \E k \in DOMAIN e : IsNote(e[k]) /\ 0 < k /\ \A i \in DOMAIN q : i < k
  BY <1>2 DEF Blind, Behind
<1> QED BY <1>1, <1>2

(* Something at the end of the queue. *)
LEMMA AppendedAnswer ==
  ASSUME NEW q \in Seq(Notes \cup Replies), NEW e \in Seq(Notes \cup Replies), NEW a \in Replies,
         Len(e) = Len(q) + 1, \A i \in 1 .. Len(q) : e[i] = q[i], e[Len(q) + 1] = a,
         NEW f \in Faces, NEW tk, NEW c, View(q, f, tk, c),
         Speaks(a) => Saying(a) = (c.turn # NoTurn),
         Acks(a) => c.turn # NoTurn /\ tk[a.slot].turn = c.turn,
         Past(q, f.done, c),
         a.slot # NoSlot /\ tk[a.slot].pc = "open" /\ tk[a.slot].flag =>
           f.listed /\ a.of = "page"
  PROVE  View(e, f, tk, c) /\ Past(e, f.done, c)
<1> DEFINE n == Len(q)
<1>1. n \in Nat /\ DOMAIN q = 1 .. n /\ DOMAIN e = 1 .. (n + 1) /\ ~IsNote(a) /\ Len(e) = n + 1
  BY DEF Replies, IsNote
<1>2. (\A i \in 1 .. n : e[i] = q[i]) /\ e[n + 1] = a
  OBVIOUS
<1> HIDE DEF n
<1>3. \A i, j : Clear(e, i, j) <=> Clear(q, i, j)
  BY <1>1, <1>2 DEF Clear
<1>4. \A j \in 1 .. (n + 1) : \A i : Latest(e, j, i) <=> (j \in 1 .. n /\ Latest(q, j, i))
  BY <1>1, <1>2, <1>3 DEF Latest
<1>5. \A i : Clear(q, i, n + 1) => Clear(q, i, n + 2)
  BY <1>1 DEF Clear
<1>50. \A i : Clear(q, i, n + 2) => Clear(q, i, n + 1)
  BY <1>1 DEF Clear
<1>6. \A j \in 1 .. n : Latest(q, j, n + 2) <=> Latest(q, j, n + 1)
  <2>1. \A j \in 1 .. n : j < n + 1 /\ j < n + 2
    BY <1>1
  <2> QED BY <1>5, <1>50, <2>1 DEF Latest
<1>7. \A i, v : Shows(e, f, i, v) <=> Shows(q, f, i, v)
  BY <1>1, <1>2, <1>3, <1>4 DEF Shows
<1>8. \A v : Shows(q, f, n + 2, v) <=> Shows(q, f, n + 1, v)
  BY <1>1, <1>5, <1>50, <1>6 DEF Shows
<1>9. Shows(q, f, n + 1, c.turn # NoTurn) /\ \A i \in 1 .. n : Speaks(q[i]) => Shows(q, f, i, Saying(q[i]))
  BY <1>1 DEF View, News, n
<1>10. News(e, f, c)
  <2>1. \A i \in 1 .. (n + 1) : Speaks(e[i]) => Shows(e, f, i, Saying(e[i]))
    <3> SUFFICES ASSUME NEW i \in 1 .. (n + 1), Speaks(e[i]) PROVE Shows(e, f, i, Saying(e[i]))
      OBVIOUS
    <3>1. CASE i \in 1 .. n
      BY <1>2, <1>7, <1>9, <3>1
    <3>2. CASE i = n + 1
      BY <1>2, <1>7, <1>9, <3>2
    <3> QED BY <1>1, <3>1, <3>2
  <2>2. Shows(e, f, n + 2, c.turn # NoTurn) /\ Len(e) + 1 = n + 2
    BY <1>1, <1>7, <1>8, <1>9
  <2> QED BY <1>1, <2>1, <2>2 DEF News
<1>11. Numbered(e, f, c)
  <2>1. Len(e) + 1 = n + 2
    BY <1>1
  <2>2. \A i \in 1 .. (n + 1) : IsNote(e[i]) => i \in 1 .. n
    BY <1>1, <1>2
  <2>3. \A i \in 1 .. (n + 1) : e[i].op = "started" => i \in 1 .. n
    BY <1>1, <1>2 DEF Replies
  <2>4. Numbered(q, f, c)
    BY DEF View
  <2>5. \A i \in 1 .. n : IsNote(q[i]) =>
          /\ q[i].op = "started" => f.done < q[i].turn
          /\ \A j \in 1 .. n : i < j /\ q[j].op = "started" => q[i].turn < q[j].turn
          /\ c.turn # NoTurn /\ Clear(q, i, n + 1) => q[i].turn = c.turn
    BY <1>1, <2>4 DEF Numbered, n
  <2>6. \A i \in 1 .. (n + 1) : IsNote(e[i]) =>
          /\ e[i].op = "started" => f.done < e[i].turn
          /\ \A j \in 1 .. (n + 1) : i < j /\ e[j].op = "started" => e[i].turn < e[j].turn
          /\ c.turn # NoTurn /\ Clear(e, i, n + 2) => e[i].turn = c.turn
    BY <1>2, <1>3, <1>50, <2>2, <2>3, <2>5
  <2> QED BY <1>1, <2>1, <2>6 DEF Numbered
<1>12. Steered(e, f, tk, c)
  <2>1. Len(e) + 1 = n + 2
    BY <1>1
  <2>2. \A i \in 1 .. n : Acks(q[i]) =>
          /\ \A j \in 1 .. n : Latest(q, j, i) => q[j].turn = tk[q[i].slot].turn
          /\ Clear(q, 0, i) => IF f.listed THEN f.done # tk[q[i].slot].turn
                               ELSE ~f.active /\ f.done = tk[q[i].slot].turn
          /\ c.turn # NoTurn /\ Clear(q, i, n + 1) => tk[q[i].slot].turn = c.turn
    BY <1>1 DEF View, Steered, n
  <2>3. \A i \in 1 .. n : Acks(e[i]) =>
          /\ \A j \in 1 .. (n + 1) : Latest(e, j, i) => e[j].turn = tk[e[i].slot].turn
          /\ Clear(e, 0, i) => IF f.listed THEN f.done # tk[e[i].slot].turn
                               ELSE ~f.active /\ f.done = tk[e[i].slot].turn
          /\ c.turn # NoTurn /\ Clear(e, i, n + 2) => tk[e[i].slot].turn = c.turn
    BY <1>2, <1>3, <1>4, <1>50, <2>2, SMTT(30)
  <2>4. ASSUME Acks(a)
        PROVE  /\ \A j \in 1 .. (n + 1) : Latest(e, j, n + 1) => e[j].turn = tk[a.slot].turn
               /\ Clear(e, 0, n + 1) => IF f.listed THEN f.done # tk[a.slot].turn
                                        ELSE ~f.active /\ f.done = tk[a.slot].turn
               /\ c.turn # NoTurn /\ Clear(e, n + 1, n + 2) => tk[a.slot].turn = c.turn
    <3>1. c.turn # NoTurn /\ tk[a.slot].turn = c.turn
      BY <2>4
    <3>2. \A j \in 1 .. n : IsNote(q[j]) /\ Clear(q, j, n + 1) => q[j].turn = c.turn
      BY <1>1, <3>1 DEF View, Numbered, n
    <3>3. \A j \in 1 .. (n + 1) : Latest(e, j, n + 1) => e[j].turn = c.turn
      BY <1>2, <1>4, <3>2 DEF Latest
    <3>4. Clear(e, 0, n + 1) => f.listed
      BY <1>3, <1>9, <3>1 DEF Shows
    <3>5. f.done # c.turn
      BY <3>1 DEF Past, Faces, SomeTurn, Turns, NoTurn
    <3> QED BY <3>1, <3>3, <3>4, <3>5
  <2>5. \A i \in 1 .. (n + 1) : i \in 1 .. n \/ i = n + 1
    BY <1>1
  <2>6. \A i \in 1 .. (n + 1) : Acks(e[i]) =>
          /\ \A j \in 1 .. (n + 1) : Latest(e, j, i) => e[j].turn = tk[e[i].slot].turn
          /\ Clear(e, 0, i) => IF f.listed THEN f.done # tk[e[i].slot].turn
                               ELSE ~f.active /\ f.done = tk[e[i].slot].turn
          /\ c.turn # NoTurn /\ Clear(e, i, n + 2) => tk[e[i].slot].turn = c.turn
    BY <1>2, <2>3, <2>4, <2>5
  <2> QED BY <1>1, <2>1, <2>6 DEF Steered
<1>13. Opened(e, f, tk)
  <2>1. \A i \in 1 .. n : q[i].slot # NoSlot /\ tk[q[i].slot].pc = "open" /\ tk[q[i].slot].flag =>
          q[i].turn # NoTurn \/ ~Clear(q, 0, i) \/ Sure(f)
    BY <1>1 DEF View, Opened
  <2>2. ASSUME a.slot # NoSlot, tk[a.slot].pc = "open", tk[a.slot].flag, Clear(q, 0, n + 1)
        PROVE  a.turn # NoTurn
    <3>1. f.listed = (c.turn # NoTurn) /\ f.listed /\ a.of = "page"
      BY <1>9, <2>2 DEF Shows
    <3>2. a.op = "answer"
      BY DEF Replies
    <3> QED BY <3>1, <3>2 DEF Speaks, Saying, Refused
  <2>3. \A i \in 1 .. (n + 1) : i \in 1 .. n \/ i = n + 1
    BY <1>1
  <2>4. \A i \in 1 .. (n + 1) : e[i].slot # NoSlot /\ tk[e[i].slot].pc = "open" /\ tk[e[i].slot].flag =>
          e[i].turn # NoTurn \/ ~Clear(e, 0, i) \/ Sure(f)
    BY <1>2, <1>3, <2>1, <2>2, <2>3
  <2> QED BY <1>1, <2>4 DEF Opened
<1>14. Past(e, f.done, c)
  <2>1. \A i \in 1 .. (n + 1) : IsNote(e[i]) => i \in 1 .. n
    BY <1>1, <1>2
  <2> QED BY <1>1, <1>2, <2>1 DEF Past
<1> QED BY <1>10, <1>11, <1>12, <1>13, <1>14 DEF View

(* A turn that began is announced at the end of the queue. *)
LEMMA AppendedNote ==
  ASSUME NEW q \in Seq(Notes \cup Replies), NEW e \in Seq(Notes \cup Replies), NEW x \in Notes,
         Len(e) = Len(q) + 1, \A i \in 1 .. Len(q) : e[i] = q[i], e[Len(q) + 1] = x,
         NEW f \in Faces, NEW tk, NEW c \in Threads, NEW c2, View(q, f, tk, c), Past(q, f.done, c),
         c.turn = NoTurn, c2.turn = c.last + 1, c2.last = c.last + 1,
         x.op = "started", x.turn = c.last + 1
  PROVE  View(e, f, tk, c2) /\ Past(e, f.done, c2)
<1> DEFINE n == Len(q)
<1>1. n \in Nat /\ DOMAIN q = 1 .. n /\ DOMAIN e = 1 .. (n + 1) /\ IsNote(x) /\ Len(e) = n + 1
      /\ x.slot = NoSlot
  <2>1. IsNote(x) /\ x.slot = NoSlot
    BY DEF Notes, IsNote
  <2>2. n \in Nat /\ DOMAIN q = 1 .. n /\ DOMAIN e = 1 .. (n + 1) /\ Len(e) = n + 1
    OBVIOUS
  <2> QED BY <2>1, <2>2
<1>2. (\A i \in 1 .. n : e[i] = q[i]) /\ e[n + 1] = x
  OBVIOUS
<1>0. c.last \in Nat /\ f.done \in Nat /\ c2.turn # NoTurn
      /\ \A i \in 1 .. n : q[i].turn \in Nat
  <2>1. SomeTurn \subseteq Nat
    BY PhoneAssumption DEF SomeTurn, Turns, NoTurn
  <2>2. \A i \in 1 .. n : q[i] \in Notes \cup Replies
    BY <1>1
  <2>3. \A y \in Notes \cup Replies : y.turn \in SomeTurn
    BY DEF Notes, Replies
  <2>4. c.last \in Nat /\ f.done \in Nat
    BY <2>1 DEF Threads, Faces
  <2>5. c2.turn # NoTurn
    BY <2>4 DEF NoTurn
  <2>6. \A i \in 1 .. n : q[i].turn \in Nat
    BY <2>1, <2>2, <2>3
  <2> QED BY <2>4, <2>5, <2>6
<1> HIDE DEF n
<1>3. \A j : \A i \in 1 .. (n + 1) : Clear(e, j, i) <=> Clear(q, j, i)
  <2> SUFFICES ASSUME NEW j, NEW i \in 1 .. (n + 1) PROVE Clear(e, j, i) <=> Clear(q, j, i)
    OBVIOUS
  <2>1. \A k \in 1 .. (n + 1) : k < i => k \in 1 .. n
    BY <1>1
  <2>2. 1 .. n \subseteq 1 .. (n + 1)
    BY <1>1
  <2> QED BY <1>1, <1>2, <2>1, <2>2 DEF Clear
<1>4. \A j \in 1 .. (n + 1), i \in 1 .. (n + 1) : Latest(e, j, i) => j \in 1 .. n /\ Latest(q, j, i)
  <2>1. \A j, i \in 1 .. (n + 1) : j < i => j \in 1 .. n
    BY <1>1
  <2> QED BY <1>2, <1>3, <2>1 DEF Latest
<1>5. \A i : Clear(e, i, n + 2) => ~(i < n + 1)
  <2>1. n + 1 \in 1 .. (n + 1) /\ n + 1 < n + 2
    BY <1>1
  <2> QED BY <1>1, <1>2, <2>1 DEF Clear
<1>6. \A i \in 0 .. n : i < n + 1
  BY <1>1
<1>7. \A i \in 1 .. (n + 1) : \A v : Shows(q, f, i, v) => Shows(e, f, i, v)
  BY <1>1, <1>2, <1>3, <1>4 DEF Shows
<1>8. \A i \in 1 .. (n + 1) : i \in 1 .. n \/ i = n + 1
  BY <1>1
<1>9. News(e, f, c2)
  <2>1. \A i \in 1 .. (n + 1) : Speaks(e[i]) => Shows(e, f, i, Saying(e[i]))
    <3>1. \A i \in 1 .. n : Speaks(q[i]) => Shows(q, f, i, Saying(q[i]))
      BY <1>1 DEF View, News
    <3>2. ~Speaks(x)
      BY <1>1 DEF Speaks, IsNote
    <3> QED BY <1>2, <1>7, <1>8, <3>1, <3>2
  <2>2. Shows(e, f, n + 2, TRUE)
    <3>1. ~Clear(e, 0, n + 2)
      BY <1>1, <1>5
    <3>2. \A j \in 1 .. (n + 1) : Latest(e, j, n + 2) => j = n + 1
      BY <1>5, <1>6, <1>8 DEF Latest
    <3> QED BY <1>1, <1>2, <3>1, <3>2 DEF Shows
  <2>3. Len(e) + 1 = n + 2
    BY <1>1
  <2> QED BY <1>0, <1>1, <2>1, <2>2, <2>3 DEF News
<1>10. /\ f.done <= c.last
       /\ \A i \in 1 .. n : IsNote(q[i]) => q[i].turn <= c.last
  BY <1>1 DEF Past
<1>11. Numbered(e, f, c2)
  <2>1. \A i \in 1 .. n : IsNote(q[i]) =>
          /\ q[i].op = "started" => f.done < q[i].turn
          /\ \A j \in 1 .. n : i < j /\ q[j].op = "started" => q[i].turn < q[j].turn
    BY <1>1 DEF View, Numbered
  <2>2. \A i \in 1 .. n : IsNote(q[i]) => q[i].turn < c.last + 1
    BY <1>0, <1>10
  <2>3. f.done < c.last + 1 /\ \A j \in 1 .. (n + 1) : ~(n + 1 < j)
    BY <1>0, <1>1, <1>10
  <2>4. \A i \in 1 .. n : ~Clear(e, i, n + 2)
    BY <1>5, <1>6, <1>1
  <2>5. \A i \in 1 .. (n + 1) : IsNote(e[i]) =>
          /\ e[i].op = "started" => f.done < e[i].turn
          /\ \A j \in 1 .. (n + 1) : i < j /\ e[j].op = "started" => e[i].turn < e[j].turn
          /\ Clear(e, i, n + 2) => e[i].turn = c2.turn
    BY <1>2, <1>8, <2>1, <2>2, <2>3, <2>4
  <2>6. Len(e) + 1 = n + 2
    BY <1>1
  <2> QED BY <1>1, <2>5, <2>6 DEF Numbered
<1>12. Steered(e, f, tk, c2)
  <2>1. \A i \in 1 .. n : Acks(q[i]) =>
          /\ \A j \in 1 .. n : Latest(q, j, i) => q[j].turn = tk[q[i].slot].turn
          /\ Clear(q, 0, i) => IF f.listed THEN f.done # tk[q[i].slot].turn
                               ELSE ~f.active /\ f.done = tk[q[i].slot].turn
    BY <1>1 DEF View, Steered
  <2>2. ~Acks(x)
    BY <1>1 DEF Acks
  <2>3. \A i \in 1 .. n : ~Clear(e, i, n + 2)
    BY <1>5, <1>6, <1>1
  <2>4. \A i \in 1 .. (n + 1) : Acks(e[i]) =>
          /\ \A j \in 1 .. (n + 1) : Latest(e, j, i) => e[j].turn = tk[e[i].slot].turn
          /\ Clear(e, 0, i) => IF f.listed THEN f.done # tk[e[i].slot].turn
                               ELSE ~f.active /\ f.done = tk[e[i].slot].turn
          /\ ~Clear(e, i, n + 2)
    BY <1>2, <1>3, <1>4, <1>8, <2>1, <2>2, <2>3, SMTT(30)
  <2>5. Len(e) + 1 = n + 2
    BY <1>1
  <2> QED BY <1>1, <2>4, <2>5 DEF Steered
<1>13. Opened(e, f, tk)
  <2>1. \A i \in 1 .. n : q[i].slot # NoSlot /\ tk[q[i].slot].pc = "open" /\ tk[q[i].slot].flag =>
          q[i].turn # NoTurn \/ ~Clear(q, 0, i) \/ Sure(f)
    BY <1>1 DEF View, Opened
  <2> QED BY <1>1, <1>2, <1>3, <1>8, <2>1 DEF Opened
<1>14. Past(e, f.done, c2)
  <2>1. f.done < c.last + 1 /\ f.done <= c.last + 1
    BY <1>0, <1>10
  <2>2. \A i \in 1 .. n : IsNote(q[i]) => q[i].turn <= c.last + 1 /\ q[i].turn < c.last + 1
    BY <1>0, <1>10
  <2>3. c.last + 1 <= c.last + 1
    BY <1>0
  <2> QED BY <1>1, <1>2, <1>8, <2>1, <2>2, <2>3 DEF Past
<1> QED BY <1>9, <1>11, <1>12, <1>13, <1>14 DEF View

(* What is known of two turns is of numbers. *)
LEMMA TurnsAreNumbers ==
  /\ SomeTurn \subseteq Nat /\ NoTurn = 0
  /\ \A y \in Notes \cup Replies : y.turn \in Nat
<1>1. SomeTurn \subseteq Nat
  BY PhoneAssumption DEF SomeTurn, Turns, NoTurn
<1>2. \A y \in Notes \cup Replies : y.turn \in SomeTurn
  BY DEF Notes, Replies
<1> QED BY <1>1, <1>2 DEF NoTurn

(* The end of the turn is announced, before acknowledgements of steers. *)
LEMMA InsertedView ==
  ASSUME NEW q \in Seq(Notes \cup Replies), NEW x \in Notes, NEW i \in 0 .. Len(q),
         NEW f \in Faces, NEW tk, NEW c \in Threads, NEW c2,
         View(q, f, tk, c), Past(q, f.done, c), Announced(q),
         c.turn # NoTurn, c.turn \in {NoTurn, c.last}, c2.turn = NoTurn, c2.last = c.last,
         x.op = "completed", x.turn = c.turn,
         \A j \in 1 .. (Len(q) - i) : q[i + j].of = "steer"
  PROVE  LET e == Insert(q, x, i) IN View(e, f, tk, c2) /\ Past(e, f.done, c2) /\ Announced(e)
<1> DEFINE e == Insert(q, x, i)
           n == Len(q)
           Old(j) == IF j <= i THEN j ELSE j - 1
<1>0. n \in Nat /\ i \in Nat /\ i <= n
  OBVIOUS
<1>1. /\ DOMAIN q = 1 .. n /\ DOMAIN e = 1 .. (n + 1) /\ Len(e) = n + 1
      /\ \A j \in 1 .. i : e[j] = q[j]
      /\ e[i + 1] = x
      /\ \A j \in (i + 2) .. (n + 1) : e[j] = q[j - 1]
  BY Inserted DEF Grows
<1>2. IsNote(x) /\ x.slot = NoSlot
  BY DEF Notes, IsNote
<1>3. \A j \in 1 .. n : i < j => q[j].of = "steer" /\ ~IsNote(q[j])
  <2> SUFFICES ASSUME NEW j \in 1 .. n, i < j PROVE q[j].of = "steer" /\ ~IsNote(q[j])
    OBVIOUS
  <2>1. j - i \in 1 .. (n - i) /\ i + (j - i) = j
    BY <1>0
  <2>2. q[j].of = "steer"
    BY <2>1
  <2>3. q[j] \in Notes \cup Replies
    BY <1>1
  <2> QED BY <2>2, <2>3 DEF Notes, Replies, IsNote
<1>4. c.turn \in Nat /\ c.last \in Nat /\ f.done \in Nat /\ (\A j \in 1 .. n : q[j].turn \in Nat)
      /\ c.turn = c.last
  <2>1. \A j \in 1 .. n : q[j] \in Notes \cup Replies
    BY <1>1
  <2>2. c.last \in SomeTurn /\ f.done \in SomeTurn
    BY DEF Threads, Faces
  <2> QED BY <2>1, <2>2, TurnsAreNumbers
<1> HIDE DEF e, n
<1>5. ASSUME NEW j \in 1 .. (n + 1), j # i + 1
      PROVE  /\ Old(j) \in 1 .. n /\ e[j] = q[Old(j)]
             /\ j <= i => Old(j) = j
             /\ ~(j <= i) => Old(j) = j - 1 /\ i < Old(j) /\ i + 1 < j
  <2>1. CASE j <= i
    <3>1. j \in 1 .. i /\ j \in 1 .. n
      BY <1>0, <2>1
    <3> QED BY <1>1, <2>1, <3>1
  <2>2. CASE ~(j <= i)
    <3>1. j \in (i + 2) .. (n + 1) /\ j - 1 \in 1 .. n /\ i < j - 1 /\ i + 1 < j
      BY <1>0, <1>5, <2>2
    <3> QED BY <1>1, <2>2, <3>1
  <2> QED BY <2>1, <2>2
<1>6. ASSUME NEW j \in 1 .. (n + 1), j # i + 1, IsNote(e[j])
      PROVE  j \in 1 .. i /\ j \in 1 .. n /\ e[j] = q[j]
  <2>1. j <= i
    BY <1>3, <1>5, <1>6
  <2> QED BY <1>0, <1>5, <2>1
<1>7. \A k \in 1 .. i : k \in 1 .. n /\ k \in 1 .. (n + 1) /\ e[k] = q[k]
  BY <1>0, <1>1
<1>8. \A j : \A k \in 1 .. (i + 1) : Clear(e, j, k) <=> Clear(q, j, k)
  <2> SUFFICES ASSUME NEW j, NEW k \in 1 .. (i + 1) PROVE Clear(e, j, k) <=> Clear(q, j, k)
    OBVIOUS
  <2>1. \A l \in 1 .. (n + 1) : l < k => l \in 1 .. i
    BY <1>0
  <2>2. \A l \in 1 .. n : l < k => l \in 1 .. i
    BY <1>0
  <2> QED BY <1>1, <1>7, <2>1, <2>2 DEF Clear
<1>9. \A k \in 1 .. (n + 2) : i + 1 < k => \A j \in 0 .. i : ~Clear(e, j, k)
  <2>1. i + 1 \in 1 .. (n + 1) /\ \A j \in 0 .. i : j < i + 1
    BY <1>0
  <2> QED BY <1>1, <1>2, <2>1 DEF Clear
<1>10. \A k \in 1 .. (i + 1) : \A j \in 1 .. (n + 1) : Latest(e, j, k) <=> (j \in 1 .. n /\ Latest(q, j, k))
  <2> SUFFICES ASSUME NEW k \in 1 .. (i + 1), NEW j \in 1 .. (n + 1)
               PROVE  Latest(e, j, k) <=> (j \in 1 .. n /\ Latest(q, j, k))
    OBVIOUS
  <2>1. j < k => j \in 1 .. i
    BY <1>0
  <2> QED BY <1>7, <1>8, <2>1 DEF Latest
<1>11. \A k \in 1 .. (n + 2) : i + 1 < k => \A j \in 1 .. (n + 1) : Latest(e, j, k) => j = i + 1
  <2> SUFFICES ASSUME NEW k \in 1 .. (n + 2), i + 1 < k, NEW j \in 1 .. (n + 1), Latest(e, j, k), j # i + 1
               PROVE  FALSE
    OBVIOUS
  <2>1. j \in 1 .. i
    BY <1>6 DEF Latest
  <2>2. j \in 0 .. i
    BY <1>0, <2>1
  <2> QED BY <1>9, <2>2 DEF Latest
<1>12. \A k \in 1 .. (i + 1) : \A v : Shows(q, f, k, v) => Shows(e, f, k, v)
  BY <1>1, <1>7, <1>8, <1>10 DEF Shows, Latest
<1>13. \A k \in 1 .. (n + 2) : i + 1 < k => Shows(e, f, k, FALSE)
  <2>1. 0 \in 0 .. i
    BY <1>0
  <2> QED BY <1>1, <1>9, <1>11, <2>1 DEF Shows
<1>14. News(e, f, c2)
  <2>1. \A k \in 1 .. n : Speaks(q[k]) => Shows(q, f, k, Saying(q[k]))
    BY <1>1 DEF View, News
  <2>2. ASSUME NEW k \in 1 .. (n + 1), Speaks(e[k]) PROVE Shows(e, f, k, Saying(e[k]))
    <3>1. k # i + 1
      BY <1>1, <1>2, <2>2 DEF Speaks, IsNote
    <3>2. CASE k <= i
      <4>1. k \in 1 .. i /\ k \in 1 .. (i + 1)
        BY <1>0, <3>2
      <4> QED BY <1>7, <1>12, <2>1, <2>2, <4>1
    <3>3. CASE ~(k <= i)
      <4>1. e[k].of = "steer"
        BY <1>3, <1>5, <3>1, <3>3
      <4> QED BY <2>2, <4>1 DEF Speaks, Refused
    <3> QED BY <3>2, <3>3
  <2>3. Len(e) + 1 = n + 2 /\ n + 2 \in 1 .. (n + 2) /\ i + 1 < n + 2
    BY <1>0, <1>1
  <2>4. Shows(e, f, n + 2, FALSE)
    BY <1>13, <2>3
  <2>5. (c2.turn # NoTurn) = FALSE
    OBVIOUS
  <2> QED BY <1>1, <2>2, <2>3, <2>4, <2>5 DEF News
<1>15. \A k \in 1 .. n : IsNote(q[k]) =>
         /\ q[k].op = "started" => f.done < q[k].turn
         /\ \A j \in 1 .. n : k < j /\ q[j].op = "started" => q[k].turn < q[j].turn
         /\ q[k].turn <= c.last
         /\ q[k].op = "completed" => q[k].turn < c.turn
  BY <1>1 DEF View, Numbered, Past
<1>16. Numbered(e, f, c2)
  <2>1. ASSUME NEW k \in 1 .. (n + 1), IsNote(e[k])
        PROVE  /\ e[k].op = "started" => f.done < e[k].turn
               /\ \A j \in 1 .. (n + 1) : k < j /\ e[j].op = "started" => e[k].turn < e[j].turn
    <3>1. CASE k = i + 1
      <4>1. e[k].op # "started"
        BY <1>1, <3>1
      <4>2. ASSUME NEW j \in 1 .. (n + 1), k < j, e[j].op = "started" PROVE FALSE
        <5>1. IsNote(e[j]) /\ j # i + 1
          BY <1>0, <3>1, <4>2 DEF IsNote
        <5>2. j \in 1 .. i
          BY <1>6, <5>1
        <5> QED BY <1>0, <3>1, <4>2, <5>2
      <4> QED BY <4>1, <4>2
    <3>2. CASE k # i + 1
      <4>1. k \in 1 .. n /\ e[k] = q[k]
        BY <1>6, <2>1, <3>2
      <4>2. ASSUME NEW j \in 1 .. (n + 1), k < j, e[j].op = "started" PROVE e[k].turn < e[j].turn
        <5>1. IsNote(e[j]) /\ j # i + 1
          BY <1>1, <4>2 DEF IsNote
        <5>2. j \in 1 .. n /\ e[j] = q[j]
          BY <1>6, <5>1
        <5> QED BY <1>15, <2>1, <4>1, <4>2, <5>2
      <4> QED BY <1>15, <2>1, <4>1, <4>2
    <3> QED BY <3>1, <3>2
  <2> QED BY <1>1, <2>1 DEF Numbered
<1>17. Steered(e, f, tk, c2)
  <2>1. \A k \in 1 .. n : Acks(q[k]) =>
          /\ \A j \in 1 .. n : Latest(q, j, k) => q[j].turn = tk[q[k].slot].turn
          /\ Clear(q, 0, k) => IF f.listed THEN f.done # tk[q[k].slot].turn
                               ELSE ~f.active /\ f.done = tk[q[k].slot].turn
          /\ Clear(q, k, n + 1) => tk[q[k].slot].turn = c.turn
    BY <1>1 DEF View, Steered, n
  <2>2. ASSUME NEW k \in 1 .. (n + 1), Acks(e[k])
        PROVE  /\ \A j \in 1 .. (n + 1) : Latest(e, j, k) => e[j].turn = tk[e[k].slot].turn
               /\ Clear(e, 0, k) => IF f.listed THEN f.done # tk[e[k].slot].turn
                                    ELSE ~f.active /\ f.done = tk[e[k].slot].turn
    <3>1. k # i + 1
      BY <1>1, <1>2, <2>2 DEF Acks
    <3>2. CASE k <= i
      <4>1. k \in 1 .. i /\ k \in 1 .. (i + 1) /\ k \in 1 .. n /\ e[k] = q[k]
        BY <1>0, <1>7, <3>2
      <4>2. \A j \in 1 .. (n + 1) : Latest(e, j, k) => e[j].turn = q[j].turn /\ Latest(q, j, k) /\ j \in 1 .. n
        <5>1. \A j \in 1 .. (n + 1) : Latest(e, j, k) => j \in 1 .. i
          BY <1>0, <3>2 DEF Latest
        <5> QED BY <1>7, <1>10, <4>1, <5>1
      <4>3. Acks(q[k]) /\ tk[e[k].slot] = tk[q[k].slot]
        BY <2>2, <4>1
      <4>4. \A j \in 1 .. (n + 1) : Latest(e, j, k) => e[j].turn = tk[e[k].slot].turn
        BY <2>1, <4>1, <4>2, <4>3
      <4>5. Clear(e, 0, k) => Clear(q, 0, k)
        BY <1>8, <4>1
      <4> QED BY <2>1, <4>1, <4>3, <4>4, <4>5
    <3>3. CASE ~(k <= i)
      <4>1. k - 1 \in 1 .. n /\ e[k] = q[k - 1] /\ i < k - 1 /\ i + 1 < k
        BY <1>5, <3>1, <3>3
      <4>2. Clear(q, k - 1, n + 1)
        <5>1. \A l \in 1 .. n : k - 1 < l => i < l
          BY <1>0, <4>1
        <5> QED BY <1>1, <1>3, <5>1 DEF Clear
      <4>3. tk[e[k].slot].turn = c.turn
        BY <2>1, <2>2, <4>1, <4>2
      <4>4. k \in 1 .. (n + 2) /\ 0 \in 0 .. i
        BY <1>0
      <4>5. ~Clear(e, 0, k) /\ \A j \in 1 .. (n + 1) : Latest(e, j, k) => j = i + 1
        BY <1>9, <1>11, <4>1, <4>4
      <4> QED BY <1>1, <4>3, <4>5
    <3> QED BY <3>2, <3>3
  <2> QED BY <1>1, <2>2 DEF Steered
<1>18. Opened(e, f, tk)
  <2>1. \A k \in 1 .. n : q[k].slot # NoSlot /\ tk[q[k].slot].pc = "open" /\ tk[q[k].slot].flag =>
          q[k].turn # NoTurn \/ ~Clear(q, 0, k) \/ Sure(f)
    BY <1>1 DEF View, Opened
  <2>2. ASSUME NEW k \in 1 .. (n + 1), e[k].slot # NoSlot, tk[e[k].slot].pc = "open", tk[e[k].slot].flag,
               Clear(e, 0, k)
        PROVE  e[k].turn # NoTurn \/ Sure(f)
    <3>1. k # i + 1
      BY <1>1, <1>2, <2>2
    <3>2. CASE k <= i
      <4>1. k \in 1 .. i /\ k \in 1 .. (i + 1) /\ k \in 1 .. n /\ e[k] = q[k]
        BY <1>0, <1>7, <3>2
      <4> QED BY <1>8, <2>1, <2>2, <4>1
    <3>3. CASE ~(k <= i)
      <4>1. k \in 1 .. (n + 2) /\ 0 \in 0 .. i /\ i + 1 < k
        BY <1>0, <1>5, <3>1, <3>3
      <4> QED BY <1>9, <2>2, <4>1
    <3> QED BY <3>2, <3>3
  <2> QED BY <1>1, <2>2 DEF Opened
<1>19. Past(e, f.done, c2)
  <2>1. ASSUME NEW k \in 1 .. (n + 1), IsNote(e[k]) PROVE e[k].turn <= c.last
    <3>1. CASE k = i + 1
      BY <1>1, <1>4, <3>1
    <3>2. CASE k # i + 1
      BY <1>6, <1>15, <2>1, <3>2
    <3> QED BY <3>1, <3>2
  <2>2. f.done <= c.last
    BY DEF Past
  <2> QED BY <1>1, <2>1, <2>2 DEF Past
<1>20. Announced(e)
  <2> SUFFICES ASSUME NEW k \in 1 .. (n + 1), Begun(e[k])
               PROVE  k + 1 \in 1 .. (n + 1) /\ e[k + 1].op = "started"
    BY <1>1 DEF Announced
  <2>1. k # i + 1
    BY <1>1, <1>2 DEF Begun, IsNote
  <2>2. CASE k <= i
    <3>1. k \in 1 .. i /\ k \in 1 .. n /\ e[k] = q[k]
      BY <1>0, <1>7, <2>2
    <3>2. k + 1 \in 1 .. n /\ q[k + 1].op = "started"
      BY <1>1, <3>1 DEF Announced
    <3>3. IsNote(q[k + 1])
      BY <3>2 DEF IsNote
    <3>4. k + 1 \in 1 .. i
      BY <1>0, <1>3, <3>2, <3>3
    <3> QED BY <1>7, <3>2, <3>4
  <2>3. CASE ~(k <= i)
    <3>1. e[k].of = "steer"
      BY <1>3, <1>5, <2>1, <2>3
    <3> QED BY <3>1 DEF Begun
  <2> QED BY <2>2, <2>3
<1> QED BY <1>14, <1>16, <1>17, <1>18, <1>19, <1>20 DEF View, e

(* An error of the turn is told of, before acknowledgements of steers. *)
LEMMA InsertedError ==
  ASSUME NEW q \in Seq(Notes \cup Replies), NEW x \in Notes, NEW i \in 0 .. Len(q),
         NEW f \in Faces, NEW tk, NEW c, View(q, f, tk, c), Past(q, f.done, c), Announced(q),
         x.op = "error", \A j \in 1 .. (Len(q) - i) : q[i + j].of = "steer"
  PROVE  LET e == Insert(q, x, i) IN View(e, f, tk, c) /\ Past(e, f.done, c) /\ Announced(e)
<1> DEFINE e == Insert(q, x, i)
           n == Len(q)
           Old(j) == IF j <= i THEN j ELSE j - 1
           new(j) == IF j <= i THEN j ELSE j + 1
<1>0. n \in Nat /\ i \in Nat /\ i <= n
  OBVIOUS
<1>1. /\ DOMAIN q = 1 .. n /\ DOMAIN e = 1 .. (n + 1) /\ Len(e) = n + 1
      /\ \A j \in 1 .. i : e[j] = q[j]
      /\ e[i + 1] = x
      /\ \A j \in (i + 2) .. (n + 1) : e[j] = q[j - 1]
  BY Inserted DEF Grows
<1>2. ~IsNote(x) /\ x.slot = NoSlot /\ x.op # "answer"
  BY DEF Notes, IsNote
<1>3. \A j \in 1 .. n : i < j => ~IsNote(q[j])
  <2> SUFFICES ASSUME NEW j \in 1 .. n, i < j PROVE ~IsNote(q[j])
    OBVIOUS
  <2>1. j - i \in 1 .. (n - i) /\ i + (j - i) = j
    BY <1>0
  <2>2. q[j].of = "steer"
    BY <2>1
  <2>3. q[j] \in Notes \cup Replies
    BY <1>1
  <2> QED BY <2>2, <2>3 DEF Notes, Replies, IsNote
<1> HIDE DEF e, n
<1> DEFINE J == (1 .. (n + 2)) \ {i + 1}
<1>4. ASSUME NEW j \in 1 .. (n + 1), j # i + 1 PROVE Old(j) \in 1 .. n /\ e[j] = q[Old(j)] /\ j \in J
  <2>1. CASE j <= i
    <3>1. j \in 1 .. i /\ j \in 1 .. n
      BY <1>0, <2>1
    <3> QED BY <1>0, <1>1, <1>4, <2>1, <3>1
  <2>2. CASE ~(j <= i)
    <3>1. j \in (i + 2) .. (n + 1) /\ j - 1 \in 1 .. n
      BY <1>0, <1>4, <2>2
    <3> QED BY <1>0, <1>1, <1>4, <2>2, <3>1
  <2> QED BY <2>1, <2>2
<1>5. ASSUME NEW k \in 1 .. n
      PROVE  /\ new(k) \in 1 .. (n + 1) /\ e[new(k)] = q[k]
             /\ \A a \in J \cup {0} : Old(a) < k => a < new(k)
             /\ \A a \in J : k < Old(a) => new(k) < a
  <2>1. new(k) \in 1 .. (n + 1) /\ new(k) # i + 1 /\ Old(new(k)) = k
    BY <1>0
  <2>2. e[new(k)] = q[Old(new(k))]
    BY <1>4, <2>1
  <2>3. /\ \A a \in J \cup {0} : Old(a) < k => a < new(k)
        /\ \A a \in J : k < Old(a) => new(k) < a
    BY <1>0
  <2> QED BY <2>1, <2>2, <2>3
<1>6. /\ Old(0) = 0 /\ n + 2 \in J /\ Old(n + 2) = n + 1
      /\ \A a, b \in J : a < b => Old(a) < Old(b)
  BY <1>0
<1> HIDE DEF J, Old, new
<1>7. \A a \in J \cup {0} : \A b \in J : Clear(e, a, b) => Clear(q, Old(a), Old(b))
  BY <1>1, <1>5 DEF Clear
<1>8. ASSUME NEW j \in 1 .. (n + 1), NEW b \in J, Latest(e, j, b)
      PROVE  Old(j) \in 1 .. n /\ e[j] = q[Old(j)] /\ Latest(q, Old(j), Old(b))
  <2>1. j # i + 1
    BY <1>1, <1>2, <1>8 DEF Latest
  <2>2. Old(j) \in 1 .. n /\ e[j] = q[Old(j)] /\ j \in J
    BY <1>4, <2>1
  <2> QED BY <1>6, <1>7, <1>8, <2>2 DEF Latest
<1>9. \A b \in J : Clear(e, 0, b) => Clear(q, 0, Old(b))
  BY <1>6, <1>7
<1>10. \A b \in J : \A v : Shows(q, f, Old(b), v) => Shows(e, f, b, v)
  BY <1>1, <1>8, <1>9 DEF Shows
<1>11. \A k \in 1 .. (n + 1) : IsNote(e[k]) \/ e[k].op = "answer" \/ e[k].slot # NoSlot => k # i + 1
  BY <1>1, <1>2
<1>12. News(e, f, c)
  <2>1. \A k \in 1 .. (n + 1) : Speaks(e[k]) => Shows(e, f, k, Saying(e[k]))
    <3> SUFFICES ASSUME NEW k \in 1 .. (n + 1), Speaks(e[k]) PROVE Shows(e, f, k, Saying(e[k]))
      OBVIOUS
    <3>1. Old(k) \in 1 .. n /\ e[k] = q[Old(k)] /\ k \in J
      BY <1>4, <1>11 DEF Speaks
    <3>2. Shows(q, f, Old(k), Saying(q[Old(k)]))
      BY <1>1, <3>1 DEF View, News
    <3> QED BY <1>10, <3>1, <3>2
  <2>2. Shows(q, f, n + 1, c.turn # NoTurn) /\ Len(e) + 1 = n + 2
    BY <1>0, <1>1 DEF View, News, n
  <2> QED BY <1>1, <1>6, <1>10, <2>1, <2>2 DEF News
<1>13. Numbered(e, f, c)
  <2> SUFFICES ASSUME NEW k \in 1 .. (n + 1), IsNote(e[k])
               PROVE  /\ e[k].op = "started" => f.done < e[k].turn
                      /\ \A j \in 1 .. (n + 1) : k < j /\ e[j].op = "started" => e[k].turn < e[j].turn
                      /\ c.turn # NoTurn /\ Clear(e, k, Len(e) + 1) => e[k].turn = c.turn
    BY <1>1 DEF Numbered
  <2>1. Old(k) \in 1 .. n /\ e[k] = q[Old(k)] /\ k \in J /\ Len(e) + 1 = n + 2
    BY <1>0, <1>1, <1>4, <1>11
  <2>2. /\ q[Old(k)].op = "started" => f.done < q[Old(k)].turn
        /\ \A j \in 1 .. n : Old(k) < j /\ q[j].op = "started" => q[Old(k)].turn < q[j].turn
        /\ c.turn # NoTurn /\ Clear(q, Old(k), n + 1) => q[Old(k)].turn = c.turn
    BY <1>1, <2>1 DEF View, Numbered, n
  <2>3. ASSUME NEW j \in 1 .. (n + 1), k < j, e[j].op = "started" PROVE e[k].turn < e[j].turn
    <3>1. Old(j) \in 1 .. n /\ e[j] = q[Old(j)] /\ j \in J
      BY <1>4, <1>11, <2>3 DEF IsNote
    <3> QED BY <1>6, <2>1, <2>2, <2>3, <3>1
  <2>4. Clear(e, k, Len(e) + 1) => Clear(q, Old(k), n + 1)
    BY <1>6, <1>7, <2>1
  <2> QED BY <2>1, <2>2, <2>3, <2>4
<1>14. Steered(e, f, tk, c)
  <2> SUFFICES ASSUME NEW k \in 1 .. (n + 1), Acks(e[k])
               PROVE  LET t == tk[e[k].slot].turn IN
                      /\ \A j \in 1 .. (n + 1) : Latest(e, j, k) => e[j].turn = t
                      /\ Clear(e, 0, k) => IF f.listed THEN f.done # t ELSE ~f.active /\ f.done = t
                      /\ c.turn # NoTurn /\ Clear(e, k, Len(e) + 1) => t = c.turn
    BY <1>1 DEF Steered
  <2> DEFINE t == tk[e[k].slot].turn
  <2>1. Old(k) \in 1 .. n /\ e[k] = q[Old(k)] /\ k \in J /\ Len(e) + 1 = n + 2
    BY <1>0, <1>1, <1>4, <1>11 DEF Acks
  <2>2. /\ \A j \in 1 .. n : Latest(q, j, Old(k)) => q[j].turn = t
        /\ Clear(q, 0, Old(k)) => IF f.listed THEN f.done # t ELSE ~f.active /\ f.done = t
        /\ c.turn # NoTurn /\ Clear(q, Old(k), n + 1) => t = c.turn
    <3>1. \A m \in 1 .. n : Acks(q[m]) =>
            /\ \A j \in 1 .. n : Latest(q, j, m) => q[j].turn = tk[q[m].slot].turn
            /\ Clear(q, 0, m) => IF f.listed THEN f.done # tk[q[m].slot].turn
                                 ELSE ~f.active /\ f.done = tk[q[m].slot].turn
            /\ c.turn # NoTurn /\ Clear(q, m, n + 1) => tk[q[m].slot].turn = c.turn
      BY <1>1 DEF View, Steered, n
    <3>2. Acks(q[Old(k)]) /\ tk[q[Old(k)].slot].turn = t
      BY <2>1
    <3> HIDE DEF t
    <3> QED BY <2>1, <3>1, <3>2
  <2> HIDE DEF t
  <2>3. \A j \in 1 .. (n + 1) : Latest(e, j, k) => e[j].turn = t
    BY <1>8, <2>1, <2>2
  <2>4. Clear(e, k, Len(e) + 1) => Clear(q, Old(k), n + 1)
    BY <1>6, <1>7, <2>1
  <2> QED BY <1>9, <2>1, <2>2, <2>3, <2>4 DEF t
<1>15. Opened(e, f, tk)
  <2> SUFFICES ASSUME NEW k \in 1 .. (n + 1), e[k].slot # NoSlot, tk[e[k].slot].pc = "open",
                      tk[e[k].slot].flag, Clear(e, 0, k)
               PROVE  e[k].turn # NoTurn \/ Sure(f)
    BY <1>1 DEF Opened
  <2>1. Old(k) \in 1 .. n /\ e[k] = q[Old(k)] /\ k \in J
    BY <1>4, <1>11
  <2> QED BY <1>1, <1>9, <2>1 DEF View, Opened
<1>16. Past(e, f.done, c)
  BY <1>1, <1>4, <1>11 DEF Past
<1>17. Announced(e)
  <2> SUFFICES ASSUME NEW k \in 1 .. (n + 1), Begun(e[k])
               PROVE  k + 1 \in 1 .. (n + 1) /\ e[k + 1].op = "started"
    BY <1>1 DEF Announced
  <2>1. Old(k) \in 1 .. n /\ e[k] = q[Old(k)]
    BY <1>4, <1>11 DEF Begun
  <2>2. Old(k) + 1 \in 1 .. n /\ q[Old(k) + 1].op = "started"
    BY <1>1, <2>1 DEF Announced
  <2>3. ~(i < Old(k) + 1)
    BY <1>3, <2>2 DEF IsNote
  <2>4. k + 1 \in 1 .. i /\ Old(k) = k
    BY <1>0, <2>3 DEF Old
  <2> QED BY <1>0, <1>1, <2>2, <2>4
<1> QED BY <1>12, <1>13, <1>14, <1>15, <1>16, <1>17 DEF View, e

(* The head of the queue is taken. *)
LEMMA TailIndices ==
  ASSUME NEW q \in Seq(Notes \cup Replies), q # <<>>
  PROVE  LET e == Tail(q)
             n == Len(q) - 1
         IN /\ e \in Seq(Notes \cup Replies) /\ n \in Nat /\ Len(e) = n /\ Len(q) = n + 1
            /\ DOMAIN e = 1 .. n /\ DOMAIN q = 1 .. (n + 1)
            /\ \A i \in 1 .. n : i + 1 \in 1 .. (n + 1) /\ e[i] = q[i + 1]
            /\ Head(q) = q[1] /\ 1 \in 1 .. (n + 1) /\ Head(q) \in Notes \cup Replies
            /\ \A i, j \in 1 .. (n + 1) : Clear(e, i, j) => Clear(q, i + 1, j + 1)
            /\ \A j \in 1 .. (n + 1) : Clear(e, 0, j) => Clear(q, 1, j + 1)
            /\ ~IsNote(q[1]) => \A j \in 1 .. (n + 1) : Clear(e, 0, j) => Clear(q, 0, j + 1)
            /\ \A j \in 1 .. n, i \in 1 .. (n + 1) : Latest(e, j, i) => Latest(q, j + 1, i + 1)
<1> DEFINE e == Tail(q)
           n == Len(q) - 1
<1>1. /\ e \in Seq(Notes \cup Replies) /\ Len(e) = n
      /\ \A i \in 1 .. n : e[i] = q[i + 1]
      /\ Head(q) = q[1] /\ Len(q) \in Nat /\ Len(q) > 0
  BY HeadTailProperties, LenProperties, EmptySeq
<1>2. n \in Nat /\ Len(q) = n + 1 /\ DOMAIN e = 1 .. n /\ DOMAIN q = 1 .. (n + 1)
  BY <1>1
<1> HIDE DEF e, n
<1>3. \A i \in 1 .. n : i + 1 \in 1 .. (n + 1) /\ e[i] = q[i + 1]
  BY <1>1, <1>2
<1>4. 1 \in 1 .. (n + 1) /\ q[1] \in Notes \cup Replies
  BY <1>1, <1>2
<1>5. \A k \in 1 .. (n + 1) : 1 < k => k - 1 \in 1 .. n /\ e[k - 1] = q[k]
  <2> SUFFICES ASSUME NEW k \in 1 .. (n + 1), 1 < k PROVE k - 1 \in 1 .. n /\ e[k - 1] = q[k]
    OBVIOUS
  <2>1. k - 1 \in 1 .. n /\ (k - 1) + 1 = k
    BY <1>2
  <2> QED BY <1>3, <2>1
<1>6. ASSUME NEW i \in 0 .. (n + 1), NEW j \in 1 .. (n + 1), Clear(e, i, j) PROVE Clear(q, i + 1, j + 1)
  <2> SUFFICES ASSUME NEW k \in 1 .. (n + 1), i + 1 < k, k < j + 1 PROVE ~IsNote(q[k])
    BY <1>2 DEF Clear
  <2>1. 1 < k /\ i < k - 1 /\ k - 1 < j
    BY <1>2
  <2>2. k - 1 \in 1 .. n /\ e[k - 1] = q[k]
    BY <1>5, <2>1
  <2> QED BY <1>2, <1>6, <2>1, <2>2 DEF Clear
<1>7. \A j \in 1 .. (n + 1) : Clear(e, 0, j) => Clear(q, 1, j + 1)
  <2>1. 0 \in 0 .. (n + 1) /\ 0 + 1 = 1
    BY <1>2
  <2> QED BY <1>6, <2>1
<1>8. ASSUME ~IsNote(q[1]), NEW j \in 1 .. (n + 1), Clear(e, 0, j) PROVE Clear(q, 0, j + 1)
  <2>1. Clear(q, 1, j + 1)
    BY <1>7, <1>8
  <2>2. \A k \in 1 .. (n + 1) : k = 1 \/ 1 < k
    BY <1>2
  <2> QED BY <1>2, <1>8, <2>1, <2>2 DEF Clear
<1>9. \A i, j \in 1 .. (n + 1) : Clear(e, i, j) => Clear(q, i + 1, j + 1)
  <2>1. \A i \in 1 .. (n + 1) : i \in 0 .. (n + 1)
    BY <1>2
  <2> QED BY <1>6, <2>1
<1>10. ASSUME NEW j \in 1 .. n, NEW i \in 1 .. (n + 1), Latest(e, j, i) PROVE Latest(q, j + 1, i + 1)
  <2>1. j \in 1 .. (n + 1) /\ j + 1 < i + 1
    BY <1>2, <1>10 DEF Latest
  <2> QED BY <1>3, <1>9, <1>10, <2>1 DEF Latest
<1> QED BY <1>1, <1>2, <1>3, <1>4, <1>7, <1>8, <1>9, <1>10 DEF e, n

(* An answer is taken.  What the page shows changes only to what is right, *)
(* and where the list shows something else a turn began.                   *)
LEMMA TakenAnswer ==
  ASSUME NEW q \in Seq(Notes \cup Replies), q # <<>>, ~IsNote(Head(q)),
         NEW f \in Faces, NEW f2 \in Faces, NEW tk, NEW c, View(q, f, tk, c), Past(q, f.done, c),
         Announced(q), f2.done = f.done,
         f2.active = f.active \/ Sure(f2), f2.off = f.off \/ Sure(f2),
         f2.listed = f.listed \/ (Begun(Head(q)) /\ Sure(f2) /\ f2.listed)
  PROVE  LET e == Tail(q) IN View(e, f2, tk, c) /\ Past(e, f2.done, c) /\ Announced(e)
<1> DEFINE e == Tail(q)
           n == Len(q) - 1
<1>1. /\ n \in Nat /\ Len(e) = n /\ Len(q) = n + 1
      /\ DOMAIN e = 1 .. n /\ DOMAIN q = 1 .. (n + 1)
      /\ \A i \in 1 .. n : i + 1 \in 1 .. (n + 1) /\ e[i] = q[i + 1]
      /\ Head(q) = q[1] /\ 1 \in 1 .. (n + 1)
      /\ \A i, j \in 1 .. (n + 1) : Clear(e, i, j) => Clear(q, i + 1, j + 1)
      /\ \A j \in 1 .. (n + 1) : Clear(e, 0, j) => Clear(q, 0, j + 1)
      /\ \A j \in 1 .. n, i \in 1 .. (n + 1) : Latest(e, j, i) => Latest(q, j + 1, i + 1)
  BY TailIndices
<1> HIDE DEF e, n
<1>2. ASSUME Begun(q[1])
      PROVE  1 \in 1 .. n /\ IsNote(e[1]) /\ e[1].op = "started"
  <2>1. 2 \in DOMAIN q /\ q[2].op = "started"
    <3>1. 1 + 1 = 2
      OBVIOUS
    <3> QED BY <1>1, <1>2, <3>1 DEF Announced
  <2>2. 1 \in 1 .. n /\ 1 + 1 = 2
    BY <1>1, <2>1
  <2>3. e[1] = q[2]
    BY <1>1, <2>2
  <2> QED BY <2>1, <2>2, <2>3 DEF IsNote
<1>3. ASSUME Begun(q[1]), NEW i \in 1 .. (n + 1), Clear(e, 0, i)
      PROVE  i = 1
  <2>1. ~(0 < 1 /\ 1 < i)
    BY <1>1, <1>2, <1>3 DEF Clear
  <2> QED BY <1>1, <2>1
<1>4. \A i \in 1 .. n : Clear(e, 0, i) => f2.listed = f.listed \/ (i = 1 /\ IsNote(e[1]))
  <2>1. \A i \in 1 .. n : i \in 1 .. (n + 1)
    BY <1>1
  <2> QED BY <1>1, <1>2, <1>3, <2>1
<1>5. Clear(e, 0, n + 1) => f2.listed = f.listed
  <2>1. n + 1 \in 1 .. (n + 1) /\ (1 \in 1 .. n => n + 1 # 1)
    BY <1>1
  <2> QED BY <1>1, <1>2, <1>3, <2>1
<1>6. \A i \in 1 .. n : i \in 1 .. (n + 1) /\ i + 1 \in 1 .. (n + 1)
  BY <1>1
<1>7. ASSUME NEW i \in 1 .. (n + 1), NEW v, Shows(q, f, i + 1, v), Clear(e, 0, i) => f2.listed = f.listed
      PROVE  Shows(e, f2, i, v)
  <2>1. Clear(e, 0, i) => f2.listed = v
    BY <1>1, <1>7 DEF Shows
  <2>2. ASSUME NEW j \in 1 .. n, Latest(e, j, i) PROVE (e[j].op = "started") = v
    <3>1. j + 1 \in 1 .. (n + 1) /\ e[j] = q[j + 1] /\ Latest(q, j + 1, i + 1)
      BY <1>1, <2>2
    <3>2. \A k \in 1 .. (n + 1) : Latest(q, k, i + 1) => (q[k].op = "started") = v
      BY <1>1, <1>7 DEF Shows
    <3>3. (q[j + 1].op = "started") = v
      BY <3>1, <3>2
    <3> QED BY <3>1, <3>3
  <2> QED BY <1>1, <2>1, <2>2 DEF Shows
<1>8. News(e, f2, c)
  <2>1. \A i \in 1 .. (n + 1) : Speaks(q[i]) => Shows(q, f, i, Saying(q[i]))
    BY <1>1 DEF View, News
  <2>2. ASSUME NEW i \in 1 .. n, Speaks(e[i]) PROVE Shows(e, f2, i, Saying(e[i]))
    <3>1. Shows(q, f, i + 1, Saying(e[i]))
      BY <1>1, <2>1, <2>2
    <3>2. Clear(e, 0, i) => f2.listed = f.listed
      BY <1>4, <2>2 DEF Speaks, IsNote
    <3> QED BY <1>6, <1>7, <3>1, <3>2
  <2>3. Shows(q, f, (n + 1) + 1, c.turn # NoTurn)
    BY <1>1 DEF View, News
  <2>4. n + 1 \in 1 .. (n + 1)
    BY <1>1
  <2>5. Shows(e, f2, n + 1, c.turn # NoTurn)
    BY <1>5, <1>7, <2>3, <2>4
  <2> QED BY <1>1, <2>2, <2>5 DEF News
<1>9. Numbered(e, f2, c)
  <2>1. \A i \in 1 .. (n + 1) : IsNote(q[i]) =>
          /\ q[i].op = "started" => f.done < q[i].turn
          /\ \A j \in 1 .. (n + 1) : i < j /\ q[j].op = "started" => q[i].turn < q[j].turn
          /\ c.turn # NoTurn /\ Clear(q, i, (n + 1) + 1) => q[i].turn = c.turn
    BY <1>1 DEF View, Numbered
  <2>2. ASSUME NEW i \in 1 .. n, IsNote(e[i])
        PROVE  /\ e[i].op = "started" => f2.done < e[i].turn
               /\ \A j \in 1 .. n : i < j /\ e[j].op = "started" => e[i].turn < e[j].turn
               /\ c.turn # NoTurn /\ Clear(e, i, n + 1) => e[i].turn = c.turn
    <3>1. i + 1 \in 1 .. (n + 1) /\ e[i] = q[i + 1]
      BY <1>1
    <3>2. \A j \in 1 .. n : i < j => i + 1 < j + 1
      BY <1>1
    <3>3. Clear(e, i, n + 1) => Clear(q, i + 1, (n + 1) + 1)
      <4>1. n + 1 \in 1 .. (n + 1) /\ i \in 1 .. (n + 1)
        BY <1>1
      <4> QED BY <1>1, <4>1
    <3>4. \A j \in 1 .. n : i < j /\ e[j].op = "started" => e[i].turn < e[j].turn
      BY <1>1, <2>1, <2>2, <3>1, <3>2
    <3> QED BY <2>1, <2>2, <3>1, <3>3, <3>4
  <2> QED BY <1>1, <2>2 DEF Numbered
<1>10. Steered(e, f2, tk, c)
  <2>1. \A i \in 1 .. (n + 1) : Acks(q[i]) =>
          /\ \A j \in 1 .. (n + 1) : Latest(q, j, i) => q[j].turn = tk[q[i].slot].turn
          /\ Clear(q, 0, i) => IF f.listed THEN f.done # tk[q[i].slot].turn
                               ELSE ~f.active /\ f.done = tk[q[i].slot].turn
          /\ c.turn # NoTurn /\ Clear(q, i, (n + 1) + 1) => tk[q[i].slot].turn = c.turn
    BY <1>1 DEF View, Steered
  <2>2. ASSUME NEW i \in 1 .. n, Acks(e[i])
        PROVE  /\ \A j \in 1 .. n : Latest(e, j, i) => e[j].turn = tk[e[i].slot].turn
               /\ Clear(e, 0, i) => IF f2.listed THEN f2.done # tk[e[i].slot].turn
                                    ELSE ~f2.active /\ f2.done = tk[e[i].slot].turn
               /\ c.turn # NoTurn /\ Clear(e, i, n + 1) => tk[e[i].slot].turn = c.turn
    <3>1. i + 1 \in 1 .. (n + 1) /\ e[i] = q[i + 1] /\ i \in 1 .. (n + 1) /\ n + 1 \in 1 .. (n + 1)
      BY <1>1
    <3>2. \A j \in 1 .. n : Latest(e, j, i) => e[j].turn = tk[e[i].slot].turn
      BY <1>1, <2>1, <2>2, <3>1
    <3>3. Clear(e, i, n + 1) => Clear(q, i + 1, (n + 1) + 1)
      BY <1>1, <3>1
    <3>4. ASSUME Clear(e, 0, i)
          PROVE  IF f2.listed THEN f2.done # tk[e[i].slot].turn
                 ELSE ~f2.active /\ f2.done = tk[e[i].slot].turn
      <4>1. IF f.listed THEN f.done # tk[e[i].slot].turn
            ELSE ~f.active /\ f.done = tk[e[i].slot].turn
        BY <1>1, <2>1, <2>2, <3>1, <3>4
      <4>2. f2.listed = f.listed
        BY <1>4, <2>2, <3>4 DEF Acks, IsNote
      <4>3. ~f.active /\ ~f2.listed => ~f2.active
        BY <4>2 DEF Sure, Faces
      <4> QED BY <4>1, <4>2, <4>3
    <3> QED BY <2>1, <2>2, <3>1, <3>2, <3>3, <3>4
  <2> QED BY <1>1, <2>2 DEF Steered
<1>11. Opened(e, f2, tk)
  <2>1. \A i \in 1 .. (n + 1) : q[i].slot # NoSlot /\ tk[q[i].slot].pc = "open" /\ tk[q[i].slot].flag =>
          q[i].turn # NoTurn \/ ~Clear(q, 0, i) \/ Sure(f)
    BY <1>1 DEF View, Opened
  <2>2. Sure(f) => Sure(f2)
    BY DEF Sure
  <2>3. ASSUME NEW i \in 1 .. n, e[i].slot # NoSlot, tk[e[i].slot].pc = "open", tk[e[i].slot].flag, Clear(e, 0, i)
        PROVE  e[i].turn # NoTurn \/ Sure(f2)
    BY <1>1, <1>6, <2>1, <2>2, <2>3
  <2> QED BY <1>1, <2>3 DEF Opened
<1>12. Past(e, f2.done, c)
  BY <1>1 DEF Past
<1>13. Announced(e)
  <2> SUFFICES ASSUME NEW i \in 1 .. n, Begun(e[i]) PROVE i + 1 \in 1 .. n /\ e[i + 1].op = "started"
    BY <1>1 DEF Announced
  <2>1. (i + 1) + 1 \in 1 .. (n + 1) /\ q[(i + 1) + 1].op = "started"
    BY <1>1 DEF Announced
  <2>2. i + 1 \in 1 .. n
    BY <1>1, <2>1
  <2> QED BY <1>1, <2>1, <2>2
<1> QED BY <1>8, <1>9, <1>10, <1>11, <1>12, <1>13 DEF View, e

LEMMA BlindTail ==
  ASSUME NEW q \in Seq(Notes \cup Replies), q # <<>>, NEW off, NEW off2, NEW c, NEW E,
         Blind(q, off, c, E),
         off2 => Head(q).op = "error" \/ (off /\ ~IsNote(Head(q)))
  PROVE  Blind(Tail(q), off2, c, E)
<1> DEFINE e == Tail(q)
           n == Len(q) - 1
<1>1. /\ n \in Nat /\ DOMAIN e = 1 .. n /\ DOMAIN q = 1 .. (n + 1)
      /\ \A i \in 1 .. n : i + 1 \in 1 .. (n + 1) /\ e[i] = q[i + 1]
      /\ Head(q) = q[1] /\ 1 \in 1 .. (n + 1)
  BY TailIndices
<1> HIDE DEF e, n
<1>2. ASSUME NEW i \in 0 .. n, Behind(q, i + 1) PROVE Behind(e, i)
  <2>1. PICK k \in 1 .. (n + 1) : i + 1 < k /\ IsNote(q[k])
    BY <1>1, <1>2 DEF Behind
  <2>2. k - 1 \in 1 .. n /\ i < k - 1 /\ (k - 1) + 1 = k
    BY <1>1, <2>1
  <2> QED BY <1>1, <2>1, <2>2 DEF Behind
<1>3. Behind(q, 0) /\ ~IsNote(q[1]) => Behind(q, 1)
  <2>1. \A k \in 1 .. (n + 1) : k = 1 \/ 1 < k
    BY <1>1
  <2> QED BY <1>1, <2>1 DEF Behind
<1>4. 0 \in 0 .. n /\ 0 + 1 = 1 /\ \A i \in 1 .. n : i \in 0 .. n
  BY <1>1
<1>5. Behind(q, 1) => Behind(e, 0)
  BY <1>2, <1>4
<1> SUFFICES ASSUME c.turn \notin E \cup {NoTurn}
             PROVE  (off2 => Behind(e, 0)) /\ \A i \in 1 .. n : e[i].op = "error" => Behind(e, i)
  BY <1>1 DEF Blind, e
<1>6. (off => Behind(q, 0)) /\ \A i \in 1 .. (n + 1) : q[i].op = "error" => Behind(q, i)
  BY <1>1 DEF Blind
<1>7. off2 => Behind(e, 0)
  BY <1>1, <1>3, <1>5, <1>6
<1> QED BY <1>1, <1>2, <1>4, <1>6, <1>7

(* A note is taken. *)
LEMMA TakenNote ==
  ASSUME NEW q \in Seq(Notes \cup Replies), q # <<>>, NEW x, x = Head(q), IsNote(x),
         NEW f \in Faces, NEW f2 \in Faces, NEW tk, NEW c \in Threads, View(q, f, tk, c), Past(q, f.done, c),
         Announced(q),
         f2.active = (x.op = "started"), f2.listed = (x.op = "started"),
         f2.done = IF x.op = "started" THEN f.done ELSE x.turn
  PROVE  LET e == Tail(q) IN View(e, f2, tk, c) /\ Past(e, f2.done, c) /\ Announced(e)
<1> DEFINE e == Tail(q)
           n == Len(q) - 1
<1>1. /\ n \in Nat /\ Len(e) = n /\ Len(q) = n + 1
      /\ DOMAIN e = 1 .. n /\ DOMAIN q = 1 .. (n + 1)
      /\ \A i \in 1 .. n : i + 1 \in 1 .. (n + 1) /\ e[i] = q[i + 1]
      /\ x = q[1] /\ 1 \in 1 .. (n + 1) /\ x \in Notes \cup Replies
      /\ \A i, j \in 1 .. (n + 1) : Clear(e, i, j) => Clear(q, i + 1, j + 1)
      /\ \A j \in 1 .. (n + 1) : Clear(e, 0, j) => Clear(q, 1, j + 1)
      /\ \A j \in 1 .. n, i \in 1 .. (n + 1) : Latest(e, j, i) => Latest(q, j + 1, i + 1)
  BY TailIndices
<1> HIDE DEF e, n
<1>2. x \in Notes /\ x.op \in {"started", "completed"}
  BY <1>1 DEF Notes, Replies, IsNote
<1>3. \A j \in 1 .. (n + 1) : Clear(e, 0, j) => Latest(q, 1, j + 1)
  <2>1. \A j \in 1 .. (n + 1) : 1 < j + 1
    BY <1>1
  <2> QED BY <1>1, <2>1 DEF Latest
<1>4. Sure(f2)
  BY DEF Sure
<1>5. \A i \in 1 .. n : i \in 1 .. (n + 1) /\ i + 1 \in 1 .. (n + 1)
  BY <1>1
<1>6. ASSUME NEW i \in 1 .. (n + 1), NEW v, Shows(q, f, i + 1, v)
      PROVE  Shows(e, f2, i, v)
  <2>1. Clear(e, 0, i) => f2.listed = v
    <3>1. Clear(e, 0, i) => Latest(q, 1, i + 1)
      BY <1>3
    <3>2. Latest(q, 1, i + 1) => (q[1].op = "started") = v
      BY <1>1, <1>6 DEF Shows
    <3> QED BY <1>1, <3>1, <3>2
  <2>2. ASSUME NEW j \in 1 .. n, Latest(e, j, i) PROVE (e[j].op = "started") = v
    <3>1. j + 1 \in 1 .. (n + 1) /\ e[j] = q[j + 1] /\ Latest(q, j + 1, i + 1)
      BY <1>1, <2>2
    <3>2. \A k \in 1 .. (n + 1) : Latest(q, k, i + 1) => (q[k].op = "started") = v
      BY <1>1, <1>6 DEF Shows
    <3>3. (q[j + 1].op = "started") = v
      BY <3>1, <3>2
    <3> QED BY <3>1, <3>3
  <2> QED BY <1>1, <2>1, <2>2 DEF Shows
<1>7. News(e, f2, c)
  <2>1. \A i \in 1 .. (n + 1) : Speaks(q[i]) => Shows(q, f, i, Saying(q[i]))
    BY <1>1 DEF View, News
  <2>2. ASSUME NEW i \in 1 .. n, Speaks(e[i]) PROVE Shows(e, f2, i, Saying(e[i]))
    BY <1>1, <1>5, <1>6, <2>1, <2>2
  <2>3. Shows(q, f, (n + 1) + 1, c.turn # NoTurn) /\ n + 1 \in 1 .. (n + 1)
    BY <1>1 DEF View, News
  <2>4. Shows(e, f2, n + 1, c.turn # NoTurn)
    BY <1>6, <2>3
  <2> QED BY <1>1, <2>2, <2>4 DEF News
<1>8. \A i \in 1 .. (n + 1) : IsNote(q[i]) =>
        /\ q[i].op = "started" => f.done < q[i].turn
        /\ \A j \in 1 .. (n + 1) : i < j /\ q[j].op = "started" => q[i].turn < q[j].turn
        /\ c.turn # NoTurn /\ Clear(q, i, (n + 1) + 1) => q[i].turn = c.turn
  BY <1>1 DEF View, Numbered
<1>9. Numbered(e, f2, c)
  <2>2. ASSUME NEW i \in 1 .. n, IsNote(e[i])
        PROVE  /\ e[i].op = "started" => f2.done < e[i].turn
               /\ \A j \in 1 .. n : i < j /\ e[j].op = "started" => e[i].turn < e[j].turn
               /\ c.turn # NoTurn /\ Clear(e, i, n + 1) => e[i].turn = c.turn
    <3>1. i + 1 \in 1 .. (n + 1) /\ e[i] = q[i + 1] /\ 1 < i + 1
      BY <1>1
    <3>2. \A j \in 1 .. n : i < j => i + 1 < j + 1
      BY <1>1
    <3>3. Clear(e, i, n + 1) => Clear(q, i + 1, (n + 1) + 1)
      <4>1. n + 1 \in 1 .. (n + 1) /\ i \in 1 .. (n + 1)
        BY <1>1
      <4> QED BY <1>1, <4>1
    <3>4. \A j \in 1 .. n : i < j /\ e[j].op = "started" => e[i].turn < e[j].turn
      BY <1>1, <1>8, <2>2, <3>1, <3>2
    <3>5. e[i].op = "started" => f2.done < e[i].turn
      BY <1>1, <1>8, <2>2, <3>1
    <3> QED BY <1>8, <2>2, <3>1, <3>3, <3>4, <3>5
  <2> QED BY <1>1, <2>2 DEF Numbered
<1>10. Steered(e, f2, tk, c)
  <2>1. \A i \in 1 .. (n + 1) : Acks(q[i]) =>
          /\ \A j \in 1 .. (n + 1) : Latest(q, j, i) => q[j].turn = tk[q[i].slot].turn
          /\ c.turn # NoTurn /\ Clear(q, i, (n + 1) + 1) => tk[q[i].slot].turn = c.turn
    BY <1>1 DEF View, Steered
  <2>2. ASSUME NEW i \in 1 .. n, Acks(e[i])
        PROVE  /\ \A j \in 1 .. n : Latest(e, j, i) => e[j].turn = tk[e[i].slot].turn
               /\ Clear(e, 0, i) => IF f2.listed THEN f2.done # tk[e[i].slot].turn
                                    ELSE ~f2.active /\ f2.done = tk[e[i].slot].turn
               /\ c.turn # NoTurn /\ Clear(e, i, n + 1) => tk[e[i].slot].turn = c.turn
    <3>1. i + 1 \in 1 .. (n + 1) /\ e[i] = q[i + 1] /\ i \in 1 .. (n + 1) /\ n + 1 \in 1 .. (n + 1)
      BY <1>1
    <3>2. \A j \in 1 .. n : Latest(e, j, i) => e[j].turn = tk[e[i].slot].turn
      BY <1>1, <2>1, <2>2, <3>1
    <3>3. Clear(e, i, n + 1) => Clear(q, i + 1, (n + 1) + 1)
      BY <1>1, <3>1
    <3>4. ASSUME Clear(e, 0, i)
          PROVE  IF f2.listed THEN f2.done # tk[e[i].slot].turn
                 ELSE ~f2.active /\ f2.done = tk[e[i].slot].turn
      <4>1. x.turn = tk[e[i].slot].turn
        BY <1>1, <1>3, <2>1, <2>2, <3>1, <3>4
      <4>2. x.op = "started" => f.done < x.turn
        BY <1>1, <1>8
      <4>3. f.done \in Nat /\ x.turn \in Nat
        BY <1>2, TurnsAreNumbers DEF Faces
      <4>4. CASE x.op = "started"
        <5>1. f.done # x.turn
          BY <4>2, <4>3, <4>4
        <5>2. f2.listed /\ f2.done = f.done
          BY <4>4
        <5> QED BY <4>1, <5>1, <5>2
      <4>5. CASE x.op # "started"
        BY <4>1, <4>5
      <4> QED BY <4>4, <4>5
    <3> QED BY <2>1, <2>2, <3>1, <3>2, <3>3, <3>4
  <2> QED BY <1>1, <2>2 DEF Steered
<1>11. Opened(e, f2, tk)
  BY <1>4 DEF Opened
<1>12. Past(e, f2.done, c)
  <2>1. /\ f2.done <= c.last /\ (c.turn # NoTurn => f2.done < c.turn)
    BY <1>1, <1>2 DEF Past
  <2> QED BY <1>1, <2>1, SMTT(30) DEF Past
<1>13. Announced(e)
  <2> SUFFICES ASSUME NEW i \in 1 .. n, Begun(e[i]) PROVE i + 1 \in 1 .. n /\ e[i + 1].op = "started"
    BY <1>1 DEF Announced
  <2>1. (i + 1) + 1 \in 1 .. (n + 1) /\ q[(i + 1) + 1].op = "started"
    BY <1>1 DEF Announced
  <2>2. i + 1 \in 1 .. n
    BY <1>1, <2>1
  <2> QED BY <1>1, <2>1, <2>2
<1> QED BY <1>7, <1>9, <1>10, <1>11, <1>12, <1>13 DEF View, e

(* The queue with other owners for its answers. *)
LEMMA Relabelled ==
  ASSUME NEW q \in Seq(Notes \cup Replies), NEW e \in Seq(Notes \cup Replies), DOMAIN e = DOMAIN q,
         NEW f \in Faces, NEW tk, NEW tk2, NEW c, View(q, f, tk, c), Past(q, f.done, c), Announced(q),
         \A i \in DOMAIN q : e[i] = q[i] \/ (q[i] \in Replies /\ e[i] = [q[i] EXCEPT !.slot = NoSlot]),
         \A i \in DOMAIN q : e[i].slot # NoSlot => tk2[e[i].slot] = tk[e[i].slot]
  PROVE  /\ View(e, f, tk2, c) /\ Past(e, f.done, c) /\ Announced(e)
         /\ \A off, E : Blind(q, off, c, E) => Blind(e, off, c, E)
<1>1. Len(e) = Len(q)
  BY LenProperties
<1>2. \A x \in Replies : LET y == [x EXCEPT !.slot = NoSlot] IN
        y.op = x.op /\ y.of = x.of /\ y.ok = x.ok /\ y.turn = x.turn /\ y.slot = NoSlot
  BY DEF Replies
<1>3. \A i \in DOMAIN q : /\ e[i].op = q[i].op /\ e[i].of = q[i].of /\ e[i].ok = q[i].ok
                          /\ e[i].turn = q[i].turn /\ (e[i].slot # NoSlot => e[i] = q[i])
  <2> SUFFICES ASSUME NEW i \in DOMAIN q
               PROVE  /\ e[i].op = q[i].op /\ e[i].of = q[i].of /\ e[i].ok = q[i].ok
                      /\ e[i].turn = q[i].turn /\ (e[i].slot # NoSlot => e[i] = q[i])
    OBVIOUS
  <2> DEFINE x == q[i]
             y == [x EXCEPT !.slot = NoSlot]
  <2>1. e[i] = x \/ (x \in Replies /\ e[i] = y)
    OBVIOUS
  <2>2. x \in Replies => y.op = x.op /\ y.of = x.of /\ y.ok = x.ok /\ y.turn = x.turn /\ y.slot = NoSlot
    BY <1>2
  <2> HIDE DEF x, y
  <2>3. /\ e[i].op = x.op /\ e[i].of = x.of /\ e[i].ok = x.ok
        /\ e[i].turn = x.turn /\ (e[i].slot # NoSlot => e[i] = x)
    BY <2>1, <2>2
  <2> QED BY <2>3 DEF x
<1>4. \A i, j : Clear(e, i, j) <=> Clear(q, i, j)
  BY <1>3 DEF Clear, IsNote
<1>5. \A i : \A j \in DOMAIN q : Latest(e, j, i) <=> Latest(q, j, i)
  BY <1>3, <1>4 DEF Latest, IsNote
<1>6. \A i, v : Shows(e, f, i, v) <=> Shows(q, f, i, v)
  BY <1>3, <1>4, <1>5 DEF Shows
<1>7. \A i \in DOMAIN q : /\ Speaks(e[i]) <=> Speaks(q[i])
                          /\ Saying(e[i]) <=> Saying(q[i])
                          /\ Begun(e[i]) <=> Begun(q[i])
                          /\ IsNote(e[i]) <=> IsNote(q[i])
                          /\ Acks(e[i]) => Acks(q[i]) /\ e[i] = q[i] /\ tk2[e[i].slot] = tk[q[i].slot]
  BY <1>3 DEF Speaks, Saying, Refused, Begun, IsNote, Acks
<1>8. News(e, f, c)
  <2>1. \A i \in DOMAIN q : Speaks(q[i]) => Shows(q, f, i, Saying(q[i]))
    BY DEF View, News
  <2>2. \A i \in DOMAIN q : Saying(e[i]) = Saying(q[i])
    BY <1>7 DEF Saying
  <2>3. Shows(q, f, Len(q) + 1, c.turn # NoTurn)
    BY DEF View, News
  <2> QED BY <1>1, <1>6, <1>7, <2>1, <2>2, <2>3 DEF News
<1>9. Numbered(e, f, c)
  <2>1. Numbered(q, f, c)
    BY DEF View
  <2> QED BY <1>1, <1>3, <1>4, <1>7, <2>1 DEF Numbered
<1>10. Steered(e, f, tk2, c)
  <2>1. Steered(q, f, tk, c)
    BY DEF View
  <2> QED BY <1>1, <1>3, <1>4, <1>5, <1>7, <2>1 DEF Steered
<1>11. Opened(e, f, tk2)
  <2>1. Opened(q, f, tk)
    BY DEF View
  <2> QED BY <1>3, <1>4, <2>1 DEF Opened
<1>12. Past(e, f.done, c)
  BY <1>3, <1>7 DEF Past
<1>13. Announced(e)
  BY <1>3, <1>7 DEF Announced
<1>14. \A off, E : Blind(q, off, c, E) => Blind(e, off, c, E)
  BY <1>3, <1>7 DEF Blind, Behind
<1> QED BY <1>8, <1>9, <1>10, <1>11, <1>12, <1>13, <1>14 DEF View

(* A turn that begins is later than every turn heard of. *)
LEMMA PastBegins ==
  ASSUME NEW q \in Seq(Notes \cup Replies), NEW done \in SomeTurn, NEW c \in Threads, NEW c2,
         Past(q, done, c), c.turn = NoTurn, c2.turn = c.last + 1, c2.last = c.last + 1
  PROVE  Past(q, done, c2)
<1>1. done \in Nat /\ c.last \in Nat /\ \A i \in DOMAIN q : q[i].turn \in Nat
  <2>1. \A i \in DOMAIN q : q[i] \in Notes \cup Replies
    OBVIOUS
  <2> QED BY <2>1, TurnsAreNumbers DEF Threads
<1>2. done <= c.last /\ \A i \in DOMAIN q : IsNote(q[i]) => q[i].turn <= c.last
  BY DEF Past
<1>3. done < c.last + 1 /\ \A i \in DOMAIN q : IsNote(q[i]) => q[i].turn < c.last + 1
  BY <1>1, <1>2
<1>4. done <= c.last + 1 /\ \A i \in DOMAIN q : IsNote(q[i]) => q[i].turn <= c.last + 1
  BY <1>1, <1>2
<1> QED BY <1>3, <1>4 DEF Past

(* What Codex answers to request r, at the end of the queue. *)
LEMMA HandledView ==
  ASSUME Typed, NEW r \in Requests, NEW s \in Slots \cup {NoSlot}, NEW rest \in Seq(Notes \cup Replies),
         Handled(r, s, rest), NEW f \in Faces, NEW tk, Past(rest, f.done, codex),
         link = "up" => View(rest, f, tk, codex) /\ Announced(rest),
         s # NoSlot /\ r.op = "steer" => tk[s].turn = r.turn /\ r.turn # NoTurn,
         s # NoSlot /\ tk[s].pc = "open" /\ tk[s].flag => r.op = "page" /\ f.listed
  PROVE  /\ Past(down', f.done, codex')
         /\ link = "up" =>
              /\ View(down', f, tk, codex') /\ Announced(down')
              /\ \A i \in DOMAIN rest : i \in DOMAIN down' /\ down'[i] = rest[i]
              /\ \E i \in DOMAIN down' : down'[i].slot = s
              /\ \A E : Blind(rest, f.off, codex, E) => Blind(down', f.off, codex', E)
<1>1. PICK a \in Replies, n \in Notes : \E q \in {<<a>>, <<a, n>>} :
         /\ a.of = r.op /\ a.slot = s
         /\ down' = IF link = "up" THEN rest \o q ELSE rest
         /\ Begins(r, a, n, q) \/ Joins(r, a, q) \/ Refuses(r, a, q) \/ Tells(r, a, q)
  BY DEF Handled
<1>2. PICK q \in {<<a>>, <<a, n>>} :
         /\ a.of = r.op /\ a.slot = s
         /\ down' = IF link = "up" THEN rest \o q ELSE rest
         /\ Begins(r, a, n, q) \/ Joins(r, a, q) \/ Refuses(r, a, q) \/ Tells(r, a, q)
  BY <1>1
<1>3. codex \in Threads /\ f.done \in SomeTurn /\ a.op = "answer" /\ codex.turn \in {NoTurn, codex.last}
  BY DEF Typed, Threads, Faces, Replies
<1>4. CASE link # "up"
  <2>1. down' = rest
    BY <1>2, <1>4
  <2>2. CASE Begins(r, a, n, q)
    BY <1>3, <1>4, <2>1, <2>2, PastBegins DEF Begins
  <2>3. CASE Joins(r, a, q) \/ Refuses(r, a, q) \/ Tells(r, a, q)
    <3>1. codex'.turn = codex.turn /\ codex'.last = codex.last
      BY <2>3 DEF Joins, Refuses, Tells
    <3> QED BY <1>4, <2>1, <3>1 DEF Past
  <2> QED BY <1>2, <2>2, <2>3
<1>5. CASE link = "up"
  <2>1. down' = rest \o q /\ Continues(rest \o q, rest, a, n, q)
    BY <1>2, <1>5, AnswersAtTheEnd
  <2>2. /\ down' \in Seq(Notes \cup Replies)
        /\ \A i \in DOMAIN rest : i \in DOMAIN down' /\ down'[i] = rest[i]
        /\ Len(rest) + 1 \in DOMAIN down' /\ down'[Len(rest) + 1] = a
        /\ DOMAIN rest = 1 .. Len(rest) /\ Len(rest) \in Nat /\ DOMAIN down' = 1 .. Len(down')
        /\ Len(down') = Len(rest) + Len(q)
        /\ q = <<a, n>> => Len(rest) + 2 \in DOMAIN down' /\ down'[Len(rest) + 2] = n
    BY <2>1 DEF Continues
  <2>3. \E i \in DOMAIN down' : down'[i].slot = s
    BY <1>2, <2>2
  <2>4. View(rest, f, tk, codex) /\ Announced(rest)
    BY <1>5
  <2>5. CASE Begins(r, a, n, q)
    <3> DEFINE e == Append(rest, a)
    <3>0. /\ q = <<a, n>> /\ a.ok /\ r.op = "start" /\ codex.turn = NoTurn
          /\ codex'.turn = codex.last + 1 /\ codex'.last = codex.last + 1
          /\ n.op = "started" /\ n.turn = codex.last + 1
      BY <2>5 DEF Begins
    <3>1. /\ e \in Seq(Notes \cup Replies) /\ Len(e) = Len(rest) + 1
          /\ (\A i \in 1 .. Len(rest) : e[i] = rest[i]) /\ e[Len(rest) + 1] = a
      <4>1. a \in Notes \cup Replies
        OBVIOUS
      <4> QED BY <4>1, AppendProperties
    <3> HIDE DEF e
    <3>2. ~Speaks(a) /\ ~Acks(a)
      BY <1>2, <3>0 DEF Speaks, Acks, Refused
    <3>20. ~(a.slot # NoSlot /\ tk[a.slot].pc = "open" /\ tk[a.slot].flag)
      BY <1>2, <3>0
    <3>3. View(e, f, tk, codex) /\ Past(e, f.done, codex)
      BY <2>4, <3>1, <3>2, <3>20, AppendedAnswer
    <3>4. Len(down') = Len(e) + 1 /\ down'[Len(e) + 1] = n /\ \A i \in 1 .. Len(e) : down'[i] = e[i]
      <4>1. Len(q) = 2
        BY <3>0
      <4>2. Len(down') = Len(e) + 1 /\ Len(e) + 1 = Len(rest) + 2
        BY <2>2, <3>1, <4>1
      <4>3. \A i \in 1 .. (Len(rest) + 1) : i \in 1 .. Len(rest) \/ i = Len(rest) + 1
        BY <2>2
      <4> QED BY <2>2, <3>0, <3>1, <4>2, <4>3
    <3>5. View(down', f, tk, codex') /\ Past(down', f.done, codex')
      <4> DEFINE c2 == codex'
                 d  == down'
      <4>1. c2.turn = codex.last + 1 /\ c2.last = codex.last + 1 /\ d \in Seq(Notes \cup Replies)
            /\ Len(d) = Len(e) + 1 /\ d[Len(e) + 1] = n /\ \A i \in 1 .. Len(e) : d[i] = e[i]
        BY <2>2, <3>0, <3>4
      <4> HIDE DEF c2, d
      <4>2. View(d, f, tk, c2) /\ Past(d, f.done, c2)
        BY <1>3, <3>0, <3>1, <3>3, <4>1, AppendedNote, ZenonT(40)
      <4> QED BY <4>2 DEF c2, d
    <3>6. Announced(down')
      <4> SUFFICES ASSUME NEW i \in DOMAIN down', Begun(down'[i])
                   PROVE  i + 1 \in DOMAIN down' /\ down'[i + 1].op = "started"
        BY DEF Announced
      <4>1. i \in DOMAIN rest \/ i = Len(rest) + 1 \/ i = Len(rest) + 2
        BY <2>1, <3>0 DEF Continues
      <4>2. CASE i \in DOMAIN rest
        <5>1. i + 1 \in DOMAIN rest /\ rest[i + 1].op = "started"
          BY <2>2, <2>4, <4>2 DEF Announced
        <5> QED BY <2>2, <5>1
      <4>3. CASE i = Len(rest) + 1
        <5>1. i + 1 = Len(rest) + 2
          BY <2>2, <4>3
        <5> QED BY <2>2, <3>0, <5>1
      <4>4. CASE i = Len(rest) + 2
        BY <2>2, <3>0, <4>4 DEF Begun
      <4> QED BY <4>1, <4>2, <4>3, <4>4
    <3>7. \A E : Blind(rest, f.off, codex, E) => Blind(down', f.off, codex', E)
      <4> DEFINE c2 == codex'
                 d  == down'
      <4>1. \A i \in DOMAIN d : i \in DOMAIN rest \/ i = Len(rest) + 1 \/ i = Len(rest) + 2
        BY <2>1, <3>0 DEF Continues
      <4>2. /\ Len(rest) + 2 \in DOMAIN d /\ d[Len(rest) + 2] = n /\ d[Len(rest) + 1] = a
            /\ 0 < Len(rest) + 2 /\ \A i \in DOMAIN rest : i < Len(rest) + 2
        BY <2>2, <3>0
      <4>3. IsNote(n) /\ n.op # "error" /\ a.op # "error"
        BY <1>3, <3>0 DEF IsNote
      <4>4. \A i \in DOMAIN rest : i \in DOMAIN d /\ d[i] = rest[i]
        BY <2>2
      <4> HIDE DEF c2, d
      <4>5. \A E : Blind(rest, f.off, codex, E) => Blind(d, f.off, c2, E)
        BY <4>1, <4>2, <4>3, <4>4, BlindGrows
      <4> QED BY <4>5 DEF c2, d
    <3> QED BY <1>5, <2>2, <2>3, <3>5, <3>6, <3>7
  <2>6. CASE Joins(r, a, q) \/ Refuses(r, a, q) \/ Tells(r, a, q)
    <3>1. q = <<a>> /\ Len(q) = 1 /\ codex'.turn = codex.turn /\ codex'.last = codex.last
      BY <2>6 DEF Joins, Refuses, Tells
    <3>2. Speaks(a) => Saying(a) = (codex.turn # NoTurn)
      <4>1. CASE Joins(r, a, q)
        BY <1>2, <4>1 DEF Joins, Speaks, Refused
      <4>2. CASE Refuses(r, a, q)
        BY <1>2, <4>2 DEF Refuses, Speaks, Saying, Refused, Ask
      <4>3. CASE Tells(r, a, q)
        BY <1>2, <4>3 DEF Tells, Speaks, Saying, Refused
      <4> QED BY <2>6, <4>1, <4>2, <4>3
    <3>3. Acks(a) => codex.turn # NoTurn /\ tk[a.slot].turn = codex.turn
      BY <1>2, <2>6 DEF Joins, Refuses, Tells, Acks, Ask
    <3>4. a.slot # NoSlot /\ tk[a.slot].pc = "open" /\ tk[a.slot].flag => f.listed /\ a.of = "page"
      BY <1>2
    <3>5. View(down', f, tk, codex) /\ Past(down', f.done, codex)
      <4>1. Len(down') = Len(rest) + 1 /\ \A i \in 1 .. Len(rest) : down'[i] = rest[i]
        BY <2>2, <3>1
      <4> QED BY <2>2, <2>4, <3>2, <3>3, <3>4, <4>1, AppendedAnswer, ZenonT(30)
    <3>6. View(down', f, tk, codex') /\ Past(down', f.done, codex')
      BY <3>1, <3>5 DEF View, News, Numbered, Steered, Past
    <3>7. ~Begun(a)
      BY <1>2, <2>6 DEF Joins, Refuses, Tells, Begun
    <3>8. Announced(down')
      <4> SUFFICES ASSUME NEW i \in DOMAIN down', Begun(down'[i])
                   PROVE  i + 1 \in DOMAIN down' /\ down'[i + 1].op = "started"
        BY DEF Announced
      <4>1. i \in DOMAIN rest \/ i = Len(rest) + 1
        BY <2>2, <3>1
      <4>2. i \in DOMAIN rest
        BY <2>2, <3>7, <4>1
      <4>3. i + 1 \in DOMAIN rest /\ rest[i + 1].op = "started"
        BY <2>2, <2>4, <4>2 DEF Announced
      <4> QED BY <2>2, <4>3
    <3>9. \A E : Blind(rest, f.off, codex, E) => Blind(down', f.off, codex', E)
      <4> DEFINE c2 == codex'
                 d  == down'
      <4>1. \A i \in DOMAIN d : i \in DOMAIN rest \/ d[i].op # "error"
        BY <1>3, <2>2, <3>1
      <4>2. c2.turn = codex.turn /\ \A i \in DOMAIN rest : i \in DOMAIN d /\ d[i] = rest[i]
        BY <2>2, <3>1
      <4> HIDE DEF c2, d
      <4>3. \A E : Blind(rest, f.off, codex, E) => Blind(d, f.off, c2, E)
        BY <4>1, <4>2, BlindGrows
      <4> QED BY <4>3 DEF c2, d
    <3> QED BY <1>5, <2>2, <2>3, <3>6, <3>8, <3>9
  <2> QED BY <1>2, <2>5, <2>6
<1> QED BY <1>4, <1>5

----
(* What a continuation leaves of what the page shows. *)
Aimed(o) == o.k.pc = "steer" => o.k.turn # NoTurn
Still(p, o) == Face(o.p) = Face(p) /\ Aimed(o)

LEMMA CallsStill ==
  ASSUME NEW p, NEW p2, Face(p2) = Face(p), NEW k \in Tasks, NEW pc, NEW op,
         pc = "steer" => k.turn # NoTurn
  PROVE  Still(p, Calling(p2, k, pc, op))
BY DEF Still, Aimed, Calling, Tasks

LEMMA EndsStill ==
  ASSUME NEW p, NEW p2, Face(p2) = Face(p)
  PROVE  Still(p, Ended(p2))
BY DEF Still, Aimed, Ended, Free

LEMMA SettledFace ==
  ASSUME NEW p \in Pages, NEW m \in SomeMsg
  PROVE  /\ Face(Settled(p)) = Face(p) /\ Settled(p) \in Pages
         /\ Face(Returned(p, m)) = Face(p) /\ Returned(p, m) \in Pages
         /\ Face(Returned(Settled(p), m)) = Face(p)
         /\ Face(NotActive(p)) = [active |-> FALSE, listed |-> p.listed, done |-> p.done]
         /\ NotActive(p) \in Pages
<1>1. \A x \in Pages : Face(Settled(x)) = Face(x) /\ Settled(x) \in Pages
  BY DEF Face, Settled, Pages, SomeMsg
<1>2. \A x \in Pages : Face(Returned(x, m)) = Face(x) /\ Returned(x, m) \in Pages
  <2> SUFFICES ASSUME NEW x \in Pages PROVE Face(Returned(x, m)) = Face(x) /\ Returned(x, m) \in Pages
    OBVIOUS
  <2>1. Face([x EXCEPT !.composer = m]) = Face(x) /\ [x EXCEPT !.composer = m] \in Pages
    BY DEF Face, Pages
  <2> QED BY <2>1 DEF Returned
<1>3. Face(NotActive(p)) = [active |-> FALSE, listed |-> p.listed, done |-> p.done]
      /\ NotActive(p) \in Pages
  BY DEF Face, NotActive, Pages, SomeTurn
<1> QED BY <1>1, <1>2, <1>3

LEMMA StartsStill ==
  ASSUME NEW p \in Pages, NEW k \in Tasks
  PROVE  Still(p, Start(p, k))
<1> DEFINE p2 == [p EXCEPT !.intent = "start", !.stored = p.pending]
           k2 == [k EXCEPT !.m = p.pending, !.turn = NoTurn]
<1>1. Face(p2) = Face(p)
  BY DEF Face, Pages
<1>2. k2 \in Tasks
  BY DEF Pages, Tasks, SomeTurn
<1>3. Start(p, k) = IF p.pending = NoMsg THEN Ended(p) ELSE Calling(p2, k2, "start", "start")
  BY DEF Start
<1> HIDE DEF p2, k2
<1>4. Still(p, Calling(p2, k2, "start", "start")) /\ Still(p, Ended(p))
  BY <1>1, <1>2, CallsStill, EndsStill
<1> QED BY <1>3, <1>4

LEMMA SteerCallsStill ==
  ASSUME NEW p \in Pages, NEW k \in Tasks, NEW turn \in SomeTurn, turn # NoTurn
  PROVE  Still(p, SteerCall(p, k, turn))
<1> DEFINE p2 == [p EXCEPT !.intent = IF p.pending = k.m THEN "steer" ELSE @, !.stored = k.m]
           k2 == [k EXCEPT !.turn = turn]
<1>1. Face(p2) = Face(p)
  BY DEF Face, Pages
<1>2. k2 \in Tasks /\ k2.turn # NoTurn
  BY DEF Tasks
<1>3. SteerCall(p, k, turn) = Calling(p2, k2, "steer", "steer")
  BY DEF SteerCall
<1> HIDE DEF p2, k2
<1> QED BY <1>1, <1>2, <1>3, CallsStill

LEMMA SteersStill ==
  ASSUME NEW p \in Pages, NEW k \in Tasks
  PROVE  Still(p, Steer(p, k))
<1> DEFINE k2 == [k EXCEPT !.m = p.pending]
<1>1. k2 \in Tasks /\ p.turn \in SomeTurn
  BY DEF Pages, Tasks
<1>2. Steer(p, k) = IF p.pending = NoMsg THEN Ended(p)
                    ELSE IF p.turn # NoTurn THEN SteerCall(p, k2, p.turn)
                    ELSE Calling(p, k2, "locate", "page")
  BY DEF Steer
<1> HIDE DEF k2
<1>3. Still(p, Ended(p)) /\ Still(p, Calling(p, k2, "locate", "page"))
      /\ (p.turn # NoTurn => Still(p, SteerCall(p, k2, p.turn)))
  BY <1>1, CallsStill, EndsStill, SteerCallsStill
<1> QED BY <1>2, <1>3

LEMMA FailsStill ==
  ASSUME NEW p \in Pages, NEW k
  PROVE  Still(p, Fail(p, k, FALSE))
<1>1. p.pending \in SomeMsg
  BY DEF Pages
<1>2. Fail(p, k, FALSE) \in {Ended(p), Ended(Returned(Settled(p), p.pending))}
  BY DEF Fail
<1>3. Face(Returned(Settled(p), p.pending)) = Face(p)
  BY <1>1, SettledFace
<1> QED BY <1>2, <1>3, EndsStill

(* A start refused because a turn runs shows that it runs. *)
LEMMA RefusedShows ==
  ASSUME NEW p \in Pages, NEW k
  PROVE  LET o == Fail(p, k, TRUE) IN
         /\ o.p.active = p.active \/ o.p.active = TRUE
         /\ o.p.listed = p.listed /\ Aimed(o)
<1> DEFINE p2 == [p EXCEPT !.intent = "steer", !.stored = p.pending, !.active = @ \/ p.screen]
           k2 == [Free EXCEPT !.kind = "bare", !.flag = TRUE]
           z  == Ended(Returned(Settled(p), p.pending))
<1>1. p2 \in Pages /\ k2 \in Tasks /\ p2.active = (p.active \/ p.screen) /\ p2.listed = p.listed
      /\ p.active \in BOOLEAN /\ p.screen \in BOOLEAN /\ p.pending \in SomeMsg
  <2>1. k2 \in Tasks
    BY DEF Free, Tasks, TaskPcs, TaskKinds, SomeMsg, SomeTurn, NoTurn
  <2>2. p.active \in BOOLEAN /\ p.screen \in BOOLEAN /\ p.pending \in SomeMsg
    BY DEF Pages
  <2> HIDE DEF k2
  <2>3. p2 \in Pages /\ p2.active = (p.active \/ p.screen) /\ p2.listed = p.listed
    BY DEF Pages
  <2> QED BY <2>1, <2>2, <2>3
<1>2. Fail(p, k, TRUE) \in {Ended(p), z, Steer(p2, k2)}
  BY DEF Fail
<1> HIDE DEF p2, k2, z
<1>3. Still(p, z) /\ Still(p, Ended(p))
  BY <1>1, SettledFace, EndsStill DEF z
<1>4. Still(p2, Steer(p2, k2))
  BY <1>1, SteersStill
<1>5. p2.active = p.active \/ p2.active = TRUE
  BY <1>1
<1> QED BY <1>1, <1>2, <1>3, <1>4, <1>5 DEF Still, Face

LEMMA SettlesStill ==
  ASSUME NEW p \in Pages, NEW k \in Tasks
  PROVE  Still(p, Settle(p, k)) /\ Settle(p, k).p \in Pages
<1> DEFINE m == IF p.pending # NoMsg THEN p.pending ELSE p.stored
           p2 == [p EXCEPT !.pending = m]
           k2 == [k EXCEPT !.m = m]
<1>1. m \in SomeMsg
  BY DEF Pages
<1>2. Settle(p, k) = IF m = NoMsg THEN Ended(p) ELSE Calling(p2, k2, "settle", "page")
  BY DEF Settle
<1> HIDE DEF m
<1>3. Face(p2) = Face(p) /\ p2 \in Pages /\ k2 \in Tasks
  BY <1>1 DEF Face, Pages, Tasks
<1> HIDE DEF p2, k2
<1>4. Still(p, Ended(p)) /\ Still(p, Calling(p2, k2, "settle", "page"))
      /\ Ended(p).p = p /\ Calling(p2, k2, "settle", "page").p = p2
  BY <1>3, CallsStill, EndsStill DEF Ended, Calling
<1> QED BY <1>2, <1>3, <1>4

LEMMA SubmitsStill ==
  ASSUME NEW p \in Pages, NEW k \in Tasks
  PROVE  Still(p, Submission(p, k))
<1> DEFINE p2 == [p EXCEPT !.pending = k.m, !.stored = k.m, !.composer = NoMsg,
                           !.intent = IF p.active THEN "steer" ELSE "start"]
<1>1. p2 \in Pages /\ Face(p2) = Face(p)
  BY DEF Pages, Face, Tasks, SomeMsg
<1>2. Submission(p, k) \in {Steer(p2, k), Start(p2, k)}
  BY DEF Submission, Submit
<1> HIDE DEF p2
<1>3. Still(p2, Steer(p2, k)) /\ Still(p2, Start(p2, k))
  BY <1>1, SteersStill, StartsStill
<1> QED BY <1>1, <1>2, <1>3 DEF Still

(* What an answer shows: the page says what the answer says.  The page has *)
(* heard that a turn runs, or that none does (l).                          *)
AnswerTrue(p, l, k, a) ==
  /\ Speaks(a) => l = Saying(a)
  /\ Acks(a) => IF l THEN p.done # k.turn ELSE ~p.active /\ p.done = k.turn
  /\ k.pc = "open" /\ k.flag => a.turn # NoTurn \/ (p.active => l)

Learns(l, k, a) == l \/ (k.pc = "start" /\ Begun(a))

ShowsWell(p, l, k, a, o) ==
  /\ o.p.active = p.active \/ o.p.active = Learns(l, k, a)
  /\ k.pc = "start" /\ Begun(a) => o.p.active
  /\ o.p.listed => p.listed \/ Learns(l, k, a)
  /\ k.pc \in {"open", "sync"} /\ p.screen => o.p.active = Learns(l, k, a)
  /\ Aimed(o)

LEMMA StillShows ==
  ASSUME NEW p, NEW l \in BOOLEAN, NEW k, NEW a, NEW o, Still(p, o), k.pc \notin {"open", "sync", "start"}
  PROVE  ShowsWell(p, l, k, a, o)
BY DEF Still, Face, ShowsWell

LEMMA IdleShows ==
  ASSUME NEW p \in Pages, NEW l \in BOOLEAN, NEW k \in Tasks, NEW k2, NEW a, ~l, k2.pc \notin {"open", "sync", "start"}
  PROVE  ShowsWell(p, l, k2, a, Start(NotActive(p), k))
<1> DEFINE p2 == NotActive(p)
<1>1. Face(p2) = [active |-> FALSE, listed |-> p.listed, done |-> p.done] /\ p2 \in Pages
  <2>1. p.pending \in SomeMsg
    BY DEF Pages
  <2> QED BY <2>1, SettledFace
<1> HIDE DEF p2
<1>2. Still(p2, Start(p2, k))
  BY <1>1, StartsStill
<1> QED BY <1>1, <1>2 DEF Still, Face, ShowsWell, Learns, p2

LEMMA StartShows ==
  ASSUME NEW p \in Pages, NEW l \in BOOLEAN, NEW k \in Tasks, k.pc = "start", NEW a \in Replies, a.of = "start",
         AnswerTrue(p, l, k, a)
  PROVE  ShowsWell(p, l, k, a, OnStart(p, k, a))
<1>0. a.op = "answer"
  BY DEF Replies
<1>1. CASE a.ok
  <2> DEFINE p2 == Settled(p)
             p3 == [p2 EXCEPT !.active = TRUE, !.turn = a.turn, !.listed = TRUE]
  <2>1. p2 \in Pages
    BY DEF Settled, Pages, SomeMsg
  <2>2. OnStart(p, k, a) = Ended(p3)
    BY <1>1 DEF OnStart
  <2> HIDE DEF p2
  <2>3. p3.active = TRUE
    BY <2>1 DEF Pages
  <2> HIDE DEF p3
  <2>4. Ended(p3).p = p3 /\ Aimed(Ended(p3))
    BY DEF Ended, Free, Aimed
  <2>5. Begun(a) /\ Learns(l, k, a) = TRUE
    BY <1>0, <1>1 DEF Begun, Learns
  <2> DEFINE o == OnStart(p, k, a)
  <2>6. o.p.active = TRUE /\ Aimed(o)
    BY <2>2, <2>3, <2>4
  <2> HIDE DEF o
  <2> QED BY <2>5, <2>6 DEF ShowsWell, o
<1>2. CASE ~a.ok
  <2>1. Speaks(a) /\ Saying(a)
    BY <1>0, <1>2 DEF Speaks, Saying, Refused
  <2>2. l = TRUE /\ Learns(l, k, a) = TRUE /\ ~Begun(a)
    BY <1>2, <2>1 DEF AnswerTrue, Saying, Learns, Begun
  <2>3. OnStart(p, k, a) = Fail(p, k, TRUE)
    BY <1>2 DEF OnStart
  <2> DEFINE o == OnStart(p, k, a)
  <2>4. /\ o.p.active = p.active \/ o.p.active = TRUE
        /\ o.p.listed = p.listed /\ Aimed(o)
    <3> DEFINE z == Fail(p, k, TRUE)
    <3>1. /\ z.p.active = p.active \/ z.p.active = TRUE
          /\ z.p.listed = p.listed /\ Aimed(z)
      BY RefusedShows
    <3> HIDE DEF z
    <3>2. o = z
      BY <2>3 DEF z
    <3> HIDE DEF o
    <3> QED BY <3>1, <3>2
  <2> HIDE DEF o
  <2> QED BY <2>2, <2>4 DEF ShowsWell, o
<1> QED BY <1>1, <1>2

LEMMA LocateShows ==
  ASSUME NEW p \in Pages, NEW l \in BOOLEAN, NEW k \in Tasks, k.pc = "locate", NEW a \in Replies
  PROVE  ShowsWell(p, l, k, a, OnLocate(p, k, a))
<1> DEFINE p2 == [p EXCEPT !.turn = a.turn]
<1>1. a.turn \in SomeTurn
  BY DEF Replies
<1>2. p2 \in Pages /\ Face(p2) = Face(p)
  BY <1>1 DEF Pages, Face
<1>3. OnLocate(p, k, a) = IF a.turn # NoTurn THEN SteerCall(p2, k, a.turn) ELSE Calling(p, k, "check", "read")
  BY DEF OnLocate
<1> HIDE DEF p2
<1>4. a.turn # NoTurn => Still(p2, SteerCall(p2, k, a.turn))
  BY <1>1, <1>2, SteerCallsStill
<1>5. Still(p, Calling(p, k, "check", "read"))
  BY CallsStill
<1> QED BY <1>2, <1>3, <1>4, <1>5, StillShows DEF Still

LEMMA ReadShows ==
  ASSUME NEW p \in Pages, NEW l \in BOOLEAN, NEW k \in Tasks, k.pc \in {"check", "verify"}, NEW a \in Replies, a.of = "read",
         AnswerTrue(p, l, k, a)
  PROVE  ShowsWell(p, l, k, a, Answered(p, k, a))
<1>1. a.turn = NoTurn => ~l
  BY DEF AnswerTrue, Speaks, Saying, Refused, Replies
<1>2. a.turn = NoTurn => ShowsWell(p, l, k, a, Start(NotActive(p), k))
  BY <1>1, IdleShows
<1>3. Still(p, Fail(p, k, FALSE)) /\ Still(p, Calling(p, k, "relocate", "page"))
  BY FailsStill, CallsStill
<1>4. ShowsWell(p, l, k, a, Fail(p, k, FALSE)) /\ ShowsWell(p, l, k, a, Calling(p, k, "relocate", "page"))
  BY <1>3, StillShows
<1>5. CASE k.pc = "check"
  <2>1. Answered(p, k, a) = IF a.turn = NoTurn THEN Start(NotActive(p), k) ELSE Fail(p, k, FALSE)
    BY <1>5 DEF Answered, OnCheck
  <2> QED BY <1>2, <1>4, <2>1
<1>6. CASE k.pc = "verify"
  <2>1. Answered(p, k, a) = IF a.turn = NoTurn THEN Start(NotActive(p), k)
                            ELSE IF k.flag THEN Calling(p, k, "relocate", "page")
                            ELSE Fail(p, k, FALSE)
    BY <1>6 DEF Answered, OnVerify
  <2> QED BY <1>2, <1>4, <2>1
<1> QED BY <1>5, <1>6

LEMMA SteerShows ==
  ASSUME NEW p \in Pages, NEW l \in BOOLEAN, NEW k \in Tasks, k.pc = "steer", NEW a \in Replies, a.of = "steer",
         a.slot # NoSlot, AnswerTrue(p, l, k, a)
  PROVE  ShowsWell(p, l, k, a, OnSteer(p, k, a))
<1>1. CASE a.ok
  <2>1. Acks(a)
    BY <1>1 DEF Acks, Replies
  <2>2. IF l THEN p.done # k.turn ELSE ~p.active /\ p.done = k.turn
    BY <2>1 DEF AnswerTrue
  <2> DEFINE over == ~p.active /\ p.done = k.turn
             p2 == Settled(p)
             t == IF over THEN NoTurn ELSE k.turn
             p3 == [p2 EXCEPT !.active = ~over, !.turn = t]
  <2>3. p2 \in Pages /\ p2.listed = p.listed
    BY DEF Settled, Pages, SomeMsg
  <2>4. OnSteer(p, k, a) = Ended(p3)
    BY <1>1 DEF OnSteer
  <2>5. over = ~l
    BY <2>2
  <2> HIDE DEF p2, t, over
  <2>6. p3.active = ~over /\ p3.listed = p.listed
    BY <2>3 DEF Pages
  <2> HIDE DEF p3
  <2>7. Ended(p3).p = p3 /\ Aimed(Ended(p3))
    BY DEF Ended, Free, Aimed
  <2>8. p3.active = Learns(l, k, a)
    BY <2>5, <2>6 DEF Learns
  <2> QED BY <2>4, <2>6, <2>7, <2>8 DEF ShowsWell
<1>2. CASE ~a.ok
  <2>1. OnSteer(p, k, a) = Calling(p, k, "verify", "read")
    BY <1>2 DEF OnSteer
  <2>2. Still(p, Calling(p, k, "verify", "read"))
    BY CallsStill
  <2> QED BY <2>1, <2>2, StillShows
<1> QED BY <1>1, <1>2

LEMMA RelocateShows ==
  ASSUME NEW p \in Pages, NEW l \in BOOLEAN, NEW k \in Tasks, k.pc = "relocate", NEW a \in Replies
  PROVE  ShowsWell(p, l, k, a, OnRelocate(p, k, a))
<1> DEFINE t == IF a.turn = NoTurn THEN p.turn ELSE a.turn
           p2 == [p EXCEPT !.turn = t]
           k2 == [k EXCEPT !.flag = FALSE]
<1>1. t \in SomeTurn
  BY DEF Replies, Pages
<1>2. OnRelocate(p, k, a) \in {Steer(p2, k2), Fail(p2, k, FALSE)}
  BY DEF OnRelocate
<1> HIDE DEF t
<1>3. p2 \in Pages /\ Face(p2) = Face(p) /\ k2 \in Tasks
  BY <1>1 DEF Pages, Face, Tasks
<1> HIDE DEF p2, k2
<1>4. Still(p2, Steer(p2, k2)) /\ Still(p2, Fail(p2, k, FALSE))
  BY <1>3, SteersStill, FailsStill
<1> QED BY <1>2, <1>3, <1>4, StillShows DEF Still

LEMMA ConclusionShows ==
  ASSUME NEW p \in Pages, NEW l \in BOOLEAN, NEW k \in Tasks, k.pc = "settle", NEW a \in Replies
  PROVE  ShowsWell(p, l, k, a, SettleAnswered(p, k, a))
<1> DEFINE p2 == [p EXCEPT !.stored = k.m]
           p3 == Returned(Settled(p), k.m)
<1>1. Face(p2) = Face(p) /\ k.m \in SomeMsg
  BY DEF Pages, Face, Tasks
<1>2. Face(Settled(p)) = Face(p) /\ Face(p3) = Face(p)
  BY <1>1, SettledFace
<1>3. SettleAnswered(p, k, a) \in {Ended(Settled(p)), Ended(p2), Ended(p3)}
  BY DEF SettleAnswered
<1> HIDE DEF p2, p3
<1>4. \A x \in {Settled(p), p2, p3} : Still(p, Ended(x))
  BY <1>1, <1>2, EndsStill
<1> QED BY <1>3, <1>4, StillShows

LEMMA SyncShows ==
  ASSUME NEW p \in Pages, NEW l \in BOOLEAN, NEW k \in Tasks, k.pc = "sync", NEW a \in Replies, a.of = "read",
         AnswerTrue(p, l, k, a)
  PROVE  ShowsWell(p, l, k, a, OnSync(p, k, a))
<1>1. l = (a.turn # NoTurn) /\ Learns(l, k, a) = l
  BY DEF AnswerTrue, Speaks, Saying, Refused, Replies, Learns
<1>2. CASE ~p.screen
  <2>1. OnSync(p, k, a) = Ended(p)
    BY <1>2 DEF OnSync
  <2>2. Ended(p).p = p /\ Aimed(Ended(p))
    BY DEF Ended, Free, Aimed
  <2> QED BY <1>2, <2>1, <2>2 DEF ShowsWell
<1>3. CASE p.screen
  <2> DEFINE m == IF p.pending = NoMsg THEN p.stored ELSE p.pending
             q == [p EXCEPT !.listed = (a.turn # NoTurn), !.pending = m]
             i == NotActive(q)
             r == [q EXCEPT !.active = TRUE]
  <2>1. m \in SomeMsg
    BY DEF Pages
  <2>2. OnSync(p, k, a) = IF a.turn = NoTurn THEN Calling(i, k, "refresh", "page")
                          ELSE IF p.turn = NoTurn THEN Calling(r, k, "syncTurn", "page")
                          ELSE Settle(r, k)
    BY <1>3 DEF OnSync
  <2> HIDE DEF m
  <2>3. q \in Pages /\ q.listed = (a.turn # NoTurn)
    BY <2>1 DEF Pages
  <2> HIDE DEF q
  <2>4. i.active = FALSE /\ i.listed = (a.turn # NoTurn) /\ r \in Pages /\ r.active = TRUE
        /\ r.listed = (a.turn # NoTurn)
    BY <2>3 DEF NotActive, Pages
  <2> HIDE DEF i, r
  <2>5. Still(i, Calling(i, k, "refresh", "page")) /\ Still(r, Calling(r, k, "syncTurn", "page"))
        /\ Still(r, Settle(r, k))
    BY <2>4, CallsStill, SettlesStill
  <2> DEFINE o == OnSync(p, k, a)
  <2>6. (a.turn = NoTurn /\ Still(i, o)) \/ (a.turn # NoTurn /\ Still(r, o))
    BY <2>2, <2>5
  <2> HIDE DEF o
  <2>7. o.p.active = (a.turn # NoTurn) /\ o.p.listed = (a.turn # NoTurn) /\ Aimed(o)
    BY <2>4, <2>6 DEF Still, Face
  <2> QED BY <1>1, <2>7 DEF ShowsWell, o
<1> QED BY <1>2, <1>3

LEMMA SyncedShows ==
  ASSUME NEW p \in Pages, NEW l \in BOOLEAN, NEW k \in Tasks, k.pc \in {"syncTurn", "refresh"}, NEW a \in Replies
  PROVE  ShowsWell(p, l, k, a, OnSyncTurn(p, k, a)) /\ ShowsWell(p, l, k, a, Settle(p, k))
<1> DEFINE p2 == [p EXCEPT !.turn = a.turn]
<1>1. p2 \in Pages /\ Face(p2) = Face(p)
  BY DEF Pages, Face, Replies
<1>2. OnSyncTurn(p, k, a) \in {Settle(p2, k), Ended(p)}
  BY DEF OnSyncTurn
<1> HIDE DEF p2
<1>3. Still(p2, Settle(p2, k)) /\ Still(p, Settle(p, k)) /\ Still(p, Ended(p))
  BY <1>1, SettlesStill, EndsStill
<1>4. Still(p, OnSyncTurn(p, k, a))
  BY <1>1, <1>2, <1>3 DEF Still
<1> QED BY <1>3, <1>4, StillShows

LEMMA OpenShows ==
  ASSUME NEW p \in Pages, NEW l \in BOOLEAN, NEW k \in Tasks, k.pc = "open", NEW a \in Replies, a.of = "page",
         AnswerTrue(p, l, k, a)
  PROVE  ShowsWell(p, l, k, a, OnOpen(p, k, a))
<1> DEFINE p2 == [p EXCEPT !.active = TRUE, !.turn = a.turn]
           p3 == NotActive(p)
<1>1. l = (a.turn # NoTurn) /\ Learns(l, k, a) = l
  BY DEF AnswerTrue, Speaks, Saying, Refused, Replies, Learns
<1>2. p2.active = TRUE /\ p2.listed = p.listed /\ p3.active = FALSE /\ p3.listed = p.listed
  BY DEF NotActive, Pages
<1>3. OnOpen(p, k, a) = IF ~p.screen THEN Ended(p)
                        ELSE IF a.turn # NoTurn THEN Ended(p2)
                        ELSE IF k.flag THEN Ended(p) ELSE Ended(p3)
  BY DEF OnOpen
<1>4. k.flag => a.turn # NoTurn \/ (p.active => l)
  BY DEF AnswerTrue
<1> HIDE DEF p2, p3
<1>5. \A x \in {p, p2, p3} : Ended(x).p = x /\ Aimed(Ended(x))
  BY DEF Ended, Free, Aimed
<1> DEFINE o == OnOpen(p, k, a)
<1>6. o.p.listed = p.listed /\ Aimed(o) /\ (~p.screen => o.p.active = p.active)
  BY <1>2, <1>3, <1>5
<1>7. p.screen => o.p.active = l
  <2>1. p.active \in BOOLEAN
    BY DEF Pages
  <2> QED BY <1>1, <1>2, <1>3, <1>4, <1>5, <2>1
<1> HIDE DEF o
<1>8. ~Begun(a)
  BY DEF Begun
<1> QED BY <1>1, <1>6, <1>7, <1>8 DEF ShowsWell, o

LEMMA AnsweredShows ==
  ASSUME NEW p \in Pages, NEW l \in BOOLEAN, NEW k \in Tasks, TaskSound(k), k.pc \notin Unawaited, NEW a \in Replies,
         a.of = OpAt(k.pc), a.slot # NoSlot, AnswerTrue(p, l, k, a)
  PROVE  ShowsWell(p, l, k, a, Answered(p, k, a))
<1>1. k.pc \in SenderPcs \cup {"settle", "sync", "syncTurn", "refresh", "open"}
  BY DEF Tasks, TaskPcs, SenderPcs, Unawaited
<1>2. CASE k.pc = "start"
  BY <1>2, StartShows DEF Answered, OpAt
<1>3. CASE k.pc = "locate"
  BY <1>3, LocateShows DEF Answered
<1>4. CASE k.pc \in {"check", "verify"}
  BY <1>4, ReadShows DEF OpAt
<1>5. CASE k.pc = "steer"
  BY <1>5, SteerShows DEF Answered, OpAt
<1>6. CASE k.pc = "relocate"
  BY <1>6, RelocateShows DEF Answered
<1>7. CASE k.pc = "settle"
  BY <1>7, ConclusionShows DEF Answered
<1>8. CASE k.pc = "sync"
  BY <1>8, SyncShows DEF Answered, OpAt
<1>9. CASE k.pc = "syncTurn"
  BY <1>9, SyncedShows DEF Answered
<1>10. CASE k.pc = "refresh"
  BY <1>10, SyncedShows DEF Answered
<1>11. CASE k.pc = "open"
  BY <1>11, OpenShows DEF Answered, OpAt
<1> QED BY <1>1, <1>2, <1>3, <1>4, <1>5, <1>6, <1>7, <1>8, <1>9, <1>10, <1>11 DEF SenderPcs

(* A continuation and its request, on top of what rest and the page show. *)
Facing(p, l, off) == [active |-> p.active, listed |-> l, done |-> p.done, off |-> off]

LEMMA FacesAre ==
  ASSUME NEW p \in Pages, NEW l \in BOOLEAN, NEW off \in BOOLEAN
  PROVE  LET f == Facing(p, l, off) IN
         f \in Faces /\ f.active = p.active /\ f.listed = l /\ f.done = p.done /\ f.off = off
BY DEF Pages, Facing, Faces

LEMMA AdvanceView ==
  ASSUME Sound, NEW s, NEW p, NEW o, NEW rest, Advances(s, p, o, rest),
         Past(rest, o.p.done, codex),
         link = "up" => \E f \in Faces : /\ Near(rest, o.p, f, task, codex, erred)
                                         /\ Seen(rest, o.p, f, task) \/ o.k.pc = "open",
         Aimed(o), o.k.pc = "open" /\ o.k.flag => o.p.listed
  PROVE  Viewed(link', down', phone', task', codex', erred)
<1>1. /\ Typed /\ s \in Slots /\ Resting(s, rest) /\ o.p \in Pages /\ TaskSound(o.k)
      /\ phone' = o.p /\ link' = link /\ task \in [Slots -> Tasks]
      /\ rest \in Seq(Notes \cup Replies)
  BY DEF Sound, Advances, GoesWell, Typed, Resting
<1>2. /\ task'[s] = o.k /\ \A r \in Slots \ {s} : task'[r] = task[r]
  BY AdvanceSound
<1>3. s # NoSlot
  BY <1>1, PhoneAssumption DEF NoSlot
<1>4. \A i \in DOMAIN rest : rest[i].slot # NoSlot => task'[rest[i].slot] = task[rest[i].slot]
  <2> SUFFICES ASSUME NEW i \in DOMAIN rest, rest[i].slot # NoSlot
               PROVE  task'[rest[i].slot] = task[rest[i].slot]
    OBVIOUS
  <2>1. rest[i] \in Notes \cup Replies /\ rest[i].slot # s
    BY <1>1 DEF Resting
  <2>2. rest[i].slot \in Slots
    BY <2>1 DEF Notes, Replies
  <2> QED BY <1>2, <2>1, <2>2
<1>5. CASE link # "up"
  <2>1. down' = rest /\ codex' = codex
    BY <1>5 DEF Advances
  <2> QED BY <1>1, <1>5, <2>1 DEF Viewed
<1>6. CASE link = "up"
  <2> DEFINE tk2 == task'
             p2 == phone'
             d2 == down'
             c2 == codex'
  <2>1. PICK f \in Faces : /\ Near(rest, o.p, f, task, codex, erred)
                           /\ Seen(rest, o.p, f, task) \/ o.k.pc = "open"
    BY <1>6
  <2>2. /\ Mirrors(o.p, f) /\ View(rest, f, task, codex) /\ Announced(rest)
        /\ Blind(rest, f.off, codex, erred) /\ f.done = o.p.done /\ (o.p.listed => f.listed)
    BY <2>1 DEF Near, Mirrors
  <2>3. p2 = o.p /\ tk2[s] = o.k /\ \A i \in DOMAIN rest : rest[i].slot # NoSlot => tk2[rest[i].slot] = task[rest[i].slot]
    BY <1>1, <1>2, <1>4
  <2> HIDE DEF tk2, p2
  <2>4. View(rest, f, tk2, codex)
    BY <1>1, <2>2, <2>3, Relabelled
  <2>5. Past(d2, f.done, c2) /\ View(d2, f, tk2, c2) /\ Announced(d2) /\ Blind(d2, f.off, c2, erred)
        /\ Seen(d2, p2, f, tk2)
    <3>1. CASE d2 = rest /\ c2 = codex /\ o.q = <<>>
      <4>1. o.k = Free
        BY <3>1 DEF Advances, GoesWell
      <4>2. Seen(rest, o.p, f, task)
        BY <2>1, <4>1 DEF Free
      <4>3. Seen(rest, o.p, f, tk2)
        BY <2>3, <4>2 DEF Seen, Looks
      <4> QED BY <2>2, <2>3, <2>4, <3>1, <4>3
    <3>2. CASE o.k.pc \notin Unawaited /\ Handled(Request(o.k), s, rest)
      <4> DEFINE r == Request(o.k)
      <4>1. r \in Requests /\ r.op = OpAt(o.k.pc) /\ r.turn = o.k.turn
        BY <1>1, <3>2, RequestsAre DEF TaskSound
      <4>2. r.op = "steer" => tk2[s].turn = r.turn /\ r.turn # NoTurn
        <5>1. r.op = "steer" => o.k.pc = "steer"
          BY <4>1 DEF OpAt
        <5> QED BY <2>3, <4>1, <5>1 DEF Aimed
      <4>3. tk2[s].pc = "open" /\ tk2[s].flag => r.op = "page" /\ f.listed
        <5>1. o.k.pc = "open" => r.op = "page"
          BY <4>1 DEF OpAt
        <5> QED BY <2>2, <2>3, <5>1
      <4>4. Handled(r, s, rest) /\ Past(rest, f.done, codex)
        BY <2>2, <3>2
      <4> HIDE DEF r
      <4>5. /\ Past(d2, f.done, c2)
            /\ View(d2, f, tk2, c2) /\ Announced(d2)
            /\ \A i \in DOMAIN rest : i \in DOMAIN d2 /\ d2[i] = rest[i]
            /\ \E i \in DOMAIN d2 : d2[i].slot = s
            /\ \A E : Blind(rest, f.off, codex, E) => Blind(d2, f.off, c2, E)
        BY <1>1, <1>3, <1>6, <2>2, <2>4, <4>1, <4>2, <4>3, <4>4, HandledView
      <4> HIDE DEF d2, c2
      <4>6. Seen(d2, p2, f, tk2)
        <5>1. CASE Seen(rest, o.p, f, task)
          BY <2>3, <4>5, <5>1 DEF Seen, Looks
        <5>2. CASE o.k.pc = "open"
          BY <1>3, <2>3, <4>5, <5>2 DEF Seen, Looks
        <5> QED BY <2>1, <5>1, <5>2
      <4> QED BY <2>2, <4>5, <4>6
    <3> QED BY <1>6, <3>1, <3>2 DEF Advances
  <2> HIDE DEF d2, c2
  <2>6. Past(d2, p2.done, c2) /\ Near(d2, p2, f, tk2, c2, erred)
    BY <2>2, <2>3, <2>5 DEF Near
  <2>7. Viewed(link', d2, p2, tk2, c2, erred)
    BY <2>5, <2>6 DEF Viewed
  <2> QED BY <2>7 DEF d2, p2, tk2, c2
<1> QED BY <1>5, <1>6

(* No continuation opens a thread. *)
LEMMA OpensNothing ==
  ASSUME NEW p, NEW k, NEW o, GoesWell(p, o), Moves(p, k, o)
  PROVE  o.k.pc # "open"
<1>1. o.q = <<>> => o.k.pc # "open"
  BY DEF GoesWell, Free
<1>2. o.k.pc = "open" => o.k.kind = "open"
  BY DEF GoesWell, TaskSound
<1> QED BY <1>1, <1>2 DEF Moves, Stops, Adopts, Concludes, Synchronises, Clears, GivesBack, SendsOn,
                          Stores, Sender

(* Steps of a continuation that leave what the page shows of the turns. *)
LEMMA StillViewed ==
  ASSUME Sound, Viewed(link, down, phone, task, codex, erred), NEW s, NEW o, Advances(s, phone, o, down),
         Still(phone, o), o.k.pc # "open"
  PROVE  Viewed(link', down', phone', task', codex', erred)
<1>1. /\ o.p.active = phone.active /\ o.p.listed = phone.listed /\ Aimed(o)
      /\ o.p.screen = phone.screen /\ o.p.done = phone.done
  BY DEF Still, Face, Sound, Typed, PhoneTypeOK, Pages, Advances, GoesWell, Where
<1>2. Past(down, o.p.done, codex)
  BY <1>1 DEF Viewed
<1>3. \A f : Near(down, phone, f, task, codex, erred) /\ Seen(down, phone, f, task)
             => Near(down, o.p, f, task, codex, erred) /\ Seen(down, o.p, f, task)
  BY <1>1 DEF Near, Mirrors, Seen
<1>4. link = "up" => \E f \in Faces : /\ Near(down, o.p, f, task, codex, erred)
                                      /\ Seen(down, o.p, f, task) \/ o.k.pc = "open"
  BY <1>3 DEF Viewed
<1> QED BY <1>1, <1>2, <1>4, AdvanceView

LEMMA SendsViewed ==
  ASSUME Sound, Viewed(link, down, phone, task, codex, erred), NEW s \in Slots, NEW m \in Msgs, Sends(s, m)
  PROVE  Viewed(link', down', phone', task', codex', erred)
<1> DEFINE k == [Free EXCEPT !.kind = "send", !.m = m, !.flag = TRUE]
           o == Submission(phone, k)
<1>1. /\ phone \in Pages /\ Typed /\ phone.connected /\ phone.connected = (link # "down")
      /\ task[s].pc = "free" /\ GoesOn(s, o, down) /\ link' = link
  BY DEF Sound, Typed, PhoneTypeOK, Pages, Sends, FreeSlot
<1>2. Resting(s, down)
  BY <1>1, NothingAwaited DEF Unawaited
<1>3. GoesWell(phone, o) /\ Sender(o.k)
  BY <1>1, SubmitsWell
<1>4. k \in Tasks
  BY PhoneAssumption DEF Tasks, Free, TaskPcs, TaskKinds, SomeMsg, SomeTurn, NoTurn
<1> HIDE DEF k
<1>5. Still(phone, o)
  BY <1>1, <1>4, SubmitsStill
<1> HIDE DEF o
<1>6. Advances(s, phone, o, down)
  BY <1>1, <1>2, <1>3, GoesOnAdvances
<1>7. o.k.pc # "open"
  BY <1>3 DEF Sender, GoesWell, TaskSound
<1> QED BY <1>5, <1>6, <1>7, StillViewed

LEMMA SettlesViewed ==
  ASSUME Sound, Viewed(link, down, phone, task, codex, erred), NEW s \in Slots, Settles(s)
  PROVE  Viewed(link', down', phone', task', codex', erred)
<1> DEFINE k == task[s]
           u == Settle(phone, k)
           v == Fail(u.p, u.k, FALSE)
           o == IF u.q # <<>> /\ ~phone.connected THEN v ELSE u
<1>1. /\ phone \in Pages /\ k \in Tasks /\ TaskSound(k) /\ phone.connected = (link # "down")
      /\ k.pc = "pause" /\ Typed /\ k.kind # "open"
  BY DEF Sound, Typed, PhoneTypeOK, Pages, Settles, TaskSound
<1>2. Resting(s, down) /\ GoesOn(s, o, down) /\ link' = link
  BY <1>1, NothingAwaited DEF Unawaited, Settles
<1>3. k.kind = "notice"
  BY <1>1 DEF TaskSound, Tasks, TaskKinds, Sender, SenderPcs
<1>4. GoesWell(phone, u) /\ (Stops(phone, u) \/ (Adopted(phone) # NoMsg /\ Concludes(phone, u)))
  BY <1>1, <1>3, SettlesWell
<1>5. Still(phone, u) /\ u.p \in Pages
  BY <1>1, SettlesStill
<1> HIDE DEF k, u
<1>6. Still(u.p, v)
  BY <1>5, FailsStill
<1>7. Still(phone, v)
  BY <1>5, <1>6 DEF Still
<1> HIDE DEF v
<1>8. Still(phone, o)
  BY <1>5, <1>7
<1>9. \E o2 : Advances(s, phone, o2, down) /\ Moves(phone, task[s], o2) /\ o2 = o
  <2>1. CASE ~(u.q # <<>> /\ ~phone.connected)
    <3>1. o = u /\ (u.q = <<>> \/ link # "down")
      BY <1>1, <2>1
    <3>2. Advances(s, phone, u, down)
      BY <1>1, <1>2, <1>4, <3>1, GoesOnAdvances
    <3> QED BY <1>4, <3>1, <3>2 DEF Moves
  <2>2. CASE u.q # <<>> /\ ~phone.connected
    <3>1. Concludes(phone, u) /\ u.p \in Pages /\ Where(u.p) = Where(phone) /\ o = v
      BY <1>4, <2>2 DEF Stops, GoesWell
    <3>2. ~u.p.connected
      BY <2>2, <3>1 DEF Where
    <3>3. GoesWell(u.p, v) /\ Stops(u.p, v)
      BY <3>1, <3>2, FailsWell DEF v
    <3>4. GoesWell(phone, v) /\ Adopts(phone, v)
      BY <3>1, <3>3 DEF GoesWell, Stops, Adopts, Concludes
    <3>5. v.q = <<>>
      BY <3>3 DEF Stops
    <3>6. Advances(s, phone, v, down)
      BY <1>1, <1>2, <3>1, <3>4, <3>5, GoesOnAdvances
    <3> QED BY <3>1, <3>4, <3>6 DEF Moves
  <2> QED BY <2>1, <2>2
<1> HIDE DEF o
<1>10. Advances(s, phone, o, down) /\ o.k.pc # "open"
  <2>1. Advances(s, phone, o, down) /\ Moves(phone, task[s], o)
    BY <1>9
  <2>2. GoesWell(phone, o)
    BY <2>1 DEF Advances
  <2> QED BY <2>1, <2>2, OpensNothing
<1> QED BY <1>8, <1>10, StillViewed

LEMMA ReturnsViewed ==
  ASSUME Sound, Viewed(link, down, phone, task, codex, erred), NEW s \in Slots, Returns(s)
  PROVE  Viewed(link', down', phone', task', codex', erred)
<1> DEFINE p == Shown(phone)
           rest == Disown(down, s)
<1>1. PICK o : /\ Advances(s, p, o, rest) /\ o.k.pc = "open" /\ o.k.flag = phone.listed
               /\ phone' = p
  BY ReturnsSound
<1>2. /\ phone \in Pages /\ down \in Seq(Notes \cup Replies)
  BY DEF Sound, Typed, PhoneTypeOK, Pages
<1>3. p \in Pages /\ p.active = phone.active /\ p.done = phone.done /\ p.listed = phone.listed
  BY <1>2 DEF Shown, Pages
<1>4. o.p = p
  BY <1>1 DEF Advances
<1>5. /\ rest \in Seq(Notes \cup Replies) /\ DOMAIN rest = DOMAIN down
      /\ \A i \in DOMAIN down : rest[i] = down[i] \/ (down[i].slot = s /\ rest[i] = [down[i] EXCEPT !.slot = NoSlot])
  BY Disowned DEF Resting
<1>6. s # NoSlot
  BY PhoneAssumption DEF NoSlot
<1> HIDE DEF rest
<1>7. \A i \in DOMAIN down : rest[i] = down[i] \/ (down[i] \in Replies /\ rest[i] = [down[i] EXCEPT !.slot = NoSlot])
  <2> SUFFICES ASSUME NEW i \in DOMAIN down, rest[i] # down[i] PROVE down[i] \in Replies
    BY <1>5
  <2>1. down[i] \in Notes \cup Replies /\ down[i].slot # NoSlot
    BY <1>2, <1>5, <1>6
  <2> QED BY <2>1 DEF Notes
<1>8. Past(rest, phone.done, codex)
  <2>1. \A i \in DOMAIN rest : IsNote(rest[i]) => rest[i] = down[i]
    <3>1. \A x \in Replies : ~IsNote([x EXCEPT !.slot = NoSlot])
      BY DEF IsNote, Replies
    <3> QED BY <1>5, <1>7, <3>1
  <2> QED BY <1>5, <2>1 DEF Viewed, Past
<1>9. link = "up" => \E f \in Faces : Near(rest, o.p, f, task, codex, erred)
  <2> SUFFICES ASSUME link = "up" PROVE \E f \in Faces : Near(rest, o.p, f, task, codex, erred)
    OBVIOUS
  <2>1. PICK f \in Faces : Near(down, phone, f, task, codex, erred)
    BY DEF Viewed
  <2>2. /\ View(down, f, task, codex) /\ Announced(down) /\ Past(down, f.done, codex)
        /\ Blind(down, f.off, codex, erred) /\ Mirrors(phone, f)
    BY <2>1 DEF Viewed, Near, Mirrors
  <2>3. \A i \in DOMAIN down : rest[i].slot # NoSlot => task[rest[i].slot] = task[rest[i].slot]
    OBVIOUS
  <2>4. View(rest, f, task, codex) /\ Announced(rest) /\ Blind(rest, f.off, codex, erred)
    BY <1>2, <1>5, <1>7, <2>2, <2>3, Relabelled
  <2>5. Mirrors(o.p, f)
    BY <1>3, <1>4, <2>2 DEF Mirrors
  <2> QED BY <2>4, <2>5 DEF Near
<1>10. Aimed(o)
  BY <1>1 DEF Aimed
<1> HIDE DEF p
<1>11. Viewed(link', down', phone', task', codex', erred)
  BY <1>1, <1>3, <1>4, <1>8, <1>9, <1>10, AdvanceView
<1> QED BY <1>11

(* The end or the beginning of a turn is heard of. *)
LEMMA PastTail ==
  ASSUME NEW q \in Seq(Notes \cup Replies), q # <<>>, NEW done, NEW done2, NEW c, Past(q, done, c),
         \/ done2 = done
         \/ IsNote(Head(q)) /\ Head(q).op = "completed" /\ done2 = Head(q).turn
  PROVE  Past(Tail(q), done2, c)
<1> DEFINE e == Tail(q)
           n == Len(q) - 1
<1>1. /\ DOMAIN e = 1 .. n /\ DOMAIN q = 1 .. (n + 1) /\ n \in Nat
      /\ \A i \in 1 .. n : i + 1 \in 1 .. (n + 1) /\ e[i] = q[i + 1]
      /\ Head(q) = q[1] /\ 1 \in 1 .. (n + 1)
  BY TailIndices
<1> HIDE DEF e, n
<1>2. \A i \in DOMAIN e : IsNote(e[i]) =>
        e[i].turn <= c.last /\ (c.turn # NoTurn /\ e[i].op = "completed" => e[i].turn < c.turn)
  BY <1>1 DEF Past
<1>3. done2 <= c.last /\ (c.turn # NoTurn => done2 < c.turn)
  BY <1>1 DEF Past
<1> QED BY <1>2, <1>3 DEF Past, e

LEMMA NotifiedViewed ==
  ASSUME Sound, Viewed(link, down, phone, task, codex, erred), NEW s \in Slots, Notified(s)
  PROVE  Viewed(link', down', phone', task', codex', erred)
<1> DEFINE x == Head(down)
           k == [Free EXCEPT !.kind = "notice", !.pc = "pause"]
           rest == Tail(down)
           tk2 == task'
           p2 == phone'
<1>1. /\ Typed /\ phone \in Pages /\ down # <<>> /\ down' = rest
      /\ x.op \in {"started", "completed", "error"} /\ task[s].pc = "free"
      /\ p2 = Noticed(phone, x)
      /\ task' \in {task, [task EXCEPT ![s] = k]} /\ task \in [Slots -> Tasks]
      /\ link' = link /\ codex' = codex /\ down \in Seq(Notes \cup Replies) /\ codex \in Threads
  BY DEF Sound, Typed, Notified, FreeSlot, PhoneTypeOK, Pages, Threads
<1>2. /\ rest \in Seq(Notes \cup Replies) /\ x = down[1] /\ 1 \in DOMAIN down
      /\ \A i \in DOMAIN rest : i + 1 \in DOMAIN down /\ rest[i] = down[i + 1]
  BY <1>1, RestOfQueue
<1>3. p2 \in Pages
  BY NotifiedSound DEF Sound, Typed, PhoneTypeOK, Pages
<1>4. /\ p2.active = (x.op = "started") /\ p2.listed = (x.op = "started")
      /\ p2.done = IF x.op = "completed" THEN x.turn ELSE phone.done
  <2> HIDE DEF x, p2
  <2>1. CASE x.op = "completed"
    BY <1>1, <2>1 DEF Noticed, TurnCompleted, Pages
  <2>2. CASE x.op = "started"
    BY <1>1, <2>2 DEF Noticed, TurnStarted, Pages
  <2>3. CASE x.op = "error"
    BY <1>1, <2>3 DEF Noticed, TurnErred, Pages
  <2> QED BY <1>1, <2>1, <2>2, <2>3
<1>5. \A i \in DOMAIN rest : rest[i].slot # NoSlot => tk2[rest[i].slot] = task[rest[i].slot]
  <2> SUFFICES ASSUME NEW i \in DOMAIN rest, rest[i].slot # NoSlot
               PROVE  task'[rest[i].slot] = task[rest[i].slot]
    OBVIOUS
  <2>1. Resting(s, down)
    BY <1>1, NothingAwaited DEF Unawaited
  <2>2. rest[i].slot # s
    BY <1>2, <2>1 DEF Resting
  <2>3. rest[i] \in Notes \cup Replies
    BY <1>2
  <2>4. rest[i].slot \in Slots
    BY <2>3 DEF Notes, Replies
  <2> HIDE DEF k, rest
  <2> QED BY <1>1, <2>2, <2>4
<1> HIDE DEF x, k, rest, tk2, p2
<1>6. IsNote(x) <=> x.op # "error"
  BY <1>1 DEF IsNote
<1>7. Past(rest, p2.done, codex)
  <2>1. Past(down, phone.done, codex)
    BY DEF Viewed
  <2>2. p2.done = phone.done \/ (IsNote(x) /\ x.op = "completed" /\ p2.done = x.turn)
    BY <1>4, <1>6
  <2> QED BY <1>1, <2>1, <2>2, PastTail DEF x, rest
<1>8. ASSUME link = "up"
      PROVE  \E f2 \in Faces : Near(rest, p2, f2, tk2, codex, erred) /\ Sure(f2)
  <2>1. PICK f \in Faces : Near(down, phone, f, task, codex, erred)
    BY <1>8 DEF Viewed
  <2>2. /\ View(down, f, task, codex) /\ Announced(down) /\ Past(down, f.done, codex)
        /\ Blind(down, f.off, codex, erred) /\ f.done = phone.done /\ f.listed \in BOOLEAN
    BY <2>1 DEF Viewed, Near, Mirrors, Faces
  <2> DEFINE f2 == IF IsNote(x) THEN Facing(p2, p2.listed, FALSE) ELSE Facing(p2, f.listed, TRUE)
  <2>3. f2 \in Faces /\ f2.active = p2.active /\ f2.done = p2.done
        /\ f2.listed = (IF IsNote(x) THEN p2.listed ELSE f.listed) /\ f2.off = ~IsNote(x)
    <3>1. p2.listed \in BOOLEAN
      BY <1>3 DEF Pages
    <3> QED BY <1>3, <2>2, <3>1, FacesAre
  <2> HIDE DEF f2
  <2>4. Sure(f2)
    BY <1>4, <1>6, <2>3 DEF Sure
  <2>5. View(rest, f2, task, codex) /\ Announced(rest)
    <3>1. CASE IsNote(x)
      <4>1. /\ f2.active = (x.op = "started") /\ f2.listed = (x.op = "started")
            /\ f2.done = IF x.op = "started" THEN f.done ELSE x.turn
        BY <1>1, <1>4, <1>6, <2>2, <2>3, <3>1
      <4> QED BY <1>1, <2>2, <2>3, <3>1, <4>1, TakenNote, SMTT(30) DEF x, rest
    <3>2. CASE ~IsNote(x)
      <4>1. f2.done = f.done /\ f2.listed = f.listed
        BY <1>4, <1>6, <2>2, <2>3, <3>2
      <4> QED BY <1>1, <2>2, <2>3, <2>4, <3>2, <4>1, TakenAnswer, SMTT(30) DEF x, rest
    <3> QED BY <3>1, <3>2
  <2>6. Blind(rest, f2.off, codex, erred)
    <3>1. f2.off => x.op = "error"
      BY <1>6, <2>3
    <3> QED BY <1>1, <2>2, <3>1, BlindTail DEF x, rest
  <2>7. View(rest, f2, tk2, codex)
    BY <1>2, <1>5, <1>7, <2>3, <2>5, Relabelled
  <2>8. Mirrors(p2, f2)
    BY <1>4, <1>6, <2>3 DEF Mirrors
  <2> QED BY <2>3, <2>4, <2>5, <2>6, <2>7, <2>8 DEF Near
<1>9. Viewed(link, rest, p2, tk2, codex, erred)
  BY <1>7, <1>8 DEF Viewed, Seen
<1> QED BY <1>1, <1>9 DEF p2, tk2

(* What the head of the queue says is so. *)
LEMMA HeadTrue ==
  ASSUME Sound, NEW f \in Faces, Near(down, phone, f, task, codex, erred), down # <<>>,
         Head(down) \in Replies, Head(down).slot # NoSlot
  PROVE  AnswerTrue(phone, f.listed, task[Head(down).slot], Head(down))
<1> DEFINE a == Head(down)
<1>1. a = down[1] /\ 1 \in DOMAIN down /\ DOMAIN down = 1 .. Len(down)
      /\ Len(down) \in Nat
  BY RestOfQueue DEF Sound, Typed
<1>2. f.active = phone.active /\ f.done = phone.done
  BY DEF Near, Mirrors
<1>3. Clear(down, 0, 1)
  BY <1>1 DEF Clear
<1>4. News(down, f, codex) /\ Steered(down, f, task, codex) /\ Opened(down, f, task)
  BY DEF Near, View
<1> HIDE DEF a
<1>5. Speaks(a) => f.listed = Saying(a)
  BY <1>1, <1>3, <1>4 DEF News, Shows
<1>6. Acks(a) => IF f.listed THEN f.done # task[a.slot].turn ELSE ~f.active /\ f.done = task[a.slot].turn
  BY <1>1, <1>3, <1>4 DEF Steered
<1>7. task[a.slot].pc = "open" /\ task[a.slot].flag => a.turn # NoTurn \/ Sure(f)
  <2>1. a.slot # NoSlot
    BY DEF a
  <2> QED BY <1>1, <1>3, <1>4, <2>1 DEF Opened
<1> QED BY <1>2, <1>5, <1>6, <1>7 DEF AnswerTrue, Sure, a

LEMMA SeenRest ==
  ASSUME Sound, NEW f, Seen(down, phone, f, task), down # <<>>, Head(down) \in Replies,
         NEW p2, NEW f2, p2.screen = phone.screen, Sure(f) => Sure(f2),
         phone.screen /\ Looks(Head(down), task) => Sure(f2)
  PROVE  Seen(Tail(down), p2, f2, task)
<1> DEFINE rest == Tail(down)
<1>1. /\ Head(down) = down[1] /\ DOMAIN rest = 1 .. (Len(down) - 1) /\ DOMAIN down = 1 .. Len(down)
      /\ Len(down) \in Nat
      /\ \A i \in DOMAIN rest : i + 1 \in DOMAIN down /\ rest[i] = down[i + 1]
  BY RestOfQueue DEF Sound, Typed
<1> HIDE DEF rest
<1> SUFFICES ASSUME phone.screen, ~Sure(f2)
             PROVE  \E i \in DOMAIN rest : IsNote(rest[i]) \/ Looks(rest[i], task)
  BY DEF Seen, rest
<1>2. PICK j \in DOMAIN down : IsNote(down[j]) \/ Looks(down[j], task)
  BY DEF Seen
<1>3. j # 1
  <2>1. ~IsNote(Head(down))
    BY DEF IsNote, Replies
  <2> QED BY <1>1, <1>2, <2>1
<1>4. j - 1 \in DOMAIN rest /\ (j - 1) + 1 = j
  BY <1>1, <1>2, <1>3
<1>5. rest[j - 1] = down[j]
  BY <1>1, <1>4
<1> QED BY <1>2, <1>4, <1>5

(* An answer, or one that nobody waits for. *)
LEMMA AnswerViewed ==
  ASSUME Sound, Viewed(link, down, phone, task, codex, erred), NEW s \in Slots, NEW o,
         down # <<>>, Head(down).slot = s, Head(down) \in Replies,
         o = Answered(phone, task[s], Head(down)),
         Advances(s, phone, o, Tail(down)), Moves(phone, task[s], o)
  PROVE  Viewed(link', down', phone', task', codex', erred)
<1> DEFINE a == Head(down)
           k == task[s]
           rest == Tail(down)
<1>1. /\ Typed /\ phone \in Pages /\ o.p \in Pages /\ GoesWell(phone, o) /\ down \in Seq(Notes \cup Replies)
      /\ o.p.screen = phone.screen /\ o.p.done = phone.done
  BY DEF Sound, Typed, PhoneTypeOK, Pages, Advances, GoesWell, Where
<1>2. s # NoSlot /\ ~IsNote(a) /\ a.op = "answer"
  BY PhoneAssumption DEF NoSlot, IsNote, Replies
<1>3. k.pc \notin Unawaited /\ a.of = OpAt(k.pc) /\ TaskSound(k) /\ k \in Tasks
  <2>1. a = down[1] /\ 1 \in DOMAIN down
    BY RestOfQueue
  <2>2. Fits(a, task, Heard)
    BY <2>1 DEF Sound, AnswersSound
  <2> QED BY <1>1, <1>2, <2>2 DEF Fits, Typed
<1>4. o.k.pc # "open"
  BY <1>1, OpensNothing
<1> HIDE DEF k
<1>5. Past(rest, o.p.done, codex)
  BY <1>1, PastTail DEF Viewed
<1>6. CASE link = "up"
  <2>1. PICK f \in Faces : Near(down, phone, f, task, codex, erred) /\ Seen(down, phone, f, task)
    BY <1>6 DEF Viewed
  <2>2. /\ View(down, f, task, codex) /\ Past(down, f.done, codex) /\ Announced(down)
        /\ Blind(down, f.off, codex, erred)
        /\ f.done = phone.done /\ f.active = phone.active /\ (phone.listed => f.listed)
    BY <2>1 DEF Viewed, Near, Mirrors
  <2> DEFINE l == f.listed
             l2 == Learns(l, k, a)
             f2 == Facing(o.p, l2, f.off)
  <2>3. l \in BOOLEAN /\ l2 \in BOOLEAN /\ f.off \in BOOLEAN
    BY DEF Faces, Learns
  <2>4. AnswerTrue(phone, l, k, a)
    BY <1>2, <2>1, HeadTrue DEF k
  <2>5. ShowsWell(phone, l, k, a, o)
    BY <1>1, <1>2, <1>3, <2>3, <2>4, AnsweredShows DEF k
  <2> HIDE DEF l2
  <2>6. f2 \in Faces /\ f2.done = f.done /\ f2.active = o.p.active /\ f2.listed = l2 /\ f2.off = f.off
    BY <1>1, <2>2, <2>3, FacesAre
  <2> HIDE DEF f2
  <2>7. /\ o.p.active = f.active \/ o.p.active = l2
        /\ l2 = l \/ (Begun(a) /\ o.p.active /\ l2)
        /\ o.p.listed => l2
        /\ k.pc \in {"open", "sync"} /\ phone.screen => o.p.active = l2
        /\ Aimed(o)
    BY <2>2, <2>3, <2>5 DEF ShowsWell, Learns, l2
  <2> HIDE DEF l
  <2>8. /\ f2.active = f.active \/ Sure(f2)
        /\ f2.listed = f.listed \/ (Begun(a) /\ Sure(f2) /\ f2.listed)
        /\ Sure(f) => Sure(f2)
    BY <2>6, <2>7 DEF Sure, l
  <2>9. View(rest, f2, task, codex) /\ Announced(rest)
    BY <1>1, <1>2, <2>2, <2>6, <2>8, TakenAnswer
  <2>10. Blind(rest, f2.off, codex, erred)
    BY <1>1, <1>2, <2>2, <2>6, BlindTail
  <2>11. Seen(rest, o.p, f2, task)
    <3>1. phone.screen /\ Looks(a, task) => Sure(f2)
      BY <2>6, <2>7 DEF Sure, Looks, k
    <3> QED BY <1>1, <2>1, <2>8, <3>1, SeenRest
  <2>12. Near(rest, o.p, f2, task, codex, erred)
    BY <1>1, <2>2, <2>6, <2>7, <2>9, <2>10 DEF Near, Mirrors
  <2>13. \E g \in Faces : Near(rest, o.p, g, task, codex, erred) /\ (Seen(rest, o.p, g, task) \/ o.k.pc = "open")
    BY <2>6, <2>11, <2>12
  <2> QED BY <1>4, <1>5, <2>7, <2>13, AdvanceView
<1>7. CASE link # "up"
  <2>1. down' = rest
    BY <1>7 DEF Advances
  <2>2. Past(down', phone'.done, codex') /\ link' # "up"
    BY <1>5, <1>7, <2>1 DEF Advances
  <2> QED BY <2>2 DEF Viewed
<1> QED BY <1>6, <1>7

LEMMA ReceivesViewed ==
  ASSUME Sound, Viewed(link, down, phone, task, codex, erred), Receives
  PROVE  Viewed(link', down', phone', task', codex', erred)
<1> DEFINE a == Head(down)
           s == a.slot
           rest == Tail(down)
<1>1. /\ Typed /\ phone \in Pages /\ down # <<>> /\ a.op = "answer" /\ link' = link
      /\ down \in Seq(Notes \cup Replies) /\ a \in Notes \cup Replies
  <2>1. down \in Seq(Notes \cup Replies) /\ down # <<>>
    BY DEF Sound, Typed, Receives
  <2>2. a \in Notes \cup Replies
    BY <2>1, TailIndices
  <2> QED BY <2>1, <2>2 DEF Sound, Typed, PhoneTypeOK, Pages, Receives
<1>2. a \in Replies
  BY <1>1 DEF Notes
<1>3. CASE s = NoSlot
  <2>1. down' = rest /\ phone' = phone /\ task' = task /\ codex' = codex
    BY <1>3 DEF Receives
  <2>2. Past(rest, phone.done, codex)
    BY <1>1, PastTail DEF Viewed
  <2>3. ASSUME link = "up"
        PROVE  \E f \in Faces : Near(rest, phone, f, task, codex, erred) /\ Seen(rest, phone, f, task)
    <3>1. PICK f \in Faces : Near(down, phone, f, task, codex, erred) /\ Seen(down, phone, f, task)
      BY <2>3 DEF Viewed
    <3>2. /\ View(down, f, task, codex) /\ Past(down, f.done, codex) /\ Announced(down)
          /\ Blind(down, f.off, codex, erred) /\ Mirrors(phone, f)
      BY <3>1 DEF Viewed, Near, Mirrors
    <3>3. ~IsNote(a) /\ ~Looks(a, task)
      BY <1>1, <1>3 DEF IsNote, Looks
    <3>4. View(rest, f, task, codex) /\ Announced(rest)
      BY <1>1, <3>2, <3>3, TakenAnswer
    <3>5. Blind(rest, f.off, codex, erred)
      BY <1>1, <3>2, <3>3, BlindTail
    <3>6. Seen(rest, phone, f, task)
      BY <1>1, <1>2, <3>1, <3>3, SeenRest
    <3> QED BY <3>2, <3>4, <3>5, <3>6 DEF Near
  <2> QED BY <1>1, <2>1, <2>2, <2>3 DEF Viewed
<1>4. CASE s # NoSlot
  <2>1. PICK r \in Slots : \E o : /\ Advances(r, phone, o, rest) /\ Moves(phone, task[r], o)
                                   /\ a.slot = r /\ o = Answered(phone, task[r], a)
    BY <1>4, ReceivesMoves
  <2>2. PICK o : /\ Advances(r, phone, o, rest) /\ Moves(phone, task[r], o)
                 /\ a.slot = r /\ o = Answered(phone, task[r], a)
    BY <2>1
  <2> QED BY <1>1, <1>2, <2>2, AnswerViewed
<1> QED BY <1>3, <1>4

(* The other steps. *)
LEMMA LeavesViewed ==
  ASSUME Sound, Viewed(link, down, phone, task, codex, erred), Leaves
  PROVE  Viewed(link', down', phone', task', codex', erred)
<1>1. /\ phone' = [phone EXCEPT !.screen = FALSE] /\ phone \in Pages
      /\ link' = link /\ down' = down /\ task' = task /\ codex' = codex
  BY DEF Leaves, Sound, Typed, PhoneTypeOK, Pages
<1> DEFINE p2 == phone'
<1>2. ~p2.screen /\ p2.done = phone.done /\ p2.active = phone.active /\ p2.listed = phone.listed
  BY <1>1 DEF Pages
<1> HIDE DEF p2
<1>3. Viewed(link, down, p2, task, codex, erred)
  BY <1>2 DEF Viewed, Near, Mirrors, Seen
<1> QED BY <1>1, <1>3 DEF p2

LEMMA CutViewed ==
  ASSUME Sound, Viewed(link, down, phone, task, codex, erred), Breaks \/ Disconnects \/ Reloads
  PROVE  Viewed(link', down', phone', task', codex', erred)
<1>1. codex.turn \in Nat /\ codex.last \in Nat
  <2>1. codex.turn \in SomeTurn /\ codex.last \in SomeTurn
    BY DEF Sound, Typed
  <2> QED BY <2>1, TurnsAreNumbers
<1>2. CASE Breaks
  BY <1>2 DEF Breaks, Viewed
<1>3. CASE Disconnects
  <2>1. link' = "down" /\ down' = <<>> /\ codex' = codex /\ phone'.done = phone.done
    BY <1>3, DisconnectsSound
  <2> QED BY <2>1 DEF Viewed, Past
<1>4. CASE Reloads
  <2>1. link' = "down" /\ down' = <<>> /\ codex' = codex /\ phone'.done = NoTurn
    BY <1>4, ReloadsSound
  <2>2. NoTurn <= codex.last /\ (codex.turn # NoTurn => NoTurn < codex.turn)
    BY <1>1 DEF NoTurn
  <2> QED BY <2>1, <2>2 DEF Viewed, Past
<1> QED BY <1>2, <1>3, <1>4

LEMMA LateViewed ==
  ASSUME Sound, Viewed(link, down, phone, task, codex, erred), LateArrives
  PROVE  Viewed(link', down', phone', task', codex', erred)
<1> DEFINE r == Head(late)
           d2 == down'
           c2 == codex'
<1>1. /\ r \in Requests /\ Handled(r, NoSlot, down) /\ Typed /\ phone \in Pages
      /\ phone' = phone /\ task' = task /\ link' = link /\ down \in Seq(Notes \cup Replies)
  BY LateSoundly DEF LateArrives, Sound, Typed, PhoneTypeOK, Pages
<1> HIDE DEF r
<1>2. ASSUME NEW f \in Faces, f.done = phone.done,
             link = "up" => View(down, f, task, codex) /\ Announced(down)
      PROVE  /\ Past(d2, f.done, c2)
             /\ link = "up" =>
                  /\ View(d2, f, task, c2) /\ Announced(d2)
                  /\ \A i \in DOMAIN down : i \in DOMAIN d2 /\ d2[i] = down[i]
                  /\ Blind(down, f.off, codex, erred) => Blind(d2, f.off, c2, erred)
  <2>1. Past(down, f.done, codex)
    BY <1>2 DEF Viewed
  <2> QED BY <1>1, <1>2, <2>1, HandledView
<1>3. Past(d2, phone.done, c2)
  <2>1. CASE link = "up"
    <3>1. PICK f \in Faces : Near(down, phone, f, task, codex, erred)
      BY <2>1 DEF Viewed
    <3> QED BY <1>2, <3>1 DEF Near, Mirrors
  <2>2. CASE link # "up"
    <3> DEFINE f == Facing(phone, FALSE, FALSE)
    <3>1. f \in Faces /\ f.done = phone.done
      BY <1>1, FacesAre
    <3> HIDE DEF f
    <3> QED BY <1>2, <2>2, <3>1
  <2> QED BY <2>1, <2>2
<1>4. ASSUME link = "up"
      PROVE  \E f \in Faces : Near(d2, phone, f, task, c2, erred) /\ Seen(d2, phone, f, task)
  <2>1. PICK f \in Faces : Near(down, phone, f, task, codex, erred) /\ Seen(down, phone, f, task)
    BY <1>4 DEF Viewed
  <2>2. /\ View(d2, f, task, c2) /\ Announced(d2) /\ Blind(d2, f.off, c2, erred)
        /\ \A i \in DOMAIN down : i \in DOMAIN d2 /\ d2[i] = down[i]
    BY <1>2, <1>4, <2>1 DEF Near, Mirrors
  <2> HIDE DEF d2, c2
  <2>3. Seen(d2, phone, f, task)
    BY <2>1, <2>2 DEF Seen
  <2> QED BY <2>1, <2>2, <2>3 DEF Near
<1> HIDE DEF d2, c2
<1>5. Viewed(link, d2, phone, task, c2, erred)
  BY <1>3, <1>4 DEF Viewed
<1> QED BY <1>1, <1>5 DEF d2, c2

(* A note put into the queue leaves something that puts the page right. *)
LEMMA InsertedSeen ==
  ASSUME NEW q \in Seq(Notes \cup Replies), NEW x \in Notes, NEW i \in 0 .. Len(q),
         NEW p, NEW f, NEW tk, Seen(q, p, f, tk) \/ IsNote(x)
  PROVE  Seen(Insert(q, x, i), p, f, tk)
<1> DEFINE e == Insert(q, x, i)
<1>1. i + 1 \in DOMAIN e /\ e[i + 1] = x
  <2>1. Grows(q, x, i)
    BY Inserted
  <2>2. DOMAIN e = 1 .. (Len(q) + 1) /\ e[i + 1] = x
    BY <2>1 DEF Grows
  <2>3. Len(q) \in Nat
    OBVIOUS
  <2> HIDE DEF e
  <2> QED BY <2>2, <2>3
<1>2. \A k \in DOMAIN q : \E j \in DOMAIN e : e[j] = q[k]
  BY InsertedOnes
<1> HIDE DEF e
<1>3. Seen(e, p, f, tk)
  BY <1>1, <1>2 DEF Seen
<1> QED BY <1>3 DEF e

LEMMA TurnEndsViewed ==
  ASSUME Sound, Viewed(link, down, phone, task, codex, erred), TurnEnds
  PROVE  Viewed(link', down', phone', task', codex', erred)
<1> DEFINE x == Note("completed", codex.turn)
           c2 == codex'
<1>1. /\ phone' = phone /\ task' = task /\ link' = link /\ codex.turn # NoTurn
      /\ c2.turn = NoTurn /\ c2.last = codex.last
      /\ down \in Seq(Notes \cup Replies) /\ codex \in Threads /\ codex.turn \in {NoTurn, codex.last}
  BY DEF TurnEnds, Sound, Typed, Threads
<1>2. PICK i \in 0 .. Len(down) :
        /\ \A j \in 1 .. (Len(down) - i) : down[i + j].of = "steer"
        /\ down' = IF link = "up" THEN Insert(down, x, i) ELSE down
  BY TurnEndsSound DEF Spoken
<1>3. x \in Notes /\ IsNote(x) /\ x.op = "completed" /\ x.turn = codex.turn
  BY <1>1, NotesAre DEF Threads, IsNote
<1> HIDE DEF x, c2
<1>4. CASE link = "up"
  <2> DEFINE e == Insert(down, x, i)
  <2>1. PICK f \in Faces : Near(down, phone, f, task, codex, erred)
    BY <1>4 DEF Viewed
  <2>2. View(down, f, task, codex) /\ Announced(down) /\ Past(down, f.done, codex) /\ Mirrors(phone, f)
        /\ f.done = phone.done
    BY <2>1 DEF Viewed, Near, Mirrors
  <2>3. View(e, f, task, c2) /\ Past(e, f.done, c2) /\ Announced(e)
    BY <1>1, <1>2, <1>3, <2>2, InsertedView
  <2>4. Seen(e, phone, f, task)
    BY <1>1, <1>3, InsertedSeen
  <2>5. down' = e
    BY <1>2, <1>4
  <2> HIDE DEF e
  <2>6. Near(e, phone, f, task, c2, erred)
    BY <1>1, <2>2, <2>3 DEF Near, Blind
  <2>7. Viewed(link, e, phone, task, c2, erred)
    BY <2>2, <2>3, <2>4, <2>6 DEF Viewed
  <2> QED BY <1>1, <2>5, <2>7 DEF c2
<1>5. CASE link # "up"
  <2>1. Past(down, phone.done, c2)
    BY <1>1 DEF Viewed, Past
  <2>2. Viewed(link, down, phone, task, c2, erred)
    BY <1>5, <2>1 DEF Viewed
  <2> QED BY <1>1, <1>2, <1>5, <2>2 DEF c2
<1> QED BY <1>4, <1>5

LEMMA TurnErrsViewed ==
  ASSUME Sound, Viewed(link, down, phone, task, codex, erred), TurnErrs
  PROVE  Viewed(link', down', phone', task', codex', erred')
<1> DEFINE x == Note("error", codex.turn)
           E2 == erred'
<1>1. /\ phone' = phone /\ task' = task /\ link' = link /\ codex' = codex
      /\ E2 = erred \cup {codex.turn} /\ down \in Seq(Notes \cup Replies) /\ codex.turn \in SomeTurn
  BY DEF TurnErrs, Sound, Typed
<1>2. PICK i \in 0 .. Len(down) :
        /\ \A j \in 1 .. (Len(down) - i) : down[i + j].of = "steer"
        /\ down' = IF link = "up" THEN Insert(down, x, i) ELSE down
  BY TurnErrsSound DEF Spoken
<1>3. x \in Notes /\ x.op = "error"
  BY <1>1, NotesAre
<1> HIDE DEF x, E2
<1>4. CASE link = "up"
  <2> DEFINE e == Insert(down, x, i)
  <2>1. PICK f \in Faces : Near(down, phone, f, task, codex, erred) /\ Seen(down, phone, f, task)
    BY <1>4 DEF Viewed
  <2>2. View(down, f, task, codex) /\ Announced(down) /\ Past(down, f.done, codex) /\ Mirrors(phone, f)
        /\ f.done = phone.done
    BY <2>1 DEF Viewed, Near, Mirrors
  <2>3. View(e, f, task, codex) /\ Past(e, f.done, codex) /\ Announced(e)
    BY <1>1, <1>2, <1>3, <2>2, InsertedError
  <2>4. Seen(e, phone, f, task)
    BY <1>1, <1>3, <2>1, InsertedSeen
  <2>5. down' = e
    BY <1>2, <1>4
  <2> HIDE DEF e
  <2>6. Near(e, phone, f, task, codex, E2)
    BY <1>1, <2>2, <2>3 DEF Near, Blind
  <2>7. Viewed(link, e, phone, task, codex, E2)
    BY <2>2, <2>3, <2>4, <2>6 DEF Viewed
  <2> QED BY <1>1, <2>5, <2>7 DEF E2
<1>5. CASE link # "up"
  <2>1. Viewed(link, down, phone, task, codex, E2)
    BY <1>5 DEF Viewed
  <2> QED BY <1>1, <1>2, <1>5, <2>1 DEF E2
<1> QED BY <1>4, <1>5

LEMMA DesktopStartsViewed ==
  ASSUME Sound, Viewed(link, down, phone, task, codex, erred), DesktopStarts
  PROVE  Viewed(link', down', phone', task', codex', erred)
<1> DEFINE x == Note("started", codex.last + 1)
           c2 == codex'
           e == down \o <<x>>
<1>1. /\ phone' = phone /\ task' = task /\ link' = link /\ codex.turn = NoTurn
      /\ c2.turn = codex.last + 1 /\ c2.last = codex.last + 1 /\ phone.done \in SomeTurn
      /\ x \in Notes /\ down' = IF link = "up" THEN e ELSE down
      /\ down \in Seq(Notes \cup Replies) /\ codex \in Threads
  BY DesktopStartsSound DEF DesktopStarts, Sound, Typed, PhoneTypeOK, Pages, Threads
<1>2. x.op = "started" /\ x.turn = codex.last + 1 /\ IsNote(x)
  BY DEF Note, IsNote
<1>3. Past(down, phone.done, codex)
  BY DEF Viewed
<1> HIDE DEF x, c2
<1>4. CASE link = "up"
  <2>1. PICK f \in Faces : Near(down, phone, f, task, codex, erred)
    BY <1>4 DEF Viewed
  <2>0. View(down, f, task, codex) /\ Announced(down) /\ Blind(down, f.off, codex, erred)
        /\ Past(down, f.done, codex) /\ Mirrors(phone, f) /\ f.done = phone.done
    BY <1>3, <2>1 DEF Near, Mirrors
  <2>2. /\ e \in Seq(Notes \cup Replies)
        /\ DOMAIN e = 1 .. (Len(down) + 1) /\ DOMAIN down = 1 .. Len(down) /\ Len(down) \in Nat
        /\ \A i \in DOMAIN down : e[i] = down[i]
        /\ e[Len(down) + 1] = x
        /\ Len(e) = Len(down) + 1
    BY <1>1, NoteAtTheEnd
  <2> HIDE DEF e
  <2>3. View(e, f, task, c2) /\ Past(e, f.done, c2)
    BY <1>1, <1>2, <2>0, <2>2, AppendedNote, SMTT(30)
  <2>4. Announced(e)
    <3> SUFFICES ASSUME NEW i \in DOMAIN e, Begun(e[i])
                 PROVE  i + 1 \in DOMAIN e /\ e[i + 1].op = "started"
      BY DEF Announced
    <3>1. i \in DOMAIN down
      BY <1>2, <2>2 DEF Begun
    <3>2. i + 1 \in DOMAIN down /\ down[i + 1].op = "started"
      BY <2>0, <2>2, <3>1 DEF Announced
    <3> QED BY <2>2, <3>2
  <2>5. Len(down) + 1 \in DOMAIN e /\ IsNote(e[Len(down) + 1]) /\ 0 < Len(down) + 1
        /\ \A i \in DOMAIN down : i < Len(down) + 1
    BY <1>2, <2>2
  <2>6. Seen(e, phone, f, task)
    BY <2>5 DEF Seen
  <2>7. Blind(e, f.off, c2, erred)
    <3>1. \A i \in DOMAIN e : i \in DOMAIN down \/ e[i].op # "error"
      BY <1>2, <2>2
    <3> QED BY <2>0, <2>2, <2>5, <3>1, BlindGrows
  <2>8. Near(e, phone, f, task, c2, erred)
    BY <2>0, <2>3, <2>4, <2>7 DEF Near
  <2>9. Viewed(link, e, phone, task, c2, erred)
    BY <2>0, <2>3, <2>6, <2>8 DEF Viewed
  <2>10. down' = e
    BY <1>1, <1>4 DEF e
  <2> QED BY <1>1, <2>9, <2>10 DEF c2
<1>5. CASE link # "up"
  <2>1. Past(down, phone.done, c2)
    BY <1>1, <1>3, PastBegins
  <2>2. Viewed(link, down, phone, task, c2, erred)
    BY <1>5, <2>1 DEF Viewed
  <2> QED BY <1>1, <1>5, <2>2 DEF c2
<1> QED BY <1>4, <1>5

(* The session is open again. *)
LEMMA ReconnectsViewed ==
  ASSUME Sound, Viewed(link, down, phone, task, codex, erred), NEW s \in Slots, NEW how \in {"sync", "open"},
         Reconnects(s, how)
  PROVE  Viewed(link', down', phone', task', codex', erred)
<1> DEFINE running == codex.turn # NoTurn
           f == Facing(phone', running, FALSE)
           tk2 == task'
           q == down'
<1>1. /\ codex' = codex /\ phone'.screen = phone.screen /\ phone'.listed = running
      /\ phone'.done = phone.done /\ phone' \in Pages /\ link' = "up"
      /\ how = "open" => tk2[s].flag = running \/ ~phone.screen
  BY ReconnectsSound DEF Sound, Typed, PhoneTypeOK, Pages
<1>2. f \in Faces /\ f.listed = running /\ ~f.off /\ Mirrors(phone', f)
  BY <1>1, FacesAre DEF Mirrors
<1>3. \/ ~phone.screen /\ q = <<>>
      \/ /\ phone.screen /\ tk2[s].pc = how
         /\ \E a \in Replies : a.slot = s /\ a.turn = codex.turn /\ a.of = OpAt(how) /\ a.ok /\ q = <<a>>
  BY ReconnectsSound
<1>4. phone.done <= codex.last /\ (codex.turn # NoTurn => phone.done < codex.turn)
  BY DEF Viewed, Past
<1> HIDE DEF f, tk2, q, running
<1>5. CASE ~phone.screen /\ q = <<>>
  <2>1. DOMAIN q = {} /\ Len(q) = 0
    BY <1>5
  <2>2. Past(q, phone.done, codex) /\ Announced(q)
    BY <1>4, <2>1 DEF Past, Announced
  <2>3. News(q, f, codex) /\ Numbered(q, f, codex) /\ Steered(q, f, tk2, codex) /\ Opened(q, f, tk2)
    BY <1>2, <2>1 DEF News, Shows, Numbered, Steered, Opened, running
  <2>4. Near(q, phone', f, tk2, codex, erred)
    BY <1>2, <2>1, <2>2, <2>3 DEF Near, View, Blind
  <2> QED BY <1>1, <1>2, <1>5, <2>2, <2>4 DEF Viewed, Seen, q, tk2
<1>6. ASSUME phone.screen, tk2[s].pc = how, NEW a \in Replies, a.slot = s, a.turn = codex.turn,
             a.of = OpAt(how), a.ok, q = <<a>>
      PROVE  Viewed(link', down', phone', task', codex', erred)
  <2>1. DOMAIN q = {1} /\ Len(q) = 1 /\ q[1] = a
    BY <1>6
  <2>2. a.of \in {"read", "page"} /\ a.op = "answer" /\ s # NoSlot
    BY <1>6, PhoneAssumption DEF OpAt, Replies, NoSlot
  <2>3. ~IsNote(a) /\ ~Begun(a) /\ ~Acks(a) /\ Saying(a) = running
    BY <1>6, <2>2 DEF IsNote, Begun, Acks, Saying, Refused, running
  <2>4. Past(q, phone.done, codex) /\ Announced(q)
    BY <1>4, <2>1, <2>3 DEF Past, Announced
  <2>5. \A i : Shows(q, f, i, running)
    BY <1>2, <2>1, <2>3 DEF Shows, Latest
  <2>6. News(q, f, codex)
    <3>1. \A i \in DOMAIN q : Saying(q[i]) = running
      BY <2>1, <2>3
    <3> QED BY <2>5, <3>1 DEF News, running
  <2>7. Numbered(q, f, codex) /\ Steered(q, f, tk2, codex)
    BY <2>1, <2>3 DEF Numbered, Steered
  <2>8. Opened(q, f, tk2)
    <3>1. tk2[s].pc = "open" /\ tk2[s].flag => a.turn # NoTurn
      BY <1>1, <1>6 DEF running
    <3> QED BY <1>6, <2>1, <3>1 DEF Opened
  <2>9. Looks(a, tk2)
    BY <1>6, <2>2 DEF Looks
  <2>10. Seen(q, phone', f, tk2)
    BY <2>1, <2>9 DEF Seen
  <2>11. Near(q, phone', f, tk2, codex, erred)
    BY <1>2, <2>1, <2>2, <2>4, <2>6, <2>7, <2>8 DEF Near, View, Blind
  <2> QED BY <1>1, <1>2, <2>4, <2>10, <2>11 DEF Viewed, q, tk2
<1> QED BY <1>3, <1>5, <1>6

----
(* The inductive invariant of what the page shows. *)
LEMMA ViewInit == PhoneInit => Viewing
<1> SUFFICES ASSUME PhoneInit PROVE Viewing
  OBVIOUS
<1>1. /\ down = <<>> /\ phone.screen = TRUE /\ phone.active = FALSE /\ phone.listed = FALSE
      /\ phone.done = NoTurn /\ codex.turn = NoTurn /\ codex.last = NoTurn
  BY DEF PhoneInit
<1>2. DOMAIN down = {} /\ Len(down) = 0
  BY <1>1
<1> DEFINE f == Facing(phone, FALSE, FALSE)
<1>3. f \in Faces /\ f.active = FALSE /\ f.listed = FALSE /\ f.done = NoTurn /\ f.off = FALSE
  BY <1>1 DEF Facing, Faces, SomeTurn
<1> HIDE DEF f
<1>4. Past(down, phone.done, codex) /\ Announced(down)
  <2>1. phone.done <= codex.last
    BY <1>1 DEF NoTurn
  <2> QED BY <1>1, <1>2, <2>1 DEF Past, Announced
<1>5. News(down, f, codex) /\ Numbered(down, f, codex) /\ Steered(down, f, task, codex) /\ Opened(down, f, task)
  <2>1. Shows(down, f, Len(down) + 1, codex.turn # NoTurn)
    BY <1>1, <1>2, <1>3 DEF Shows
  <2> QED BY <1>2, <2>1 DEF News, Numbered, Steered, Opened
<1>6. Seen(down, phone, f, task)
  BY <1>3 DEF Seen, Sure
<1>7. Near(down, phone, f, task, codex, erred)
  BY <1>1, <1>2, <1>3, <1>4, <1>5 DEF Near, View, Mirrors, Blind
<1> QED BY <1>3, <1>4, <1>6, <1>7 DEF Viewing, Viewed

LEMMA MishapsStay ==
  [PhoneNext]_phone_vars => mishaps \subseteq mishaps'
BY Zenon DEF PhoneNext, phone_vars, Befalls, Sends, Returns, Notified, Settles, TimesOut, Reconnects,
             Leaves, Receives, Breaks, Disconnects, Reloads, LateArrives, TurnEnds, TurnErrs,
             DesktopStarts

LEMMA ViewStep ==
  Sound /\ Viewing /\ [PhoneNext]_phone_vars => Viewing'
<1> SUFFICES ASSUME Sound, Viewing, [PhoneNext]_phone_vars, "timeout" \notin mishaps'
             PROVE  Viewed(link', down', phone', task', codex', erred')
  BY DEF Viewing
<1>1. Viewed(link, down, phone, task, codex, erred)
  BY MishapsStay DEF Viewing
<1>2. ASSUME NEW s \in Slots, TimesOut(s) PROVE FALSE
  BY <1>2 DEF TimesOut, Befalls
<1>3. CASE TurnErrs
  BY <1>1, <1>3, TurnErrsViewed
<1>4. CASE UNCHANGED phone_vars
  BY <1>1, <1>4 DEF phone_vars
<1>5. CASE PhoneNext /\ ~TurnErrs
  <2>1. erred' = erred
    BY <1>5 DEF PhoneNext, Sends, Returns, Notified, Settles, TimesOut, Reconnects, Leaves, Receives,
                Breaks, Disconnects, Reloads, LateArrives, TurnEnds, DesktopStarts
  <2>2. Viewed(link', down', phone', task', codex', erred)
    BY <1>1, <1>2, <1>5, SendsViewed, ReturnsViewed, NotifiedViewed, SettlesViewed, ReconnectsViewed,
       LeavesViewed, ReceivesViewed, CutViewed, LateViewed, TurnEndsViewed, DesktopStartsViewed
       DEF PhoneNext
  <2> QED BY <2>1, <2>2
<1> QED BY <1>3, <1>4, <1>5

(* Once everything is answered, and unless a call timed out, the page      *)
(* shows no turn that is over, and shows the one the thread on its screen  *)
(* is at, whatever it missed while away, but for a turn Codex told an      *)
(* error of.                                                               *)
THEOREM ViewStaysRight == PhoneSpec => []ViewAgrees
<1>1. Sound /\ Keeping /\ Viewing => ViewAgrees
  <2> SUFFICES ASSUME Viewing, phone.screen, Quiet, "timeout" \notin mishaps, Sound
               PROVE  /\ phone.active => codex.turn # NoTurn
                      /\ codex.turn \notin erred \cup {NoTurn} => phone.active
    BY DEF ViewAgrees
  <2>1. link = "up" /\ down = <<>>
    BY DEF Quiet
  <2>2. DOMAIN down = {}
    BY <2>1
  <2>3. PICK f \in Faces : Near(down, phone, f, task, codex, erred) /\ Seen(down, phone, f, task)
    BY <2>1 DEF Viewing, Viewed
  <2>4. Sure(f) /\ f.active = phone.active
    BY <2>2, <2>3 DEF Seen, Near, Mirrors
  <2>5. f.listed = (codex.turn # NoTurn)
    BY <2>2, <2>3 DEF Near, View, News, Shows, Clear
  <2>6. codex.turn \notin erred \cup {NoTurn} => ~f.off
    BY <2>2, <2>3 DEF Near, Blind, Behind
  <2> QED BY <2>4, <2>5, <2>6 DEF Sure
<1> QED BY <1>1, KeepsInit, KeepsStep, ViewInit, ViewStep, PTL DEF PhoneSpec
=============================================================================

--------------------------- MODULE MobileControl ---------------------------
(***************************************************************************)
(* The Manager's switch for the mobile channel (mobile_control.rs and the  *)
(* commands that call it): enable, disable, a new relay address and the    *)
(* resumption at startup, each in a task of its own, over the hosts of     *)
(* MobileHosts.  Every start and every stop takes a new generation and the *)
(* running host under one mutex; what follows an await finds out whether a *)
(* newer one has come by comparing generations.                            *)
(*                                                                         *)
(* A step of a command is a critical section of the mutex, together with   *)
(* what follows it that no other task can see.  Of settings.json only the  *)
(* switch is kept, of the HostState not the room and the addresses, which  *)
(* are set and cleared with the runtime.  The key is present; settings     *)
(* that cannot be read end a command before it does anything, except a     *)
(* disable, which has already stopped the host: that is a failing save.    *)
(***************************************************************************)
EXTENDS MobileHosts

CONSTANT Callers    \* commands in flight at a time

VARIABLES
    enabled,    \* mobileControlEnabled in settings.json
    caller,     \* the commands
    newest      \* history: what the newest generation asked for

vars == <<host, generation, runtime, status, said, enabled, caller, newest>>

Kinds == {"enable", "disable", "repoint", "resume"}

\* on: the setting the command is to write; held: the host in its hands;
\* next: where it goes on when that host has ended.
Idle == [pc |-> "idle", kind |-> "enable", on |-> FALSE,
         gen |-> 0, held |-> NoHost, next |-> "idle"]

Pcs == {"idle", "begin", "tell", "wait", "check", "offer", "save"}

\* The Manager starts with the settings of an earlier run; lib.rs calls
\* resume_on_startup, which starts nothing unless the switch was left on.
Init ==
    /\ HostsInit
    /\ enabled \in BOOLEAN
    /\ newest = "stop"
    /\ \E c \in Callers :
           caller = [d \in Callers |->
               IF d = c /\ enabled
               THEN [Idle EXCEPT !.pc = "begin", !.kind = "resume", !.on = TRUE]
               ELSE Idle]

TypeOK ==
    /\ HostsTypeOK
    /\ enabled \in BOOLEAN
    /\ newest \in {"start", "stop"}
    /\ caller \in [Callers ->
           [pc : Pcs, kind : Kinds, on : BOOLEAN, gen : 0 .. MaxGen,
            held : Hosts \cup {NoHost}, next : {"idle", "check", "save"}]]

Goes(c, r) == caller' = [caller EXCEPT ![c] = r]

Ends(c) == Goes(c, Idle)

(***************************************************************************)
(* The commands.                                                           *)
(***************************************************************************)
\* set_mobile_control_relay_url.
Repoint(c) ==
    /\ caller[c].pc = "idle"
    /\ Goes(c, [Idle EXCEPT !.pc = "save", !.kind = "repoint", !.on = enabled])
    /\ UNCHANGED <<hostVars, enabled, newest>>

\* The taken runtime is in the command's hands; without one nothing is to
\* be stopped.
Taking(r, next) ==
    [r EXCEPT !.held = runtime, !.gen = generation + 1, !.next = next,
              !.pc = IF runtime = NoHost THEN next ELSE "tell"]

NewGeneration(s) ==
    /\ generation < MaxGen
    /\ generation' = generation + 1
    /\ runtime' = NoHost
    /\ status' = s
    /\ said' = s

Starts(c, r) ==
    /\ NewGeneration("Starting")
    /\ newest' = "start"
    /\ Goes(c, Taking(r, "check"))
    /\ UNCHANGED <<host, enabled>>

\* enable_mobile_control, up to the first critical section of start; it will
\* save the settings it reads here, switched on.
Enable(c) ==
    /\ caller[c].pc = "idle"
    /\ Starts(c, [Idle EXCEPT !.on = TRUE])

\* start, for a new relay address and at startup.
StartBegins(c) == caller[c].pc = "begin" /\ Starts(c, caller[c])

\* stop_async, called by disable_mobile_control before anything else.
Disable(c) ==
    /\ caller[c].pc = "idle"
    /\ NewGeneration("Stopped")
    /\ newest' = "stop"
    /\ Goes(c, Taking([Idle EXCEPT !.kind = "disable"], "save"))
    /\ UNCHANGED <<host, enabled>>

(***************************************************************************)
(* MobileRelayHostRuntime::stop.                                           *)
(***************************************************************************)
Tell(c) ==
    /\ caller[c].pc = "tell"
    /\ host' = [host EXCEPT ![caller[c].held] = Told(@)]
    /\ Goes(c, [caller[c] EXCEPT !.pc = "wait"])
    /\ UNCHANGED <<generation, runtime, status, said, enabled, newest>>

HostEnded(c) ==
    /\ caller[c].pc = "wait" /\ host[caller[c].held].phase = "ended"
    /\ Goes(c, [caller[c] EXCEPT !.pc = caller[c].next, !.held = NoHost])
    /\ UNCHANGED <<hostVars, enabled, newest>>

\* Waiting for ever leaves a host that is starting a session to run on.
NeverAborts(c) == FALSE

\* Five seconds are over.
Aborts(c) == caller[c].pc = "wait" /\ host[caller[c].held].phase # "ended"

StopTimesOut(c) ==
    /\ Aborts(c)
    /\ host' = [host EXCEPT ![caller[c].held] = Aborted(@)]
    /\ UNCHANGED <<generation, runtime, status, said, enabled, caller, newest>>

(***************************************************************************)
(* start, after the previous host has ended.                               *)
(***************************************************************************)
\* A start that never looks whether a newer command has come.
NewestAlways(c) == TRUE

\* state.generation == generation.
Newest(c) == generation = caller[c].gen

Superseded(c) ==
    /\ caller[c].pc = "check" /\ ~Newest(c)
    /\ Ends(c)
    /\ UNCHANGED <<hostVars, enabled, newest>>

Spawn(c) ==
    /\ caller[c].pc = "check" /\ Newest(c)
    /\ host' = [host EXCEPT ![caller[c].gen] = Spawned(@)]
    /\ Goes(c, [caller[c] EXCEPT !.pc = "offer", !.held = caller[c].gen])
    /\ UNCHANGED <<generation, runtime, status, said, enabled, newest>>

Accept(c) ==
    /\ caller[c].pc = "offer" /\ Newest(c)
    /\ runtime' = caller[c].held
    /\ status' = "Starting"
    /\ said' = "Starting"
    /\ Goes(c, IF caller[c].kind = "enable"
               THEN [caller[c] EXCEPT !.pc = "save", !.held = NoHost]
               ELSE Idle)
    /\ UNCHANGED <<host, generation, enabled, newest>>

\* A rejected host that is simply forgotten.
RejectedForgotten(c) == Idle

\* The host nobody wants is stopped before the command fails.
Rejected(c) == [caller[c] EXCEPT !.pc = "tell", !.next = "idle"]

Reject(c) ==
    /\ caller[c].pc = "offer" /\ ~Newest(c)
    /\ Goes(c, Rejected(c))
    /\ UNCHANGED <<hostVars, enabled, newest>>

(***************************************************************************)
(* The settings.                                                           *)
(***************************************************************************)
\* The whole file is written, whatever was saved since it was read; a new
\* relay address restarts a channel that is switched on.
Save(c) ==
    /\ caller[c].pc = "save"
    /\ enabled' = caller[c].on
    /\ IF caller[c].kind = "repoint" /\ caller[c].on
       THEN Goes(c, [caller[c] EXCEPT !.pc = "begin"])
       ELSE Ends(c)
    /\ UNCHANGED <<hostVars, newest>>

SaveFails(c) ==
    /\ caller[c].pc = "save"
    /\ Ends(c)
    /\ UNCHANGED <<hostVars, enabled, newest>>

(***************************************************************************)
(* The specification.                                                      *)
(***************************************************************************)
\* What a command does once the user has issued it.
CommandGoesOn(c) ==
    \/ StartBegins(c) \/ Tell(c) \/ HostEnded(c) \/ StopTimesOut(c)
    \/ Superseded(c) \/ Spawn(c) \/ Accept(c) \/ Reject(c)
    \/ Save(c) \/ SaveFails(c)

Next ==
    \/ \E c \in Callers :
           Enable(c) \/ Disable(c) \/ Repoint(c) \/ CommandGoesOn(c)
    \/ \E h \in Hosts : HostStep(h) /\ UNCHANGED <<enabled, caller, newest>>

\* The runtime of the executor polls every task that can go on, and timers
\* fire.  A host inside a handler may stay there: opening a session waits
\* for another program.
Fairness ==
    /\ \A c \in Callers : WF_vars(CommandGoesOn(c))
    /\ \A h \in Hosts :
           WF_vars(HostGoesOn(h) /\ UNCHANGED <<enabled, caller, newest>>)

Spec == Init /\ [][Next]_vars /\ Fairness

(***************************************************************************)
(* Properties.                                                             *)
(***************************************************************************)
AllReturned == \A c \in Callers : caller[c].pc = "idle"

Alive(h) == host[h].phase \notin {"unborn", "ended"}

\* A host that runs and was not told to stop is the one in charge, or is in
\* the hands of exactly one command, which will offer it or stop it: no
\* interleaving of starts and stops leaves a host behind that keeps a
\* phone's access open with nobody able to close it.
HostsAreHeld ==
    \A h \in Hosts : Alive(h) /\ ~host[h].told =>
        \/ runtime = h /\ \A c \in Callers : caller[c].held # h
        \/ /\ runtime # h
           /\ \E c \in Callers :
                  /\ caller[c].held = h /\ caller[c].pc \in {"offer", "tell"}
                  /\ \A d \in Callers \ {c} : caller[d].held # h

\* Whatever order overlapping commands ran in, once all have returned the
\* newest has had its way: after a stop no host is in charge, after a start
\* its own host is, and every other host has ended.
LastCommandWins ==
    AllReturned =>
        /\ runtime = IF newest = "start" THEN generation ELSE NoHost
        /\ \A h \in Hosts \ {runtime} : ~Alive(h)

\* What the Manager shows is the last word of the host in charge since it was
\* accepted; with none in charge and no start under way it is Stopped,
\* though hosts that were stopped, aborted or never accepted still report.
StatusIsOfTheRuntime ==
    /\ runtime # NoHost => status = said
    /\ AllReturned /\ runtime = NoHost => status = "Stopped"

\* A host that was told to stop ends, and with it the backend it had opened
\* for the phone, even when it is inside a handler that never returns.
ToldHostsEnd ==
    \A h \in Hosts :
        host[h].told ~> (host[h].phase = "ended" /\ host[h].backend \notin {"up", "falling"})

=============================================================================

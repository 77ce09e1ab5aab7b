---------------------------- MODULE MobileHosts ----------------------------
(***************************************************************************)
(* The desktop end of the mobile channel (mobile_relay_host.rs): the task  *)
(* a Manager spawns to keep one connection to the relay, and the session   *)
(* it opens for the phone.  A session runs on a backend, the bridge into   *)
(* Codex Desktop or an app-server of its own, whose output a reader task   *)
(* of its own sends to the phone.                                          *)
(*                                                                         *)
(* A Manager may run several of these tasks at a time, an old one stopping *)
(* while its successor starts; host h is the one the h-th start spawned.   *)
(* An action is what a task does between two awaits.  While a handler      *)
(* awaits (a session being shut down or started) its task reads neither    *)
(* the relay nor the request to stop.                                      *)
(***************************************************************************)
EXTENDS Naturals

CONSTANTS
    MaxGen,     \* bound on the generations, and so on the hosts
    Sessions,   \* the session ids phones use
    NoSession   \* the absence of one

ASSUME HostsAssumption == MaxGen \in Nat /\ NoSession \notin Sessions

Hosts == 1 .. MaxGen
NoHost == 0

StatusPhases == {"Starting", "RelayConnecting", "WaitingPhone",
                 "StartingCodex", "Ready", "Reconnecting", "Stopped"}

\* Where a host's task is.  In Deaf it is inside a handler.
Deaf == {"draining", "starting", "started", "dismissing"}
Phases == {"unborn", "born", "dialing", "listening", "backoff", "closing", "ended"}
              \cup Deaf

VARIABLES
    host,       \* the tasks
    generation, \* HostState.generation: the newest start or stop
    runtime,    \* HostState.runtime: the host in charge
    status,     \* HostState.host_status: what the Manager shows
    said        \* history: the last word of the host in charge

hostVars == <<host, generation, runtime, status, said>>

(* told: the request to stop was sent.  sess: the session in the map.      *)
(* wants: the one a handler is about.  backend: of the session in the map  *)
(* or in the handler's hands; falling when its owner was dropped and       *)
(* nobody waits for it.  reading: its reader task was not aborted and has  *)
(* not ended.                                                              *)
Unborn == [phase |-> "unborn", told |-> FALSE, sess |-> NoSession,
           wants |-> NoSession, backend |-> "none", reading |-> FALSE]

HostsInit ==
    /\ host = [h \in Hosts |-> Unborn]
    /\ generation = 0
    /\ runtime = NoHost
    /\ status = "Stopped"
    /\ said = "Stopped"

HostsTypeOK ==
    /\ host \in [Hosts ->
           [phase : Phases, told : BOOLEAN, sess : Sessions \cup {NoSession},
            wants : Sessions \cup {NoSession},
            backend : {"none", "up", "falling", "down"}, reading : BOOLEAN]]
    /\ \A h \in Hosts :
           host[h].sess # NoSession \/ host[h].reading => host[h].backend # "none"
    /\ generation \in 0 .. MaxGen
    /\ runtime \in Hosts \cup {NoHost}
    /\ status \in StatusPhases
    /\ said \in StatusPhases

(***************************************************************************)
(* Reports.                                                                *)
(***************************************************************************)
\* Without the comparison of generations a stopped host's report is shown.
UpdateHostStatusAlways(h, s) == status' = s

\* update_host_status: a report of any but the newest generation is dropped.
UpdateHostStatus(h, s) == status' = IF generation = h THEN s ELSE status

Report(h, s) ==
    /\ UpdateHostStatus(h, s)
    /\ said' = IF runtime = h THEN s ELSE said
    /\ UNCHANGED <<generation, runtime>>

Silent == UNCHANGED <<generation, runtime, status, said>>

Becomes(h, r) == host' = [host EXCEPT ![h] = r]

\* run_once begins: the first thing it does is say so.
Dial(h, r) == Becomes(h, [r EXCEPT !.phase = "dialing"]) /\ Report(h, "RelayConnecting")

\* run_once failed: the sessions stay for the next connection.
BackOff(h, r) ==
    /\ Becomes(h, [r EXCEPT !.phase = "backoff", !.wants = NoSession])
    /\ Report(h, "Reconnecting")

(***************************************************************************)
(* The connection loop.                                                    *)
(***************************************************************************)
\* run: spawned by spawn_with_reporter, it reports Starting and dials.
Run(h) == host[h].phase = "born" /\ Dial(h, host[h])

DialSucceeds(h) ==
    /\ host[h].phase = "dialing"
    /\ Becomes(h, [host[h] EXCEPT !.phase = "listening"])
    /\ Report(h, "WaitingPhone")

DialFails(h) == host[h].phase = "dialing" /\ BackOff(h, host[h])

\* message_loop awaits the relay's next message.
Hears(h) == host[h].phase = "listening"

\* A clean close is Completed and redialled at once, an error waits.
LoopCompletes(h) == Hears(h) /\ Dial(h, host[h])

LoopFails(h) == Hears(h) /\ BackOff(h, host[h])

BackoffEnds(h) == host[h].phase = "backoff" /\ Dial(h, host[h])

\* The request to stop is read at every await of the loop outside a handler;
\* shutdown_sessions takes the session out of the map and aborts its reader.
Shutdown(h) ==
    /\ host[h].told /\ host[h].phase \in {"dialing", "listening", "backoff"}
    /\ Becomes(h, [host[h] EXCEPT !.phase = "closing", !.sess = NoSession,
                                  !.reading = FALSE])
    /\ Silent

ShutdownEnds(h) ==
    /\ host[h].phase = "closing"
    /\ Becomes(h, [host[h] EXCEPT !.phase = "ended", !.backend = "none"])
    /\ Report(h, "Stopped")

(***************************************************************************)
(* The phone's frames.                                                     *)
(***************************************************************************)
\* is_alive, try_wait: the session of that id is in the map and its backend up.
Running(h, s) == host[h].sess = s /\ host[h].backend = "up"

ConnectResumes(h, s) ==
    /\ Hears(h) /\ Running(h, s)
    /\ UNCHANGED host
    /\ Report(h, "Ready")

\* The dead session of that id, or the session of another, is shut down
\* first; StartingCodex is reported once the dead one is gone.
ConnectDrains(h, s) ==
    /\ Hears(h) /\ ~Running(h, s) /\ host[h].sess # NoSession
    /\ Becomes(h, [host[h] EXCEPT !.phase = "draining", !.wants = s,
                                  !.sess = NoSession, !.reading = FALSE])
    /\ IF host[h].sess = s THEN Silent ELSE Report(h, "StartingCodex")

ConnectStarts(h, s) ==
    /\ Hears(h) /\ host[h].sess = NoSession
    /\ Becomes(h, [host[h] EXCEPT !.phase = "starting", !.wants = s])
    /\ Report(h, "StartingCodex")

Drained(h) ==
    /\ host[h].phase = "draining"
    /\ Becomes(h, [host[h] EXCEPT !.phase = "starting", !.backend = "none"])
    /\ Report(h, "StartingCodex")

\* SessionHandle::start: the bridge into Codex Desktop or, when that fails
\* or times out, an app-server; the reader is spawned at once.
BackendStarts(h) ==
    /\ host[h].phase = "starting"
    /\ Becomes(h, [host[h] EXCEPT !.phase = "started", !.backend = "up", !.reading = TRUE])
    /\ Silent

\* Neither could be started.  When the socket broke while the handler was
\* at it the phone cannot be told, which ends the loop with an error.
StartFails(h) ==
    /\ host[h].phase = "starting"
    /\ \/ /\ Becomes(h, [host[h] EXCEPT !.phase = "listening", !.wants = NoSession])
          /\ Report(h, "WaitingPhone")
       \/ BackOff(h, host[h])

\* The session enters the map before the phone is told, and stays there
\* when telling it fails.
SessionEnters(h) ==
    /\ host[h].phase = "started"
    /\ LET r == [host[h] EXCEPT !.phase = "listening", !.sess = host[h].wants,
                                !.wants = NoSession]
       IN \/ Becomes(h, r) /\ Report(h, "Ready")
          \/ BackOff(h, r)

\* Close of the session in the map; of another it only reports.
CloseDismisses(h) ==
    /\ Hears(h) /\ host[h].sess # NoSession
    /\ Becomes(h, [host[h] EXCEPT !.phase = "dismissing", !.sess = NoSession,
                                  !.reading = FALSE])
    /\ Silent

CloseUnknown(h, s) ==
    /\ Hears(h) /\ host[h].sess # s
    /\ UNCHANGED host
    /\ Report(h, "WaitingPhone")

Dismissed(h) ==
    /\ host[h].phase = "dismissing"
    /\ \/ /\ Becomes(h, [host[h] EXCEPT !.phase = "listening", !.backend = "none"])
          /\ Report(h, "WaitingPhone")
       \/ BackOff(h, [host[h] EXCEPT !.backend = "none"])

(***************************************************************************)
(* The backend and its reader.                                             *)
(***************************************************************************)
BackendDies(h) ==
    /\ host[h].backend \in {"up", "falling"}
    /\ Becomes(h, [host[h] EXCEPT !.backend = "down"])
    /\ Silent

\* The reader tells the phone and reports that it waits for one, whatever
\* the connection is doing.
ReaderEnds(h) ==
    /\ host[h].reading /\ host[h].backend = "down"
    /\ Becomes(h, [host[h] EXCEPT !.reading = FALSE])
    /\ Report(h, "WaitingPhone")

(***************************************************************************)
(* MobileRelayHostRuntime, what a Manager holds of a host.                 *)
(***************************************************************************)
Spawned(r) == [r EXCEPT !.phase = "born"]

Told(r) == [r EXCEPT !.told = TRUE]

\* abort: the task is dropped where it awaits, and with it the session
\* without its shutdown: the backend falls when its handle is dropped, the
\* detached reader sees it end.
Aborted(r) ==
    [r EXCEPT !.phase = "ended", !.sess = NoSession, !.wants = NoSession,
              !.backend = IF r.backend = "up" THEN "falling" ELSE r.backend]

\* What the task does by itself, in time; starting a session is not among
\* it, nor what depends on the relay or on the phone.
HostGoesOn(h) ==
    \/ Run(h)
    \/ Shutdown(h)
    \/ ShutdownEnds(h)
    \/ host[h].backend = "falling" /\ BackendDies(h)
    \/ ReaderEnds(h)

HostStep(h) ==
    \/ Run(h) \/ DialSucceeds(h) \/ DialFails(h)
    \/ LoopCompletes(h) \/ LoopFails(h) \/ BackoffEnds(h)
    \/ Shutdown(h) \/ ShutdownEnds(h)
    \/ \E s \in Sessions :
           ConnectResumes(h, s) \/ ConnectDrains(h, s) \/ ConnectStarts(h, s)
               \/ CloseUnknown(h, s)
    \/ Drained(h) \/ BackendStarts(h) \/ StartFails(h) \/ SessionEnters(h)
    \/ CloseDismisses(h) \/ Dismissed(h)
    \/ BackendDies(h) \/ ReaderEnds(h)

=============================================================================

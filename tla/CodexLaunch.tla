---------------------------- MODULE CodexLaunch ----------------------------
(***************************************************************************)
(* Starting and restarting Codex on Windows: the launcher processes        *)
(* (codex-plus-launcher and launch_and_inject_with_hooks), the Manager's   *)
(* launch and restart commands, Codex itself, and what they share: the     *)
(* single-instance guard, the port of the protocol proxy, the process list *)
(* and latest-status.json.  A launcher is started by the Manager, by its   *)
(* shortcut or by the watcher's Run key; they are numbered as they start.  *)
(* Codex is opened by a launcher or by the user's own hand.                *)
(*                                                                         *)
(* A time stamp is the number of launches the Manager has asked for, which *)
(* is all that `started_at_ms >= requested_at_ms` tells apart.  The run of *)
(* Codex a status is about is history: the file does not hold it.          *)
(***************************************************************************)
EXTENDS Naturals

CONSTANTS
    MaxLaunchers,   \* processes of the launcher
    MaxAttempts,    \* injections tried (120 in the code)
    MaxBinds,       \* binds of the proxy's port retried (30 in the code)
    MaxLooks,       \* looks in a row without a Codex (3 in the code)
    MaxRuns,        \* times Codex starts
    MaxRequests     \* launches and restarts of the Manager that get to Start

VARIABLES
    settings,   \* what the launch depends on in settings.json
    codex,      \* the latest run of Codex
    lock,       \* who holds the single-instance guard
    port,       \* who listens on the protocol proxy's port
    latest,     \* latest-status.json
    launcher,   \* the launchers
    manager,    \* the Manager's one launch operation
    clock

vars == <<settings, codex, lock, port, latest, launcher, manager, clock>>

ASSUME Bounds ==
    {MaxLaunchers, MaxAttempts, MaxBinds, MaxLooks, MaxRuns,
     MaxRequests} \subseteq Nat \ {0}

Launchers == 1 .. MaxLaunchers
Nobody == 0
Stranger == MaxLaunchers + 1

Good == {"running", "running_degraded"}
Final == Good \cup {"failed"}

\* run: the Codex seen or launched; tries: injections and binds so far;
\* keep: keep_launched_on_error.
Fresh == [pc |-> "idle", run |-> 0, tries |-> 0, streak |-> 0, keep |-> FALSE]

\* old: the last run of Codex known to be over when the command went on, 0
\* if there is none; waits: the launchers waited for; next: what follows.
Resting == [pc |-> "idle", old |-> 0, waits |-> {}, next |-> "idle",
            asked |-> 0, child |-> Nobody]

Init ==
    /\ settings \in [proxy : BOOLEAN, enhanced : BOOLEAN]
    /\ codex = [run |-> 0, up |-> FALSE, by |-> Nobody, cdp |-> FALSE]
    /\ lock = Nobody /\ port = Nobody
    /\ latest = [word |-> "nothing", at |-> 0, run |-> 0]
    /\ launcher = [l \in Launchers |-> Fresh]
    /\ manager = Resting
    /\ clock = 0

LauncherPcs ==
    {"idle", "guard", "check", "focus", "validate", "bind", "spawn", "inject",
     "degrade", "report", "wait", "poll", "failing", "failed", "gone"}
ManagerPcs ==
    {"idle", "close", "closing", "drain", "draining", "find", "start",
     "spawn", "watch", "child"}

TypeOK ==
    /\ settings \in [proxy : BOOLEAN, enhanced : BOOLEAN]
    /\ codex \in [run : 0 .. MaxRuns, up : BOOLEAN, cdp : BOOLEAN,
                  by : Launchers \cup {Nobody}]
    /\ lock \in Launchers \cup {Nobody}
    /\ port \in Launchers \cup {Nobody, Stranger}
    /\ latest \in [word : Final \cup {"nothing", "starting"},
                   at : 0 .. MaxRequests, run : 0 .. MaxRuns]
    /\ launcher \in [Launchers ->
           [pc : LauncherPcs, run : 0 .. MaxRuns, streak : 0 .. MaxLooks,
            tries : 0 .. MaxAttempts + MaxBinds, keep : BOOLEAN]]
    /\ manager \in
           [pc : ManagerPcs, old : 0 .. MaxRuns, waits : SUBSET Launchers,
            next : ManagerPcs, asked : 0 .. MaxRequests,
            child : Launchers \cup {Nobody}]
    /\ clock \in 0 .. MaxRequests

Alive == {l \in Launchers : launcher[l].pc \notin {"idle", "gone"}}

(***************************************************************************)
(* Codex and its user.                                                     *)
(***************************************************************************)
Over == [codex EXCEPT !.up = FALSE, !.by = Nobody, !.cdp = FALSE]

Opened(who, cdp) == [run |-> codex.run + 1, up |-> TRUE, by |-> who, cdp |-> cdp]

\* The user opens Codex by its own icon, without a debug port.
OpenByHand ==
    /\ ~codex.up /\ codex.run < MaxRuns
    /\ codex' = Opened(Nobody, FALSE)
    /\ UNCHANGED <<settings, lock, port, latest, launcher, manager, clock>>

Quit ==
    /\ codex.up
    /\ codex' = Over
    /\ UNCHANGED <<settings, lock, port, latest, launcher, manager, clock>>

\* Another program takes the proxy's port, and leaves it.
PortIsTaken ==
    /\ port = Nobody /\ port' = Stranger
    /\ UNCHANGED <<settings, codex, lock, latest, launcher, manager, clock>>

PortIsLeft ==
    /\ port = Stranger /\ port' = Nobody
    /\ UNCHANGED <<settings, codex, lock, latest, launcher, manager, clock>>

(***************************************************************************)
(* A launcher, up to the decision to launch.                               *)
(***************************************************************************)
Goes(l, r) == launcher' = [launcher EXCEPT ![l] = r]

To(l, pc) == Goes(l, [launcher[l] EXCEPT !.pc = pc, !.tries = 0])

\* The process ends: the guard and the proxy's listener go with it.
Ends(l) ==
    /\ Goes(l, [Fresh EXCEPT !.pc = "gone"])
    /\ lock' = IF lock = l THEN Nobody ELSE lock
    /\ port' = IF port = l THEN Nobody ELSE port

Saved(word, run) == [word |-> word, at |-> clock, run |-> run]

\* save_latest where a failure is ignored.
SavesOrNot(word, run) ==
    \/ latest' = Saved(word, run)
    \/ UNCHANGED latest

IsNext(l) ==
    launcher[l].pc = "idle" /\ \A k \in 1 .. l - 1 : launcher[k].pc # "idle"

\* The shortcut, or the Run key at login.
StartedByHand(l) ==
    /\ IsNext(l) /\ To(l, "guard")
    /\ UNCHANGED <<settings, codex, lock, port, latest, manager, clock>>

\* acquire_single_instance_guard; a port the system forbids to bind leaves
\* the lock file as the guard.
TakeGuard(l) ==
    /\ launcher[l].pc = "guard" /\ lock = Nobody
    /\ lock' = l /\ To(l, "check")
    /\ UNCHANGED <<settings, codex, port, latest, manager, clock>>

Sees(l) == Goes(l, [launcher[l] EXCEPT !.pc = "focus",
                        !.run = IF codex.up THEN codex.run ELSE 0])

\* The guard is held: find_codex_processes for a window to activate.
GuardIsHeld(l) ==
    /\ launcher[l].pc = "guard" /\ lock # Nobody /\ Sees(l)
    /\ UNCHANGED <<settings, codex, lock, port, latest, manager, clock>>

\* The guard's port belongs to another program, or the lock file cannot be
\* opened: the launcher ends and leaves no status.
GuardFails(l) ==
    /\ launcher[l].pc = "guard" /\ Ends(l)
    /\ UNCHANGED <<settings, codex, latest, manager, clock>>

\* find_codex_processes by the holder of the guard.
LookForCodex(l) ==
    /\ launcher[l].pc = "check"
    /\ IF codex.up THEN Sees(l) ELSE To(l, "validate")
    /\ UNCHANGED <<settings, codex, lock, port, latest, manager, clock>>

\* focus_existing_codex_without_launch: a window of the Codex seen may or
\* may not be activated.
Focus(l) ==
    /\ launcher[l].pc = "focus"
    /\ LET seen == launcher[l].run IN
           \/ seen # 0 /\ codex.up /\ codex.run = seen
              /\ SavesOrNot("running_degraded", seen)
           \/ SavesOrNot("failed", 0)
    /\ Ends(l)
    /\ UNCHANGED <<settings, codex, manager, clock>>

(***************************************************************************)
(* launch_and_inject_with_hooks.                                           *)
(***************************************************************************)
\* load_settings and resolve_app_dir.  Settings that cannot be read are a
\* status; a missing app directory is an early return outside the block
\* that turns errors into one.
LoadFails(l) ==
    /\ launcher[l].pc = "validate"
    /\ SavesOrNot("failed", 0)
    /\ Ends(l)
    /\ UNCHANGED <<settings, codex, manager, clock>>

\* The checks and repairs before anything is started, any of which can fail;
\* an open Codex always does.
Validate(l) ==
    /\ launcher[l].pc = "validate"
    /\ \/ ~codex.up /\ To(l, IF settings.proxy \/ settings.enhanced
                             THEN "bind" ELSE "spawn")
       \/ To(l, "failing")
    /\ UNCHANGED <<settings, codex, lock, port, latest, manager, clock>>

\* start_helper_waiting_for_busy_port.  Without the proxy the helper's port
\* is a free one and a failing bind is not retried.
Bind(l) ==
    /\ launcher[l].pc = "bind"
    /\ IF ~settings.proxy
       THEN (\E pc \in {"spawn", "failing"} : To(l, pc)) /\ UNCHANGED port
       ELSE IF port = Nobody
       THEN port' = l /\ To(l, "spawn")
       ELSE /\ IF launcher[l].tries < MaxBinds
               THEN Goes(l, [launcher[l] EXCEPT !.tries = @ + 1])
               ELSE To(l, "failing")
            /\ UNCHANGED port
    /\ UNCHANGED <<settings, codex, lock, latest, manager, clock>>

\* Mutant: the Codex of a failing launch is always taken down.
SpawnedForGood(l, run) ==
    Goes(l, [launcher[l] EXCEPT !.run = run, !.tries = 0,
                 !.pc = IF settings.enhanced THEN "inject" ELSE "report"])

\* From here on an error leaves Codex open.
Spawned(l, run) ==
    Goes(l, [launcher[l] EXCEPT !.run = run, !.tries = 0, !.keep = TRUE,
                 !.pc = IF settings.enhanced THEN "inject" ELSE "report"])

\* launch_codex.  Activating an application that is already open, by the
\* user's hand since Validate, gives the process that runs.
Spawn(l) ==
    /\ launcher[l].pc = "spawn"
    /\ \/ codex.up /\ Spawned(l, codex.run) /\ UNCHANGED codex
       \/ /\ ~codex.up /\ codex.run < MaxRuns
          /\ \E cdp \in BOOLEAN : codex' = Opened(l, cdp)
          /\ Spawned(l, codex.run + 1)
       \/ To(l, "failing") /\ UNCHANGED codex
    /\ UNCHANGED <<settings, lock, port, latest, manager, clock>>

\* Mutant: an attempt that fails because nobody listens is not counted.
TriedIfUp(l) == IF codex.up THEN launcher[l].tries + 1 ELSE launcher[l].tries

\* The attempt is over.
Tried(l) == launcher[l].tries + 1

\* ensure_injection: an attempt needs a Codex that answers on the debug
\* port, and may fail even then.
Inject(l) ==
    /\ launcher[l].pc = "inject"
    /\ \/ /\ codex.up /\ codex.cdp
          /\ Goes(l, [launcher[l] EXCEPT !.pc = "report", !.tries = 0,
                                         !.keep = FALSE])
       \/ /\ launcher[l].tries < MaxAttempts
          /\ Goes(l, [launcher[l] EXCEPT !.tries = Tried(l)])
       \/ launcher[l].tries = MaxAttempts /\ To(l, "degrade")
    /\ UNCHANGED <<settings, codex, lock, port, latest, manager, clock>>

\* save_latest(...)? of "running" and of "running_degraded".
Report(l) ==
    /\ launcher[l].pc \in {"report", "degrade"}
    /\ \/ /\ latest' = Saved(IF launcher[l].pc = "report" THEN "running"
                             ELSE "running_degraded", launcher[l].run)
          /\ To(l, "wait")
       \/ To(l, "failing") /\ UNCHANGED latest
    /\ UNCHANGED <<settings, codex, lock, port, manager, clock>>

\* The error branch: shut the helper down and end a Codex that is not to
\* be kept, then say so.
Fail(l) ==
    /\ launcher[l].pc = "failing"
    /\ To(l, "failed")
    /\ port' = IF port = l THEN Nobody ELSE port
    /\ LET launched == launcher[l].run IN
           codex' = IF launched # 0 /\ ~launcher[l].keep /\ codex.run = launched
                    THEN Over ELSE codex
    /\ UNCHANGED <<settings, lock, latest, manager, clock>>

SayFailed(l) ==
    /\ launcher[l].pc = "failed"
    /\ SavesOrNot("failed", 0)
    /\ Ends(l)
    /\ UNCHANGED <<settings, codex, manager, clock>>

\* wait_for_codex_exit: first the process that was launched.
LaunchedIsOver(l) ==
    /\ launcher[l].pc = "wait"
    /\ ~(codex.up /\ codex.run = launcher[l].run)
    /\ Goes(l, [Fresh EXCEPT !.pc = "poll"])
    /\ UNCHANGED <<settings, codex, lock, port, latest, manager, clock>>

\* Then wait_for_existing_codex_exit: MaxLooks looks in a row without a Codex,
\* after which shutdown_helper and the end.
Poll(l) ==
    /\ launcher[l].pc = "poll"
    /\ IF codex.up \/ launcher[l].streak + 1 < MaxLooks
       THEN /\ Goes(l, [launcher[l] EXCEPT !.streak =
                            IF codex.up THEN 0 ELSE @ + 1])
            /\ UNCHANGED <<lock, port>>
       ELSE Ends(l)
    /\ UNCHANGED <<settings, codex, latest, manager, clock>>

\* stop_launcher_processes when the watcher is uninstalled, or the user.
Kill(l) ==
    /\ l \in Alive /\ Ends(l)
    /\ UNCHANGED <<settings, codex, latest, manager, clock>>

LauncherGoesOn(l) ==
    \/ TakeGuard(l) \/ GuardIsHeld(l) \/ GuardFails(l) \/ LookForCodex(l)
    \/ Focus(l) \/ LoadFails(l) \/ Validate(l) \/ Bind(l) \/ Spawn(l)
    \/ Inject(l) \/ Report(l) \/ Fail(l) \/ SayFailed(l)
    \/ LaunchedIsOver(l) \/ Poll(l)

(***************************************************************************)
(* The Manager.  launch_operation_mutex lets one command in; another one   *)
(* is answered at once and changes nothing.                                *)
(***************************************************************************)
managerOnly == <<settings, codex, lock, port, latest, launcher, clock>>

Does(r) == manager' = r

Answers == Does(Resting)

\* launch_codex_plus and restart_codex_plus.
Ask ==
    /\ manager.pc = "idle" /\ clock < MaxRequests
    /\ \E pc \in {"find", "close"} : Does([Resting EXCEPT !.pc = pc])
    /\ UNCHANGED managerOnly

\* request_codex_shutdown_and_wait: without a Codex there is nothing to do;
\* one with no window that can be closed ends the restart.
Close ==
    /\ manager.pc = "close"
    /\ \/ /\ Does([manager EXCEPT !.old = codex.run,
                       !.pc = IF codex.up THEN "closing" ELSE "drain",
                       !.next = "find"])
       \/ codex.up /\ Answers
    /\ UNCHANGED managerOnly

\* The processes listed before the request have ended.
Closed ==
    /\ manager.pc = "closing"
    /\ ~(codex.up /\ codex.run = manager.old)
    /\ Does([manager EXCEPT !.pc = "drain"])
    /\ UNCHANGED managerOnly

\* 15 seconds are over.
CloseTimesOut ==
    /\ manager.pc = "closing" /\ Answers
    /\ UNCHANGED managerOnly

\* Mutant: nobody is waited for.
NoneToWaitFor == {}

\* filter_killable_launcher_processes over the processes of this moment.
ToWaitFor == Alive

\* wait_for_launcher_processes_to_exit.
Drain ==
    /\ manager.pc = "drain"
    /\ Does([manager EXCEPT !.pc = "draining", !.waits = ToWaitFor])
    /\ UNCHANGED managerOnly

Drained ==
    /\ manager.pc = "draining" /\ manager.waits \cap Alive = {}
    /\ Does([manager EXCEPT !.pc = manager.next, !.waits = {}])
    /\ UNCHANGED managerOnly

\* 30 seconds are over.
DrainTimesOut ==
    /\ manager.pc = "draining" /\ Answers
    /\ UNCHANGED managerOnly

\* spawn_codex_plus_launch, up to the wait for launchers that are left.
Find ==
    /\ manager.pc = "find"
    /\ IF codex.up
       THEN Does([manager EXCEPT !.pc = "start"])
       ELSE Does([manager EXCEPT !.pc = "drain", !.next = "start",
                                 !.old = codex.run])
    /\ UNCHANGED managerOnly

\* validate_settings_before_launch, again.
SettingsUnreadable ==
    /\ manager.pc = "find" /\ Answers
    /\ UNCHANGED managerOnly

\* The status "starting", without which nothing is started.
Start ==
    /\ manager.pc = "start"
    /\ clock' = clock + 1
    /\ \/ /\ latest' = [word |-> "starting", at |-> clock + 1, run |-> 0]
          /\ Does([manager EXCEPT !.pc = "spawn", !.asked = clock + 1])
       \/ Answers /\ UNCHANGED latest
    /\ UNCHANGED <<settings, codex, lock, port, launcher>>

SpawnChild ==
    /\ manager.pc = "spawn"
    /\ \E l \in Launchers :
           /\ IsNext(l) /\ To(l, "guard")
           /\ Does([manager EXCEPT !.pc = "watch", !.child = l])
    /\ UNCHANGED <<settings, codex, lock, port, latest, clock>>

SpawnChildFails ==
    /\ manager.pc = "spawn" /\ SavesOrNot("failed", 0) /\ Answers
    /\ UNCHANGED <<settings, codex, lock, port, launcher, clock>>

\* wait_for_launch_readiness: the status first,
ReadStatus ==
    /\ manager.pc = "watch"
    /\ IF latest.at >= manager.asked /\ latest.word \in Final
       THEN Answers
       ELSE Does([manager EXCEPT !.pc = "child"])
    /\ UNCHANGED managerOnly

\* then the child, whose end is a failure whatever it has written since
\* (only a second "failed" is told in its own words).
WatchChild ==
    /\ manager.pc = "child"
    /\ IF launcher[manager.child].pc = "gone"
       THEN Answers
       ELSE Does([manager EXCEPT !.pc = "watch"])
    /\ UNCHANGED managerOnly

\* 135 seconds are over, at the end of some round of the loop.
LaunchTimesOut ==
    /\ manager.pc \in {"watch", "child"} /\ Answers
    /\ UNCHANGED managerOnly

ManagerGoesOn ==
    \/ Close \/ Closed \/ CloseTimesOut \/ Drain \/ Drained \/ DrainTimesOut
    \/ Find \/ SettingsUnreadable \/ Start \/ SpawnChild \/ SpawnChildFails
    \/ ReadStatus \/ WatchChild \/ LaunchTimesOut

Next ==
    \/ OpenByHand \/ Quit \/ PortIsTaken \/ PortIsLeft \/ Ask \/ ManagerGoesOn
    \/ \E l \in Launchers : StartedByHand(l) \/ Kill(l) \/ LauncherGoesOn(l)

\* A process that can go on does; nobody has to open or to quit Codex, to
\* ask for anything, or to leave the port.
Fairness ==
    /\ WF_vars(ManagerGoesOn) /\ WF_vars(LaunchTimesOut)
    /\ \A l \in Launchers : WF_vars(LauncherGoesOn(l))

Spec == Init /\ [][Next]_vars /\ Fairness

(***************************************************************************)
(* Properties.                                                             *)
(***************************************************************************)
\* A restart, and a launch that found no Codex, answers "running" (with or
\* without the enhancements) only of a Codex opened after the one it closed
\* or found ended: never with the late status of an earlier launcher.
\* (BUG-004 of docs/qa/2026-08-21-v1.2.45-final-acceptance.md; commands.rs,
\* restart_codex_plus and wait_for_launch_readiness.)
ReportIsTrue ==
    [][manager.pc = "watch" /\ manager'.pc = "idle" /\ latest.word \in Good
       => latest.run > manager.old]_vars

\* A launcher whose launch fails ends only a Codex that it opened itself,
\* never one the user opened while the launch was under way.
\* (launcher.rs, keep_launched_on_error.)
OwnCodexOnly ==
    [][\A l \in Launchers :
           launcher[l].pc = "failing" /\ launcher'[l].pc = "failed"
           /\ codex' # codex => codex.by = l]_vars

\* Once Codex is closed for good every launcher ends, and every command
\* of the Manager is answered in any case: the launchers and the Manager
\* wait for one another and for Codex, but none of them for ever.
\* (launcher.rs, ensure_injection, start_helper_waiting_for_busy_port and
\* wait_for_existing_codex_exit; watcher.rs and commands.rs, the deadlines.)
NobodyWaitsForEver ==
    /\ manager.pc # "idle" ~> manager.pc = "idle"
    /\ <>[](~codex.up) => <>[](Alive = {})
=============================================================================

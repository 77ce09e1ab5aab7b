------------------------- MODULE CodexLaunchProofs --------------------------
(***************************************************************************)
(* Starting Codex, for any number of launchers, attempts, runs of Codex    *)
(* and commands of the Manager: types, the launchers' restraint towards a  *)
(* Codex that is the user's, and the truth of what a restart answers.      *)
(*                                                                         *)
(* A launcher works on only while it holds the guard, so nobody else opens *)
(* Codex with a debug port between its look and its launch; and a command  *)
(* that goes on after it waited for the launchers has none before it that  *)
(* could still speak of the Codex it closed.                               *)
(***************************************************************************)
EXTENDS CodexLaunch, TLAPS

CodexRecords ==
  [run : 0 .. MaxRuns, up : BOOLEAN, cdp : BOOLEAN, by : Launchers \cup {Nobody}]

StatusRecords ==
  [word : Final \cup {"nothing", "starting"}, at : 0 .. MaxRequests, run : 0 .. MaxRuns]

LauncherRecords ==
  [pc : LauncherPcs, run : 0 .. MaxRuns, streak : 0 .. MaxLooks,
   tries : 0 .. MaxAttempts + MaxBinds, keep : BOOLEAN]

ManagerRecords ==
  [pc : ManagerPcs, old : 0 .. MaxRuns, waits : SUBSET Launchers,
   next : ManagerPcs, asked : 0 .. MaxRequests, child : Launchers \cup {Nobody}]

----
(* The inductive invariant. *)

SystemTyped ==
  /\ settings \in [proxy : BOOLEAN, enhanced : BOOLEAN]
  /\ lock \in Launchers \cup {Nobody} /\ port \in Launchers \cup {Nobody, Stranger}
  /\ latest \in StatusRecords /\ clock \in 0 .. MaxRequests

(* What has the debug port was opened by a launcher. *)
CodexSound ==
  /\ codex \in CodexRecords
  /\ codex.up => codex.run # 0
  /\ ~codex.up => codex.by = Nobody
  /\ codex.by = Nobody => ~codex.cdp

Working == {"check", "validate", "bind", "spawn", "inject", "degrade", "report",
            "wait", "poll", "failing", "failed"}
Launching == {"inject", "degrade", "report", "wait"}

(* What a launcher in state r may be at, given the guard and Codex. *)
LauncherOK(l, r) ==
  /\ r.pc \in Working => lock = l
  /\ r.run <= codex.run
  /\ r.pc \in {"idle", "guard", "check", "validate", "bind", "spawn", "poll", "gone"} => r.run = 0
  /\ r.pc \in Launching => r.run # 0
  /\ r.pc \in {"bind", "spawn"} /\ codex.up => codex.by = Nobody
  /\ r.pc \in Launching \cup {"failing"} /\ r.run # 0 /\ codex.up /\ codex.run = r.run =>
       codex.by = l \/ (codex.by = Nobody /\ r.keep)

LaunchersSound ==
  /\ launcher \in [Launchers -> LauncherRecords]
  /\ \A l \in Launchers : LauncherOK(l, launcher[l])

Pending == {"close", "closing", "drain", "draining", "find", "start"}
Closing == {"idle", "close", "closing"}
Started == {"spawn", "watch", "child"}

ManagerSound ==
  /\ manager \in ManagerRecords /\ manager.old <= codex.run
  /\ manager.pc \in Pending => clock < MaxRequests
  /\ manager.pc \in {"closing", "drain", "draining"} => manager.next \in {"find", "start"}
  /\ manager.pc = "watch" \/ manager.pc = "child" => manager.child # Nobody

(* Of the Codex the command closed nobody speaks any more. *)
OldIsOver == manager.pc \notin Closing /\ codex.up => codex.run > manager.old

Young(l) == launcher[l].run # 0 => launcher[l].run > manager.old

NobodyIsLate ==
  /\ manager.pc = "draining" => \A l \in Launchers \ manager.waits : Young(l)
  /\ manager.pc \in {"find", "start"} \cup Started => \A l \in Launchers : Young(l)

StatusIsYoung ==
  manager.pc \in Started /\ latest.word \in Good => latest.run > manager.old

IInv ==
  /\ SystemTyped /\ CodexSound /\ LaunchersSound /\ ManagerSound
  /\ OldIsOver /\ NobodyIsLate /\ StatusIsYoung

----
(* A step of a launcher: what holds for the launcher in its new state, and *)
(* does no harm to the others.                                             *)
LEMMA Numbered ==
  /\ Nobody \notin Launchers /\ Nobody = 0 /\ Stranger \notin Launchers
  /\ \A l \in Launchers : l # Nobody /\ l # Stranger
  /\ 0 \in 0 .. MaxRuns /\ 0 \in 0 .. MaxRequests /\ 0 \in 0 .. MaxLooks
  /\ 0 \in 0 .. MaxAttempts + MaxBinds
BY Bounds DEF Nobody, Launchers, Stranger

LEMMA Numbers ==
  ASSUME IInv
  PROVE  /\ codex.run \in Nat /\ manager.old \in Nat /\ clock \in Nat
         /\ \A l \in Launchers : launcher[l].run \in Nat /\ launcher[l] \in LauncherRecords
BY Bounds DEF IInv, CodexSound, CodexRecords, ManagerSound, ManagerRecords, SystemTyped,
              LaunchersSound, LauncherRecords

LEMMA LauncherMoves ==
  ASSUME IInv, NEW l \in Launchers, NEW r \in LauncherRecords, Goes(l, r),
         UNCHANGED <<settings, clock, manager>>,
         port' \in Launchers \cup {Nobody, Stranger},
         lock' \in Launchers \cup {Nobody}, lock' = lock \/ lock \in {l, Nobody},
         CodexSound', codex' = codex \/ lock = l, codex'.run >= codex.run,
         codex'.up => (codex.up /\ codex'.run = codex.run) \/ codex'.run > codex.run,
         LauncherOK(l, r)',
         r.run # 0 => r.run = launcher[l].run \/ (codex'.up /\ r.run = codex'.run),
         latest' \in StatusRecords,
         \/ latest' = latest \/ latest'.word \notin Good
         \/ launcher[l].run # 0 /\ latest'.run = launcher[l].run
  PROVE  IInv'
<1> USE Numbers, Numbered
<1>1. /\ launcher' \in [Launchers -> LauncherRecords] /\ launcher'[l] = r
      /\ \A k \in Launchers : k # l => launcher'[k] = launcher[k]
  BY DEF Goes, IInv, LaunchersSound
<1>2. SystemTyped' /\ CodexSound'
  BY DEF IInv, SystemTyped
<1>0. codex'.run \in Nat /\ r.run \in Nat
  BY Bounds DEF CodexSound, CodexRecords, LauncherRecords
<1>3. ASSUME NEW k \in Launchers, k # l PROVE LauncherOK(k, launcher[k])'
  <2>1. LauncherOK(k, launcher[k])
    BY DEF IInv, LaunchersSound
  <2>2. launcher'[k] = launcher[k]
    BY <1>1, <1>3
  <2>3. launcher[k].run <= codex'.run
    BY <1>0, <2>1 DEF LauncherOK
  <2>4. CASE launcher[k].pc \in Working
    <3>1. lock = k /\ lock' = k /\ codex' = codex
      BY <1>3, <2>1, <2>4 DEF LauncherOK
    <3> QED BY <2>1, <2>2, <3>1 DEF LauncherOK
  <2>5. CASE launcher[k].pc \notin Working
    <3>1. launcher[k].pc \notin Launching \cup {"failing", "bind", "spawn"}
      BY <2>5 DEF Working, Launching
    <3> QED BY <2>1, <2>2, <2>3, <2>5, <3>1 DEF LauncherOK
  <2> QED BY <2>4, <2>5
<1>4. LaunchersSound'
  BY <1>1, <1>3 DEF LaunchersSound
<1>5. ManagerSound'
  <2>1. manager.old <= codex'.run
    BY <1>0 DEF IInv, ManagerSound
  <2> QED BY <2>1 DEF IInv, ManagerSound
<1>6. OldIsOver'
  <2>1. manager.old <= codex.run
    BY DEF IInv, ManagerSound
  <2> QED BY <1>0, <2>1 DEF IInv, OldIsOver
<1>7. manager.pc \notin Closing => (Young(l) => Young(l)')
  BY <1>0, <1>1, <1>6 DEF Young, OldIsOver
<1>8. \A k \in Launchers : k # l => (Young(k) => Young(k)')
  BY <1>1 DEF Young
<1>9. NobodyIsLate'
  <2>1. manager.pc \in {"draining", "find", "start"} \cup Started => manager.pc \notin Closing
    BY DEF Started, Closing
  <2>2. manager.pc \notin Closing => \A k \in Launchers : Young(k) => Young(k)'
    BY <1>7, <1>8
  <2> QED BY <2>1, <2>2 DEF IInv, NobodyIsLate
<1>10. StatusIsYoung'
  <2> SUFFICES ASSUME manager.pc \in Started, latest'.word \in Good, latest' # latest
               PROVE  latest'.run > manager.old
    BY DEF IInv, StatusIsYoung
  <2>1. Young(l)
    BY DEF IInv, NobodyIsLate
  <2> QED BY <2>1 DEF Young
<1> QED BY <1>2, <1>4, <1>5, <1>6, <1>9, <1>10 DEF IInv

(* One that neither takes nor leaves the guard, and leaves Codex alone. *)
LEMMA LauncherSteps ==
  ASSUME IInv, NEW l \in Launchers, NEW r \in LauncherRecords, Goes(l, r),
         UNCHANGED <<settings, codex, lock, clock, manager>>,
         port' \in Launchers \cup {Nobody, Stranger},
         LauncherOK(l, r),
         r.run # 0 => r.run = launcher[l].run \/ (codex.up /\ r.run = codex.run),
         latest' \in StatusRecords,
         \/ latest' = latest \/ latest'.word \notin Good
         \/ launcher[l].run # 0 /\ latest'.run = launcher[l].run
  PROVE  IInv'
<1>1. CodexSound' /\ LauncherOK(l, r)'
  BY DEF IInv, CodexSound, LauncherOK
<1>2. lock' \in Launchers \cup {Nobody} /\ codex'.run >= codex.run
  BY Numbers DEF IInv, SystemTyped
<1> QED BY <1>1, <1>2, LauncherMoves

LEMMA LauncherEnds ==
  ASSUME IInv, NEW l \in Launchers, Ends(l), UNCHANGED <<settings, codex, clock, manager>>,
         latest' \in StatusRecords,
         \/ latest' = latest \/ latest'.word \notin Good
         \/ launcher[l].run # 0 /\ latest'.run = launcher[l].run
  PROVE  IInv'
<1> DEFINE r == [Fresh EXCEPT !.pc = "gone"]
<1>1. Goes(l, r) /\ lock' \in {lock, Nobody} /\ (lock' = lock \/ lock = l)
      /\ port' \in {port, Nobody}
  BY DEF Ends
<1>2. r \in LauncherRecords /\ r.pc = "gone" /\ r.run = 0
  BY Numbered DEF Fresh, LauncherRecords, LauncherPcs
<1>3. CodexSound' /\ codex'.run >= codex.run /\ codex'.run >= 0
  BY Numbers DEF IInv, CodexSound
<1>4. LauncherOK(l, r)'
  BY <1>2, <1>3 DEF LauncherOK, Working, Launching
<1>5. lock' \in Launchers \cup {Nobody} /\ port' \in Launchers \cup {Nobody, Stranger}
  BY <1>1 DEF IInv, SystemTyped
<1> HIDE DEF r
<1> QED BY <1>1, <1>2, <1>3, <1>4, <1>5, LauncherMoves

LEMMA Saving ==
  ASSUME IInv, NEW w \in Final, NEW n \in 0 .. MaxRuns
  PROVE  Saved(w, n) \in StatusRecords /\ Saved(w, n).word = w /\ Saved(w, n).run = n
BY DEF Saved, StatusRecords, IInv, SystemTyped

(* One that only goes on to another place. *)
LEMMA ToStep ==
  ASSUME IInv, NEW l \in Launchers, NEW p \in LauncherPcs, To(l, p),
         UNCHANGED <<settings, codex, lock, clock, manager>>,
         port' \in Launchers \cup {Nobody, Stranger},
         p \in Working => lock = l,
         p \in {"idle", "guard", "check", "validate", "bind", "spawn", "poll", "gone"} =>
           launcher[l].run = 0,
         p \in Launching => launcher[l].run # 0,
         p \in {"bind", "spawn"} /\ codex.up => codex.by = Nobody,
         p \in Launching \cup {"failing"} /\ launcher[l].run # 0 /\ codex.up
             /\ codex.run = launcher[l].run =>
           codex.by = l \/ (codex.by = Nobody /\ launcher[l].keep),
         latest' \in StatusRecords,
         \/ latest' = latest \/ latest'.word \notin Good
         \/ launcher[l].run # 0 /\ latest'.run = launcher[l].run
  PROVE  IInv'
<1>0. PICK r : r = [launcher[l] EXCEPT !.pc = p, !.tries = 0]
  OBVIOUS
<1>1. /\ r \in LauncherRecords /\ r.pc = p /\ r.run = launcher[l].run
      /\ r.keep = launcher[l].keep
  BY <1>0, Numbers, Numbered DEF LauncherRecords
<1>2. Goes(l, r)
  BY <1>0 DEF To
<1>3. r.run <= codex.run
  BY <1>1 DEF IInv, LaunchersSound, LauncherOK
<1>4. LauncherOK(l, r)
  BY <1>1, <1>3 DEF LauncherOK
<1> QED BY <1>1, <1>2, <1>4, LauncherSteps

LEMMA Here ==
  ASSUME IInv, NEW l \in Launchers
  PROVE  /\ LauncherOK(l, launcher[l]) /\ launcher[l] \in LauncherRecords
         /\ latest \in StatusRecords /\ port \in Launchers \cup {Nobody, Stranger}
         /\ lock \in Launchers \cup {Nobody} /\ CodexSound
BY DEF IInv, LaunchersSound, SystemTyped

LEMMA SeesStep ==
  ASSUME IInv, NEW l \in Launchers, Sees(l),
         UNCHANGED <<settings, codex, lock, port, latest, manager, clock>>
  PROVE  IInv'
<1> DEFINE n == IF codex.up THEN codex.run ELSE 0
<1>1. n \in 0 .. MaxRuns /\ n <= codex.run /\ (n # 0 => codex.up /\ n = codex.run)
  BY Numbers, Numbered DEF IInv, CodexSound, CodexRecords
<1>2. Goes(l, [launcher[l] EXCEPT !.pc = "focus", !.run = n])
  BY DEF Sees
<1> HIDE DEF n
<1> DEFINE r == [launcher[l] EXCEPT !.pc = "focus", !.run = n]
<1>3. r \in LauncherRecords /\ r.pc = "focus" /\ r.run = n
  BY <1>1, Here DEF LauncherRecords, LauncherPcs
<1> HIDE DEF r
<1>4. LauncherOK(l, r)
  BY <1>1, <1>3 DEF LauncherOK, Working, Launching
<1> QED BY <1>1, <1>2, <1>3, <1>4, Here, LauncherSteps DEF r

LEMMA GuardSteps ==
  ASSUME IInv, NEW l \in Launchers,
         \/ StartedByHand(l) \/ TakeGuard(l) \/ GuardIsHeld(l) \/ GuardFails(l)
         \/ LookForCodex(l) \/ Focus(l) \/ LoadFails(l) \/ SayFailed(l) \/ Kill(l)
  PROVE  IInv'
<1> USE Here
<1>1. CASE StartedByHand(l)
  <2>1. /\ launcher[l].pc = "idle" /\ To(l, "guard")
        /\ UNCHANGED <<settings, codex, lock, port, latest, manager, clock>>
    BY <1>1 DEF StartedByHand, IsNext
  <2>2. launcher[l].run = 0 /\ "guard" \in LauncherPcs
    BY <2>1 DEF LauncherOK, LauncherPcs
  <2> QED BY <2>1, <2>2, ToStep DEF Working, Launching
<1>2. CASE TakeGuard(l)
  <2>1. /\ launcher[l].pc = "guard" /\ lock = Nobody /\ lock' = l
        /\ Goes(l, [launcher[l] EXCEPT !.pc = "check", !.tries = 0])
        /\ UNCHANGED <<settings, codex, port, latest, manager, clock>>
    BY <1>2 DEF TakeGuard, To
  <2>2. "check" \in LauncherPcs
    BY DEF LauncherPcs
  <2>r. PICK r : r = [launcher[l] EXCEPT !.pc = "check", !.tries = 0]
    OBVIOUS
  <2>3. r \in LauncherRecords /\ r.pc = "check" /\ r.run = launcher[l].run
    BY <2>r, <2>2, Numbered DEF LauncherRecords
  <2>g. Goes(l, r)
    BY <2>r, <2>1
  <2>4. r.run = 0 /\ r.run <= codex.run
    BY <2>1, <2>3 DEF LauncherOK
  <2>5. LauncherOK(l, r)'
    BY <2>1, <2>3, <2>4 DEF LauncherOK, Working, Launching
  <2>6. CodexSound' /\ codex'.run >= codex.run
    BY <2>1, Numbers DEF CodexSound
  <2> QED BY <2>1, <2>3, <2>g, <2>4, <2>5, <2>6, LauncherMoves
<1>3. CASE GuardIsHeld(l)
  BY <1>3, SeesStep DEF GuardIsHeld
<1>4. CASE GuardFails(l)
  BY <1>4, LauncherEnds DEF GuardFails
<1>5. CASE LookForCodex(l)
  <2>1. CASE codex.up
    BY <1>5, <2>1, SeesStep DEF LookForCodex
  <2>2. CASE ~codex.up
    <3>1. /\ launcher[l].pc = "check" /\ To(l, "validate")
          /\ UNCHANGED <<settings, codex, lock, port, latest, manager, clock>>
      BY <1>5, <2>2 DEF LookForCodex
    <3>2. launcher[l].run = 0 /\ lock = l /\ "validate" \in LauncherPcs
      BY <3>1 DEF LauncherOK, LauncherPcs, Working
    <3> QED BY <3>1, <3>2, ToStep DEF Launching
  <2> QED BY <2>1, <2>2
<1>6. CASE Focus(l)
  <2> DEFINE seen == launcher[l].run
  <2>1. /\ Ends(l) /\ UNCHANGED <<settings, codex, manager, clock>>
        /\ \/ latest' = latest \/ latest' = Saved("failed", 0)
           \/ seen # 0 /\ latest' = Saved("running_degraded", seen)
    BY <1>6 DEF Focus, SavesOrNot
  <2>2. seen \in 0 .. MaxRuns /\ 0 \in 0 .. MaxRuns
    BY Numbered DEF LauncherRecords
  <2>3. /\ latest' \in StatusRecords
        /\ \/ latest' = latest \/ latest'.word \notin Good
           \/ seen # 0 /\ latest'.run = seen
    BY <2>1, <2>2, Saving DEF Final, Good
  <2> QED BY <2>1, <2>3, LauncherEnds
<1>7. ASSUME Ends(l), UNCHANGED <<settings, codex, manager, clock>>,
             latest' = latest \/ latest' = Saved("failed", 0)
      PROVE  IInv'
  <2>1. latest' \in StatusRecords /\ (latest' = latest \/ latest'.word \notin Good)
    BY <1>7, Saving, Numbered DEF Final, Good
  <2> QED BY <1>7, <2>1, LauncherEnds
<1>8. CASE LoadFails(l)
  BY <1>7, <1>8 DEF LoadFails, SavesOrNot
<1>9. CASE SayFailed(l)
  BY <1>7, <1>9 DEF SayFailed, SavesOrNot
<1>10. CASE Kill(l)
  BY <1>7, <1>10 DEF Kill
<1> QED BY <1>1, <1>2, <1>3, <1>4, <1>5, <1>6, <1>8, <1>9, <1>10

LEMMA WorkSteps ==
  ASSUME IInv, NEW l \in Launchers,
         Validate(l) \/ Bind(l) \/ Report(l) \/ LaunchedIsOver(l) \/ Poll(l)
  PROVE  IInv'
<1> USE Here
<1>0. {"bind", "spawn", "failing", "wait", "poll"} \subseteq LauncherPcs
  BY DEF LauncherPcs
<1>1. CASE Validate(l)
  <2>1. /\ launcher[l].pc = "validate" /\ UNCHANGED <<settings, codex, lock, port, latest, manager, clock>>
        /\ To(l, "failing") \/ (~codex.up /\ (To(l, "bind") \/ To(l, "spawn")))
    BY <1>1 DEF Validate
  <2>2. launcher[l].run = 0 /\ lock = l
    BY <2>1 DEF LauncherOK, Working
  <2> QED BY <1>0, <2>1, <2>2, ToStep DEF Launching
<1>2. CASE Bind(l)
  <2>1. /\ launcher[l].pc = "bind" /\ port' \in {port, l}
        /\ UNCHANGED <<settings, codex, lock, latest, manager, clock>>
        /\ \/ To(l, "spawn") \/ To(l, "failing")
           \/ /\ launcher[l].tries < MaxBinds
              /\ Goes(l, [launcher[l] EXCEPT !.tries = launcher[l].tries + 1])
    BY <1>2 DEF Bind
  <2>2. launcher[l].run = 0 /\ lock = l /\ (codex.up => codex.by = Nobody)
    BY <2>1 DEF LauncherOK, Working
  <2>3. port' \in Launchers \cup {Nobody, Stranger}
    BY <2>1
  <2>4. CASE To(l, "spawn") \/ To(l, "failing")
    BY <1>0, <2>1, <2>2, <2>3, <2>4, ToStep DEF Launching
  <2>5. CASE /\ launcher[l].tries < MaxBinds
             /\ Goes(l, [launcher[l] EXCEPT !.tries = launcher[l].tries + 1])
    <3> DEFINE r == [launcher[l] EXCEPT !.tries = launcher[l].tries + 1]
    <3>1. /\ r \in LauncherRecords /\ r.pc = launcher[l].pc /\ r.run = launcher[l].run
          /\ r.keep = launcher[l].keep
      BY <2>5, Bounds DEF LauncherRecords
    <3> HIDE DEF r
    <3>2. LauncherOK(l, r)
      BY <3>1 DEF LauncherOK
    <3> QED BY <2>1, <2>3, <2>5, <3>1, <3>2, LauncherSteps DEF r
  <2> QED BY <2>1, <2>4, <2>5
<1>3. CASE Report(l)
  <2> DEFINE word == IF launcher[l].pc = "report" THEN "running" ELSE "running_degraded"
  <2>1. /\ launcher[l].pc \in {"report", "degrade"}
        /\ UNCHANGED <<settings, codex, lock, port, manager, clock>>
        /\ \/ latest' = Saved(word, launcher[l].run) /\ To(l, "wait")
           \/ latest' = latest /\ To(l, "failing")
    BY <1>3 DEF Report
  <2>2. word \in Final
    BY DEF Final, Good
  <2> HIDE DEF word
  <2>3. /\ launcher[l].run # 0 /\ lock = l /\ launcher[l].run \in 0 .. MaxRuns
        /\ codex.up /\ codex.run = launcher[l].run =>
             codex.by = l \/ (codex.by = Nobody /\ launcher[l].keep)
    BY <2>1 DEF LauncherOK, Working, Launching, LauncherRecords
  <2>4. CASE latest' = latest /\ To(l, "failing")
    BY <1>0, <2>1, <2>3, <2>4, ToStep DEF Launching
  <2>5. CASE latest' = Saved(word, launcher[l].run) /\ To(l, "wait")
    <3>1. latest' \in StatusRecords /\ latest'.run = launcher[l].run
      BY <2>2, <2>3, <2>5, Saving
    <3> QED BY <1>0, <2>1, <2>3, <2>5, <3>1, ToStep DEF Launching
  <2> QED BY <2>1, <2>4, <2>5
<1>4. CASE LaunchedIsOver(l)
  <2> DEFINE r == [Fresh EXCEPT !.pc = "poll"]
  <2>1. /\ launcher[l].pc = "wait" /\ Goes(l, r)
        /\ UNCHANGED <<settings, codex, lock, port, latest, manager, clock>>
    BY <1>4 DEF LaunchedIsOver
  <2>2. r \in LauncherRecords /\ r.pc = "poll" /\ r.run = 0
    BY Numbered DEF Fresh, LauncherRecords, LauncherPcs
  <2> HIDE DEF r
  <2>3. lock = l /\ codex.run >= 0
    BY <2>1, Numbers DEF LauncherOK, Working
  <2>4. LauncherOK(l, r)
    BY <2>2, <2>3 DEF LauncherOK, Launching
  <2> QED BY <2>1, <2>2, <2>4, LauncherSteps
<1>5. CASE Poll(l)
  <2>1. CASE codex.up \/ launcher[l].streak + 1 < MaxLooks
    <3> DEFINE n == IF codex.up THEN 0 ELSE launcher[l].streak + 1
    <3>1. /\ launcher[l].pc = "poll" /\ Goes(l, [launcher[l] EXCEPT !.streak = n])
          /\ UNCHANGED <<settings, codex, lock, port, latest, manager, clock>>
      BY <1>5, <2>1 DEF Poll
    <3>2. n \in 0 .. MaxLooks
      BY <2>1, Bounds DEF LauncherRecords
    <3> HIDE DEF n
    <3> DEFINE r == [launcher[l] EXCEPT !.streak = n]
    <3>3. /\ r \in LauncherRecords /\ r.pc = launcher[l].pc /\ r.run = launcher[l].run
          /\ r.keep = launcher[l].keep
      BY <3>2 DEF LauncherRecords
    <3> HIDE DEF r
    <3>4. LauncherOK(l, r)
      BY <3>3 DEF LauncherOK
    <3> QED BY <3>1, <3>3, <3>4, LauncherSteps DEF r
  <2>2. CASE ~(codex.up \/ launcher[l].streak + 1 < MaxLooks)
    BY <1>5, <2>2, LauncherEnds DEF Poll
  <2> QED BY <2>1, <2>2
<1> QED BY <1>1, <1>2, <1>3, <1>4, <1>5

LEMMA SpawnSteps ==
  ASSUME IInv, NEW l \in Launchers, Spawn(l)
  PROVE  IInv'
<1> USE Here
<1>1. /\ launcher[l].pc = "spawn" /\ UNCHANGED <<settings, lock, port, latest, manager, clock>>
      /\ lock = l /\ launcher[l].run = 0 /\ (codex.up => codex.by = Nobody)
  BY DEF Spawn, LauncherOK, Working
<1> DEFINE place == IF settings.enhanced THEN "inject" ELSE "report"
<1>2. place \in {"inject", "report"} /\ place \in LauncherPcs
  BY DEF LauncherPcs
<1>3. ASSUME NEW n \in 0 .. MaxRuns, Spawned(l, n)
      PROVE  \E r \in LauncherRecords :
               Goes(l, r) /\ r.pc \in {"inject", "report"} /\ r.run = n /\ r.keep
  <2>1. Goes(l, [launcher[l] EXCEPT !.run = n, !.tries = 0, !.keep = TRUE, !.pc = place])
    BY <1>3 DEF Spawned
  <2> HIDE DEF place
  <2> DEFINE r == [launcher[l] EXCEPT !.run = n, !.tries = 0, !.keep = TRUE, !.pc = place]
  <2>2. r \in LauncherRecords /\ r.pc = place /\ r.run = n /\ r.keep
    BY <1>2, Numbered DEF LauncherRecords
  <2> HIDE DEF r
  <2>3. Goes(l, r)
    BY <2>1 DEF r
  <2> QED BY <1>2, <2>2, <2>3
<1> HIDE DEF place
<1>4. CASE codex.up /\ Spawned(l, codex.run) /\ codex' = codex
  <2>1. codex.run \in 0 .. MaxRuns /\ codex.run # 0
    BY <1>4 DEF CodexSound, CodexRecords
  <2>2. PICK r \in LauncherRecords :
          Goes(l, r) /\ r.pc \in {"inject", "report"} /\ r.run = codex.run /\ r.keep
    BY <1>3, <1>4, <2>1
  <2>3. LauncherOK(l, r)
    BY <1>1, <1>4, <2>1, <2>2 DEF LauncherOK, Working, Launching
  <2> QED BY <1>1, <1>4, <2>2, <2>3, LauncherSteps
<1>5. CASE /\ ~codex.up /\ codex.run < MaxRuns
           /\ \E cdp \in BOOLEAN : codex' = Opened(l, cdp)
           /\ Spawned(l, codex.run + 1)
  <2>1. codex.run + 1 \in 0 .. MaxRuns /\ codex.run + 1 # 0 /\ codex.run + 1 > codex.run
    BY <1>5, Bounds DEF CodexSound, CodexRecords
  <2>2. PICK r \in LauncherRecords :
          Goes(l, r) /\ r.pc \in {"inject", "report"} /\ r.run = codex.run + 1 /\ r.keep
    BY <1>3, <1>5, <2>1
  <2>3. /\ codex' \in CodexRecords /\ codex'.run = codex.run + 1 /\ codex'.up /\ codex'.by = l
    BY <1>5, <2>1 DEF Opened, CodexRecords
  <2>4. CodexSound'
    BY <2>1, <2>3, Numbered DEF CodexSound
  <2>5. LauncherOK(l, r)'
    BY <1>1, <2>1, <2>2, <2>3 DEF LauncherOK, Working, Launching
  <2>6. codex'.run >= codex.run /\ codex'.run > codex.run
    BY <2>1, <2>3, Numbers
  <2> QED BY <1>1, <2>2, <2>3, <2>4, <2>5, <2>6, LauncherMoves
<1>6. CASE To(l, "failing") /\ codex' = codex
  <2>1. "failing" \in LauncherPcs
    BY DEF LauncherPcs
  <2> QED BY <1>1, <1>6, <2>1, ToStep DEF Launching
<1> QED BY <1>1, <1>4, <1>5, <1>6 DEF Spawn

LEMMA InjectSteps ==
  ASSUME IInv, NEW l \in Launchers, Inject(l)
  PROVE  IInv'
<1> USE Here
<1>1. /\ launcher[l].pc = "inject" /\ lock = l /\ launcher[l].run # 0
      /\ UNCHANGED <<settings, codex, lock, port, latest, manager, clock>>
      /\ codex.up /\ codex.run = launcher[l].run =>
           codex.by = l \/ (codex.by = Nobody /\ launcher[l].keep)
  BY DEF Inject, LauncherOK, Working, Launching
<1>2. CASE /\ codex.up /\ codex.cdp
           /\ Goes(l, [launcher[l] EXCEPT !.pc = "report", !.tries = 0, !.keep = FALSE])
  <2> DEFINE r == [launcher[l] EXCEPT !.pc = "report", !.tries = 0, !.keep = FALSE]
  <2>1. r \in LauncherRecords /\ r.pc = "report" /\ r.run = launcher[l].run
    BY Numbered DEF LauncherRecords, LauncherPcs
  <2> HIDE DEF r
  <2>2. codex.by # Nobody
    BY <1>2 DEF CodexSound
  <2>3. LauncherOK(l, r)
    BY <1>1, <2>1, <2>2 DEF LauncherOK, Launching
  <2> QED BY <1>1, <1>2, <2>1, <2>3, LauncherSteps DEF r
<1>3. CASE /\ launcher[l].tries < MaxAttempts
           /\ Goes(l, [launcher[l] EXCEPT !.tries = launcher[l].tries + 1])
  <2> DEFINE r == [launcher[l] EXCEPT !.tries = launcher[l].tries + 1]
  <2>1. /\ r \in LauncherRecords /\ r.pc = launcher[l].pc /\ r.run = launcher[l].run
        /\ r.keep = launcher[l].keep
    BY <1>3, Bounds DEF LauncherRecords
  <2> HIDE DEF r
  <2>2. LauncherOK(l, r)
    BY <2>1 DEF LauncherOK
  <2> QED BY <1>1, <1>3, <2>1, <2>2, LauncherSteps DEF r
<1>4. CASE To(l, "degrade")
  <2>1. "degrade" \in LauncherPcs
    BY DEF LauncherPcs
  <2> QED BY <1>1, <1>4, <2>1, ToStep
<1> QED BY <1>2, <1>3, <1>4 DEF Inject, Tried

LEMMA FailSteps ==
  ASSUME IInv, NEW l \in Launchers, Fail(l)
  PROVE  IInv'
<1> USE Here
<1>1. /\ launcher[l].pc = "failing" /\ lock = l
      /\ Goes(l, [launcher[l] EXCEPT !.pc = "failed", !.tries = 0])
      /\ UNCHANGED <<settings, lock, latest, manager, clock>>
      /\ port' \in {port, Nobody} /\ codex' \in {codex, Over}
  BY DEF Fail, To, LauncherOK, Working
<1>2. PICK r : r = [launcher[l] EXCEPT !.pc = "failed", !.tries = 0]
  OBVIOUS
<1>3. "failed" \in LauncherPcs
  BY DEF LauncherPcs
<1>4. r \in LauncherRecords /\ r.pc = "failed" /\ r.run = launcher[l].run
  BY <1>2, <1>3, Numbered DEF LauncherRecords
<1>5. Goes(l, r)
  BY <1>1, <1>2
<1>6. /\ codex' \in CodexRecords /\ codex'.run = codex.run
      /\ codex' = codex \/ (~codex'.up /\ codex'.by = Nobody /\ ~codex'.cdp)
  BY <1>1, Numbered DEF Over, CodexSound, CodexRecords
<1>7. CodexSound' /\ (codex'.up => codex.up) /\ codex'.run >= codex.run
  BY <1>6, Numbers DEF CodexSound
<1>8. r.run <= codex'.run
  BY <1>4, <1>6 DEF LauncherOK
<1>9. LauncherOK(l, r)'
  BY <1>1, <1>4, <1>8 DEF LauncherOK, Launching
<1> QED BY <1>1, <1>4, <1>5, <1>6, <1>7, <1>9, LauncherMoves

LEMMA LauncherKeeps ==
  ASSUME IInv, NEW l \in Launchers, StartedByHand(l) \/ Kill(l) \/ LauncherGoesOn(l)
  PROVE  IInv'
BY GuardSteps, WorkSteps, SpawnSteps, InjectSteps, FailSteps DEF LauncherGoesOn

----
(* The user, and other programs. *)
LEMMA OutsideKeeps ==
  ASSUME IInv, OpenByHand \/ Quit \/ PortIsTaken \/ PortIsLeft
  PROVE  IInv'
<1> USE Numbers, Numbered
<1>1. /\ UNCHANGED <<settings, lock, latest, launcher, manager, clock>>
      /\ port' \in {port, Nobody, Stranger}
      /\ \/ codex' = codex \/ codex' = Over
         \/ codex' = Opened(Nobody, FALSE) /\ ~codex.up /\ codex.run < MaxRuns
  BY DEF OpenByHand, Quit, PortIsTaken, PortIsLeft
<1>2. SystemTyped'
  BY <1>1 DEF IInv, SystemTyped
<1>3. CodexSound /\ codex \in CodexRecords
  BY DEF IInv, CodexSound
<1>4. CASE codex' = codex
  BY <1>1, <1>2, <1>4 DEF IInv, CodexSound, LaunchersSound, LauncherOK, ManagerSound,
                          OldIsOver, NobodyIsLate, Young, StatusIsYoung
<1>5. CASE codex' = Over
  <2>1. /\ codex' \in CodexRecords /\ codex'.run = codex.run
        /\ ~codex'.up /\ codex'.by = Nobody /\ ~codex'.cdp
    BY <1>3, <1>5 DEF Over, CodexRecords
  <2>2. CodexSound' /\ OldIsOver'
    BY <2>1 DEF CodexSound, OldIsOver
  <2>3. \A l \in Launchers : LauncherOK(l, launcher[l]) => LauncherOK(l, launcher[l])'
    BY <1>1, <2>1 DEF LauncherOK
  <2>4. LaunchersSound' /\ ManagerSound'
    BY <1>1, <2>1, <2>3 DEF IInv, LaunchersSound, ManagerSound
  <2> QED BY <1>1, <1>2, <2>2, <2>4 DEF IInv, NobodyIsLate, Young, StatusIsYoung
<1>6. CASE codex' = Opened(Nobody, FALSE) /\ ~codex.up /\ codex.run < MaxRuns
  <2>1. /\ codex' \in CodexRecords /\ codex'.run = codex.run + 1 /\ codex'.run # 0
        /\ codex'.run > codex.run /\ codex'.up /\ codex'.by = Nobody /\ ~codex'.cdp
    BY <1>3, <1>6, Bounds DEF Opened, CodexRecords
  <2>2. CodexSound'
    BY <2>1 DEF CodexSound
  <2>3. manager.old <= codex.run
    BY DEF IInv, ManagerSound
  <2>4. OldIsOver' /\ manager.old <= codex'.run
    BY <1>1, <2>1, <2>3 DEF OldIsOver
  <2>5. ASSUME NEW l \in Launchers PROVE LauncherOK(l, launcher[l])'
    <3>1. LauncherOK(l, launcher[l]) /\ launcher[l].run <= codex.run
      BY DEF IInv, LaunchersSound, LauncherOK
    <3>2. launcher[l].run <= codex'.run /\ codex'.run # launcher[l].run
      BY <2>1, <3>1
    <3> QED BY <1>1, <2>1, <3>1, <3>2 DEF LauncherOK
  <2>6. LaunchersSound' /\ ManagerSound'
    BY <1>1, <2>4, <2>5 DEF IInv, LaunchersSound, ManagerSound
  <2> QED BY <1>1, <1>2, <2>2, <2>4, <2>6 DEF IInv, NobodyIsLate, Young, StatusIsYoung
<1> QED BY <1>1, <1>4, <1>5, <1>6

----
(* The Manager. *)
LEMMA ManagerMoves ==
  ASSUME IInv, UNCHANGED <<settings, codex, lock, port, launcher>>,
         latest' \in StatusRecords, clock' \in 0 .. MaxRequests,
         ManagerSound', OldIsOver', NobodyIsLate', StatusIsYoung'
  PROVE  IInv'
<1>1. SystemTyped' /\ CodexSound'
  BY DEF IInv, SystemTyped, CodexSound
<1>2. LaunchersSound'
  BY DEF IInv, LaunchersSound, LauncherOK
<1> QED BY <1>1, <1>2 DEF IInv

LEMMA RestingTyped ==
  Resting \in ManagerRecords /\ Resting.pc = "idle" /\ Resting.old = 0
BY Numbered DEF Resting, ManagerRecords, ManagerPcs

LEMMA AnswersKeeps ==
  ASSUME IInv, Answers, UNCHANGED <<settings, codex, lock, port, launcher>>,
         latest' \in StatusRecords, clock' \in 0 .. MaxRequests
  PROVE  IInv'
<1>1. manager' \in ManagerRecords /\ manager'.pc = "idle" /\ manager'.old = 0
  BY RestingTyped DEF Answers, Does
<1>2. 0 <= codex'.run
  BY Numbers
<1>3. ManagerSound'
  BY <1>1, <1>2 DEF ManagerSound, Pending
<1>4. OldIsOver' /\ NobodyIsLate' /\ StatusIsYoung'
  BY <1>1 DEF OldIsOver, NobodyIsLate, StatusIsYoung, Closing, Started
<1> QED BY <1>3, <1>4, ManagerMoves

LEMMA ClosingSteps ==
  ASSUME IInv, Ask \/ Close \/ Closed
  PROVE  IInv'
<1> USE Numbers, Numbered
<1>1. /\ manager \in ManagerRecords /\ manager.old <= codex.run
      /\ latest \in StatusRecords /\ clock \in 0 .. MaxRequests /\ codex \in CodexRecords
  BY DEF IInv, ManagerSound, SystemTyped, CodexSound
<1>2. UNCHANGED <<settings, codex, lock, port, latest, launcher, clock>>
  BY DEF Ask, Close, Closed, managerOnly
<1>3. CASE Ask
  <2>1. /\ clock < MaxRequests /\ manager' \in ManagerRecords
        /\ manager'.pc \in {"find", "close"} /\ manager'.old = 0
    BY <1>3, RestingTyped DEF Ask, Does, ManagerRecords, ManagerPcs
  <2>2. ManagerSound'
    BY <1>2, <2>1 DEF ManagerSound
  <2>3. OldIsOver'
    BY <1>2, <2>1 DEF OldIsOver, IInv, CodexSound
  <2>4. NobodyIsLate' /\ StatusIsYoung'
    BY <1>2, <2>1 DEF NobodyIsLate, Young, StatusIsYoung, Started
  <2> QED BY <1>1, <1>2, <2>2, <2>3, <2>4, ManagerMoves
<1>4. CASE Close
  <2>1. CASE Answers
    BY <1>1, <1>2, <2>1, AnswersKeeps
  <2>2. CASE /\ manager.pc = "close"
             /\ Does([manager EXCEPT !.old = codex.run,
                         !.pc = IF codex.up THEN "closing" ELSE "drain", !.next = "find"])
    <3> DEFINE place == IF codex.up THEN "closing" ELSE "drain"
    <3>1. manager' = [manager EXCEPT !.old = codex.run, !.pc = place, !.next = "find"]
      BY <2>2 DEF Does
    <3>2. place \in {"closing", "drain"} /\ (place = "drain" => ~codex.up) /\ place \in ManagerPcs
      BY DEF ManagerPcs
    <3>3. "find" \in ManagerPcs /\ clock < MaxRequests
      BY <2>2 DEF ManagerPcs, IInv, ManagerSound, Pending
    <3> HIDE DEF place
    <3>4. /\ manager' \in ManagerRecords /\ manager'.pc = place /\ manager'.old = codex.run
          /\ manager'.next = "find"
      BY <1>1, <3>1, <3>2, <3>3 DEF ManagerRecords, CodexRecords
    <3>5. codex.run <= codex.run
      OBVIOUS
    <3>6. ManagerSound' /\ OldIsOver'
      BY <1>2, <3>2, <3>3, <3>4, <3>5 DEF ManagerSound, OldIsOver, Closing
    <3>7. NobodyIsLate' /\ StatusIsYoung'
      BY <3>2, <3>4 DEF NobodyIsLate, StatusIsYoung, Started
    <3> QED BY <1>1, <1>2, <3>6, <3>7, ManagerMoves
  <2> QED BY <1>4, <2>1, <2>2 DEF Close
<1>5. CASE Closed
  <2>1. /\ manager.pc = "closing" /\ ~(codex.up /\ codex.run = manager.old)
        /\ manager' = [manager EXCEPT !.pc = "drain"]
    BY <1>5 DEF Closed, Does
  <2>2. /\ manager' \in ManagerRecords /\ manager'.pc = "drain" /\ manager'.old = manager.old
        /\ manager'.next = manager.next
    BY <1>1, <2>1 DEF ManagerRecords, ManagerPcs
  <2>3. clock < MaxRequests /\ manager.next \in {"find", "start"}
    BY <2>1 DEF IInv, ManagerSound, Pending
  <2>4. ManagerSound' /\ OldIsOver'
    BY <1>1, <1>2, <2>1, <2>2, <2>3 DEF ManagerSound, OldIsOver
  <2>5. NobodyIsLate' /\ StatusIsYoung'
    BY <2>2 DEF NobodyIsLate, StatusIsYoung, Started
  <2> QED BY <1>1, <1>2, <2>4, <2>5, ManagerMoves
<1> QED BY <1>3, <1>4, <1>5

LEMMA DrainingSteps ==
  ASSUME IInv, Drain \/ Drained \/ Find
  PROVE  IInv'
<1> USE Numbers, Numbered
<1>1. /\ manager \in ManagerRecords /\ manager.old <= codex.run
      /\ latest \in StatusRecords /\ clock \in 0 .. MaxRequests /\ codex \in CodexRecords
  BY DEF IInv, ManagerSound, SystemTyped, CodexSound
<1>2. UNCHANGED <<settings, codex, lock, port, latest, launcher, clock>>
  BY DEF Drain, Drained, Find, managerOnly
<1>3. CASE Drain
  <2>1. manager.pc = "drain" /\ manager' = [manager EXCEPT !.pc = "draining", !.waits = Alive]
    BY <1>3 DEF Drain, Does, ToWaitFor
  <2>2. Alive \in SUBSET Launchers
    BY DEF Alive
  <2>3. /\ manager' \in ManagerRecords /\ manager'.pc = "draining"
        /\ manager'.old = manager.old /\ manager'.next = manager.next /\ manager'.waits = Alive
    BY <1>1, <2>1, <2>2 DEF ManagerRecords, ManagerPcs
  <2>4. clock < MaxRequests /\ manager.next \in {"find", "start"}
    BY <2>1 DEF IInv, ManagerSound, Pending
  <2>5. ManagerSound' /\ OldIsOver'
    BY <1>1, <1>2, <2>1, <2>3, <2>4 DEF IInv, ManagerSound, OldIsOver, Closing
  <2>6. \A l \in Launchers \ Alive : launcher[l].run = 0
    BY DEF Alive, IInv, LaunchersSound, LauncherOK
  <2>7. NobodyIsLate' /\ StatusIsYoung'
    BY <1>2, <2>3, <2>6 DEF NobodyIsLate, Young, StatusIsYoung, Started
  <2> QED BY <1>1, <1>2, <2>5, <2>7, ManagerMoves
<1>4. CASE Drained
  <2>1. /\ manager.pc = "draining" /\ manager.waits \cap Alive = {}
        /\ manager' = [manager EXCEPT !.pc = manager.next, !.waits = {}]
    BY <1>4 DEF Drained, Does
  <2>2. clock < MaxRequests /\ manager.next \in {"find", "start"}
    BY <2>1 DEF IInv, ManagerSound, Pending
  <2>3. /\ manager' \in ManagerRecords /\ manager'.pc = manager.next
        /\ manager'.old = manager.old
    BY <1>1, <2>1 DEF ManagerRecords
  <2>4. ManagerSound' /\ OldIsOver'
    BY <1>1, <1>2, <2>1, <2>2, <2>3 DEF IInv, ManagerSound, OldIsOver, Closing
  <2>5. \A l \in manager.waits : l \in Launchers => launcher[l].run = 0
    BY <2>1 DEF Alive, IInv, LaunchersSound, LauncherOK
  <2>6. \A l \in Launchers : Young(l)
    BY <2>1, <2>5 DEF IInv, NobodyIsLate, Young
  <2>7. NobodyIsLate' /\ StatusIsYoung'
    BY <1>2, <2>2, <2>3, <2>6 DEF NobodyIsLate, Young, StatusIsYoung, Started
  <2> QED BY <1>1, <1>2, <2>4, <2>7, ManagerMoves
<1>5. CASE Find
  <2>0. manager.pc = "find" /\ clock < MaxRequests
    BY <1>5 DEF Find, IInv, ManagerSound, Pending
  <2>1. CASE codex.up
    <3>1. manager' = [manager EXCEPT !.pc = "start"]
      BY <1>5, <2>1 DEF Find, Does
    <3>2. manager' \in ManagerRecords /\ manager'.pc = "start" /\ manager'.old = manager.old
      BY <1>1, <3>1 DEF ManagerRecords, ManagerPcs
    <3>3. ManagerSound' /\ OldIsOver'
      BY <1>1, <1>2, <2>0, <3>2 DEF IInv, ManagerSound, OldIsOver, Closing
    <3>4. NobodyIsLate' /\ StatusIsYoung'
      BY <1>2, <2>0, <3>2 DEF IInv, NobodyIsLate, Young, StatusIsYoung, Started
    <3> QED BY <1>1, <1>2, <3>3, <3>4, ManagerMoves
  <2>2. CASE ~codex.up
    <3>1. manager' = [manager EXCEPT !.pc = "drain", !.next = "start", !.old = codex.run]
      BY <1>5, <2>2 DEF Find, Does
    <3>2. /\ manager' \in ManagerRecords /\ manager'.pc = "drain"
          /\ manager'.old = codex.run /\ manager'.next = "start"
      BY <1>1, <3>1 DEF ManagerRecords, ManagerPcs, CodexRecords
    <3>3. codex.run <= codex.run
      OBVIOUS
    <3>4. ManagerSound' /\ OldIsOver'
      BY <1>2, <2>0, <2>2, <3>2, <3>3 DEF ManagerSound, OldIsOver
    <3>5. NobodyIsLate' /\ StatusIsYoung'
      BY <3>2 DEF NobodyIsLate, StatusIsYoung, Started
    <3> QED BY <1>1, <1>2, <3>4, <3>5, ManagerMoves
  <2> QED BY <2>1, <2>2
<1> QED BY <1>3, <1>4, <1>5

LEMMA StartSteps ==
  ASSUME IInv, Start \/ SpawnChild \/ SpawnChildFails
  PROVE  IInv'
<1> USE Numbers, Numbered
<1>1. /\ manager \in ManagerRecords /\ manager.old <= codex.run
      /\ latest \in StatusRecords /\ clock \in 0 .. MaxRequests
  BY DEF IInv, ManagerSound, SystemTyped
<1>2. CASE Start
  <2>1. /\ manager.pc = "start" /\ clock < MaxRequests /\ clock' = clock + 1
        /\ UNCHANGED <<settings, codex, lock, port, launcher>>
    BY <1>2 DEF Start, IInv, ManagerSound, Pending
  <2>2. clock + 1 \in 0 .. MaxRequests /\ clock' \in 0 .. MaxRequests
    BY <2>1, Bounds
  <2>3. CASE Answers /\ latest' = latest
    BY <1>1, <2>1, <2>2, <2>3, AnswersKeeps
  <2>4. CASE /\ latest' = [word |-> "starting", at |-> clock + 1, run |-> 0]
             /\ manager' = [manager EXCEPT !.pc = "spawn", !.asked = clock + 1]
    <3>1. latest' \in StatusRecords /\ latest'.word \notin Good
      BY <2>2, <2>4 DEF StatusRecords, Good
    <3>2. manager' \in ManagerRecords /\ manager'.pc = "spawn" /\ manager'.old = manager.old
      BY <1>1, <2>2, <2>4 DEF ManagerRecords, ManagerPcs
    <3>3. ManagerSound'
      BY <1>1, <2>1, <3>2 DEF ManagerSound, Pending
    <3>4. OldIsOver' /\ NobodyIsLate'
      BY <2>1, <3>2 DEF IInv, OldIsOver, Closing, NobodyIsLate, Young, Started
    <3>5. StatusIsYoung'
      BY <3>1 DEF StatusIsYoung
    <3> QED BY <2>1, <2>2, <3>1, <3>3, <3>4, <3>5, ManagerMoves
  <2> QED BY <1>2, <2>3, <2>4 DEF Start, Does
<1>3. CASE SpawnChildFails
  <2>1. /\ Answers /\ UNCHANGED <<settings, codex, lock, port, launcher, clock>>
        /\ latest' = latest \/ latest' = Saved("failed", 0)
    BY <1>3 DEF SpawnChildFails, SavesOrNot
  <2>2. latest' \in StatusRecords
    <3>1. "failed" \in Final
      BY DEF Final
    <3>2. Saved("failed", 0) \in StatusRecords
      BY <3>1, Saving
    <3> QED BY <1>1, <2>1, <3>2
  <2> QED BY <1>1, <2>1, <2>2, AnswersKeeps
<1>4. CASE SpawnChild
  <2>1. PICK l \in Launchers :
          /\ manager.pc = "spawn" /\ launcher[l].pc = "idle" /\ To(l, "guard")
          /\ manager' = [manager EXCEPT !.pc = "watch", !.child = l]
    BY <1>4 DEF SpawnChild, IsNext, Does
  <2>2. UNCHANGED <<settings, codex, lock, port, latest, clock>>
    BY <1>4 DEF SpawnChild
  <2>3. PICK r : r = [launcher[l] EXCEPT !.pc = "guard", !.tries = 0]
    OBVIOUS
  <2>4. r \in LauncherRecords /\ r.pc = "guard" /\ r.run = launcher[l].run
    BY <2>3, Here DEF LauncherRecords, LauncherPcs
  <2>5. r.run = 0 /\ 0 <= codex.run
    BY <2>1, <2>4, Here DEF LauncherOK
  <2>6. launcher' = [launcher EXCEPT ![l] = r]
    BY <2>1, <2>3 DEF To, Goes
  <2>7. /\ launcher' \in [Launchers -> LauncherRecords] /\ launcher'[l] = r
        /\ \A k \in Launchers : k # l => launcher'[k] = launcher[k]
    BY <2>4, <2>6 DEF IInv, LaunchersSound
  <2>8. /\ manager' \in ManagerRecords /\ manager'.pc = "watch" /\ manager'.old = manager.old
        /\ manager'.child = l
    BY <1>1, <2>1 DEF ManagerRecords, ManagerPcs
  <2>9. SystemTyped' /\ CodexSound'
    BY <2>2 DEF IInv, SystemTyped, CodexSound
  <2>10. LauncherOK(l, launcher[l])'
    BY <2>2, <2>4, <2>5, <2>7 DEF LauncherOK, Working, Launching
  <2>11. \A k \in Launchers : k # l => LauncherOK(k, launcher[k])'
    BY <2>2, <2>7 DEF IInv, LaunchersSound, LauncherOK
  <2>12. LaunchersSound'
    BY <2>7, <2>10, <2>11 DEF LaunchersSound
  <2>13. ManagerSound' /\ OldIsOver' /\ StatusIsYoung'
    BY <1>1, <2>1, <2>2, <2>8 DEF IInv, ManagerSound, Pending, OldIsOver, Closing, StatusIsYoung, Started
  <2>14. NobodyIsLate'
    BY <2>1, <2>4, <2>5, <2>7, <2>8 DEF IInv, NobodyIsLate, Young, Started
  <2> QED BY <2>9, <2>12, <2>13, <2>14 DEF IInv
<1> QED BY <1>2, <1>3, <1>4

LEMMA WatchSteps ==
  ASSUME IInv, ReadStatus \/ WatchChild
  PROVE  IInv'
<1> USE Numbers
<1>1. /\ manager \in ManagerRecords /\ manager.old <= codex.run
      /\ latest \in StatusRecords /\ clock \in 0 .. MaxRequests
  BY DEF IInv, ManagerSound, SystemTyped
<1>2. UNCHANGED <<settings, codex, lock, port, latest, launcher, clock>>
  BY DEF ReadStatus, WatchChild, managerOnly
<1>3. CASE Answers
  BY <1>1, <1>2, <1>3, AnswersKeeps
<1>4. ASSUME NEW place \in {"watch", "child"}, manager.pc \in {"watch", "child"},
             Does([manager EXCEPT !.pc = place])
      PROVE  IInv'
  <2>1. /\ manager' \in ManagerRecords /\ manager'.pc = place /\ manager'.old = manager.old
        /\ manager'.child = manager.child
    BY <1>1, <1>4 DEF Does, ManagerRecords, ManagerPcs
  <2>2. ManagerSound' /\ OldIsOver' /\ StatusIsYoung' /\ NobodyIsLate'
    BY <1>1, <1>2, <1>4, <2>1
       DEF IInv, ManagerSound, Pending, OldIsOver, Closing, StatusIsYoung, NobodyIsLate, Young, Started
  <2> QED BY <1>1, <1>2, <2>2, ManagerMoves
<1> QED BY <1>3, <1>4 DEF ReadStatus, WatchChild

LEMMA ManagerKeeps ==
  ASSUME IInv, Ask \/ ManagerGoesOn
  PROVE  IInv'
<1>1. latest \in StatusRecords /\ clock \in 0 .. MaxRequests
  BY DEF IInv, SystemTyped
<1>2. CASE CloseTimesOut \/ DrainTimesOut \/ SettingsUnreadable \/ LaunchTimesOut
  BY <1>1, <1>2, AnswersKeeps
     DEF CloseTimesOut, DrainTimesOut, SettingsUnreadable, LaunchTimesOut, managerOnly
<1> QED BY <1>2, ClosingSteps, DrainingSteps, StartSteps, WatchSteps DEF ManagerGoesOn

----
(* The invariant holds throughout. *)
LEMMA InitIInv == Init => IInv
<1> SUFFICES ASSUME Init PROVE IInv
  OBVIOUS
<1> USE Numbered
<1>1. /\ settings \in [proxy : BOOLEAN, enhanced : BOOLEAN] /\ lock = Nobody /\ port = Nobody
      /\ codex = [run |-> 0, up |-> FALSE, by |-> Nobody, cdp |-> FALSE]
      /\ latest = [word |-> "nothing", at |-> 0, run |-> 0]
      /\ launcher = [l \in Launchers |-> Fresh] /\ manager = Resting /\ clock = 0
  BY DEF Init
<1>2. latest \in StatusRecords /\ latest.word \notin Good
  BY <1>1 DEF StatusRecords, Good
<1>3. SystemTyped
  BY <1>1, <1>2 DEF SystemTyped
<1>4. codex \in CodexRecords /\ ~codex.up /\ ~codex.cdp /\ codex.by = Nobody /\ codex.run = 0
  BY <1>1 DEF CodexRecords
<1>5. Fresh \in LauncherRecords /\ Fresh.pc = "idle" /\ Fresh.run = 0
  BY DEF Fresh, LauncherRecords, LauncherPcs
<1>6. /\ launcher \in [Launchers -> LauncherRecords]
      /\ \A l \in Launchers : launcher[l] = Fresh
  BY <1>1, <1>5
<1>7. \A l \in Launchers : LauncherOK(l, launcher[l])
  BY <1>4, <1>5, <1>6 DEF LauncherOK, Working, Launching
<1>8. ManagerSound
  BY <1>1, <1>4, RestingTyped DEF ManagerSound, Pending
<1>9. OldIsOver /\ NobodyIsLate /\ StatusIsYoung
  BY <1>1, <1>2, <1>4, RestingTyped DEF OldIsOver, NobodyIsLate, StatusIsYoung, Started
<1> QED BY <1>3, <1>4, <1>6, <1>7, <1>8, <1>9 DEF IInv, CodexSound, LaunchersSound

LEMMA NextIInv == IInv /\ [Next]_vars => IInv'
<1> SUFFICES ASSUME IInv, [Next]_vars PROVE IInv'
  OBVIOUS
<1>1. CASE UNCHANGED vars
  BY <1>1 DEF vars, IInv, SystemTyped, CodexSound, LaunchersSound, LauncherOK, ManagerSound,
              OldIsOver, NobodyIsLate, Young, StatusIsYoung
<1>2. CASE Next
  BY <1>2, OutsideKeeps, ManagerKeeps, LauncherKeeps DEF Next
<1> QED BY <1>1, <1>2

LEMMA Always == Spec => []IInv
<1> QED BY InitIInv, NextIInv, PTL DEF Spec

----
(* Every variable keeps its type: no launch of launcher.rs, commands.rs or *)
(* watcher.rs counts an attempt too many or names a Codex there was not.   *)
THEOREM TypeCorrect == Spec => []TypeOK
<1>1. IInv => TypeOK
  BY DEF IInv, TypeOK, SystemTyped, CodexSound, LaunchersSound, ManagerSound, CodexRecords,
         StatusRecords, LauncherRecords, ManagerRecords
<1> QED BY <1>1, Always, PTL

(* A status that commands.rs accepts as the answer of a restart            *)
(* (wait_for_launch_readiness) is about a Codex opened after the one that  *)
(* was closed, for any number of launchers and of commands before it.      *)
THEOREM TrueReport == Spec => ReportIsTrue
<1>1. IInv /\ [Next]_vars =>
        [manager.pc = "watch" /\ manager'.pc = "idle" /\ latest.word \in Good
           => latest.run > manager.old]_vars
  BY DEF IInv, StatusIsYoung, Started
<1> QED BY <1>1, Always, PTL DEF Spec, ReportIsTrue

(* The error branch of launch_and_inject_with_hooks (launcher.rs:470) ends *)
(* only a Codex its own launcher opened.                                   *)
THEOREM OwnCodex == Spec => OwnCodexOnly
<1>1. ASSUME IInv, [Next]_vars, NEW l \in Launchers,
             launcher[l].pc = "failing", launcher'[l].pc = "failed", codex' # codex
      PROVE  codex.by = l
  <2>1. launcher' # launcher
    BY <1>1
  <2>2. PICK k \in Launchers : Spawn(k) \/ Fail(k)
    BY <1>1, <2>1
       DEF Next, vars, OpenByHand, Quit, PortIsTaken, PortIsLeft, Ask, ManagerGoesOn, Close, Closed,
           CloseTimesOut, Drain, Drained, DrainTimesOut, Find, SettingsUnreadable, Start,
           SpawnChild, SpawnChildFails, ReadStatus, WatchChild, LaunchTimesOut, managerOnly,
           LauncherGoesOn, StartedByHand, Kill, TakeGuard, GuardIsHeld, GuardFails, LookForCodex,
           Focus, LoadFails, Validate, Bind, Inject, Report, SayFailed, LaunchedIsOver, Poll
  <2>3. launcher' = [launcher EXCEPT ![k] = launcher'[k]]
    BY <1>1, <2>2 DEF Spawn, Spawned, Fail, To, Goes, IInv, LaunchersSound
  <2>4. k = l
    BY <1>1, <2>3 DEF IInv, LaunchersSound
  <2>5. Fail(l)
    BY <1>1, <2>2, <2>4 DEF Spawn
  <2>6. /\ launcher[l].run # 0 /\ ~launcher[l].keep /\ codex.run = launcher[l].run
        /\ codex' = Over
    BY <1>1, <2>5 DEF Fail
  <2>7. codex.up
    <3>1. CASE ~codex.up
      <4>1. codex.by = Nobody /\ ~codex.cdp /\ codex \in CodexRecords
        BY <1>1, <3>1 DEF IInv, CodexSound
      <4>2. Over = codex
        BY <3>1, <4>1 DEF Over, CodexRecords
      <4> QED BY <1>1, <2>6, <4>2
    <3> QED BY <3>1
  <2> QED BY <1>1, <2>6, <2>7, Here DEF LauncherOK
<1>2. IInv /\ [Next]_vars =>
        [\A l \in Launchers :
           launcher[l].pc = "failing" /\ launcher'[l].pc = "failed" /\ codex' # codex
             => codex.by = l]_vars
  BY <1>1
<1> QED BY <1>2, Always, PTL DEF Spec, OwnCodexOnly
=============================================================================

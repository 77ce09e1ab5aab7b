----------------------------- MODULE IdealLimiter ------------------------------
(***************************************************************************)
(* What the relay's handshake limiter promises each address: a bucket of   *)
(* Capacity tokens that refills evenly over Window, a handshake costing    *)
(* one token.  A token is Window units, so that one unit of time refills   *)
(* Capacity units.  No bucket is ever forgotten here.                      *)
(***************************************************************************)
EXTENDS Integers

CONSTANTS Ips, Capacity, Window

VARIABLES
  now,     \* the clock
  level,   \* what each address's bucket holds
  granted, \* how many handshakes of each address were let through
  refused  \* ... and how many were turned away

Lower(a, b) == IF a <= b THEN a ELSE b

Full == Capacity * Window

Init ==
  /\ now = 0
  /\ level = [ip \in Ips |-> Full]
  /\ granted = [ip \in Ips |-> 0]
  /\ refused = [ip \in Ips |-> 0]

Tick ==
  /\ now' = now + 1
  /\ level' = [ip \in Ips |-> Lower(Full, level[ip] + Capacity)]
  /\ UNCHANGED <<granted, refused>>

Admit(ip) ==
  /\ level[ip] >= Window
  /\ level' = [level EXCEPT ![ip] = @ - Window]
  /\ granted' = [granted EXCEPT ![ip] = @ + 1]
  /\ UNCHANGED <<now, refused>>

Refuse(ip) ==
  /\ level[ip] < Window
  /\ refused' = [refused EXCEPT ![ip] = @ + 1]
  /\ UNCHANGED <<now, level, granted>>

Next == Tick \/ \E ip \in Ips : Admit(ip) \/ Refuse(ip)

Spec == Init /\ [][Next]_<<now, level, granted, refused>>
=============================================================================

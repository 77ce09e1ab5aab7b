------------------------------ MODULE SessionsMC -------------------------------
(***************************************************************************)
(* Instances of Sessions for TLC: one session database or two, tried in    *)
(* this order.  Processes and workspaces are interchangeable.              *)
(***************************************************************************)
EXTENDS Sessions, TLC

CONSTANTS d1, d2

OneDb  == <<d1>>
TwoDbs == <<d1, d2>>

Symmetry == Permutations(Procs) \cup Permutations(Cwds)
=============================================================================

--------------------------- MODULE PhoneOutboxMC ---------------------------
(***************************************************************************)
(* The instance of PhoneOutbox that TLC checks.                            *)
(***************************************************************************)
EXTENDS PhoneOutbox, TLC

MCSlots == 1 .. 2

MCSym == Permutations(Msgs)

\* A timed-out call comes with one other mishap at most: after it nothing is
\* said of the view, nor of how often its message is told.
FewerMishaps == "timeout" \in mishaps => Cardinality(mishaps) <= 2

=============================================================================

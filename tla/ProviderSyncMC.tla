---------------------------- MODULE ProviderSyncMC -----------------------------
(* A small home for TLC.  All sessions have the old provider at first: two *)
(* are the user's (one of them marked a subagent by a row that another row *)
(* overrules), one is a subagent by its row, one by its rollout only.      *)
EXTENDS ProviderSync, TLC

Old == CHOOSE provider \in Providers : TRUE

AnyProcess == Permutations(Procs)

SmallInit ==
  /\ Init
  /\ \A t \in Threads : rollout[t].provider = Old
  /\ \A d \in Dbs, t \in Threads : rows[d][t] = Old
  /\ lock # Nobody
  /\ global = [main |-> "raw", bak |-> "absent"]

(* Whether a session that its row says is a subagent's can be read makes   *)
(* no difference to what is written: half of the scans will do.            *)
FewerScans ==
  \A p \in Procs :
    \/ job'[p].readable \subseteq job[p].readable
    \/ MarkedByRow \ UserThreads \subseteq job'[p].readable

UndisturbedSmallSpec == SmallInit /\ [][Next /\ Undisturbed /\ FewerScans]_vars
FreeSpec == SmallInit /\ lock = Free /\ [][Next]_vars
StaleSpec == SmallInit /\ lock = Gone /\ [][Next]_vars
=============================================================================

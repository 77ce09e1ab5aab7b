----------------------------- MODULE MirrorAccessMC ----------------------------
(* Small instances of MirrorAccess for TLC. *)
EXTENDS MirrorAccess

AllKinds      == Kinds \ {"none"}
AllButEnable  == AllKinds \ {"enable"}
OnlyEnable    == {"enable"}
NoKind        == {}

(* A fresh machine, or one where Codex and the Manager are both in use:    *)
(* the parts of different files never meet, so the mixtures of Init add    *)
(* states and no cases.                                                    *)
SmallInit ==
  /\ Init
  /\ LET fresh(v) == v = Unset
     IN \A h \in Homes :
          fresh(config[h].access) = fresh(settings.access)
            /\ fresh(auth[h].login) = fresh(settings.access)

SmallSpec == SmallInit /\ [][Next]_vars
=============================================================================

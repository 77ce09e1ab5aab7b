------------------------------ MODULE RotationMC ------------------------------
(* Small instances of Rotation for TLC. *)
EXTENDS Rotation

CONSTANTS a, b, c, m1, m2

Weigh(list, weights) == [i \in DOMAIN list |-> [relay |-> list[i], weight |-> weights[i]]]

Agg(strategy, list, weights) ==
    [agg |-> [strategy |-> strategy, members |-> Weigh(list, weights)], regular |-> None,
     serves |-> [r \in Relays |-> {}], present |-> Relays, usable |-> Relays]

(* One active relay and no aggregate. *)
Single == [Agg("failover", <<>>, <<>>) EXCEPT !.agg = None, !.regular = c]

Failover == Agg("failover", <<a, b, c>>, <<1, 1, 1>>)
Weighted == Agg("weighted", <<a, b>>, <<0, 2>>)
ByTalk   == Agg("conversation", <<a, b>>, <<1, 1>>)
InTurn   == Agg("request", <<b, a, c>>, <<1, 1, 1>>)

(* Mirror's own groups: a member lists the models of its key.  Here one    *)
(* serves the model asked for, one does not, and one lists nothing.        *)
Grouped == [Failover EXCEPT !.serves = (a :> {m1} @@ b :> {m2} @@ c :> {})]

(* The same with a member whose key is missing. *)
Keyless == [Grouped EXCEPT !.usable = {a, b}]

(* Nobody serves the model asked for, and one profile was deleted. *)
Orphaned == [Failover EXCEPT !.serves = [r \in Relays |-> {m2}], !.present = {a, b}]

AllShapes == {Single, Failover, Weighted, ByTalk, InTurn, Grouped, Keyless, Orphaned}
=============================================================================

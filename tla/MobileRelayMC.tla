----------------------------- MODULE MobileRelayMC -----------------------------
(* Small instances of MobileRelay for TLC: one room, two or three connections. *)
EXTENDS MobileRelay, TLC

CONSTANTS c1, c2, c3, r1, t1, t2

As(role, token) == [role |-> role, room |-> r1, token |-> token]

Arrive(a, b, c) == c1 :> a @@ c2 :> b @@ c3 :> c

(* A second phone takes over; a desktop with another token replaces the    *)
(* first one or is refused.  The set is closed under exchanging c2 and c3, *)
(* so that TLC may take the two for one another.                           *)
SmallArrivals ==
  {Arrive(As("host", t1), As("client", t1), As("client", t1)),
   Arrive(As("host", t1), As("host", t2), As("client", t1)),
   Arrive(As("host", t1), As("client", t1), As("host", t2))}

LatePeers == Permutations({c2, c3})

(* Two connections: a desktop and its phone, or two desktops. *)
LiveArrivals ==
  {c1 :> As("host", t1) @@ c2 :> As(role, t1) : role \in Roles}
=============================================================================

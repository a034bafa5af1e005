------------------------- MODULE MCDiscoveryGroups --------------------------
(* An instance of DiscoveryGroups for TLC: two actors at one host, one of  *)
(* them without a group, and an actor at another host.                     *)
EXTENDS DiscoveryGroups

CONSTANTS h1, h2, a1, a2, a3, m1, m2

Hosts == [a \in Actor |-> IF a = a3 THEN h2 ELSE h1]

Actors == [m \in Member |-> IF m = m1 THEN a1 ELSE a3]
=============================================================================

---------------------------- MODULE MCDiscovery -----------------------------
(* An instance of Discovery for TLC.                                       *)
EXTENDS Discovery, TLC

CONSTANTS p1, p2, a1, s1, s2, r1, k1, k2

\* Two processes of one actor: p2 takes over when p1 is gone.
OneActor == [p \in Pid |-> a1]

\* Each serves a response port; r1 is on another host.
Owners == [s \in Service |-> CASE s = s1 -> p1 [] s = s2 -> p2 [] OTHER -> Nil]

\* The ports of this host share a key: they answer the same message type.
SharedKey == [s \in Service |-> IF s = r1 THEN k2 ELSE k1]

\* p2 looks up what the other host offers.
RemoteWanted == {<<p2, k2>>}

\* Bound: gets and results under way at one time.
FewInFlight == Cardinality(inbox) + Cardinality(gets) <= 3

=============================================================================

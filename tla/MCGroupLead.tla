---------------------------- MODULE MCGroupLead -----------------------------
(* Instances of GroupLead for TLC.                                         *)
EXTENDS GroupLead, TLC

\* Every component is subscribed to every other one.
Mesh == {l \in Node \X Node : l[1] # l[2]}

\* The member count when everybody is known, and when one that left still is.
Views == {Cardinality(Node) - 1, Cardinality(Node)}

\* Bound: one component at most counts a member that left, in the last term,
\* where votes and heartbeats of the first may still arrive.
OneOvercount ==
    LET over == {n \in Node : nodesInVote[n] > Cardinality(Node)} IN
    Cardinality(over) <= 1 /\ \A n \in over : term[n] = MaxTerm

Symmetry == Permutations(Node)

\* For any number of nodes in the vote, the code's two cases compute the least
\* number of votes that is more than half of them.
ASSUME MajorityIsLeast ==
    \A k \in 1 .. 12 :
        /\ 2 * Majority(k) > k
        /\ \A m \in 0 .. Majority(k) - 1 : 2 * m <= k
=============================================================================

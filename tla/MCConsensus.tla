---------------------------- MODULE MCConsensus -----------------------------
(* Instances of Consensus for TLC.                                         *)
EXTENDS Consensus, TLC

CONSTANTS n1, n2, n3, a1, p1, p2

\* n1 and n2, the components that may lead, are cut off from each other, which
\* is how both come to lead; n3 talks to both.  n1 hears itself.
Star == {<<n1, n3>>, <<n3, n1>>, <<n2, n3>>, <<n3, n2>>, <<n1, n1>>}

\* n1 leads, n2 and n3 talk to it only, and it hears itself.
Hub == {<<n1, n2>>, <<n2, n1>>, <<n1, n3>>, <<n3, n1>>, <<n1, n1>>}

\* Everybody knows all the others.
KnowsOthers == [n \in Node |-> {Node \ {n}}]

\* n3 proposes everything.
ByClient == [p \in Proposal |-> n3]

\* Every proposal is about the same action.
SameAction == [p \in Proposal |-> a1]
=============================================================================

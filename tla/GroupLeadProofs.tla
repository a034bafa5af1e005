-------------------------- MODULE GroupLeadProofs ---------------------------
(***************************************************************************)
(* The safety of the leader election for every group, every set of         *)
(* connections, every loss of messages and every sequence of member        *)
(* counts.                                                                 *)
(*                                                                         *)
(* The properties of GroupLead are not inductive on their own: what a vote *)
(* or a heartbeat does when it is read depends on what was true when it    *)
(* was sent.  The invariant therefore also says what the messages in       *)
(* flight stand for (Truthful): a vote is on record, a heartbeat was sent  *)
(* by the winner of its term, and every message is from the publisher of   *)
(* its connection.                                                         *)
(***************************************************************************)
EXTENDS GroupLead, GroupPortsProofs, FiniteSetTheorems

\* The message states a fact: a vote that was given, an election that was won.
Told(m) ==
    /\ m.type = "RequestForVoteRep" =>
           [voter |-> m.src, candidate |-> m.voteFor, term |-> m.term] \in cast
    /\ m.type = "AppendEntry" => \E w \in won : w.leader = m.src /\ w.term = m.term

Truthful == [p \in Node |-> {m \in Message : m.src = p /\ Told(m)}]

IInv ==
    /\ TypeOK
    /\ Carries(net, Truthful)
    /\ VotesAreReal
    /\ LeadersAreElected
    /\ VictoriesAreMajorities
    /\ FollowsOnlyElected

-----------------------------------------------------------------------------
\* More than half, for an even and for an odd number of nodes in the vote.
LEMMA MajorityIsMoreThanHalf ==
    ASSUME NEW k \in Nat, NEW v \in Nat, Majority(k) <= v
    PROVE  2 * v > k
  BY DEF Majority

\* The set of counted votes is finite.
LEMMA VotersAreFinite ==
    ASSUME NEW S \in SUBSET Node
    PROVE  IsFiniteSet(S) /\ Cardinality(S) \in Nat /\ Cardinality(S) <= Cardinality(Node)
  BY NodeAssumption, FS_Subset, FS_CardinalityType

\* Facts about the messages the code builds.
LEMMA MessageTypes ==
    ASSUME NEW n \in Node, NEW c \in Node, NEW t \in Nat
    PROVE  /\ RequestForVote(n, t) \in Message /\ RequestForVote(n, t).src = n
           /\ RequestForVote(n, t).type = "RequestForVoteReq"
           /\ VoteFor(n, c, t) \in Message /\ VoteFor(n, c, t).src = n
           /\ VoteFor(n, c, t).type = "RequestForVoteRep"
           /\ VoteFor(n, c, t).voteFor = c /\ VoteFor(n, c, t).term = t
           /\ AppendEntry(n, t) \in Message /\ AppendEntry(n, t).src = n
           /\ AppendEntry(n, t).type = "AppendEntry" /\ AppendEntry(n, t).term = t
  BY DEF Message, RequestForVote, VoteFor, AppendEntry

\* The heartbeat of a winner of the term is a true message.
LEMMA HeartbeatsAreTrue ==
    ASSUME NEW n \in Node, NEW t \in Nat,
           \E w \in won : w.leader = n /\ w.term = t
    PROVE  AppendEntry(n, t) \in Truthful[n]
  BY MessageTypes DEF Truthful, Told

\* The fields of a message that was read.
LEMMA MessageFields ==
    ASSUME NEW m \in Message
    PROVE  /\ m.type \in {"RequestForVoteReq", "RequestForVoteRep", "AppendEntry"}
           /\ m.src \in Node /\ m.term \in Nat
           /\ m.type = "RequestForVoteRep" => m.voteFor \in Node
  BY DEF Message

\* What is in flight has the right type, before and after a step.
LEMMA NetType ==
    ASSUME NEW q, Carries(q, Truthful) \/ Carries(q, Truthful')
    PROVE  q \in [Link -> Seq(Message)]
<1>1. \A p \in Node : Truthful[p] \subseteq Message /\ Truthful'[p] \subseteq Message
  BY DEF Truthful
<1> QED
  BY <1>1, CarriesType

\* What was true when it was sent stays true, as the records of votes and
\* victories only grow.
LEMMA TruthStays ==
    ASSUME cast \subseteq cast', won \subseteq won', NEW q, Carries(q, Truthful)
    PROVE  Carries(q, Truthful')
<1>1. \A p \in Node : Truthful[p] \subseteq Truthful'[p]
  BY DEF Truthful, Told
<1> QED
  BY <1>1, CarriesMore

-----------------------------------------------------------------------------
\* Init: everybody is a follower, nothing was sent.
LEMMA InitInv == Init => IInv
<1> SUFFICES ASSUME Init PROVE IInv
  OBVIOUS
<1>1. Carries(net, Truthful)
  BY EmptyCarries DEF Init
<1>2. TypeOK
  BY <1>1, NetType DEF Init, TypeOK, NodeState
<1> QED
  BY <1>1, <1>2 DEF Init, IInv, VotesAreReal, LeadersAreElected,
                    VictoriesAreMajorities, FollowsOnlyElected

\* FOLLOWER --> CANDIDATE: the new candidate's only vote is its own.
LEMMA StartElectionInv ==
    ASSUME IInv, NEW n \in Node, StartElection(n)
    PROVE  IInv'
<1> USE DEF IInv
<1> DEFINE own == [voter |-> n, candidate |-> n, term |-> term[n] + 1]
<1>1. term[n] + 1 \in Nat /\ own \in Vote
  BY DEF TypeOK, Vote
<1>2. cast' = cast \cup {own} /\ won' = won
  BY DEF StartElection
<1>3. Carries(net', Truthful')
  <2>1. PICK ls \in Reached(net, n) :
            net' = Publish(net, ls, RequestForVote(n, term[n] + 1))
    BY DEF StartElection
  <2>2. RequestForVote(n, term[n] + 1) \in Truthful[n]
    BY <1>1, MessageTypes DEF Truthful, Told
  <2>3. Carries(net', Truthful)
    BY <2>1, <2>2, PublishCarries
  <2> QED BY <1>2, <2>3, TruthStays
<1>4. TypeOK'
  <2>1. net' \in [Link -> Seq(Message)]
    BY <1>3, NetType
  <2>2. PICK k \in MemberCounts : nodesInVote' = [nodesInVote EXCEPT ![n] = k + 1]
    BY DEF StartElection
  <2>3. nodesInVote' \in [Node -> Nat]
    BY <2>2, CountAssumption DEF TypeOK
  <2> QED
    BY <1>1, <1>2, <2>1, <2>3 DEF TypeOK, StartElection, NodeState
<1>5. VotesAreReal'
  BY <1>2 DEF TypeOK, VotesAreReal, StartElection
<1>6. LeadersAreElected'
  BY <1>2 DEF TypeOK, LeadersAreElected, StartElection
<1>7. VictoriesAreMajorities'
  BY <1>2 DEF VictoriesAreMajorities
<1>8. FollowsOnlyElected'
  BY <1>2 DEF TypeOK, FollowsOnlyElected, StartElection
<1> QED
  BY <1>3, <1>4, <1>5, <1>6, <1>7, <1>8

\* CANDIDATE --> FOLLOWER.
LEMMA AbandonElectionInv ==
    ASSUME IInv, NEW n \in Node, AbandonElection(n)
    PROVE  IInv'
<1> USE DEF IInv
<1>1. UNCHANGED <<term, leaderId, nodesInVote, votes, net, cast, won>>
  BY DEF AbandonElection, historyVars
<1>2. state' = [state EXCEPT ![n] = "FOLLOWER"]
  BY DEF AbandonElection
<1>3. Carries(net', Truthful')
  BY <1>1, TruthStays
<1>4. TypeOK'
  BY <1>1, <1>2 DEF TypeOK, NodeState
<1>5. VotesAreReal' /\ LeadersAreElected'
  BY <1>1, <1>2 DEF TypeOK, VotesAreReal, LeadersAreElected
<1>6. VictoriesAreMajorities' /\ FollowsOnlyElected'
  BY <1>1 DEF VictoriesAreMajorities, FollowsOnlyElected
<1> QED
  BY <1>3, <1>4, <1>5, <1>6

\* A heartbeat is sent by a winner of its term only.
LEMMA HeartbeatInv ==
    ASSUME IInv, NEW n \in Node, Heartbeat(n)
    PROVE  IInv'
<1> USE DEF IInv
<1>1. UNCHANGED <<state, term, nodesInVote, votes, cast, won>>
  BY DEF Heartbeat, historyVars
<1>2. leaderId' = leaderId
  BY DEF Heartbeat, LeadersAreElected, TypeOK
<1>3. Carries(net', Truthful')
  <2>1. PICK ls \in Reached(net, n) : net' = Publish(net, ls, AppendEntry(n, term[n]))
    BY DEF Heartbeat
  <2>2. \E w \in won : w.leader = n /\ w.term = term[n]
    BY DEF Heartbeat, LeadersAreElected
  <2>3. AppendEntry(n, term[n]) \in Truthful[n]
    BY <2>2, HeartbeatsAreTrue DEF TypeOK
  <2>4. Carries(net', Truthful)
    BY <2>1, <2>3, PublishCarries
  <2> QED BY <1>1, <2>4, TruthStays
<1>4. TypeOK'
  BY <1>1, <1>2, <1>3, NetType DEF TypeOK
<1>5. VotesAreReal' /\ LeadersAreElected' /\ VictoriesAreMajorities' /\ FollowsOnlyElected'
  BY <1>1, <1>2
     DEF VotesAreReal, LeadersAreElected, VictoriesAreMajorities, FollowsOnlyElected
<1> QED
  BY <1>3, <1>4, <1>5

\* What a component knows about a message it reads.
LEMMA ReadMessage ==
    ASSUME IInv, NEW l \in Link, Readable(net, l)
    PROVE  /\ l[2] \in Node
           /\ Head(net[l]) \in Message /\ Head(net[l]).src = l[1]
           /\ Head(net[l]).src \in Node /\ Head(net[l]).term \in Nat
           /\ Told(Head(net[l]))
           /\ Carries(Consume(net, l), Truthful)
<1>1. l[1] \in Node /\ l[2] \in Node
  BY LinkAssumption
<1>2. Head(net[l]) \in Truthful[l[1]] /\ Carries(Consume(net, l), Truthful)
  BY ConsumeCarries DEF IInv
<1>3. Head(net[l]) \in Message /\ Head(net[l]).src = l[1] /\ Told(Head(net[l]))
  BY <1>1, <1>2 DEF Truthful
<1> QED
  BY <1>1, <1>2, <1>3, MessageFields

\* A vote goes on record when it is sent; whoever grants it becomes a follower.
LEMMA GrantVoteInv ==
    ASSUME IInv, NEW l \in Link, GrantVote(l)
    PROVE  IInv'
<1> USE DEF IInv
<1> DEFINE n == l[2]
           m == Head(net[l])
           given == [voter |-> n, candidate |-> m.src, term |-> m.term]
<1>0. /\ n \in Node /\ m.src \in Node /\ m.term \in Nat
      /\ Carries(Consume(net, l), Truthful)
  BY ReadMessage DEF GrantVote
<1>1. /\ state' = [state EXCEPT ![n] = "FOLLOWER"]
      /\ term' = [term EXCEPT ![n] = m.term]
      /\ cast' = cast \cup {given}
      /\ UNCHANGED <<leaderId, nodesInVote, votes, won>>
  BY DEF GrantVote
<1>2. given \in Vote
  BY <1>0 DEF Vote
<1>3. PICK ls \in Reached(Consume(net, l), n) :
          net' = Publish(Consume(net, l), ls, VoteFor(n, m.src, m.term))
  BY DEF GrantVote
<1> HIDE DEF n, m
<1>4. Carries(net', Truthful')
  <2>1. VoteFor(n, m.src, m.term) \in Truthful'[n]
    <3>1. given \in cast'
      BY <1>1
    <3> QED
      BY <1>0, <3>1, MessageTypes DEF Truthful, Told
  <2>2. Carries(Consume(net, l), Truthful')
    BY <1>0, <1>1, TruthStays
  <2> QED BY <1>3, <2>1, <2>2, PublishCarries
<1>5. TypeOK'
  <2>1. net' \in [Link -> Seq(Message)]
    BY <1>4, NetType
  <2> QED
    BY <1>0, <1>1, <1>2, <2>1 DEF TypeOK, NodeState
<1>6. VotesAreReal'
  BY <1>0, <1>1 DEF TypeOK, VotesAreReal
<1>7. LeadersAreElected'
  BY <1>0, <1>1 DEF TypeOK, LeadersAreElected
<1>8. VictoriesAreMajorities' /\ FollowsOnlyElected'
  BY <1>1 DEF VictoriesAreMajorities, FollowsOnlyElected
<1> QED
  BY <1>4, <1>5, <1>6, <1>7, <1>8

\* A counted vote was given to the candidate in its present term.
LEMMA CountedVotes ==
    ASSUME IInv, NEW l \in Link, Readable(net, l), Counts(l[2], Head(net[l]))
    PROVE  \A v \in votes[l[2]] \cup {Head(net[l]).src} :
               [voter |-> v, candidate |-> l[2], term |-> term[l[2]]] \in cast
<1>1. [voter |-> Head(net[l]).src, candidate |-> l[2], term |-> term[l[2]]] \in cast
  BY ReadMessage DEF Counts, Told
<1>2. \A v \in votes[l[2]] :
          [voter |-> v, candidate |-> l[2], term |-> term[l[2]]] \in cast
  BY ReadMessage DEF Counts, IInv, VotesAreReal
<1> QED BY <1>1, <1>2

\* A vote that does not decide the election yet.
LEMMA CountVoteInv ==
    ASSUME IInv, NEW l \in Link, CountVote(l)
    PROVE  IInv'
<1> USE DEF IInv
<1> DEFINE n == l[2]
           counted == votes[n] \cup {Head(net[l]).src}
<1>0. n \in Node /\ Head(net[l]).src \in Node /\ Carries(Consume(net, l), Truthful)
  BY ReadMessage DEF CountVote
<1>1. votes' = [votes EXCEPT ![n] = counted] /\ net' = Consume(net, l)
  BY DEF CountVote
<1>2. UNCHANGED <<state, term, leaderId, nodesInVote, cast, won>>
  BY DEF CountVote, historyVars
<1>3. \A v \in counted : [voter |-> v, candidate |-> n, term |-> term[n]] \in cast
  BY CountedVotes DEF CountVote
<1>4. counted \in SUBSET Node
  BY <1>0 DEF TypeOK
<1> HIDE DEF n, counted
<1>5. Carries(net', Truthful')
  BY <1>0, <1>1, <1>2, TruthStays
<1>6. TypeOK'
  <2>1. net' \in [Link -> Seq(Message)]
    BY <1>5, NetType
  <2> QED
    BY <1>0, <1>1, <1>2, <1>4, <2>1 DEF TypeOK
<1>7. VotesAreReal'
  BY <1>0, <1>1, <1>2, <1>3 DEF TypeOK, VotesAreReal
<1>8. LeadersAreElected' /\ VictoriesAreMajorities' /\ FollowsOnlyElected'
  BY <1>2 DEF LeadersAreElected, VictoriesAreMajorities, FollowsOnlyElected
<1> QED
  BY <1>5, <1>6, <1>7, <1>8

\* CANDIDATE --> LEADER: the victory is backed by a majority of real votes, and
\* the first heartbeat follows it.
LEMMA WinElectionInv ==
    ASSUME IInv, NEW l \in Link, WinElection(l)
    PROVE  IInv'
<1> USE DEF IInv
<1> DEFINE n == l[2]
           counted == votes[n] \cup {Head(net[l]).src}
           victory == [leader |-> n, term |-> term[n],
                       voters |-> counted, size |-> nodesInVote[n]]
<1>0. n \in Node /\ Head(net[l]).src \in Node /\ Carries(Consume(net, l), Truthful)
  BY ReadMessage DEF WinElection
<1>1. /\ votes' = [votes EXCEPT ![n] = counted]
      /\ state' = [state EXCEPT ![n] = "LEADER"]
      /\ leaderId' = [leaderId EXCEPT ![n] = n]
      /\ won' = won \cup {victory}
      /\ UNCHANGED <<term, nodesInVote, cast>>
  BY DEF WinElection
<1>2. \A v \in counted : [voter |-> v, candidate |-> n, term |-> term[n]] \in cast
  BY CountedVotes DEF WinElection
<1>3. counted \in SUBSET Node
  BY <1>0 DEF TypeOK
<1>4. PICK ls \in Reached(Consume(net, l), n) :
          net' = Publish(Consume(net, l), ls, AppendEntry(n, term[n]))
  BY DEF WinElection
<1>5. 2 * Cardinality(counted) > nodesInVote[n]
  <2>1. Cardinality(counted) \in Nat
    BY <1>3, VotersAreFinite
  <2>2. Majority(nodesInVote[n]) <= Cardinality(counted)
    BY DEF WinElection
  <2>3. nodesInVote[n] \in Nat
    BY <1>0 DEF TypeOK
  <2> HIDE DEF counted, n
  <2> QED BY <2>1, <2>2, <2>3, MajorityIsMoreThanHalf
<1> HIDE DEF n, counted
<1>6. term[n] \in Nat /\ victory \in Victory
  BY <1>0, <1>3 DEF TypeOK, Victory
<1>7. \E w \in won' : w.leader = n /\ w.term = term'[n]
  <2>1. victory \in won' /\ victory.leader = n /\ victory.term = term'[n]
    BY <1>1
  <2> HIDE DEF victory
  <2> QED BY <2>1
<1>8. Carries(net', Truthful')
  <2>1. AppendEntry(n, term[n]) \in Truthful'[n]
    BY <1>0, <1>1, <1>6, <1>7, MessageTypes DEF Truthful, Told
  <2>2. Carries(Consume(net, l), Truthful')
    BY <1>0, <1>1, TruthStays
  <2> QED BY <1>4, <2>1, <2>2, PublishCarries
<1>9. TypeOK'
  <2>1. net' \in [Link -> Seq(Message)]
    BY <1>8, NetType
  <2> QED
    BY <1>0, <1>1, <1>3, <1>6, <2>1 DEF TypeOK, NodeState
<1>10. VotesAreReal'
  BY <1>0, <1>1, <1>2 DEF TypeOK, VotesAreReal
<1>11. LeadersAreElected'
  BY <1>0, <1>1, <1>7 DEF TypeOK, LeadersAreElected
<1>12. VictoriesAreMajorities'
  BY <1>1, <1>2, <1>5 DEF VictoriesAreMajorities
<1>13. FollowsOnlyElected'
  BY <1>0, <1>1, <1>7 DEF TypeOK, FollowsOnlyElected
<1> QED
  BY <1>8, <1>9, <1>10, <1>11, <1>12, <1>13

\* A heartbeat is from a winner, so following it is following a winner.
LEMMA FollowLeaderInv ==
    ASSUME IInv, NEW l \in Link, FollowLeader(l)
    PROVE  IInv'
<1> USE DEF IInv
<1> DEFINE n == l[2]
           m == Head(net[l])
<1>0. /\ n \in Node /\ m.src \in Node /\ m.term \in Nat
      /\ Carries(Consume(net, l), Truthful)
  BY ReadMessage DEF FollowLeader
<1>1. /\ state' = [state EXCEPT ![n] = "FOLLOWER"]
      /\ term' = [term EXCEPT ![n] = m.term]
      /\ leaderId' = [leaderId EXCEPT ![n] = m.src]
      /\ net' = Consume(net, l)
      /\ UNCHANGED <<nodesInVote, votes, cast, won>>
  BY DEF FollowLeader, historyVars
<1>2. \E w \in won : w.leader = m.src
  BY ReadMessage DEF FollowLeader, Follows, GivesWay, Told
<1> HIDE DEF n, m
<1>3. Carries(net', Truthful')
  BY <1>0, <1>1, TruthStays
<1>4. TypeOK'
  <2>1. net' \in [Link -> Seq(Message)]
    BY <1>3, NetType
  <2> QED
    BY <1>0, <1>1, <2>1 DEF TypeOK, NodeState
<1>5. VotesAreReal' /\ LeadersAreElected'
  BY <1>0, <1>1 DEF TypeOK, VotesAreReal, LeadersAreElected
<1>6. VictoriesAreMajorities'
  BY <1>1 DEF VictoriesAreMajorities
<1>7. FollowsOnlyElected'
  BY <1>0, <1>1, <1>2 DEF TypeOK, FollowsOnlyElected
<1> QED
  BY <1>3, <1>4, <1>5, <1>6, <1>7

\* A message nobody acts on.
LEMMA IgnoreInv ==
    ASSUME IInv, NEW l \in Link, Ignore(l)
    PROVE  IInv'
<1> USE DEF IInv
<1>1. /\ net' = Consume(net, l)
      /\ UNCHANGED <<state, term, leaderId, nodesInVote, votes, cast, won>>
  BY DEF Ignore, nodeVars, historyVars
<1>2. Carries(net', Truthful')
  BY <1>1, ReadMessage, TruthStays DEF Ignore
<1>3. TypeOK'
  BY <1>1, <1>2, NetType DEF TypeOK
<1>4. VotesAreReal' /\ LeadersAreElected' /\ VictoriesAreMajorities' /\ FollowsOnlyElected'
  BY <1>1 DEF VotesAreReal, LeadersAreElected, VictoriesAreMajorities, FollowsOnlyElected
<1> QED
  BY <1>2, <1>3, <1>4

\* Nothing changed: Wait, or a step of something else.
LEMMA StutterInv ==
    ASSUME IInv, UNCHANGED vars
    PROVE  IInv'
<1> USE DEF IInv
<1>1. UNCHANGED <<state, term, leaderId, nodesInVote, votes, net, cast, won>>
  BY DEF vars, nodeVars, historyVars
<1>2. Carries(net', Truthful')
  BY <1>1, TruthStays
<1> QED
  BY <1>1, <1>2 DEF TypeOK, VotesAreReal, LeadersAreElected,
                    VictoriesAreMajorities, FollowsOnlyElected

\* Every step of the election preserves the invariant.
LEMMA NextInv == IInv /\ [Next]_vars => IInv'
<1> SUFFICES ASSUME IInv, [Next]_vars PROVE IInv'
  OBVIOUS
<1>1. ASSUME NEW n \in Node, Update(n) PROVE IInv'
  BY <1>1, StartElectionInv, AbandonElectionInv, HeartbeatInv, StutterInv DEF Update, Wait
<1>2. ASSUME NEW l \in Link, UpdateMsg(l) PROVE IInv'
  BY <1>2, GrantVoteInv, CountVoteInv, WinElectionInv, FollowLeaderInv, IgnoreInv
     DEF UpdateMsg
<1> QED
  BY <1>1, <1>2, StutterInv DEF Next

-----------------------------------------------------------------------------
\* The inductive invariant holds in every reachable state.
THEOREM ElectionInvariant == Spec => []IInv
  BY InitInv, NextInv, PTL DEF Spec

\* Type correctness of the election.
THEOREM ElectionTypeOK == Spec => []TypeOK
<1>1. IInv => TypeOK
  BY DEF IInv
<1> QED BY ElectionInvariant, <1>1, PTL

\* No vote of another election or another component is ever counted.
THEOREM OnlyRealVotesCount == Spec => []VotesAreReal
<1>1. IInv => VotesAreReal
  BY DEF IInv
<1> QED BY ElectionInvariant, <1>1, PTL

\* A leader won its term and knows it leads; a candidate names no leader.
THEOREM LeadersWereElected == Spec => []LeadersAreElected
<1>1. IInv => LeadersAreElected
  BY DEF IInv
<1> QED BY ElectionInvariant, <1>1, PTL

\* Every victory had more than half of the nodes that the winner knew.
THEOREM VictoriesHaveMajorities == Spec => []VictoriesAreMajorities
<1>1. IInv => VictoriesAreMajorities
  BY DEF IInv
<1> QED BY ElectionInvariant, <1>1, PTL

\* Nobody follows a component that never won an election.
THEOREM FollowedWereElected == Spec => []FollowsOnlyElected
<1>1. IInv => FollowsOnlyElected
  BY DEF IInv
<1> QED BY ElectionInvariant, <1>1, PTL

\* Two winners of one term that both counted the whole group had a voter in
\* common, so two leaders per term need a component that votes twice.
THEOREM SplitsNeedDoubleVotes == Spec => []SplitNeedsDoubleVote
<1>1. IInv => SplitNeedsDoubleVote
  <2> SUFFICES ASSUME IInv, NEW v \in won, NEW w \in won,
                      v.term = w.term, v.leader # w.leader,
                      v.size >= Cardinality(Node), w.size >= Cardinality(Node)
               PROVE  \E x \in Node :
                        /\ [voter |-> x, candidate |-> v.leader, term |-> v.term] \in cast
                        /\ [voter |-> x, candidate |-> w.leader, term |-> w.term] \in cast
    BY DEF SplitNeedsDoubleVote
  <2>1. /\ v.voters \in SUBSET Node /\ w.voters \in SUBSET Node
        /\ v.size \in Nat /\ w.size \in Nat
    BY DEF IInv, TypeOK, Victory
  <2>2. /\ 2 * Cardinality(v.voters) > v.size
        /\ 2 * Cardinality(w.voters) > w.size
    BY DEF IInv, VictoriesAreMajorities
  <2>3. /\ Cardinality(v.voters) \in Nat /\ Cardinality(w.voters) \in Nat
        /\ Cardinality(Node) \in Nat
    BY <2>1, VotersAreFinite, NodeAssumption, FS_CardinalityType
  <2>4. Cardinality(v.voters) + Cardinality(w.voters) > Cardinality(Node)
    BY <2>1, <2>2, <2>3
  <2>5. PICK x : x \in v.voters \cap w.voters
    BY <2>1, <2>4, NodeAssumption, FS_MajoritiesIntersect
  <2> QED
    BY <2>1, <2>5 DEF IInv, VictoriesAreMajorities
<1> QED BY ElectionInvariant, <1>1, PTL

-----------------------------------------------------------------------------
(* What a split of the group needs.  The code compares the term of a       *)
(* request with its own before it votes, which makes one vote per term as  *)
(* long as its own term never falls.  Only the heartbeat branch of a       *)
(* follower, which takes over any term, breaks it.                         *)

\* No follower takes over the term of an old heartbeat.
TermsNeverFall == [][\A n \in Node : term'[n] >= term[n]]_vars

\* A component has voted in no term beyond its own, and once in each.
OneVotePerTerm ==
    /\ \A c \in cast : c.term <= term[c.voter]
    /\ \A b, c \in cast : b.voter = c.voter /\ b.term = c.term => b.candidate = c.candidate

\* No two components win the same term with the whole group in the vote.
OneFullVictoryPerTerm ==
    \A v, w \in won :
        /\ v.term = w.term
        /\ v.size >= Cardinality(Node) /\ w.size >= Cardinality(Node)
        => v.leader = w.leader

\* A vote is given in a term that is new to the voter.
LEMMA VotesAreNew ==
    ASSUME IInv, [Next]_vars
    PROVE  \/ cast' = cast
           \/ \E c \in Vote : /\ cast' = cast \cup {c}
                              /\ term[c.voter] < c.term /\ term'[c.voter] = c.term
<1> USE DEF IInv, TypeOK
<1>1. ASSUME NEW n \in Node, StartElection(n)
      PROVE  \E c \in Vote : /\ cast' = cast \cup {c}
                             /\ term[c.voter] < c.term /\ term'[c.voter] = c.term
  <2>1. PICK c : c = [voter |-> n, candidate |-> n, term |-> term[n] + 1]
    OBVIOUS
  <2>2. c \in Vote /\ c.voter = n /\ c.term = term[n] + 1
    BY <2>1 DEF Vote
  <2>3. cast' = cast \cup {c} /\ term'[n] = term[n] + 1 /\ term[n] \in Nat
    BY <1>1, <2>1 DEF StartElection
  <2>4. term[n] < term[n] + 1
    BY <2>3
  <2> HIDE DEF TypeOK, IInv
  <2> QED
    BY <2>2, <2>3, <2>4
<1>2. ASSUME NEW l \in Link, GrantVote(l)
      PROVE  \E c \in Vote : /\ cast' = cast \cup {c}
                             /\ term[c.voter] < c.term /\ term'[c.voter] = c.term
  <2>1. PICK m : m = Head(net[l])
    OBVIOUS
  <2>2. PICK n \in Node : n = l[2]
    BY LinkAssumption
  <2>3. m.src \in Node /\ m.term \in Nat
    BY <1>2, <2>1, ReadMessage DEF GrantVote
  <2>4. PICK c : c = [voter |-> n, candidate |-> m.src, term |-> m.term]
    OBVIOUS
  <2>5. c \in Vote /\ c.voter = n /\ c.term = m.term
    BY <2>3, <2>4 DEF Vote
  <2>6. cast' = cast \cup {c} /\ term'[n] = m.term /\ term[n] < m.term
    BY <1>2, <2>1, <2>2, <2>4 DEF GrantVote, CanVote
  <2> QED
    BY <2>5, <2>6
<1>3. \/ cast' = cast
      \/ \E n \in Node : StartElection(n)
      \/ \E l \in Link : GrantVote(l)
  BY DEF Next, Update, UpdateMsg, AbandonElection, Heartbeat, Wait, CountVote, WinElection,
         FollowLeader, Ignore, vars, historyVars
<1> QED
  BY <1>1, <1>2, <1>3

\* While no term falls, nobody votes twice in a term.
LEMMA VotesStaySingle ==
    ASSUME IInv, IInv', OneVotePerTerm, [Next]_vars, [\A n \in Node : term'[n] >= term[n]]_vars
    PROVE  OneVotePerTerm'
<1>1. term \in [Node -> Nat] /\ term' \in [Node -> Nat] /\ cast \subseteq Vote
  BY DEF IInv, TypeOK
<1>2. \A n \in Node : term'[n] >= term[n]
  BY <1>1 DEF vars, nodeVars
<1>3. \A c \in cast : c.voter \in Node /\ c.term \in Nat
  BY <1>1 DEF Vote
<1>4. \A c \in cast : c.term <= term'[c.voter]
  <2> SUFFICES ASSUME NEW c \in cast PROVE c.term <= term'[c.voter]
    OBVIOUS
  <2>1. c.term <= term[c.voter] /\ term[c.voter] <= term'[c.voter]
    BY <1>2, <1>3 DEF OneVotePerTerm
  <2>2. c.term \in Nat /\ term[c.voter] \in Nat /\ term'[c.voter] \in Nat
    BY <1>1, <1>3
  <2> QED
    BY <2>1, <2>2
<1>5. CASE cast' = cast
  BY <1>4, <1>5 DEF OneVotePerTerm
<1>6. CASE \E c \in Vote : /\ cast' = cast \cup {c}
                           /\ term[c.voter] < c.term /\ term'[c.voter] = c.term
  <2>1. PICK c \in Vote : /\ cast' = cast \cup {c}
                          /\ term[c.voter] < c.term /\ term'[c.voter] = c.term
    BY <1>6
  <2>2. c.voter \in Node /\ c.term \in Nat /\ c.term <= term'[c.voter]
    BY <2>1 DEF Vote
  <2>3. \A b \in cast : b.voter = c.voter => b.term # c.term
    <3> SUFFICES ASSUME NEW b \in cast, b.voter = c.voter PROVE b.term # c.term
      OBVIOUS
    <3>1. b.term <= term[c.voter] /\ b.term \in Nat /\ term[c.voter] \in Nat
      BY <1>1, <1>3, <2>2 DEF OneVotePerTerm
    <3> QED
      BY <2>1, <2>2, <3>1
  <2> QED
    BY <1>4, <2>1, <2>2, <2>3 DEF OneVotePerTerm
<1> QED
  BY <1>5, <1>6, VotesAreNew

\* Old heartbeats are the only way to two leaders of a term (r_grouplead.cc
\* "cannot be two leader"): in a run in which no follower takes over an older
\* term, whatever is lost or late and whoever loses office, two components that
\* had the whole group in the vote never win the same term.
THEOREM SplitsNeedFallingTerms == Spec /\ TermsNeverFall => []OneFullVictoryPerTerm
<1>1. Init => OneVotePerTerm
  BY DEF Init, OneVotePerTerm
<1>2. IInv /\ IInv' /\ OneVotePerTerm /\ [Next]_vars /\ [\A n \in Node : term'[n] >= term[n]]_vars
      => OneVotePerTerm'
  BY VotesStaySingle
<1>3. SplitNeedsDoubleVote /\ OneVotePerTerm => OneFullVictoryPerTerm
  <2> SUFFICES ASSUME SplitNeedsDoubleVote, OneVotePerTerm, NEW v \in won, NEW w \in won,
                      v.term = w.term, v.leader # w.leader,
                      v.size >= Cardinality(Node), w.size >= Cardinality(Node)
               PROVE  FALSE
    BY DEF OneFullVictoryPerTerm
  <2>1. PICK x \in Node :
            /\ [voter |-> x, candidate |-> v.leader, term |-> v.term] \in cast
            /\ [voter |-> x, candidate |-> w.leader, term |-> w.term] \in cast
    BY DEF SplitNeedsDoubleVote
  <2> QED
    BY <2>1 DEF OneVotePerTerm
<1> QED
  BY <1>1, <1>2, <1>3, ElectionInvariant, SplitsNeedDoubleVotes, PTL DEF Spec, TermsNeverFall

\* A component stands for election in a term that it has not voted in, so also
\* not stood in, before.
StandsOncePerTerm ==
    [][\A n \in Node : state[n] = "FOLLOWER" /\ state'[n] = "CANDIDATE" =>
          \A c \in cast : c.voter = n => c.term # term'[n]]_vars

\* "save the timestamp to filter possibly old votes" (r_grouplead.cc:74): the
\* timestamps are never read, but in a run in which no follower takes over an
\* older term nobody stands twice in one term, so that every vote that counts
\* (VotesAreReal) answers the present candidacy.
THEOREM OldVotesNeedFallingTerms == Spec /\ TermsNeverFall => StandsOncePerTerm
<1>1. Init => OneVotePerTerm
  BY DEF Init, OneVotePerTerm
<1>2. IInv /\ IInv' /\ OneVotePerTerm /\ [Next]_vars /\ [\A n \in Node : term'[n] >= term[n]]_vars
      => OneVotePerTerm'
  BY VotesStaySingle
<1>3. IInv /\ OneVotePerTerm /\ [Next]_vars
      => [\A n \in Node : state[n] = "FOLLOWER" /\ state'[n] = "CANDIDATE" =>
             \A c \in cast : c.voter = n => c.term # term'[n]]_vars
  <2> SUFFICES ASSUME IInv, OneVotePerTerm, Next, NEW n \in Node,
                      state[n] = "FOLLOWER", state'[n] = "CANDIDATE",
                      NEW c \in cast, c.voter = n
               PROVE  c.term # term'[n]
    OBVIOUS
  <2>1. /\ term \in [Node -> Nat] /\ state \in [Node -> NodeState]
        /\ c.term \in Nat /\ c.term <= term[n]
    BY DEF IInv, TypeOK, OneVotePerTerm, Vote
  <2>2. StartElection(n)
    BY <2>1 DEF Next, Update, UpdateMsg, StartElection, AbandonElection, Heartbeat, Wait,
           GrantVote, CountVote, WinElection, FollowLeader, Ignore, vars, nodeVars
  <2>3. term'[n] = term[n] + 1
    BY <2>1, <2>2 DEF StartElection
  <2> QED
    BY <2>1, <2>3
<1> QED
  BY <1>1, <1>2, <1>3, ElectionInvariant, PTL DEF Spec, TermsNeverFall, StandsOncePerTerm

-----------------------------------------------------------------------------
\* A leader's term is fixed while it is in office, and it leaves the office for
\* a higher term only.
THEOREM LeadersYieldUpwards == Spec => LeaderYieldsUpwards
<1> DEFINE Yields(n) == state[n] = "LEADER" =>
               \/ state'[n] = "LEADER" /\ term'[n] = term[n]
               \/ state'[n] = "FOLLOWER" /\ term'[n] > term[n]
<1>1. IInv /\ [Next]_vars => [\A n \in Node : Yields(n)]_vars
  <2> SUFFICES ASSUME IInv, Next, NEW n \in Node, state[n] = "LEADER"
               PROVE  \/ state'[n] = "LEADER" /\ term'[n] = term[n]
                      \/ state'[n] = "FOLLOWER" /\ term'[n] > term[n]
    OBVIOUS
  <2> USE DEF IInv, TypeOK
  <2>1. ASSUME NEW k \in Node, Update(k)
        PROVE  state'[n] = "LEADER" /\ term'[n] = term[n]
    BY <2>1 DEF Update, StartElection, AbandonElection, Heartbeat, Wait, vars, nodeVars
  <2>2. ASSUME NEW l \in Link, UpdateMsg(l)
        PROVE  \/ state'[n] = "LEADER" /\ term'[n] = term[n]
               \/ state'[n] = "FOLLOWER" /\ term'[n] > term[n]
    <3>1. Readable(net, l)
      BY <2>2 DEF UpdateMsg, GrantVote, CountVote, WinElection, FollowLeader, Ignore
    <3>2. l[2] \in Node /\ Head(net[l]).term \in Nat /\ term[l[2]] \in Nat
      BY <3>1, ReadMessage
    <3>3. CASE GrantVote(l)
      BY <3>2, <3>3 DEF GrantVote, CanVote
    <3>4. CASE CountVote(l) \/ Ignore(l)
      BY <3>4 DEF CountVote, Ignore, nodeVars
    <3>5. CASE WinElection(l)
      BY <3>2, <3>5 DEF WinElection
    <3>6. CASE FollowLeader(l)
      BY <3>2, <3>6 DEF FollowLeader, Follows, GivesWay
    <3> QED
      BY <2>2, <3>3, <3>4, <3>5, <3>6 DEF UpdateMsg
  <2> QED
    BY <2>1, <2>2 DEF Next
<1> QED
  BY ElectionInvariant, <1>1, PTL DEF Spec, LeaderYieldsUpwards

\* A term falls only in a follower that obeys a heartbeat of that older term,
\* from its winner.
THEOREM TermsFallBehindLeaders == Spec => TermFallsOnlyBehindALeader
<1> DEFINE Falls(n) == term'[n] < term[n] =>
               /\ state[n] = "FOLLOWER" /\ state'[n] = "FOLLOWER"
               /\ \E w \in won : w.leader = leaderId'[n] /\ w.term = term'[n]
<1>1. IInv /\ [Next]_vars => [\A n \in Node : Falls(n)]_vars
  <2> SUFFICES ASSUME IInv, Next, NEW n \in Node, term'[n] < term[n]
               PROVE  /\ state[n] = "FOLLOWER" /\ state'[n] = "FOLLOWER"
                      /\ \E w \in won : w.leader = leaderId'[n] /\ w.term = term'[n]
    OBVIOUS
  <2> USE DEF IInv, TypeOK
  <2>0. term[n] \in Nat
    OBVIOUS
  <2>1. ASSUME NEW k \in Node, Update(k)
        PROVE  FALSE
    <3>1. term' = term \/ term' = [term EXCEPT ![k] = @ + 1]
      BY <2>1 DEF Update, StartElection, AbandonElection, Heartbeat, Wait, vars, nodeVars
    <3> QED BY <2>0, <3>1
  <2>2. ASSUME NEW l \in Link, UpdateMsg(l)
        PROVE  /\ state[n] = "FOLLOWER" /\ state'[n] = "FOLLOWER"
               /\ \E w \in won : w.leader = leaderId'[n] /\ w.term = term'[n]
    <3>1. Readable(net, l)
      BY <2>2 DEF UpdateMsg, GrantVote, CountVote, WinElection, FollowLeader, Ignore
    <3>2. /\ l[2] \in Node /\ Head(net[l]).term \in Nat /\ term[l[2]] \in Nat
          /\ Told(Head(net[l]))
      BY <3>1, ReadMessage
    <3>3. CASE GrantVote(l)
      BY <2>0, <3>2, <3>3 DEF GrantVote, CanVote
    <3>4. CASE CountVote(l) \/ Ignore(l) \/ WinElection(l)
      BY <2>0, <3>4 DEF CountVote, Ignore, WinElection, nodeVars
    <3>5. CASE FollowLeader(l)
      BY <2>0, <3>2, <3>5 DEF FollowLeader, Follows, GivesWay, Told
    <3> QED
      BY <2>2, <3>3, <3>4, <3>5 DEF UpdateMsg
  <2> QED
    BY <2>1, <2>2 DEF Next
<1> QED
  BY ElectionInvariant, <1>1, PTL DEF Spec, TermFallsOnlyBehindALeader

-----------------------------------------------------------------------------
(***************************************************************************)
(* The election implements the abstract leader role, on which Consensus is *)
(* built.  The mapping is RoleOf and the set of all winners.  It needs the *)
(* same invariant: a candidate names no leader and a leader names itself,  *)
(* so that losing the office is a Depose and winning it an Elect; and a    *)
(* heartbeat on the connection of a component to itself was sent by that   *)
(* component after a victory, so that following it is an Echo.             *)
(***************************************************************************)
Roles == [n \in Node |-> RoleOf(n)]
Served == {w.leader : w \in won}

\* A step that touches the state and the leader id of n only.
LEMMA OneRoleChanges ==
    ASSUME NEW n \in Node,
           \A k \in Node \ {n} : state'[k] = state[k] /\ leaderId'[k] = leaderId[k]
    PROVE  /\ Roles' = [Roles EXCEPT ![n] = RoleOf(n)']
           /\ RoleOf(n)' = RoleOf(n) => Roles' = Roles
<1>1. \A k \in Node \ {n} : RoleOf(k)' = RoleOf(k)
  BY DEF RoleOf
<1> QED
  BY <1>1 DEF Roles

\* The initial states map to initial states.
LEMMA InitRefines == Init => L!LeadershipInit
<1> SUFFICES ASSUME Init PROVE L!LeadershipInit
  OBVIOUS
<1>1. \A n \in Node : RoleOf(n) = "none"
  BY NilAssumption DEF Init, RoleOf
<1> QED
  BY <1>1 DEF Init, L!LeadershipInit

\* What the steps of the abstract specification look like here.
LEMMA AbstractSteps ==
    ASSUME NEW n \in Node
    PROVE  /\ /\ RoleOf(n) = "none" /\ Roles' = [Roles EXCEPT ![n] = "office"]
              /\ Served' = Served \cup {n}
              => L!LeadershipNext
           /\ /\ RoleOf(n) = "office" /\ Roles' = [Roles EXCEPT ![n] = "ghost"]
              /\ Served' = Served
              => L!LeadershipNext
           /\ /\ RoleOf(n) \in {"office", "ghost"}
              /\ Roles' = [Roles EXCEPT ![n] = "none"]
              /\ Served' = Served
              => L!LeadershipNext
           /\ /\ <<n, n>> \in Link /\ n \in Served
              /\ RoleOf(n) = "none" /\ Roles' = [Roles EXCEPT ![n] = "ghost"]
              /\ Served' = Served
              => L!LeadershipNext
           /\ Roles' = Roles /\ Served' = Served => UNCHANGED L!leadershipVars
<1>1. Roles[n] = RoleOf(n)
  BY DEF Roles
<1>2. ASSUME RoleOf(n) = "none", Roles' = [Roles EXCEPT ![n] = "office"],
             Served' = Served \cup {n}
      PROVE  L!Elect(n)
  BY <1>1, <1>2 DEF L!Elect, Roles, Served
<1>3. ASSUME RoleOf(n) = "office", Roles' = [Roles EXCEPT ![n] = "ghost"],
             Served' = Served
      PROVE  L!Depose(n)
  BY <1>1, <1>3 DEF L!Depose, Roles, Served
<1>4. ASSUME RoleOf(n) \in {"office", "ghost"}, Roles' = [Roles EXCEPT ![n] = "none"],
             Served' = Served
      PROVE  L!Resign(n)
  BY <1>1, <1>4 DEF L!Resign, L!IsLeader, Roles, Served
<1>5. ASSUME <<n, n>> \in Link, n \in Served, RoleOf(n) = "none",
             Roles' = [Roles EXCEPT ![n] = "ghost"], Served' = Served
      PROVE  L!Echo(n)
  BY <1>1, <1>5 DEF L!Echo, L!SelfLinked, Roles, Served
<1>6. Roles' = Roles /\ Served' = Served => UNCHANGED L!leadershipVars
  BY DEF L!leadershipVars, Roles, Served
<1> QED
  BY <1>2, <1>3, <1>4, <1>5, <1>6 DEF L!LeadershipNext

\* Update(): standing for election gives up the leader role, the other steps
\* leave the roles alone.
LEMMA UpdateRefines ==
    ASSUME IInv, NEW n \in Node, Update(n)
    PROVE  L!LeadershipNext \/ UNCHANGED L!leadershipVars
<1> USE NilAssumption DEF IInv, TypeOK
<1>1. won' = won /\ Served' = Served
  BY DEF Update, StartElection, AbandonElection, Heartbeat, Wait, vars, historyVars, Served
<1>2. CASE StartElection(n)
  <2>1. Roles' = [Roles EXCEPT ![n] = RoleOf(n)']
    BY <1>2, OneRoleChanges DEF StartElection
  <2>2. RoleOf(n)' = "none"
    BY <1>2 DEF StartElection, RoleOf
  <2>3. RoleOf(n) \in {"none", "ghost"}
    BY <1>2 DEF StartElection, RoleOf
  <2>4. RoleOf(n) = "none" => Roles' = Roles
    BY <1>2, <2>2, OneRoleChanges DEF StartElection
  <2> QED
    BY <1>1, <2>1, <2>2, <2>3, <2>4, AbstractSteps
<1>3. CASE AbandonElection(n)
  <2>1. Roles' = [Roles EXCEPT ![n] = RoleOf(n)']
    BY <1>3, OneRoleChanges DEF AbandonElection
  <2>2. leaderId'[n] = leaderId[n] /\ leaderId[n] # n
    BY <1>3 DEF AbandonElection, LeadersAreElected
  <2>3. RoleOf(n)' = RoleOf(n)
    BY <1>3, <2>2 DEF AbandonElection, RoleOf
  <2>4. Roles' = Roles
    BY <2>1, <2>3 DEF Roles
  <2> QED
    BY <1>1, <2>4, AbstractSteps
<1>4. CASE Heartbeat(n) \/ Wait(n)
  <2>1. state' = state /\ leaderId' = leaderId
    BY <1>4 DEF Heartbeat, Wait, vars, nodeVars, LeadersAreElected
  <2>2. Roles' = Roles
    BY <2>1 DEF Roles, RoleOf
  <2> QED
    BY <1>1, <2>2, AbstractSteps
<1> QED
  BY <1>2, <1>3, <1>4 DEF Update

\* Update(msg): a granted vote deposes a leader, a majority elects one, a
\* heartbeat makes it resign, or be its own echo.
LEMMA UpdateMsgRefines ==
    ASSUME IInv, NEW l \in Link, UpdateMsg(l)
    PROVE  L!LeadershipNext \/ UNCHANGED L!leadershipVars
<1> USE NilAssumption DEF IInv, TypeOK
<1> DEFINE n == l[2]
           m == Head(net[l])
<1>1. Readable(net, l)
  BY DEF UpdateMsg, GrantVote, CountVote, WinElection, FollowLeader, Ignore
<1>2. n \in Node /\ m.src = l[1] /\ m.src \in Node /\ Told(m)
  BY <1>1, ReadMessage
<1>3. ~ WinElection(l) => won' = won /\ Served' = Served
  BY DEF UpdateMsg, GrantVote, CountVote, FollowLeader, Ignore, historyVars, Served
<1>4. CASE GrantVote(l)
  <2>1. state'[n] = "FOLLOWER" /\ leaderId' = leaderId /\ won' = won
    BY <1>2, <1>4 DEF GrantVote
  <2>2. \A k \in Node \ {n} : state'[k] = state[k]
    BY <1>4 DEF GrantVote
  <2>3. Roles' = [Roles EXCEPT ![n] = RoleOf(n)'] /\ Served' = Served
    BY <1>2, <2>1, <2>2, OneRoleChanges DEF Served
  <2>4. CASE state[n] = "LEADER"
    <3>1. RoleOf(n) = "office" /\ RoleOf(n)' = "ghost"
      BY <1>2, <2>1, <2>4 DEF RoleOf, LeadersAreElected
    <3> QED
      BY <1>2, <2>3, <3>1, AbstractSteps
  <2>5. CASE state[n] # "LEADER"
    <3>1. RoleOf(n)' = RoleOf(n)
      BY <2>1, <2>5 DEF RoleOf
    <3>2. Roles' = Roles
      BY <1>2, <2>3, <3>1 DEF Roles
    <3> QED
      BY <1>2, <2>3, <3>2, AbstractSteps
  <2> QED BY <2>4, <2>5
<1>5. CASE CountVote(l) \/ Ignore(l)
  <2>1. state' = state /\ leaderId' = leaderId /\ won' = won
    BY <1>5 DEF CountVote, Ignore, nodeVars, historyVars
  <2>2. Roles' = Roles /\ Served' = Served
    BY <2>1 DEF Roles, RoleOf, Served
  <2> QED
    BY <1>2, <2>2, AbstractSteps
<1>6. CASE WinElection(l)
  <2>1. /\ state[n] = "CANDIDATE" /\ leaderId[n] # n
        /\ state'[n] = "LEADER"
    BY <1>2, <1>6 DEF WinElection, Counts, LeadersAreElected
  <2>2. \A k \in Node \ {n} : state'[k] = state[k] /\ leaderId'[k] = leaderId[k]
    BY <1>6 DEF WinElection
  <2>3. RoleOf(n) = "none" /\ RoleOf(n)' = "office"
    BY <2>1 DEF RoleOf
  <2>4. Roles' = [Roles EXCEPT ![n] = "office"]
    BY <1>2, <2>2, <2>3, OneRoleChanges
  <2>5. Served' = Served \cup {n}
    <3> DEFINE v == [leader |-> n, term |-> term[n],
                     voters |-> votes[n] \cup {m.src}, size |-> nodesInVote[n]]
    <3>1. won' = won \cup {v}
      BY <1>6 DEF WinElection
    <3>2. v.leader = n
      OBVIOUS
    <3> HIDE DEF v
    <3> QED
      BY <3>1, <3>2 DEF Served
  <2> QED
    BY <1>2, <2>3, <2>4, <2>5, AbstractSteps
<1>7. CASE FollowLeader(l)
  <2>1. /\ state'[n] = "FOLLOWER" /\ leaderId'[n] = m.src
        /\ m.type = "AppendEntry"
    BY <1>2, <1>7 DEF FollowLeader, Follows, GivesWay
  <2>2. \A k \in Node \ {n} : state'[k] = state[k] /\ leaderId'[k] = leaderId[k]
    BY <1>7 DEF FollowLeader
  <2>3. Served' = Served
    BY <1>7 DEF FollowLeader, historyVars, Served
  <2>4. Roles' = [Roles EXCEPT ![n] = RoleOf(n)'] /\ Roles[n] = RoleOf(n)
    BY <1>2, <2>2, OneRoleChanges DEF Roles
  <2>5. RoleOf(n) \in {"none", "office", "ghost"}
    BY DEF RoleOf
  <2>6. CASE m.src = n
    <3>1. RoleOf(n)' = "ghost"
      BY <2>1, <2>6 DEF RoleOf
    <3>2. <<n, n>> \in Link
      <4>1. l = <<l[1], l[2]>>
        BY LinkAssumption
      <4> QED BY <1>2, <2>6, <4>1
    <3>3. n \in Served
      BY <1>2, <2>1, <2>6 DEF Told, Served
    <3>4. RoleOf(n) = "ghost" => Roles' = Roles
      BY <1>2, <2>2, <3>1, OneRoleChanges
    <3> QED
      BY <1>2, <2>3, <2>4, <2>5, <3>1, <3>2, <3>3, <3>4, AbstractSteps
  <2>7. CASE m.src # n
    <3>1. RoleOf(n)' = "none"
      BY <2>1, <2>7 DEF RoleOf
    <3>2. RoleOf(n) = "none" => Roles' = Roles
      BY <1>2, <2>2, <3>1, OneRoleChanges
    <3> QED
      BY <1>2, <2>3, <2>4, <2>5, <3>1, <3>2, AbstractSteps
  <2> QED BY <2>6, <2>7
<1> QED
  BY <1>4, <1>5, <1>6, <1>7 DEF UpdateMsg

\* Every behaviour of the election is one of the abstract leader role.
THEOREM ElectionImplementsLeadership == Spec => ImplementsLeadership
<1>1. IInv /\ [Next]_vars => [L!LeadershipNext]_(L!leadershipVars)
  <2> SUFFICES ASSUME IInv, [Next]_vars
               PROVE  L!LeadershipNext \/ UNCHANGED L!leadershipVars
    OBVIOUS
  <2>1. CASE UNCHANGED vars
    BY <2>1 DEF vars, nodeVars, historyVars, L!leadershipVars, RoleOf
  <2>2. CASE \E n \in Node : Update(n)
    BY <2>2, UpdateRefines
  <2>3. CASE \E l \in Link : UpdateMsg(l)
    BY <2>3, UpdateMsgRefines
  <2> QED
    BY <2>1, <2>2, <2>3 DEF Next
<1> QED
  BY ElectionInvariant, InitRefines, <1>1, PTL
     DEF Spec, ImplementsLeadership, L!LeadershipSpec
=============================================================================

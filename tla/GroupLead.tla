----------------------------- MODULE GroupLead ------------------------------
(***************************************************************************)
(* The leader election of a group: class GroupLead (r_grouplead.cc), as    *)
(* driven by Group::FetchNextMessage (r_group.cc), one instance in each    *)
(* component of the group.                                                 *)
(*                                                                         *)
(* Each action is one return of FetchNextMessage: either nothing was       *)
(* readable and GroupLead::Update() runs, or one message was read from the *)
(* internal subscriber port and GroupLead::Update(msg) runs.               *)
(*                                                                         *)
(* Timers.  m_electionTimeout and m_appEntryTimeout only decide WHEN       *)
(* Update() acts.  Here they may have expired at any time, which contains  *)
(* every timing of the code; what they do measure is in ElectionTimer.     *)
(*                                                                         *)
(* Members.  GetMemberCount() is whatever the ping/pong exchange has left  *)
(* in known_nodes_ at that moment: any member of MemberCounts.             *)
(***************************************************************************)
EXTENDS GroupPorts

CONSTANTS
    MemberCounts,  \* the values GetMemberCount() may return
    Nil,           \* the empty leader id
    MaxTerm        \* bound: no election is started beyond this term

ASSUME NilAssumption   == Nil \notin Node
ASSUME CountAssumption == MemberCounts \subseteq Nat
ASSUME TermAssumption  == MaxTerm \in Nat

VARIABLES
    state,        \* m_currentState
    term,         \* m_electionTerm
    leaderId,     \* m_leaderId
    nodesInVote,  \* m_numberOfNodesInVote
    votes,        \* keys of m_votes
    net,          \* net[l]: what is in flight from publisher l[1] to subscriber l[2]
    cast,         \* history: every vote ever given, the candidates' own included
    won           \* history: every election ever won

nodeVars == <<state, term, leaderId, nodesInVote, votes>>
historyVars == <<cast, won>>
vars == <<nodeVars, net, historyVars>>

-----------------------------------------------------------------------------
NodeState == {"FOLLOWER", "CANDIDATE", "LEADER"}

Vote == [voter : Node, candidate : Node, term : Nat]
Victory == [leader : Node, term : Nat, voters : SUBSET Node, size : Nat]

Message ==
         [type : {"RequestForVoteReq"}, src : Node, term : Nat]
    \cup [type : {"RequestForVoteRep"}, src : Node, term : Nat, voteFor : Node]
    \cup [type : {"AppendEntry"}, src : Node, term : Nat]

RequestForVote(n, t) == [type |-> "RequestForVoteReq", src |-> n, term |-> t]
VoteFor(n, c, t) == [type |-> "RequestForVoteRep", src |-> n, term |-> t, voteFor |-> c]
AppendEntry(n, t) == [type |-> "AppendEntry", src |-> n, term |-> t]

-----------------------------------------------------------------------------
\* The number of votes that elects, out of k nodes in the vote.
Majority(k) == IF k % 2 = 0 THEN (k \div 2) + 1 ELSE (k + 1) \div 2

\* Mutant of CanVote: the term of the request is not checked.
CanVoteAnyTerm(n, m) ==
    /\ m.type = "RequestForVoteReq"
    /\ state[n] = "FOLLOWER" => m.src # n

\* A request is granted when its term is new to n.  Only a follower also
\* checks that the request is not its own.
CanVote(n, m) ==
    /\ m.type = "RequestForVoteReq"
    /\ term[n] < m.term
    /\ state[n] = "FOLLOWER" => m.src # n

\* Mutant of Counts: votes of earlier terms are counted.
CountsAnyTerm(n, m) ==
    /\ m.type = "RequestForVoteRep"
    /\ state[n] = "CANDIDATE"
    /\ m.src # n /\ m.voteFor = n

\* Mutant of Counts: votes given to other candidates are counted.
CountsAnyCandidate(n, m) ==
    /\ m.type = "RequestForVoteRep"
    /\ state[n] = "CANDIDATE"
    /\ m.src # n /\ m.term = term[n]

\* The votes a candidate counts.
Counts(n, m) ==
    /\ m.type = "RequestForVoteRep"
    /\ state[n] = "CANDIDATE"
    /\ m.src # n /\ m.term = term[n] /\ m.voteFor = n

\* Heartbeats that a follower obeys (whatever their term), and those that make
\* a leader give way.  A candidate obeys none.
Follows(n, m) == m.type = "AppendEntry" /\ state[n] = "FOLLOWER"

GivesWay(n, m) ==
    m.type = "AppendEntry" /\ state[n] = "LEADER" /\ m.term > term[n]

-----------------------------------------------------------------------------
Init ==
    /\ state = [n \in Node |-> "FOLLOWER"]
    /\ term = [n \in Node |-> 0]
    /\ leaderId = [n \in Node |-> Nil]
    /\ nodesInVote = [n \in Node |-> 0]
    /\ votes = [n \in Node |-> {}]
    /\ net = EmptyNet
    /\ cast = {}
    /\ won = {}

(* Update(), the poller was idle.                                          *)

\* Mutant of StartElection: the old leader is not forgotten.
StartElectionKeepsLeader(n) ==
    /\ state[n] = "FOLLOWER"
    /\ term[n] < MaxTerm
    /\ state' = [state EXCEPT ![n] = "CANDIDATE"]
    /\ UNCHANGED leaderId
    /\ \E k \in MemberCounts : nodesInVote' = [nodesInVote EXCEPT ![n] = k + 1]
    /\ term' = [term EXCEPT ![n] = @ + 1]
    /\ votes' = [votes EXCEPT ![n] = {n}]
    /\ cast' = cast \cup {[voter |-> n, candidate |-> n, term |-> term[n] + 1]}
    /\ \E ls \in Reached(net, n) :
           net' = Publish(net, ls, RequestForVote(n, term[n] + 1))
    /\ UNCHANGED won

\* Mutant of StartElection: the first vote goes to the leader known so far.
StartElectionForLeader(n) ==
    /\ state[n] = "FOLLOWER"
    /\ term[n] < MaxTerm
    /\ state' = [state EXCEPT ![n] = "CANDIDATE"]
    /\ leaderId' = [leaderId EXCEPT ![n] = Nil]
    /\ \E k \in MemberCounts : nodesInVote' = [nodesInVote EXCEPT ![n] = k + 1]
    /\ term' = [term EXCEPT ![n] = @ + 1]
    /\ votes' = [votes EXCEPT ![n] = {leaderId[n]}]
    /\ cast' = cast \cup {[voter |-> n, candidate |-> n, term |-> term[n] + 1]}
    /\ \E ls \in Reached(net, n) :
           net' = Publish(net, ls, RequestForVote(n, term[n] + 1))
    /\ UNCHANGED won

\* Mutant of StartElection: the candidate already takes itself for the leader.
StartElectionAsLeader(n) ==
    /\ state[n] = "FOLLOWER"
    /\ term[n] < MaxTerm
    /\ state' = [state EXCEPT ![n] = "CANDIDATE"]
    /\ leaderId' = [leaderId EXCEPT ![n] = n]
    /\ \E k \in MemberCounts : nodesInVote' = [nodesInVote EXCEPT ![n] = k + 1]
    /\ term' = [term EXCEPT ![n] = @ + 1]
    /\ votes' = [votes EXCEPT ![n] = {n}]
    /\ cast' = cast \cup {[voter |-> n, candidate |-> n, term |-> term[n] + 1]}
    /\ \E ls \in Reached(net, n) :
           net' = Publish(net, ls, RequestForVote(n, term[n] + 1))
    /\ UNCHANGED won

\* FOLLOWER and the election timer has expired: become a candidate, vote for
\* itself, ask the others.
StartElection(n) ==
    /\ state[n] = "FOLLOWER"
    /\ term[n] < MaxTerm
    /\ state' = [state EXCEPT ![n] = "CANDIDATE"]
    /\ leaderId' = [leaderId EXCEPT ![n] = Nil]
    /\ \E k \in MemberCounts : nodesInVote' = [nodesInVote EXCEPT ![n] = k + 1]
    /\ term' = [term EXCEPT ![n] = @ + 1]
    /\ votes' = [votes EXCEPT ![n] = {n}]
    /\ cast' = cast \cup {[voter |-> n, candidate |-> n, term |-> term[n] + 1]}
    /\ \E ls \in Reached(net, n) :
           net' = Publish(net, ls, RequestForVote(n, term[n] + 1))
    /\ UNCHANGED won

\* CANDIDATE and the election timer has expired: back to FOLLOWER.
AbandonElection(n) ==
    /\ state[n] = "CANDIDATE"
    /\ state' = [state EXCEPT ![n] = "FOLLOWER"]
    /\ UNCHANGED <<term, leaderId, nodesInVote, votes, net, historyVars>>

\* LEADER and the heartbeat timer has expired.
Heartbeat(n) ==
    /\ state[n] = "LEADER"
    /\ leaderId' = [leaderId EXCEPT ![n] = n]
    /\ \E ls \in Reached(net, n) : net' = Publish(net, ls, AppendEntry(n, term[n]))
    /\ UNCHANGED <<state, term, nodesInVote, votes, historyVars>>

\* FOLLOWER or CANDIDATE and the election timer has not expired: Update()
\* returns.
Wait(n) == state[n] # "LEADER" /\ UNCHANGED vars

(* Update(msg), the first message on link l was read by n = l[2].          *)

\* Mutant of GrantVote: the candidate is taken for the leader already.
GrantVoteFollows(l) ==
    LET n == l[2]
        m == Head(net[l]) IN
    /\ Readable(net, l)
    /\ CanVote(n, m)
    /\ state' = [state EXCEPT ![n] = "FOLLOWER"]
    /\ leaderId' = [leaderId EXCEPT ![n] = m.src]
    /\ term' = [term EXCEPT ![n] = m.term]
    /\ cast' = cast \cup {[voter |-> n, candidate |-> m.src, term |-> m.term]}
    /\ \E ls \in Reached(Consume(net, l), n) :
           net' = Publish(Consume(net, l), ls, VoteFor(n, m.src, m.term))
    /\ UNCHANGED <<nodesInVote, votes, won>>

\* A follower votes; a candidate or leader steps down and votes.  The test
\* that should clear the leader id of a deposed leader runs after the state
\* was overwritten, so it never succeeds: leaderId is left alone.
GrantVote(l) ==
    LET n == l[2]
        m == Head(net[l]) IN
    /\ Readable(net, l)
    /\ CanVote(n, m)
    /\ state' = [state EXCEPT ![n] = "FOLLOWER"]
    /\ term' = [term EXCEPT ![n] = m.term]
    /\ cast' = cast \cup {[voter |-> n, candidate |-> m.src, term |-> m.term]}
    /\ \E ls \in Reached(Consume(net, l), n) :
           net' = Publish(Consume(net, l), ls, VoteFor(n, m.src, m.term))
    /\ UNCHANGED <<leaderId, nodesInVote, votes, won>>

\* A vote arrives and there is no majority yet.
CountVote(l) ==
    LET n == l[2]
        m == Head(net[l])
        counted == votes[n] \cup {m.src} IN
    /\ Readable(net, l)
    /\ Counts(n, m)
    /\ Cardinality(counted) < Majority(nodesInVote[n])
    /\ votes' = [votes EXCEPT ![n] = counted]
    /\ net' = Consume(net, l)
    /\ UNCHANGED <<state, term, leaderId, nodesInVote, historyVars>>

\* The vote that makes the majority: LEADER, and the first heartbeat.
WinElection(l) ==
    LET n == l[2]
        m == Head(net[l])
        counted == votes[n] \cup {m.src} IN
    /\ Readable(net, l)
    /\ Counts(n, m)
    /\ Majority(nodesInVote[n]) <= Cardinality(counted)
    /\ votes' = [votes EXCEPT ![n] = counted]
    /\ state' = [state EXCEPT ![n] = "LEADER"]
    /\ leaderId' = [leaderId EXCEPT ![n] = n]
    /\ won' = won \cup {[leader |-> n, term |-> term[n],
                         voters |-> counted, size |-> nodesInVote[n]]}
    /\ \E ls \in Reached(Consume(net, l), n) :
           net' = Publish(Consume(net, l), ls, AppendEntry(n, term[n]))
    /\ UNCHANGED <<term, nodesInVote, cast>>

\* A follower adopts the sender as its leader and the sender's term, even a
\* smaller one; a leader gives way to a higher term in the same fashion.
FollowLeader(l) ==
    LET n == l[2]
        m == Head(net[l]) IN
    /\ Readable(net, l)
    /\ Follows(n, m) \/ GivesWay(n, m)
    /\ state' = [state EXCEPT ![n] = "FOLLOWER"]
    /\ term' = [term EXCEPT ![n] = m.term]
    /\ leaderId' = [leaderId EXCEPT ![n] = m.src]
    /\ net' = Consume(net, l)
    /\ UNCHANGED <<nodesInVote, votes, historyVars>>

\* No branch of Update(msg) takes the message.
Ignore(l) ==
    LET n == l[2]
        m == Head(net[l]) IN
    /\ Readable(net, l)
    /\ ~ (CanVote(n, m) \/ Counts(n, m) \/ Follows(n, m) \/ GivesWay(n, m))
    /\ net' = Consume(net, l)
    /\ UNCHANGED <<nodeVars, historyVars>>

Update(n) == StartElection(n) \/ AbandonElection(n) \/ Heartbeat(n) \/ Wait(n)

UpdateMsg(l) ==
    GrantVote(l) \/ CountVote(l) \/ WinElection(l) \/ FollowLeader(l) \/ Ignore(l)

Next == (\E n \in Node : Update(n)) \/ (\E l \in Link : UpdateMsg(l))

Spec == Init /\ [][Next]_vars

-----------------------------------------------------------------------------
(* What holds.                                                             *)

TypeOK ==
    /\ state \in [Node -> NodeState]
    /\ term \in [Node -> Nat]
    /\ leaderId \in [Node -> Node \cup {Nil}]
    /\ nodesInVote \in [Node -> Nat]
    /\ votes \in [Node -> SUBSET Node]
    /\ net \in [Link -> Seq(Message)]
    /\ cast \subseteq Vote
    /\ won \subseteq Victory

\* Every vote in m_votes of a candidate or a leader was given to it, by that
\* component, in its current term: no reordering of requests, late votes and
\* term changes makes a vote of another term or for another candidate count.
\* It need not answer the present candidacy.  The timestamps saved "to filter
\* possibly old votes" (r_grouplead.cc:74) are never read: after its term fell, a
\* component that stands again in the same term counts late votes of the first
\* time.  While no term falls there is one candidacy per term, and the term is
\* filter enough (OldVotesNeedFallingTerms in GroupLeadProofs).
VotesAreReal ==
    \A n \in Node : state[n] # "FOLLOWER" =>
        \A v \in votes[n] : [voter |-> v, candidate |-> n, term |-> term[n]] \in cast

\* A component in the LEADER state won an election in its present term and
\* names itself as the leader; a candidate names nobody, so that
\* ProposeValueToLeader refuses to send during an election.
LeadersAreElected ==
    \A n \in Node :
        /\ state[n] = "LEADER" =>
               /\ leaderId[n] = n
               /\ \E w \in won : w.leader = n /\ w.term = term[n]
        /\ state[n] = "CANDIDATE" => leaderId[n] = Nil

\* Every election ever won was won with the votes of more than half of the
\* nodes that the winner knew of when it started the election.
VictoriesAreMajorities ==
    \A w \in won :
        /\ 2 * Cardinality(w.voters) > w.size
        /\ \A v \in w.voters :
               [voter |-> v, candidate |-> w.leader, term |-> w.term] \in cast

\* Whoever a component takes for its leader has won an election.
FollowsOnlyElected ==
    \A n \in Node : leaderId[n] # Nil => \E w \in won : w.leader = leaderId[n]

\* Two components that win the same term, both knowing the whole group, share
\* a voter that voted for both.  One leader per term thus rests on the rule
\* "one vote per term" alone (and that rule is broken: see OneLeaderPerTerm).
SplitNeedsDoubleVote ==
    \A v, w \in won :
        /\ v.term = w.term /\ v.leader # w.leader
        /\ v.size >= Cardinality(Node) /\ w.size >= Cardinality(Node)
        => \E x \in Node :
               /\ [voter |-> x, candidate |-> v.leader, term |-> v.term] \in cast
               /\ [voter |-> x, candidate |-> w.leader, term |-> w.term] \in cast

\* A leader keeps its term for as long as it is in office, and leaves it only
\* for a strictly higher term.
LeaderYieldsUpwards ==
    [][\A n \in Node : state[n] = "LEADER" =>
          \/ state'[n] = "LEADER" /\ term'[n] = term[n]
          \/ state'[n] = "FOLLOWER" /\ term'[n] > term[n]]_vars

\* A term can only fall in a follower that obeys an old heartbeat, and that
\* follower then names the old leader: no vote, candidacy or victory of the
\* same step can rest on a fallen term.
TermFallsOnlyBehindALeader ==
    [][\A n \in Node : term'[n] < term[n] =>
          /\ state[n] = "FOLLOWER" /\ state'[n] = "FOLLOWER"
          /\ \E w \in won : w.leader = leaderId'[n] /\ w.term = term'[n]]_vars

\* The role each component plays in the abstract specification.
RoleOf(n) ==
    IF state[n] = "LEADER" THEN "office"
    ELSE IF leaderId[n] = n THEN "ghost" ELSE "none"

L == INSTANCE Leadership WITH
        role <- [n \in Node |-> RoleOf(n)],
        served <- {w.leader : w \in won}

\* The election implements the abstract leader role, on which Consensus is
\* built.
ImplementsLeadership == L!LeadershipSpec

-----------------------------------------------------------------------------
(* What the source says and does not hold.                                 *)

\* r_grouplead.cc:241 "Something went wrong, cannot be two leader": no two
\* components ever win the same term.
OneLeaderPerTerm ==
    \A v, w \in won : v.term = w.term => v.leader = w.leader
=============================================================================

----------------------------- MODULE Consensus ------------------------------
(***************************************************************************)
(* Voting on proposed values and time-synchronised actions: the consensus  *)
(* branch of Group::FetchNextMessage (r_group.cc) and the proposal tables  *)
(* of GroupLead (r_grouplead.cc).  Who leads is the abstract role of       *)
(* module Leadership, which the election implements: several components    *)
(* may act as the leader at a time.                                        *)
(*                                                                         *)
(* A member proposes by publishing ProposeToLeader.  Whoever takes itself  *)
(* for the leader opens a vote, publishes ProposeToClients, counts the     *)
(* Votes of the components it knew when it opened the vote, and announces  *)
(* the outcome.  The others only vote.  An Announce goes straight to the   *)
(* applications' OnAnnounce; here it is recorded when it is published.     *)
(*                                                                         *)
(* The applications answer OnPropose and OnActionPropose inside the        *)
(* handler, once, or not at all, as every example of the repository does.  *)
(***************************************************************************)
EXTENDS Leadership

CONSTANTS
    Proposal,    \* propose ids (fresh uuids, each is proposed once)
    Action,      \* action ids
    ActionOf,    \* ActionOf[p]: the action p proposes, or Nil for a value
    Author,      \* Author[p]: the component that proposes p
    Electable,   \* bound: the components that win elections
    KnownViews,  \* KnownViews[n]: the results GetKnownComponents() may have at n
    Nil

ASSUME NilAssumption == Nil \notin Proposal \cup Action
ASSUME ActionAssumption == ActionOf \in [Proposal -> Action \cup {Nil}]
ASSUME AuthorAssumption == Author \in [Proposal -> Node] /\ Electable \subseteq Node
ASSUME ViewAssumption == KnownViews \in [Node -> SUBSET SUBSET Node]

VARIABLES
    proposed,    \* the proposals published so far
    open,        \* open[n]: keys of m_proposeData
    pd,          \* pd[n][p]: the ProposeData of p at n
    actionData,  \* actionData[n][a]: the proposal m_actionData[a] points to, or Nil
    net,         \* what is in flight on each connection
    announced    \* history: announced[n][p], the outcomes n published for p

tableVars == <<open, pd, actionData, announced>>
vars == <<role, served, proposed, tableVars, net>>

-----------------------------------------------------------------------------
\* ayes is history: the distinct components whose acceptance was counted.
\* late is proposeDeadline.IsTimeout().  isAction stays uninitialised for a
\* value, but then actionId is empty and erasing it has no effect.
ProposeData ==
    [electors : SUBSET Node, voted : SUBSET Node, ayes : SUBSET Node,
     accepted : Nat, rejected : Nat, late : BOOLEAN]

\* The ProposeData of a vote that was just opened.
Fresh(electors) ==
    [electors |-> electors, voted |-> {}, ayes |-> {},
     accepted |-> 0, rejected |-> 0, late |-> FALSE]

Result == {"ACCEPTED", "REJECTED"}

Message ==
         [type : {"ProposeToLeader"}, id : Proposal]
    \cup [type : {"ProposeToClients"}, id : Proposal]
    \cup [type : {"Vote"}, id : Proposal, src : Node, result : Result]

ToLeader(p) == [type |-> "ProposeToLeader", id |-> p]
ToClients(p) == [type |-> "ProposeToClients", id |-> p]
VoteMsg(n, p, r) == [type |-> "Vote", id |-> p, src |-> n, result |-> r]

Majority(k) == IF k % 2 = 0 THEN (k \div 2) + 1 ELSE (k + 1) \div 2

\* Mutant of Released: the lock stays when the vote is over.
ReleasedNever(n, p) == actionData[n]

\* m_actionData after the entry of p's action, if any, is erased: by the action
\* id, whichever proposal the entry points to by now.
Released(n, p) ==
    [a \in Action |-> IF a = ActionOf[p] THEN Nil ELSE actionData[n][a]]

\* p's action is being voted on and that vote has not timed out.
Locked(n, p) ==
    /\ ActionOf[p] # Nil
    /\ actionData[n][ActionOf[p]] # Nil
    /\ ~ pd[n][actionData[n][ActionOf[p]]].late

\* The outcome r of p is published by n.
Announce(n, p, r) ==
    announced' = [announced EXCEPT ![n][p] = Append(@, r)]

-----------------------------------------------------------------------------
Init ==
    /\ LeadershipInit
    /\ proposed = {}
    /\ open = [n \in Node |-> {}]
    /\ pd = [n \in Node |-> [p \in Proposal |-> Fresh({})]]
    /\ actionData = [n \in Node |-> [a \in Action |-> Nil]]
    /\ net = EmptyNet
    /\ announced = [n \in Node |-> [p \in Proposal |-> << >>]]

\* The election moves the leader role around; the tables stay.
ChangeLeader(n) ==
    /\ n \in Electable
    /\ Elect(n) \/ Depose(n) \/ Resign(n) \/ Echo(n)
    /\ UNCHANGED <<proposed, tableVars, net>>

\* ProposeValueToLeader, ProposeActionToLeader: a component publishes a proposal
\* of its own.  It refuses to while it knows no leader; what a member that does
\* not lead knows is not in Leadership, so here it may always know one.
Propose(p) ==
    /\ p \notin proposed
    /\ proposed' = proposed \cup {p}
    /\ \E ls \in Reached(net, Author[p]) : net' = Publish(net, ls, ToLeader(p))
    /\ UNCHANGED <<role, served, tableVars>>

(* FetchNextMessage at n = l[2], which takes itself for the leader.        *)

\* OnProposeFromClient, OnActionProposeFromClient: a vote is opened.
OpenVote(l) ==
    LET n == l[2]
        m == Head(net[l])
        p == m.id IN
    /\ Readable(net, l) /\ IsLeader(n)
    /\ m.type = "ProposeToLeader"
    /\ ~ Locked(n, p)
    /\ open' = [open EXCEPT ![n] = @ \cup {p}]
    /\ \E view \in KnownViews[n] : pd' = [pd EXCEPT ![n][p] = Fresh(view)]
    /\ actionData' = [actionData EXCEPT ![n] =
                         [a \in Action |-> IF a = ActionOf[p] THEN p ELSE @[a]]]
    /\ \E ls \in Reached(Consume(net, l), n) :
           net' = Publish(Consume(net, l), ls, ToClients(p))
    /\ UNCHANGED <<role, served, proposed, announced>>

\* OnVote after the deadline: the proposal is dropped and rejected.
LateVote(l) ==
    LET n == l[2]
        m == Head(net[l])
        p == m.id IN
    /\ Readable(net, l) /\ IsLeader(n)
    /\ m.type = "Vote" /\ p \in open[n] /\ pd[n][p].late
    /\ open' = [open EXCEPT ![n] = @ \ {p}]
    /\ actionData' = [actionData EXCEPT ![n] = Released(n, p)]
    /\ Announce(n, p, "REJECTED")
    /\ net' = Consume(net, l)
    /\ UNCHANGED <<role, served, proposed, pd>>

\* Mutant of Countable: the deadline is not looked at.
CountableAnyTime(n, m) ==
    /\ m.type = "Vote" /\ m.id \in open[n]
    /\ m.src \in pd[n][m.id].electors

\* OnVote counts the votes of electors.  nodesVoted is filled but never looked
\* at: a second vote of the same component counts again.
Countable(n, m) ==
    /\ m.type = "Vote" /\ m.id \in open[n] /\ ~ pd[n][m.id].late
    /\ m.src \in pd[n][m.id].electors

\* Mutant of Tally: the vote is counted and the voter is not recorded.
TallyNobody(d, m) ==
    [d EXCEPT !.accepted = IF m.result = "ACCEPTED" THEN @ + 1 ELSE @,
              !.rejected = IF m.result = "REJECTED" THEN @ + 1 ELSE @]

\* The ProposeData after the vote m.
Tally(d, m) ==
    [d EXCEPT !.voted = @ \cup {m.src},
              !.ayes = IF m.result = "ACCEPTED" THEN @ \cup {m.src} ELSE @,
              !.accepted = IF m.result = "ACCEPTED" THEN @ + 1 ELSE @,
              !.rejected = IF m.result = "REJECTED" THEN @ + 1 ELSE @]

\* The vote leaves the proposal undecided.
CountVote(l) ==
    LET n == l[2]
        m == Head(net[l])
        d == Tally(pd[n][m.id], m)
        majority == Majority(Cardinality(d.electors)) IN
    /\ Readable(net, l) /\ IsLeader(n)
    /\ Countable(n, m)
    /\ d.accepted < majority /\ d.rejected < majority
    /\ pd' = [pd EXCEPT ![n][m.id] = d]
    /\ net' = Consume(net, l)
    /\ UNCHANGED <<role, served, proposed, open, actionData, announced>>

\* The vote makes a majority of acceptances or, failing that, of rejections.
Decide(l) ==
    LET n == l[2]
        m == Head(net[l])
        d == Tally(pd[n][m.id], m)
        majority == Majority(Cardinality(d.electors)) IN
    /\ Readable(net, l) /\ IsLeader(n)
    /\ Countable(n, m)
    /\ d.accepted >= majority \/ d.rejected >= majority
    /\ pd' = [pd EXCEPT ![n][m.id] = d]
    /\ open' = [open EXCEPT ![n] = @ \ {m.id}]
    /\ actionData' = [actionData EXCEPT ![n] = Released(n, m.id)]
    /\ Announce(n, m.id, IF d.accepted >= majority THEN "ACCEPTED" ELSE "REJECTED")
    /\ net' = Consume(net, l)
    /\ UNCHANGED <<role, served, proposed>>

(* FetchNextMessage at n = l[2], which does not take itself for the leader.*)

\* OnPropose, OnActionPropose: the application votes.
CastVote(l) ==
    LET n == l[2]
        m == Head(net[l]) IN
    /\ Readable(net, l) /\ ~ IsLeader(n)
    /\ m.type = "ProposeToClients"
    /\ \E r \in Result, ls \in Reached(Consume(net, l), n) :
           net' = Publish(Consume(net, l), ls, VoteMsg(n, m.id, r))
    /\ UNCHANGED <<role, served, proposed, tableVars>>

\* The message is read and no branch takes it.
Ignore(l) ==
    LET n == l[2]
        m == Head(net[l]) IN
    /\ Readable(net, l)
    /\ IF IsLeader(n)
       THEN \/ m.type = "ProposeToClients"
            \/ m.type = "ProposeToLeader" /\ Locked(n, m.id)
            \/ m.type = "Vote" /\ m.id \notin open[n]
            \/ /\ m.type = "Vote" /\ m.id \in open[n]
               /\ ~ pd[n][m.id].late /\ ~ Countable(n, m)
       ELSE m.type # "ProposeToClients"
    /\ net' = Consume(net, l)
    /\ UNCHANGED <<role, served, proposed, tableVars>>

(* Time.                                                                   *)

\* proposeDeadline of p passes at n, 1000 ms after the vote was opened.  The
\* ProposeData outlives its removal from m_proposeData in m_actionData.
PassDeadline(n, p) ==
    /\ p \in open[n] \/ \E a \in Action : actionData[n][a] = p
    /\ ~ pd[n][p].late
    /\ pd' = [pd EXCEPT ![n][p].late = TRUE]
    /\ UNCHANGED <<role, served, proposed, open, actionData, net, announced>>

\* Mutant of Expired: proposed actions are left to their votes.
ExpiredValues(n) == {p \in open[n] : pd[n][p].late /\ ActionOf[p] = Nil}

\* The proposals that Update() purges.
Expired(n) == {p \in open[n] : pd[n][p].late}

\* Mutant of Purge: the outcome is announced and the entry is kept.
PurgeKeeps(n) ==
    /\ role[n] = "office"
    /\ Expired(n) # {}
    /\ announced' = [announced EXCEPT ![n] =
                        [p \in Proposal |-> IF p \in Expired(n) /\ Len(@[p]) < 2
                                            THEN Append(@[p], "REJECTED") ELSE @[p]]]
    /\ UNCHANGED <<role, served, proposed, open, pd, actionData, net>>

\* Update() of a leader in office that is not due to send a heartbeat: every
\* expired proposal is rejected.  m_actionData keeps pointing to it.
Purge(n) ==
    /\ role[n] = "office"
    /\ Expired(n) # {}
    /\ open' = [open EXCEPT ![n] = @ \ Expired(n)]
    /\ announced' = [announced EXCEPT ![n] =
                        [p \in Proposal |-> IF p \in Expired(n)
                                            THEN Append(@[p], "REJECTED") ELSE @[p]]]
    /\ UNCHANGED <<role, served, proposed, pd, actionData, net>>

Receive(l) == OpenVote(l) \/ LateVote(l) \/ CountVote(l) \/ Decide(l) \/ CastVote(l) \/ Ignore(l)

Next ==
    \/ \E n \in Node : ChangeLeader(n) \/ Purge(n)
    \/ \E p \in Proposal : Propose(p)
    \/ \E n \in Node, p \in Proposal : PassDeadline(n, p)
    \/ \E l \in Link : Receive(l)

Spec == Init /\ [][Next]_vars

\* Time passes, and the loop of a component comes back to FetchNextMessage:
\* with nothing to read, Update() of a leader alternates between heartbeats
\* (every 75 ms) and this check.
FairSpec ==
    /\ Spec
    /\ \A n \in Electable, p \in Proposal : WF_vars(PassDeadline(n, p))
    /\ \A n \in Electable : WF_vars(Purge(n))

-----------------------------------------------------------------------------
TypeOK ==
    /\ LeadershipTypeOK
    /\ proposed \subseteq Proposal
    /\ open \in [Node -> SUBSET Proposal]
    /\ pd \in [Node -> [Proposal -> ProposeData]]
    /\ actionData \in [Node -> [Action -> Proposal \cup {Nil}]]
    /\ net \in [Link -> Seq(Message)]
    /\ announced \in [Node -> [Proposal -> Seq(Result)]]

\* A leader announces one outcome per proposal at most, however votes, the
\* deadline, the periodic check and changes of leadership interleave.
AtMostOneOutcome ==
    \A n \in Node, p \in Proposal :
        /\ Len(announced[n][p]) <= 1
        /\ p \in open[n] => announced[n][p] = << >>

\* Nothing is accepted after its deadline (comment "No chance to accept").
NoLateAcceptance ==
    [][\A n \in Node, p \in Proposal :
          announced'[n][p] # announced[n][p] /\ pd[n][p].late
          => announced'[n][p] = Append(announced[n][p], "REJECTED")]_vars

\* The lock of an action is held by a proposal of that action whose vote is
\* still open or whose deadline has passed: a decided vote never blocks the
\* next proposal of its action.
LocksAreLive ==
    \A n \in Node, a \in Action :
        LET p == actionData[n][a] IN
        p # Nil => ActionOf[p] = a /\ (p \in open[n] \/ pd[n][p].late)

\* While only one component has ever been in office every elector is counted
\* once, so that an accepted proposal has the acceptance of a majority of the
\* components that were asked.  Leadership that overlaps breaks it, see
\* AcceptedByMajority.
OneServerCountsOnce ==
    Cardinality(served) <= 1 =>
        \A n \in Node, p \in Proposal :
            /\ pd[n][p].accepted + pd[n][p].rejected = Cardinality(pd[n][p].voted)
            /\ announced[n][p] = <<"ACCEPTED">> =>
                   2 * Cardinality(pd[n][p].ayes) > Cardinality(pd[n][p].electors)

\* A leader that stays in office closes every vote it has opened (r_grouplead.h
\* "If the propose expires, the leader announce REJECT").
VotesEnd ==
    \A n \in Electable, p \in Proposal :
        p \in open[n] ~> (p \notin open[n] \/ role[n] # "office")

-----------------------------------------------------------------------------
(* What the source says and does not hold.                                 *)

\* r_grouplead.cc:431 "Majority, announce": what is announced as accepted was
\* accepted by a majority of the components in the vote.
AcceptedByMajority ==
    \A n \in Node, p \in Proposal :
        announced[n][p] = <<"ACCEPTED">> =>
            2 * Cardinality(pd[n][p].ayes) > Cardinality(pd[n][p].electors)
=============================================================================

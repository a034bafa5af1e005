-------------------------- MODULE ConsensusProofs ---------------------------
(***************************************************************************)
(* The voting tables of GroupLead, for every group, every set of proposals *)
(* and every way leadership moves, several leaders at a time included.     *)
(* Three invariants, each resting on the one before:                       *)
(*   IInv      types and action locks; the deadline rule follows from it;  *)
(*   Once      relates the tables to the messages in flight: a proposal on *)
(*             its way is new to its reader, so a vote is opened once and  *)
(*             has one outcome;                                            *)
(*   OneServer what holds while one component at most has been in office:  *)
(*             a member is asked once, votes once and is counted once.     *)
(***************************************************************************)
EXTENDS Consensus, GroupPortsProofs, FiniteSetTheorems

IInv == TypeOK /\ LocksAreLive

Anything == [p \in Node |-> Message]

-----------------------------------------------------------------------------
\* The typing of the connections, in the two forms the proofs need.
LEMMA NetType ==
    ASSUME NEW q
    PROVE  q \in [Link -> Seq(Message)] <=> Carries(q, Anything)
<1>1. \A l \in Link : Anything[l[1]] = Message
  BY LinkAssumption DEF Anything
<1> QED
  BY <1>1 DEF Carries

\* Sending a message.
LEMMA PublishType ==
    ASSUME NEW q \in [Link -> Seq(Message)], NEW n \in Node,
           NEW ls \in Reached(q, n), NEW m \in Message
    PROVE  Publish(q, ls, m) \in [Link -> Seq(Message)]
<1>1. m \in Anything[n]
  BY DEF Anything
<1> QED
  BY <1>1, NetType, PublishCarries

\* Reading a message.
LEMMA ReadMessage ==
    ASSUME TypeOK, NEW l \in Link, Readable(net, l)
    PROVE  /\ l[2] \in Node
           /\ Head(net[l]) \in Message
           /\ Head(net[l]).id \in Proposal
           /\ Head(net[l]).type = "Vote" =>
                  Head(net[l]).src \in Node /\ Head(net[l]).result \in Result
           /\ Consume(net, l) \in [Link -> Seq(Message)]
<1>1. l[1] \in Node /\ l[2] \in Node
  BY LinkAssumption
<1>2. Head(net[l]) \in Anything[l[1]] /\ Carries(Consume(net, l), Anything)
  BY NetType, ConsumeCarries DEF TypeOK
<1>3. Head(net[l]) \in Message
  BY <1>1, <1>2 DEF Anything
<1> QED
  BY <1>1, <1>2, <1>3, NetType DEF Message

\* The messages the code builds.
LEMMA MessageTypes ==
    /\ \A p \in Proposal : ToLeader(p) \in Message /\ ToClients(p) \in Message
    /\ \A n \in Node, p \in Proposal, r \in Result : VoteMsg(n, p, r) \in Message
  BY DEF Message, ToLeader, ToClients, VoteMsg

\* A counted vote leaves the deadline and the electors alone.
LEMMA TallyType ==
    ASSUME NEW d \in ProposeData, NEW m, m.src \in Node
    PROVE  Tally(d, m) \in ProposeData /\ Tally(d, m).late = d.late
<1> DEFINE voted == d.voted \cup {m.src}
           ayes == IF m.result = "ACCEPTED" THEN d.ayes \cup {m.src} ELSE d.ayes
           accepted == IF m.result = "ACCEPTED" THEN d.accepted + 1 ELSE d.accepted
           rejected == IF m.result = "REJECTED" THEN d.rejected + 1 ELSE d.rejected
<1>1. /\ voted \in SUBSET Node /\ ayes \in SUBSET Node
      /\ accepted \in Nat /\ rejected \in Nat
  BY DEF ProposeData
<1>2. Tally(d, m) = [d EXCEPT !.voted = voted, !.ayes = ayes,
                              !.accepted = accepted, !.rejected = rejected]
  BY DEF Tally
<1> HIDE DEF voted, ayes, accepted, rejected
<1> QED
  BY <1>1, <1>2 DEF ProposeData

\* A new vote.
LEMMA FreshType ==
    ASSUME NEW S \in SUBSET Node
    PROVE  Fresh(S) \in ProposeData /\ ~ Fresh(S).late
  BY DEF ProposeData, Fresh

\* An outcome is added to the record of one proposal of one component.
LEMMA AnnounceType ==
    ASSUME TypeOK, NEW n \in Node, NEW p \in Proposal, NEW r \in Result, Announce(n, p, r)
    PROVE  announced' \in [Node -> [Proposal -> Seq(Result)]]
<1>1. announced[n][p] \in Seq(Result)
  BY DEF TypeOK
<1>2. Append(announced[n][p], r) \in Seq(Result)
  BY <1>1, AppendProperties
<1> QED
  BY <1>2 DEF TypeOK, Announce

\* Erasing an action leaves a table of locks.
LEMMA ReleasedType ==
    ASSUME TypeOK, NEW n \in Node, NEW p \in Proposal
    PROVE  Released(n, p) \in [Action -> Proposal \cup {Nil}]
  BY DEF TypeOK, Released

\* The leader role alone.
LEMMA LeadershipTypes ==
    ASSUME LeadershipTypeOK, NEW n \in Node, Elect(n) \/ Depose(n) \/ Resign(n) \/ Echo(n)
    PROVE  LeadershipTypeOK'
  BY DEF LeadershipTypeOK, Role, Elect, Depose, Resign, Echo

-----------------------------------------------------------------------------
\* No vote is open and no action is locked at first.
LEMMA InitInv == Init => IInv
<1> SUFFICES ASSUME Init PROVE IInv
  OBVIOUS
<1>1. net \in [Link -> Seq(Message)]
  BY EmptyCarries, NetType DEF Init
<1>2. Fresh({}) \in ProposeData
  BY FreshType
<1>3. pd \in [Node -> [Proposal -> ProposeData]]
  BY <1>2 DEF Init
<1>4. TypeOK
  BY <1>1, <1>3 DEF Init, TypeOK, LeadershipInit, LeadershipTypeOK, Role
<1>5. LocksAreLive
  BY DEF Init, LocksAreLive
<1> QED
  BY <1>4, <1>5 DEF IInv

\* Steps that leave the tables alone.
LEMMA TablesKept ==
    ASSUME IInv, UNCHANGED tableVars, LeadershipTypeOK', proposed' \subseteq Proposal,
           net' \in [Link -> Seq(Message)]
    PROVE  IInv'
  BY DEF IInv, TypeOK, LocksAreLive, tableVars

\* A change of leader, a proposal, an answer to one, a message nobody takes.
LEMMA OutsideInv ==
    ASSUME IInv,
           \/ \E n \in Node : ChangeLeader(n)
           \/ \E p \in Proposal : Propose(p)
           \/ \E l \in Link : CastVote(l) \/ Ignore(l)
    PROVE  IInv'
<1> USE DEF IInv
<1>1. CASE \E n \in Node : ChangeLeader(n)
  <2>1. LeadershipTypeOK'
    BY <1>1, LeadershipTypes DEF ChangeLeader, TypeOK
  <2> QED
    BY <1>1, <2>1, TablesKept DEF ChangeLeader, TypeOK
<1>2. ASSUME NEW p \in Proposal, Propose(p) PROVE IInv'
  <2>1. PICK ls \in Reached(net, Author[p]) : net' = Publish(net, ls, ToLeader(p))
    BY <1>2 DEF Propose
  <2>2. net' \in [Link -> Seq(Message)]
    BY <2>1, AuthorAssumption, MessageTypes, PublishType DEF TypeOK
  <2>3. LeadershipTypeOK' /\ proposed' \subseteq Proposal
    BY <1>2 DEF Propose, TypeOK, LeadershipTypeOK
  <2> QED
    BY <1>2, <2>2, <2>3, TablesKept DEF Propose
<1>3. ASSUME NEW l \in Link, CastVote(l) PROVE IInv'
  <2>1. PICK r \in Result, ls \in Reached(Consume(net, l), l[2]) :
            net' = Publish(Consume(net, l), ls, VoteMsg(l[2], Head(net[l]).id, r))
    BY <1>3 DEF CastVote
  <2>2. net' \in [Link -> Seq(Message)]
    BY <1>3, <2>1, ReadMessage, MessageTypes, PublishType DEF CastVote
  <2>3. LeadershipTypeOK' /\ proposed' \subseteq Proposal
    BY <1>3 DEF CastVote, TypeOK, LeadershipTypeOK
  <2> QED
    BY <1>3, <2>2, <2>3, TablesKept DEF CastVote
<1>4. ASSUME NEW l \in Link, Ignore(l) PROVE IInv'
  <2>1. net' \in [Link -> Seq(Message)]
    BY <1>4, ReadMessage DEF Ignore
  <2>2. LeadershipTypeOK' /\ proposed' \subseteq Proposal
    BY <1>4 DEF Ignore, TypeOK, LeadershipTypeOK
  <2> QED
    BY <1>4, <2>1, <2>2, TablesKept DEF Ignore
<1> QED
  BY <1>1, <1>2, <1>3, <1>4

\* Opening a vote locks its action by a proposal that is open.
LEMMA OpenVoteInv ==
    ASSUME IInv, NEW l \in Link, OpenVote(l)
    PROVE  IInv'
<1> USE DEF IInv
<1> DEFINE n == l[2]
           p == Head(net[l]).id
<1>0. n \in Node /\ p \in Proposal /\ Consume(net, l) \in [Link -> Seq(Message)]
  BY ReadMessage DEF OpenVote
<1>1. /\ open' = [open EXCEPT ![n] = @ \cup {p}]
      /\ actionData' = [actionData EXCEPT ![n] =
                           [a \in Action |-> IF a = ActionOf[p] THEN p ELSE @[a]]]
      /\ UNCHANGED <<role, served, proposed, announced>>
  BY DEF OpenVote
<1>2. PICK view \in KnownViews[n] : pd' = [pd EXCEPT ![n][p] = Fresh(view)]
  BY DEF OpenVote
<1>3. PICK ls \in Reached(Consume(net, l), n) :
          net' = Publish(Consume(net, l), ls, ToClients(p))
  BY DEF OpenVote
<1> HIDE DEF n, p
<1>4. Fresh(view) \in ProposeData
  BY <1>0, <1>2, ViewAssumption, FreshType
<1>5. net' \in [Link -> Seq(Message)]
  BY <1>0, <1>3, MessageTypes, PublishType
<1>6. TypeOK'
  <2>1. pd' \in [Node -> [Proposal -> ProposeData]]
    BY <1>0, <1>2, <1>4 DEF TypeOK
  <2>2. open' \in [Node -> SUBSET Proposal]
    BY <1>0, <1>1 DEF TypeOK
  <2>3. actionData' \in [Node -> [Action -> Proposal \cup {Nil}]]
    BY <1>0, <1>1 DEF TypeOK
  <2> QED
    BY <1>1, <1>5, <2>1, <2>2, <2>3 DEF TypeOK, LeadershipTypeOK
<1>7. LocksAreLive'
  <2> SUFFICES ASSUME NEW k \in Node, NEW a \in Action, actionData'[k][a] # Nil
               PROVE  /\ ActionOf[actionData'[k][a]] = a
                      /\ \/ actionData'[k][a] \in open'[k]
                         \/ pd'[k][actionData'[k][a]].late
    BY DEF LocksAreLive
  <2>1. CASE k = n /\ a = ActionOf[p]
    BY <1>0, <1>1, <2>1 DEF TypeOK
  <2>2. CASE k = n /\ a # ActionOf[p]
    <3>1. actionData'[k][a] = actionData[k][a]
      BY <1>0, <1>1, <2>2 DEF TypeOK
    <3>2. actionData[k][a] # p
      BY <2>2, <3>1 DEF LocksAreLive
    <3>3. pd'[k][actionData[k][a]] = pd[k][actionData[k][a]]
      BY <1>0, <1>2, <3>1, <3>2 DEF TypeOK
    <3> QED
      BY <1>0, <1>1, <3>1, <3>3 DEF TypeOK, LocksAreLive
  <2>3. CASE k # n
    BY <1>0, <1>1, <1>2, <2>3 DEF TypeOK, LocksAreLive
  <2> QED BY <2>1, <2>2, <2>3
<1> QED
  BY <1>6, <1>7

\* Closing the vote on p erases the lock of p's action, so that every lock left
\* belongs to another proposal.
LEMMA ClosingKeepsLocksLive ==
    ASSUME IInv, NEW n \in Node, NEW p \in Proposal,
           open' = [open EXCEPT ![n] = @ \ {p}],
           actionData' = [actionData EXCEPT ![n] = Released(n, p)],
           \A k \in Node, q \in Proposal : pd'[k][q].late = pd[k][q].late
    PROVE  LocksAreLive'
<1> USE DEF IInv
<1> SUFFICES ASSUME NEW k \in Node, NEW a \in Action, actionData'[k][a] # Nil
             PROVE  /\ ActionOf[actionData'[k][a]] = a
                    /\ \/ actionData'[k][a] \in open'[k]
                       \/ pd'[k][actionData'[k][a]].late
  BY DEF LocksAreLive
<1>1. k = n => a # ActionOf[p]
  BY DEF TypeOK, Released
<1>2. actionData'[k][a] = actionData[k][a]
  BY <1>1 DEF TypeOK, Released
<1>3. actionData[k][a] \in Proposal /\ (k = n => actionData[k][a] # p)
  BY <1>1, <1>2 DEF TypeOK, LocksAreLive
<1>4. actionData[k][a] \in open[k] => actionData[k][a] \in open'[k]
  BY <1>3 DEF TypeOK
<1> QED
  BY <1>2, <1>3, <1>4 DEF LocksAreLive

\* A vote after the deadline.
LEMMA LateVoteInv ==
    ASSUME IInv, NEW l \in Link, LateVote(l)
    PROVE  IInv'
<1> USE DEF IInv
<1> DEFINE n == l[2]
           p == Head(net[l]).id
<1>0. n \in Node /\ p \in Proposal /\ Consume(net, l) \in [Link -> Seq(Message)]
  BY ReadMessage DEF LateVote
<1>1. /\ open' = [open EXCEPT ![n] = @ \ {p}]
      /\ actionData' = [actionData EXCEPT ![n] = Released(n, p)]
      /\ Announce(n, p, "REJECTED")
      /\ net' = Consume(net, l)
      /\ UNCHANGED <<role, served, proposed, pd>>
  BY DEF LateVote
<1> HIDE DEF n, p
<1>2. TypeOK'
  <2>1. announced' \in [Node -> [Proposal -> Seq(Result)]]
    BY <1>0, <1>1, AnnounceType DEF Result
  <2>2. actionData' \in [Node -> [Action -> Proposal \cup {Nil}]]
    BY <1>0, <1>1, ReleasedType DEF TypeOK
  <2> QED
    BY <1>0, <1>1, <2>1, <2>2 DEF TypeOK, LeadershipTypeOK
<1>3. LocksAreLive'
  BY <1>0, <1>1, ClosingKeepsLocksLive
<1> QED
  BY <1>2, <1>3

\* One entry of the table is replaced.
LEMMA EntryReplaced ==
    ASSUME TypeOK, NEW n \in Node, NEW p \in Proposal, NEW d \in ProposeData
    PROVE  [pd EXCEPT ![n][p] = d] \in [Node -> [Proposal -> ProposeData]]
  BY DEF TypeOK

\* The tally of one vote changes no deadline.
LEMMA TallyKeepsDeadlines ==
    ASSUME TypeOK, NEW l \in Link, Readable(net, l), Countable(l[2], Head(net[l])),
           pd' = [pd EXCEPT ![l[2]][Head(net[l]).id] =
                     Tally(pd[l[2]][Head(net[l]).id], Head(net[l]))]
    PROVE  /\ pd' \in [Node -> [Proposal -> ProposeData]]
           /\ \A k \in Node, q \in Proposal : pd'[k][q].late = pd[k][q].late
<1> DEFINE n == l[2]
           m == Head(net[l])
           p == m.id
           d == Tally(pd[n][p], m)
<1>1. n \in Node /\ p \in Proposal /\ m.src \in Node
  BY ReadMessage DEF Countable
<1>2. pd[n][p] \in ProposeData
  BY <1>1 DEF TypeOK
<1>3. d \in ProposeData /\ d.late = pd[n][p].late
  BY <1>1, <1>2, TallyType
<1>4. pd' = [pd EXCEPT ![n][p] = d]
  OBVIOUS
<1> HIDE DEF n, m, p, d
<1>5. pd' \in [Node -> [Proposal -> ProposeData]]
  <2>1. [pd EXCEPT ![n][p] = d] \in [Node -> [Proposal -> ProposeData]]
    BY <1>1, <1>3, EntryReplaced
  <2> QED
    BY <1>4, <2>1
<1>6. ASSUME NEW k \in Node, NEW q \in Proposal
      PROVE  pd'[k][q].late = pd[k][q].late
  <2>1. CASE k = n /\ q = p
    BY <1>1, <1>3, <1>4, <2>1 DEF TypeOK
  <2>2. CASE ~ (k = n /\ q = p)
    <3>1. pd'[k][q] = pd[k][q]
      BY <1>1, <1>4, <2>2 DEF TypeOK
    <3> QED BY <3>1
  <2> QED BY <2>1, <2>2
<1> QED
  BY <1>5, <1>6

\* A vote that leaves the proposal undecided.
LEMMA CountVoteInv ==
    ASSUME IInv, NEW l \in Link, CountVote(l)
    PROVE  IInv'
<1> USE DEF IInv
<1>0. Consume(net, l) \in [Link -> Seq(Message)]
  BY ReadMessage DEF CountVote
<1>1. /\ net' = Consume(net, l)
      /\ UNCHANGED <<role, served, proposed, open, actionData, announced>>
  BY DEF CountVote
<1>2. /\ pd' \in [Node -> [Proposal -> ProposeData]]
      /\ \A k \in Node, q \in Proposal : pd'[k][q].late = pd[k][q].late
  BY TallyKeepsDeadlines DEF CountVote
<1>3. TypeOK'
  BY <1>0, <1>1, <1>2 DEF TypeOK, LeadershipTypeOK
<1>4. LocksAreLive'
  <2>1. \A k \in Node, a \in Action : actionData[k][a] \in Proposal \cup {Nil}
    BY DEF TypeOK
  <2> QED
    BY <1>1, <1>2, <2>1 DEF LocksAreLive
<1> QED
  BY <1>3, <1>4

\* The vote that decides.
LEMMA DecideInv ==
    ASSUME IInv, NEW l \in Link, Decide(l)
    PROVE  IInv'
<1> USE DEF IInv
<1> DEFINE n == l[2]
           p == Head(net[l]).id
<1>0. n \in Node /\ p \in Proposal /\ Consume(net, l) \in [Link -> Seq(Message)]
  BY ReadMessage DEF Decide
<1>1. /\ open' = [open EXCEPT ![n] = @ \ {p}]
      /\ actionData' = [actionData EXCEPT ![n] = Released(n, p)]
      /\ net' = Consume(net, l)
      /\ UNCHANGED <<role, served, proposed>>
  BY DEF Decide
<1>2. Announce(n, p, "ACCEPTED") \/ Announce(n, p, "REJECTED")
  BY DEF Decide
<1>3. /\ pd' \in [Node -> [Proposal -> ProposeData]]
      /\ \A k \in Node, q \in Proposal : pd'[k][q].late = pd[k][q].late
  BY TallyKeepsDeadlines DEF Decide
<1> HIDE DEF n, p
<1>4. TypeOK'
  <2>1. announced' \in [Node -> [Proposal -> Seq(Result)]]
    BY <1>0, <1>2, AnnounceType DEF Result
  <2>2. actionData' \in [Node -> [Action -> Proposal \cup {Nil}]]
    BY <1>0, <1>1, ReleasedType DEF TypeOK
  <2> QED
    BY <1>0, <1>1, <1>3, <2>1, <2>2 DEF TypeOK, LeadershipTypeOK
<1>5. LocksAreLive'
  BY <1>0, <1>1, <1>3, ClosingKeepsLocksLive
<1> QED
  BY <1>4, <1>5

\* A deadline passes.
LEMMA PassDeadlineInv ==
    ASSUME IInv, NEW n \in Node, NEW p \in Proposal, PassDeadline(n, p)
    PROVE  IInv'
<1> USE DEF IInv
<1>1. /\ pd' = [pd EXCEPT ![n][p].late = TRUE]
      /\ UNCHANGED <<role, served, proposed, open, actionData, net, announced>>
  BY DEF PassDeadline
<1>2. pd[n][p] \in ProposeData
  BY DEF TypeOK
<1>3. [pd[n][p] EXCEPT !.late = TRUE] \in ProposeData
  BY <1>2 DEF ProposeData
<1>4. /\ pd' \in [Node -> [Proposal -> ProposeData]]
      /\ \A k \in Node, q \in Proposal : pd[k][q].late => pd'[k][q].late
  BY <1>1, <1>2, <1>3 DEF TypeOK, ProposeData
<1>5. TypeOK'
  BY <1>1, <1>4 DEF TypeOK, LeadershipTypeOK
<1>6. LocksAreLive'
  <2>1. \A k \in Node, a \in Action : actionData[k][a] \in Proposal \cup {Nil}
    BY DEF TypeOK
  <2> QED
    BY <1>1, <1>4, <2>1 DEF LocksAreLive
<1> QED
  BY <1>5, <1>6

\* The periodic check closes expired votes only; their locks stay and are late.
LEMMA PurgeInv ==
    ASSUME IInv, NEW n \in Node, Purge(n)
    PROVE  IInv'
<1> USE DEF IInv
<1>1. /\ open' = [open EXCEPT ![n] = @ \ Expired(n)]
      /\ announced' = [announced EXCEPT ![n] =
                          [p \in Proposal |-> IF p \in Expired(n)
                                              THEN Append(@[p], "REJECTED") ELSE @[p]]]
      /\ UNCHANGED <<role, served, proposed, pd, actionData, net>>
  BY DEF Purge
<1>2. announced' \in [Node -> [Proposal -> Seq(Result)]]
  <2>1. \A p \in Proposal : Append(announced[n][p], "REJECTED") \in Seq(Result)
    BY AppendProperties DEF TypeOK, Result
  <2> QED
    BY <1>1, <2>1 DEF TypeOK
<1>3. TypeOK'
  BY <1>1, <1>2 DEF TypeOK, LeadershipTypeOK
<1>4. LocksAreLive'
  <2>1. \A k \in Node : \A q \in open[k] : q \in open'[k] \/ pd[k][q].late
    BY <1>1 DEF TypeOK, Expired
  <2> QED
    BY <1>1, <2>1 DEF LocksAreLive
<1> QED
  BY <1>3, <1>4

\* Every step preserves the invariant.
LEMMA NextInv == IInv /\ [Next]_vars => IInv'
<1> SUFFICES ASSUME IInv, [Next]_vars PROVE IInv'
  OBVIOUS
<1>1. CASE UNCHANGED vars
  BY <1>1, TablesKept DEF vars, tableVars, IInv, TypeOK, LeadershipTypeOK
<1>2. CASE \E n \in Node : ChangeLeader(n) \/ Purge(n)
  BY <1>2, OutsideInv, PurgeInv
<1>3. CASE \E p \in Proposal : Propose(p)
  BY <1>3, OutsideInv
<1>4. CASE \E n \in Node, p \in Proposal : PassDeadline(n, p)
  BY <1>4, PassDeadlineInv
<1>5. CASE \E l \in Link : Receive(l)
  BY <1>5, OutsideInv, OpenVoteInv, LateVoteInv, CountVoteInv, DecideInv DEF Receive
<1> QED
  BY <1>1, <1>2, <1>3, <1>4, <1>5 DEF Next

-----------------------------------------------------------------------------
\* The tables and the messages keep their types.
THEOREM ConsensusTypeOK == Spec => []TypeOK
<1>1. IInv => TypeOK
  BY DEF IInv
<1> QED BY InitInv, NextInv, <1>1, PTL DEF Spec

\* An entry of m_actionData always belongs to an open vote or to one whose
\* deadline has passed, so that OnActionProposeFromClient never refuses an
\* action because of a vote that was decided.
THEOREM DecidedVotesHoldNoLock == Spec => []LocksAreLive
<1>1. IInv => LocksAreLive
  BY DEF IInv
<1> QED BY InitInv, NextInv, <1>1, PTL DEF Spec

\* Once the deadline of a proposal has passed, OnVote and the periodic check of
\* Update() can only reject it.
THEOREM LateMeansRejected == Spec => NoLateAcceptance
<1> DEFINE Rejects(n, p) ==
        announced'[n][p] # announced[n][p] /\ pd[n][p].late
            => announced'[n][p] = Append(announced[n][p], "REJECTED")
<1>1. TypeOK /\ [Next]_vars => [\A n \in Node, p \in Proposal : Rejects(n, p)]_vars
  <2> SUFFICES ASSUME TypeOK, Next, NEW n \in Node, NEW p \in Proposal,
                      announced'[n][p] # announced[n][p], pd[n][p].late
               PROVE  announced'[n][p] = Append(announced[n][p], "REJECTED")
    OBVIOUS
  <2>1. ASSUME NEW k \in Node, Purge(k)
        PROVE  announced'[n][p] = Append(announced[n][p], "REJECTED")
    BY <2>1 DEF Purge, TypeOK
  <2>2. ASSUME NEW l \in Link, LateVote(l)
        PROVE  announced'[n][p] = Append(announced[n][p], "REJECTED")
    <3>1. l[2] \in Node /\ Head(net[l]).id \in Proposal
      BY <2>2, ReadMessage DEF LateVote
    <3>2. Announce(l[2], Head(net[l]).id, "REJECTED")
      BY <2>2 DEF LateVote
    <3> QED
      BY <3>1, <3>2 DEF Announce, TypeOK
  <2>3. ASSUME NEW l \in Link, Decide(l)
        PROVE  FALSE
    <3>1. l[2] \in Node /\ Head(net[l]).id \in Proposal
      BY <2>3, ReadMessage DEF Decide
    <3>2. ~ pd[l[2]][Head(net[l]).id].late
      BY <2>3 DEF Decide, Countable
    <3>3. \E r : Announce(l[2], Head(net[l]).id, r)
      BY <2>3 DEF Decide
    <3>4. l[2] = n /\ Head(net[l]).id = p
      BY <3>1, <3>3 DEF Announce, TypeOK
    <3> QED
      BY <3>2, <3>4
  <2>4. ASSUME announced' = announced
        PROVE  FALSE
    BY <2>4
  <2>5. \/ \E k \in Node : Purge(k)
        \/ \E l \in Link : LateVote(l) \/ Decide(l)
        \/ announced' = announced
    BY DEF Next, Receive, ChangeLeader, Propose, OpenVote, CountVote, CastVote, Ignore,
           PassDeadline, tableVars
  <2> QED
    BY <2>1, <2>2, <2>3, <2>4, <2>5
<1> QED
  BY ConsensusTypeOK, <1>1, PTL DEF Spec, NoLateAcceptance

-----------------------------------------------------------------------------
(* One outcome per proposal.  A proposal is published once, by its author, *)
(* so a component opens the vote on it once, and a vote that is closed is  *)
(* never opened again.                                                     *)

\* The votes on p that can be in flight.
VotesOn(p) == {VoteMsg(v, p, r) : v \in Node, r \in Result}

\* The proposals whose vote n has opened, and perhaps closed.
Handled(n) == {p \in Proposal : p \in open[n] \/ announced[n][p] # << >>}

\* Only components that were elected open votes, and on what was proposed.
HandledOK ==
    \A n \in Node : /\ Handled(n) \subseteq proposed
                    /\ Handled(n) # {} => n \in served

\* A proposal on its way was published by its author and is new to its reader.
Requests ==
    \A l \in Link, p \in Proposal :
        ToLeader(p) \in InFlight(net, l) =>
            p \in proposed /\ l[1] = Author[p] /\ p \notin Handled(l[2])

\* A call for votes comes from a component that opened the vote.
Calls ==
    \A l \in Link, p \in Proposal :
        ToClients(p) \in InFlight(net, l) => p \in Handled(l[1])

\* Proposals and calls for votes are in flight once on a connection.
Singles ==
    \A p \in Proposal : AtMostOne(net, {ToLeader(p)}) /\ AtMostOne(net, {ToClients(p)})

\* A vote comes from its voter and somebody has asked for it.
Ballots ==
    \A l \in Link, v \in Node, p \in Proposal, r \in Result :
        VoteMsg(v, p, r) \in InFlight(net, l) =>
            v = l[1] /\ \E s \in served : p \in Handled(s)

Once ==
    /\ OnlyElectedLead /\ HandledOK /\ Requests /\ Calls /\ Singles /\ Ballots
    /\ AtMostOneOutcome

\* The kinds of messages, and what they are about, can be told apart.
LEMMA MessagesDiffer ==
    /\ \A p, q : ToLeader(p) # ToClients(q)
    /\ \A p, q, v, r : ToLeader(p) # VoteMsg(v, q, r) /\ ToClients(p) # VoteMsg(v, q, r)
    /\ \A p, q : ToLeader(p) = ToLeader(q) => p = q
    /\ \A p, q : ToClients(p) = ToClients(q) => p = q
    /\ \A u, v, p, q, r, s : VoteMsg(u, p, r) = VoteMsg(v, q, s) => u = v /\ p = q /\ r = s
  BY DEF ToLeader, ToClients, VoteMsg

\* What is read has one of the three forms.
LEMMA MessageForms ==
    ASSUME NEW m \in Message
    PROVE  /\ m.type = "ProposeToLeader" => m = ToLeader(m.id)
           /\ m.type = "ProposeToClients" => m = ToClients(m.id)
           /\ m.type = "Vote" => m = VoteMsg(m.src, m.id, m.result)
  BY DEF Message, ToLeader, ToClients, VoteMsg

\* Nothing is in flight at first.
LEMMA EmptyFlight ==
    /\ \A l \in Link : InFlight(EmptyNet, l) = {}
    /\ \A S : AtMostOne(EmptyNet, S)
<1>1. \A l \in Link : EmptyNet[l] = << >> /\ Len(EmptyNet[l]) = 0
  BY DEF EmptyNet
<1> QED
  BY <1>1 DEF InFlight, AtMostOne

LEMMA InitOnce == Init => Once
<1> SUFFICES ASSUME Init PROVE Once
  OBVIOUS
<1>1. \A l \in Link : InFlight(net, l) = {}
  BY EmptyFlight DEF Init
<1>2. \A n \in Node : Handled(n) = {}
  BY DEF Init, Handled
<1>3. Singles
  BY EmptyFlight DEF Init, Singles
<1>4. AtMostOneOutcome
  BY DEF Init, AtMostOneOutcome
<1>5. OnlyElectedLead
  BY DEF Init, LeadershipInit, OnlyElectedLead, IsLeader
<1> QED
  BY <1>1, <1>2, <1>3, <1>4, <1>5 DEF Once, HandledOK, Requests, Calls, Ballots

\* A step that handles no new proposal and publishes nothing.
LEMMA OnceKept ==
    ASSUME TypeOK, Once, OnlyElectedLead', AtMostOneOutcome', Singles',
           served \subseteq served', proposed \subseteq proposed',
           \A n \in Node : Handled(n)' = Handled(n),
           \A l \in Link : InFlight(net', l) \subseteq InFlight(net, l)
    PROVE  Once'
<1> USE LinkAssumption
<1>1. HandledOK'
  BY DEF Once, HandledOK
<1>2. Requests'
  BY DEF Once, Requests
<1>3. Calls'
  BY DEF Once, Calls
<1>4. Ballots'
  BY DEF Once, Ballots, TypeOK, LeadershipTypeOK
<1> QED
  BY <1>1, <1>2, <1>3, <1>4 DEF Once

\* Two connections with the same ends are the same.
LEMMA LinkEnds ==
    ASSUME NEW k \in Link, NEW l \in Link, k[1] = l[1], k[2] = l[2]
    PROVE  k = l
  BY LinkAssumption

\* A step that only reads a message publishes nothing.
LEMMA ReadOnly ==
    ASSUME TypeOK, Singles, NEW l \in Link, Readable(net, l), net' = Consume(net, l)
    PROVE  Singles' /\ \A k \in Link : InFlight(net', k) \subseteq InFlight(net, k)
<1>1. net \in [Link -> Seq(Message)]
  BY DEF TypeOK
<1>2. \A k \in Link : InFlight(net', k) \subseteq InFlight(net, k)
  BY <1>1, ConsumeTakes
<1>3. ASSUME NEW p \in Proposal
      PROVE  AtMostOne(net', {ToLeader(p)}) /\ AtMostOne(net', {ToClients(p)})
  BY <1>1, ConsumeSingle DEF Singles
<1> QED
  BY <1>2, <1>3 DEF Singles

\* What is in flight after message m was published on connections of n.
LEMMA PublishFlight ==
    ASSUME NEW q \in [Link -> Seq(Message)], NEW n, NEW ls \in Reached(q, n),
           NEW m, net' = Publish(q, ls, m)
    PROVE  /\ ls \subseteq Link /\ \A k \in ls : k[1] = n
           /\ \A k \in Link : \A x : x \in InFlight(net', k) <=>
                                     x \in InFlight(q, k) \/ (k \in ls /\ x = m)
<1>1. ls \subseteq Link /\ \A k \in ls : k[1] = n
  BY DEF Reached, Room
<1> QED
  BY <1>1, PublishAdds

\* What is in flight after a message was read.
LEMMA ReadFlight ==
    ASSUME TypeOK, NEW l \in Link, Readable(net, l)
    PROVE  /\ Consume(net, l) \in [Link -> Seq(Message)]
           /\ Head(net[l]) \in InFlight(net, l)
           /\ \A k \in Link : \A x : x \in InFlight(Consume(net, l), k) => x \in InFlight(net, k)
           /\ \A S : AtMostOne(net, S) =>
                         /\ AtMostOne(Consume(net, l), S)
                         /\ Head(net[l]) \in S =>
                                \A x \in S : x \notin InFlight(Consume(net, l), l)
<1>1. net \in [Link -> Seq(Message)]
  BY DEF TypeOK
<1>2. Consume(net, l) \in [Link -> Seq(Message)]
  BY ReadMessage
<1>3. /\ Head(net[l]) \in InFlight(net, l)
      /\ \A k \in Link : InFlight(Consume(net, l), k) \subseteq InFlight(net, k)
  BY <1>1, ConsumeTakes
<1>4. ASSUME NEW S, AtMostOne(net, S)
      PROVE  /\ AtMostOne(Consume(net, l), S)
             /\ Head(net[l]) \in S => InFlight(Consume(net, l), l) \cap S = {}
  BY <1>1, <1>4, ConsumeSingle
<1> QED
  BY <1>2, <1>3, <1>4

\* Closing an open vote announces its only outcome.
LEMMA ClosingOnce ==
    ASSUME TypeOK, AtMostOneOutcome, NEW n \in Node, NEW p \in open[n],
           NEW r \in Result, Announce(n, p, r), open' = [open EXCEPT ![n] = @ \ {p}]
    PROVE  AtMostOneOutcome' /\ \A k \in Node : Handled(k)' = Handled(k)
<1>1. p \in Proposal /\ announced[n][p] = << >>
  BY DEF TypeOK, AtMostOneOutcome
<1>2. Append(announced[n][p], r) = <<r>> /\ Len(<<r>>) = 1 /\ <<r>> # << >>
  BY <1>1
<1>3. \A k \in Node, q \in Proposal :
          /\ announced'[k][q] = IF k = n /\ q = p THEN <<r>> ELSE announced[k][q]
          /\ q \in open'[k] <=> q \in open[k] /\ ~ (k = n /\ q = p)
  BY <1>1, <1>2 DEF TypeOK, Announce
<1>4. AtMostOneOutcome'
  <2> SUFFICES ASSUME NEW k \in Node, NEW q \in Proposal
               PROVE  /\ Len(announced'[k][q]) <= 1
                      /\ q \in open'[k] => announced'[k][q] = << >>
    BY DEF AtMostOneOutcome
  <2>1. CASE k = n /\ q = p
    <3>1. announced'[k][q] = <<r>> /\ q \notin open'[k]
      BY <1>3, <2>1
    <3> QED
      BY <3>1
  <2>2. CASE ~ (k = n /\ q = p)
    BY <1>3, <2>2 DEF AtMostOneOutcome
  <2> QED
    BY <2>1, <2>2
<1>5. \A k \in Node : Handled(k)' = Handled(k)
  BY <1>2, <1>3 DEF Handled
<1> QED
  BY <1>4, <1>5

\* The periodic check announces the only outcome of what it closes.
LEMMA PurgeOnce ==
    ASSUME TypeOK, Once, NEW n \in Node, Purge(n)
    PROVE  Once'
<1>1. \A p \in Expired(n) : p \in Proposal /\ p \in open[n] /\ announced[n][p] = << >>
  BY DEF TypeOK, Expired, Once, AtMostOneOutcome
<1>2. /\ Append(<< >>, "REJECTED") = <<"REJECTED">>
      /\ Len(<<"REJECTED">>) = 1 /\ <<"REJECTED">> # << >>
  OBVIOUS
<1>3. \A k \in Node, q \in Proposal :
          /\ announced'[k][q] = IF k = n /\ q \in Expired(n) THEN <<"REJECTED">>
                                ELSE announced[k][q]
          /\ q \in open'[k] <=> q \in open[k] /\ ~ (k = n /\ q \in Expired(n))
  BY <1>1, <1>2 DEF TypeOK, Purge
<1> HIDE DEF Expired
<1>4. AtMostOneOutcome'
  <2> SUFFICES ASSUME NEW k \in Node, NEW q \in Proposal
               PROVE  /\ Len(announced'[k][q]) <= 1
                      /\ q \in open'[k] => announced'[k][q] = << >>
    BY DEF AtMostOneOutcome
  <2>1. CASE k = n /\ q \in Expired(n)
    <3>1. announced'[k][q] = <<"REJECTED">> /\ q \notin open'[k]
      BY <1>3, <2>1
    <3> QED
      BY <3>1
  <2>2. CASE ~ (k = n /\ q \in Expired(n))
    BY <1>3, <2>2 DEF AtMostOneOutcome, Once
  <2> QED
    BY <2>1, <2>2
<1>5. \A k \in Node : Handled(k)' = Handled(k)
  BY <1>1, <1>2, <1>3 DEF Handled
<1>6. UNCHANGED <<role, served, proposed, net>>
  BY DEF Purge
<1>7. OnlyElectedLead' /\ Singles'
  BY <1>6 DEF Once, OnlyElectedLead, IsLeader, Singles
<1> QED
  BY <1>4, <1>5, <1>6, <1>7, OnceKept

\* Steps that leave the proposals handled and the connections alone, or only read.
LEMMA ReadingOnce ==
    ASSUME TypeOK, Once,
           \/ \E n \in Node : ChangeLeader(n)
           \/ \E n \in Node, p \in Proposal : PassDeadline(n, p)
           \/ \E l \in Link : CountVote(l) \/ Ignore(l)
           \/ UNCHANGED vars
    PROVE  Once'
<1>1. UNCHANGED <<proposed, open, announced>>
  BY DEF ChangeLeader, PassDeadline, CountVote, Ignore, vars, tableVars
<1>2. AtMostOneOutcome' /\ \A n \in Node : Handled(n)' = Handled(n)
  BY <1>1 DEF Once, AtMostOneOutcome, Handled
<1>3. Singles' /\ \A k \in Link : InFlight(net', k) \subseteq InFlight(net, k)
  <2>1. CASE UNCHANGED net
    BY <2>1 DEF Once, Singles
  <2>2. CASE \E l \in Link : CountVote(l) \/ Ignore(l)
    BY <2>2, ReadOnly DEF CountVote, Ignore, Once
  <2> QED
    BY <2>1, <2>2 DEF ChangeLeader, PassDeadline, vars
<1>4. OnlyElectedLead' /\ served \subseteq served'
  <2>1. CASE \E n \in Node : ChangeLeader(n)
    BY <2>1 DEF ChangeLeader, Elect, Depose, Resign, Echo, Once, OnlyElectedLead, IsLeader,
                TypeOK, LeadershipTypeOK
  <2>2. CASE UNCHANGED <<role, served>>
    BY <2>2 DEF Once, OnlyElectedLead, IsLeader
  <2> QED
    BY <2>1, <2>2 DEF PassDeadline, CountVote, Ignore, vars
<1> QED
  BY <1>1, <1>2, <1>3, <1>4, OnceKept

\* A vote that ends a proposal.
LEMMA EndingOnce ==
    ASSUME TypeOK, Once, NEW l \in Link, LateVote(l) \/ Decide(l)
    PROVE  Once'
<1> DEFINE n == l[2]
           p == Head(net[l]).id
<1>1. n \in Node /\ p \in open[n] /\ Readable(net, l)
  BY ReadMessage DEF LateVote, Decide, Countable
<1>2. /\ open' = [open EXCEPT ![n] = @ \ {p}]
      /\ net' = Consume(net, l)
      /\ UNCHANGED <<role, served, proposed>>
  BY DEF LateVote, Decide
<1>3. \E r \in Result : Announce(n, p, r)
  BY DEF LateVote, Decide, Result
<1> HIDE DEF n, p
<1>4. AtMostOneOutcome' /\ \A k \in Node : Handled(k)' = Handled(k)
  BY <1>1, <1>2, <1>3, ClosingOnce DEF Once
<1>5. OnlyElectedLead'
  BY <1>2 DEF Once, OnlyElectedLead, IsLeader
<1>6. Singles' /\ \A k \in Link : InFlight(net', k) \subseteq InFlight(net, k)
  BY <1>1, <1>2, ReadOnly DEF Once
<1> QED
  BY <1>2, <1>4, <1>5, <1>6, OnceKept

\* A new proposal has not been seen by anybody.
LEMMA ProposeOnce ==
    ASSUME TypeOK, Once, NEW p \in Proposal, Propose(p)
    PROVE  Once'
<1>1. PICK ls \in Reached(net, Author[p]) : net' = Publish(net, ls, ToLeader(p))
  BY DEF Propose
<1>2. p \notin proposed /\ proposed' = proposed \cup {p}
      /\ UNCHANGED <<role, served, open, announced>>
  BY DEF Propose, tableVars
<1>3. net \in [Link -> Seq(Message)]
  BY DEF TypeOK
<1>4. /\ ls \subseteq Link /\ \A k \in ls : k[1] = Author[p]
      /\ \A k \in Link : \A x : x \in InFlight(net', k) <=>
                                x \in InFlight(net, k) \/ (k \in ls /\ x = ToLeader(p))
  BY <1>1, <1>3, PublishFlight
<1>5. /\ OnlyElectedLead' /\ AtMostOneOutcome'
      /\ \A n \in Node : Handled(n)' = Handled(n)
  BY <1>2 DEF Once, OnlyElectedLead, IsLeader, AtMostOneOutcome, Handled
<1>6. HandledOK'
  BY <1>2, <1>5 DEF Once, HandledOK
<1>7. Requests'
  <2> SUFFICES ASSUME NEW k \in Link, NEW q \in Proposal, ToLeader(q) \in InFlight(net', k)
               PROVE  q \in proposed' /\ k[1] = Author[q] /\ q \notin Handled(k[2])'
    BY DEF Requests
  <2>1. k[2] \in Node
    BY LinkAssumption
  <2>2. CASE ToLeader(q) \in InFlight(net, k)
    BY <1>2, <1>5, <2>1, <2>2 DEF Once, Requests
  <2>3. CASE k \in ls /\ ToLeader(q) = ToLeader(p)
    BY <1>2, <1>4, <1>5, <2>1, <2>3, MessagesDiffer DEF Once, HandledOK
  <2> QED
    BY <1>4, <2>2, <2>3
<1>8. Calls'
  BY <1>4, <1>5, MessagesDiffer, LinkAssumption DEF Once, Calls
<1>9. Ballots'
  <2>1. \A k \in Link, v \in Node, q \in Proposal, r \in Result :
            VoteMsg(v, q, r) \in InFlight(net', k) => VoteMsg(v, q, r) \in InFlight(net, k)
    BY <1>4, MessagesDiffer
  <2> QED
    BY <1>2, <1>5, <2>1 DEF Once, Ballots, TypeOK, LeadershipTypeOK
<1>10. Singles'
  <2> SUFFICES ASSUME NEW q \in Proposal
               PROVE  AtMostOne(net', {ToLeader(q)}) /\ AtMostOne(net', {ToClients(q)})
    BY DEF Singles
  <2>1. AtMostOne(net, {ToLeader(q)}) /\ AtMostOne(net, {ToClients(q)})
    BY DEF Once, Singles
  <2>2. ToLeader(p) \in {ToLeader(q)} =>
            \A k \in Link \cap ls : InFlight(net, k) \cap {ToLeader(q)} = {}
    BY <1>2, MessagesDiffer DEF Once, Requests
  <2>3. ToLeader(p) \notin {ToClients(q)}
    BY MessagesDiffer
  <2>4. AtMostOne(net', {ToLeader(q)})
    BY <1>1, <1>3, <2>1, <2>2, PublishSingle
  <2>5. AtMostOne(net', {ToClients(q)})
    BY <1>1, <1>3, <2>1, <2>3, PublishSingle
  <2> QED
    BY <2>4, <2>5
<1> QED
  BY <1>5, <1>6, <1>7, <1>8, <1>9, <1>10 DEF Once

\* What an answer to the message m at l leaves in flight.
Answered(l, m, C, ls, a) ==
    /\ Readable(net, l) /\ Head(net[l]) = m /\ m \in InFlight(net, l)
    /\ C \in [Link -> Seq(Message)]
    /\ ls \subseteq Link /\ \A k \in ls : k[1] = l[2]
    /\ net' = Publish(C, ls, a)
    /\ \A k \in Link : \A x : x \in InFlight(net', k) <=>
                              x \in InFlight(C, k) \/ (k \in ls /\ x = a)
    /\ \A k \in Link : \A x : x \in InFlight(C, k) => x \in InFlight(net, k)
    /\ \A S : AtMostOne(net, S) =>
                  AtMostOne(C, S) /\ (m \in S => \A x \in S : x \notin InFlight(C, l))

\* A call for votes is read and answered.
LEMMA CastVoteFacts ==
    ASSUME TypeOK, NEW l \in Link, CastVote(l)
    PROVE  \E p \in Proposal, r \in Result : \E C, ls :
               Answered(l, ToClients(p), C, ls, VoteMsg(l[2], p, r))
<1>1. Readable(net, l) /\ Head(net[l]).type = "ProposeToClients"
  BY DEF CastVote
<1>2. PICK p \in Proposal : p = Head(net[l]).id /\ Head(net[l]) = ToClients(p)
  BY <1>1, ReadMessage, MessageForms
<1>3. PICK C : C = Consume(net, l)
  OBVIOUS
<1>4. PICK r \in Result, ls \in Reached(C, l[2]) : net' = Publish(C, ls, VoteMsg(l[2], p, r))
  BY <1>2, <1>3 DEF CastVote
<1>5. /\ C \in [Link -> Seq(Message)] /\ Head(net[l]) \in InFlight(net, l)
      /\ \A k \in Link : \A x : x \in InFlight(C, k) => x \in InFlight(net, k)
      /\ \A S : AtMostOne(net, S) =>
                    /\ AtMostOne(C, S)
                    /\ Head(net[l]) \in S => \A x \in S : x \notin InFlight(C, l)
  BY <1>1, <1>3, ReadFlight
<1>6. /\ ls \subseteq Link /\ \A k \in ls : k[1] = l[2]
      /\ \A k \in Link : \A x : x \in InFlight(net', k) <=>
                x \in InFlight(C, k) \/ (k \in ls /\ x = VoteMsg(l[2], p, r))
  BY <1>4, <1>5, PublishFlight
<1>7. Answered(l, ToClients(p), C, ls, VoteMsg(l[2], p, r))
  BY <1>1, <1>2, <1>4, <1>5, <1>6 DEF Answered
<1> QED
  BY <1>7

\* A proposal is read and a call for votes is published.
LEMMA OpenVoteFacts ==
    ASSUME TypeOK, NEW l \in Link, OpenVote(l)
    PROVE  \E p \in Proposal : \E C, ls :
               /\ Answered(l, ToLeader(p), C, ls, ToClients(p))
               /\ open' = [open EXCEPT ![l[2]] = @ \cup {p}]
               /\ \E view \in KnownViews[l[2]] : pd' = [pd EXCEPT ![l[2]][p] = Fresh(view)]
<1>1. Readable(net, l) /\ Head(net[l]).type = "ProposeToLeader"
  BY DEF OpenVote
<1>2. PICK p \in Proposal : p = Head(net[l]).id /\ Head(net[l]) = ToLeader(p)
  BY <1>1, ReadMessage, MessageForms
<1>3. PICK C : C = Consume(net, l)
  OBVIOUS
<1>4. PICK ls \in Reached(C, l[2]) : net' = Publish(C, ls, ToClients(p))
  BY <1>2, <1>3 DEF OpenVote
<1>5. /\ C \in [Link -> Seq(Message)] /\ Head(net[l]) \in InFlight(net, l)
      /\ \A k \in Link : \A x : x \in InFlight(C, k) => x \in InFlight(net, k)
      /\ \A S : AtMostOne(net, S) =>
                    /\ AtMostOne(C, S)
                    /\ Head(net[l]) \in S => \A x \in S : x \notin InFlight(C, l)
  BY <1>1, <1>3, ReadFlight
<1>6. /\ ls \subseteq Link /\ \A k \in ls : k[1] = l[2]
      /\ \A k \in Link : \A x : x \in InFlight(net', k) <=>
                x \in InFlight(C, k) \/ (k \in ls /\ x = ToClients(p))
  BY <1>4, <1>5, PublishFlight
<1>7. Answered(l, ToLeader(p), C, ls, ToClients(p))
  BY <1>1, <1>2, <1>4, <1>5, <1>6 DEF Answered
<1>8. /\ open' = [open EXCEPT ![l[2]] = @ \cup {p}]
      /\ \E view \in KnownViews[l[2]] : pd' = [pd EXCEPT ![l[2]][p] = Fresh(view)]
  BY <1>2 DEF OpenVote
<1> QED
  BY <1>7, <1>8

\* An application votes because somebody asked for it.
LEMMA CastVoteOnce ==
    ASSUME TypeOK, Once, NEW l \in Link, CastVote(l)
    PROVE  Once'
<1>0. PICK p \in Proposal, r \in Result : \E C, ls :
          Answered(l, ToClients(p), C, ls, VoteMsg(l[2], p, r))
  BY CastVoteFacts
<1>1. PICK C, ls :
          Answered(l, ToClients(p), C, ls, VoteMsg(l[2], p, r))
  BY <1>0
<1>2. UNCHANGED <<role, served, proposed, open, announced>>
  BY DEF CastVote, tableVars
<1>3. \A k \in Link : \A x : x \in InFlight(net', k) =>
                             x \in InFlight(net, k) \/ (k \in ls /\ x = VoteMsg(l[2], p, r))
  BY <1>1 DEF Answered
<1>4. l[1] \in served /\ p \in Handled(l[1])
  BY <1>1, LinkAssumption DEF Answered, Once, Calls, HandledOK
<1>5. /\ OnlyElectedLead' /\ AtMostOneOutcome'
      /\ \A k \in Node : Handled(k)' = Handled(k)
  BY <1>2 DEF Once, OnlyElectedLead, IsLeader, AtMostOneOutcome, Handled
<1>6. HandledOK'
  BY <1>2, <1>5 DEF Once, HandledOK
<1>7. Requests'
  BY <1>2, <1>3, <1>5, MessagesDiffer, LinkAssumption DEF Once, Requests
<1>8. Calls'
  BY <1>3, <1>5, MessagesDiffer, LinkAssumption DEF Once, Calls
<1>9. Ballots'
  <2> SUFFICES ASSUME NEW k \in Link, NEW v \in Node, NEW q \in Proposal, NEW s \in Result,
                      VoteMsg(v, q, s) \in InFlight(net', k)
               PROVE  v = k[1] /\ \E u \in served' : q \in Handled(u)'
    BY DEF Ballots
  <2>1. CASE VoteMsg(v, q, s) \in InFlight(net, k)
    BY <1>2, <1>5, <2>1 DEF Once, Ballots, TypeOK, LeadershipTypeOK
  <2>2. CASE k \in ls /\ VoteMsg(v, q, s) = VoteMsg(l[2], p, r)
    <3>1. v = l[2] /\ q = p
      BY <2>2, MessagesDiffer
    <3>2. k[1] = l[2]
      BY <1>1, <2>2 DEF Answered
    <3> QED
      BY <1>2, <1>4, <1>5, <3>1, <3>2, LinkAssumption
  <2> QED
    BY <1>3, <2>1, <2>2
<1>10. Singles'
  <2> SUFFICES ASSUME NEW q \in Proposal
               PROVE  AtMostOne(net', {ToLeader(q)}) /\ AtMostOne(net', {ToClients(q)})
    BY DEF Singles
  <2>1. VoteMsg(l[2], p, r) \notin {ToLeader(q)} /\ VoteMsg(l[2], p, r) \notin {ToClients(q)}
    BY MessagesDiffer
  <2>2. AtMostOne(C, {ToLeader(q)}) /\ AtMostOne(C, {ToClients(q)})
    BY <1>1 DEF Answered, Once, Singles
  <2>3. C \in [Link -> Seq(Message)] /\ net' = Publish(C, ls, VoteMsg(l[2], p, r))
    BY <1>1 DEF Answered
  <2> QED
    BY <2>1, <2>2, <2>3, PublishSingle
<1> QED
  BY <1>5, <1>6, <1>7, <1>8, <1>9, <1>10 DEF Once

\* A vote is opened on a proposal that this component has not handled before.
LEMMA OpenVoteOnce ==
    ASSUME TypeOK, Once, NEW l \in Link, OpenVote(l)
    PROVE  Once'
<1>0. PICK p \in Proposal : \E C, ls :
          /\ Answered(l, ToLeader(p), C, ls, ToClients(p))
          /\ open' = [open EXCEPT ![l[2]] = @ \cup {p}]
  BY OpenVoteFacts
<1>1. PICK C, ls :
          /\ Answered(l, ToLeader(p), C, ls, ToClients(p))
          /\ open' = [open EXCEPT ![l[2]] = @ \cup {p}]
  BY <1>0
<1>2. PICK n \in Node : n = l[2]
  BY LinkAssumption
<1>3. IsLeader(n) /\ UNCHANGED <<role, served, proposed, announced>>
  BY <1>2 DEF OpenVote
<1>4. \A k \in Link : \A x : x \in InFlight(net', k) =>
                             x \in InFlight(C, k) \/ (k \in ls /\ x = ToClients(p))
  BY <1>1 DEF Answered
<1>5. \A k \in Link : \A x : x \in InFlight(C, k) => x \in InFlight(net, k)
  BY <1>1 DEF Answered
<1>6. ls \subseteq Link /\ \A k \in ls : k[1] = n
  BY <1>1, <1>2 DEF Answered
<1>7. p \in proposed /\ l[1] = Author[p] /\ p \notin Handled(n)
  BY <1>1, <1>2 DEF Answered, Once, Requests
<1>8. ToLeader(p) \notin InFlight(C, l)
  BY <1>1 DEF Answered, Once, Singles
<1>9. n \in served
  BY <1>3 DEF Once, OnlyElectedLead
<1>10. \A k \in Node : Handled(k)' = IF k = n THEN Handled(k) \cup {p} ELSE Handled(k)
  <2>1. open' = [open EXCEPT ![n] = @ \cup {p}]
    BY <1>1, <1>2
  <2> QED
    BY <1>3, <2>1 DEF Handled, TypeOK
<1>11. OnlyElectedLead'
  BY <1>3 DEF Once, OnlyElectedLead, IsLeader
<1>12. AtMostOneOutcome'
  <2>1. announced[n][p] = << >>
    BY <1>7 DEF Handled
  <2>2. \A k \in Node, q \in Proposal : q \in open'[k] <=> q \in open[k] \/ (k = n /\ q = p)
    BY <1>1, <1>2 DEF TypeOK
  <2> QED
    BY <1>3, <2>1, <2>2 DEF Once, AtMostOneOutcome
<1>13. HandledOK'
  BY <1>3, <1>7, <1>9, <1>10 DEF Once, HandledOK
<1>14. Requests'
  <2> SUFFICES ASSUME NEW k \in Link, NEW q \in Proposal, ToLeader(q) \in InFlight(net', k)
               PROVE  q \in proposed' /\ k[1] = Author[q] /\ q \notin Handled(k[2])'
    BY DEF Requests
  <2>1. ToLeader(q) \in InFlight(C, k) /\ ToLeader(q) \in InFlight(net, k)
    BY <1>4, <1>5, MessagesDiffer
  <2>2. q \in proposed /\ k[1] = Author[q] /\ q \notin Handled(k[2]) /\ k[2] \in Node
    BY <2>1, LinkAssumption DEF Once, Requests
  <2>3. ~ (k[2] = n /\ q = p)
    BY <1>2, <1>7, <1>8, <2>1, <2>2, LinkEnds
  <2> QED
    BY <1>3, <1>10, <2>2, <2>3
<1>15. Calls'
  <2> SUFFICES ASSUME NEW k \in Link, NEW q \in Proposal, ToClients(q) \in InFlight(net', k)
               PROVE  q \in Handled(k[1])'
    BY DEF Calls
  <2>1. k[1] \in Node
    BY LinkAssumption
  <2>2. CASE ToClients(q) \in InFlight(net, k)
    BY <1>10, <2>1, <2>2 DEF Once, Calls
  <2>3. CASE k \in ls /\ ToClients(q) = ToClients(p)
    BY <1>6, <1>10, <2>1, <2>3, MessagesDiffer
  <2> QED
    BY <1>4, <1>5, <2>2, <2>3
<1>16. Ballots'
  <2>1. \A k \in Link, v \in Node, q \in Proposal, r \in Result :
            VoteMsg(v, q, r) \in InFlight(net', k) => VoteMsg(v, q, r) \in InFlight(net, k)
    BY <1>4, <1>5, MessagesDiffer
  <2>2. \A k \in Node : Handled(k) \subseteq Handled(k)'
    BY <1>10
  <2> QED
    BY <1>3, <2>1, <2>2 DEF Once, Ballots, TypeOK, LeadershipTypeOK
<1>17. Singles'
  <2> SUFFICES ASSUME NEW q \in Proposal
               PROVE  AtMostOne(net', {ToLeader(q)}) /\ AtMostOne(net', {ToClients(q)})
    BY DEF Singles
  <2>1. ToClients(p) \notin {ToLeader(q)}
    BY MessagesDiffer
  <2>2. ToClients(p) \in {ToClients(q)} =>
            \A k \in Link \cap ls : InFlight(C, k) \cap {ToClients(q)} = {}
    BY <1>5, <1>6, <1>7, MessagesDiffer DEF Once, Calls
  <2>3. AtMostOne(C, {ToLeader(q)}) /\ AtMostOne(C, {ToClients(q)})
    BY <1>1 DEF Answered, Once, Singles
  <2>4. C \in [Link -> Seq(Message)] /\ net' = Publish(C, ls, ToClients(p))
    BY <1>1 DEF Answered
  <2>5. AtMostOne(net', {ToLeader(q)})
    BY <2>1, <2>3, <2>4, PublishSingle
  <2>6. AtMostOne(net', {ToClients(q)})
    BY <2>2, <2>3, <2>4, PublishSingle
  <2> QED
    BY <2>5, <2>6
<1> QED
  BY <1>10, <1>11, <1>12, <1>13, <1>14, <1>15, <1>16, <1>17 DEF Once

\* Every step preserves it.
LEMMA NextOnce == TypeOK /\ Once /\ [Next]_vars => Once'
<1> SUFFICES ASSUME TypeOK, Once, [Next]_vars PROVE Once'
  OBVIOUS
<1>1. CASE \E n \in Node : ChangeLeader(n) \/ Purge(n)
  BY <1>1, ReadingOnce, PurgeOnce
<1>2. CASE \E p \in Proposal : Propose(p)
  BY <1>2, ProposeOnce
<1>3. CASE \E n \in Node, p \in Proposal : PassDeadline(n, p)
  BY <1>3, ReadingOnce
<1>4. CASE \E l \in Link : Receive(l)
  BY <1>4, OpenVoteOnce, EndingOnce, ReadingOnce, CastVoteOnce DEF Receive
<1> QED
  BY <1>1, <1>2, <1>3, <1>4, ReadingOnce DEF Next

THEOREM ConsensusOnce == Spec => []Once
  BY InitOnce, NextOnce, ConsensusTypeOK, PTL DEF Spec

\* However votes, deadlines, the periodic check and changes of leadership
\* interleave, a component announces one outcome per proposal at most and none
\* while the vote is open.
THEOREM OneOutcomePerLeader == Spec => []AtMostOneOutcome
<1>1. Once => AtMostOneOutcome
  BY DEF Once
<1> QED
  BY ConsensusOnce, <1>1, PTL

-----------------------------------------------------------------------------
(* One server.  While only one component was ever in office, it calls for  *)
(* the votes on a proposal once, so a member votes on it once, and its     *)
(* vote is on its way to a leader or counted there, and not both.          *)

\* What is recorded about a vote agrees.
Counts(d) ==
    /\ d.ayes \subseteq d.voted
    /\ d.accepted = Cardinality(d.ayes)
    /\ d.accepted + d.rejected = Cardinality(d.voted)

\* Nobody who is still to be asked about p has voted on it.
AskedFirst(p) ==
    \A l \in Link : ToClients(p) \in InFlight(net, l) =>
        /\ \A k \in Link, r \in Result : k[1] = l[2] => VoteMsg(l[2], p, r) \notin InFlight(net, k)
        /\ \A n \in Node : l[2] \notin pd[n][p].voted

\* No vote on p that is in flight was counted where it goes.
CountedLast(p) ==
    \A l \in Link, r \in Result :
        VoteMsg(l[1], p, r) \in InFlight(net, l) => l[1] \notin pd[l[2]][p].voted

\* What was accepted has a majority of distinct components behind it.
MajorityBehind(n, p) ==
    announced[n][p] = <<"ACCEPTED">> =>
        2 * Cardinality(pd[n][p].ayes) > Cardinality(pd[n][p].electors)

\* A component votes on p once and is counted once.
OneVote(p) ==
    /\ AtMostOne(net, VotesOn(p)) /\ AskedFirst(p) /\ CountedLast(p)
    /\ \A n \in Node : /\ pd[n][p].voted # {} => p \in Handled(n)
                       /\ Counts(pd[n][p])
                       /\ MajorityBehind(n, p)

OneServer == Cardinality(served) <= 1 => \A p \in Proposal : OneVote(p)

\* Two components that have been in office are one.
LEMMA SameServer ==
    ASSUME TypeOK, Cardinality(served) <= 1, NEW a \in served, NEW b \in served
    PROVE  a = b
<1>1. IsFiniteSet(served)
  BY NodeAssumption, FS_Subset DEF TypeOK, LeadershipTypeOK
<1>2. Cardinality({a, b}) <= 1
  <2>1. {a, b} \subseteq served
    OBVIOUS
  <2> QED
    BY <1>1, <2>1, FS_Subset, FS_CardinalityType
<1>3. CASE a # b
  <2>1. Cardinality({a} \cup {b}) = Cardinality({a}) + 1 /\ Cardinality({a}) = 1
    BY <1>3, FS_Singleton, FS_AddElement
  <2>2. {a} \cup {b} = {a, b}
    OBVIOUS
  <2> QED BY <1>2, <2>1, <2>2
<1> QED BY <1>3

\* Fewer have been in office before a step than after it.
LEMMA ServedGrows ==
    ASSUME TypeOK, TypeOK', served \subseteq served', Cardinality(served') <= 1
    PROVE  Cardinality(served) <= 1
<1>1. IsFiniteSet(served')
  BY NodeAssumption, FS_Subset DEF TypeOK, LeadershipTypeOK
<1> QED
  BY <1>1, FS_Subset, FS_CardinalityType

\* A majority of the electors is more than half of them.
LEMMA MajorityIsMost ==
    ASSUME NEW k \in Nat, NEW c \in Nat, c >= Majority(k)
    PROVE  2 * c > k
  BY DEF Majority

\* A voter who was not counted before makes every count one larger.
LEMMA TallyCounts ==
    ASSUME NEW d \in ProposeData, Counts(d), NEW m, m.src \in Node, m.src \notin d.voted,
           m.result \in Result
    PROVE  Counts(Tally(d, m))
<1>1. IsFiniteSet(d.voted) /\ IsFiniteSet(d.ayes)
  BY NodeAssumption, FS_Subset DEF ProposeData
<1>2. /\ d.voted \subseteq Node /\ d.ayes \subseteq Node
      /\ d.accepted \in Nat /\ d.rejected \in Nat
  BY DEF ProposeData
<1>3. PICK v : v = m.src
  OBVIOUS
<1>4. PICK e : e = Tally(d, m)
  OBVIOUS
<1>5. Cardinality(d.voted \cup {v}) = Cardinality(d.voted) + 1
  BY <1>1, <1>3, FS_AddElement
<1>6. v \notin d.ayes /\ Cardinality(d.ayes \cup {v}) = Cardinality(d.ayes) + 1
  BY <1>1, <1>3, FS_AddElement DEF Counts
<1>7. Cardinality(d.voted) \in Nat /\ Cardinality(d.ayes) \in Nat
  BY <1>1, FS_CardinalityType
<1>8. CASE m.result = "ACCEPTED"
  <2>1. /\ e.voted = d.voted \cup {v} /\ e.ayes = d.ayes \cup {v}
        /\ e.accepted = d.accepted + 1 /\ e.rejected = d.rejected
    BY <1>3, <1>4, <1>8 DEF Tally, ProposeData
  <2>2. Counts(e)
    BY <1>2, <1>5, <1>6, <1>7, <2>1 DEF Counts
  <2> QED
    BY <1>4, <2>2
<1>9. CASE m.result = "REJECTED"
  <2>1. /\ e.voted = d.voted \cup {v} /\ e.ayes = d.ayes
        /\ e.accepted = d.accepted /\ e.rejected = d.rejected + 1
    BY <1>3, <1>4, <1>9 DEF Tally, ProposeData
  <2>2. Counts(e)
    BY <1>2, <1>5, <1>6, <1>7, <2>1 DEF Counts
  <2> QED
    BY <1>4, <2>2
<1> QED
  BY <1>8, <1>9 DEF Result

LEMMA InitOneServer == Init => OneServer
<1> SUFFICES ASSUME Init, NEW p \in Proposal
             PROVE  OneVote(p)
  BY DEF OneServer
<1>1. \A l \in Link : InFlight(net, l) = {}
  BY EmptyFlight DEF Init
<1>2. AtMostOne(net, VotesOn(p))
  BY EmptyFlight DEF Init
<1>3. Counts(Fresh({})) /\ Fresh({}).voted = {}
  BY FS_EmptySet DEF Counts, Fresh
<1>4. \A n \in Node : Counts(pd[n][p]) /\ pd[n][p].voted = {}
  BY <1>3 DEF Init
<1>5. \A n \in Node : announced[n][p] = << >> /\ << >> # <<"ACCEPTED">>
  BY DEF Init
<1> QED
  BY <1>1, <1>2, <1>4, <1>5 DEF OneVote, AskedFirst, CountedLast, MajorityBehind

\* The record of p at n is the same but for its deadline.
SameCounts(n, p) ==
    /\ pd'[n][p].voted = pd[n][p].voted /\ pd'[n][p].ayes = pd[n][p].ayes
    /\ pd'[n][p].accepted = pd[n][p].accepted /\ pd'[n][p].rejected = pd[n][p].rejected
    /\ pd'[n][p].electors = pd[n][p].electors

\* A step that counts no vote on p, accepts it nowhere, and sends nothing about
\* it but the proposal itself.
LEMMA OneVoteKept ==
    ASSUME NEW p \in Proposal, OneVote(p),
           \A k \in Link :
               /\ ToClients(p) \in InFlight(net', k) => ToClients(p) \in InFlight(net, k)
               /\ \A x \in VotesOn(p) : x \in InFlight(net', k) => x \in InFlight(net, k),
           AtMostOne(net', VotesOn(p)),
           \A n \in Node : /\ SameCounts(n, p)
                           /\ p \in Handled(n) => p \in Handled(n)'
                           /\ announced'[n][p] = <<"ACCEPTED">> => announced[n][p] = <<"ACCEPTED">>
    PROVE  OneVote(p)'
<1> USE LinkAssumption
<1>1. \A v \in Node, r \in Result, k \in Link :
          VoteMsg(v, p, r) \in InFlight(net', k) => VoteMsg(v, p, r) \in InFlight(net, k)
  BY DEF VotesOn
<1>2. AskedFirst(p)'
  BY <1>1 DEF OneVote, AskedFirst, SameCounts
<1>3. CountedLast(p)'
  BY <1>1 DEF OneVote, CountedLast, SameCounts
<1>4. ASSUME NEW n \in Node
      PROVE  /\ pd'[n][p].voted # {} => p \in Handled(n)'
             /\ Counts(pd'[n][p])
             /\ MajorityBehind(n, p)'
  BY DEF OneVote, SameCounts, Counts, MajorityBehind
<1> QED
  BY <1>2, <1>3, <1>4 DEF OneVote

\* The steps that count no vote and ask nobody, besides a new proposal.
LEMMA QuietOneVote ==
    ASSUME TypeOK, Once, NEW p \in Proposal, OneVote(p),
           \/ \E n \in Node : ChangeLeader(n) \/ Purge(n)
           \/ \E n \in Node, q \in Proposal : PassDeadline(n, q)
           \/ \E l \in Link : LateVote(l) \/ Ignore(l)
           \/ UNCHANGED vars
    PROVE  OneVote(p)'
<1>1. \A n \in Node : SameCounts(n, p)
  <2>1. CASE UNCHANGED pd
    BY <2>1 DEF SameCounts
  <2>2. CASE \E n \in Node, q \in Proposal : PassDeadline(n, q)
    BY <2>2 DEF PassDeadline, SameCounts, TypeOK, ProposeData
  <2> QED
    BY <2>1, <2>2 DEF ChangeLeader, Purge, LateVote, Ignore, vars, tableVars
<1>2. /\ AtMostOne(net', VotesOn(p))
      /\ \A k \in Link : \A x : x \in InFlight(net', k) => x \in InFlight(net, k)
  <2>1. CASE UNCHANGED net
    BY <2>1 DEF OneVote
  <2>2. CASE \E l \in Link : LateVote(l) \/ Ignore(l)
    <3>1. PICK l \in Link : Readable(net, l) /\ net' = Consume(net, l)
      BY <2>2 DEF LateVote, Ignore
    <3> QED
      BY <3>1, ReadFlight DEF OneVote
  <2> QED
    BY <2>1, <2>2 DEF ChangeLeader, Purge, PassDeadline, vars
<1>3. ASSUME NEW n \in Node
      PROVE  /\ p \in Handled(n) => p \in Handled(n)'
             /\ announced'[n][p] = <<"ACCEPTED">> => announced[n][p] = <<"ACCEPTED">>
  <2>1. CASE UNCHANGED <<open, announced>>
    BY <2>1 DEF Handled
  <2>2. CASE \E k \in Node : Purge(k)
    <3>1. PICK k \in Node : Purge(k)
      BY <2>2
    <3>2. k = n /\ p \in Expired(n) => announced[n][p] = << >>
      BY DEF Expired, Once, AtMostOneOutcome
    <3>3. announced'[n][p] = IF k = n /\ p \in Expired(n) THEN Append(announced[n][p], "REJECTED")
                             ELSE announced[n][p]
      BY <3>1 DEF Purge, TypeOK
    <3>4. ~ (k = n /\ p \in Expired(n)) => (p \in open'[n] <=> p \in open[n])
      BY <3>1 DEF Purge, TypeOK
    <3>5. Append(<< >>, "REJECTED") # <<"ACCEPTED">> /\ Append(<< >>, "REJECTED") # << >>
      OBVIOUS
    <3> QED
      BY <3>2, <3>3, <3>4, <3>5 DEF Handled
  <2>3. CASE \E l \in Link : LateVote(l)
    <3>1. PICK l \in Link : LateVote(l)
      BY <2>3
    <3>2. PICK k \in Node, q \in Proposal : k = l[2] /\ q = Head(net[l]).id
      BY <3>1, ReadMessage DEF LateVote
    <3>3. q \in open[k] /\ Announce(k, q, "REJECTED") /\ open' = [open EXCEPT ![k] = @ \ {q}]
      BY <3>1, <3>2 DEF LateVote
    <3>4. announced[k][q] = << >>
      BY <3>3 DEF Once, AtMostOneOutcome
    <3>5. announced'[n][p] = IF n = k /\ p = q THEN Append(announced[n][p], "REJECTED")
                             ELSE announced[n][p]
      BY <3>3 DEF Announce, TypeOK
    <3>6. ~ (n = k /\ p = q) => (p \in open'[n] <=> p \in open[n])
      BY <3>3 DEF TypeOK
    <3>7. Append(<< >>, "REJECTED") # <<"ACCEPTED">> /\ Append(<< >>, "REJECTED") # << >>
      OBVIOUS
    <3> QED
      BY <3>4, <3>5, <3>6, <3>7 DEF Handled
  <2> QED
    BY <2>1, <2>2, <2>3 DEF ChangeLeader, PassDeadline, Ignore, vars, tableVars
<1> QED
  BY <1>1, <1>2, <1>3, OneVoteKept

\* A member proposes.
LEMMA ProposeOneVote ==
    ASSUME TypeOK, Once, NEW p \in Proposal, OneVote(p), NEW q \in Proposal, Propose(q)
    PROVE  OneVote(p)'
<1>1. PICK ls \in Reached(net, Author[q]) : net' = Publish(net, ls, ToLeader(q))
  BY DEF Propose
<1>2. net \in [Link -> Seq(Message)]
  BY DEF TypeOK
<1>3. \A k \in Link : \A x : x \in InFlight(net', k) <=>
                             x \in InFlight(net, k) \/ (k \in ls /\ x = ToLeader(q))
  BY <1>1, <1>2, PublishFlight
<1>4. ToLeader(q) \notin VotesOn(p) /\ ToLeader(q) # ToClients(p)
  BY MessagesDiffer DEF VotesOn
<1>5. AtMostOne(net', VotesOn(p))
  BY <1>1, <1>2, <1>4, PublishSingle DEF OneVote
<1>6. \A k \in Link : /\ ToClients(p) \in InFlight(net', k) => ToClients(p) \in InFlight(net, k)
                      /\ \A x \in VotesOn(p) : x \in InFlight(net', k) => x \in InFlight(net, k)
  BY <1>3, <1>4
<1>7. UNCHANGED <<open, pd, announced>>
  BY DEF Propose, tableVars
<1>8. \A n \in Node : /\ SameCounts(n, p)
                      /\ p \in Handled(n) => p \in Handled(n)'
                      /\ announced'[n][p] = <<"ACCEPTED">> => announced[n][p] = <<"ACCEPTED">>
  BY <1>7 DEF SameCounts, Handled
<1> QED
  BY <1>5, <1>6, <1>8, OneVoteKept

\* The only server opens the vote on a proposal that nobody was asked about.
LEMMA OpenVoteOneVote ==
    ASSUME TypeOK, Once, Cardinality(served) <= 1, NEW p \in Proposal, OneVote(p),
           NEW l \in Link, OpenVote(l)
    PROVE  OneVote(p)'
<1>0. PICK q \in Proposal : \E C, ls :
          /\ Answered(l, ToLeader(q), C, ls, ToClients(q))
          /\ open' = [open EXCEPT ![l[2]] = @ \cup {q}]
          /\ \E view \in KnownViews[l[2]] : pd' = [pd EXCEPT ![l[2]][q] = Fresh(view)]
  BY OpenVoteFacts
<1>1. PICK C, ls :
          /\ Answered(l, ToLeader(q), C, ls, ToClients(q))
          /\ open' = [open EXCEPT ![l[2]] = @ \cup {q}]
          /\ \E view \in KnownViews[l[2]] : pd' = [pd EXCEPT ![l[2]][q] = Fresh(view)]
  BY <1>0
<1>2. PICK n \in Node : n = l[2]
  BY LinkAssumption
<1>3. PICK view : pd' = [pd EXCEPT ![n][q] = Fresh(view)]
  BY <1>1, <1>2
<1>4. IsLeader(n) /\ announced' = announced
  BY <1>2 DEF OpenVote
<1>5. \A k \in Link : \A x : x \in InFlight(net', k) =>
                             x \in InFlight(net, k) \/ x = ToClients(q)
  BY <1>1 DEF Answered
<1>6. AtMostOne(net', VotesOn(p))
  <2>1. ToClients(q) \notin VotesOn(p)
    BY MessagesDiffer DEF VotesOn
  <2>2. /\ C \in [Link -> Seq(Message)] /\ net' = Publish(C, ls, ToClients(q))
        /\ AtMostOne(C, VotesOn(p))
    BY <1>1 DEF Answered, OneVote
  <2> QED
    BY <2>1, <2>2, PublishSingle
<1>7. \A k \in Node : p \in Handled(k) => p \in Handled(k)'
  BY <1>1, <1>2, <1>4 DEF Handled, TypeOK
<1>8. \A k \in Node : pd'[k][p] = IF k = n /\ p = q THEN Fresh(view) ELSE pd[k][p]
  BY <1>3 DEF TypeOK
<1>9. \A k \in Link : \A x : x \in VotesOn(p) /\ x \in InFlight(net', k) => x \in InFlight(net, k)
  BY <1>5, MessagesDiffer DEF VotesOn
<1>10. CASE p # q
  <2>1. \A k \in Link : ToClients(p) \in InFlight(net', k) => ToClients(p) \in InFlight(net, k)
    BY <1>5, <1>10, MessagesDiffer
  <2>2. \A k \in Node : SameCounts(k, p)
    BY <1>8, <1>10 DEF SameCounts
  <2> QED
    BY <1>4, <1>6, <1>7, <1>9, <2>1, <2>2, OneVoteKept
<1>11. CASE p = q
  <2>1. n \in served /\ p \notin Handled(n)
    BY <1>1, <1>2, <1>4, <1>11 DEF Answered, Once, Requests, OnlyElectedLead
  <2>2. \A k \in Node : p \notin Handled(k)
    BY <2>1, SameServer DEF Once, HandledOK
  <2>3. served \subseteq Node
    BY DEF TypeOK, LeadershipTypeOK
  <2>4. \A k \in Link, v \in Node, r \in Result : VoteMsg(v, p, r) \notin InFlight(net', k)
    <3>1. \A k \in Link, v \in Node, r \in Result : VoteMsg(v, p, r) \notin InFlight(net, k)
      BY <2>2, <2>3 DEF Once, Ballots
    <3> QED
      BY <1>9, <3>1 DEF VotesOn
  <2>5. Fresh(view).voted = {} /\ Counts(Fresh(view))
    BY FS_EmptySet DEF Fresh, Counts
  <2>6. \A k \in Node : pd'[k][p].voted = {} /\ Counts(pd'[k][p])
    BY <1>8, <2>2, <2>5 DEF OneVote
  <2>7. \A k \in Node : announced'[k][p] = << >> /\ << >> # <<"ACCEPTED">>
    BY <1>4, <2>2 DEF Handled
  <2>8. AskedFirst(p)' /\ CountedLast(p)'
    BY <2>4, <2>6, LinkAssumption DEF AskedFirst, CountedLast
  <2>9. \A k \in Node : MajorityBehind(k, p)'
    BY <2>7 DEF MajorityBehind
  <2> QED
    BY <1>6, <2>6, <2>8, <2>9 DEF OneVote
<1> QED
  BY <1>10, <1>11

\* A member that is asked by the only server votes for the first time.
LEMMA CastVoteOneVote ==
    ASSUME TypeOK, Once, Cardinality(served) <= 1, NEW p \in Proposal, OneVote(p),
           NEW l \in Link, CastVote(l)
    PROVE  OneVote(p)'
<1>0. PICK q \in Proposal, r \in Result : \E C, ls :
          Answered(l, ToClients(q), C, ls, VoteMsg(l[2], q, r))
  BY CastVoteFacts
<1>1. PICK C, ls :
          Answered(l, ToClients(q), C, ls, VoteMsg(l[2], q, r))
  BY <1>0
<1>2. PICK v \in Node : v = l[2]
  BY LinkAssumption
<1>3. UNCHANGED <<open, pd, announced>>
  BY DEF CastVote, tableVars
<1>4. /\ \A k \in Link : \A x : x \in InFlight(net', k) =>
                                x \in InFlight(C, k) \/ (k \in ls /\ x = VoteMsg(v, q, r))
      /\ \A k \in Link : \A x : x \in InFlight(C, k) => x \in InFlight(net, k)
      /\ ls \subseteq Link /\ \A k \in ls : k[1] = v
  BY <1>1, <1>2 DEF Answered
<1>5. C \in [Link -> Seq(Message)] /\ net' = Publish(C, ls, VoteMsg(v, q, r))
  BY <1>1, <1>2 DEF Answered
<1>6. AtMostOne(C, VotesOn(p))
  BY <1>1 DEF Answered, OneVote
<1>7. \A n \in Node : /\ SameCounts(n, p)
                      /\ p \in Handled(n) => p \in Handled(n)'
  BY <1>3 DEF SameCounts, Handled
<1>8. CASE p # q
  <2>1. VoteMsg(v, q, r) \notin VotesOn(p) /\ VoteMsg(v, q, r) # ToClients(p)
    BY <1>8, MessagesDiffer DEF VotesOn
  <2>2. AtMostOne(net', VotesOn(p))
    BY <1>5, <1>6, <2>1, PublishSingle
  <2>3. \A k \in Link : /\ ToClients(p) \in InFlight(net', k) => ToClients(p) \in InFlight(net, k)
                        /\ \A x \in VotesOn(p) : x \in InFlight(net', k) => x \in InFlight(net, k)
    BY <1>4, <2>1
  <2> QED
    BY <1>3, <1>7, <2>2, <2>3, OneVoteKept
<1>9. CASE p = q
  <2>1. ToClients(p) \in InFlight(net, l) /\ ToClients(p) \notin InFlight(C, l)
    BY <1>1, <1>9 DEF Answered, Once, Singles
  <2>2. /\ \A k \in Link, s \in Result : k[1] = v => VoteMsg(v, p, s) \notin InFlight(net, k)
        /\ \A n \in Node : v \notin pd[n][p].voted
    BY <1>2, <2>1 DEF OneVote, AskedFirst
  <2>3. AtMostOne(net', VotesOn(p))
    <3>1. \A k \in Link \cap ls : InFlight(C, k) \cap VotesOn(p) = {}
      BY <1>4, <2>2 DEF VotesOn, Once, Ballots
    <3> QED
      BY <1>5, <1>6, <3>1, PublishSingle
  <2>4. AskedFirst(p)'
    <3> SUFFICES ASSUME NEW k \in Link, ToClients(p) \in InFlight(net', k)
                 PROVE  /\ \A j \in Link, s \in Result :
                               j[1] = k[2] => VoteMsg(k[2], p, s) \notin InFlight(net', j)
                        /\ \A n \in Node : k[2] \notin pd'[n][p].voted
      BY DEF AskedFirst
    <3>1. ToClients(p) \in InFlight(C, k) /\ ToClients(p) \in InFlight(net, k)
      BY <1>4, MessagesDiffer
    <3>2. p \in Handled(k[1]) /\ p \in Handled(l[1]) /\ k[1] \in Node /\ l[1] \in Node
      BY <2>1, <3>1, LinkAssumption DEF Once, Calls
    <3>3. k[1] = l[1]
      BY <3>2, SameServer DEF Once, HandledOK
    <3>4. k[2] # v
      BY <1>2, <2>1, <3>1, <3>3, LinkEnds
    <3>5. /\ \A j \in Link, s \in Result :
                 j[1] = k[2] => VoteMsg(k[2], p, s) \notin InFlight(net, j)
          /\ \A n \in Node : k[2] \notin pd[n][p].voted
      BY <3>1 DEF OneVote, AskedFirst
    <3>6. ASSUME NEW j \in Link, NEW s \in Result, VoteMsg(k[2], p, s) \in InFlight(net', j)
          PROVE  VoteMsg(k[2], p, s) \in InFlight(net, j)
      BY <1>4, <3>4, <3>6, MessagesDiffer
    <3> QED
      BY <1>3, <3>5, <3>6
  <2>5. CountedLast(p)'
    <3> SUFFICES ASSUME NEW k \in Link, NEW s \in Result,
                        VoteMsg(k[1], p, s) \in InFlight(net', k)
                 PROVE  k[1] \notin pd'[k[2]][p].voted
      BY DEF CountedLast
    <3>1. CASE VoteMsg(k[1], p, s) \in InFlight(net, k)
      BY <1>3, <3>1 DEF OneVote, CountedLast
    <3>2. CASE k \in ls
      BY <1>3, <1>4, <2>2, <3>2, LinkAssumption
    <3> QED
      BY <1>4, <3>1, <3>2
  <2>6. \A n \in Node : /\ pd'[n][p].voted # {} => p \in Handled(n)'
                        /\ Counts(pd'[n][p])
                        /\ MajorityBehind(n, p)'
    BY <1>3, <1>7 DEF OneVote, MajorityBehind
  <2> QED
    BY <2>3, <2>4, <2>5, <2>6 DEF OneVote
<1> QED
  BY <1>8, <1>9

\* What reading a vote that counts does.
LEMMA CountingFacts ==
    ASSUME TypeOK, Once, NEW l \in Link, CountVote(l) \/ Decide(l)
    PROVE  \E q \in Proposal, r \in Result : \E m :
               /\ m = VoteMsg(l[1], q, r) /\ m = Head(net[l])
               /\ m \in InFlight(net, l)
               /\ Readable(net, l) /\ net' = Consume(net, l)
               /\ q \in open[l[2]]
               /\ pd' = [pd EXCEPT ![l[2]][q] = Tally(pd[l[2]][q], m)]
<1>1. Readable(net, l) /\ Head(net[l]).type = "Vote" /\ net' = Consume(net, l)
  BY DEF CountVote, Decide, Countable
<1>2. PICK m : m = Head(net[l])
  OBVIOUS
<1>3. /\ m \in Message /\ m.id \in Proposal /\ m.src \in Node /\ m.result \in Result
      /\ m \in InFlight(net, l)
  BY <1>1, <1>2, ReadMessage, ReadFlight
<1>4. m = VoteMsg(m.src, m.id, m.result)
  BY <1>1, <1>2, <1>3, MessageForms
<1>5. m.src = l[1]
  BY <1>3, <1>4 DEF Once, Ballots
<1>6. m.id \in open[l[2]] /\ pd' = [pd EXCEPT ![l[2]][m.id] = Tally(pd[l[2]][m.id], m)]
  BY <1>2 DEF CountVote, Decide, Countable
<1> QED
  BY <1>1, <1>2, <1>3, <1>4, <1>5, <1>6

\* A vote is announced as accepted when a majority of acceptances was counted.
LEMMA DecideAnnounces ==
    ASSUME TypeOK, Once, NEW l \in Link, CountVote(l) \/ Decide(l), NEW q \in Proposal,
           q = Head(net[l]).id
    PROVE  \A n \in Node, p \in Proposal :
               IF n = l[2] /\ p = q
               THEN announced'[n][p] = <<"ACCEPTED">> =>
                        pd'[n][p].accepted >= Majority(Cardinality(pd'[n][p].electors))
               ELSE announced'[n][p] = announced[n][p]
<1>1. PICK n \in Node : n = l[2]
  BY LinkAssumption
<1>2. q \in open[n] /\ announced[n][q] = << >>
  BY <1>1 DEF CountVote, Decide, Countable, Once, AtMostOneOutcome
<1>3. PICK d : d = Tally(pd[n][q], Head(net[l]))
  OBVIOUS
<1>4. pd' = [pd EXCEPT ![n][q] = d]
  BY <1>1, <1>3 DEF CountVote, Decide
<1>5. pd'[n][q] = d
  BY <1>4 DEF TypeOK
<1>6. CASE CountVote(l)
  <2>1. announced' = announced /\ << >> # <<"ACCEPTED">>
    BY <1>6 DEF CountVote
  <2> QED
    BY <1>1, <1>2, <2>1
<1>7. CASE Decide(l)
  <2>1. PICK r : r = IF d.accepted >= Majority(Cardinality(d.electors))
                     THEN "ACCEPTED" ELSE "REJECTED"
    OBVIOUS
  <2>2. Announce(n, q, r)
    BY <1>1, <1>3, <1>7, <2>1 DEF Decide
  <2>3. \A k \in Node, p \in Proposal :
            announced'[k][p] = IF k = n /\ p = q THEN Append(announced[n][q], r)
                               ELSE announced[k][p]
    BY <2>2 DEF Announce, TypeOK
  <2>4. Append(<< >>, r) = <<"ACCEPTED">> => r = "ACCEPTED"
    OBVIOUS
  <2>5. announced'[n][q] = <<"ACCEPTED">> => r = "ACCEPTED"
    BY <1>2, <2>3, <2>4
  <2>6. r = "ACCEPTED" => d.accepted >= Majority(Cardinality(d.electors))
    BY <2>1
  <2> QED
    BY <1>1, <1>5, <2>3, <2>5, <2>6
<1> QED
  BY <1>6, <1>7

\* A vote that is counted was not counted before.
LEMMA CountingOneVote ==
    ASSUME TypeOK, TypeOK', Once, NEW p \in Proposal, OneVote(p),
           NEW l \in Link, CountVote(l) \/ Decide(l)
    PROVE  OneVote(p)'
<1>0. PICK q \in Proposal, r \in Result : \E m :
          /\ m = VoteMsg(l[1], q, r) /\ m = Head(net[l])
          /\ m \in InFlight(net, l)
          /\ Readable(net, l) /\ net' = Consume(net, l)
          /\ q \in open[l[2]]
          /\ pd' = [pd EXCEPT ![l[2]][q] = Tally(pd[l[2]][q], m)]
  BY CountingFacts
<1>1. PICK m :
          /\ m = VoteMsg(l[1], q, r) /\ m = Head(net[l])
          /\ m \in InFlight(net, l)
          /\ Readable(net, l) /\ net' = Consume(net, l)
          /\ q \in open[l[2]]
          /\ pd' = [pd EXCEPT ![l[2]][q] = Tally(pd[l[2]][q], m)]
  BY <1>0
<1>2. PICK n \in Node, v \in Node : n = l[2] /\ v = l[1]
  BY LinkAssumption
<1>3. m.src = v /\ m.id = q /\ m.result = r
  BY <1>1, <1>2 DEF VoteMsg
<1>4. /\ \A k \in Link : \A x : x \in InFlight(net', k) => x \in InFlight(net, k)
      /\ AtMostOne(net', VotesOn(p))
      /\ m \in VotesOn(p) => \A x \in VotesOn(p) : x \notin InFlight(net', l)
  BY <1>1, ReadFlight DEF OneVote
<1>5. \A k \in Node : p \in Handled(k) => p \in Handled(k)'
  <2>1. CASE CountVote(l)
    BY <2>1 DEF CountVote, Handled
  <2>2. CASE Decide(l)
    <3>1. open' = [open EXCEPT ![n] = @ \ {q}] /\ \E s \in Result : Announce(n, q, s)
      BY <1>1, <1>2, <1>3, <2>2 DEF Decide, Result
    <3> QED
      BY <1>1, <1>2, <3>1, ClosingOnce DEF Once
  <2> QED
    BY <2>1, <2>2
<1>6. \A k \in Node : pd'[k][p] = IF k = n /\ p = q THEN Tally(pd[n][p], m) ELSE pd[k][p]
  BY <1>1, <1>2 DEF TypeOK
<1>7. \A k \in Node :
          IF k = n /\ p = q
          THEN announced'[k][p] = <<"ACCEPTED">> =>
                   pd'[k][p].accepted >= Majority(Cardinality(pd'[k][p].electors))
          ELSE announced'[k][p] = announced[k][p]
  BY <1>1, <1>2, <1>3, DecideAnnounces
<1>8. CASE p # q
  <2>1. \A k \in Node : /\ SameCounts(k, p)
                        /\ announced'[k][p] = announced[k][p]
    BY <1>6, <1>7, <1>8 DEF SameCounts
  <2> QED
    BY <1>4, <1>5, <2>1, OneVoteKept
<1>9. CASE p = q
  <2>1. VoteMsg(v, p, r) \in InFlight(net, l) /\ m \in VotesOn(p)
    <3>1. m = VoteMsg(v, p, r) /\ m \in InFlight(net, l)
      BY <1>1, <1>2, <1>9
    <3>2. VoteMsg(v, p, r) \in VotesOn(p)
      BY DEF VotesOn
    <3> QED
      BY <3>1, <3>2
  <2>2. v \notin pd[n][p].voted
    BY <1>2, <2>1 DEF OneVote, CountedLast
  <2>3. \A k \in Node : \A u : u \in pd'[k][p].voted => u \in pd[k][p].voted \/ (k = n /\ u = v)
    <3>1. pd[n][p] \in ProposeData
      BY DEF TypeOK
    <3>2. Tally(pd[n][p], m).voted = pd[n][p].voted \cup {v}
      BY <1>3, <3>1 DEF Tally, ProposeData
    <3>3. pd'[n][p].voted = pd[n][p].voted \cup {v}
      BY <1>6, <1>9, <3>2
    <3> QED
      BY <1>6, <3>3
  <2>4. \A k \in Node : Counts(pd'[k][p])
    <3>1. pd[n][p] \in ProposeData
      BY DEF TypeOK
    <3>2. Counts(Tally(pd[n][p], m))
      BY <1>3, <2>2, <3>1, TallyCounts DEF OneVote
    <3> QED
      BY <1>6, <3>2 DEF OneVote
  <2>5. AskedFirst(p)'
    <3> SUFFICES ASSUME NEW k \in Link, ToClients(p) \in InFlight(net', k)
                 PROVE  /\ \A j \in Link, s \in Result :
                               j[1] = k[2] => VoteMsg(k[2], p, s) \notin InFlight(net', j)
                        /\ \A i \in Node : k[2] \notin pd'[i][p].voted
      BY DEF AskedFirst
    <3>1. /\ \A j \in Link, s \in Result :
                 j[1] = k[2] => VoteMsg(k[2], p, s) \notin InFlight(net, j)
          /\ \A i \in Node : k[2] \notin pd[i][p].voted
      BY <1>4 DEF OneVote, AskedFirst
    <3>2. k[2] # v
      BY <1>2, <2>1, <3>1
    <3> QED
      BY <1>4, <2>3, <3>1, <3>2
  <2>6. CountedLast(p)'
    <3> SUFFICES ASSUME NEW k \in Link, NEW s \in Result,
                        VoteMsg(k[1], p, s) \in InFlight(net', k)
                 PROVE  k[1] \notin pd'[k[2]][p].voted
      BY DEF CountedLast
    <3>1. k[1] \in Node /\ k[2] \in Node
      BY LinkAssumption
    <3>2. k[1] \notin pd[k[2]][p].voted
      BY <1>4 DEF OneVote, CountedLast
    <3>3. k # l
      BY <1>4, <2>1, <3>1 DEF VotesOn
    <3> QED
      BY <1>2, <2>3, <3>1, <3>2, <3>3, LinkEnds
  <2>7. \A k \in Node : pd'[k][p].voted # {} => p \in Handled(k)'
    <3>1. p \in Handled(n)
      BY <1>1, <1>2, <1>9 DEF Handled
    <3> QED
      BY <1>5, <1>6, <3>1 DEF OneVote
  <2>8. \A k \in Node : MajorityBehind(k, p)'
    <3>1. MajorityBehind(n, p)'
      <4>1. pd'[n][p] \in ProposeData
        BY DEF TypeOK
      <4>2. /\ Cardinality(pd'[n][p].electors) \in Nat
            /\ pd'[n][p].accepted \in Nat
            /\ pd'[n][p].accepted = Cardinality(pd'[n][p].ayes)
        BY <4>1, <2>4, NodeAssumption, FS_Subset, FS_CardinalityType DEF ProposeData, Counts
      <4> QED
        BY <1>7, <1>9, <4>2, MajorityIsMost DEF MajorityBehind
    <3>2. ASSUME NEW k \in Node, k # n
          PROVE  MajorityBehind(k, p)'
      <4>1. pd'[k][p] = pd[k][p] /\ announced'[k][p] = announced[k][p]
        BY <1>6, <1>7, <3>2
      <4> QED
        BY <4>1 DEF OneVote, MajorityBehind
    <3> QED
      BY <3>1, <3>2
  <2> QED
    BY <1>4, <2>4, <2>5, <2>6, <2>7, <2>8 DEF OneVote
<1> QED
  BY <1>8, <1>9

\* Every step preserves it.
LEMMA NextOneServer == TypeOK /\ TypeOK' /\ Once /\ OneServer /\ [Next]_vars => OneServer'
<1> SUFFICES ASSUME TypeOK, TypeOK', Once, OneServer, [Next]_vars,
                    Cardinality(served') <= 1, NEW p \in Proposal
             PROVE  OneVote(p)'
  BY DEF OneServer
<1>1. served \subseteq served'
  <2>1. CASE \E n \in Node : ChangeLeader(n)
    BY <2>1 DEF ChangeLeader, Elect, Depose, Resign, Echo
  <2>2. CASE UNCHANGED served
    BY <2>2
  <2> QED
    BY <2>1, <2>2 DEF Next, Purge, Propose, PassDeadline, Receive, OpenVote, LateVote,
                      CountVote, Decide, CastVote, Ignore, vars
<1>2. Cardinality(served) <= 1
  BY <1>1, ServedGrows
<1>3. OneVote(p)
  BY <1>2 DEF OneServer
<1>4. CASE \E n \in Node : ChangeLeader(n) \/ Purge(n)
  BY <1>3, <1>4, QuietOneVote
<1>5. CASE \E q \in Proposal : Propose(q)
  BY <1>3, <1>5, ProposeOneVote
<1>6. CASE \E n \in Node, q \in Proposal : PassDeadline(n, q)
  BY <1>3, <1>6, QuietOneVote
<1>7. CASE \E l \in Link : Receive(l)
  BY <1>2, <1>3, <1>7, OpenVoteOneVote, CastVoteOneVote, CountingOneVote, QuietOneVote
     DEF Receive
<1>8. CASE UNCHANGED vars
  BY <1>3, <1>8, QuietOneVote
<1> QED
  BY <1>4, <1>5, <1>6, <1>7, <1>8 DEF Next

\* While one component at most has ever been in office, the votes counted for a
\* proposal are those of distinct components, and what OnVote announces as
\* accepted has the acceptance of more than half of the components that were
\* known when the vote was opened.
THEOREM OneServerNeverDoubleCounts == Spec => []OneServerCountsOnce
<1>1. OneServer => OneServerCountsOnce
  BY DEF OneServer, OneVote, Counts, MajorityBehind, OneServerCountsOnce
<1>2. Spec => []OneServer
  BY InitOneServer, NextOneServer, ConsensusTypeOK, ConsensusOnce, PTL DEF Spec
<1> QED
  BY <1>1, <1>2, PTL

-----------------------------------------------------------------------------
(* What the group may conclude from an outcome.                            *)

\* Whatever happens, an outcome is about a value or an action that its author
\* has proposed, and comes from a component that has won an election.
THEOREM OutcomesHaveOrigins ==
    Spec => [](\A n \in Node, p \in Proposal :
                   announced[n][p] # << >> => p \in proposed /\ n \in served)
<1>1. Once => \A n \in Node, p \in Proposal :
                  announced[n][p] # << >> => p \in proposed /\ n \in served
  BY DEF Once, HandledOK, Handled
<1> QED
  BY ConsensusOnce, <1>1, PTL

\* A component's outcomes only grow, by one of the two results.
LEMMA AnnouncedGrows ==
    ASSUME TypeOK, [Next]_vars, NEW n \in Node, NEW p \in Proposal
    PROVE  \/ announced'[n][p] = announced[n][p]
           \/ \E r \in Result : announced'[n][p] = Append(announced[n][p], r)
<1>1. CASE UNCHANGED announced
  BY <1>1
<1>2. CASE \E k \in Node : Purge(k)
  BY <1>2 DEF Purge, TypeOK, Result
<1>3. CASE \E l \in Link : LateVote(l) \/ Decide(l)
  <2>1. PICK l \in Link : LateVote(l) \/ Decide(l)
    BY <1>3
  <2>2. PICK r \in Result : Announce(l[2], Head(net[l]).id, r)
    BY <2>1 DEF LateVote, Decide, Result
  <2> QED
    BY <2>2 DEF Announce, TypeOK
<1> QED
  BY <1>1, <1>2, <1>3
     DEF Next, ChangeLeader, Propose, PassDeadline, Receive, OpenVote, CountVote, CastVote,
         Ignore, vars, tableVars

\* An outcome is final: no later vote, deadline, purge or change of leadership
\* makes the component that published it announce another one or open the vote
\* again.
THEOREM OutcomesAreFinal ==
    Spec => [][\A n \in Node, p \in Proposal :
                  announced[n][p] # << >> =>
                      announced'[n][p] = announced[n][p] /\ p \notin open'[n]]_vars
<1>1. TypeOK /\ AtMostOneOutcome' /\ [Next]_vars =>
          [\A n \in Node, p \in Proposal :
              announced[n][p] # << >> =>
                  announced'[n][p] = announced[n][p] /\ p \notin open'[n]]_vars
  <2> SUFFICES ASSUME TypeOK, AtMostOneOutcome', [Next]_vars,
                      NEW n \in Node, NEW p \in Proposal, announced[n][p] # << >>
               PROVE  announced'[n][p] = announced[n][p] /\ p \notin open'[n]
    OBVIOUS
  <2>1. announced[n][p] \in Seq(Result) /\ Len(announced[n][p]) >= 1
    BY DEF TypeOK
  <2>3. Len(announced'[n][p]) <= 1
    BY DEF AtMostOneOutcome
  <2>4. \/ announced'[n][p] = announced[n][p]
        \/ \E r \in Result : announced'[n][p] = Append(announced[n][p], r)
    BY AnnouncedGrows
  <2>5. \A r \in Result : announced'[n][p] # Append(announced[n][p], r)
    <3> SUFFICES ASSUME NEW r \in Result, announced'[n][p] = Append(announced[n][p], r)
                 PROVE  FALSE
      OBVIOUS
    <3>1. Len(announced'[n][p]) = Len(announced[n][p]) + 1
      BY <2>1
    <3> QED
      BY <2>1, <2>3, <3>1
  <2> QED
    BY <2>4, <2>5 DEF AtMostOneOutcome
<1> QED
  BY <1>1, ConsensusTypeOK, OneOutcomePerLeader, PTL DEF Spec

\* While one component at most has ever been in office, the group hears one
\* outcome of a proposal at most, whichever components announce.
THEOREM OneServerAgrees ==
    Spec => [](Cardinality(served) <= 1 =>
                  \A m, n \in Node, p \in Proposal :
                      announced[m][p] # << >> /\ announced[n][p] # << >> =>
                          m = n /\ Len(announced[m][p]) <= 1)
<1>1. TypeOK /\ Once =>
          (Cardinality(served) <= 1 =>
              \A m, n \in Node, p \in Proposal :
                  announced[m][p] # << >> /\ announced[n][p] # << >> =>
                      m = n /\ Len(announced[m][p]) <= 1)
  <2> SUFFICES ASSUME TypeOK, Once, Cardinality(served) <= 1, NEW m \in Node, NEW n \in Node,
                      NEW p \in Proposal, announced[m][p] # << >>, announced[n][p] # << >>
               PROVE  m = n /\ Len(announced[m][p]) <= 1
    OBVIOUS
  <2>1. m \in served /\ n \in served
    BY DEF Once, HandledOK, Handled
  <2>2. m = n
    BY <2>1, SameServer
  <2> QED
    BY <2>2 DEF Once, AtMostOneOutcome
<1> QED
  BY <1>1, ConsensusTypeOK, ConsensusOnce, PTL
=============================================================================

---------------------------- MODULE GroupProofs -----------------------------
(***************************************************************************)
(* What ElectionTimer and Group promise, for every value of the timeouts   *)
(* and any set of peers.                                                   *)
(*                                                                         *)
(* The two properties of the election timer rest on Cover: until           *)
(* MAX_ELECTION_TIMEOUT has passed since the last election, the timer has  *)
(* at least the rest of it left.  Cover survives a vote and a heartbeat    *)
(* only because Reset(int64_t) does not move the end point.  The group     *)
(* never does anything else to the timer (GroupImplementsTimer), so both   *)
(* carry over to it.                                                       *)
(*                                                                         *)
(* The members rest on EntryAges: the time since a member was heard and    *)
(* the time its entry has left add up to no more than the longest timeout. *)
(* PingCover does for pings what Cover does for elections.                 *)
(***************************************************************************)
EXTENDS Group, TLAPS

Cover ==
    sinceVote <= MAX_ELECTION_TIMEOUT
        => timer.left >= MAX_ELECTION_TIMEOUT - sinceVote

IInv == TypeOK /\ Cover /\ CandidateWindow

\* What Reset(T), Reset(int64_t) and the clock make of a timeout: only Reset(T)
\* moves the end point.
LEMMA TimeoutOps ==
    ASSUME NEW D \in SUBSET Nat, NEW t \in Timeouts(D), NEW c \in D,
           \A i \in D : i = 0 \/ i - 1 \in D
    PROVE  /\ Armed(c) \in Timeouts(D) /\ Armed(c).left = c
           /\ ResetCount(t, c) \in Timeouts(D) /\ ResetCount(t, c).left = t.left
           /\ Elapse(t) \in Timeouts(D)
           /\ Elapse(t).left = IF t.left < 0 THEN t.left ELSE t.left - 1
  BY DEF Timeouts, Armed, ResetCount, Elapse

\* Every duration the code uses is one a timeout may have.
LEMMA Durations ==
    /\ ElectionTimeo \subseteq 0 .. MAX_ELECTION_TIMEOUT
    /\ MAX_ELECTION_TIMEOUT \in 0 .. MAX_ELECTION_TIMEOUT
    /\ 0 .. MAX_ELECTION_TIMEOUT \in SUBSET Nat
    /\ \A i \in 0 .. MAX_ELECTION_TIMEOUT : i = 0 \/ i - 1 \in 0 .. MAX_ELECTION_TIMEOUT
  BY TimeoutAssumption DEF ElectionTimeo

\* The invariant holds when a component is created: its timer is armed with a
\* random duration, and no election was started yet.
LEMMA InitInv == Init => IInv
<1> SUFFICES ASSUME Init PROVE IInv
  OBVIOUS
<1>1. PICK c \in ElectionTimeo : timer = Armed(c)
  BY DEF Init
<1>2. timer \in Timeouts(0 .. MAX_ELECTION_TIMEOUT)
  BY <1>1, Durations DEF Timeouts, Armed
<1> QED
  BY <1>2, TimeoutAssumption DEF Init, IInv, TypeOK, Cover, CandidateWindow, Long

\* Every step of the component, and every unit of time, preserves it.
LEMMA NextInv == IInv /\ [Next]_vars => IInv'
<1> SUFFICES ASSUME IInv, [Next]_vars PROVE IInv'
  OBVIOUS
<1> USE TimeoutAssumption DEF IInv, TypeOK
<1> DEFINE D == 0 .. MAX_ELECTION_TIMEOUT
<1>0. timer \in Timeouts(D) /\ timer.left \in D \cup {-1}
  BY DEF Timeouts
<1>1. CASE Tick
  <2>1. /\ timer' \in Timeouts(D)
        /\ timer'.left = IF timer.left < 0 THEN timer.left ELSE timer.left - 1
    BY <1>0, <1>1, Durations, TimeoutOps DEF Tick
  <2>2. sinceVote' = Count(sinceVote) /\ silence' = Count(silence) /\ state' = state
    BY <1>1 DEF Tick
  <2> HIDE DEF D
  <2>3. TypeOK'
    BY <2>1, <2>2 DEF Count, Long, D
  <2>4. Cover'
    BY <1>0, <2>1, <2>2 DEF Cover, Count, Long, D
  <2>5. CandidateWindow'
    BY <1>0, <2>1, <2>2 DEF CandidateWindow, Count, Long, D
  <2> QED BY <2>3, <2>4, <2>5
<1>2. CASE StartElection
  <2>1. timer' \in Timeouts(D) /\ timer'.left = MAX_ELECTION_TIMEOUT
    BY <1>0, <1>2, Durations, TimeoutOps DEF StartElection
  <2> QED
    BY <1>2, <2>1 DEF StartElection, Cover, CandidateWindow, Long
<1>3. CASE AbandonElection
  <2>1. timer' \in Timeouts(D) /\ timer'.left = MAX_ELECTION_TIMEOUT
    BY <1>0, <1>3, Durations, TimeoutOps DEF AbandonElection
  <2> QED
    BY <1>3, <2>1 DEF AbandonElection, Cover, CandidateWindow, Long
<1>4. CASE WinElection
  BY <1>4 DEF WinElection, Cover, CandidateWindow
<1>5. CASE GrantVote
  <2>1. timer' \in Timeouts(D) /\ timer'.left = timer.left
    BY <1>0, <1>5, Durations, TimeoutOps DEF GrantVote
  <2> QED
    BY <1>5, <2>1 DEF GrantVote, Cover, CandidateWindow
<1>6. CASE HearLeader
  <2>1. timer' \in Timeouts(D) /\ timer'.left = timer.left
    BY <1>0, <1>6, Durations, TimeoutOps DEF HearLeader
  <2> QED
    BY <1>6, <2>1 DEF HearLeader, Cover, CandidateWindow, Long
<1>7. CASE UNCHANGED vars
  BY <1>7 DEF vars, Cover, CandidateWindow
<1> QED
  BY <1>1, <1>2, <1>3, <1>4, <1>5, <1>6, <1>7 DEF Next

\* The type invariant, the cover and the candidate's window hold throughout.
THEOREM TimerInvariant == Spec => []IInv
  BY InitInv, NextInv, PTL DEF Spec

\* A candidate waits for votes exactly until MAX_ELECTION_TIMEOUT after it
\* stood for election (GroupLead::Update()).
THEOREM CandidateWaitsItsWindow == Spec => []CandidateWindow
<1>1. IInv => CandidateWindow
  BY DEF IInv
<1> QED
  BY TimerInvariant, <1>1, PTL

\* No vote, victory, defeat or heartbeat lets a component stand for election
\* again within MAX_ELECTION_TIMEOUT of its last candidacy.
THEOREM ElectionsSpaced == Spec => ElectionsAreSpaced
<1>1. IInv /\ [Next]_vars
        => [state = "FOLLOWER" /\ state' = "CANDIDATE"
               => sinceVote > MAX_ELECTION_TIMEOUT]_vars
  <2> SUFFICES ASSUME IInv, Next, state = "FOLLOWER", state' = "CANDIDATE"
               PROVE  sinceVote > MAX_ELECTION_TIMEOUT
    OBVIOUS
  <2>1. StartElection
    BY DEF Next, Tick, AbandonElection, WinElection, GrantVote, HearLeader
  <2>2. timer.left = -1
    BY <2>1 DEF StartElection, IsTimeout, IInv, TypeOK, Timeouts
  <2> QED
    BY <2>2, TimeoutAssumption DEF IInv, TypeOK, Cover, Long
<1> QED
  BY TimerInvariant, <1>1, PTL DEF Spec, ElectionsAreSpaced

-----------------------------------------------------------------------------
(* The group.                                                              *)

EntryAges ==
    \A p \in DOMAIN known :
        known[p].left >= 0 => heard[p] + known[p].left <= MAX_NODE_TIMEOUT

PingCover ==
    sincePing <= PING_BASE_PERIOD
        => pingTimeout.left >= PING_BASE_PERIOD - sincePing

GroupInv == GroupTypeOK /\ EntryAges /\ PingCover

\* Each step of the group is a step of the election timer or leaves it alone.
LEMMA StepsOfTimer == [GroupNext]_groupVars => [Next]_vars
<1> SUFFICES ASSUME [GroupNext]_groupVars PROVE [Next]_vars
  OBVIOUS
<1>1. CASE GroupTick
  BY <1>1 DEF GroupTick, Next
<1>2. CASE SendPingWithPeriod \/ CountMembers
  BY <1>2 DEF SendPingWithPeriod, SendPing, SkipPing, CountMembers, election, vars
<1>3. CASE FetchNextMessage
  BY <1>3 DEF FetchNextMessage, ReadHeartBeat, ReadElection, IdleElect, IdleAbandon,
              ReadOther, Next, election, vars
<1>4. CASE UNCHANGED groupVars
  BY <1>4 DEF groupVars, election, vars
<1> QED
  BY <1>1, <1>2, <1>3, <1>4 DEF GroupNext

\* The group's election timer is the one of ElectionTimer: membership and pings
\* do not interfere with it.
THEOREM GroupImplementsTimer == GroupSpec => Spec
<1>1. GroupInit => Init
  BY DEF GroupInit
<1> QED
  BY <1>1, StepsOfTimer, PTL DEF GroupSpec, Spec

\* In a group, too, a candidate waits exactly until MAX_ELECTION_TIMEOUT after it
\* stood for election.
THEOREM GroupCandidateWindow == GroupSpec => []CandidateWindow
  BY GroupImplementsTimer, CandidateWaitsItsWindow, PTL

\* In a group, too, a component never stands twice within MAX_ELECTION_TIMEOUT.
THEOREM GroupElectionsSpaced == GroupSpec => ElectionsAreSpaced
  BY GroupImplementsTimer, ElectionsSpaced, PTL

\* Durations of entries and pings are those their timeouts may have.
LEMMA GroupDurations ==
    /\ NodeTimeo \subseteq 0 .. MAX_NODE_TIMEOUT
    /\ 0 .. MAX_NODE_TIMEOUT \in SUBSET Nat
    /\ \A i \in 0 .. MAX_NODE_TIMEOUT : i = 0 \/ i - 1 \in 0 .. MAX_NODE_TIMEOUT
    /\ PING_BASE_PERIOD \in 0 .. PING_BASE_PERIOD
    /\ 0 .. PING_BASE_PERIOD \in SUBSET Nat
    /\ \A i \in 0 .. PING_BASE_PERIOD : i = 0 \/ i - 1 \in 0 .. PING_BASE_PERIOD
  BY PeriodAssumption DEF NodeTimeo

\* A group starts with no entries and a fresh ping timeout.
LEMMA GroupInitInv == GroupInit => GroupInv
<1> SUFFICES ASSUME GroupInit PROVE GroupInv
  OBVIOUS
<1>1. TypeOK
  BY InitInv DEF GroupInit, IInv
<1>2. known = [p \in {} |-> Armed(0)] /\ DOMAIN known = {}
  BY DEF GroupInit
<1>3. pingTimeout \in Timeouts(0 .. PING_BASE_PERIOD) /\ pingTimeout.left = PING_BASE_PERIOD
  BY GroupDurations DEF GroupInit, Timeouts, Armed
<1>4. known \in [DOMAIN known -> Timeouts(0 .. MAX_NODE_TIMEOUT)]
  BY <1>2
<1>5. heard \in [Peer -> Ages]
  BY PeriodAssumption DEF GroupInit, Ages, Forgotten
<1>6. turn \in {"ping", "fetch"} /\ sincePing \in 0 .. Quiet /\ sincePing = 0
  BY PeriodAssumption DEF GroupInit, Quiet
<1> QED
  BY <1>1, <1>2, <1>3, <1>4, <1>5, <1>6, PeriodAssumption
  DEF GroupInv, GroupTypeOK, EntryAges, PingCover

\* Deleting entries that timed out leaves a list of the same kind.
LEMMA DeletionInv ==
    ASSUME GroupInv, known' = DeleteTimeoutNodes, heard' = heard
    PROVE  /\ DOMAIN known' \subseteq Peer
           /\ known' \in [DOMAIN known' -> Timeouts(0 .. MAX_NODE_TIMEOUT)]
           /\ heard' \in [Peer -> Ages]
           /\ EntryAges'
<1> USE DEF GroupInv, GroupTypeOK
<1>1. DOMAIN known' \subseteq DOMAIN known /\ \A p \in DOMAIN known' : known'[p] = known[p]
  BY DEF DeleteTimeoutNodes, GetKnownComponents
<1>2. known' \in [DOMAIN known' -> Timeouts(0 .. MAX_NODE_TIMEOUT)]
  BY <1>1 DEF DeleteTimeoutNodes
<1> QED
  BY <1>1, <1>2 DEF EntryAges

\* Every step of the group, and every unit of time, preserves the invariant.
LEMMA GroupNextInv == GroupInv /\ [GroupNext]_groupVars /\ TypeOK' => GroupInv'
<1> SUFFICES ASSUME GroupInv, [GroupNext]_groupVars, TypeOK' PROVE GroupInv'
  OBVIOUS
<1> USE PeriodAssumption DEF GroupInv, GroupTypeOK
<1> DEFINE D == 0 .. MAX_NODE_TIMEOUT
           B == 0 .. PING_BASE_PERIOD
           Members == /\ DOMAIN known \subseteq Peer
                      /\ known \in [DOMAIN known -> Timeouts(D)]
                      /\ heard \in [Peer -> Ages]
                      /\ EntryAges
           Pings == pingTimeout \in Timeouts(B) /\ sincePing \in 0 .. Quiet /\ PingCover
<1>a. ASSUME UNCHANGED members PROVE Members'
  BY <1>a DEF members, EntryAges
<1>b. ASSUME UNCHANGED pings PROVE Pings'
  BY <1>b DEF pings, PingCover
<1>1. CASE GroupTick
  <2>1. /\ pingTimeout' \in Timeouts(B)
        /\ pingTimeout'.left = IF pingTimeout.left < 0 THEN pingTimeout.left
                               ELSE pingTimeout.left - 1
    BY <1>1, GroupDurations, TimeoutOps DEF GroupTick
  <2>2. pingTimeout.left \in B \cup {-1}
    BY DEF Timeouts
  <2>3. sincePing' = IF sincePing < Quiet THEN sincePing + 1 ELSE sincePing
    BY <1>1 DEF GroupTick
  <2>4. Pings'
    BY <2>1, <2>2, <2>3 DEF PingCover, Quiet
  <2>5. /\ DOMAIN known' = DOMAIN known
        /\ \A p \in DOMAIN known : known'[p] = Elapse(known[p])
        /\ heard' = [p \in Peer |-> Older(heard[p])]
    BY <1>1 DEF GroupTick
  <2>6. \A p \in DOMAIN known :
            /\ Elapse(known[p]) \in Timeouts(D)
            /\ known[p].left \in D \cup {-1}
            /\ Elapse(known[p]).left = IF known[p].left < 0 THEN known[p].left
                                       ELSE known[p].left - 1
    <3> TAKE p \in DOMAIN known
    <3>1. known[p] \in Timeouts(D)
      OBVIOUS
    <3> QED
      BY <3>1 DEF Timeouts, Elapse
  <2>7. known' \in [DOMAIN known' -> Timeouts(D)]
    BY <1>1, <2>5, <2>6 DEF GroupTick
  <2>8. heard' \in [Peer -> Ages]
    BY <2>5 DEF Ages, Older, Forgotten
  <2>9. EntryAges'
    <3> SUFFICES ASSUME NEW p \in DOMAIN known, known'[p].left >= 0
                 PROVE  heard'[p] + known'[p].left <= MAX_NODE_TIMEOUT
      BY <2>5 DEF EntryAges
    <3>1. heard[p] \in Ages /\ heard'[p] = Older(heard[p])
      BY <2>5
    <3>2. known[p].left >= 0 => heard[p] + known[p].left <= MAX_NODE_TIMEOUT
      BY DEF EntryAges
    <3> HIDE DEF D
    <3> QED
      BY <2>5, <2>6, <3>1, <3>2 DEF Ages, Older, Forgotten, D
  <2> QED
    BY <1>1, <2>4, <2>5, <2>7, <2>8, <2>9 DEF GroupTick
<1>2. CASE SendPing
  <2>1. pingTimeout' \in Timeouts(B) /\ pingTimeout'.left = PING_BASE_PERIOD
    BY <1>2, GroupDurations DEF SendPing, Timeouts, Armed
  <2>2. Pings'
    BY <1>2, <2>1 DEF SendPing, PingCover, Quiet
  <2> QED
    BY <1>2, <1>a, <2>2 DEF SendPing
<1>3. CASE SkipPing
  BY <1>3, <1>a, <1>b DEF SkipPing
<1>4. CASE CountMembers
  <2>1. Members' /\ Pings' /\ turn' \in {"ping", "fetch"}
    BY <1>4, <1>b, DeletionInv DEF CountMembers
  <2> QED
    BY <2>1
<1>5. ASSUME NEW p \in Peer, ReadHeartBeat(p) PROVE GroupInv'
  <2>1. PICK c \in NodeTimeo :
            known' = [q \in DOMAIN known \cup {p} |->
                         IF q = p THEN Renewed(p, c) ELSE known[q]]
    BY <1>5 DEF ReadHeartBeat
  <2>2. DOMAIN known' = DOMAIN known \cup {p}
    BY <2>1
  <2>3. Renewed(p, c) \in Timeouts(D)
    BY <2>1, GroupDurations DEF Renewed, Timeouts, Armed, ResetCount
  <2>5. known' \in [DOMAIN known' -> Timeouts(D)]
    BY <2>1, <2>2, <2>3
  <2>6. heard' = [heard EXCEPT ![p] = 0]
    BY <1>5 DEF ReadHeartBeat
  <2>7. heard' \in [Peer -> Ages]
    BY <2>6 DEF Ages, Forgotten
  <2>8. EntryAges'
    <3> SUFFICES ASSUME NEW q \in DOMAIN known', known'[q].left >= 0
                 PROVE  heard'[q] + known'[q].left <= MAX_NODE_TIMEOUT
      BY DEF EntryAges
    <3>1. CASE q # p
      BY <2>1, <2>2, <2>6, <3>1 DEF EntryAges
    <3>2. CASE q = p
      <4>1. heard'[p] = 0 /\ known'[p] = Renewed(p, c)
        BY <2>1, <2>2, <2>6
      <4> QED
        BY <2>3, <3>2, <4>1 DEF Timeouts
    <3> QED BY <3>1, <3>2
  <2>9. Pings' /\ turn' \in {"ping", "fetch"}
    BY <1>5, <1>b DEF ReadHeartBeat
  <2> QED
    BY <2>2, <2>5, <2>7, <2>8, <2>9
<1>6. CASE ReadElection \/ IdleAbandon \/ ReadOther
  BY <1>6, <1>a, <1>b DEF ReadElection, IdleAbandon, ReadOther
<1>7. CASE IdleElect
  <2>1. Members' /\ Pings' /\ turn' \in {"ping", "fetch"}
    BY <1>7, <1>b, DeletionInv DEF IdleElect
  <2> QED
    BY <2>1
<1>8. CASE UNCHANGED groupVars
  BY <1>8, <1>a, <1>b DEF groupVars
<1> QED
  BY <1>1, <1>2, <1>3, <1>4, <1>5, <1>6, <1>7, <1>8
  DEF GroupNext, SendPingWithPeriod, FetchNextMessage

\* The group's types, the ages of its entries and the cover of its pings.
THEOREM GroupInvariant == GroupSpec => []GroupInv
<1>1. GroupSpec => []TypeOK
  <2>1. IInv => TypeOK
    BY DEF IInv
  <2> QED
    BY <2>1, GroupImplementsTimer, TimerInvariant, PTL
<1> QED
  BY <1>1, GroupInitInv, GroupNextInv, PTL DEF GroupSpec

\* Type correctness of the group object.
THEOREM GroupTypesOK == GroupSpec => []GroupTypeOK
<1>1. GroupInv => GroupTypeOK
  BY DEF GroupInv
<1> QED
  BY <1>1, GroupInvariant, PTL

\* Whoever counts as a member was heard within MAX_NODE_TIMEOUT.
THEOREM MembersHeard == GroupSpec => []MembersWereHeard
<1>1. GroupInv => MembersWereHeard
  <2> SUFFICES ASSUME GroupInv, NEW p \in GetKnownComponents
               PROVE  heard[p] <= MAX_NODE_TIMEOUT
    BY DEF MembersWereHeard
  <2>1. p \in DOMAIN known /\ ~ (known[p].left < 0)
    BY DEF GetKnownComponents, IsTimeout
  <2>2. known[p].left \in (0 .. MAX_NODE_TIMEOUT) \cup {-1} /\ heard[p] \in Ages
    BY <2>1 DEF GroupInv, GroupTypeOK, Timeouts
  <2>3. heard[p] + known[p].left <= MAX_NODE_TIMEOUT
    BY <2>1, <2>2, PeriodAssumption DEF GroupInv, EntryAges
  <2> QED
    BY <2>1, <2>2, <2>3, PeriodAssumption DEF Ages, Forgotten
<1> QED
  BY <1>1, GroupInvariant, PTL

\* Two pings are more than PING_BASE_PERIOD apart.
THEOREM PingsSpaced == GroupSpec => PingsAreSpaced
<1>1. GroupInv /\ [GroupNext]_groupVars
        => [pingTimeout'.left > pingTimeout.left => sincePing > PING_BASE_PERIOD]_groupVars
  <2> SUFFICES ASSUME GroupInv, GroupNext, pingTimeout'.left > pingTimeout.left
               PROVE  sincePing > PING_BASE_PERIOD
    OBVIOUS
  <2>0. pingTimeout.left \in (0 .. PING_BASE_PERIOD) \cup {-1} /\ sincePing \in 0 .. Quiet
    BY DEF GroupInv, GroupTypeOK, Timeouts
  <2>1. CASE SendPing
    <3>1. pingTimeout.left < 0
      BY <2>1 DEF SendPing, PingDue, IsTimeout
    <3> QED
      BY <2>0, <3>1, PeriodAssumption DEF GroupInv, PingCover, Quiet
  <2>2. CASE GroupTick
    <3>1. pingTimeout' = Elapse(pingTimeout)
      BY <2>2 DEF GroupTick
    <3>2. pingTimeout'.left = IF pingTimeout.left < 0 THEN pingTimeout.left
                              ELSE pingTimeout.left - 1
      BY <3>1, GroupDurations, TimeoutOps DEF GroupInv, GroupTypeOK
    <3> QED
      BY <2>0, <3>2, PeriodAssumption
  <2>3. CASE ~ SendPing /\ ~ GroupTick
    <3>1. pingTimeout' = pingTimeout
      BY <2>3 DEF GroupNext, SendPingWithPeriod, SkipPing, CountMembers, FetchNextMessage,
                  ReadHeartBeat, ReadElection, IdleElect, IdleAbandon, ReadOther, pings
    <3> QED
      BY <2>0, <3>1, PeriodAssumption
  <2> QED BY <2>1, <2>2, <2>3
<1> QED
  BY GroupInvariant, <1>1, PTL DEF GroupSpec, PingsAreSpaced
=============================================================================

------------------------------- MODULE Group --------------------------------
(***************************************************************************)
(* The group object of one component (class Group, r_group.cc) in discrete *)
(* time: the members it knows, its pings and its election timer, all three *)
(* served by one loop.  The other members are the environment: their       *)
(* heartbeats (PING, PONG) and election messages arrive at any time.       *)
(*                                                                         *)
(* component_actor goes round its loop and, for every group, calls         *)
(* SendPingWithPeriod() and then FetchNextMessage(), which handles one     *)
(* message or, when nothing was readable for 1 ms, lets the election go on *)
(* (GroupLead::Update()).  turn says which call is next.                   *)
(***************************************************************************)
EXTENDS ElectionTimer

CONSTANTS
    Peer,              \* the components that send heartbeats
    PING_BASE_PERIOD,
    MIN_NODE_TIMEOUT,  \* bounds of timeout_distribution_: 1.1 and 2 times
    MAX_NODE_TIMEOUT   \* PING_BASE_PERIOD

ASSUME PeriodAssumption ==
    /\ PING_BASE_PERIOD \in Nat
    /\ MIN_NODE_TIMEOUT \in Nat
    /\ MAX_NODE_TIMEOUT \in Nat
    /\ MIN_NODE_TIMEOUT <= MAX_NODE_TIMEOUT

VARIABLES
    turn,         \* the next call of the loop: "ping" or "fetch"
    known,        \* known_nodes_: a timeout per member that was heard
    pingTimeout,  \* ping_timeout_
    heard,        \* history: heard[p], time since p's last heartbeat was read
    sincePing     \* history: time since this component last sent PING

election == <<state, timer, silence, sinceVote>>
members == <<known, heard>>
pings == <<pingTimeout, sincePing>>
groupVars == <<election, turn, members, pings>>

\* timeout_distribution_
NodeTimeo == MIN_NODE_TIMEOUT .. MAX_NODE_TIMEOUT

\* The histories stop counting here.
Forgotten == MAX_NODE_TIMEOUT + 1
Ages == 0 .. Forgotten
Older(t) == IF t < Forgotten THEN t + 1 ELSE t
Quiet == PING_BASE_PERIOD + 1

-----------------------------------------------------------------------------
\* Mutant of GetKnownComponents: whoever has an entry is a member.
AllEntries == DOMAIN known

\* GetKnownComponents(): the members whose entry has not timed out.
GetKnownComponents == {p \in DOMAIN known : ~ IsTimeout(known[p])}

\* GetMemberCount() begins with DeleteTimeoutNodes().
DeleteTimeoutNodes == [p \in GetKnownComponents |-> known[p]]

\* SendPingWithPeriod() has a reason to send: nobody is known or somebody's
\* timeout is exceeded.
Suspicious == DOMAIN known = {} \/ \E p \in DOMAIN known : IsTimeout(known[p])

\* Mutant of PingDue: an empty list holds nobody to suspect.
PingDueEntry == (\E p \in DOMAIN known : IsTimeout(known[p])) /\ IsTimeout(pingTimeout)

PingDue == Suspicious /\ IsTimeout(pingTimeout)

GroupInit ==
    /\ Init
    /\ turn = "ping"
    /\ known = [p \in {} |-> Armed(0)]
    /\ heard = [p \in Peer |-> Forgotten]
    /\ pingTimeout = Armed(PING_BASE_PERIOD)
    /\ sincePing = 0

\* One unit of time passes for everything.
GroupTick ==
    /\ Tick
    /\ known' = [p \in DOMAIN known |-> Elapse(known[p])]
    /\ heard' = [p \in Peer |-> Older(heard[p])]
    /\ pingTimeout' = Elapse(pingTimeout)
    /\ sincePing' = IF sincePing < Quiet THEN sincePing + 1 ELSE sincePing
    /\ UNCHANGED turn

(* SendPingWithPeriod().                                                   *)

\* Mutant of SendPing: a suspicion is followed up at once.
SendPingAtOnce ==
    /\ turn = "ping" /\ turn' = "fetch"
    /\ Suspicious
    /\ pingTimeout' = Armed(PING_BASE_PERIOD)
    /\ sincePing' = 0
    /\ UNCHANGED <<election, members>>

\* SendPing(): the timeout starts again, and PING goes to everybody.
SendPing ==
    /\ turn = "ping" /\ turn' = "fetch"
    /\ PingDue
    /\ pingTimeout' = Armed(PING_BASE_PERIOD)
    /\ sincePing' = 0
    /\ UNCHANGED <<election, members>>

SkipPing ==
    /\ turn = "ping" /\ turn' = "fetch"
    /\ ~ PingDue
    /\ UNCHANGED <<election, members, pings>>

\* GetGroupMemberCount(), called by the application between two rounds.
CountMembers ==
    /\ turn = "ping"
    /\ known' = DeleteTimeoutNodes
    /\ UNCHANGED <<election, turn, heard, pings>>

(* FetchNextMessage().                                                     *)

\* The entry of p after a heartbeat.  Of a known member only the duration is
\* stored: Reset(int64_t) does not move the end point.
Renewed(p, c) == IF p \in DOMAIN known THEN ResetCount(known[p], c) ELSE Armed(c)

\* A PING (answered with PONG) or a PONG.
ReadHeartBeat(p) ==
    /\ turn = "fetch" /\ turn' = "ping"
    /\ \E c \in NodeTimeo :
           known' = [q \in DOMAIN known \cup {p} |-> IF q = p THEN Renewed(p, c) ELSE known[q]]
    /\ heard' = [heard EXCEPT ![p] = 0]
    /\ UNCHANGED <<election, pings>>

\* A message of the election that changes its state (GroupLead::Update(msg)).
ReadElection ==
    /\ turn = "fetch" /\ turn' = "ping"
    /\ WinElection \/ GrantVote \/ HearLeader
    /\ UNCHANGED <<members, pings>>

\* Nothing to read: Update() starts an election, which counts the members, ...
IdleElect ==
    /\ turn = "fetch" /\ turn' = "ping"
    /\ StartElection
    /\ known' = DeleteTimeoutNodes
    /\ UNCHANGED <<heard, pings>>

\* ... or gives one up.
IdleAbandon ==
    /\ turn = "fetch" /\ turn' = "ping"
    /\ AbandonElection
    /\ UNCHANGED <<members, pings>>

\* Update() finds nothing to do or sends a leader's heartbeat, or the message is
\* for the application, the consensus or another state of the election.
ReadOther ==
    /\ turn = "fetch" /\ turn' = "ping"
    /\ UNCHANGED <<election, members, pings>>

SendPingWithPeriod == SendPing \/ SkipPing

FetchNextMessage ==
    \/ \E p \in Peer : ReadHeartBeat(p)
    \/ ReadElection \/ IdleElect \/ IdleAbandon \/ ReadOther

GroupNext == GroupTick \/ SendPingWithPeriod \/ CountMembers \/ FetchNextMessage

GroupSpec == GroupInit /\ [][GroupNext]_groupVars

\* Time passes, and the loop goes round: it polls for 10 ms at most, handles one
\* message and comes to the groups.  Nothing is assumed about what there is to
\* read: messages may keep Update() from ever being called.
FairGroupSpec ==
    /\ GroupSpec
    /\ WF_groupVars(GroupTick)
    /\ WF_groupVars(SendPingWithPeriod)
    /\ WF_groupVars(FetchNextMessage)

-----------------------------------------------------------------------------
GroupTypeOK ==
    /\ TypeOK
    /\ turn \in {"ping", "fetch"}
    /\ DOMAIN known \subseteq Peer
    /\ known \in [DOMAIN known -> Timeouts(0 .. MAX_NODE_TIMEOUT)]
    /\ pingTimeout \in Timeouts(0 .. PING_BASE_PERIOD)
    /\ heard \in [Peer -> Ages]
    /\ sincePing \in 0 .. Quiet

\* A member that fell silent is out of every vote once MAX_NODE_TIMEOUT has
\* passed: whoever GetKnownComponents() returns was heard since.
MembersWereHeard ==
    \A p \in GetKnownComponents : heard[p] <= MAX_NODE_TIMEOUT

\* Two pings are more than PING_BASE_PERIOD apart, however many members are
\* under suspicion and however often the list changes.
PingsAreSpaced ==
    [][pingTimeout'.left > pingTimeout.left => sincePing > PING_BASE_PERIOD]_groupVars

\* A component that knows nobody, or suspects somebody, sends a PING or finds
\* its suspicion gone, also when messages keep it busy all the time.
SuspicionIsPinged ==
    Suspicious ~> (sincePing = 0 \/ ~ Suspicious)

\* r_group.h:170 "timestamp of the last message from the given component": a
\* member whose last heartbeat is no older than the shortest timeout is known.
KnownWhileHeard ==
    \A p \in Peer : heard[p] <= MIN_NODE_TIMEOUT => p \in GetKnownComponents
=============================================================================

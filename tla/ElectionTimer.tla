--------------------------- MODULE ElectionTimer ----------------------------
(***************************************************************************)
(* The election timer of one component (GroupLead::m_electionTimeout) in   *)
(* discrete time.  The rest of the group is the environment: heartbeats,   *)
(* requests for votes and votes may arrive at any time.  GroupLead leaves  *)
(* the timing out; this module has nothing else.                           *)
(***************************************************************************)
EXTENDS Timeout

CONSTANTS
    MIN_ELECTION_TIMEOUT,
    MAX_ELECTION_TIMEOUT

ASSUME TimeoutAssumption ==
    /\ MIN_ELECTION_TIMEOUT \in Nat
    /\ MAX_ELECTION_TIMEOUT \in Nat
    /\ MIN_ELECTION_TIMEOUT <= MAX_ELECTION_TIMEOUT

VARIABLES
    state,     \* m_currentState
    timer,     \* m_electionTimeout
    silence,   \* history: time since a heartbeat was last processed
    sinceVote  \* history: time since this component last started an election

vars == <<state, timer, silence, sinceVote>>

\* GenerateElectionTimeo()
ElectionTimeo == MIN_ELECTION_TIMEOUT .. MAX_ELECTION_TIMEOUT

\* The histories stop counting here.
Long == MAX_ELECTION_TIMEOUT + 1
Count(t) == IF t < Long THEN t + 1 ELSE t

Init ==
    /\ state = "FOLLOWER"
    /\ timer \in {Armed(c) : c \in ElectionTimeo}
    /\ silence = Long
    /\ sinceVote = Long

Tick ==
    /\ timer' = Elapse(timer)
    /\ silence' = Count(silence)
    /\ sinceVote' = Count(sinceVote)
    /\ UNCHANGED state

\* Mutant of StartElection: the overload that keeps the end point is used.
StartElectionKeepsEnd ==
    /\ state = "FOLLOWER" /\ IsTimeout(timer)
    /\ state' = "CANDIDATE"
    /\ timer' = ResetCount(timer, MAX_ELECTION_TIMEOUT)
    /\ sinceVote' = 0
    /\ UNCHANGED silence

\* Update(): FOLLOWER --> CANDIDATE.
StartElection ==
    /\ state = "FOLLOWER" /\ IsTimeout(timer)
    /\ state' = "CANDIDATE"
    /\ timer' = Armed(MAX_ELECTION_TIMEOUT)
    /\ sinceVote' = 0
    /\ UNCHANGED silence

\* Update(): CANDIDATE --> FOLLOWER.
AbandonElection ==
    /\ state = "CANDIDATE" /\ IsTimeout(timer)
    /\ state' = "FOLLOWER"
    /\ timer' = Armed(MAX_ELECTION_TIMEOUT)
    /\ UNCHANGED <<silence, sinceVote>>

\* Update(msg): a candidate gets its majority; the timer runs on.
WinElection ==
    /\ state = "CANDIDATE"
    /\ state' = "LEADER"
    /\ UNCHANGED <<timer, silence, sinceVote>>

\* Mutant of GrantVote: a shorter timer is armed for a new attempt.
GrantVoteRearms ==
    /\ state' = "FOLLOWER"
    /\ \E c \in ElectionTimeo : timer' = Armed(c)
    /\ UNCHANGED <<silence, sinceVote>>

\* Update(msg): a request of a higher term, granted in any state.
GrantVote ==
    /\ state' = "FOLLOWER"
    /\ \E c \in ElectionTimeo : timer' = ResetCount(timer, c)
    /\ UNCHANGED <<silence, sinceVote>>

\* Update(msg): a heartbeat, obeyed by a follower, or by a leader when its term
\* is higher.
HearLeader ==
    /\ state \in {"FOLLOWER", "LEADER"}
    /\ state' = "FOLLOWER"
    /\ \E c \in ElectionTimeo : timer' = ResetCount(timer, c)
    /\ silence' = 0
    /\ UNCHANGED sinceVote

Next ==
    \/ Tick \/ StartElection \/ AbandonElection
    \/ WinElection \/ GrantVote \/ HearLeader

Spec == Init /\ [][Next]_vars

-----------------------------------------------------------------------------
TypeOK ==
    /\ state \in {"FOLLOWER", "CANDIDATE", "LEADER"}
    /\ timer \in Timeouts(0 .. MAX_ELECTION_TIMEOUT)
    /\ silence \in 0 .. Long
    /\ sinceVote \in 0 .. Long

\* A component that starts an election has not started another one during the
\* last MAX_ELECTION_TIMEOUT, whatever it voted, won, lost or heard meanwhile:
\* no message shortens the wait.
ElectionsAreSpaced ==
    [][state = "FOLLOWER" /\ state' = "CANDIDATE"
          => sinceVote > MAX_ELECTION_TIMEOUT]_vars

\* A candidate's timer ends MAX_ELECTION_TIMEOUT after the election started,
\* not earlier and not later ("Waiting for responses until the MAX election
\* timeout").
CandidateWindow ==
    state = "CANDIDATE" => timer.left = MAX_ELECTION_TIMEOUT - sinceVote

\* r_grouplead.h:36 "Expects hear form the leader. If no message arrives from
\* the leader it becmoes a canidate": a follower that stands for election has
\* not heard a heartbeat for MIN_ELECTION_TIMEOUT.
CandidateOnlyAfterSilence ==
    [][state = "FOLLOWER" /\ state' = "CANDIDATE"
          => silence >= MIN_ELECTION_TIMEOUT]_vars
=============================================================================

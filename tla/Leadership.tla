----------------------------- MODULE Leadership -----------------------------
(***************************************************************************)
(* What a member of a group may rely on about the leader role of a         *)
(* component, without terms, votes or messages.  A component's role is     *)
(*                                                                         *)
(*   "none"   it does not consider itself the leader                       *)
(*            (Group::leader_id() is not its own id);                      *)
(*   "office" it won an election and has not been deposed                  *)
(*            (GroupLead::m_currentState is LEADER);                       *)
(*   "ghost"  it was deposed, or never stopped being told that it leads:   *)
(*            m_currentState is not LEADER, but leader_id() is still its   *)
(*            own id, so IsLeader() is true and it still answers proposals *)
(*            and counts votes.                                            *)
(*                                                                         *)
(* GroupLead implements this specification; Consensus is built on it.      *)
(***************************************************************************)
EXTENDS GroupPorts

VARIABLES
    role,    \* role[n]: what n takes itself for
    served   \* the components that have ever been in office

leadershipVars == <<role, served>>

Role == {"none", "office", "ghost"}

\* The test every consensus branch of Group::FetchNextMessage makes:
\* leader_id() == parent_component_id().
IsLeader(n) == role[n] \in {"office", "ghost"}

LeadershipTypeOK ==
    /\ role \in [Node -> Role]
    /\ served \subseteq Node

LeadershipInit ==
    /\ role = [n \in Node |-> "none"]
    /\ served = {}

\* A candidate collects a majority.
Elect(n) ==
    /\ role[n] = "none"
    /\ role' = [role EXCEPT ![n] = "office"]
    /\ served' = served \cup {n}

\* A request for votes of a higher term takes the office away, but not the
\* component's opinion that it is the leader.
Depose(n) ==
    /\ role[n] = "office"
    /\ role' = [role EXCEPT ![n] = "ghost"]
    /\ UNCHANGED served

\* The component learns of another leader, or starts an election itself.
Resign(n) ==
    /\ IsLeader(n)
    /\ role' = [role EXCEPT ![n] = "none"]
    /\ UNCHANGED served

\* A component connected to its own publisher reads back a heartbeat that it
\* sent while it was in office.
Echo(n) ==
    /\ n \in SelfLinked \cap served
    /\ role[n] = "none"
    /\ role' = [role EXCEPT ![n] = "ghost"]
    /\ UNCHANGED served

LeadershipNext ==
    \E n \in Node : Elect(n) \/ Depose(n) \/ Resign(n) \/ Echo(n)

LeadershipSpec == LeadershipInit /\ [][LeadershipNext]_leadershipVars

\* Nobody answers proposals as the leader without having won an election.
OnlyElectedLead == \A n \in Node : IsLeader(n) => n \in served
=============================================================================

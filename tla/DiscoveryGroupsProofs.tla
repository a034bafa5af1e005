----------------------- MODULE DiscoveryGroupsProofs ------------------------
(***************************************************************************)
(* Type correctness of DiscoveryGroups, and that no member of a group is   *)
(* missed, for any hosts, actors and members and any order of joins, puts, *)
(* gets and updates.                                                       *)
(*                                                                         *)
(* NobodyMissed needs to know that a member's service listens and has the  *)
(* member's actor on its list as long as the member is joining or in the   *)
(* group (Served): then a put reaches its service's loop and an update     *)
(* reaches its pipe.                                                       *)
(***************************************************************************)
EXTENDS DiscoveryGroups, TLAPS

Served ==
    /\ \A h \in Host : clients[h] # {} => h \in listening
    /\ \A m \in Member :
           stage[m] \in {"joining", "in"} =>
               ActorOf[m] \in clients[At(m)] /\ ActorOf[m] \in alive

IInv == TypeOK /\ Served /\ NobodyMissed

\* What the service of a host may be doing.
LEMMA JobFacts ==
    /\ Idle \in Jobs /\ Stuck \in Jobs /\ Idle # Stuck
    /\ Idle.op # "put" /\ Stuck.op # "put"
    /\ \A m \in Member : /\ Putting(m) \in Jobs /\ Putting(m).member = m
                         /\ Putting(m) # Idle /\ Putting(m) # Stuck
    /\ \A j \in Jobs : j.op = "put" => j.member \in Member
<1>1. Idle.op = "idle" /\ Stuck.op = "stuck"
  BY DEF Idle, Stuck
<1>2. \A m \in Member : Putting(m).op = "put" /\ Putting(m).member = m
  BY DEF Putting
<1>3. Idle \in Jobs /\ Stuck \in Jobs /\ \A m \in Member : Putting(m) \in Jobs
  BY DEF Jobs
<1>4. \A j \in Jobs : j = Idle \/ j = Stuck \/ \E m \in Member : j = Putting(m)
  BY DEF Jobs
<1> QED
  BY <1>1, <1>2, <1>3, <1>4

\* Every member has a host.
LEMMA Places == \A m \in Member : ActorOf[m] \in Actor /\ At(m) \in Host
  BY PlaceAssumption DEF At

\* At the start nothing is registered, and nobody is in a group.
LEMMA InitInv == Init => IInv
  BY JobFacts DEF Init, IInv, TypeOK, Served, NobodyMissed, Found

\* The end of a process preserves the types of what it touches.
LEMMA EndFacts ==
    ASSUME TypeOK, NEW a \in Actor, End(a)
    PROVE  /\ alive' \subseteq Actor
           /\ stage' \in [Member -> {"out", "joining", "in", "left"}]
           /\ pipe' \in [Member -> SUBSET Member]
           /\ connected' \in [Member -> SUBSET Member]
           /\ \A m \in Member : ActorOf[m] = a => stage'[m] = "left"
           /\ \A m \in Member : ActorOf[m] # a => /\ stage'[m] = stage[m]
                                                  /\ pipe'[m] = pipe[m]
                                                  /\ connected'[m] = connected[m]
           /\ \A m \in Member : ActorOf[m] \in alive /\ ActorOf[m] # a => ActorOf[m] \in alive'
  BY DEF TypeOK, End

\* Every step preserves the types.
LEMMA NextTypeOK == TypeOK /\ [Next]_vars => TypeOK'
<1> SUFFICES ASSUME TypeOK, [Next]_vars PROVE TypeOK'
  OBVIOUS
<1> USE DEF TypeOK
<1>1. ASSUME NEW a \in Actor, HandleActorReg(a) PROVE TypeOK'
  BY <1>1, PlaceAssumption DEF HandleActorReg
<1>2. ASSUME NEW a \in Actor, HandleActorUnreg(a) PROVE TypeOK'
  <2>1. End(a) /\ clients' = [clients EXCEPT ![HostOf[a]] = @ \ {a}]
    BY <1>2 DEF HandleActorUnreg
  <2>2. clients' \in [Host -> SUBSET Actor]
    BY <2>1, PlaceAssumption
  <2> QED
    BY <1>2, <2>1, <2>2, EndFacts DEF HandleActorUnreg
<1>3. ASSUME NEW a \in Actor, Die(a) PROVE TypeOK'
  BY <1>3, EndFacts DEF Die
<1>4. ASSUME NEW m \in Member, JoinGroup(m) PROVE TypeOK'
  BY <1>4 DEF JoinGroup
<1>5. ASSUME NEW m \in Member, LeaveGroup(m) PROVE TypeOK'
  BY <1>5 DEF LeaveGroup
<1>6. ASSUME NEW m \in Member, NEW n \in Member, UpdateGroup(m, n) PROVE TypeOK'
  BY <1>6 DEF UpdateGroup
<1>7. ASSUME NEW h \in Host, PutGroup(h) PROVE TypeOK'
  BY <1>7, JobFacts DEF PutGroup, Push
<1>8. ASSUME NEW m \in Member, HandleGroupJoin(m) PROVE TypeOK'
  BY <1>8, JobFacts, Places DEF HandleGroupJoin, Answer
<1>9. ASSUME NEW h \in Host, NEW n \in Member, HandleDhtGroupUpdate(h, n) PROVE TypeOK'
  BY <1>9 DEF HandleDhtGroupUpdate, SendTo
<1>10. ASSUME NEW h \in Host, NEW n \in Member, TellTheDead(h, n) PROVE TypeOK'
  <2>1. PICK A \in SUBSET (clients[h] \cap alive) : SendTo(A, n)
    BY <1>10 DEF TellTheDead
  <2>2. pipe' \in [Member -> SUBSET Member]
    BY <2>1 DEF SendTo
  <2> QED
    BY <1>10, <2>2, JobFacts DEF TellTheDead
<1>11. ASSUME NEW m \in Member, GetReturns(m) PROVE TypeOK'
  <2>1. Found \subseteq Member
    BY DEF Found
  <2> QED
    BY <1>11, <2>1 DEF GetReturns, Push
<1>12. ASSUME NEW m \in Member, GetFails(m) \/ Expire(m) PROVE TypeOK'
  BY <1>12 DEF GetFails, Expire
<1>13. CASE UNCHANGED vars
  BY <1>13 DEF vars
<1> QED
  BY <1>1, <1>2, <1>3, <1>4, <1>5, <1>6, <1>7, <1>8, <1>9, <1>10, <1>11, <1>12, <1>13
  DEF Next, Service

\* Every step keeps the members that are joining or in the group served.
LEMMA NextServed == TypeOK /\ Served /\ [Next]_vars => Served'
<1> SUFFICES ASSUME TypeOK, Served, [Next]_vars PROVE Served'
  OBVIOUS
<1> USE Places, PlaceAssumption DEF TypeOK, Served
<1>1. ASSUME NEW a \in Actor, HandleActorReg(a) PROVE Served'
  BY <1>1 DEF HandleActorReg
<1>2. ASSUME NEW a \in Actor, HandleActorUnreg(a) PROVE Served'
  <2>1. End(a) /\ clients' = [clients EXCEPT ![HostOf[a]] = @ \ {a}] /\ listening' = listening
    BY <1>2 DEF HandleActorUnreg
  <2>2. \A m \in Member : stage'[m] \in {"joining", "in"} =>
            ActorOf[m] \in clients'[At(m)] /\ ActorOf[m] \in alive'
    <3> SUFFICES ASSUME NEW m \in Member, stage'[m] \in {"joining", "in"}
                 PROVE  ActorOf[m] \in clients'[At(m)] /\ ActorOf[m] \in alive'
      OBVIOUS
    <3>1. ActorOf[m] # a /\ stage[m] \in {"joining", "in"}
      BY <2>1, EndFacts
    <3> QED
      BY <2>1, <3>1, EndFacts
  <2> QED
    BY <2>1, <2>2
<1>3. ASSUME NEW a \in Actor, Die(a) PROVE Served'
  BY <1>3, EndFacts DEF Die
<1>4. ASSUME NEW m \in Member, JoinGroup(m) \/ LeaveGroup(m) PROVE Served'
  BY <1>4 DEF JoinGroup, LeaveGroup
<1>5. ASSUME NEW m \in Member, HandleGroupJoin(m) PROVE Served'
  <2>1. \A k \in Member : stage'[k] \in {"joining", "in"} => stage[k] \in {"joining", "in"}
    BY <1>5 DEF HandleGroupJoin, Answer
  <2> QED
    BY <1>5, <2>1 DEF HandleGroupJoin
<1>6. ASSUME UNCHANGED <<clients, listening, stage, alive>> PROVE Served'
  BY <1>6
<1>7. ASSUME NEW h \in Host, NEW n \in Member,
             PutGroup(h) \/ HandleDhtGroupUpdate(h, n) \/ TellTheDead(h, n)
      PROVE Served'
  BY <1>6, <1>7 DEF PutGroup, HandleDhtGroupUpdate, TellTheDead
<1>8. ASSUME NEW m \in Member, NEW n \in Member,
             UpdateGroup(m, n) \/ GetReturns(m) \/ GetFails(m) \/ Expire(m)
      PROVE Served'
  BY <1>6, <1>8 DEF UpdateGroup, GetReturns, GetFails, Expire
<1>9. CASE UNCHANGED vars
  BY <1>6, <1>9 DEF vars
<1>10. ASSUME NEW h \in Host, PutGroup(h) PROVE Served'
  BY <1>6, <1>10 DEF PutGroup
<1>11. ASSUME NEW m \in Member, GetReturns(m) \/ GetFails(m) \/ Expire(m) PROVE Served'
  BY <1>6, <1>11 DEF GetReturns, GetFails, Expire
<1> QED
  BY <1>1, <1>2, <1>3, <1>4, <1>5, <1>7, <1>8, <1>9, <1>10, <1>11 DEF Next, Service

\* Every step leaves nobody behind.
LEMMA NextNobodyMissed == IInv /\ [Next]_vars => NobodyMissed'
<1> SUFFICES ASSUME IInv, [Next]_vars, SameKey,
                    NEW m \in Member, NEW n \in dht',
                    stage'[m] = "in", ActorOf[m] \in alive'
             PROVE  \/ n \in connected'[m] \cup pipe'[m] \cup results'[At(m)]
                    \/ m \in gets' \cup failed'
                    \/ job'[At(m)] = Stuck
  BY DEF NobodyMissed, Found
<1> DEFINE Fine == \/ n \in connected'[m] \cup pipe'[m] \cup results'[At(m)]
                   \/ m \in gets' \cup failed'
                   \/ job'[At(m)] = Stuck
<1> USE Places, PlaceAssumption DEF IInv, TypeOK
<1>0. ASSUME stage[m] = "in", ActorOf[m] \in alive, n \in dht
      PROVE  \/ n \in connected[m] \cup pipe[m] \cup results[At(m)]
             \/ m \in gets \cup failed
             \/ job[At(m)] = Stuck
  BY <1>0 DEF NobodyMissed, Found
<1>1. ASSUME NEW a \in Actor, HandleActorReg(a) PROVE Fine
  BY <1>0, <1>1 DEF HandleActorReg
<1>2. ASSUME NEW a \in Actor, HandleActorUnreg(a) \/ Die(a) PROVE Fine
  <2>1. End(a) /\ UNCHANGED <<job, results, gets, dht, failed>>
    BY <1>2 DEF HandleActorUnreg, Die
  <2>2. ActorOf[m] # a
    BY <2>1, EndFacts
  <2>3. /\ stage[m] = "in" /\ ActorOf[m] \in alive
        /\ pipe'[m] = pipe[m] /\ connected'[m] = connected[m]
    BY <2>1, <2>2, EndFacts DEF End
  <2> QED
    BY <1>0, <2>1, <2>3
<1>3. ASSUME NEW k \in Member, JoinGroup(k) \/ LeaveGroup(k) PROVE Fine
  <2>1. m # k
    BY <1>3 DEF JoinGroup, LeaveGroup
  <2>2. /\ stage[m] = "in" /\ connected'[m] = connected[m] /\ pipe' = pipe
        /\ UNCHANGED <<job, results, gets, dht, failed, alive>>
    BY <1>3, <2>1 DEF JoinGroup, LeaveGroup
  <2> QED
    BY <1>0, <2>2
<1>4. ASSUME NEW k \in Member, NEW i \in Member, UpdateGroup(k, i) PROVE Fine
  <2>1. stage[m] = "in" /\ UNCHANGED <<job, results, gets, dht, failed, alive>>
    BY <1>4 DEF UpdateGroup
  <2>2. connected[m] \cup pipe[m] \subseteq connected'[m] \cup pipe'[m]
    BY <1>4, <2>1 DEF UpdateGroup
  <2> QED
    BY <1>0, <2>1, <2>2
<1>5. ASSUME NEW h \in Host, PutGroup(h) PROVE Fine
  <2>1. UNCHANGED <<listening, gets, alive, stage, pipe, connected, failed>>
    BY <1>5 DEF PutGroup
  <2>2. At(m) \in listening
    BY <2>1 DEF Served
  <2>3. results'[At(m)] = results[At(m)] \cup {job[h].member}
    BY <1>5, <2>2 DEF PutGroup, Push
  <2>4. n \in dht \/ n = job[h].member
    BY <1>5 DEF PutGroup
  <2>5. job[At(m)] = Stuck => job'[At(m)] = Stuck
    BY <1>5, JobFacts DEF PutGroup
  <2> QED
    BY <1>0, <2>1, <2>3, <2>4, <2>5
<1>6. ASSUME NEW k \in Member, HandleGroupJoin(k) PROVE Fine
  <2>1. UNCHANGED <<results, dht, alive, pipe, connected, failed>> /\ gets' = gets \cup {k}
    BY <1>6 DEF HandleGroupJoin
  <2>2. CASE m = k
    BY <2>1, <2>2
  <2>3. CASE m # k
    <3>1. stage[m] = "in"
      BY <1>6, <2>3 DEF HandleGroupJoin, Answer
    <3>2. job[At(m)] = Stuck => job'[At(m)] = Stuck
      BY <1>6, JobFacts DEF HandleGroupJoin
    <3> QED
      BY <1>0, <2>1, <3>1, <3>2
  <2> QED BY <2>2, <2>3
<1>7. ASSUME NEW h \in Host, NEW i \in Member, HandleDhtGroupUpdate(h, i) PROVE Fine
  <2>1. /\ UNCHANGED <<job, gets, dht, alive, stage, connected, failed>>
        /\ results' = [results EXCEPT ![h] = @ \ {i}]
        /\ SendTo(clients[h], i)
    BY <1>7 DEF HandleDhtGroupUpdate
  <2>2. pipe[m] \subseteq pipe'[m]
    BY <2>1 DEF SendTo
  <2>3. h = At(m) => i \in pipe'[m]
    BY <2>1 DEF SendTo, Served
  <2>4. n \in results[At(m)] => n \in results'[At(m)] \cup pipe'[m]
    BY <2>1, <2>3
  <2> QED
    BY <1>0, <2>1, <2>2, <2>4
<1>8. ASSUME NEW h \in Host, NEW i \in Member, TellTheDead(h, i) PROVE Fine
  <2>1. /\ UNCHANGED <<gets, dht, alive, stage, connected, failed>>
        /\ results' = [results EXCEPT ![h] = @ \ {i}]
        /\ job' = [job EXCEPT ![h] = Stuck]
    BY <1>8 DEF TellTheDead
  <2>2. PICK A \in SUBSET (clients[h] \cap alive) : SendTo(A, i)
    BY <1>8 DEF TellTheDead
  <2>3. pipe[m] \subseteq pipe'[m]
    BY <2>2 DEF SendTo
  <2> QED
    BY <1>0, <2>1, <2>3
<1>9. ASSUME NEW k \in Member, GetReturns(k) PROVE Fine
  <2>1. UNCHANGED <<job, dht, alive, stage, pipe, connected, failed>> /\ gets' = gets \ {k}
    BY <1>9 DEF GetReturns
  <2>2. results[At(m)] \subseteq results'[At(m)] /\ (m = k => dht \subseteq results'[At(m)])
    BY <1>9 DEF GetReturns, Push, Found
  <2> QED
    BY <1>0, <2>1, <2>2
<1>10. ASSUME NEW k \in Member, GetFails(k) \/ Expire(k) PROVE Fine
  BY <1>0, <1>10 DEF GetFails, Expire
<1>11. CASE UNCHANGED vars
  BY <1>0, <1>11 DEF vars
<1> QED
  BY <1>1, <1>2, <1>3, <1>4, <1>5, <1>6, <1>7, <1>8, <1>9, <1>10, <1>11
  DEF Next, Service

\* The inductive invariant of the group part of the discovery service.
THEOREM GroupsInvariant == Spec => []IInv
<1>1. IInv /\ [Next]_vars => IInv'
  BY NextTypeOK, NextServed, NextNobodyMissed DEF IInv
<1> QED
  BY InitInv, <1>1, PTL DEF Spec

\* Type correctness of services, components and what is between them.
THEOREM GroupsTypeOK == Spec => []TypeOK
<1>1. IInv => TypeOK
  BY DEF IInv
<1> QED
  BY <1>1, GroupsInvariant, PTL

\* Of every member that can be found in the DHT, each member of the group has heard or will hear,
\* unless its get failed or its service is blocked.
THEOREM GroupsMissNobody == Spec => []NobodyMissed
<1>1. IInv => NobodyMissed
  BY DEF IInv
<1> QED
  BY <1>1, GroupsInvariant, PTL
=============================================================================

-------------------------- MODULE DiscoveryGroups ---------------------------
(***************************************************************************)
(* How the members of a group find each other.  A component that joins     *)
(* (Group::InitGroup) has created its publisher and sends its address to   *)
(* the discovery service of its host (Disco::JoinGroup), which answers,    *)
(* asks the DHT for the members of the application's groups, waits and     *)
(* then puts the new one under the same key (HandleGroupJoin).  Every      *)
(* service listens on that key as soon as an actor of the application has  *)
(* registered with it.  What a get or a listener finds is pushed to the    *)
(* service's loop over a socket of its own, so in any order, is sent to    *)
(* every registered actor of the application, and reaches the components,  *)
(* which connect to the address if they have joined that group.            *)
(*                                                                         *)
(* One application and one group; a component that leaves and joins again  *)
(* counts as another member, since its publisher is a new one.             *)
(***************************************************************************)
EXTENDS Integers, FiniteSets

CONSTANTS
    Host, Actor,  \* hosts with a discovery service, actor processes
    HostOf,       \* HostOf[a]: the host of actor a
    Member,       \* group members: a component's group object
    ActorOf,      \* ActorOf[m]: the actor whose component m belongs to
    Leaver,       \* the members that may leave the group
    Mortal,       \* the actors that may die without unregistering
    SameKey       \* whether dht::InfoHash(key), with which members are looked
                  \* for, is dht::InfoHash::get(key), with which they are put:
                  \* OpenDHT decides, and only then can members meet

ASSUME PlaceAssumption ==
    /\ HostOf \in [Actor -> Host]
    /\ ActorOf \in [Member -> Actor]
    /\ Leaver \subseteq Member /\ Mortal \subseteq Actor
    /\ SameKey \in BOOLEAN

VARIABLES
    job,        \* job[h]: what the service of h is doing
    clients,    \* clients[h]: clients_, the actors registered with it
    listening,  \* the hosts with a listener in group_listeners_
    results,    \* results[h]: group updates its loop has not read yet
    asked,      \* the members whose join request it has not read yet
    gets,       \* the members whose join's DHT get has not returned
    dht,        \* external: the members stored, under InfoHash::get(key)
    alive,      \* the actor processes that run
    stage,      \* stage[m]: "out", "joining", "in", "left"
    pipe,       \* pipe[m]: updates on their way from the service to m
    connected,  \* connected[m]: the members m's subscriber is connected to
    failed      \* history: the members whose get failed

vars == <<job, clients, listening, results, asked, gets, dht, alive, stage, pipe,
          connected, failed>>

Idle == [op |-> "idle"]
Stuck == [op |-> "stuck"]
Putting(m) == [op |-> "put", member |-> m]
Jobs == {Idle, Stuck} \cup {Putting(m) : m \in Member}

At(m) == HostOf[ActorOf[m]]

\* What gets and listeners, which use InfoHash(key), can find.
Found == IF SameKey THEN dht ELSE {}

\* PushDhtValuesToDisco: the members M reach the loop of the hosts H.
Push(H, M) == [h \in Host |-> IF h \in H THEN results[h] \cup M ELSE results[h]]

Init ==
    /\ job = [h \in Host |-> Idle]
    /\ clients = [h \in Host |-> {}]
    /\ listening = {} /\ asked = {} /\ gets = {} /\ dht = {} /\ failed = {}
    /\ results = [h \in Host |-> {}]
    /\ alive = Actor
    /\ stage = [m \in Member |-> "out"]
    /\ pipe = [m \in Member |-> {}]
    /\ connected = [m \in Member |-> {}]

(* Components and actors.                                                  *)

\* HandleActorReg: the actor is registered, and the first one of the application
\* makes the service listen.
HandleActorReg(a) ==
    /\ a \in alive
    /\ job[HostOf[a]] = Idle /\ a \notin clients[HostOf[a]]
    /\ clients' = [clients EXCEPT ![HostOf[a]] = @ \cup {a}]
    /\ listening' = listening \cup {HostOf[a]}
    /\ UNCHANGED <<job, results, asked, gets, dht, alive, stage, pipe, connected,
                   failed>>

\* Disco::JoinGroup: the component's thread sends the request and waits, without
\* a timeout, for the answer.
JoinGroup(m) ==
    /\ stage[m] = "out"
    /\ ActorOf[m] \in alive /\ ActorOf[m] \in clients[At(m)]
    /\ stage' = [stage EXCEPT ![m] = "joining"]
    /\ asked' = asked \cup {m}
    /\ UNCHANGED <<job, clients, listening, results, gets, dht, alive, pipe, connected,
                   failed>>

\* LeaveGroup: the group object goes; the discovery service is not told.
LeaveGroup(m) ==
    /\ m \in Leaver /\ stage[m] = "in"
    /\ stage' = [stage EXCEPT ![m] = "left"]
    /\ connected' = [connected EXCEPT ![m] = {}]
    /\ UNCHANGED <<job, clients, listening, results, asked, gets, dht, alive, pipe,
                   failed>>

\* UpdateGroup: the component's thread, unless it waits for its join, reads an
\* update and connects to the member if it is in the group.
UpdateGroup(m, n) ==
    /\ n \in pipe[m] /\ stage[m] # "joining"
    /\ pipe' = [pipe EXCEPT ![m] = @ \ {n}]
    /\ connected' = [connected EXCEPT ![m] = IF stage[m] = "in" THEN @ \cup {n} ELSE @]
    /\ UNCHANGED <<job, clients, listening, results, asked, gets, dht, alive, stage,
                   failed>>

\* The process of actor a is gone, with its components.
End(a) ==
    /\ alive' = alive \ {a}
    /\ stage' = [m \in Member |-> IF ActorOf[m] = a THEN "left" ELSE stage[m]]
    /\ pipe' = [m \in Member |-> IF ActorOf[m] = a THEN {} ELSE pipe[m]]
    /\ connected' = [m \in Member |-> IF ActorOf[m] = a THEN {} ELSE connected[m]]

\* HandleActorUnreg and the end of the process.  The members' addresses stay in
\* the DHT: only services are marked.
HandleActorUnreg(a) ==
    /\ a \in alive
    /\ job[HostOf[a]] = Idle /\ a \in clients[HostOf[a]]
    /\ \A m \in Member : ActorOf[m] = a => stage[m] # "joining"
    /\ clients' = [clients EXCEPT ![HostOf[a]] = @ \ {a}]
    /\ End(a)
    /\ UNCHANGED <<job, listening, results, asked, gets, dht, failed>>

Die(a) ==
    /\ a \in Mortal \cap alive
    /\ End(a)
    /\ UNCHANGED <<job, clients, listening, results, asked, gets, dht, failed>>

(* The discovery service of a host.                                        *)

\* The request of m is read and answered; a component that died does not care.
Answer(m) ==
    /\ asked' = asked \ {m}
    /\ stage' = [stage EXCEPT ![m] = IF @ = "joining" THEN "in" ELSE @]

\* Mutant of HandleGroupJoin: the members that are there are not asked for.
HandleGroupJoinNoGet(m) ==
    /\ m \in asked /\ job[At(m)] = Idle
    /\ Answer(m)
    /\ job' = [job EXCEPT ![At(m)] = Putting(m)]
    /\ UNCHANGED <<clients, listening, results, gets, dht, alive, pipe, connected, failed>>

\* Mutant of HandleGroupJoin: what is to be put is named by the process.
HandleGroupJoinByActor(m) ==
    /\ m \in asked /\ job[At(m)] = Idle
    /\ Answer(m)
    /\ gets' = gets \cup {m}
    /\ job' = [job EXCEPT ![At(m)] = Putting(ActorOf[m])]
    /\ UNCHANGED <<clients, listening, results, dht, alive, pipe, connected, failed>>

\* Mutant of HandleGroupJoin: the answer waits for a member to be found.
HandleGroupJoinWhenFound(m) ==
    /\ m \in asked /\ job[At(m)] = Idle /\ dht # {}
    /\ Answer(m)
    /\ gets' = gets \cup {m}
    /\ job' = [job EXCEPT ![At(m)] = Putting(m)]
    /\ UNCHANGED <<clients, listening, results, dht, alive, pipe, connected, failed>>

\* HandleGroupJoin up to its sleep: the request is answered and the get is
\* started.
HandleGroupJoin(m) ==
    /\ m \in asked /\ job[At(m)] = Idle
    /\ Answer(m)
    /\ gets' = gets \cup {m}
    /\ job' = [job EXCEPT ![At(m)] = Putting(m)]
    /\ UNCHANGED <<clients, listening, results, dht, alive, pipe, connected, failed>>

\* ... and after it: the member is put into the DHT, which tells all listeners of
\* that key.
PutGroup(h) ==
    /\ job[h].op = "put"
    /\ dht' = dht \cup {job[h].member}
    /\ results' = Push(IF SameKey THEN listening ELSE {}, {job[h].member})
    /\ job' = [job EXCEPT ![h] = Idle]
    /\ UNCHANGED <<clients, listening, asked, gets, alive, stage, pipe, connected,
                   failed>>

\* The update n reaches the components of the actors A.
SendTo(A, n) ==
    pipe' = [m \in Member |-> IF ActorOf[m] \in A THEN pipe[m] \cup {n} ELSE pipe[m]]

\* Mutant of HandleDhtGroupUpdate: the loop over the clients ends after one.
HandleDhtGroupUpdateOne(h, n) ==
    /\ job[h] = Idle /\ n \in results[h]
    /\ clients[h] \subseteq alive
    /\ results' = [results EXCEPT ![h] = @ \ {n}]
    /\ IF clients[h] = {} THEN UNCHANGED pipe ELSE \E a \in clients[h] : SendTo({a}, n)
    /\ UNCHANGED <<job, clients, listening, asked, gets, dht, alive, stage, connected,
                   failed>>

\* HandleDhtGroupUpdate: every registered actor of the application is told, the
\* member's own included.
HandleDhtGroupUpdate(h, n) ==
    /\ job[h] = Idle /\ n \in results[h]
    /\ clients[h] \subseteq alive
    /\ results' = [results EXCEPT ![h] = @ \ {n}]
    /\ SendTo(clients[h], n)
    /\ UNCHANGED <<job, clients, listening, asked, gets, dht, alive, stage, connected,
                   failed>>

\* One of them died without unregistering: the send blocks the service for good
\* on a PAIR socket without a peer, after it told some of the others.
TellTheDead(h, n) ==
    /\ job[h] = Idle /\ n \in results[h]
    /\ ~ (clients[h] \subseteq alive)
    /\ results' = [results EXCEPT ![h] = @ \ {n}]
    /\ \E A \in SUBSET (clients[h] \cap alive) : SendTo(A, n)
    /\ job' = [job EXCEPT ![h] = Stuck]
    /\ UNCHANGED <<clients, listening, asked, gets, dht, alive, stage, connected,
                   failed>>

(* The DHT.                                                                *)

\* A get returns what is stored.
GetReturns(m) ==
    /\ m \in gets
    /\ gets' = gets \ {m}
    /\ results' = Push({At(m)}, Found)
    /\ UNCHANGED <<job, clients, listening, dht, alive, stage, pipe, connected, asked,
                   failed>>

\* A get of a join that fails is not repeated.
GetFails(m) ==
    /\ m \in gets
    /\ gets' = gets \ {m}
    /\ failed' = failed \cup {m}
    /\ UNCHANGED <<job, clients, listening, results, asked, dht, alive, stage, pipe,
                   connected>>

\* A value expires after 10 minutes.  group_services_ was filled "for renewing",
\* but RenewServices does not look at it: the member is gone from the DHT.
Expire(m) ==
    /\ m \in dht
    /\ dht' = dht \ {m}
    /\ UNCHANGED <<job, clients, listening, results, asked, gets, alive, stage, pipe,
                   connected, failed>>

-----------------------------------------------------------------------------
\* A turn of the loop of the service of h that has something to do.
Service(h) ==
    \/ PutGroup(h)
    \/ \E m \in Member : At(m) = h /\ HandleGroupJoin(m)
    \/ \E n \in Member : HandleDhtGroupUpdate(h, n) \/ TellTheDead(h, n)

Next ==
    \/ \E a \in Actor : HandleActorReg(a) \/ HandleActorUnreg(a) \/ Die(a)
    \/ \E m \in Member : JoinGroup(m) \/ LeaveGroup(m)
    \/ \E m, n \in Member : UpdateGroup(m, n)
    \/ \E h \in Host : Service(h)
    \/ \E m \in Member : GetReturns(m) \/ GetFails(m) \/ Expire(m)

Spec == Init /\ [][Next]_vars

\* The loops of services and components go on, and a get ends.  Nothing is
\* assumed of the order in which a loop takes what it can read.
FairSpec ==
    /\ Spec
    /\ \A h \in Host : WF_vars(Service(h))
    /\ \A m \in Member : WF_vars(GetReturns(m) \/ GetFails(m))
    /\ \A m \in Member : WF_vars(\E n \in Member : UpdateGroup(m, n))

-----------------------------------------------------------------------------
TypeOK ==
    /\ job \in [Host -> Jobs]
    /\ clients \in [Host -> SUBSET Actor]
    /\ listening \subseteq Host
    /\ asked \subseteq Member /\ gets \subseteq Member
    /\ dht \subseteq Member /\ failed \subseteq Member
    /\ results \in [Host -> SUBSET Member]
    /\ alive \subseteq Actor
    /\ stage \in [Member -> {"out", "joining", "in", "left"}]
    /\ pipe \in [Member -> SUBSET Member]
    /\ connected \in [Member -> SUBSET Member]

\* Between what the get of a join finds and what the listener reports there is
\* no gap: of every member that can be found, a member in the group has heard
\* or will hear, in whatever order joins, puts, gets and updates come, unless its
\* own get failed or its service is blocked.
NobodyMissed ==
    \A m \in Member, n \in Found :
        stage[m] = "in" /\ ActorOf[m] \in alive =>
            \/ n \in connected[m] \cup pipe[m] \cup results[At(m)]
            \/ m \in gets \cup failed
            \/ job[At(m)] = Stuck

\* All actors that are registered with the service of h run.
Healthy(h) == clients[h] \subseteq alive

\* The members of a group connect to each other: a member in the group connects
\* to every other member that can be found, unless its get failed or an actor that
\* is registered at its host died, which is what blocks the service.
MembersMeet ==
    \A m \in Member : \A n \in Member \ {m} :
        stage[m] = "in" /\ n \in Found ~>
            \/ n \in connected[m]
            \/ n \notin Found \/ stage[m] # "in" \/ ActorOf[m] \notin alive
            \/ m \in failed \/ ~ Healthy(At(m))

\* A component that asks to join gets its answer (it waits without a timeout),
\* whether or not the group has members yet, unless an actor at its host died.
JoinsReturn ==
    \A m \in Member : stage[m] = "joining" ~> stage[m] = "in" \/ ~ Healthy(At(m))
=============================================================================

------------------------------ MODULE Discovery -----------------------------
(***************************************************************************)
(* The discovery service of one host: DiscoveryMessageHandler              *)
(* (r_msghandler.cc) with its database of response ports (r_lmdb.cc).      *)
(* The processes of the host register their actors and services with it    *)
(* and look services up; the DHT (OpenDHT, external) carries services and  *)
(* zombie marks between the hosts and calls back from its own thread, so   *)
(* that results reach the service's loop later and in any order.           *)
(*                                                                         *)
(* The service is one loop; job says where in a handler it is.  A handler  *)
(* is cut where it waits (WaitForDht, zclock_sleep), where it may block,   *)
(* and between a mark and the matching change of the database, because the *)
(* service may crash there.  A service is named by its address; keys are   *)
(* per message type and kind, so that several services may share one.      *)
(*                                                                         *)
(* Ages (10 minutes for a DHT value and a renewal, 15 for a zombie) are    *)
(* left out: values expire, are renewed and are purged at any time.        *)
(***************************************************************************)
EXTENDS Integers, FiniteSets

CONSTANTS
    Pid, Actor,  \* processes of this host, actor names
    NameOf,      \* NameOf[p]: the actor that p runs
    Mortal,      \* the processes that may die without unregistering
    Service,     \* services, by address
    Key, KeyOf,  \* DHT keys, and the key of a service
    Rep,         \* the services that are response ports (Kind::REP)
    Owner,       \* Owner[s]: the process that serves s, Nil on another host
    Wants,       \* <<p, k>> : p looks up k
    Nil,
    MaxRetry,    \* how often a failed DHT get is repeated (10 in the code)
    MaxCrash     \* bound: crashes of the service

ASSUME NilAssumption == Nil \notin Pid \cup Actor \cup Service
ASSUME PidAssumption == NameOf \in [Pid -> Actor] /\ Mortal \subseteq Pid
ASSUME ServiceAssumption ==
    /\ KeyOf \in [Service -> Key]
    /\ Rep \subseteq Service
    /\ Owner \in [Service -> Pid \cup {Nil}]
ASSUME WantsAssumption == Wants \subseteq Pid \X Key
ASSUME BoundAssumption == MaxRetry \in Nat /\ MaxCrash \in Nat

VARIABLES
    job,         \* what the service is doing
    clients,     \* clients_: the process registered for each actor, or Nil
    checkins,    \* service_checkins_
    subs,        \* client_subscriptions_: the actors interested in each key
    listening,   \* registered_listeners_
    zombies,     \* zombie_services_
    inbox,       \* results of the DHT that the service has not read yet
    gets,        \* DHT gets that have not returned
    db,          \* the LMDB file: survives a crash
    dht,         \* external: the services stored in the DHT
    alive,       \* the processes that run
    registered,  \* history: the services ever registered
    marked,      \* history: the services ever put under a zombie key
    looked,      \* history: looked[a], the keys clients[a] looked up since it registered
    told,        \* history: told[a], the services it was told of since then
    gaveUp,      \* history: <<a, k>> whose get failed for good since then
    crashes

memory == <<clients, checkins, subs, listening, zombies, gets>>
history == <<registered, marked, looked, told, gaveUp, crashes>>
vars == <<job, memory, inbox, db, dht, alive, history>>

-----------------------------------------------------------------------------
Idle  == [op |-> "idle"]
Down  == [op |-> "down"]
Stuck == [op |-> "stuck"]

\* The marking loop of Init (who is Nil) and of HandleActorUnreg: todo is left to
\* mark, cur is marked and still in the database.
Marking(who, todo, cur) == [op |-> "mark", who |-> who, todo |-> todo, cur |-> cur]

Jobs ==
         {Idle, Down, Stuck}
    \cup [op : {"publish"}, service : Service]
    \cup [op : {"get"}, actor : Actor, key : Key]
    \cup [op : {"mark"}, who : Pid \cup {Nil}, todo : SUBSET Service,
          cur : Service \cup {Nil}]

Update(s) == [type |-> "ProviderUpdate", service |-> s]
GetResult(a, s) == [type |-> "ProviderGet", actor |-> a, service |-> s]
Zombie(s) == [type |-> "ZombieList", service |-> s]

Results ==
         [type : {"ProviderUpdate"}, service : Service]
    \cup [type : {"ProviderGet"}, actor : Actor, service : Service]
    \cup [type : {"ZombieList"}, service : Service]

Up == job # Down

\* The services whose values the DHT reports to this host's listeners.
Heard(S) == {Update(s) : s \in {t \in S : KeyOf[t] \in listening}}

\* Lmdb::Del: the database keeps several values per key and all of them go.
Del(k) == {s \in db : KeyOf[s] # k}

-----------------------------------------------------------------------------
Init ==
    /\ job = Idle
    /\ clients = [a \in Actor |-> Nil]
    /\ checkins = [p \in Pid |-> {}]
    /\ subs = [k \in Key |-> {}]
    /\ listening = {} /\ zombies = {} /\ gets = {}
    /\ inbox = {} /\ db = {} /\ dht = {}
    /\ alive = Pid
    /\ registered = {} /\ marked = {} /\ gaveUp = {}
    /\ looked = [a \in Actor |-> {}]
    /\ told = [a \in Actor |-> {}]
    /\ crashes = 0

\* The histories of the actors A begin anew.
Fresh(A) ==
    /\ looked' = [a \in Actor |-> IF a \in A THEN {} ELSE looked[a]]
    /\ told' = [a \in Actor |-> IF a \in A THEN {} ELSE told[a]]
    /\ gaveUp' = {g \in gaveUp : g[1] \notin A}

(* Requests of the host's processes.                                       *)

\* HandleActorReg: refused while the registered process of that name runs; a
\* dead one is purged (DeregisterActor) and nothing is done about its services.
HandleActorReg(p) ==
    /\ job = Idle /\ p \in alive
    /\ clients[NameOf[p]] \notin alive
    /\ clients' = [clients EXCEPT ![NameOf[p]] = p]
    /\ Fresh({NameOf[p]})
    /\ UNCHANGED <<job, checkins, subs, listening, zombies, gets, inbox, db, dht,
                   alive, registered, marked, crashes>>

\* HandleActorUnreg: the loop that marks the services of the process begins.
\* Nothing checks that p is the registered process of its actor, or that it ever
\* was: one that was refused may ask, and the actor is erased by name.
HandleActorUnreg(p) ==
    /\ job = Idle /\ p \in alive
    /\ job' = Marking(p, checkins[p], Nil)
    /\ UNCHANGED <<memory, inbox, db, dht, alive, history>>

\* Mutant of HandleServiceReg: the test of the kind is inverted.
HandleServiceRegInverted(s) ==
    /\ job = Idle /\ Owner[s] \in alive
    /\ s \notin registered
    /\ registered' = registered \cup {s}
    /\ db' = IF s \notin Rep THEN db \cup {s} ELSE db
    /\ checkins' = [checkins EXCEPT ![Owner[s]] = @ \cup {s}]
    /\ job' = [op |-> "publish", service |-> s]
    /\ UNCHANGED <<clients, subs, listening, zombies, gets, inbox, dht, alive,
                   marked, looked, told, gaveUp, crashes>>

\* HandleServiceReg up to its wait for the DHT: a response port is saved, then
\* the service is remembered for renewal.  The actor need not be registered.
HandleServiceReg(s) ==
    /\ job = Idle /\ Owner[s] \in alive
    /\ s \notin registered
    /\ registered' = registered \cup {s}
    /\ db' = IF s \in Rep THEN db \cup {s} ELSE db
    /\ checkins' = [checkins EXCEPT ![Owner[s]] = @ \cup {s}]
    /\ job' = [op |-> "publish", service |-> s]
    /\ UNCHANGED <<clients, subs, listening, zombies, gets, inbox, dht, alive,
                   marked, looked, told, gaveUp, crashes>>

\* ... and after it: the DHT stores the service.
PublishService ==
    /\ job.op = "publish"
    /\ dht' = dht \cup {job.service}
    /\ inbox' = inbox \cup Heard({job.service})
    /\ job' = Idle
    /\ UNCHANGED <<memory, db, alive, history>>

\* Mutant of HandleServiceLookup: no get when the key has a listener already.
HandleServiceLookupNoGet(p, k) ==
    /\ job = Idle /\ p \in alive
    /\ subs' = [subs EXCEPT ![k] = @ \cup {NameOf[p]}]
    /\ listening' = listening \cup {k}
    /\ looked' = [looked EXCEPT ![NameOf[p]] = IF clients[NameOf[p]] = p THEN @ \cup {k} ELSE @]
    /\ job' = IF k \in listening THEN Idle
              ELSE [op |-> "get", actor |-> NameOf[p], key |-> k]
    /\ UNCHANGED <<clients, checkins, zombies, gets, inbox, db, dht, alive,
                   registered, marked, told, gaveUp, crashes>>

\* HandleServiceLookup up to its wait: subscribe, then listen on the key.
HandleServiceLookup(p, k) ==
    /\ job = Idle /\ p \in alive
    /\ subs' = [subs EXCEPT ![k] = @ \cup {NameOf[p]}]
    /\ listening' = listening \cup {k}
    /\ looked' = [looked EXCEPT ![NameOf[p]] = IF clients[NameOf[p]] = p THEN @ \cup {k} ELSE @]
    /\ job' = [op |-> "get", actor |-> NameOf[p], key |-> k]
    /\ UNCHANGED <<clients, checkins, zombies, gets, inbox, db, dht, alive,
                   registered, marked, told, gaveUp, crashes>>

\* ... and after it: what the DHT holds already is asked for.
DhtGet ==
    /\ job.op = "get"
    /\ gets' = gets \cup {<<job.actor, job.key, 0>>}
    /\ job' = Idle
    /\ UNCHANGED <<clients, checkins, subs, listening, zombies, inbox, db, dht,
                   alive, history>>

(* Marking, as Init and HandleActorUnreg do it for one service at a time.  *)

\* The address is put under the zombie key, on which every host listens.
MarkZombie ==
    /\ job.op = "mark" /\ job.cur = Nil
    /\ \E s \in job.todo :
        /\ marked' = marked \cup {s}
        /\ inbox' = inbox \cup {Zombie(s)}
        /\ job' = Marking(job.who, job.todo \ {s}, s)
    /\ UNCHANGED <<memory, db, dht, alive, registered, looked, told, gaveUp,
                   crashes>>

\* Mutant of DelMarked: the loop of Init leaves the database to the next one.
DelMarkedKeeps ==
    /\ job.op = "mark" /\ job.cur # Nil
    /\ db' = IF job.who = Nil THEN db ELSE Del(KeyOf[job.cur])
    /\ job' = Marking(job.who, job.todo, Nil)
    /\ UNCHANGED <<memory, inbox, dht, alive, history>>

\* Its key is removed from the database.
DelMarked ==
    /\ job.op = "mark" /\ job.cur # Nil
    /\ db' = Del(KeyOf[job.cur])
    /\ job' = Marking(job.who, job.todo, Nil)
    /\ UNCHANGED <<memory, inbox, dht, alive, history>>

\* All are marked: Init ends, or HandleActorUnreg ends with DeregisterActor.
\* service_checkins_ keeps the services of the process.
MarkingDone ==
    /\ job.op = "mark" /\ job.cur = Nil /\ job.todo = {}
    /\ LET gone == {NameOf[p] : p \in {job.who} \ {Nil}} IN
       /\ clients' = [a \in Actor |-> IF a \in gone THEN Nil ELSE clients[a]]
       /\ Fresh(gone)
    /\ job' = Idle
    /\ UNCHANGED <<checkins, subs, listening, zombies, gets, inbox, db, dht,
                   alive, registered, marked, crashes>>

(* Results of the DHT.                                                     *)

\* The registered actors that a result concerns: the subscribers of its key, or
\* the actor that asked, unless the service is a zombie.
Concerned(m) ==
    LET names == IF m.type = "ProviderUpdate" THEN subs[KeyOf[m.service]] ELSE {m.actor} IN
    IF m.service \in zombies THEN {} ELSE {a \in names : clients[a] # Nil}

Tell(A, s) == told' = [a \in Actor |-> IF a \in A THEN told[a] \cup {s} ELSE told[a]]

Running(a) == clients[a] \in alive

\* HandleDhtUpdate, HandleDhtGet: they are told, over their PAIR sockets.
TellClients(m) ==
    /\ job = Idle /\ m \in inbox /\ m.type # "ZombieList"
    /\ \A a \in Concerned(m) : Running(a)
    /\ inbox' = inbox \ {m}
    /\ Tell(Concerned(m), m.service)
    /\ UNCHANGED <<job, memory, db, dht, alive, registered, marked, looked,
                   gaveUp, crashes>>

\* A process has died and is still registered: a PAIR socket without a peer
\* blocks the sender, and no timeout is set.  Some of the others were told.
TellTheDead(m) ==
    /\ job = Idle /\ m \in inbox /\ m.type # "ZombieList"
    /\ \E a \in Concerned(m) : ~ Running(a)
    /\ inbox' = inbox \ {m}
    /\ \E A \in SUBSET {a \in Concerned(m) : Running(a)} : Tell(A, m.service)
    /\ job' = Stuck
    /\ UNCHANGED <<memory, db, dht, alive, registered, marked, looked,
                   gaveUp, crashes>>

\* The zombieList branch of Run.
NoteZombie(m) ==
    /\ job = Idle /\ m \in inbox /\ m.type = "ZombieList"
    /\ zombies' = zombies \cup {m.service}
    /\ inbox' = inbox \ {m}
    /\ UNCHANGED <<job, clients, checkins, subs, listening, gets, db, dht, alive,
                   history>>

\* RenewServices: what has come of age is put again, whether or not the process
\* runs or has unregistered.
RenewServices ==
    /\ job = Idle
    /\ \E S \in SUBSET UNION {checkins[p] : p \in Pid} :
        /\ S # {}
        /\ dht' = dht \cup S
        /\ inbox' = inbox \cup Heard(S)
    /\ UNCHANGED <<job, memory, db, alive, history>>

\* MaintainZombieList: the old zombies are forgotten.
MaintainZombieList ==
    /\ job = Idle
    /\ \E Z \in SUBSET zombies : Z # {} /\ zombies' = zombies \ Z
    /\ UNCHANGED <<job, clients, checkins, subs, listening, gets, inbox, db, dht,
                   alive, history>>

(* The environment: the DHT and the other hosts, deaths and crashes.       *)

\* A get returns every value of its key.
GetReturns(g) ==
    /\ g \in gets
    /\ gets' = gets \ {g}
    /\ inbox' = inbox \cup {GetResult(g[1], s) : s \in {t \in dht : KeyOf[t] = g[2]}}
    /\ UNCHANGED <<job, clients, checkins, subs, listening, zombies, db, dht,
                   alive, history>>

\* Mutant of GetFails: one attempt too many.
GetFailsOnceMore(g) ==
    /\ g \in gets
    /\ gets' = (gets \ {g}) \cup
               (IF g[3] <= MaxRetry THEN {<<g[1], g[2], g[3] + 1>>} ELSE {})
    /\ gaveUp' = IF g[3] <= MaxRetry THEN gaveUp ELSE gaveUp \cup {<<g[1], g[2]>>}
    /\ UNCHANGED <<job, clients, checkins, subs, listening, zombies, inbox, db, dht,
                   alive, registered, marked, looked, told, crashes>>

\* A get fails; the done callback repeats it, up to MaxRetry times.
GetFails(g) ==
    /\ g \in gets
    /\ gets' = (gets \ {g}) \cup
               (IF g[3] < MaxRetry THEN {<<g[1], g[2], g[3] + 1>>} ELSE {})
    /\ gaveUp' = IF g[3] < MaxRetry THEN gaveUp ELSE gaveUp \cup {<<g[1], g[2]>>}
    /\ UNCHANGED <<job, clients, checkins, subs, listening, zombies, inbox, db, dht,
                   alive, registered, marked, looked, told, crashes>>

\* A value that was not renewed in time expires.
Expire(s) ==
    /\ s \in dht
    /\ dht' = dht \ {s}
    /\ UNCHANGED <<job, memory, inbox, db, alive, history>>

\* Another host publishes its service.
RemotePublish(s) ==
    /\ Owner[s] = Nil /\ s \notin dht
    /\ dht' = dht \cup {s}
    /\ inbox' = inbox \cup Heard({s})
    /\ UNCHANGED <<job, memory, db, alive, history>>

\* Another host marks its service, and this one hears of it if it runs.
RemoteMark(s) ==
    /\ Owner[s] = Nil /\ s \notin marked
    /\ marked' = marked \cup {s}
    /\ inbox' = IF Up THEN inbox \cup {Zombie(s)} ELSE inbox
    /\ UNCHANGED <<job, memory, db, dht, alive, registered, looked, told, gaveUp,
                   crashes>>

Die(p) ==
    /\ p \in Mortal \cap alive
    /\ alive' = alive \ {p}
    /\ UNCHANGED <<job, memory, inbox, db, dht, history>>

\* The service dies: only the database, and what is in the DHT, remains.
Crash ==
    /\ Up /\ crashes < MaxCrash
    /\ crashes' = crashes + 1
    /\ job' = Down
    /\ clients' = [a \in Actor |-> Nil]
    /\ checkins' = [p \in Pid |-> {}]
    /\ subs' = [k \in Key |-> {}]
    /\ listening' = {} /\ zombies' = {} /\ gets' = {} /\ inbox' = {}
    /\ Fresh(Actor)
    /\ UNCHANGED <<db, dht, alive, registered, marked>>

\* Init: the zombies the DHT still holds are asked for, and the loop begins that
\* marks the response ports of the previous run.
Restart ==
    /\ ~ Up
    /\ job' = Marking(Nil, db, Nil)
    /\ \E Z \in SUBSET marked : inbox' = {Zombie(s) : s \in Z}
    /\ UNCHANGED <<memory, db, dht, alive, history>>

-----------------------------------------------------------------------------
Request ==
    \/ \E p \in Pid : HandleActorReg(p) \/ HandleActorUnreg(p)
    \/ \E s \in Service : HandleServiceReg(s)
    \/ \E w \in Wants : HandleServiceLookup(w[1], w[2])

Continue == PublishService \/ DhtGet \/ MarkZombie \/ DelMarked \/ MarkingDone

ReadResult == \E m \in inbox : TellClients(m) \/ TellTheDead(m) \/ NoteZombie(m)

Maintain == RenewServices \/ MaintainZombieList

Environment ==
    \/ \E g \in gets : GetReturns(g) \/ GetFails(g)
    \/ \E s \in Service : Expire(s) \/ RemotePublish(s) \/ RemoteMark(s)
    \/ \E p \in Pid : Die(p)
    \/ Crash \/ Restart

Next == Request \/ Continue \/ ReadResult \/ Maintain \/ Environment

Spec == Init /\ [][Next]_vars

-----------------------------------------------------------------------------
TypeOK ==
    /\ job \in Jobs
    /\ clients \in [Actor -> Pid \cup {Nil}]
    /\ checkins \in [Pid -> SUBSET Service]
    /\ subs \in [Key -> SUBSET Actor]
    /\ listening \subseteq Key /\ zombies \subseteq Service
    /\ inbox \subseteq Results
    /\ gets \subseteq Actor \X Key \X (0 .. MaxRetry)
    /\ db \subseteq Service /\ dht \subseteq Service
    /\ alive \subseteq Pid
    /\ registered \subseteq Service /\ marked \subseteq Service
    /\ looked \in [Actor -> SUBSET Key]
    /\ told \in [Actor -> SUBSET Service]
    /\ gaveUp \subseteq Actor \X Key
    /\ crashes \in Nat

\* r_msghandler.cc:74 "The discovery service may be restarted, previously
\* registered response ports are put under the zombie key": when the service
\* takes requests, every response port that was ever registered is known to the
\* present run of the service, or was marked, or lost its record to the mark of a
\* port of this host with the same key, wherever earlier runs crashed.  With a key
\* of its own a port is marked itself.  With a shared one it need not be: Lmdb::Del
\* takes the records of all ports of the key along, so a port whose neighbour
\* unregisters, or is marked just before a crash, is never marked.
RestartMarksPorts ==
    job = Idle => \A s \in registered \cap Rep :
        \/ \E p \in Pid : s \in checkins[p]
        \/ \E t \in marked \cap registered : KeyOf[t] = KeyOf[s]

\* r_msghandler.cc:405 "If the discovery service restarts because of failure, then
\* it puts the response ports into zombie state": no record outlives this.  When
\* the service takes requests its database names ports of its present run only, so
\* that no later restart marks a port of an earlier run again, at an address that
\* may be in use by then, wherever crashes cut the marking loops.
DatabaseIsCurrent ==
    job = Idle => db \subseteq UNION {checkins[p] : p \in Pid}

\* The subscriber of a key misses no service of that key: it was told, or a
\* result that will tell it is on its way, or the get failed for good.  Whatever
\* the order of lookups, publications and results, there is no gap between what
\* the get finds and what the listener hears.
NothingMissed ==
    \A a \in Actor, s \in dht \ marked :
        LET k == KeyOf[s] IN
        clients[a] # Nil /\ k \in looked[a] =>
            \/ s \in told[a]
            \/ Update(s) \in inbox \/ GetResult(a, s) \in inbox
            \/ \E g \in gets : g[1] = a /\ g[2] = k
            \/ job = [op |-> "get", actor |-> a, key |-> k]
            \/ job = Stuck
            \/ <<a, k>> \in gaveUp
=============================================================================

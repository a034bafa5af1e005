# Formal models of riaps-core

TLA+ models of the RIAPS C++ component framework and discovery service, with TLC
configurations and TLAPS proofs. Everything is translated from the code under
`src/src` and `src/include`; ZeroMQ, CZMQ, OpenDHT, LMDB's own transactions and
the clocks are external and modelled by what the code relies on.

## 1. The system

`riaps-core` has two halves (the repository's `README.md`): a **discovery service**,
one per host, and a **component framework** linked into every application process
(an *actor*, with several *components*).

| Part | State it keeps | Operations | Interacts with |
|---|---|---|---|
| Discovery service (`discoveryd/r_msghandler.cc`) | clients, services checked in, subscriptions, DHT listeners, zombie list, group members | register/unregister an actor, register/look up a service, join a group, results of the DHT, renewal, zombie purge, restart | actors (REQ/REP and one PAIR socket each), DHT callbacks through an inproc socket, the LMDB file, the daemon's pipe |
| Discovery database (`utils/r_lmdb.cc`) | response ports, several values per key | Put, GetAll, Del | discovery service only; survives crashes |
| Daemon (`discoveryd/r_discoveryd.cc`) | cache of peers with timeouts, addresses named by scripts | beacons, commands, maintenance of the cache | validator; the service's thread, which joins the DHT |
| Validator (`discoveryd/r_validator.cc`) | a node per endpoint: validated or not, check period | ask a peer to identify itself, read its answer, forget | other hosts, over connections that may fail |
| Group (`groups/r_group.cc`) | ports, known members with timeouts, ping timer | fetch a message, ping/pong, propose, vote, send | one PUB and one SUB socket per component; discovery for the connections |
| Leader election (`groups/r_grouplead.cc`) | state, term, leader id, votes, two timers | `Update()`, `Update(msg)` | driven by the group, once per turn of the component thread |
| Consensus (same file, and `r_group.cc`) | proposals, action locks, deadlines | propose, open a vote, count, announce, purge | uses "am I the leader?" of the election |
| Component thread (`componentmodel/r_componentbase.cc`) | ports, groups, the scheduled action | dispatch, schedule, terminate | timer threads, one-shot threads, controller |
| Timer ports (`componentmodel/ports/r_periodictimer.cc`) | `has_started_`, delay, command pipe | Start, Halt, delay, Stop | its own thread; component thread; controller |
| Message ports, discovery client, DHT tracker, device threads, parameters, utilities | little or none | | see section 8 |

What is hard in this code: messages of several elections in flight on lossy
publish/subscribe links; two components that both believe they lead; deadlines that
race votes; timeouts that are renewed but do not move; a discovery loop fed by DHT
callbacks in any order, which may crash between two of its own writes or block on a
dead client; members that join at the same time on different hosts; peers that stop,
restart and answer late; and a timer port whose flag and pipe are used by two or three
threads without a lock. `PROJECT.json` lists the hazards at their lines.

What makes each part correct, in one line each: only real votes of the current term
elect and a majority is needed; a vote ends once, rejected if late, and never blocks
its action for ever; whoever counts as a member was heard lately; a lookup misses no
service, a join no member, and a restart leaves no record of an earlier run in the
database; no host is cached before a key was proved, and cached hosts are joined; a
started timer fires, and termination ends and deletes no port that is in use.

## 2. Modules

| Module | Models | Built on |
|---|---|---|
| `GroupPorts` | PUB/SUB connections of a group: ordered, at most once, lossy, bounded | |
| `Leadership` | abstract leader role of a component: none, office, ghost | `GroupPorts` |
| `GroupLead` | the election, one `GroupLead` per component | `GroupPorts`; refines `Leadership` |
| `Timeout`, `ElectionTimer` | class `Timeout`; the election timer in discrete time | |
| `Group` | one group object in time: members, pings, election timer, one loop | extends `ElectionTimer` and refines it |
| `Consensus` | proposals, votes, action locks | extends `Leadership` |
| `Discovery` | discovery service of one host, database, DHT, processes | |
| `DiscoveryGroups` | how the members of a group on several hosts find each other | |
| `Validator`, `Daemon` | the validator; the daemon's loop, its cache, peers, joins of the DHT | `Daemon` extends `Validator` |
| `PeriodicTimer`, `Component` | timer port and its thread; component thread, one-shot timers, Terminate | |
| `MC*` | small instances for TLC | |
| `*Proofs` | TLAPS proofs | the module of that name |

Operators whose comment begins with "Mutant of" are wrong variants of a definition.
They are used nowhere in the specifications; replacing the definition by its variant
makes TLC find the property named in `PROJECT.json` violated.

### How state and actions correspond to the code

**Election.** `state, term, leaderId, nodesInVote, votes` are the fields
`m_currentState, m_electionTerm, m_leaderId, m_numberOfNodesInVote, m_votes`. One
action is one return of `Group::FetchNextMessage`: either nothing was readable and
`Update()` runs (`StartElection`, `AbandonElection`, `Heartbeat`, `Wait`), or one
message was read and `Update(msg)` runs (`GrantVote`, `CountVote`, `WinElection`,
`FollowLeader`, `Ignore`). Timers may expire at any time in this module, so it contains
every timing; what the timer measures is in `ElectionTimer`. `GetMemberCount()` is any
member of `MemberCounts`. `cast` and `won` are history. A vote in `cast` has a term and no
candidacy, as the message has: `VotesAreReal` says that counted votes are of the present
term, not that they answer the present candidacy (section 4).

**Leader role.** A component that is deposed by a request of a higher term keeps its
own id as leader, so `IsLeader()` stays true: the role "ghost". `Leadership` states
exactly how roles may change; the election is shown to implement it, and `Consensus`
uses nothing else of the election.

**Group in time.** `known` is `known_nodes_`, a `Timeout` per member; `turn` alternates
between `SendPingWithPeriod()` and `FetchNextMessage()`, as the component's loop does.
The other members are the environment, and a message of any kind may be readable at any
time. The two overloads of `Reset` are `Armed`, which starts the timeout afresh, and
`ResetCount`, which only stores the duration, because that is what
`Reset(int64_t)` does (`r_timeout.h:57-59`).

**Consensus.** `open`, `pd` and `actionData` are `m_proposeData` and `m_actionData`.
`Receive` is the consensus branch of `FetchNextMessage`; `PassDeadline` lets the
1000 ms deadline of one proposal pass; `Purge` is the last branch of `Update()`.
`OnAnnounce` is the application's and has no state here: announcements are recorded
when published. A vote names a proposal and a voter, as the message does, not a leader.

**Discovery.** `job` says where in a handler the service's single loop is. Handlers
are cut where they wait (`WaitForDht`, `zclock_sleep`), where a send may block, and
between a zombie mark and the matching `Lmdb::Del`, since the service may crash there.
`inbox` is unordered, because DHT results come from the DHT's threads. `Del` removes
every value of a key, also of other services. An actor is unregistered by name, by any
process that asks, also by one whose own registration was refused. Ages (10 and 15 minutes) are abstracted: values expire, are
renewed and purged at any time. A put to the DHT is atomic and durable: losing the
DHT's own queue in a crash is left out.

**Groups in discovery.** `HandleGroupJoin` is cut at its sleep: before it the request is
answered and the DHT is asked, after it the member is put. `results` holds what gets and
listeners pushed to the loop; `HandleDhtGroupUpdate` sends it to every registered actor,
and `TellTheDead` is the send to one that died, which blocks for good. A member is a
group object; one that leaves and joins again has a new publisher and counts as another.
The code looks members up with `dht::InfoHash(key)` and puts them with
`dht::InfoHash::get(key)`. Whether these are one key is decided in OpenDHT: the constant
`SameKey`. The properties speak of the members that can be `Found`, and the run sets
`SameKey` to TRUE. OpenDHT is not in the repository; if its string constructor parses
hexadecimal digits instead of hashing, `SameKey` is FALSE and nobody finds anybody. The
theorem `GroupsMissNobody` holds for both values, in the second case of nobody.

**Daemon.** `clusterNodes` is the validator's map; `due` says that a node's check period
is over. A host that restarts has a new endpoint, so a new node, but its old address in
`ipcache`. `stale` are the cached addresses whose 30 s are over; `maintain_cache` deletes
them when it is called, on a valid beacon or an idle poll. Requests and answers can be
lost. Holding the key is a property of an endpoint; signatures are not computed. What the
loop validates is the endpoint in the payload of a beacon, what it caches is the address
the beacon came from, and it compares them nowhere: `Carries[p]` are the endpoints of
other hosts that beacons from p may name beside p's own. The host's own beacon runs
`IsValid` too, before it is recognised, so it may delete old nodes (`HearOwn`).

**Component.** The test, the assignment and the send of `Start()` and `Halt()` are
separate steps of whichever thread runs them. The data race on the `bool` is modelled by
the interleavings of whole reads and writes, which is what the build produces for a byte.
The command pipe is an atomic FIFO. In the code up to three threads send on one CZMQ
socket without a lock (`r_periodictimer.cc:149, 163, 182`); the orders of their commands
are covered, damage to the socket's own memory is not.
The timer thread reads at most one command per turn. A handler of the application may
start, halt and re-arm the timer and schedule actions. "aborted" is the end of the
process: an empty `std::function`, `zactor_send` on a stopped actor, or `Terminate()` on
a component that has not run its first turn.

## 3. Runs

| Run | Checks | Instance |
|---|---|---|
| `GroupLead_safety` | types; only votes of the term count; leaders were elected and candidates follow nobody; only elected components are followed; two winners of one term share a double voter; victories are majorities; a term falls only behind a leader; the election implements `Leadership` | 3 components, full mesh, lossy, 2 terms, 1 message per link, 3 or 4 nodes in a vote (4 by one component at most, in term 2), symmetry (1 008 000 states) |
| `GroupLead_split` | *violated:* one leader per term | as `GroupLead_safety` |
| `Group_clock` | a candidate waits exactly its window; elections and pings are spaced; members were heard; a suspicion is pinged | 2 peers; election timeouts 1 to 2, ping period 1, member timeouts 2 to 3 (794 000 states) |
| `Group_heard` | *violated:* who is heard stays known | as `Group_clock` |
| `ElectionTimer_silence` | *violated:* candidate only after silence | timeouts 3 to 10 |
| `Consensus_votes` | one outcome; nothing accepted late; locks are live; with one server every elector counts once; votes end | 3 components, the leader hears itself, 2 proposals of one action |
| `Consensus_double` | *violated:* accepted by a majority | two leaders cut off from each other, one common client |
| `Discovery_services` | types; a restart marks response ports; the database is current; no service is missed | 2 processes of one actor, each with a response port, both of one key; a remote service of another key that one looks up; one death, one crash, one retry, 3 gets and results under way at a time (5 700 000 states) |
| `DiscoveryGroups_join` | types; nobody that can be found is missed; members meet; joins return | 2 hosts; actors a1, a2 on h1 and a3 on h2; one member of a1 and one of a3, which may leave; a2 may die (178 000 states) |
| `Daemon_peers` | types; nobody is cached without a proof; cached hosts are joined; valid until checked; hosts are joined; stopped hosts leave the cache | h1 runs twice, first without the key, may stop, and its beacons may name h2's endpoint; h2 runs on and is named by a script (94 000 states) |
| `Component_threads` | types; a periodic timer obeys; ports are deleted unused; a started periodic timer fires; termination ends | one timer port of either kind, two one-shot timers, one call per handler (381 000 states) |
| `Component_lost` | *violated:* a started timer fires | same |

**Why the bounds are enough for the cases of interest.** Two terms are what it takes
for a term to fall and a component to vote twice; the mutants and the split both happen
within them. One message per link still lets requests, votes and heartbeats of different
publishers overtake each other, and drops happen at the full queue as well as by
`Lossy`. With 3 nodes in a vote the first vote received elects; with 4, when a member that
left is still counted, it takes two, so that votes are also collected. Components that hear
themselves, and any other member count, are left to the proofs and, for the arithmetic of
the majority, to the assumption `MajorityIsLeast`. The timeouts keep the order of the constants of the code; the proofs hold for
all values. In `Group_clock` two peers let one entry time out while the other is heard.
For consensus, two proposals of one action meet every branch of the lock except its
premature release, which needs three (section 4). One crash at every point of a marking
loop, and one death, reach every branch of the discovery service; the proofs cover any
number. Its two local ports share a key, so that the deletion of one takes the other's
record along; `FewInFlight` still lets two results and a get meet in every order. Two members on two hosts are the smallest group whose joins can cross, and an
actor without a member is enough to block its host's service. A second run of one host is
what it takes for an address to be cached from an earlier one; without the key first, the
host is asked, not validated, and comes back valid. In `Component`, one call per handler
is no restriction, since handlers follow each other at any time (`ReadPort`); two unread
commands let `$START` and `$HALT` of the two threads meet in the pipe.

**Deadlock** is not checked in the `Component` runs, where the system stops after
`Terminate()` and when the process aborts, nor in `DiscoveryGroups_join`, where all
actors may be gone or the services blocked. It is checked everywhere else.

**Fairness.** `GroupLead` has none: `Update()` runs only when nothing was readable for
1 ms, and a permanent stream of messages starves it, so that not even the end of a
candidacy is guaranteed. `Consensus`: deadlines pass and the leader's loop comes round,
which assumes that the group's poller is idle now and then. `Group` assumes
only that time passes and that both calls of the loop are made, whatever there is to read.
`DiscoveryGroups`: a service that has something to read and is not blocked reads
something, a get ends in some way, a component reads its updates. `Daemon`: beacons of
every running host are heard (strongly so for valid ones: one a second against periods of
45 s and more), a request repeated in every period is some time answered within it,
periods and timeouts end, commands in the pipe are read; nothing is assumed of the idle
poll, which the host's own beacons prevent. `Component`: every thread runs; `$TERM` is
read eventually (strong fairness), because the command pipe is the first socket of the
poller. No fairness is assumed of the application, of `Terminate()` being called, or of
the network.

## 4. What the violated properties show

1. **Two leaders in one term** (`r_grouplead.cc:232-238`). A follower obeys heartbeats
   of any term, so its term can fall and it votes again in a term it has voted in.
   `SplitNeedsDoubleVote` is the positive side: with full knowledge of the group, this is
   the only way. A leader gives way only to a strictly higher term (l.246), so both stay.
2. **Elections under a healthy leader** (`r_timeout.h:57`). `Reset(int64_t)` does not move
   the end point, so heartbeats do not postpone the election timer.
3. **A member that is heard drops out** (`r_group.cc:681`). The entries of `known_nodes_`
   are renewed with the same overload. `GetKnownComponents()` leaves out a component that
   sends heartbeats all the time once its first timeout is over. The entry is deleted only by
   a count of the members, which a group with a stable leader never makes.
4. **A minority decides** (`r_grouplead.cc:418-423`). Votes are counted without regard to
   `nodesVoted`; with two acting leaders a client's two votes are both counted by one.
5. **A lost start** (`r_periodictimer.cc:69-71`). A sporadic timer re-armed by its own
   handler is halted by its thread afterwards.

### Observed and not part of a run

*Groups.* A late vote for an expired proposal erases the lock of the action by its id
(`r_grouplead.cc:396-400`), also when a newer proposal holds it; with a third proposal two
votes on one action are open. The timestamps saved "to filter possibly old votes"
(`r_grouplead.cc:74`) are never read, and l.203 compares the term only: a component whose
term fell and that stands again in the same term counts late votes of its first candidacy.
`OldVotesNeedFallingTerms` proves that this, too, takes a falling term. `group_leader_` is
dereferenced without a test on an election message (`r_group.cc:693`).
`LeaveGroup(GroupId&&)` calls `JoinGroup` (`r_componentbase.cc:748-750`). A component's
subscriber is also connected to its own publisher.

*Discovery.* `Del(key)` removes every service that shares the key (`r_lmdb.cc:161`). When an
actor unregisters and another one has a port of the same key, that port's record goes too;
after a crash the port is not in the database and is not marked as a zombie, against the
comments at `r_msghandler.cc:74` and `405-407`. `RestartMarksPorts` therefore promises no
mark for every port of an earlier run, but that the port is marked or a port of its key
is. Any process can erase a running actor by its name (`r_msghandler.cc:333-362`). `service_checkins_` is never erased, so `RenewServices` keeps dead
services in the DHT; `group_services_` is filled for renewing and never renewed, so members
expire. A result sent to a client that died without unregistering blocks the loop
(`TellTheDead`). The two hashes of a group key are discussed in section 2.

*Daemon.* The endpoint in a beacon is validated and the sender's address is cached
(`r_discoveryd.cc:301-313`), so an address can be cached and joined that proved nothing
itself (`CachingNeedsProof`). `maintain_cache` runs on a valid beacon of another host or when the poll was idle
for its whole timeout; own beacons come every second, so with no other valid peer a stopped
one stays cached, against the comment at `r_utils.cc:73`. A peer that restarts before its
30 s are over is not new and is not joined again from this side. Addresses named by
scripts never time out. `last_delete_.Reset()` is outside the condition, so old nodes are
never deleted while beacons come more often than once a minute. The tracker is told of
beacons before they are validated.

*Components.* Messages of query and answer ports are read and dropped
(`r_componentbase.cc:233-277`). `scheduled_action_` is one variable: a second
`ScheduleAction` before the first is due overwrites it, so both timers run the second action,
against "at tp the given action is executed" (`r_componentbase.h:553`).
`ScheduleAbsTimer` sets no action, and its timer ends the process by calling an empty
`std::function`, where `examples/AdaptiveTimer/cpp/ATimer.cc:4` waits for
`OnScheduledTimer`. A sporadic timer whose handler halts and starts it while its thread halts
it can get `$HALT`, `$HALT`, `$START` with `has_started_` left false: it fires again and again
and `Halt()` does nothing (seen with two calls per handler and three unread commands).

## 5. Proofs

TLAPS proves the following for every value of the constants.

* `GroupProofs`: `GroupImplementsTimer`, each step of the group object being a step of
  `ElectionTimer` or a stutter; `CandidateWindow` and `ElectionsAreSpaced`, where the
  invariant adds that the timer's end is never before the end of the window of the last
  election, since no message handler moves the end point at all; `MembersWereHeard`
  and `PingsAreSpaced`, by invariants that relate what is left of a timeout to the time since
  it was armed.
* `GroupLeadProofs`: all safety properties of the election, also that a leader leaves office
  only upwards (`LeadersYieldUpwards`). The inductive invariant relates state to messages in
  flight: every vote in flight is in `cast`, every heartbeat in flight belongs to a victory,
  and counted votes are of the current term. `SplitNeedsDoubleVote` follows from the
  majorities by counting two sets of voters in one group. `SplitsNeedFallingTerms` names the
  cause of the finding `GroupLead_split`: in a run in which no follower takes over an older
  term (the hypothesis `TermsNeverFall`), a component votes once per term, so that two
  components that had the whole group in the vote never win the same term.
  `OldVotesNeedFallingTerms`: in such a run a component also stands once per term at most, so
  that no vote of an earlier candidacy counts in a later one.
  `ElectionImplementsLeadership`: each action is an abstract step or a stutter, with `Echo`
  for a component that reads its own heartbeat.
* `GroupPortsProofs`: what `Publish` and `Consume` leave in the queues, and when a message
  stays the only one of its kind on a connection.
* `ConsensusProofs`: all safety properties of the voting, in three layers. Types and
  `LocksAreLive` give `NoLateAcceptance`. The invariant `Once` relates the tables to the
  messages in flight: a proposal on its way was published by its author and is new to the
  component that will read it, a call for votes comes from a component that opened the vote,
  a vote from its voter. It is needed because `AtMostOneOutcome` alone is not inductive: an
  old proposal in flight could open a closed vote again. It also gives
  `OutcomesHaveOrigins` (nothing is announced that was not proposed, nor by a component that
  won no election) and `OutcomesAreFinal`. The invariant `OneServer` adds, while one component
  at most was ever in office, that who is still to be asked has not voted and that a vote in
  flight was not counted at its destination; by counting distinct voters it gives
  `OneServerCountsOnce`, a condition under which the finding `Consensus_double`
  cannot happen, and `OneServerAgrees`: the group hears one outcome per proposal at most.
* `DiscoveryProofs`: types; `RestartMarksPorts` and `DatabaseIsCurrent`, for any sharing of
  keys; `NothingMissed`. The invariant `Tracked` says that a response port stays in the
  database until a port of its key is marked, that whatever the database holds beyond the
  present run's registrations is being marked, and that a record is deleted only once its
  service is marked; `Wired` relates subscriptions, listeners and results on their way.
* `DiscoveryGroupsProofs`: types and `NobodyMissed`, for both values of `SameKey`. The
  invariant `Served` adds that a member that is joining or in the group has a registered,
  running actor at a host that listens, so that a put reaches it and what was there before
  is in its get.
* `DaemonProofs`: types, `CachingNeedsProof` (theorem `CachingNeedsAKey`), `CachedAreJoined`, `ValidUntilChecked`. The invariant
  adds that validated nodes hold the key and that every host is in one of its runs.
* `ComponentProofs`: types; `PeriodicObeys`, by the invariant that `has_started_` is what
  the commands still in the pipe will make of the thread; `PortsDeletedUnused`, by relating
  where `Terminate()` stands to which threads have ended and to the calls under way.

The assumptions are those named in the modules: finitely many components, well-typed
constants, natural bounds. Every invariant and action property of a passing run is proved.
Only model-checked are the liveness properties, which rest on fairness and are beyond the
prover: `VotesEnd`, `SuspicionIsPinged`, `MembersMeet`, `JoinsReturn`,
`HostsAreJoined`, `StoppedHostsLeave`, `PeriodicFires` and `TerminateEnds`.

## 6. Reading a module

Each module has its constants with assumptions, variables with the field they model,
helpers, one action per operation, `Next`, `Spec` (and `FairSpec`), then what holds, then
what the source says and does not hold. `PROJECT.json` maps every definition to its lines.

## 7. Plan

Done, in order of importance: election, its timer, consensus, discovery of services,
component and timer threads; then membership and pings composed with the election timer,
groups in the discovery service, the daemon with its validator.

Left: the safety proofs are complete; what remains is to state and prove more about what the
components achieve together. Of the code, message ports could be modelled together
with ZeroMQ's request/reply alternation, which would say more about ZeroMQ than about this
code.

## 8. Not modelled

* **Message ports** (request, response, query, answer, publish, subscribe, inside): wrappers
  of one socket each, without a protocol of their own.
* **DHT tracker**: a registration waits for it at most 10 times 500 ms and goes on whatever
  it says (`WaitForDht`, a step of its own in `Discovery`), so it can only delay.
* **Discovery client**, apart from `JoinGroup`: each call is one request and one answer,
  which is the guard of the service's handlers.
* **Daemon without security**, and its start-up.
* **Device threads**: their loop is the application's.
* **Callback and one-shot timer classes** (`r_callbacktimer.cc`, `r_oneshottimer.cc`): not used
  by the framework at this commit.
* **Records, parameters, payloads, message readers, the Python bridge, configuration,
  interfaces, keys**: data and I/O without a state machine. Application messages of a group
  carry no state of the group.
* **Vendored and generated code** under `include/` (json.h, spdlog, spdlog_setup, pybind11,
  cpptoml, the Cap'n Proto output): third-party. It is some 87% of the lines under `src/`
  and `include/`; of the project's own code, about 7 000 lines in `.cc` files and 3 800 in
  headers, the models cover 3 000.

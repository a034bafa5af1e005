------------------------------- MODULE Daemon -------------------------------
(***************************************************************************)
(* The main loop of the discovery service of one host (main,               *)
(* r_discoveryd.cc): beacons of other hosts and commands of scripts, with  *)
(* the validator that the loop calls and the thread that joins the DHT     *)
(* (HandlePipeMessage, r_msghandler.cc).  Other hosts run, stop and start  *)
(* again with a new endpoint.  Security is on.                             *)
(*                                                                         *)
(* A beacon has a sender address and a payload, the endpoint to validate.  *)
(* The loop validates the payload and caches the address; it never looks   *)
(* whether the one belongs to the other.                                   *)
(***************************************************************************)
EXTENDS Integers, Validator

CONSTANTS
    Peer,    \* the addresses of the other hosts
    Runs,    \* bound: Runs[p] is how often host p runs
    Carries, \* Carries[p]: the endpoints that beacons sent from the address p may
             \* carry, besides the one of its present run
    Mortal,  \* the hosts that may stop
    Named    \* the hosts that scripts tell this one to join

ASSUME HostAssumption ==
    /\ Runs \in [Peer -> Nat \ {0}]
    /\ Endpoint = UNION {{p} \X (1 .. Runs[p]) : p \in Peer}
    /\ Carries \in [Peer -> SUBSET Endpoint]
    /\ Mortal \subseteq Peer /\ Named \subseteq Peer

VARIABLES
    run, up,          \* run[p]: the run of host p; up: the hosts that run
    ipcache, stale,   \* cached addresses, and those whose timeout is over
    externalipcache,  \* the addresses named by commands
    pipe,             \* CMD_DISCO_JOIN on its way to the service's thread
    linked            \* external: the hosts whose DHT node is connected to ours

hosts == <<run, up>>
cache == <<ipcache, stale, externalipcache>>
vars == <<validatorVars, hosts, cache, pipe, linked>>

\* The endpoint of the present run of p, and the payloads of beacons sent from p.
Now(p) == <<p, run[p]>>
Payloads(p) == Carries[p] \cup {Now(p)}

Init ==
    /\ ValidatorInit
    /\ run = [p \in Peer |-> 1] /\ up = Peer
    /\ ipcache = {} /\ stale = {} /\ externalipcache = {}
    /\ pipe = {} /\ linked = {}

-----------------------------------------------------------------------------
(* The main loop.                                                          *)

\* A beacon whose payload is not, or not any more, valid.
HearInvalid(p, e) ==
    /\ p \in up /\ e \in Payloads(p)
    /\ IsValid(e, FALSE)
    /\ UNCHANGED <<hosts, cache, pipe, linked>>

\* A beacon of this host: its payload is validated like any other, and no more.
\* The node of this host is not modelled.
HearOwn ==
    /\ \E kept \in DeleteOldNodes : KeepNodes(kept)
    /\ UNCHANGED <<hosts, cache, pipe, linked>>

\* Mutant of HearValid: what timed out stays in the cache.
HearValidKeeps(p, e) ==
    /\ p \in up /\ e \in Payloads(p)
    /\ IsValid(e, TRUE)
    /\ ipcache' = ipcache \cup {p} /\ stale' = stale \ {p}
    /\ pipe' = IF p \in ipcache THEN pipe ELSE pipe \cup {p}
    /\ UNCHANGED <<hosts, externalipcache, linked>>

\* Mutant of HearValid: the new entry is looked for after it was made.
HearValidLate(p, e) ==
    /\ p \in up /\ e \in Payloads(p)
    /\ IsValid(e, TRUE)
    /\ ipcache' = (ipcache \ stale) \cup {p} /\ stale' = {}
    /\ pipe' = IF p \in ipcache' THEN pipe ELSE pipe \cup {p}
    /\ UNCHANGED <<hosts, externalipcache, linked>>

\* A beacon whose payload is valid: the entry of its sender is made or renewed,
\* maintain_cache() removes what timed out, and a sender that was not cached is
\* joined.
HearValid(p, e) ==
    /\ p \in up /\ e \in Payloads(p)
    /\ IsValid(e, TRUE)
    /\ ipcache' = (ipcache \ stale) \cup {p} /\ stale' = {}
    /\ pipe' = IF p \in ipcache THEN pipe ELSE pipe \cup {p}
    /\ UNCHANGED <<hosts, externalipcache, linked>>

\* Nothing was heard for UDP_READ_TIMEOUT: maintain_cache().
Idle ==
    /\ stale # {}
    /\ ipcache' = ipcache \ stale /\ stale' = {}
    /\ UNCHANGED <<validatorVars, hosts, externalipcache, pipe, linked>>

\* CMD_DISCO_JOIN of a script; a second one for the host is ignored for ever.
Command(p) ==
    /\ p \in Named \ externalipcache
    /\ externalipcache' = externalipcache \cup {p}
    /\ pipe' = pipe \cup {p}
    /\ UNCHANGED <<validatorVars, hosts, ipcache, stale, linked>>

\* validator.ReplyAll(), called in every turn.
ReplyAll(e) == ReadAnswer(e) /\ UNCHANGED <<hosts, cache, pipe, linked>>

\* HandlePipeMessage, in the service's thread: bootstrap connects to a host that
\* runs.
HandlePipeMessage(p) ==
    /\ p \in pipe
    /\ pipe' = pipe \ {p}
    /\ linked' = IF p \in up THEN linked \cup {p} ELSE linked
    /\ UNCHANGED <<validatorVars, hosts, cache>>

(* Timeouts.                                                               *)

CacheTimesOut(p) ==
    /\ p \in ipcache \ stale
    /\ stale' = stale \cup {p}
    /\ UNCHANGED <<validatorVars, hosts, ipcache, externalipcache, pipe, linked>>

PeriodEnds(e) == CheckPeriodEnds(e) /\ UNCHANGED <<hosts, cache, pipe, linked>>

(* The network and the other hosts.                                        *)

Lose(e) == LoseAnswer(e) /\ UNCHANGED <<hosts, cache, pipe, linked>>

Stop(p) ==
    /\ p \in Mortal \cap up
    /\ up' = up \ {p}
    /\ linked' = linked \ {p}
    /\ UNCHANGED <<validatorVars, run, cache, pipe>>

Start(p) ==
    /\ p \in Peer \ up /\ run[p] < Runs[p]
    /\ run' = [run EXCEPT ![p] = @ + 1]
    /\ up' = up \cup {p}
    /\ UNCHANGED <<validatorVars, cache, pipe, linked>>

\* p joins this host.  It runs the same code, and in a run after the first its
\* cache was empty when it started.
JoinedBy(p) ==
    /\ p \in up \ linked /\ Now(p) \in KeyHolder /\ run[p] > 1
    /\ linked' = linked \cup {p}
    /\ UNCHANGED <<validatorVars, hosts, cache, pipe>>

-----------------------------------------------------------------------------
Next ==
    \/ Idle \/ HearOwn
    \/ \E p \in Peer :
          \/ \E e \in Payloads(p) : HearInvalid(p, e) \/ HearValid(p, e)
          \/ Command(p)
          \/ HandlePipeMessage(p) \/ CacheTimesOut(p)
          \/ Stop(p) \/ Start(p) \/ JoinedBy(p)
    \/ \E e \in Endpoint : ReplyAll(e) \/ PeriodEnds(e) \/ Lose(e)

Spec == Init /\ [][Next]_vars

\* The host that runs at p answers within the check period.
PromptAnswer(p) ==
    /\ p \in up /\ Now(p) \in asked /\ ~ clusterNodes[Now(p)].due
    /\ ReplyAll(Now(p))

\* A period is 45 to 60 seconds: a request that is repeated every period is some
\* time answered within it, and then one of the beacons, which come every second,
\* of that endpoint is heard in what is left of it.  Nothing is assumed of Idle, which own beacons
\* prevent.
FairSpec ==
    /\ Spec
    /\ \A p \in Peer :
          /\ WF_vars(HearInvalid(p, Now(p))) /\ SF_vars(HearValid(p, Now(p)))
          /\ SF_vars(PromptAnswer(p))
          /\ WF_vars(PeriodEnds(Now(p)))
          /\ WF_vars(HandlePipeMessage(p)) /\ WF_vars(CacheTimesOut(p))
          /\ WF_vars(JoinedBy(p))

-----------------------------------------------------------------------------
TypeOK ==
    /\ ValidatorTypeOK
    /\ run \in [Peer -> Nat] /\ up \subseteq Peer
    /\ ipcache \subseteq Peer /\ stale \subseteq ipcache
    /\ externalipcache \subseteq Peer /\ pipe \subseteq Peer /\ linked \subseteq Peer

\* An address enters the cache only when an endpoint that its beacons carry has
\* proved to hold the key and its check period is not over, whatever was lost,
\* answered late or deleted meanwhile.  A host whose beacons carry no endpoint but
\* its own (Carries[p] = {}) must hold the key itself; another need not,
\* r_discoveryd.cc:301-313 does not compare the endpoint with the address.
CachingNeedsProof ==
    [][\A p \in ipcache' \ ipcache :
          \E e \in Payloads(p) \cap KeyHolder \cap Listed :
              clusterNodes[e].validated /\ ~ clusterNodes[e].due]_vars

\* A host in the cache is not joined again, so it must be joined already: in its
\* first run it is connected or about to be.  (After a restart it is for the
\* other side to join.)
CachedAreJoined ==
    \A p \in ipcache \cap up : run[p] = 1 => p \in linked \cup pipe

\* A host that proved its key stays valid until its check period is over, also
\* when old nodes are deleted.
ValidUntilChecked ==
    [][\A e \in Listed :
          clusterNodes[e].validated /\ ~ clusterNodes[e].due =>
              e \in Listed' /\ clusterNodes[e].validated']_vars

\* Every host that holds the key and keeps running is connected, by our join or
\* after a restart by its own, although answers are lost and periods end.
HostsAreJoined ==
    \A p \in Peer : p \in up /\ Now(p) \in KeyHolder ~> p \in linked \/ p \notin up

\* A host that stopped for good leaves the cache as long as another valid one is
\* heard.
StoppedHostsLeave ==
    \A p \in Mortal : p \notin up ~> p \notin ipcache \/ p \in up
=============================================================================

---------------------------- MODULE DaemonProofs ----------------------------
(***************************************************************************)
(* Safety of the discovery service's main loop and of its validator, for   *)
(* any hosts, any number of restarts, and any loss and delay of answers.   *)
(*                                                                         *)
(* What the cache holds follows from what the validator recorded when it   *)
(* was asked: the invariant adds that only holders of the key are marked   *)
(* as validated (ValidatorOK) and that the runs of a host are counted from *)
(* one (RunsOK), so that a restarted host is never taken for one in its    *)
(* first run.                                                              *)
(***************************************************************************)
EXTENDS Daemon, TLAPS

ValidatorOK ==
    /\ ValidatorTypeOK
    /\ \A e \in Listed : clusterNodes[e].validated => e \in KeyHolder

RunsOK == \A p \in Peer : run[p] \in 1 .. Runs[p]

IInv == TypeOK /\ ValidatorOK /\ RunsOK /\ CachedAreJoined

\* A host that is valid until its period is over stays so in this step.
Lasting(e) ==
    e \in Listed /\ clusterNodes[e].validated /\ ~ clusterNodes[e].due =>
        e \in Listed' /\ clusterNodes'[e].validated

-----------------------------------------------------------------------------
\* What a beacon carries is one of the endpoints.
LEMMA PayloadsAreEndpoints ==
    ASSUME RunsOK, NEW p \in Peer
    PROVE  Payloads(p) \subseteq Endpoint
  BY HostAssumption DEF RunsOK, Payloads, Now

\* DeleteOldNodes: nobody whose period is not over loses anything.
LEMMA KeepFacts ==
    ASSUME ValidatorOK, NEW kept \in DeleteOldNodes, KeepNodes(kept)
    PROVE  ValidatorOK' /\ \A f \in Endpoint : Lasting(f)
<1>1. /\ kept \subseteq Listed
      /\ \A f \in Listed : ~ clusterNodes[f].due => f \in kept
  BY DEF DeleteOldNodes
<1>2. clusterNodes' = [f \in kept |-> clusterNodes[f]] /\ asked' = asked \cap kept
  BY DEF KeepNodes
<1>3. Listed' = kept /\ \A f \in Listed' : clusterNodes'[f] = clusterNodes[f]
  BY <1>2 DEF Listed
<1>4. ValidatorTypeOK'
  BY <1>1, <1>2, <1>3 DEF ValidatorOK, ValidatorTypeOK
<1>5. \A f \in Endpoint : Lasting(f)
  BY <1>1, <1>3 DEF Lasting
<1> QED
  BY <1>1, <1>3, <1>4, <1>5 DEF ValidatorOK

\* IsValid: the table stays well formed, valid hosts hold the key, and nobody
\* whose period is not over loses anything.
LEMMA IsValidFacts ==
    ASSUME ValidatorOK, NEW e \in Endpoint, NEW r \in BOOLEAN, IsValid(e, r)
    PROVE  /\ ValidatorOK'
           /\ r => /\ e \in KeyHolder \cap Listed
                   /\ clusterNodes[e].validated /\ ~ clusterNodes[e].due
           /\ \A f \in Endpoint : Lasting(f)
<1>1. PICK kept \in DeleteOldNodes :
          /\ r = (Node(e, kept).validated /\ ~ Node(e, kept).due)
          /\ IF Node(e, kept).due
             THEN Validate(e, kept)
             ELSE KeepNodes(kept)
  BY DEF IsValid
<1>2. /\ kept \subseteq Listed
      /\ \A f \in Listed : ~ clusterNodes[f].due => f \in kept
  BY <1>1 DEF DeleteOldNodes
<1>3. /\ Listed \subseteq Endpoint /\ asked \subseteq Listed
      /\ clusterNodes = [f \in Listed |-> clusterNodes[f]]
      /\ \A f \in Listed : clusterNodes[f] \in [validated : BOOLEAN, due : BOOLEAN]
      /\ \A f \in Listed : clusterNodes[f].validated => f \in KeyHolder
  BY DEF ValidatorOK, ValidatorTypeOK
<1>4. r => /\ e \in KeyHolder \cap Listed
           /\ clusterNodes[e].validated /\ ~ clusterNodes[e].due
  BY <1>1, <1>2, <1>3 DEF Node
<1>5. CASE Node(e, kept).due
  <2>1. /\ clusterNodes' = [f \in kept \cup {e} |->
                              IF f = e THEN [validated |-> FALSE, due |-> FALSE]
                              ELSE clusterNodes[f]]
        /\ asked' = (asked \cap kept) \cup {e}
    BY <1>1, <1>5 DEF Validate
  <2>2. Listed' = kept \cup {e}
    BY <2>1 DEF Listed
  <2>3. \A f \in Listed' : clusterNodes'[f] = IF f = e THEN [validated |-> FALSE, due |-> FALSE]
                                             ELSE clusterNodes[f]
    BY <2>1, <2>2
  <2>4. ValidatorTypeOK'
    BY <1>2, <1>3, <2>1, <2>2, <2>3 DEF ValidatorTypeOK
  <2>5. \A f \in Listed' : clusterNodes'[f].validated => f \in KeyHolder
    BY <1>2, <1>3, <2>2, <2>3
  <2>6. ASSUME NEW f \in Endpoint PROVE Lasting(f)
    <3>1. f \in Listed /\ ~ clusterNodes[f].due => f # e
      BY <1>2, <1>5 DEF Node
    <3> QED
      BY <1>2, <2>2, <2>3, <3>1 DEF Lasting
  <2> QED
    BY <1>4, <2>4, <2>5, <2>6 DEF ValidatorOK
<1>6. CASE ~ Node(e, kept).due
  BY <1>1, <1>4, <1>6, KeepFacts
<1> QED
  BY <1>5, <1>6

\* Answers and the end of a period.
LEMMA AnswerFacts ==
    ASSUME ValidatorOK, NEW e \in Endpoint,
           ReadAnswer(e) \/ LoseAnswer(e) \/ CheckPeriodEnds(e)
    PROVE  ValidatorOK' /\ \A f \in Endpoint : Lasting(f)
<1>1. /\ Listed \subseteq Endpoint /\ asked \subseteq Listed
      /\ \A f \in Listed : clusterNodes[f] \in [validated : BOOLEAN, due : BOOLEAN]
      /\ \A f \in Listed : clusterNodes[f].validated => f \in KeyHolder
      /\ clusterNodes \in [Listed -> [validated : BOOLEAN, due : BOOLEAN]]
  BY DEF ValidatorOK, ValidatorTypeOK
<1>2. CASE ReadAnswer(e)
  <2>1. /\ e \in Listed /\ asked' = asked \ {e}
        /\ clusterNodes' = [clusterNodes EXCEPT
                               ![e].validated = IF e \in KeyHolder THEN TRUE ELSE @]
    BY <1>1, <1>2 DEF ReadAnswer
  <2>2. Listed' = Listed
    BY <2>1 DEF Listed
  <2>3. \A f \in Listed : /\ clusterNodes'[f] \in [validated : BOOLEAN, due : BOOLEAN]
                          /\ clusterNodes'[f].validated => f \in KeyHolder
                          /\ clusterNodes[f].validated => clusterNodes'[f].validated
    BY <1>1, <2>1
  <2>4. clusterNodes' \in [Listed -> [validated : BOOLEAN, due : BOOLEAN]]
    BY <1>1, <2>1, <2>3
  <2> QED
    BY <1>1, <2>1, <2>2, <2>3, <2>4 DEF ValidatorOK, ValidatorTypeOK, Lasting
<1>3. CASE LoseAnswer(e)
  <2>1. asked' \subseteq asked /\ clusterNodes' = clusterNodes /\ Listed' = Listed
    BY <1>3 DEF LoseAnswer, Listed
  <2> QED
    BY <1>1, <2>1 DEF ValidatorOK, ValidatorTypeOK, Lasting
<1>4. CASE CheckPeriodEnds(e)
  <2>1. /\ e \in Listed /\ asked' = asked
        /\ clusterNodes' = [clusterNodes EXCEPT ![e] = [@ EXCEPT !.due = TRUE]]
    BY <1>4 DEF CheckPeriodEnds
  <2>2. Listed' = Listed
    BY <2>1 DEF Listed
  <2>3. \A f \in Listed : /\ clusterNodes'[f] \in [validated : BOOLEAN, due : BOOLEAN]
                          /\ clusterNodes'[f].validated = clusterNodes[f].validated
    BY <1>1, <2>1
  <2>4. clusterNodes' \in [Listed -> [validated : BOOLEAN, due : BOOLEAN]]
    BY <1>1, <2>1, <2>3
  <2> QED
    BY <1>1, <2>1, <2>2, <2>3, <2>4 DEF ValidatorOK, ValidatorTypeOK, Lasting
<1> QED
  BY <1>2, <1>3, <1>4

\* Steps that do not touch the validator.
LEMMA ValidatorStays ==
    ASSUME ValidatorOK, UNCHANGED validatorVars
    PROVE  ValidatorOK' /\ \A f \in Endpoint : Lasting(f)
<1>1. clusterNodes' = clusterNodes /\ asked' = asked /\ Listed' = Listed
  BY DEF validatorVars, Listed
<1> QED
  BY <1>1 DEF ValidatorOK, ValidatorTypeOK, Lasting

-----------------------------------------------------------------------------
\* At the start nothing is known of any host.
LEMMA InitInv == Init => IInv
<1> SUFFICES ASSUME Init PROVE IInv
  OBVIOUS
<1>1. Listed = {} /\ asked = {}
  BY DEF Init, ValidatorInit, Listed
<1>2. ValidatorOK
  BY <1>1 DEF Init, ValidatorInit, ValidatorOK, ValidatorTypeOK, Listed
<1>3. RunsOK
  BY HostAssumption DEF Init, RunsOK
<1> QED
  BY <1>2, <1>3, HostAssumption
  DEF Init, IInv, TypeOK, ValidatorOK, CachedAreJoined

\* The validator's part of a step of the loop.
LEMMA NextValidator ==
    ASSUME IInv, [Next]_vars
    PROVE  ValidatorOK' /\ \A f \in Endpoint : Lasting(f)
<1> USE DEF IInv
<1>1. ASSUME NEW p \in Peer, NEW e \in Payloads(p), HearInvalid(p, e) \/ HearValid(p, e)
      PROVE  ValidatorOK' /\ \A f \in Endpoint : Lasting(f)
  <2>1. e \in Endpoint
    BY PayloadsAreEndpoints
  <2>2. IsValid(e, FALSE) \/ IsValid(e, TRUE)
    BY <1>1 DEF HearInvalid, HearValid
  <2> QED
    BY <2>1, <2>2, IsValidFacts
<1>2. ASSUME NEW e \in Endpoint, ReplyAll(e) \/ PeriodEnds(e) \/ Lose(e)
      PROVE  ValidatorOK' /\ \A f \in Endpoint : Lasting(f)
  BY <1>2, AnswerFacts DEF ReplyAll, PeriodEnds, Lose
<1>3. ASSUME \/ Idle \/ UNCHANGED vars
             \/ \E p \in Peer : \/ Command(p) \/ HandlePipeMessage(p) \/ CacheTimesOut(p)
                                \/ Stop(p) \/ Start(p) \/ JoinedBy(p)
      PROVE  UNCHANGED validatorVars
  BY <1>3 DEF Idle, vars, Command, HandlePipeMessage, CacheTimesOut, Stop, Start, JoinedBy
<1>4. ASSUME HearOwn PROVE ValidatorOK' /\ \A f \in Endpoint : Lasting(f)
  BY <1>4, KeepFacts DEF HearOwn
<1> QED
  BY <1>1, <1>2, <1>3, <1>4, ValidatorStays DEF Next

\* Hosts, cache and joins.
LEMMA NextHosts ==
    ASSUME IInv, [Next]_vars, ValidatorOK'
    PROVE  TypeOK' /\ RunsOK' /\ CachedAreJoined'
<1> DEFINE Fine == TypeOK' /\ RunsOK' /\ CachedAreJoined'
<1> USE HostAssumption DEF IInv, TypeOK, RunsOK, CachedAreJoined
<1>0. ValidatorTypeOK'
  BY DEF ValidatorOK
<1>1. ASSUME NEW p \in Peer, NEW e \in Payloads(p), HearValid(p, e) PROVE Fine
  <2>1. /\ ipcache' = (ipcache \ stale) \cup {p} /\ stale' = {}
        /\ pipe' = IF p \in ipcache THEN pipe ELSE pipe \cup {p}
        /\ UNCHANGED <<run, up, externalipcache, linked>>
    BY <1>1 DEF HearValid, hosts
  <2> QED
    BY <1>0, <2>1
<1>2. ASSUME NEW p \in Peer, Stop(p) PROVE Fine
  BY <1>0, <1>2 DEF Stop, cache
<1>3. ASSUME NEW p \in Peer, Start(p) PROVE Fine
  <2>1. /\ run' = [run EXCEPT ![p] = @ + 1] /\ run[p] < Runs[p] /\ run[p] >= 1
        /\ up' = up \cup {p} /\ UNCHANGED <<ipcache, stale, externalipcache, pipe, linked>>
    BY <1>3 DEF Start, cache
  <2>2. RunsOK' /\ run' \in [Peer -> Nat]
    BY <2>1
  <2>3. \A q \in Peer : run[q] <= run'[q] /\ (run'[q] = 1 => q # p /\ run[q] = 1)
    BY <2>1
  <2>4. CachedAreJoined'
    BY <2>1, <2>3
  <2> QED
    BY <1>0, <2>1, <2>2, <2>4
<1>4. ASSUME NEW p \in Peer, HandlePipeMessage(p) \/ JoinedBy(p) PROVE Fine
  BY <1>0, <1>4 DEF HandlePipeMessage, JoinedBy, cache, hosts
<1>5. ASSUME NEW p \in Peer, Command(p) \/ CacheTimesOut(p) PROVE Fine
  BY <1>0, <1>5 DEF Command, CacheTimesOut, hosts
<1>6. ASSUME Idle PROVE Fine
  BY <1>0, <1>6 DEF Idle, hosts
<1>7. ASSUME UNCHANGED <<hosts, cache, pipe, linked>> PROVE Fine
  BY <1>0, <1>7 DEF hosts, cache
<1>8. ASSUME \/ \E p \in Peer : \E e \in Payloads(p) : HearInvalid(p, e)
             \/ HearOwn
             \/ \E e \in Endpoint : ReplyAll(e) \/ PeriodEnds(e) \/ Lose(e)
             \/ UNCHANGED vars
      PROVE  UNCHANGED <<hosts, cache, pipe, linked>>
  BY <1>8 DEF HearInvalid, HearOwn, ReplyAll, PeriodEnds, Lose, vars
<1> QED
  BY <1>1, <1>2, <1>3, <1>4, <1>5, <1>6, <1>7, <1>8 DEF Next

-----------------------------------------------------------------------------
\* The inductive invariant of the main loop.
THEOREM DaemonInvariant == Spec => []IInv
<1>1. IInv /\ [Next]_vars => IInv'
  BY NextValidator, NextHosts DEF IInv
<1> QED
  BY InitInv, <1>1, PTL DEF Spec

\* Type correctness; in particular a request is under way only for a host that is
\* in the validator's table.
THEOREM DaemonTypeOK == Spec => []TypeOK
<1>1. IInv => TypeOK
  BY DEF IInv
<1> QED
  BY <1>1, DaemonInvariant, PTL

\* No address enters the cache unless one of the endpoints that its beacons carry
\* has proved to hold the key and is valid at that moment.
THEOREM CachingNeedsAKey == Spec => CachingNeedsProof
<1> DEFINE Proved(p) == \E e \in Payloads(p) \cap KeyHolder \cap Listed :
                            clusterNodes[e].validated /\ ~ clusterNodes[e].due
<1>1. IInv /\ [Next]_vars => [\A p \in ipcache' \ ipcache : Proved(p)]_vars
  <2> SUFFICES ASSUME IInv, [Next]_vars, NEW p \in ipcache' \ ipcache PROVE Proved(p)
    OBVIOUS
  <2>1. PICK q \in Peer : \E e \in Payloads(q) : HearValid(q, e)
    BY DEF Next, vars, hosts, cache, Idle, HearOwn, HearInvalid, Command, HandlePipeMessage,
           CacheTimesOut, Stop, Start, JoinedBy, ReplyAll, PeriodEnds, Lose
  <2>2. PICK e \in Payloads(q) : HearValid(q, e)
    BY <2>1
  <2>3. p = q
    BY <2>2 DEF HearValid
  <2>4. e \in Endpoint /\ IsValid(e, TRUE)
    BY <2>2, PayloadsAreEndpoints DEF IInv, HearValid
  <2>5. e \in KeyHolder \cap Listed /\ clusterNodes[e].validated /\ ~ clusterNodes[e].due
    BY <2>4, IsValidFacts DEF IInv
  <2> QED
    BY <2>3, <2>5
<1> QED
  BY <1>1, DaemonInvariant, PTL DEF Spec, CachingNeedsProof

\* A cached host in its first run is connected or about to be joined.
THEOREM CachedHostsAreJoined == Spec => []CachedAreJoined
<1>1. IInv => CachedAreJoined
  BY DEF IInv
<1> QED
  BY <1>1, DaemonInvariant, PTL

\* No deletion, answer or loss invalidates a host before its period is over.
THEOREM ValidHostsLast == Spec => ValidUntilChecked
<1>1. IInv /\ [Next]_vars =>
          [\A e \in Listed :
              clusterNodes[e].validated /\ ~ clusterNodes[e].due =>
                  e \in Listed' /\ clusterNodes[e].validated']_vars
  <2> SUFFICES ASSUME IInv, [Next]_vars, NEW e \in Listed,
                      clusterNodes[e].validated /\ ~ clusterNodes[e].due
               PROVE  e \in Listed' /\ clusterNodes[e].validated'
    OBVIOUS
  <2>1. e \in Endpoint
    BY DEF IInv, ValidatorOK, ValidatorTypeOK
  <2> QED
    BY <2>1, NextValidator DEF Lasting
<1> QED
  BY <1>1, DaemonInvariant, PTL DEF Spec, ValidUntilChecked
=============================================================================

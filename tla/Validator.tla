----------------------------- MODULE Validator ------------------------------
(***************************************************************************)
(* Class DiscoveryValidator (r_validator.cc): which of the hosts that send *)
(* beacons hold the key of the cluster.  A host is known by its endpoint,  *)
(* which its beacon carries and which is another one in every run of its   *)
(* discovery service.  It is asked to identify itself and answers with     *)
(* the signed endpoint; it is asked again when its check period is over.   *)
(* All calls are made by the main loop of the discovery service.  Periods  *)
(* end at any time.                                                        *)
(***************************************************************************)
CONSTANTS
    Endpoint,  \* the validator addresses of all runs of all hosts
    KeyHolder  \* the endpoints whose answers pass checkSignature

ASSUME KeyHolderAssumption == KeyHolder \subseteq Endpoint

VARIABLES
    clusterNodes,  \* cluster_nodes_: [validated, due] per endpoint, where due
                   \* says that check_period is over
    asked          \* endpoints with "Identify yourself!" or its answer under way

validatorVars == <<clusterNodes, asked>>

ValidatorInit ==
    /\ clusterNodes = [e \in {} |-> [validated |-> FALSE, due |-> TRUE]]
    /\ asked = {}

Listed == DOMAIN clusterNodes

\* Mutant of DeleteOldNodes: everything goes.
DeleteAllNodes == {Listed, {}}

\* DeleteOldNodes: the endpoints that stay, either all or, when last_delete_ is
\* over too, those whose period is not over.
DeleteOldNodes == {Listed, {e \in Listed : ~ clusterNodes[e].due}}

\* The node of e in cluster_nodes_, of which kept remain.  CreateNode: the
\* constructor of check_period sets no end point, so the period of a new node is
\* over at once.
Node(e, kept) ==
    IF e \in kept THEN clusterNodes[e] ELSE [validated |-> FALSE, due |-> TRUE]

\* Mutant of Validate: a node is asked once.
ValidateNew(e, kept) ==
    /\ clusterNodes' = [f \in kept \cup {e} |->
                           IF f = e THEN [validated |-> FALSE, due |-> FALSE]
                           ELSE clusterNodes[f]]
    /\ asked' = (asked \cap kept) \cup ({e} \ kept)

\* Mutant of Validate: the sockets of deleted nodes are read on.
ValidateKeepsSockets(e, kept) ==
    /\ clusterNodes' = [f \in kept \cup {e} |->
                           IF f = e THEN [validated |-> FALSE, due |-> FALSE]
                           ELSE clusterNodes[f]]
    /\ asked' = asked \cup {e}

\* Validate: the period starts, the node is not valid until it answers, and it is
\* asked.  A node that was deleted lost its socket, with what was under way.
Validate(e, kept) ==
    /\ clusterNodes' = [f \in kept \cup {e} |->
                           IF f = e THEN [validated |-> FALSE, due |-> FALSE]
                           ELSE clusterNodes[f]]
    /\ asked' = (asked \cap kept) \cup {e}

\* What is left when no node is asked: kept, and their sockets.
KeepNodes(kept) ==
    /\ clusterNodes' = [f \in kept |-> clusterNodes[f]]
    /\ asked' = asked \cap kept

\* IsValid(e) returns result.
IsValid(e, result) ==
    \E kept \in DeleteOldNodes :
        /\ result = (Node(e, kept).validated /\ ~ Node(e, kept).due)
        /\ IF Node(e, kept).due
           THEN Validate(e, kept)
           ELSE KeepNodes(kept)

-----------------------------------------------------------------------------
\* Mutant of ReadAnswer: the signature is not looked at.
ReadAnswerUnchecked(e) ==
    /\ e \in asked
    /\ asked' = asked \ {e}
    /\ clusterNodes' = [clusterNodes EXCEPT ![e].validated = TRUE]

\* ReplyAll, an answer: the node is valid if the signature is.
ReadAnswer(e) ==
    /\ e \in asked
    /\ asked' = asked \ {e}
    /\ clusterNodes' = [clusterNodes EXCEPT ![e].validated = IF e \in KeyHolder THEN TRUE ELSE @]

\* The request or its answer is lost with the connection.
LoseAnswer(e) ==
    /\ e \in asked
    /\ asked' = asked \ {e}
    /\ UNCHANGED clusterNodes

CheckPeriodEnds(e) ==
    /\ e \in Listed /\ ~ clusterNodes[e].due
    /\ clusterNodes' = [clusterNodes EXCEPT ![e].due = TRUE]
    /\ UNCHANGED asked

ValidatorTypeOK ==
    /\ Listed \subseteq Endpoint
    /\ clusterNodes \in [Listed -> [validated : BOOLEAN, due : BOOLEAN]]
    /\ asked \subseteq Listed
=============================================================================

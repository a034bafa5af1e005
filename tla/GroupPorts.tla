----------------------------- MODULE GroupPorts -----------------------------
(***************************************************************************)
(* The internal publisher and subscriber ports of a group.  Everything the *)
(* coordination protocols send goes through Group::SendInternalMessage or  *)
(* Group::SendMessage to one ZeroMQ PUB socket per component, to which the *)
(* SUB sockets of the members connect as the discovery service tells them  *)
(* about it (Group::ConnectToNewServices).  On one connection messages     *)
(* arrive in order and at most once; a PUB socket drops what a subscriber  *)
(* that is not connected, or whose queue is full, cannot take.             *)
(***************************************************************************)
EXTENDS Integers, FiniteSets, Sequences

CONSTANTS
    Node,     \* the components of the group (their uuids)
    Link,     \* <<p, s>> : the subscriber of s is connected to the publisher of p
    MaxQueue, \* bound: the high-water mark of a connection
    Lossy     \* whether a connection may also lose what is sent for other reasons

ASSUME NodeAssumption == IsFiniteSet(Node)
ASSUME LinkAssumption == Link \subseteq Node \X Node
ASSUME QueueAssumption == MaxQueue \in Nat /\ Lossy \in BOOLEAN

\* Components that read their own messages back: nothing in
\* ConnectToNewServices excludes the component's own publisher.
SelfLinked == {n \in Node : <<n, n>> \in Link}

EmptyNet == [l \in Link |-> << >>]

\* Connections of publisher p that can take another message.
Room(q, p) == {l \in Link : l[1] = p /\ Len(q[l]) < MaxQueue}

\* What is sent reaches them all or, on lossy connections, any set of them: the
\* others are not connected at that moment, or lose the connection before they
\* read it.
Reached(q, p) == IF Lossy THEN SUBSET Room(q, p) ELSE {Room(q, p)}

Publish(q, ls, m) == [l \in Link |-> IF l \in ls THEN Append(q[l], m) ELSE q[l]]

\* zmsg_recv on the subscriber of l[2] returned the first message of l.
Consume(q, l) == [q EXCEPT ![l] = Tail(@)]

Readable(q, l) == q[l] # << >>
=============================================================================

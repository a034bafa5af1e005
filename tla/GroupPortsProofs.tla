-------------------------- MODULE GroupPortsProofs --------------------------
(***************************************************************************)
(* What the ports of a group preserve about the messages in flight.  An    *)
(* invariant about messages is a function G that gives, for each           *)
(* publisher, the set of the messages it may have in flight; the lemmas    *)
(* below say that sending a message of the set and reading one keep every  *)
(* queue within it.                                                        *)
(***************************************************************************)
EXTENDS GroupPorts, SequenceTheorems, TLAPS

\* Everything in flight from publisher p is in G[p].
Carries(q, G) ==
    /\ q = [l \in Link |-> q[l]]
    /\ \A l \in Link : q[l] \in Seq(G[l[1]])

\* Nothing is in flight at first.
LEMMA EmptyCarries ==
    ASSUME NEW G
    PROVE  Carries(EmptyNet, G)
  BY DEF Carries, EmptyNet

\* A message is published on connections of its publisher only
\* (Group::SendInternalMessage, Group::SendMessage).
LEMMA PublishCarries ==
    ASSUME NEW G, NEW q, Carries(q, G),
           NEW p, NEW ls \in Reached(q, p), NEW m \in G[p]
    PROVE  Carries(Publish(q, ls, m), G)
<1>1. ls \subseteq Room(q, p)
  BY DEF Reached
<1>2. ASSUME NEW l \in Link
      PROVE  Publish(q, ls, m)[l] \in Seq(G[l[1]])
  <2>1. CASE l \in ls
    <3>1. l[1] = p
      BY <1>1, <2>1 DEF Room
    <3>2. q[l] \in Seq(G[p])
      BY <3>1 DEF Carries
    <3>3. Append(q[l], m) \in Seq(G[p])
      BY <3>2, AppendProperties
    <3> QED
      BY <2>1, <3>1, <3>3 DEF Publish
  <2>2. CASE l \notin ls
    BY <2>2 DEF Publish, Carries
  <2> QED BY <2>1, <2>2
<1> QED
  BY <1>2 DEF Carries, Publish

\* What is read was sent by the publisher of that connection, and the rest of
\* the queue stays (zmsg_recv on the subscriber port).
LEMMA ConsumeCarries ==
    ASSUME NEW G, NEW q, Carries(q, G), NEW l \in Link, Readable(q, l)
    PROVE  /\ Head(q[l]) \in G[l[1]]
           /\ Carries(Consume(q, l), G)
<1>1. q[l] \in Seq(G[l[1]]) /\ q[l] # << >>
  BY DEF Carries, Readable
<1>2. Head(q[l]) \in G[l[1]] /\ Tail(q[l]) \in Seq(G[l[1]])
  BY <1>1, HeadTailProperties
<1>3. ASSUME NEW k \in Link
      PROVE  Consume(q, l)[k] \in Seq(G[k[1]])
  BY <1>2 DEF Consume, Carries
<1>4. Consume(q, l) = [k \in Link |-> Consume(q, l)[k]]
  BY DEF Consume, Carries
<1> QED
  BY <1>2, <1>3, <1>4 DEF Carries

\* A history that grows only allows more messages.
LEMMA CarriesMore ==
    ASSUME NEW G, NEW H, NEW q, Carries(q, G),
           \A p \in Node : G[p] \subseteq H[p]
    PROVE  Carries(q, H)
<1>1. ASSUME NEW l \in Link
      PROVE  q[l] \in Seq(H[l[1]])
  <2>1. l[1] \in Node
    BY LinkAssumption
  <2>2. q[l] \in Seq(G[l[1]]) /\ G[l[1]] \subseteq H[l[1]]
    BY <2>1 DEF Carries
  <2> QED
    BY <2>2, SeqMonotonic
<1> QED
  BY <1>1 DEF Carries

\* Queues of messages of a given type.
LEMMA CarriesType ==
    ASSUME NEW G, NEW M, NEW q, Carries(q, G),
           \A p \in Node : G[p] \subseteq M
    PROVE  q \in [Link -> Seq(M)]
<1>1. ASSUME NEW l \in Link
      PROVE  q[l] \in Seq(M)
  <2>1. l[1] \in Node
    BY LinkAssumption
  <2>2. q[l] \in Seq(G[l[1]]) /\ G[l[1]] \subseteq M
    BY <2>1 DEF Carries
  <2> QED
    BY <2>2, SeqMonotonic
<1> QED
  BY <1>1 DEF Carries

-----------------------------------------------------------------------------
(* Single messages.                                                        *)

\* The messages in flight on connection l.
InFlight(q, l) == {q[l][i] : i \in 1 .. Len(q[l])}

\* No connection carries more than one message of S.
AtMostOne(q, S) ==
    \A l \in Link : \A i, j \in 1 .. Len(q[l]) : q[l][i] \in S /\ q[l][j] \in S => i = j

\* Sending adds the message to the connections it reaches.
LEMMA PublishAdds ==
    ASSUME NEW M, NEW q \in [Link -> Seq(M)], NEW ls, NEW m, NEW l \in Link
    PROVE  InFlight(Publish(q, ls, m), l) =
               IF l \in ls THEN InFlight(q, l) \cup {m} ELSE InFlight(q, l)
<1>1. Publish(q, ls, m)[l] = IF l \in ls THEN Append(q[l], m) ELSE q[l]
  BY DEF Publish
<1>2. q[l] \in Seq(M)
  OBVIOUS
<1>3. /\ Len(Append(q[l], m)) = Len(q[l]) + 1
      /\ \A i \in 1 .. Len(q[l]) : Append(q[l], m)[i] = q[l][i]
      /\ Append(q[l], m)[Len(q[l]) + 1] = m
      /\ Len(q[l]) \in Nat
  BY <1>2
<1> QED
  BY <1>1, <1>3 DEF InFlight

\* Reading takes nothing from other connections and adds nothing.
LEMMA ConsumeTakes ==
    ASSUME NEW M, NEW q \in [Link -> Seq(M)], NEW l \in Link, Readable(q, l)
    PROVE  /\ Head(q[l]) \in InFlight(q, l)
           /\ \A k \in Link : InFlight(Consume(q, l), k) \subseteq InFlight(q, k)
<1>1. q[l] \in Seq(M) /\ q[l] # << >>
  BY DEF Readable
<1>2. /\ Head(q[l]) = q[l][1] /\ Len(q[l]) \in Nat /\ Len(q[l]) >= 1
      /\ Len(Tail(q[l])) = Len(q[l]) - 1
      /\ \A i \in 1 .. Len(q[l]) - 1 : Tail(q[l])[i] = q[l][i + 1]
  BY <1>1
<1>3. ASSUME NEW k \in Link
      PROVE  InFlight(Consume(q, l), k) \subseteq InFlight(q, k)
  <2>1. Consume(q, l)[k] = IF k = l THEN Tail(q[l]) ELSE q[k]
    BY DEF Consume
  <2> QED
    BY <1>2, <2>1 DEF InFlight
<1>4. Head(q[l]) \in InFlight(q, l)
  BY <1>2 DEF InFlight
<1> QED
  BY <1>3, <1>4

\* Reading keeps what is single, and the single message is gone once it is read.
LEMMA ConsumeSingle ==
    ASSUME NEW M, NEW q \in [Link -> Seq(M)], NEW l \in Link, Readable(q, l),
           NEW S, AtMostOne(q, S)
    PROVE  /\ AtMostOne(Consume(q, l), S)
           /\ Head(q[l]) \in S => InFlight(Consume(q, l), l) \cap S = {}
<1>1. q[l] \in Seq(M) /\ q[l] # << >>
  BY DEF Readable
<1>2. /\ Head(q[l]) = q[l][1] /\ Len(q[l]) \in Nat /\ Len(q[l]) >= 1
      /\ Len(Tail(q[l])) = Len(q[l]) - 1
      /\ \A i \in 1 .. Len(q[l]) - 1 : Tail(q[l])[i] = q[l][i + 1]
  BY <1>1
<1>3. \A k \in Link : Consume(q, l)[k] = IF k = l THEN Tail(q[l]) ELSE q[k]
  BY DEF Consume
<1>4. \A i, j \in 1 .. Len(q[l]) : q[l][i] \in S /\ q[l][j] \in S => i = j
  BY DEF AtMostOne
<1>5. ASSUME NEW k \in Link, NEW i \in 1 .. Len(Consume(q, l)[k]),
             NEW j \in 1 .. Len(Consume(q, l)[k]),
             Consume(q, l)[k][i] \in S, Consume(q, l)[k][j] \in S
      PROVE  i = j
  <2>1. CASE k # l
    BY <1>3, <1>5, <2>1 DEF AtMostOne
  <2>2. CASE k = l
    <3>1. i \in 1 .. Len(q[l]) - 1 /\ j \in 1 .. Len(q[l]) - 1
      BY <1>2, <1>3, <2>2
    <3>2. q[l][i + 1] \in S /\ q[l][j + 1] \in S
      BY <1>2, <1>3, <1>5, <2>2, <3>1
    <3>3. i + 1 = j + 1
      BY <1>2, <1>4, <3>1, <3>2
    <3> QED BY <3>1, <3>3
  <2> QED BY <2>1, <2>2
<1>6. ASSUME Head(q[l]) \in S, NEW x \in InFlight(Consume(q, l), l), x \in S
      PROVE  FALSE
  <2>1. PICK i \in 1 .. Len(Tail(q[l])) : x = Tail(q[l])[i]
    BY <1>3, <1>6 DEF InFlight
  <2>2. i \in 1 .. Len(q[l]) - 1 /\ x = q[l][i + 1]
    BY <1>2, <2>1
  <2> QED
    BY <1>2, <1>4, <1>6, <2>2
<1> QED
  BY <1>5, <1>6 DEF AtMostOne

\* Sending keeps what is single if no copy is on its way.
LEMMA PublishSingle ==
    ASSUME NEW M, NEW q \in [Link -> Seq(M)], NEW ls, NEW m, NEW S, AtMostOne(q, S),
           m \in S => \A l \in Link \cap ls : InFlight(q, l) \cap S = {}
    PROVE  AtMostOne(Publish(q, ls, m), S)
<1> SUFFICES ASSUME NEW l \in Link,
                    NEW i \in 1 .. Len(Publish(q, ls, m)[l]),
                    NEW j \in 1 .. Len(Publish(q, ls, m)[l]),
                    Publish(q, ls, m)[l][i] \in S, Publish(q, ls, m)[l][j] \in S
             PROVE  i = j
  BY DEF AtMostOne
<1>1. Publish(q, ls, m)[l] = IF l \in ls THEN Append(q[l], m) ELSE q[l]
  BY DEF Publish
<1>2. q[l] \in Seq(M)
  OBVIOUS
<1>3. /\ Len(Append(q[l], m)) = Len(q[l]) + 1
      /\ \A k \in 1 .. Len(q[l]) : Append(q[l], m)[k] = q[l][k]
      /\ Append(q[l], m)[Len(q[l]) + 1] = m
      /\ Len(q[l]) \in Nat
  BY <1>2
<1>4. \A a, b \in 1 .. Len(q[l]) : q[l][a] \in S /\ q[l][b] \in S => a = b
  BY DEF AtMostOne
<1>5. CASE l \notin ls
  BY <1>1, <1>4, <1>5
<1>6. CASE l \in ls
  <2>1. m \in S => \A k \in 1 .. Len(q[l]) : q[l][k] \notin S
    BY <1>6 DEF InFlight
  <2> QED
    BY <1>1, <1>3, <1>4, <1>6, <2>1
<1> QED
  BY <1>5, <1>6
=============================================================================

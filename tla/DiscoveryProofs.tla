--------------------------- MODULE DiscoveryProofs --------------------------
(***************************************************************************)
(* Proofs about Discovery: its types, the marks and the records of         *)
(* response ports across crashes, and the completeness of lookups.         *)
(***************************************************************************)
EXTENDS Discovery, TLAPS

\* The actions, named once for the case splits below.
Cases ==
    \/ \E p \in Pid : HandleActorReg(p)
    \/ \E p \in Pid : HandleActorUnreg(p)
    \/ \E s \in Service : HandleServiceReg(s)
    \/ \E p \in Pid, k \in Key : HandleServiceLookup(p, k)
    \/ PublishService \/ DhtGet \/ MarkZombie \/ DelMarked \/ MarkingDone
    \/ \E m \in inbox : TellClients(m)
    \/ \E m \in inbox : TellTheDead(m)
    \/ \E m \in inbox : NoteZombie(m)
    \/ RenewServices \/ MaintainZombieList
    \/ \E g \in gets : GetReturns(g)
    \/ \E g \in gets : GetFails(g)
    \/ \E s \in Service : Expire(s)
    \/ \E s \in Service : RemotePublish(s)
    \/ \E s \in Service : RemoteMark(s)
    \/ \E p \in Pid : Die(p)
    \/ Crash \/ Restart
    \/ UNCHANGED vars

\* Every step of the specification is one of the cases.
LEMMA StepCases == [Next]_vars => Cases
<1>1. \A w \in Wants : w[1] \in Pid /\ w[2] \in Key
  BY WantsAssumption
<1>2. (\E w \in Wants : HandleServiceLookup(w[1], w[2]))
      => \E p \in Pid, k \in Key : HandleServiceLookup(p, k)
  BY <1>1, Zenon
<1>3. QED
  BY <1>2, Zenon DEF Next, Request, Continue, ReadResult, Maintain, Environment, Cases

-----------------------------------------------------------------------------
(* Types.                                                                  *)

\* The job is what the service was doing, in every form the handlers give it.
LEMMA JobTypes ==
    /\ Idle \in Jobs /\ Down \in Jobs /\ Stuck \in Jobs
    /\ \A s \in Service : [op |-> "publish", service |-> s] \in Jobs
    /\ \A a \in Actor, k \in Key : [op |-> "get", actor |-> a, key |-> k] \in Jobs
    /\ \A w \in Pid \cup {Nil}, T \in SUBSET Service, c \in Service \cup {Nil} :
           Marking(w, T, c) \in Jobs
BY DEF Jobs, Marking

\* What is known of a job from its kind.
LEMMA JobKinds ==
    ASSUME NEW j \in Jobs
    PROVE  /\ j.op = "publish" => j.service \in Service /\ j # Idle /\ j # Stuck /\ j # Down
           /\ j.op = "get" => /\ j.actor \in Actor /\ j.key \in Key
                              /\ j = [op |-> "get", actor |-> j.actor, key |-> j.key]
           /\ j.op = "mark" => /\ j.who \in Pid \cup {Nil} /\ j.todo \in SUBSET Service
                               /\ j.cur \in Service \cup {Nil}
                               /\ j = Marking(j.who, j.todo, j.cur)
BY DEF Jobs, Marking, Idle, Down, Stuck

\* The three simple jobs differ, and none is a loop of marks.
LEMMA JobsDiffer ==
    /\ Idle.op = "idle" /\ Down.op = "down" /\ Stuck.op = "stuck"
    /\ Idle # Down /\ Idle # Stuck /\ Down # Stuck
BY DEF Idle, Down, Stuck

\* Results of the DHT for services of this model are results.
LEMMA ResultTypes ==
    /\ \A s \in Service : Update(s) \in Results /\ Zombie(s) \in Results
    /\ \A a \in Actor, s \in Service : GetResult(a, s) \in Results
BY DEF Results, Update, Zombie, GetResult

\* A result is one of the three kinds and determined by its fields.
LEMMA ResultKinds ==
    ASSUME NEW m \in Results
    PROVE  /\ m.service \in Service
           /\ m.type = "ProviderUpdate" => m = Update(m.service)
           /\ m.type = "ProviderGet" => m.actor \in Actor /\ m = GetResult(m.actor, m.service)
           /\ m.type = "ZombieList" => m = Zombie(m.service)
           /\ m.type \in {"ProviderUpdate", "ProviderGet", "ZombieList"}
BY DEF Results, Update, Zombie, GetResult

\* A result about a service concerns actors.
LEMMA ConcernedActors ==
    ASSUME TypeOK, NEW m \in inbox, m.type # "ZombieList"
    PROVE  m.service \in Service /\ Concerned(m) \in SUBSET Actor
<1>1. m \in Results
  BY DEF TypeOK
<1>2. m.service \in Service /\ KeyOf[m.service] \in Key
  BY <1>1, ResultKinds, ServiceAssumption
<1>3. subs[KeyOf[m.service]] \subseteq Actor
  BY <1>2 DEF TypeOK
<1>4. m.type # "ProviderUpdate" => m.actor \in Actor
  BY <1>1, ResultKinds
<1>5. QED
  BY <1>2, <1>3, <1>4 DEF Concerned

\* The initial state has the types.
LEMMA InitTypeOK == Init => TypeOK
BY JobTypes DEF Init, TypeOK

\* What Fresh leaves of the histories has their types.
LEMMA FreshTypes ==
    ASSUME TypeOK, NEW A \in SUBSET Actor, Fresh(A)
    PROVE  /\ looked' \in [Actor -> SUBSET Key] /\ told' \in [Actor -> SUBSET Service]
           /\ gaveUp' \subseteq Actor \X Key
BY DEF TypeOK, Fresh

\* What Tell adds to the histories has their type.
LEMMA TellTypes ==
    ASSUME TypeOK, NEW A \in SUBSET Actor, NEW s \in Service, Tell(A, s)
    PROVE  told' \in [Actor -> SUBSET Service]
BY DEF TypeOK, Tell

\* Every step preserves the types.
LEMMA NextTypeOK == TypeOK /\ [Next]_vars => TypeOK'
<1> SUFFICES ASSUME TypeOK, Cases PROVE TypeOK'
  BY StepCases
<1> USE DEF memory, history
<1>1. ASSUME NEW p \in Pid, HandleActorReg(p) PROVE TypeOK'
  <2>1. NameOf[p] \in Actor
    BY PidAssumption
  <2>2. Fresh({NameOf[p]})
    BY <1>1 DEF HandleActorReg
  <2>3. QED
    BY <1>1, <2>1, <2>2, FreshTypes DEF HandleActorReg, TypeOK
<1>2. ASSUME NEW p \in Pid, HandleActorUnreg(p) PROVE TypeOK'
  <2>1. Marking(p, checkins[p], Nil) \in Jobs
    BY JobTypes DEF TypeOK
  <2>2. QED
    BY <1>2, <2>1 DEF HandleActorUnreg, TypeOK
<1>3. ASSUME NEW s \in Service, HandleServiceReg(s) PROVE TypeOK'
  <2>1. Owner[s] \in Pid
    BY <1>3 DEF HandleServiceReg, TypeOK
  <2>2. job' \in Jobs
    BY <1>3, JobTypes DEF HandleServiceReg
  <2>3. QED
    BY <1>3, <2>1, <2>2 DEF HandleServiceReg, TypeOK
<1>4. ASSUME NEW p \in Pid, NEW k \in Key, HandleServiceLookup(p, k) PROVE TypeOK'
  <2>1. NameOf[p] \in Actor
    BY PidAssumption
  <2>2. job' \in Jobs
    BY <1>4, <2>1, JobTypes DEF HandleServiceLookup
  <2>3. QED
    BY <1>4, <2>1, <2>2 DEF HandleServiceLookup, TypeOK
<1>5. ASSUME PublishService PROVE TypeOK'
  <2>1. job.service \in Service
    BY <1>5, JobKinds DEF PublishService, TypeOK
  <2>2. Heard({job.service}) \subseteq Results
    BY <2>1, ResultTypes DEF Heard
  <2>3. QED
    BY <1>5, <2>1, <2>2, JobTypes DEF PublishService, TypeOK
<1>6. ASSUME DhtGet PROVE TypeOK'
  <2>1. <<job.actor, job.key, 0>> \in Actor \X Key \X (0 .. MaxRetry)
    BY <1>6, JobKinds, BoundAssumption DEF DhtGet, TypeOK
  <2>2. QED
    BY <1>6, <2>1, JobTypes DEF DhtGet, TypeOK
<1>7. ASSUME MarkZombie PROVE TypeOK'
  <2>1. PICK s \in job.todo :
          /\ marked' = marked \cup {s} /\ inbox' = inbox \cup {Zombie(s)}
          /\ job' = Marking(job.who, job.todo \ {s}, s)
    BY <1>7 DEF MarkZombie
  <2>2. job.who \in Pid \cup {Nil} /\ job.todo \in SUBSET Service
    BY <1>7, JobKinds DEF MarkZombie, TypeOK
  <2>3. job' \in Jobs /\ s \in Service
    BY <2>1, <2>2, JobTypes
  <2>4. QED
    BY <1>7, <2>1, <2>3, ResultTypes DEF MarkZombie, TypeOK
<1>8. ASSUME DelMarked PROVE TypeOK'
  <2>1. job.who \in Pid \cup {Nil} /\ job.todo \in SUBSET Service
    BY <1>8, JobKinds DEF DelMarked, TypeOK
  <2>2. job' \in Jobs
    BY <1>8, <2>1, JobTypes DEF DelMarked
  <2>3. QED
    BY <1>8, <2>2 DEF DelMarked, Del, TypeOK
<1>9. ASSUME MarkingDone PROVE TypeOK'
  <2> DEFINE gone == {NameOf[p] : p \in {job.who} \ {Nil}}
  <2>1. job.who \in Pid \cup {Nil}
    BY <1>9, JobKinds DEF MarkingDone, TypeOK
  <2>2. gone \in SUBSET Actor
    BY <2>1, PidAssumption
  <2>3. Fresh(gone) /\ clients' = [a \in Actor |-> IF a \in gone THEN Nil ELSE clients[a]]
    BY <1>9 DEF MarkingDone
  <2> HIDE DEF gone
  <2>4. clients' \in [Actor -> Pid \cup {Nil}]
    BY <2>3 DEF TypeOK
  <2>5. QED
    BY <1>9, <2>2, <2>3, <2>4, FreshTypes, JobTypes DEF MarkingDone, TypeOK
<1>10. ASSUME NEW m \in inbox, TellClients(m) PROVE TypeOK'
  <2>1. m.service \in Service /\ Concerned(m) \in SUBSET Actor
    BY <1>10, ConcernedActors DEF TellClients
  <2>2. QED
    BY <1>10, <2>1, TellTypes DEF TellClients, TypeOK
<1>11. ASSUME NEW m \in inbox, TellTheDead(m) PROVE TypeOK'
  <2>1. m.service \in Service /\ Concerned(m) \in SUBSET Actor
    BY <1>11, ConcernedActors DEF TellTheDead
  <2>2. PICK A \in SUBSET {a \in Concerned(m) : Running(a)} : Tell(A, m.service)
    BY <1>11 DEF TellTheDead
  <2>3. A \in SUBSET Actor
    BY <2>1
  <2>4. QED
    BY <1>11, <2>1, <2>2, <2>3, TellTypes, JobTypes DEF TellTheDead, TypeOK
<1>12. ASSUME NEW m \in inbox, NoteZombie(m) PROVE TypeOK'
  <2>1. m.service \in Service
    BY ResultKinds DEF TypeOK
  <2>2. QED
    BY <1>12, <2>1 DEF NoteZombie, TypeOK
<1>13. ASSUME RenewServices PROVE TypeOK'
  <2>1. PICK S \in SUBSET UNION {checkins[p] : p \in Pid} :
          dht' = dht \cup S /\ inbox' = inbox \cup Heard(S)
    BY <1>13 DEF RenewServices
  <2>2. S \subseteq Service
    BY <2>1 DEF TypeOK
  <2>3. Heard(S) \subseteq Results
    BY <2>2, ResultTypes DEF Heard
  <2>4. QED
    BY <1>13, <2>1, <2>2, <2>3 DEF RenewServices, TypeOK
<1>14. ASSUME MaintainZombieList PROVE TypeOK'
  BY <1>14 DEF MaintainZombieList, TypeOK
<1>15. ASSUME NEW g \in gets, GetReturns(g) PROVE TypeOK'
  <2>1. g[1] \in Actor
    BY DEF TypeOK
  <2>2. {GetResult(g[1], s) : s \in {t \in dht : KeyOf[t] = g[2]}} \subseteq Results
    BY <2>1, ResultTypes DEF TypeOK
  <2>3. QED
    BY <1>15, <2>2 DEF GetReturns, TypeOK
<1>16. ASSUME NEW g \in gets, GetFails(g) PROVE TypeOK'
  <2>1. g[1] \in Actor /\ g[2] \in Key /\ g[3] \in 0 .. MaxRetry
    BY DEF TypeOK
  <2>2. g[3] < MaxRetry => <<g[1], g[2], g[3] + 1>> \in Actor \X Key \X (0 .. MaxRetry)
    BY <2>1, BoundAssumption
  <2>3. gets' \subseteq Actor \X Key \X (0 .. MaxRetry) /\ gaveUp' \subseteq Actor \X Key
    BY <1>16, <2>1, <2>2 DEF GetFails, TypeOK
  <2>4. QED
    BY <1>16, <2>3 DEF GetFails, TypeOK
<1>17. ASSUME NEW s \in Service, Expire(s) PROVE TypeOK'
  BY <1>17 DEF Expire, TypeOK
<1>18. ASSUME NEW s \in Service, RemotePublish(s) PROVE TypeOK'
  <2>1. Heard({s}) \subseteq Results
    BY ResultTypes DEF Heard
  <2>2. QED
    BY <1>18, <2>1 DEF RemotePublish, TypeOK
<1>19. ASSUME NEW s \in Service, RemoteMark(s) PROVE TypeOK'
  BY <1>19, ResultTypes DEF RemoteMark, TypeOK
<1>20. ASSUME NEW p \in Pid, Die(p) PROVE TypeOK'
  BY <1>20 DEF Die, TypeOK
<1>21. ASSUME Crash PROVE TypeOK'
  BY <1>21, FreshTypes, JobTypes DEF Crash, TypeOK
<1>22. ASSUME Restart PROVE TypeOK'
  <2>1. Marking(Nil, db, Nil) \in Jobs
    BY JobTypes DEF TypeOK
  <2>2. PICK Z \in SUBSET marked : inbox' = {Zombie(s) : s \in Z}
    BY <1>22 DEF Restart
  <2>3. inbox' \subseteq Results
    BY <2>2, ResultTypes DEF TypeOK
  <2>4. QED
    BY <1>22, <2>1, <2>3 DEF Restart, TypeOK
<1>23. ASSUME UNCHANGED vars PROVE TypeOK'
  BY <1>23 DEF vars, TypeOK
<1>24. QED
  BY <1>1, <1>2, <1>3, <1>4, <1>5, <1>6, <1>7, <1>8, <1>9, <1>10, <1>11, <1>12,
     <1>13, <1>14, <1>15, <1>16, <1>17, <1>18, <1>19, <1>20, <1>21, <1>22, <1>23
     DEF Cases

-----------------------------------------------------------------------------
(* Response ports across crashes.                                          *)

\* The tables, the database and the marking loop hold registered services only.
Served ==
    /\ db \subseteq registered
    /\ \A p \in Pid : checkins[p] \subseteq registered
    /\ job.op = "mark" => job.todo \subseteq registered /\ job.cur \in registered \cup {Nil}

\* Served holds at the start.
LEMMA InitServed == Init => Served
BY JobsDiffer DEF Init, Served

\* Served survives a step that leaves the tables alone and does not begin or
\* advance a marking loop.
LEMMA ServedKept ==
    ASSUME Served, UNCHANGED <<db, registered, checkins>>, job'.op # "mark" \/ job' = job
    PROVE  Served'
BY DEF Served

\* Every step preserves Served.
LEMMA NextServed == TypeOK /\ Served /\ [Next]_vars => Served'
<1> SUFFICES ASSUME TypeOK, Served, Cases PROVE Served'
  BY StepCases
<1> USE DEF memory, history
<1>1. ASSUME NEW p \in Pid, HandleActorReg(p) PROVE Served'
  BY <1>1, JobsDiffer, ServedKept DEF HandleActorReg
<1>2. ASSUME NEW p \in Pid, HandleActorUnreg(p) PROVE Served'
  BY <1>2, JobsDiffer DEF HandleActorUnreg, Served, Marking
<1>3. ASSUME NEW s \in Service, HandleServiceReg(s) PROVE Served'
  <2>1. registered' = registered \cup {s}
    BY <1>3 DEF HandleServiceReg
  <2>2. \A p \in Pid : checkins'[p] \subseteq registered'
    BY <1>3, <2>1 DEF HandleServiceReg, TypeOK, Served
  <2>3. QED
    BY <1>3, <2>1, <2>2, JobsDiffer DEF HandleServiceReg, Served
<1>4. ASSUME NEW p \in Pid, NEW k \in Key, HandleServiceLookup(p, k) PROVE Served'
  BY <1>4, JobsDiffer, ServedKept DEF HandleServiceLookup
<1>5. ASSUME PublishService PROVE Served'
  BY <1>5, JobsDiffer, ServedKept DEF PublishService
<1>6. ASSUME DhtGet PROVE Served'
  BY <1>6, JobsDiffer, ServedKept DEF DhtGet
<1>7. ASSUME MarkZombie PROVE Served'
  <2>1. PICK s \in job.todo :
          marked' = marked \cup {s} /\ job' = Marking(job.who, job.todo \ {s}, s)
    BY <1>7 DEF MarkZombie
  <2>2. QED
    BY <1>7, <2>1, JobsDiffer DEF MarkZombie, Served, Marking
<1>8. ASSUME DelMarked PROVE Served'
  BY <1>8, JobsDiffer DEF DelMarked, Del, Served, Marking
<1>9. ASSUME MarkingDone PROVE Served'
  BY <1>9, JobsDiffer, ServedKept DEF MarkingDone
<1>10. ASSUME NEW m \in inbox, TellClients(m) PROVE Served'
  BY <1>10, JobsDiffer, ServedKept DEF TellClients
<1>11. ASSUME NEW m \in inbox, TellTheDead(m) PROVE Served'
  BY <1>11, JobsDiffer, ServedKept DEF TellTheDead
<1>12. ASSUME NEW m \in inbox, NoteZombie(m) PROVE Served'
  BY <1>12, JobsDiffer, ServedKept DEF NoteZombie
<1>13. ASSUME RenewServices PROVE Served'
  BY <1>13, JobsDiffer, ServedKept DEF RenewServices
<1>14. ASSUME MaintainZombieList PROVE Served'
  BY <1>14, JobsDiffer, ServedKept DEF MaintainZombieList
<1>15. ASSUME NEW g \in gets, GetReturns(g) PROVE Served'
  BY <1>15, ServedKept DEF GetReturns
<1>16. ASSUME NEW g \in gets, GetFails(g) PROVE Served'
  BY <1>16, ServedKept DEF GetFails
<1>17. ASSUME NEW s \in Service, Expire(s) PROVE Served'
  BY <1>17, ServedKept DEF Expire
<1>18. ASSUME NEW s \in Service, RemotePublish(s) PROVE Served'
  BY <1>18, ServedKept DEF RemotePublish
<1>19. ASSUME NEW s \in Service, RemoteMark(s) PROVE Served'
  BY <1>19, ServedKept DEF RemoteMark
<1>20. ASSUME NEW p \in Pid, Die(p) PROVE Served'
  BY <1>20, ServedKept DEF Die
<1>21. ASSUME Crash PROVE Served'
  BY <1>21, JobsDiffer DEF Crash, Served
<1>22. ASSUME Restart PROVE Served'
  BY <1>22, JobsDiffer DEF Restart, Up, Served, Marking
<1>23. ASSUME UNCHANGED vars PROVE Served'
  BY <1>23, ServedKept DEF vars
<1>24. QED
  BY <1>1, <1>2, <1>3, <1>4, <1>5, <1>6, <1>7, <1>8, <1>9, <1>10, <1>11, <1>12,
     <1>13, <1>14, <1>15, <1>16, <1>17, <1>18, <1>19, <1>20, <1>21, <1>22, <1>23
     DEF Cases

\* A registered service of the key of s is marked.
Covered(s) == \E t \in marked \cap registered : KeyOf[t] = KeyOf[s]

\* A response port is in the database until a port of its key is marked; what the
\* database holds beyond the present run's own services is being marked or will be
\* at the restart; and a record is only deleted once its service is marked.
Tracked ==
    /\ \A s \in registered \cap Rep : s \in db \/ Covered(s)
    /\ \A s \in db :
           \/ \E p \in Pid : s \in checkins[p]
           \/ job = Down
           \/ job.op = "mark" /\ job.who = Nil /\ s \in job.todo \cup {job.cur}
    /\ job.op = "mark" /\ job.cur # Nil => job.cur \in marked

\* Tracked holds at the start.
LEMMA InitTracked == Init => Tracked
BY JobsDiffer DEF Init, Tracked, Covered

\* Tracked survives a step that touches neither the database nor the marks, and
\* does not begin or advance a marking loop.
LEMMA TrackedKept ==
    ASSUME TypeOK, Tracked, UNCHANGED <<db, registered, marked, checkins>>,
           job = Down => job' = Down,
           job.op = "mark" => job' = job \/ (job.todo = {} /\ job.cur = Nil),
           job'.op # "mark" \/ job' = job
    PROVE  Tracked'
BY NilAssumption DEF TypeOK, Tracked, Covered

\* Every step preserves Tracked.
LEMMA NextTracked == TypeOK /\ Served /\ Tracked /\ [Next]_vars => Tracked'
<1> SUFFICES ASSUME TypeOK, Served, Tracked, Cases PROVE Tracked'
  BY StepCases
<1> USE DEF memory, history
<1>1. ASSUME NEW p \in Pid, HandleActorReg(p) PROVE Tracked'
  BY <1>1, JobsDiffer, TrackedKept DEF HandleActorReg
<1>2. ASSUME NEW p \in Pid, HandleActorUnreg(p) PROVE Tracked'
  BY <1>2, JobsDiffer DEF HandleActorUnreg, Tracked, Covered, Marking
<1>3. ASSUME NEW s \in Service, HandleServiceReg(s) PROVE Tracked'
  <2>1. Owner[s] \in Pid
    BY <1>3 DEF HandleServiceReg, TypeOK
  <2>2. s \in checkins'[Owner[s]] /\ \A p \in Pid : checkins[p] \subseteq checkins'[p]
    BY <1>3, <2>1 DEF HandleServiceReg, TypeOK
  <2>3. QED
    BY <1>3, <2>1, <2>2, JobsDiffer DEF HandleServiceReg, Tracked, Covered
<1>4. ASSUME NEW p \in Pid, NEW k \in Key, HandleServiceLookup(p, k) PROVE Tracked'
  BY <1>4, JobsDiffer, TrackedKept DEF HandleServiceLookup
<1>5. ASSUME PublishService PROVE Tracked'
  BY <1>5, JobsDiffer, TrackedKept DEF PublishService
<1>6. ASSUME DhtGet PROVE Tracked'
  BY <1>6, JobsDiffer, TrackedKept DEF DhtGet
<1>7. ASSUME MarkZombie PROVE Tracked'
  <2>1. PICK s \in job.todo :
          marked' = marked \cup {s} /\ job' = Marking(job.who, job.todo \ {s}, s)
    BY <1>7 DEF MarkZombie
  <2>2. \A x \in registered \cap Rep : x \in db' \/ Covered(x)'
    BY <1>7, <2>1 DEF MarkZombie, Tracked, Covered
  <2>3. Nil \notin db /\ job.cur = Nil /\ job.op = "mark" /\ job # Down
    BY <1>7, NilAssumption DEF MarkZombie, TypeOK, Down
  <2>4. job'.op = "mark" /\ job'.who = job.who /\ job'.todo = job.todo \ {s} /\ job'.cur = s
    BY <2>1 DEF Marking
  <2>5. QED
    BY <1>7, <2>1, <2>2, <2>3, <2>4 DEF MarkZombie, Tracked
<1>8. ASSUME DelMarked PROVE Tracked'
  <2>1. job.cur \in marked \cap registered
    BY <1>8 DEF DelMarked, Tracked, Served
  <2>2. \A s \in registered \cap Rep : s \in db' \/ Covered(s)
    BY <1>8, <2>1 DEF DelMarked, Del, Tracked, Covered, Served
  <2>3. QED
    BY <1>8, <2>2, JobsDiffer DEF DelMarked, Del, Tracked, Covered, Marking
<1>9. ASSUME MarkingDone PROVE Tracked'
  BY <1>9, JobsDiffer, TrackedKept DEF MarkingDone
<1>10. ASSUME NEW m \in inbox, TellClients(m) PROVE Tracked'
  BY <1>10, JobsDiffer, TrackedKept DEF TellClients
<1>11. ASSUME NEW m \in inbox, TellTheDead(m) PROVE Tracked'
  BY <1>11, JobsDiffer, TrackedKept DEF TellTheDead
<1>12. ASSUME NEW m \in inbox, NoteZombie(m) PROVE Tracked'
  BY <1>12, JobsDiffer, TrackedKept DEF NoteZombie
<1>13. ASSUME RenewServices PROVE Tracked'
  BY <1>13, JobsDiffer, TrackedKept DEF RenewServices
<1>14. ASSUME MaintainZombieList PROVE Tracked'
  BY <1>14, JobsDiffer, TrackedKept DEF MaintainZombieList
<1>15. ASSUME NEW g \in gets, GetReturns(g) PROVE Tracked'
  BY <1>15, TrackedKept DEF GetReturns
<1>16. ASSUME NEW g \in gets, GetFails(g) PROVE Tracked'
  BY <1>16, TrackedKept DEF GetFails
<1>17. ASSUME NEW s \in Service, Expire(s) PROVE Tracked'
  BY <1>17, TrackedKept DEF Expire
<1>18. ASSUME NEW s \in Service, RemotePublish(s) PROVE Tracked'
  BY <1>18, TrackedKept DEF RemotePublish
<1>19. ASSUME NEW s \in Service, RemoteMark(s) PROVE Tracked'
  BY <1>19 DEF RemoteMark, Tracked, Covered
<1>20. ASSUME NEW p \in Pid, Die(p) PROVE Tracked'
  BY <1>20, TrackedKept DEF Die
<1>21. ASSUME Crash PROVE Tracked'
  BY <1>21, JobsDiffer DEF Crash, Tracked, Covered
<1>22. ASSUME Restart PROVE Tracked'
  BY <1>22, JobsDiffer DEF Restart, Up, Tracked, Covered, Marking
<1>23. ASSUME UNCHANGED vars PROVE Tracked'
  BY <1>23, TrackedKept DEF vars
<1>24. QED
  BY <1>1, <1>2, <1>3, <1>4, <1>5, <1>6, <1>7, <1>8, <1>9, <1>10, <1>11, <1>12,
     <1>13, <1>14, <1>15, <1>16, <1>17, <1>18, <1>19, <1>20, <1>21, <1>22, <1>23
     DEF Cases

\* The types of the discovery service, as an invariant.
THEOREM DiscoveryTypeOK == Spec => []TypeOK
<1>1. TypeOK /\ [Next]_vars => TypeOK'
  BY NextTypeOK
<1>2. QED
  BY <1>1, InitTypeOK, PTL DEF Spec

\* The records and the marks of response ports, as one invariant.
LEMMA PortsTracked == Spec => [](TypeOK /\ Served /\ Tracked)
<1> DEFINE Inv == TypeOK /\ Served /\ Tracked
<1>1. Init => Inv
  BY InitTypeOK, InitServed, InitTracked
<1>2. Inv /\ [Next]_vars => Inv'
  BY NextTypeOK, NextServed, NextTracked
<1>3. QED
  BY <1>1, <1>2, PTL DEF Spec

\* A restarted service takes requests only after every response port of its
\* earlier runs, or a port of the same key that took its record along, is marked:
\* for any number of ports, shared keys, and crashes at any step.
THEOREM RestartsMarkPorts == Spec => []RestartMarksPorts
<1>1. Tracked => RestartMarksPorts
  BY JobsDiffer DEF Tracked, Covered, RestartMarksPorts
<1>2. QED
  BY <1>1, PortsTracked, PTL

\* It takes requests only after the records of its earlier runs are gone.
THEOREM RestartsClearDatabase == Spec => []DatabaseIsCurrent
<1>1. Tracked => DatabaseIsCurrent
  BY JobsDiffer DEF Tracked, DatabaseIsCurrent
<1>2. QED
  BY <1>1, PortsTracked, PTL

-----------------------------------------------------------------------------
(* Lookups.                                                                *)

\* What the listener and the zombie filter rest on: only marked services are or
\* will be filtered; the keys an actor looked up are subscribed to and listened
\* on; and nobody is registered with a service that is down.
Wired ==
    /\ zombies \subseteq marked
    /\ \A s \in Service : Zombie(s) \in inbox => s \in marked
    /\ \A a \in Actor : \A k \in looked[a] : clients[a] # Nil => a \in subs[k] /\ k \in listening
    /\ job = Down => \A a \in Actor : clients[a] = Nil

\* Results of different kinds differ, and so do those about different services.
LEMMA ResultsDiffer ==
    ASSUME NEW s, NEW t, NEW a, NEW b
    PROVE  /\ Update(s) # Zombie(t) /\ GetResult(a, s) # Zombie(t)
           /\ Update(s) # GetResult(a, t)
           /\ Zombie(s) = Zombie(t) => s = t
           /\ Update(s) = Update(t) => s = t
           /\ GetResult(a, s) = GetResult(b, t) => a = b /\ s = t
BY DEF Update, Zombie, GetResult

\* Wired holds at the start.
LEMMA InitWired == Init => Wired
BY JobsDiffer DEF Init, Wired

\* Wired survives a step that leaves the registrations and lookups alone and
\* announces no zombie that is not marked.
LEMMA WiredKept ==
    ASSUME Wired, UNCHANGED <<clients, subs, listening, looked>>,
           zombies' \subseteq marked', marked \subseteq marked',
           \A s \in Service : Zombie(s) \in inbox' => Zombie(s) \in inbox \/ s \in marked',
           job' = Down => job = Down
    PROVE  Wired'
BY DEF Wired

\* Every step preserves Wired.
LEMMA NextWired == TypeOK /\ Wired /\ [Next]_vars => Wired'
<1> SUFFICES ASSUME TypeOK, Wired, Cases PROVE Wired'
  BY StepCases
<1> USE DEF memory, history
<1>0. zombies \subseteq marked
  BY DEF Wired
<1>1. ASSUME NEW p \in Pid, HandleActorReg(p) PROVE Wired'
  <2>1. NameOf[p] \in Actor
    BY PidAssumption
  <2>2. QED
    BY <1>1, <2>1, JobsDiffer DEF HandleActorReg, Fresh, Wired, TypeOK
<1>2. ASSUME NEW p \in Pid, HandleActorUnreg(p) PROVE Wired'
  BY <1>0, <1>2, WiredKept DEF HandleActorUnreg, Marking, Down
<1>3. ASSUME NEW s \in Service, HandleServiceReg(s) PROVE Wired'
  BY <1>0, <1>3, WiredKept DEF HandleServiceReg, Down
<1>4. ASSUME NEW p \in Pid, NEW k \in Key, HandleServiceLookup(p, k) PROVE Wired'
  <2>1. NameOf[p] \in Actor
    BY PidAssumption
  <2>2. job' # Down /\ k \in listening' /\ listening \subseteq listening'
    BY <1>4 DEF HandleServiceLookup, Down
  <2>3. \A a \in Actor : looked'[a] \subseteq looked[a] \cup {k}
    BY <1>4, <2>1 DEF HandleServiceLookup, TypeOK
  <2>4. \A a \in Actor, l \in Key : subs[l] \subseteq subs'[l]
    BY <1>4 DEF HandleServiceLookup, TypeOK
  <2>5. NameOf[p] \in subs'[k]
    BY <1>4 DEF HandleServiceLookup, TypeOK
  <2>6. \A a \in Actor \ {NameOf[p]} : looked'[a] = looked[a]
    BY <1>4 DEF HandleServiceLookup, TypeOK
  <2>7. \A a \in Actor : looked[a] \subseteq Key
    BY DEF TypeOK
  <2>8. \A a \in Actor : \A l \in looked'[a] :
          clients'[a] # Nil => a \in subs'[l] /\ l \in listening'
    BY <1>4, <2>1, <2>2, <2>3, <2>4, <2>5, <2>6, <2>7 DEF HandleServiceLookup, Wired
  <2>9. QED
    BY <1>4, <2>2, <2>8 DEF HandleServiceLookup, Wired
<1>5. ASSUME PublishService PROVE Wired'
  BY <1>0, <1>5, JobsDiffer, ResultsDiffer, WiredKept DEF PublishService, Heard
<1>6. ASSUME DhtGet PROVE Wired'
  BY <1>0, <1>6, JobsDiffer, WiredKept DEF DhtGet
<1>7. ASSUME MarkZombie PROVE Wired'
  BY <1>0, <1>7, JobsDiffer, ResultsDiffer, WiredKept DEF MarkZombie, Marking, Down
<1>8. ASSUME DelMarked PROVE Wired'
  BY <1>0, <1>8, JobsDiffer, WiredKept DEF DelMarked, Marking, Down
<1>9. ASSUME MarkingDone PROVE Wired'
  <2> DEFINE gone == {NameOf[p] : p \in {job.who} \ {Nil}}
  <2>1. Fresh(gone) /\ clients' = [a \in Actor |-> IF a \in gone THEN Nil ELSE clients[a]]
    BY <1>9 DEF MarkingDone
  <2> HIDE DEF gone
  <2>2. QED
    BY <1>9, <2>1, JobsDiffer DEF MarkingDone, Fresh, Wired
<1>10. ASSUME NEW m \in inbox, TellClients(m) PROVE Wired'
  BY <1>0, <1>10, JobsDiffer, WiredKept DEF TellClients
<1>11. ASSUME NEW m \in inbox, TellTheDead(m) PROVE Wired'
  BY <1>0, <1>11, JobsDiffer, WiredKept DEF TellTheDead
<1>12. ASSUME NEW m \in inbox, NoteZombie(m) PROVE Wired'
  <2>1. m \in Results
    BY DEF TypeOK
  <2>2. m.service \in marked
    BY <1>12, <2>1, ResultKinds DEF NoteZombie, Wired
  <2>3. QED
    BY <1>0, <1>12, <2>2, WiredKept DEF NoteZombie
<1>13. ASSUME RenewServices PROVE Wired'
  BY <1>0, <1>13, ResultsDiffer, WiredKept DEF RenewServices, Heard
<1>14. ASSUME MaintainZombieList PROVE Wired'
  BY <1>0, <1>14, JobsDiffer, WiredKept DEF MaintainZombieList
<1>15. ASSUME NEW g \in gets, GetReturns(g) PROVE Wired'
  BY <1>0, <1>15, ResultsDiffer, WiredKept DEF GetReturns
<1>16. ASSUME NEW g \in gets, GetFails(g) PROVE Wired'
  BY <1>0, <1>16, JobsDiffer, WiredKept DEF GetFails
<1>17. ASSUME NEW s \in Service, Expire(s) PROVE Wired'
  BY <1>0, <1>17, JobsDiffer, WiredKept DEF Expire
<1>18. ASSUME NEW s \in Service, RemotePublish(s) PROVE Wired'
  BY <1>0, <1>18, ResultsDiffer, WiredKept DEF RemotePublish, Heard
<1>19. ASSUME NEW s \in Service, RemoteMark(s) PROVE Wired'
  BY <1>0, <1>19, ResultsDiffer, WiredKept DEF RemoteMark
<1>20. ASSUME NEW p \in Pid, Die(p) PROVE Wired'
  BY <1>0, <1>20, JobsDiffer, WiredKept DEF Die
<1>21. ASSUME Crash PROVE Wired'
  BY <1>21 DEF Crash, Fresh, Wired
<1>22. ASSUME Restart PROVE Wired'
  <2>1. PICK Z \in SUBSET marked : inbox' = {Zombie(s) : s \in Z}
    BY <1>22 DEF Restart
  <2>2. QED
    BY <1>0, <1>22, <2>1, ResultsDiffer, WiredKept DEF Restart, Marking, Down
<1>23. ASSUME UNCHANGED vars PROVE Wired'
  BY <1>0, <1>23, JobsDiffer, WiredKept DEF vars
<1>24. QED
  BY <1>1, <1>2, <1>3, <1>4, <1>5, <1>6, <1>7, <1>8, <1>9, <1>10, <1>11, <1>12,
     <1>13, <1>14, <1>15, <1>16, <1>17, <1>18, <1>19, <1>20, <1>21, <1>22, <1>23
     DEF Cases

\* The ways in which the service s has reached, or will reach, the actor a.
OnItsWay(a, s) ==
    \/ s \in told[a]
    \/ Update(s) \in inbox \/ GetResult(a, s) \in inbox
    \/ \E g \in gets : g[1] = a /\ g[2] = KeyOf[s]
    \/ job = [op |-> "get", actor |-> a, key |-> KeyOf[s]]
    \/ job = Stuck
    \/ <<a, KeyOf[s]>> \in gaveUp

\* NothingMissed in these words.
LEMMA MissedMeans ==
    NothingMissed <=>
        \A a \in Actor : \A s \in dht \ marked :
            clients[a] # Nil /\ KeyOf[s] \in looked[a] => OnItsWay(a, s)
BY Zenon DEF NothingMissed, OnItsWay

\* A step loses nothing if what it adds to the DHT, or to the lookups of a
\* registered actor, is on its way, and what was on its way still is.
LEMMA MissedStep ==
    ASSUME NothingMissed,
           marked \subseteq marked',
           \A a \in Actor : clients'[a] # Nil => clients[a] # Nil \/ looked'[a] = {},
           \A a \in Actor : \A s \in dht' \ marked' :
               /\ clients[a] # Nil /\ clients'[a] # Nil
               /\ KeyOf[s] \in looked'[a]
               /\ (s \in dht /\ KeyOf[s] \in looked[a] => OnItsWay(a, s))
               => OnItsWay(a, s)'
    PROVE  NothingMissed'
<1>1. \A a \in Actor : \A s \in dht \ marked :
          clients[a] # Nil /\ KeyOf[s] \in looked[a] => OnItsWay(a, s)
  BY MissedMeans
<1>2. \A a \in Actor : \A s \in (dht \ marked)' :
          clients'[a] # Nil /\ KeyOf[s] \in looked'[a] => OnItsWay(a, s)'
  BY <1>1
<1>3. QED
  BY <1>2, Zenon DEF NothingMissed, OnItsWay

\* In particular if it only adds to what is on its way.
LEMMA MissedKept ==
    ASSUME NothingMissed, UNCHANGED <<looked, told, gaveUp>>,
           marked \subseteq marked', dht' \subseteq dht,
           \A a \in Actor : clients'[a] # Nil => clients[a] # Nil,
           inbox \subseteq inbox', gets \subseteq gets',
           job' = job \/ (job # Stuck /\ job.op # "get")
    PROVE  NothingMissed'
<1>1. ASSUME NEW a \in Actor, NEW s, OnItsWay(a, s) PROVE OnItsWay(a, s)'
  <2>1. CASE job = [op |-> "get", actor |-> a, key |-> KeyOf[s]]
    <3>1. job.op = "get"
      BY <2>1
    <3>2. job' = job
      BY <3>1
    <3>3. QED
      BY <2>1, <3>2 DEF OnItsWay
  <2>2. CASE job # [op |-> "get", actor |-> a, key |-> KeyOf[s]]
    BY <1>1, <2>2 DEF OnItsWay
  <2>3. QED
    BY <2>1, <2>2
<1>2. QED
  BY <1>1, MissedStep

\* The initial state misses nothing.
LEMMA InitNothingMissed == Init => NothingMissed
BY DEF Init, NothingMissed

\* Reading a result about a service does not lose it: whoever it concerns, it is
\* for an actor that looked it up.
LEMMA ToldIsConcerned ==
    ASSUME TypeOK, Wired, NEW m \in inbox, m.type # "ZombieList",
           NEW a \in Actor, NEW s \in Service, s \notin marked,
           clients[a] # Nil, KeyOf[s] \in looked[a],
           m = Update(s) \/ m = GetResult(a, s)
    PROVE  a \in Concerned(m) /\ m.service = s
<1>1. s \notin zombies
  BY DEF Wired
<1>2. a \in subs[KeyOf[s]]
  BY DEF Wired
<1>3. QED
  BY <1>1, <1>2 DEF Concerned, Update, GetResult

\* Every step preserves NothingMissed.
LEMMA NextNothingMissed == TypeOK /\ Wired /\ NothingMissed /\ [Next]_vars => NothingMissed'
<1> SUFFICES ASSUME TypeOK, Wired, NothingMissed, Cases PROVE NothingMissed'
  BY StepCases
<1> USE DEF memory, history
<1>0. /\ Idle # Stuck /\ Idle.op # "get" /\ Down # Stuck /\ Down.op # "get"
      /\ \A a, k : Idle # [op |-> "get", actor |-> a, key |-> k]
      /\ \A a \in Actor : \A k \in looked[a] : clients[a] # Nil => a \in subs[k] /\ k \in listening
  BY DEF Idle, Stuck, Down, Wired
<1>1. ASSUME NEW p \in Pid, HandleActorReg(p) PROVE NothingMissed'
  <2>1. NameOf[p] \in Actor
    BY PidAssumption
  <2>2. /\ looked'[NameOf[p]] = {}
        /\ \A a \in Actor \ {NameOf[p]} :
               /\ clients'[a] = clients[a] /\ looked'[a] = looked[a] /\ told'[a] = told[a]
               /\ \A k \in Key : <<a, k>> \in gaveUp => <<a, k>> \in gaveUp'
    BY <1>1, <2>1 DEF HandleActorReg, Fresh, TypeOK
  <2>3. ASSUME NEW a \in Actor \ {NameOf[p]}, NEW s \in Service, OnItsWay(a, s)
        PROVE  OnItsWay(a, s)'
    <3>1. KeyOf[s] \in Key
      BY ServiceAssumption
    <3>2. QED
      BY <1>1, <2>2, <2>3, <3>1 DEF HandleActorReg, OnItsWay
  <2>4. dht' \subseteq Service /\ dht' = dht /\ marked' = marked
    BY <1>1 DEF HandleActorReg, TypeOK
  <2>5. QED
    BY <2>2, <2>3, <2>4, MissedStep
<1>2. ASSUME NEW p \in Pid, HandleActorUnreg(p) PROVE NothingMissed'
  BY <1>0, <1>2, MissedKept DEF HandleActorUnreg, Marking
<1>3. ASSUME NEW s \in Service, HandleServiceReg(s) PROVE NothingMissed'
  BY <1>0, <1>3, MissedKept DEF HandleServiceReg
<1>4. ASSUME NEW p \in Pid, NEW k \in Key, HandleServiceLookup(p, k) PROVE NothingMissed'
  <2>1. NameOf[p] \in Actor
    BY PidAssumption
  <2>2. job' = [op |-> "get", actor |-> NameOf[p], key |-> k]
    BY <1>4 DEF HandleServiceLookup
  <2>3. ASSUME NEW a \in Actor, NEW s, KeyOf[s] \in looked'[a],
               KeyOf[s] \in looked[a] => OnItsWay(a, s)
        PROVE  OnItsWay(a, s)'
    <3>1. CASE KeyOf[s] \in looked[a]
      BY <1>0, <1>4, <2>3, <3>1 DEF HandleServiceLookup, OnItsWay
    <3>2. CASE KeyOf[s] \notin looked[a]
      <4>1. a = NameOf[p] /\ KeyOf[s] = k
        BY <1>4, <2>1, <2>3, <3>2 DEF HandleServiceLookup, TypeOK
      <4>2. QED
        BY <2>2, <4>1 DEF OnItsWay
    <3>3. QED
      BY <3>1, <3>2
  <2>4. dht' = dht /\ marked' = marked /\ clients' = clients
    BY <1>4 DEF HandleServiceLookup
  <2>5. QED
    BY <2>3, <2>4, MissedStep
<1>5. ASSUME PublishService PROVE NothingMissed'
  <2>1. ASSUME NEW a \in Actor, NEW s \in dht', clients[a] # Nil, KeyOf[s] \in looked[a],
               s \in dht => OnItsWay(a, s)
        PROVE  OnItsWay(a, s)'
    <3>1. CASE s \in dht
      BY <1>0, <1>5, <2>1, <3>1 DEF PublishService, OnItsWay, Stuck
    <3>2. CASE s \notin dht
      <4>1. s = job.service /\ KeyOf[s] \in listening
        BY <1>0, <1>5, <2>1, <3>2 DEF PublishService
      <4>2. Update(s) \in inbox'
        BY <1>5, <4>1 DEF PublishService, Heard
      <4>3. QED
        BY <4>2 DEF OnItsWay
    <3>3. QED
      BY <3>1, <3>2
  <2>2. looked' = looked /\ clients' = clients /\ marked' = marked
    BY <1>5 DEF PublishService
  <2>3. QED
    BY <2>1, <2>2, MissedStep
<1>6. ASSUME DhtGet PROVE NothingMissed'
  <2>1. ASSUME NEW a \in Actor, NEW s, OnItsWay(a, s) PROVE OnItsWay(a, s)'
    <3>1. CASE job = [op |-> "get", actor |-> a, key |-> KeyOf[s]]
      <4>1. job.actor = a /\ job.key = KeyOf[s]
        BY <3>1
      <4>2. <<a, KeyOf[s], 0>> \in gets'
        BY <1>6, <4>1 DEF DhtGet
      <4>3. QED
        BY <4>2 DEF OnItsWay
    <3>2. CASE job # [op |-> "get", actor |-> a, key |-> KeyOf[s]]
      BY <1>6, <2>1, <3>2 DEF DhtGet, OnItsWay, Stuck
    <3>3. QED
      BY <3>1, <3>2
  <2>2. looked' = looked /\ clients' = clients /\ marked' = marked /\ dht' = dht
    BY <1>6 DEF DhtGet
  <2>3. QED
    BY <2>1, <2>2, MissedStep
<1>7. ASSUME MarkZombie PROVE NothingMissed'
  <2>1. job # Stuck /\ job.op # "get"
    BY <1>7 DEF MarkZombie, Stuck
  <2>2. marked \subseteq marked' /\ inbox \subseteq inbox'
    BY <1>7 DEF MarkZombie
  <2>3. QED
    BY <1>7, <2>1, <2>2, MissedKept DEF MarkZombie
<1>8. ASSUME DelMarked PROVE NothingMissed'
  <2>1. job # Stuck /\ job.op # "get"
    BY <1>8 DEF DelMarked, Stuck
  <2>2. QED
    BY <1>8, <2>1, MissedKept DEF DelMarked
<1>9. ASSUME MarkingDone PROVE NothingMissed'
  <2> DEFINE gone == {NameOf[p] : p \in {job.who} \ {Nil}}
  <2>1. Fresh(gone) /\ clients' = [a \in Actor |-> IF a \in gone THEN Nil ELSE clients[a]]
    BY <1>9 DEF MarkingDone
  <2> HIDE DEF gone
  <2>2. job # Stuck /\ job.op # "get"
    BY <1>9 DEF MarkingDone, Stuck
  <2>3. ASSUME NEW a \in Actor, clients'[a] # Nil, NEW s \in Service, OnItsWay(a, s)
        PROVE  OnItsWay(a, s)'
    <3>1. a \notin gone
      BY <2>1, <2>3
    <3>2. told'[a] = told[a] /\ (<<a, KeyOf[s]>> \in gaveUp => <<a, KeyOf[s]>> \in gaveUp')
      BY <2>1, <3>1 DEF Fresh
    <3>3. job # [op |-> "get", actor |-> a, key |-> KeyOf[s]]
      BY <2>2
    <3>4. QED
      BY <1>9, <2>2, <2>3, <3>2, <3>3 DEF MarkingDone, OnItsWay
  <2>4. \A a \in Actor : clients'[a] # Nil => clients[a] # Nil /\ looked'[a] = looked[a]
    BY <2>1 DEF Fresh
  <2>5. dht' \subseteq Service /\ dht' = dht /\ marked' = marked
    BY <1>9 DEF MarkingDone, TypeOK
  <2>6. QED
    BY <2>3, <2>4, <2>5, MissedStep
<1>10. ASSUME NEW m \in inbox, TellClients(m) PROVE NothingMissed'
  <2>1. ASSUME NEW a \in Actor, NEW s \in Service \ marked, clients[a] # Nil,
               KeyOf[s] \in looked[a], OnItsWay(a, s)
        PROVE  OnItsWay(a, s)'
    <3>1. CASE m = Update(s) \/ m = GetResult(a, s)
      <4>1. a \in Concerned(m) /\ m.service = s
        BY <1>10, <2>1, <3>1, ToldIsConcerned DEF TellClients
      <4>2. s \in told'[a]
        BY <1>10, <4>1 DEF TellClients, Tell
      <4>3. QED
        BY <4>2 DEF OnItsWay
    <3>2. CASE m # Update(s) /\ m # GetResult(a, s)
      <4>1. told[a] \subseteq told'[a]
        BY <1>10 DEF TellClients, Tell
      <4>2. QED
        BY <1>10, <2>1, <3>2, <4>1 DEF TellClients, OnItsWay
    <3>3. QED
      BY <3>1, <3>2
  <2>2. dht \subseteq Service /\ looked' = looked /\ clients' = clients
        /\ marked' = marked /\ dht' = dht
    BY <1>10 DEF TellClients, TypeOK
  <2>3. QED
    BY <2>1, <2>2, MissedStep
<1>11. ASSUME NEW m \in inbox, TellTheDead(m) PROVE NothingMissed'
  <2>1. job' = Stuck /\ looked' = looked /\ clients' = clients /\ marked' = marked /\ dht' = dht
    BY <1>11 DEF TellTheDead
  <2>2. \A a, s : OnItsWay(a, s)'
    BY <2>1 DEF OnItsWay
  <2>3. QED
    BY <2>1, <2>2, MissedStep
<1>12. ASSUME NEW m \in inbox, NoteZombie(m) PROVE NothingMissed'
  <2>1. \A a, s : m # Update(s) /\ m # GetResult(a, s)
    BY <1>12 DEF NoteZombie, Update, GetResult
  <2>2. ASSUME NEW a \in Actor, NEW s, OnItsWay(a, s) PROVE OnItsWay(a, s)'
    BY <1>12, <2>1, <2>2 DEF NoteZombie, OnItsWay
  <2>3. looked' = looked /\ clients' = clients /\ marked' = marked /\ dht' = dht
    BY <1>12 DEF NoteZombie
  <2>4. QED
    BY <2>2, <2>3, MissedStep
<1>13. ASSUME RenewServices PROVE NothingMissed'
  <2>1. PICK S \in SUBSET UNION {checkins[p] : p \in Pid} :
          dht' = dht \cup S /\ inbox' = inbox \cup Heard(S)
    BY <1>13 DEF RenewServices
  <2>2. looked' = looked /\ clients' = clients /\ marked' = marked /\ told' = told
        /\ gets' = gets /\ job' = job /\ gaveUp' = gaveUp
    BY <1>13 DEF RenewServices
  <2>3. ASSUME NEW a \in Actor, NEW s \in dht', clients[a] # Nil, KeyOf[s] \in looked[a],
               s \in dht => OnItsWay(a, s)
        PROVE  OnItsWay(a, s)'
    <3>1. CASE s \in dht
      BY <2>1, <2>2, <2>3, <3>1 DEF OnItsWay
    <3>2. CASE s \notin dht
      <4>1. s \in S /\ KeyOf[s] \in listening
        BY <1>0, <2>1, <2>3, <3>2
      <4>2. Update(s) \in inbox'
        BY <2>1, <4>1 DEF Heard
      <4>3. QED
        BY <4>2 DEF OnItsWay
    <3>3. QED
      BY <3>1, <3>2
  <2>4. QED
    BY <2>2, <2>3, MissedStep
<1>14. ASSUME MaintainZombieList PROVE NothingMissed'
  BY <1>0, <1>14, MissedKept DEF MaintainZombieList
<1>15. ASSUME NEW g \in gets, GetReturns(g) PROVE NothingMissed'
  <2>1. ASSUME NEW a \in Actor, NEW s \in dht, OnItsWay(a, s) PROVE OnItsWay(a, s)'
    <3>1. CASE g[1] = a /\ g[2] = KeyOf[s]
      <4>1. GetResult(a, s) \in inbox'
        BY <1>15, <3>1 DEF GetReturns
      <4>2. QED
        BY <4>1 DEF OnItsWay
    <3>2. CASE ~ (g[1] = a /\ g[2] = KeyOf[s])
      BY <1>15, <2>1, <3>2 DEF GetReturns, OnItsWay
    <3>3. QED
      BY <3>1, <3>2
  <2>2. looked' = looked /\ clients' = clients /\ marked' = marked /\ dht' = dht
    BY <1>15 DEF GetReturns
  <2>3. QED
    BY <2>1, <2>2, MissedStep
<1>16. ASSUME NEW g \in gets, GetFails(g) PROVE NothingMissed'
  <2>1. ASSUME NEW a \in Actor, NEW s \in dht, OnItsWay(a, s) PROVE OnItsWay(a, s)'
    <3>1. CASE g[1] = a /\ g[2] = KeyOf[s]
      <4>1. CASE g[3] < MaxRetry
        <5>1. <<a, KeyOf[s], g[3] + 1>> \in gets'
          BY <1>16, <3>1, <4>1 DEF GetFails
        <5>2. QED
          BY <5>1 DEF OnItsWay
      <4>2. CASE ~ (g[3] < MaxRetry)
        <5>1. <<a, KeyOf[s]>> \in gaveUp'
          BY <1>16, <3>1, <4>2 DEF GetFails
        <5>2. QED
          BY <5>1 DEF OnItsWay
      <4>3. QED
        BY <4>1, <4>2
    <3>2. CASE ~ (g[1] = a /\ g[2] = KeyOf[s])
      <4>1. /\ \A h \in gets : h # g => h \in gets'
            /\ gaveUp \subseteq gaveUp' /\ inbox' = inbox /\ told' = told /\ job' = job
        BY <1>16 DEF GetFails
      <4>2. QED
        BY <2>1, <3>2, <4>1 DEF OnItsWay
    <3>3. QED
      BY <3>1, <3>2
  <2>2. looked' = looked /\ clients' = clients /\ marked' = marked /\ dht' = dht
    BY <1>16 DEF GetFails
  <2>3. QED
    BY <2>1, <2>2, MissedStep
<1>17. ASSUME NEW s \in Service, Expire(s) PROVE NothingMissed'
  BY <1>0, <1>17, MissedKept DEF Expire
<1>18. ASSUME NEW s \in Service, RemotePublish(s) PROVE NothingMissed'
  <2>1. dht' = dht \cup {s} /\ inbox' = inbox \cup Heard({s})
    BY <1>18 DEF RemotePublish
  <2>2. looked' = looked /\ clients' = clients /\ marked' = marked /\ told' = told
        /\ gets' = gets /\ job' = job /\ gaveUp' = gaveUp
    BY <1>18 DEF RemotePublish
  <2>3. ASSUME NEW a \in Actor, NEW t \in dht', clients[a] # Nil, KeyOf[t] \in looked[a],
               t \in dht => OnItsWay(a, t)
        PROVE  OnItsWay(a, t)'
    <3>1. CASE t \in dht
      BY <2>1, <2>2, <2>3, <3>1 DEF OnItsWay
    <3>2. CASE t \notin dht
      <4>1. t = s /\ KeyOf[t] \in listening
        BY <1>0, <2>1, <2>3, <3>2
      <4>2. Update(t) \in inbox'
        BY <2>1, <4>1 DEF Heard
      <4>3. QED
        BY <4>2 DEF OnItsWay
    <3>3. QED
      BY <3>1, <3>2
  <2>4. QED
    BY <2>2, <2>3, MissedStep
<1>19. ASSUME NEW s \in Service, RemoteMark(s) PROVE NothingMissed'
  BY <1>0, <1>19, MissedKept DEF RemoteMark
<1>20. ASSUME NEW p \in Pid, Die(p) PROVE NothingMissed'
  BY <1>0, <1>20, MissedKept DEF Die
<1>21. ASSUME Crash PROVE NothingMissed'
  <2>1. \A a \in Actor : clients'[a] = Nil
    BY <1>21 DEF Crash
  <2>2. QED
    BY <2>1 DEF NothingMissed
<1>22. ASSUME Restart PROVE NothingMissed'
  <2>1. \A a \in Actor : clients'[a] = Nil
    BY <1>22 DEF Restart, Up, Wired
  <2>2. QED
    BY <2>1 DEF NothingMissed
<1>23. ASSUME UNCHANGED vars PROVE NothingMissed'
  BY <1>0, <1>23, MissedKept DEF vars
<1>24. QED
  BY <1>1, <1>2, <1>3, <1>4, <1>5, <1>6, <1>7, <1>8, <1>9, <1>10, <1>11, <1>12,
     <1>13, <1>14, <1>15, <1>16, <1>17, <1>18, <1>19, <1>20, <1>21, <1>22, <1>23
     DEF Cases

\* No order of lookups, publications, results, failures and crashes makes a
\* registered actor miss a service it looked up.
THEOREM LookupsAreComplete == Spec => []NothingMissed
<1> DEFINE Inv == TypeOK /\ Wired /\ NothingMissed
<1>1. Init => Inv
  BY InitTypeOK, InitWired, InitNothingMissed
<1>2. Inv /\ [Next]_vars => Inv'
  BY NextTypeOK, NextWired, NextNothingMissed
<1>3. QED
  BY <1>1, <1>2, PTL DEF Spec
=============================================================================

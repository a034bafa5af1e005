SPECIFICATION FairSpec
CONSTANTS
    h1 = h1
    h2 = h2
    a1 = a1
    a2 = a2
    a3 = a3
    m1 = m1
    m2 = m2
    Host = {h1, h2}
    Actor = {a1, a2, a3}
    HostOf <- Hosts
    Member = {m1, m2}
    ActorOf <- Actors
    Leaver = {m2}
    SameKey = TRUE
    Mortal = {a2}
INVARIANTS
    TypeOK
    NobodyMissed
PROPERTIES
    MembersMeet
    JoinsReturn
CHECK_DEADLOCK FALSE

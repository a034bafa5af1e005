SPECIFICATION Spec
CONSTANTS
    p1 = p1
    p2 = p2
    a1 = a1
    s1 = s1
    s2 = s2
    r1 = r1
    k1 = k1
    k2 = k2
    Nil = Nil
    Pid = {p1, p2}
    Actor = {a1}
    NameOf <- OneActor
    Mortal = {p1}
    Service = {s1, s2, r1}
    Key = {k1, k2}
    KeyOf <- SharedKey
    Rep = {s1, s2}
    Owner <- Owners
    Wants <- RemoteWanted
    MaxRetry = 1
    MaxCrash = 1
INVARIANTS
    TypeOK
    
    DatabaseIsCurrent
    NothingMissed
CONSTRAINT FewInFlight

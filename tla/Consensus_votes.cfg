SPECIFICATION FairSpec
CONSTANTS
    n1 = n1
    n2 = n2
    n3 = n3
    a1 = a1
    p1 = p1
    p2 = p2
    Nil = Nil
    Node = {n1, n2, n3}
    Action = {a1}
    Proposal = {p1, p2}
    Link <- Hub
    Electable = {n1}
    Author <- ByClient
    KnownViews <- KnowsOthers
    ActionOf <- SameAction
    MaxQueue = 1
    Lossy = FALSE
INVARIANTS
    AtMostOneOutcome
    LocksAreLive
    OneServerCountsOnce
PROPERTIES
    NoLateAcceptance
    VotesEnd

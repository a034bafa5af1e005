SPECIFICATION FairGroupSpec
CONSTANTS
    MIN_ELECTION_TIMEOUT = 1
    MAX_ELECTION_TIMEOUT = 2
    PING_BASE_PERIOD = 1
    MIN_NODE_TIMEOUT = 2
    MAX_NODE_TIMEOUT = 3
    Peer = {p1, p2}
INVARIANTS
    CandidateWindow
    MembersWereHeard
PROPERTIES
    ElectionsAreSpaced
    PingsAreSpaced
    SuspicionIsPinged

SPECIFICATION Spec
CONSTANTS
    MIN_ELECTION_TIMEOUT = 3
    MAX_ELECTION_TIMEOUT = 10
PROPERTY
    CandidateOnlyAfterSilence

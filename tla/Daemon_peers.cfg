SPECIFICATION FairSpec
CONSTANTS
    h1 = h1
    h2 = h2
    Keyless = {1}
    Peer = {h1, h2}
    Runs <- RunsOf
    Endpoint <- Endpoints
    KeyHolder <- KeyHolders
    Carries <- CarriesOf
    Mortal = {h1}
    Named = {h2}
INVARIANTS
    TypeOK
    CachedAreJoined
PROPERTIES
    CachingNeedsProof
    ValidUntilChecked
    HostsAreJoined
    StoppedHostsLeave

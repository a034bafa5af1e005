SPECIFICATION Spec
CONSTANTS
    Node = {n1, n2, n3}
    Nil = Nil
    Link <- Mesh
    MemberCounts <- Views
    MaxTerm = 2
    MaxQueue = 1
    Lossy = TRUE
SYMMETRY Symmetry
INVARIANT OneLeaderPerTerm

CONSTANTS
    Node = {n1, n2}
    Op = {o1, o2}
    None = None
    MaxIndex = 5
    MaxFlight = 2
    MaxId = 2
    Deadline = {1, 2}
    Kinds <- AllKinds
SPECIFICATION Spec
SYMMETRY Symmetry
CHECK_DEADLOCK FALSE
INVARIANTS
    TypeOK
    AggregateValid
    ReplayExact
    GrantOnce
    CompletedMeansCutover
    NoSecondEffect
PROPERTY
    CutoffFixed

SPECIFICATION Spec
CONSTANTS
    Requests = {r1, r2}
    Terms = {1, 2, 3}
    MaxTime = 2
    Duration = 1
    Scenarios <- SafetyScenarios
INVARIANTS
    TypeOK
    NoRevival
    PauseHolds
    FenceHolds
    LeaseSupervised
    ExpirationFollowsLease
    StorageTerminal
PROPERTIES
    ResetHolds
SYMMETRY Symmetry
\* The instance stops when its sessions and its clock are used up.
CHECK_DEADLOCK FALSE

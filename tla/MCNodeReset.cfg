SPECIFICATION Spec
CONSTANTS
    Requests = {r1}
    Terms = {1, 2, 3}
    MaxTime = 1
    Duration = 1
    Scenarios <- ResetScenarios
PROPERTIES
    ResetUnready
\* The instance stops when its sessions and its clock are used up.
CHECK_DEADLOCK FALSE

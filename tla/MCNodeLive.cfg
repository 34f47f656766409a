SPECIFICATION FairSpec
CONSTANTS
    Requests = {r1}
    Terms = {1, 2, 3}
    MaxTime = 1
    Duration = 1
    Scenarios <- LiveScenarios
PROPERTIES
    TransitionsEnd
CHECK_DEADLOCK FALSE

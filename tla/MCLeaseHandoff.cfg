SPECIFICATION MCSpec
CONSTANTS
    Nodes = {a, b}
    FirstOwner = a
    Validity = 2
    Margin = 2
    Policy = 2
    Takeover = 1
    RoleLag = 1
    MaxLeaders = 2
    MaxLog = 2
    MaxTime = 9
    MaxBoots = 2
    MaxSuspended = 2
INVARIANT
    TypeOK
PROPERTIES
    BoundedOverlap
    LeadersForward
CHECK_DEADLOCK FALSE

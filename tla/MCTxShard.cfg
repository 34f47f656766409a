SPECIFICATION ShardSpec
CONSTANTS
    r1 = r1  r2 = r2  w1 = w1  w2 = w2  ra = ra
    k1 = k1  k2 = k2
    Owners <- MCOwners
    Fps <- MCFps
    Wants <- MCWants
    MaxTxid = 3
    MaxLength = 5
INVARIANTS
    TypeOK
    CountersExact
    EntriesExact
    LiveSorted
PROPERTIES
    ImplementsSets
    ImplementsWaitSet

SPECIFICATION FairSpec
CONSTANTS
  w1 = w1  w2 = w2
  k1 = k1  k2 = k2  k3 = k3
  t1 = t1  t2 = t2  t3 = t3  p1 = p1  p2 = p2
  Ops <- HopOps
  Uses <- HopUses
  Shards <- MCShards
  Keys <- MCKeys
  Owner <- MCOwner
  MaxTxid = 3
  MaxHops <- HopHops
  MaxActive = 3
PROPERTIES ScheduledCompletes
\* Clients may stop issuing operations; a stuck operation violates the property.
CHECK_DEADLOCK FALSE

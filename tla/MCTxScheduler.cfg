SPECIFICATION Spec
CONSTANTS
  w1 = w1  w2 = w2
  k1 = k1  k2 = k2  k3 = k3
  t1 = t1  t2 = t2  t3 = t3  p1 = p1  p2 = p2
  Ops <- MixedOps
  Uses <- MixedUses
  Shards <- MCShards
  Keys <- MCKeys
  Owner <- MCOwner
  MaxTxid = 4
  MaxHops <- MixedHops
  MaxActive = 3
SYMMETRY Interchangeable
INVARIANTS TypeOK MutualExclusion BypassDrains TxidOrder Serializability BarrierExact NothingLeftBehind
PROPERTIES NoBarging

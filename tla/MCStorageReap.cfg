SPECIFICATION Spec
CONSTANTS
  k1 = k1
  k2 = k2
  d1 = d1
  d2 = d2
  t1 = t1
  t2 = t2
  Keys = {k1, k2}
  Dbs = {d1, d2}
  DbOf <- MCDbOf
  Txs = {t1, t2}
  Blocks = {1, 2, 3, 4}
  BlockRecords = 2
  DefragReserve = 1
  MaxGeneration = 2
  NoTx = NoTx
  None = None
  Expiries = {1, 2}
  Budgets <- ReapBudgets
PROPERTY ReapsOnlyUnneeded
CHECK_DEADLOCK FALSE
SYMMETRY Symmetry

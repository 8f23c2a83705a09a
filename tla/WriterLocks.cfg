CONSTANTS
  x1 = x1
  x2 = x2
  x3 = x3
  x4 = x4
  NULL = NULL
  Txs = {x1, x2, x3}
  POs = {1, 2}
  SOs = {1, 2}
  TOs = {1, 2}
  Lots = {1, 2, 3, 4}
  PoOf <- OrderOf
  PeerOf <- CloneOf
  Requests <- AllAsks
  Starts <- Books
SPECIFICATION Spec
INVARIANTS DeadlockNeedsUnordered
PROPERTIES LocksKeepLedger SaleHoldsOrders
SYMMETRY TxSymmetry
CHECK_DEADLOCK FALSE

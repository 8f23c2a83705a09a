CONSTANTS
  p1 = p1
  p2 = p2
  a = a
  b = b
  NULL = NULL
  POs = {p1, p2}
  SOs = {s1}
  TOs = {}
  Lots = {a, b}
  PoOf <- AOfP1
  Clones = {}
  HandLots = {}
  Stages <- ToReadyToPay
  SellMoves <- AllSellMoves
  MaxQty = 1
  Counts = {0}
SPECIFICATION Spec
INVARIANTS ArchivedOutOfStock CommittedSellable
PROPERTIES CascadeKeepsDrafts
CHECK_DEADLOCK FALSE
PROPERTIES KeepsLedger

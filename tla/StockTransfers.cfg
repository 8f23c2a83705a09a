CONSTANTS
  p1 = p1
  p2 = p2
  a = a
  b = b
  NULL = NULL
  POs = {p1}
  SOs = {s1}
  TOs = {t1}
  Lots = {a, b}
  PoOf <- AllOfP1
  Clones = {b}
  HandLots = {a}
  Stages <- ToReadyToPay
  SellMoves <- SomeSellMoves
  MaxQty = 2
  Counts = {}
SPECIFICATION Spec
INVARIANTS TypeOK NoOversell CommittedSellable StockConserved TransferNotStranded
PROPERTIES MovesBuyNothing
CHECK_DEADLOCK FALSE
PROPERTIES KeepsLedger

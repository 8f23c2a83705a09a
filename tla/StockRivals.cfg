CONSTANTS
  p1 = p1
  p2 = p2
  a = a
  b = b
  NULL = NULL
  POs = {p1}
  SOs = {s1, s2}
  TOs = {}
  Lots = {a}
  PoOf <- AllOfP1
  Clones = {}
  HandLots = {a}
  Stages <- ToEveryStage
  SellMoves <- SomeSellMoves
  MaxQty = 2
  Counts = {0, 1}
SPECIFICATION Spec
INVARIANTS NoOversell SaleFits CommittedSellable StockConserved ArchivedOutOfStock NoHiddenClaim SaleStays
PROPERTIES HeldLotNeverBack
SYMMETRY SellerSymmetry
CHECK_DEADLOCK FALSE
PROPERTIES KeepsLedger

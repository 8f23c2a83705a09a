CONSTANTS
  p1 = p1
  p2 = p2
  a = a
  b = b
  NULL = NULL
  POs = {p1}
  SOs = {s1}
  TOs = {t1}
  Lots = {a, b}
  PoOf <- AllOfP1
  Clones = {b}
  HandLots = {}
  Stages <- ToReviewing
  SellMoves <- SomeSellMoves
  MaxQty = 3
  Counts = {}
SPECIFICATION Spec
PROPERTIES DiscardKeepsBought
CHECK_DEADLOCK FALSE

SPECIFICATION MCSpec
CONSTANTS
  pull = pull
  retry = retry
  charge = charge
  charged = charged
  Mercury = {pull, retry}
  PayPal = {charge}
  Orders = {o1, o2}
  Ids = {charged}
  IdOf <- MCIdOf
  Near <- MCNear
  SaysPaypal = {pull, retry}
  Patterns <- MCPatterns
  Managers = {anna, ben}
  MaxFetched = 1
  NoId = NoId
  NoOrder = NoOrder
  NoPair = NoPair
  NoTx = NoTx
  NoRule = NoRule
SYMMETRY Symmetry
INVARIANT LinkedPairCounts
CHECK_DEADLOCK FALSE

CONSTANTS
  NULL = NULL
  Workers = {1, 2}
  Accounts = {1, 2}
  Boots = {1, 2, 3, 4, 5, 6, 7, 8}
  Pairs = {1, 2}
  MaxTroubles = 3
  MaxTasks = 1
SPECIFICATION MCSpec
INVARIANTS OneLease HandoffLeavesNoBrowser HandedOnce
PROPERTIES ReservationKept DeadTokenStaysDead Served QueueDrains
CHECK_DEADLOCK FALSE

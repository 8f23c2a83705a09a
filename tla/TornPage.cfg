CONSTANTS
  Lots = {l1}
  Editors = {e1}
  Managers = {m1}
  MaxQty = 2
  Prices = {1, 2}
  MaxRewrites = 1
  Orders = {o1, o2}
  Instances = {i1, i2}
  MaxAttempts = 3
  MaxReviews = 2
  MaxCrashes = 2
  MaxUnlucky = 1
  Parts = {"managers"}
SPECIFICATION MCSpec
INVARIANT DoneAsShown
CHECK_DEADLOCK FALSE

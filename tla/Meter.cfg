SPECIFICATION FairSpec
CONSTANTS
  Sizes <- TwoSizes
  Idles = {1, 3}
  Life = 2
  CallMax = 1
  BillEvery = 2
  Lookback = 3
  Horizon = 4
INVARIANTS NothingLost
PROPERTIES BilledAsDue EphemeralGoes
CHECK_DEADLOCK FALSE

SPECIFICATION FairSpec
CONSTANTS
  Run = {r1, r2, r3, r4}
  Leased = {r1}
  MaxWorkers = 1
  MaxPending = 1
  MaxSlots = 2
  LeaseRounds = 3
  MaxFailures = 1
INVARIANTS SlotsCounted WorkConserving DrainIsComplete OnePlace OverfillBounded WaiterKeepsLease
PROPERTIES PlacedNotShed WaiterStarts

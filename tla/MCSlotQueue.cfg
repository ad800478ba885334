\* Four requests compete for two slots.
CONSTANTS
  q1 = q1
  q2 = q2
  q3 = q3
  q4 = q4
  Requests <- Four
  Concurrency = 2
SPECIFICATION FairSpec
CHECK_DEADLOCK FALSE
INVARIANTS SlotConservation NoStrandedWaiter
PROPERTIES FirstComeFirstServed PoolFairSpec

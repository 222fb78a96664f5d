SPECIFICATION Spec
CONSTANTS
  Max = 2
  Window = 4
  MinSleep = 2
  Early = 1
  PruneAge = 5
  MaxSends = 5
  MaxTime = 9
INVARIANTS
  BudgetKept
  LimitKept
  TwoSleepsAreEnough

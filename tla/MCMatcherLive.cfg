SPECIFICATION LiveSpec
CONSTANTS
  Jobs = {j1}
  Rules = {r1}
  c1 = c1
  c2 = c2
  e1 = e1
  e2 = e2
  d1 = d1
  Comments = {c1, c2}
  Users = {u1}
  Author <- OneAuthor
  MaxAttempts = 1
  MaxCycles = 1
  Null = Null
  Events = {e1, d1}
  Type <- EventType
  About <- Unrelated
  Matches <- AllRules
  Loop = Loop
  SweepBatch = 1
  BootBatch = 1
  MaxRedeliveries = 1
  MaxBlocked = 0
PROPERTIES
  EveryEventProcessed

SPECIFICATION LiveSpec
CONSTANTS
  Jobs = {j1}
  Rules = {r1}
  Comments = {c1}
  Users = {u1}
  Author <- OneAuthor
  MaxAttempts = 2
  MaxCycles = 2
  Null = Null
PROPERTIES
  OrphansRecovered
  EveryObligationResolved

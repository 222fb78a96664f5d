SPECIFICATION Spec
CONSTANTS
  Jobs = {j1, j2}
  Requests = {r1, r2}
  MaxBlocked = 1
  Null = Null
SYMMETRY Symmetry
INVARIANTS
  ReportCoversRun
  StatsNeverTakesBack

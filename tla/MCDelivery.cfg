SPECIFICATION Spec
CONSTANTS
  Jobs = {j1, j2}
  Rules = {r1}
  Comments = {c1, c2}
  Users = {u1}
  Author <- OneAuthor
  MaxAttempts = 2
  MaxCycles = 2
  Null = Null
SYMMETRY Symmetry
INVARIANTS
  OneLiveDM
  SentWasDelivered
  LiveUserDMedOnce
  FailedOnlyWithCause
  IInv
PROPERTIES
  TerminalIsFinal
  PromiseKept
  TriesAreSpent

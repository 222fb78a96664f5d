SPECIFICATION SiteLiveSpec
CONSTANTS
  MaxRuns = 2
  MaxAsked = 2
  None = None
  NoChoice = NoChoice
  MaxToggles = 2
  MaxEvents = 2
INVARIANTS
  ReportIsOfRun
  OneWatch
  NavIsOfPage
  ChoiceIsKept
PROPERTIES
  BusyEnds
  TransitionsEnd

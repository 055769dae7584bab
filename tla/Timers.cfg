SPECIFICATION TimersFairSpec
CONSTANTS
  MaxRuns = 2
  MaxCrashes = 1
  Faults = 2
INVARIANTS
  Sheltered
PROPERTIES
  OnlySystemStops
  ChainsServe
  FetchRecovers

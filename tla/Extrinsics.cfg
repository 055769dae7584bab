CONSTANTS
  j1 = j1  j2 = j2
  Jobs <- BadSecond
  Unreadable = {j2}
  Fetches = {f1}
  Acks = {a1, a2}
  Own = {report}
  NoCall = NoCall
  Era = 2
  Faults = 1
SPECIFICATION FairSpec
INVARIANTS
  OnlyRivalsLose
  WastedOnlyIfLate
PROPERTIES
  EveryJobScheduled

CONSTANTS
  periodic = periodic  twin = twin  alone = alone
  Jobs = {periodic, twin, alone}
  Script <- MCScript
  Start <- MCStart
  End <- MCEnd
  Interval <- MCInterval
  Unit = 1
  UsingAcurast = FALSE
  MaxTime = 3
  MaxCalls = 2
SPECIFICATION MCSpec
\* The clock stops at MaxTime.
CHECK_DEADLOCK FALSE
INVARIANTS
  EverySlotServed
  OnceEach
  LastRuns
PROPERTIES
  NoneReplaced

CONSTANTS
  Nodes = {n1, n2}
  Reveals = {init}
  Transactions = {fulfill}
  Retries = 2
SPECIFICATION FairSpec
\* When every operation is settled nothing is left to do.
CHECK_DEADLOCK FALSE
INVARIANTS
  SerialCounters
PROPERTIES
  OnlyLookupLoses
  ImplementsSubmission
  Settles

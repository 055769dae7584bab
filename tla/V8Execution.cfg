CONSTANTS
  j1 = j1  j2 = j2
  get = get  third = third  attest = attest
  Main = Main  NoThread = NoThread
  Runs = {j1, j2}
  HttpCalls = {get, third}
  AttestCalls = {attest}
  RunOf <- RunOfDef
  PoolThreads = {p1, p2}
  Requested = {j1}
SPECIFICATION FairSpec
\* Both runs may end, and a thread waiting for a lock left behind polls for ever.
CHECK_DEADLOCK FALSE
INVARIANTS
  QuietWhenClosed
  ExactOutcome
PROPERTIES
  OnlyThrowsLeak
  ImplementsContract
  RunEnds
  CallSettles

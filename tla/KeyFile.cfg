CONSTANTS
  Threads = {t1, t2}
  Creations = 2
  Faults = 2
SPECIFICATION Spec
\* No more keys than Creations are made.
CHECK_DEADLOCK FALSE
INVARIANTS
  OneKey
  PublicNotGarbled
PROPERTIES
  CompleteKeyStays

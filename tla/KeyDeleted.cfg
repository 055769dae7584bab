CONSTANTS
  Threads = {t1, t2}
  Creations = 2
  Faults = 1
SPECIFICATION Spec
\* No more keys than Creations are made.
CHECK_DEADLOCK FALSE
PROPERTIES
  NeverDeletedOnceCreated

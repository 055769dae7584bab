CONSTANTS
  Curves <- MCCurves
  Tasks <- MCTasks
  POINT_ITERATIONS = 3
  WORD_BITS = 2
  FE_WORDS = 3
  BYTE_BITS = 1
  Fields <- MCFields
SPECIFICATION MCSpec
INVARIANT SigningStopsAtZeroX
\* One operation is applied, or one task performed.
CHECK_DEADLOCK FALSE

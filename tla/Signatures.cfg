CONSTANTS
  App <- MCApp
  Store <- MCStore
  Hashes <- MCHashes
  Base = 8
  Size = 2
SPECIFICATION Spec
\* A signature is made once.
CHECK_DEADLOCK FALSE
INVARIANTS
  EcdsaHolds
  ReadsBack

CONSTANTS
  BLOCK = 4
  SIZE = 2
  LENGTH = 2
  TotalMod = 12
  MaxFed = 13
  Chunks = {1, 3, 6}
  KeySizes = {0, 2, 5}
  Outputs = {1, 3, 6}
  IterMod = 3
  Bits = 16
  XOR <- MCXor
  AND <- MCAnd
  OR <- MCOr
  K <- MCK
  Blocks <- MCBlocks
SPECIFICATION MCSpec
\* The compression function is applied once, a key is made once.
CHECK_DEADLOCK FALSE
INVARIANTS
  HashesFed
  DerivesKeys
  CompressionFollowsStandard

CONSTANTS
  SIZE = 32
  INTERVAL = 18
  MAX_BYTES = 128
  MIN_ENTROPY = 32
  MAX_ENTROPY = 256
  MIN_NONCE = 16
  MAX_PERSONALIZATION = 256
  MAX_ADDITIONAL = 256
  Lengths = {0, 33, 257}
  Counts = {3}
  MaxDepth = 2
  Curves = {"P256"}
  BITS = 3
  ITERATIONS = 2
  SizeMod = 16
  CurveIds = {"P256", "INVALID"}
  Faults = {{}, {"Z"}, {"secret", "private", "public"}}
SPECIFICATION SwSpec
INVARIANTS NeverRepeats OnlyFreshlySeeded AssertsHold Delivers WipesSecrets
PROPERTY CallReturns

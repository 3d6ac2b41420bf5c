CONSTANTS
  b1 = b1  b2 = b2  b3 = b3  x1 = x1  x2 = x2  x3 = x3  x4 = x4
  Bos <- MCBos
  Bufs <- MCBufs
  ImportLive = FALSE
  ErrnoMayBeZero = FALSE
SPECIFICATION Spec
INVARIANT InitRollback
INVARIANT GemOwnership

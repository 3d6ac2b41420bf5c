CONSTANTS
  t1 = t1  t2 = t2  b1 = b1  b2 = b2
  f1 = f1  f2 = f2  f3 = f3  f4 = f4
  Threads <- MCThreads
  Bos <- MCBos
  FdIds <- MCFdIds
  NoFd = NoFd
  NoBo = NoBo
  HeapConfigs <- MCHeapConfigs
  Requests <- MCRequests
  UseSets <- MCUseSets
  DupMayFail = TRUE
  SyncMayFail = FALSE
SYMMETRY MCSymmetry
SPECIFICATION Spec
INVARIANT NoBadFdKept

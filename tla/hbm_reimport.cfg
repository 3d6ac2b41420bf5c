CONSTANTS
  Values = {v1, v2}
  Fresh = Fresh
  Unknown = Unknown
  FdIds = {f1, f2}
  NoFd = NoFd
  NumPlanes = 1
  MapFlagChoices <- MCFlagsRW
SYMMETRY MCSymmetry
SPECIFICATION SpecApi
INVARIANT FdOwnership

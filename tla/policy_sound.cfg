CONSTANTS
  UseFlags <- MCUseFlags
  MemTypes <- MCMemTypes
  MaxTypes = 2
  NoMt = NoMt
SPECIFICATION Spec
CHECK_DEADLOCK FALSE
INVARIANT TypeOK
INVARIANT PickSound
INVARIANT PickFirstPreferred
INVARIANT StagingTypeSound

SPECIFICATION MediaKeysSpec
CONSTANTS
  WindowSize = 2
  Overlap = 1
  LastEpoch = 1
  MaxFrames = 1
  NoKey = NoKey
INVARIANT KeyIsTheGroups
CHECK_DEADLOCK FALSE

SPECIFICATION Spec
CONSTANTS
  Displays <- MCDisplays
  FbBases <- MCFbBases
  VcBase = 1006632960
  MaxNoise = 1
  MaxTicks = 2
  MaxLines = 131
INVARIANTS MessagesClosed DrawsInside OwnAreas FbAgrees
PROPERTY ReachesShell
CHECK_DEADLOCK FALSE

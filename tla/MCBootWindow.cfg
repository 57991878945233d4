SPECIFICATION Spec
CONSTANTS
  Displays <- MCDisplays
  FbBases <- MCFbFar
  VcBase = 1006632960
  MaxNoise = 0
  MaxTicks = 1
  MaxLines = 1
PROPERTY ReachesShell
CHECK_DEADLOCK FALSE

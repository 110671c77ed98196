SPECIFICATION Spec
CONSTANTS
  v1 = v1
  v2 = v2
  v3 = v3
  n1 = n1
  n2 = n2
  None = None
  Volumes <- MCVolumes
  Name <- MCName
  Sources <- MCSources
  MaxSnaps = 2
  MaxFails = 1
CHECK_DEADLOCK FALSE
INVARIANT AnswerNamesSource

SPECIFICATION FairSpec
CONSTANTS
  Instances = {i1, i2}
  None = None
  Overlap = FALSE
  MaxRpcs = 2
  MaxFaults = 2
INVARIANTS
  TypeOK
  NewestIsReachable
  ProbeTruthful
  StopDrains
PROPERTIES
  StartServes
  SignalEnds

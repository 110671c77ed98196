SPECIFICATION FairSpec
CONSTANTS
  giB = 2
  minimumVolumeSizeInBytes = 2
  maximumVolumeSizeInBytes = 8
  defaultVolumeSizeInBytes = 4
  Sizes <- WholeGiB
  MaxVolumes = 4
  MaxExpands = 2
  MaxFails = 2
  LateCreates = TRUE
  NameLookups = {FALSE, TRUE}
CHECK_DEADLOCK FALSE
INVARIANTS
  TypeOK
  SizeHonoursRange
  OrphansNeedFailures
  CapacityTruthful
PROPERTIES
  CreateConverges
  DeleteConverges

SPECIFICATION PlainSpec
CONSTANTS
  giB = 2
  minimumVolumeSizeInBytes = 2
  maximumVolumeSizeInBytes = 8
  defaultVolumeSizeInBytes = 4
  Sizes <- WholeGiB
  MaxVolumes = 2
  MaxExpands = 0
  MaxFails = 1
  LateCreates = FALSE
  NameLookups <- ByIdentity
CHECK_DEADLOCK FALSE
INVARIANTS
  OneVolumePerName

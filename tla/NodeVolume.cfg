SPECIFICATION NodeSpec
CONSTANTS
  Staging = Staging
  NoCall = NoCall
  Targets = {t1, t2}
  Slots = {s1}
  ValidateAttachment = TRUE
  MaxNodeFails = 3
INVARIANTS
  PublishedSeesVolume
  UnusedIsUnmounted
  StagedSpansDevice
PROPERTIES
  NoReformat

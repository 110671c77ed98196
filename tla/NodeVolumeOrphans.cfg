SPECIFICATION FairNodeSpec
CONSTANTS
  Staging = Staging
  NoCall = NoCall
  Targets = {t1}
  Slots = {s1, s2}
  ValidateAttachment = TRUE
  MaxNodeFails = 2
INVARIANTS
  NodeTypeOK
PROPERTIES
  UnmountReplyTruthful
  TeardownConverges
  StageConverges

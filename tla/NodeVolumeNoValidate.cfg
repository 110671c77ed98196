SPECIFICATION NodeSpec
CONSTANTS
  Staging = Staging
  NoCall = NoCall
  Targets = {t1}
  Slots = {s1}
  ValidateAttachment = FALSE
  MaxNodeFails = 0
PROPERTIES
  NoReformat

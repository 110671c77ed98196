SPECIFICATION MCSpec
CONSTANTS
  m1 = m1
  m2 = m2
  m3 = m3
  n1 = n1
  None = None
  Staging = Staging
  Machines <- MCMachines
  NodeIds <- MCNodeIds
  NodeId <- MCNodeId
  Here = n1
  Targets = {t1}
  Slots = {s1}
  ValidateAttachment = TRUE
  MaxLate = 0
  MaxFails = 1
  NoCall = NoCall
  MaxNodeFails = 1
INVARIANTS
  PublishedIsAttached
  DetachedIsDetached
  InUseIsHeldHere
PROPERTIES
  ImplementsLease
  ImplementsNode

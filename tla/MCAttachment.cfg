SPECIFICATION FairSpec
CONSTANTS
  m1 = m1
  m2 = m2
  m3 = m3
  n1 = n1
  None = None
  Machines <- MCMachines
  NodeIds <- MCNodeIds
  NodeId <- MCNodeId
  MaxLate = 1
  MaxFails = 1
INVARIANTS
  TypeOK
PROPERTIES
  UnpublishReplyTruthful
  UnpublishConverges
  PublishConverges

SPECIFICATION FairSpec
CONSTANTS
  v1 = v1
  v2 = v2
  None = None
  Ids = {1, 2, 3, 4}
  Volumes = {v1, v2}
  SourceOf <- MCSourceOf
  MaxPage = 2
  MaxFails = 1
INVARIANTS
  TypeOK
  ListingExact
  PageFits
PROPERTIES
  NoRepeats
  ListingEnds

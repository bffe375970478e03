\* Two overlapping requests on one asset.
SPECIFICATION Spec
CONSTANTS
  a1 = a1
  a2 = a2
  n1 = n1
  k1 = k1
  r1 = r1
  r2 = r2
  None = None
  Assets <- OneAsset
  Names <- OneName
  Keys = {k1}
  Requests <- TwoRequests
  Created = {"ACTIVE", "DRAFT"}
  OneAtATime = FALSE
  NoId = NoId
  Ids = {1, 2, 3}
  MaxVersion = 3
PROPERTIES
  NoLostUpdate
CHECK_DEADLOCK FALSE

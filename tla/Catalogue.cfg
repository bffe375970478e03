\* Requests that do not overlap and may die at any point.
SPECIFICATION Spec
CONSTANTS
  a1 = a1
  a2 = a2
  n1 = n1
  k1 = k1
  r1 = r1
  r2 = r2
  None = None
  Assets <- TwoAssets
  Names <- OneName
  Keys = {k1}
  Requests <- OneRequest
  Created = {"ACTIVE", "DRAFT"}
  OneAtATime = TRUE
  NoId = NoId
  Ids = {1, 2, 3}
  MaxVersion = 3
SYMMETRY AssetSymmetry
INVARIANTS
  ClaimsMatch
  OneAssetPerKey
  RedirectsEnd
PROPERTIES
  LifecycleLegal
CHECK_DEADLOCK FALSE

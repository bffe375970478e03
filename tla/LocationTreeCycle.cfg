\* Two overlapping reparents.
SPECIFICATION Spec
CONSTANTS
  l1 = l1
  l2 = l2
  l3 = l3
  a1 = a1
  r1 = r1
  r2 = r2
  Root = Root
  Free = Free
  Gone = Gone
  Locations <- ThreeLocations
  Assets <- OneAsset
  Requests <- TwoRequests
INVARIANTS
  Forest
CHECK_DEADLOCK FALSE

SPECIFICATION Spec
CONSTANTS
  Scripts <- AllScripts
  Photos <- FivePhotos
  Stored <- FivePhotos
  Precedent <- OldPhoto
  Uploads <- TwoUploads
  AssetOf <- Products
  Briefs <- TwoBriefs
  Settings <- Variants
  MaxPosts = 3
  Miso = 1
  Costita = 2
  Ceafa = 3
  Costita2 = 4
  FixedCap = 1
  PilotRenders = 3
  BilledBefore = 1
  BulkRenders = 2
  NullsExpected = 1
  Crashes = TRUE
INVARIANTS
  SliceClosed
  NoCallPassedOver
  CapKept
  LinkedResolves
CHECK_DEADLOCK FALSE

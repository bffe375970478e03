\* Any number of mishaps: races, refused writes and crashes.
SPECIFICATION Spec
CONSTANTS
  u1 = u1
  u2 = u2
  d1 = d1
  t1 = t1
  h1 = h1
  h2 = h2
  None = None
  Uploads <- TwoUploads
  Digests <- OneContent
  Texts <- OneText
  Households <- TwoHomes
  Unknown = h2
  Exts <- OneExt
  Keys = {k1}
SYMMETRY UploadSymmetry
INVARIANTS
  RowServed
  NoOrphans
  KeyNamesRow
CHECK_DEADLOCK FALSE

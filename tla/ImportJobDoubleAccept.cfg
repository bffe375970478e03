SPECIFICATION Spec
CONSTANTS
  c1 = c1
  c2 = c2
  c3 = c3
  s1 = s1
  s2 = s2
  None = None
  Candidates <- OneCandidate
  Sessions <- TwoSessions
  MaxAssets = 2
  Serialized = FALSE
  Crashes = FALSE
  Failures = FALSE
INVARIANTS
  OneAssetPerCandidate
CHECK_DEADLOCK FALSE

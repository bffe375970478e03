\* Requests one at a time, each of which may die or fail at any point.
SPECIFICATION Spec
CONSTANTS
  c1 = c1
  c2 = c2
  c3 = c3
  s1 = s1
  s2 = s2
  None = None
  Candidates <- ThreeCandidates
  Sessions <- OneSession
  MaxAssets = 2
  Serialized = TRUE
  Crashes = TRUE
  Failures = TRUE
SYMMETRY CandidateSymmetry
INVARIANTS
  ApprovedIsCommitted
  NeverLeftRunning
  OneAssetPerCandidate
  AssetsHaveDecisions
  CompletedMeansCommitted
  FailedIsRetryable
  OneProposalPerImport
  DateTaskFollowsAsset
PROPERTIES
  CompletedStepsStay
  ImplementsContract
CHECK_DEADLOCK FALSE

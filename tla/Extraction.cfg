\* Two jobs on one database, with every fault.
SPECIFICATION FairSpec
CONSTANTS
  j1 = j1
  j2 = j2
  None = None
  Jobs <- TwoJobs
  Images = 2
  Runs = 1
  Answers = {"valid", "odd", "unparsed", "down", "misshapen"}
  Crashes = TRUE
  FileErrors = TRUE
INVARIANTS
  CallsAreDue
  RepairsFollowRecord
  TextsIffExtracted
  CompletedIsLedgered
PROPERTIES
  LockReleased
CHECK_DEADLOCK FALSE

\* Two jobs, one of which waits for the provider with the lock.
SPECIFICATION Spec
CONSTANTS
  j1 = j1
  j2 = j2
  None = None
  Jobs <- TwoJobs
  Images = 2
  Runs = 1
  Answers = {"valid", "unparsed", "down"}
  Crashes = FALSE
  FileErrors = FALSE
INVARIANTS
  CallsLedgered
CHECK_DEADLOCK FALSE

\* One head, whose fixer reports a fix and pushes none.
CONSTANTS
  MaxHead = 1
  MaxAttempt = 4
  MaxFailures = 3
  Providers = 1
  ClaimWindow = TRUE
  OwnLooksHuman = FALSE
SPECIFICATION Spec
INVARIANTS MergeNeedsCleanVerdict
CHECK_DEADLOCK FALSE

\* A pull request with three heads: a first review and both rounds that may
\* follow its fixes, or pushes of other people in between.
CONSTANTS
  MaxHead = 3
  MaxAttempt = 3
  MaxFailures = 3
  Providers = 2
  ClaimWindow = TRUE
  OwnLooksHuman = FALSE
SPECIFICATION Spec
INVARIANTS TypeOK RepairBudget MergeIsReviewed
PROPERTIES HaltHolds
CHECK_DEADLOCK FALSE

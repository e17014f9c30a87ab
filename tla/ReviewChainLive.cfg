\* Three heads and no claim windows or fallback, with fair scheduling.
CONSTANTS
  MaxHead = 3
  MaxAttempt = 2
  MaxFailures = 2
  Providers = 1
  ClaimWindow = FALSE
  OwnLooksHuman = FALSE
SPECIFICATION FairSpec
PROPERTIES FixIsFollowedUp
CHECK_DEADLOCK FALSE

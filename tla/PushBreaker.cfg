SPECIFICATION FairSpec
CONSTANTS
    Calls = {c1, c2, c3}
    FAILURE_THRESHOLD = 3
    TIMEOUT_DURATION = 2
    HALF_OPEN_MAX_CALLS = 2
    MaxFailures = 4
INVARIANTS TypeOK FailuresMatchState HalfOpenProgress
PROPERTIES OpensOnConsecutiveFailures ProbesAfterSilence ClosesOnSuccesses Recovers
CHECK_DEADLOCK TRUE

\* Three attempts, each with a timer, under a RetryOnResponse.
\* A request that is over stays over: the deadlock check is off.
CONSTANTS
    MaxAttempts = 3
    HasRetryOnResponse = TRUE
SPECIFICATION FairSpec
CHECK_DEADLOCK FALSE
INVARIANTS
    TimeoutIsNotACancel
    StoppedTimerStaysOut
    ContextsReleased
PROPERTY AttemptEnds

\* Error responses that RetryOnResponse looks at.
\* A request that is over stays over: the deadlock check is off.
CONSTANTS
    NoResponse = NoResponse
    NumChannels = 1
    NumKeys = 1
    MaxAttempts = 2
    PoolChannels = {}
    ExemptChannels = {}
    Statuses = {200, 429}
    HasRetryOnResponse = TRUE
    RetryStatuses = {429}
    HasRetryOnError = TRUE
    LimitsKeys = TRUE
    HasBudget = TRUE
    HasClientTimeout = FALSE
    HasTransportTimeout = FALSE
    HasAttemptTimeout = FALSE
SPECIFICATION Spec
CHECK_DEADLOCK FALSE
INVARIANT NoSlotLeaks

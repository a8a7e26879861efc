\* A pool and a third-party channel under the defaults: no RetryOnResponse, no
\* RetryOnError.
\* A request that is over stays over: the deadlock check is off.
CONSTANTS
    NoResponse = NoResponse
    NumChannels = 2
    NumKeys = 2
    MaxAttempts = 2
    PoolChannels = {1}
    ExemptChannels = {}
    Statuses = {200, 302, 404, 429}
    HasRetryOnResponse = FALSE
    RetryStatuses = {}
    HasRetryOnError = FALSE
    LimitsKeys = TRUE
    HasBudget = TRUE
    HasClientTimeout = TRUE
    HasTransportTimeout = TRUE
    HasAttemptTimeout = TRUE
SPECIFICATION Spec
CHECK_DEADLOCK FALSE
INVARIANT DoneErrorAgrees

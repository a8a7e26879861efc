\* A pool, a third-party and a whitelisted channel with every retry configured.
\* A request that is over stays over: the deadlock check is off.
CONSTANTS
    NoResponse = NoResponse
    NumChannels = 3
    NumKeys = 2
    MaxAttempts = 2
    PoolChannels = {1}
    ExemptChannels = {3}
    Statuses = {200, 404, 429}
    HasRetryOnResponse = TRUE
    RetryStatuses = {429}
    HasRetryOnError = TRUE
    LimitsKeys = TRUE
    HasBudget = TRUE
    HasClientTimeout = FALSE
    HasTransportTimeout = FALSE
    HasAttemptTimeout = TRUE
SPECIFICATION Spec
CHECK_DEADLOCK FALSE
INVARIANTS
    CallsFollowProtocol
    ProbeResolved
    ProbeTriesKeyOnce
    PoolJudgedOnce

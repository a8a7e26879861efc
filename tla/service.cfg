\* One channel that is sick or flaky and one that is healthy, requests one after
\* another with two attempts each, another request per channel, one outage of
\* the store.
CONSTANTS
    NoResponse = NoResponse
    NoEntry = NoEntry
    NumChannels = 2
    NumKeys = 1
    MaxAttempts = 2
    PoolChannels = {}
    ExemptChannels = {}
    Statuses = {200, 500}
    HasRetryOnResponse = FALSE
    RetryStatuses = {}
    HasRetryOnError = TRUE
    LimitsKeys = FALSE
    HasBudget = FALSE
    HasClientTimeout = FALSE
    HasTransportTimeout = TRUE
    HasAttemptTimeout = TRUE
    MinSamples = 1
    ErrorNum = 1
    ErrorDen = 2
    SlowNum = 0
    SlowDen = 1
    FailureWindow = 1
    Cooldown = 1
    MaxCooldown = 2
    ProbeTimeout = 1
    MaxWindowSamples = 1
    Minute = 1
    OpenCountBound = 1
    MaxClock = 3
    Troubled = {1}
SPECIFICATION ServiceSpec
INVARIANTS
    HealthyChannelServes
    HalfOpenSlotAccounted
    SickChannelSpared

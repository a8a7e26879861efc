\* Time without end, and nothing assumed of the requests but where Recovers
\* says so.
CONSTANTS
    r1 = r1
    r2 = r2
    NoEntry = NoEntry
    Requests = {r1, r2}
    MinSamples = 1
    ErrorNum = 1
    ErrorDen = 1
    SlowNum = 0
    SlowDen = 1
    FailureWindow = 1
    Cooldown = 1
    MaxCooldown = 2
    ProbeTimeout = 2
    MaxWindowSamples = 1
    OpenCountBound = 1
    Minute = 1
    MaxClock = 4
    MaxLag = 1
    ExemptChoices = {FALSE}
    HooksMayPanic = TRUE
SPECIFICATION SpecTime
PROPERTIES
    BlockingEnds
    Recovers

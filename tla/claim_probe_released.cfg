\* A probe whose client goes away in mid-response.
CONSTANTS
    r1 = r1
    r2 = r2
    NoEntry = NoEntry
    Requests = {r1, r2}
    MinSamples = 2
    ErrorNum = 1
    ErrorDen = 2
    SlowNum = 0
    SlowDen = 1
    FailureWindow = 2
    Cooldown = 1
    MaxCooldown = 3
    ProbeTimeout = 2
    MaxWindowSamples = 3
    Minute = 1
    OpenCountBound = 2
    MaxClock = 6
    MaxLag = 0
    ExemptChoices = {FALSE}
    HooksMayPanic = FALSE
SPECIFICATION Spec
INVARIANT HalfOpenHasItsProbe

\* Two requests, a caller's clock up to one tick late, panicking hooks, requests
\* that find the channel whitelisted among others that do not, slow answers
\* that count, and a probe that may outlast every other deadline, so that the
\* entry's lifetime is the probe's.
CONSTANTS
    r1 = r1
    r2 = r2
    NoEntry = NoEntry
    Requests = {r1, r2}
    MinSamples = 2
    ErrorNum = 1
    ErrorDen = 2
    SlowNum = 1
    SlowDen = 1
    FailureWindow = 1
    Cooldown = 1
    MaxCooldown = 3
    ProbeTimeout = 4
    MaxWindowSamples = 2
    Minute = 1
    OpenCountBound = 2
    MaxClock = 4
    MaxLag = 1
    ExemptChoices = {TRUE, FALSE}
    HooksMayPanic = TRUE
SPECIFICATION Spec
SYMMETRY RequestSymmetry
INVARIANTS
    TypeOK
    HalfOpenCoherent
    BlockingBounded
    EntryOutlivesBlocking
PROPERTIES
    BackoffNeverShrinks
    RecentEventsKept
    SkippedWhileBlocked
    ImplementsGate

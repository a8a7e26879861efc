\* The pure functions, on every input within the bounds.
SPECIFICATION Spec
CONSTANTS
    MaxDuration = 127
    MaxTries = 10
    MaxKeys = 6
    MaxLatency = 2
    MaxEvents = 3
    MaxLatencies = 41
    MaxNameLength = 2
INVARIANTS
    DelaysGrowToTheCap
    KeysTakeTurns
    StatisticsAddUp
    ScopesApart
\* A question is asked once.
CHECK_DEADLOCK FALSE

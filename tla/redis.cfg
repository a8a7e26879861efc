CONSTANTS
    w1 = w1
    w2 = w2
    allow = allow
    succeed = succeed
    fail = fail
    cancel = cancel
    NoState = NoState
    Nobody = Nobody
    Stranger = Stranger
    Workers = {w1, w2}
    Ops <- MCOps
    States <- MCStates
    Update <- MCUpdate
    IdleStates = {"counting"}
SPECIFICATION FairSpec
INVARIANTS
    LockKept
PROPERTIES
    ImplementsCircuitStore
    UpdateEnds

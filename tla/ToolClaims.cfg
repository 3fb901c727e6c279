\* Two workers, a fail-closed and a replay-safe call, a crash or a stall.
CONSTANTS
    w1 = w1
    w2 = w2
    Workers = {w1, w2}
    safe = safe
    closed = closed
    Calls = {safe, closed}
    FailClosed = {closed}
    NoOne = NoOne
    TTL = 2
    MaxMishaps = 1
    MaxRetries = 1
SPECIFICATION FairSpec
INVARIANTS
    FailClosedOnce
    LastClaimRecorded
PROPERTIES
    EndedRunFrozen
    ImplementsLedger RunEnds

\* Two mishaps: the worker that took over stalls or dies as well, and both may
\* come back late.
CONSTANTS
    w1 = w1  w2 = w2
    Workers = {w1, w2}
    safe = safe  closed = closed
    Calls = {safe, closed}
    FailClosed = {closed}
    NoOne = NoOne
    TTL = 2
    MaxMishaps = 2
    MaxRetries = 0
SPECIFICATION Spec
SYMMETRY WorkerSymmetry
INVARIANTS TypeOK FailClosedOnce LedgerMatchesProjection LastClaimRecorded
PROPERTIES EndedRunFrozen

SPECIFICATION Spec
CONSTANT MaxBars = 2
CONSTANT PerBar = 2
CONSTANT Window = 2
CONSTANT DailyMax = 2
CONSTANT PauseOnReject = FALSE
CONSTANT MaxFaults = 1
CONSTANT MaxCrashes = 1
CONSTANT MaxPauses = 0
CONSTANT MaxTimeouts = 1
CONSTANT MaxEdits = 1
CONSTANT MaxRisk = 0
INVARIANT OrdersOnce
INVARIANT SignalsKept
INVARIANT QuotaKept
PROPERTY HistoryNotTraded
CHECK_DEADLOCK FALSE

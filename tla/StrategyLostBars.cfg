SPECIFICATION FairSpec
CONSTANT MaxBars = 4
CONSTANT PerBar = 1
CONSTANT Window = 2
CONSTANT DailyMax = 3
CONSTANT PauseOnReject = FALSE
CONSTANT MaxFaults = 0
CONSTANT MaxCrashes = 0
CONSTANT MaxPauses = 1
CONSTANT MaxTimeouts = 0
CONSTANT MaxEdits = 0
CONSTANT MaxRisk = 0
INVARIANT SignalsKept
CHECK_DEADLOCK FALSE

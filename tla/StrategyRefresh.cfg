SPECIFICATION FairSpec
CONSTANT MaxBars = 1
CONSTANT PerBar = 1
CONSTANT Window = 1
CONSTANT DailyMax = 1
CONSTANT PauseOnReject = FALSE
CONSTANT MaxFaults = 0
CONSTANT MaxCrashes = 0
CONSTANT MaxPauses = 1
CONSTANT MaxTimeouts = 0
CONSTANT MaxEdits = 1
CONSTANT MaxRisk = 0
INVARIANT ScopeCurrent
CHECK_DEADLOCK FALSE

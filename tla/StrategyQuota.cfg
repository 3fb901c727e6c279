SPECIFICATION FairSpec
CONSTANT MaxBars = 3
CONSTANT PerBar = 1
CONSTANT Window = 3
CONSTANT DailyMax = 1
CONSTANT PauseOnReject = FALSE
CONSTANT MaxFaults = 1
CONSTANT MaxCrashes = 0
CONSTANT MaxPauses = 0
CONSTANT MaxTimeouts = 0
CONSTANT MaxEdits = 0
CONSTANT MaxRisk = 0
INVARIANT BrokerWithinQuota
CHECK_DEADLOCK FALSE

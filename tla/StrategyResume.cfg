SPECIFICATION FairSpec
CONSTANT MaxBars = 1
CONSTANT PerBar = 1
CONSTANT Window = 1
CONSTANT DailyMax = 1
CONSTANT PauseOnReject = FALSE
CONSTANT MaxFaults = 0
CONSTANT MaxCrashes = 0
CONSTANT MaxPauses = 1
CONSTANT MaxTimeouts = 1
CONSTANT MaxEdits = 0
CONSTANT MaxRisk = 0
PROPERTY StartedRuns
CHECK_DEADLOCK FALSE

SPECIFICATION FairSpec
CONSTANT MaxBars = 2
CONSTANT PerBar = 2
CONSTANT Window = 2
CONSTANT DailyMax = 2
CONSTANT PauseOnReject = FALSE
CONSTANT MaxFaults = 0
CONSTANT MaxCrashes = 0
CONSTANT MaxPauses = 0
CONSTANT MaxTimeouts = 0
CONSTANT MaxEdits = 0
CONSTANT MaxRisk = 0
PROPERTY RefusedAtLimit
CHECK_DEADLOCK FALSE

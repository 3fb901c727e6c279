SPECIFICATION FairSpec
CONSTANT MaxBars = 2
CONSTANT PerBar = 1
CONSTANT Window = 2
CONSTANT DailyMax = 1
CONSTANT PauseOnReject = FALSE
CONSTANT MaxFaults = 0
CONSTANT MaxCrashes = 1
CONSTANT MaxPauses = 0
CONSTANT MaxTimeouts = 0
CONSTANT MaxEdits = 0
CONSTANT MaxRisk = 0
PROPERTY OwnSlot
CHECK_DEADLOCK FALSE

SPECIFICATION FairSpec
CONSTANT MaxBars = 2
CONSTANT PerBar = 1
CONSTANT Window = 2
CONSTANT DailyMax = 2
CONSTANT PauseOnReject = TRUE
CONSTANT MaxFaults = 1
CONSTANT MaxCrashes = 1
CONSTANT MaxPauses = 1
CONSTANT MaxTimeouts = 1
CONSTANT MaxEdits = 0
CONSTANT MaxRisk = 1
INVARIANT DemandMatches
INVARIANT StoppedMeansGone
PROPERTY OneTask
PROPERTY CaughtUp
CHECK_DEADLOCK FALSE

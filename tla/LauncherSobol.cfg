SPECIFICATION Spec
CONSTANTS
    NbGroups = 2
    BatchSize = 1
    Sobol = TRUE
    CancelRaises = {TRUE}
    CrashesBeforeRedraw = 1
    Faults = {"job_crash", "slow_data", "server_crash"}
    MaxJobCrashes = 1
    MaxTimeouts = 0
    MaxServerCrashes = 1
INVARIANTS TypeOK ReportsAreKept StopMeansCounted AbortMeansNoServer
CHECK_DEADLOCK FALSE

SPECIFICATION FairSpec
CONSTANTS
    NbGroups = 1
    BatchSize = 1
    Sobol = TRUE
    CancelRaises = {TRUE, FALSE}
    CrashesBeforeRedraw = 3
    Faults = {"job_crash", "timeout", "late_start", "server_crash", "old_checkpoint"}
    MaxJobCrashes = 1
    MaxTimeouts = 1
    MaxServerCrashes = 1
PROPERTIES NoSecondServer CompletesOrLosesServer
CHECK_DEADLOCK FALSE

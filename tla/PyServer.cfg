SPECIFICATION FairSpec
CONSTANTS
    NbProcServer = 2
    NbSamples = 2
    Fields = {"heat1"}
    NbTimeSteps = 2
    Learning = 2
    Faults = {"silence", "lost_text", "give_up"}
    MaxLaunches = 1
    MaxFaults = 1
INVARIANTS TypeOK ReturnedOnce StopMeansReturned FinishedReported
PROPERTY Termination
CHECK_DEADLOCK FALSE

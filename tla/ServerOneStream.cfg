SPECIFICATION Spec
CONSTANTS
    s1 = s1
    s2 = s2
    a = a
    b = b
    Simulations = {s1, s2}
    Ranks <- OneRank
    Root = 0
    Streams = {a}
    RankOf <- OneStream
    EmptyStreams = {}
    NbTimeSteps = 2
    Faults = {"crash", "crash_in_save"}
    MaxCrashes = 2
    MaxLaunches = 1
SYMMETRY Symmetry
INVARIANTS ToldMeansCollected FinishedCount
PROPERTIES CheckpointsKeepStatistics FinishedIsFinal KeepsPromise
CHECK_DEADLOCK FALSE

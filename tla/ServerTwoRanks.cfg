SPECIFICATION FairSpec
CONSTANTS
    s1 = s1
    s2 = s2
    a = a
    b = b
    Simulations = {s1, s2}
    Ranks <- TwoRanks
    Root = 0
    Streams = {a, b}
    RankOf <- StreamPerRank
    EmptyStreams = {}
    NbTimeSteps = 1
    Faults = {"crash", "crash_in_save"}
    MaxCrashes = 1
    MaxLaunches = 1
INVARIANTS StopMeansComplete
PROPERTIES Termination
CHECK_DEADLOCK FALSE

SPECIFICATION Spec
CONSTANTS
    s1 = s1
    s2 = s2
    a = a
    b = b
    Simulations = {s1, s2}
    Ranks <- OneRank
    Root = 0
    Streams = {a, b}
    RankOf <- TwoStreams
    EmptyStreams = {}
    NbTimeSteps = 1
    Faults = {"crash"}
    MaxCrashes = 1
    MaxLaunches = 1
SYMMETRY Symmetry
PROPERTIES CheckpointsKeepStatistics
CHECK_DEADLOCK FALSE

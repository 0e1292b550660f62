SPECIFICATION Spec
CONSTANTS
    s1 = s1
    s2 = s2
    a = a
    b = b
    Simulations = {s1, s2}
    Ranks <- OneRank
    Root = 0
    Streams = {a, b}
    RankOf <- TwoStreams
    EmptyStreams = {}
    NbTimeSteps = 1
    Faults = {}
    MaxCrashes = 0
    MaxLaunches = 1
SYMMETRY Symmetry
INVARIANTS StopMeansComplete
CHECK_DEADLOCK FALSE

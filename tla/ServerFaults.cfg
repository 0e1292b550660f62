SPECIFICATION Spec
CONSTANTS
    s1 = s1
    s2 = s2
    a = a
    b = b
    Simulations = {s1}
    Ranks <- OneRank
    Root = 0
    Streams = {a, b}
    RankOf <- TwoStreams
    EmptyStreams = {b}
    NbTimeSteps = 2
    Faults = {"crash", "early_crash", "crash_in_save", "late_crash", "drop", "drop_finished", "late_data", "lost_text", "launcher_death", "signal"}
    MaxCrashes = 2
    MaxLaunches = 1
INVARIANTS TypeOK AtMostOnce BitsAreContributions
CHECK_DEADLOCK FALSE

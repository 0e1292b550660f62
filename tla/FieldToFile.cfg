SPECIFICATION OutputSpec
CONSTANTS
    MaxClients = 3
    MaxServers = 3
    PartSizes = {1, 2, 4}
    Modes = {0, 1, 2}
    NbSteps = 3
    Samples = {1}
    Loops <- MCLoops
INVARIANTS TypeOK FieldIsWhole OneMessagePerStep PushersMatch EachServerLearns OutputTypeOK FilesAreWhole OneStatisticWaits NobodyLeavesEarly EveryMessageIsAwaited
CHECK_DEADLOCK FALSE

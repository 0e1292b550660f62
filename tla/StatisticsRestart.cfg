SPECIFICATION Spec
CONSTANTS
    CommandLines <- VarianceCommandLines
    Value <- MCValue
    Thresholds <- MCThresholds
    MaxCrashes = 2
CHECK_DEADLOCK FALSE
INVARIANTS VarianceIsWritten

SPECIFICATION Spec
CONSTANTS
    CommandLines <- SobolCommandLines
    Value <- MCValue
    Thresholds <- MCThresholds
    MaxCrashes = 2
CHECK_DEADLOCK FALSE
INVARIANTS SobolIsMartinez

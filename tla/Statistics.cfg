SPECIFICATION Spec
CONSTANTS
    CommandLines <- MCCommandLines
    Value <- MCValue
    Thresholds <- MCThresholds
    MaxCrashes = 2
INVARIANTS TypeOK SamplesCounted MomentsAreBatch ThetasFollow ExtremesAreReached ExceedancesCounted QuantileGain SobolVariances ResultsOfAll
CHECK_DEADLOCK FALSE

CONSTANTS
    MaxHead = 4
    MaxTime = 6
    kTxGas = 3
    kGasCap = 10
    MaxGas = 12
    Word = 8
    Prices = {1, 2, 3, 9}
    MaxTxs = 2
    kDefaultMinPrice = 2
    kDefaultMaxPrice = 5
    kSamples = 1
    kMaxSamples = 3
    kPercentile = 60
SPECIFICATION Spec
INVARIANTS
    TimestampFound
    EstimateExact
    PriceFromSamples
PROPERTY SearchesEnd
CHECK_DEADLOCK FALSE

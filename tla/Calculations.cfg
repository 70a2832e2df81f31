SPECIFICATION CalculationsSpec
CONSTANTS
    Bound = 3
    RetryBase = 5
    RetryMax = 300
    MaxRetries = 12
INVARIANTS
    NeededIsLargest
    DelayDoublesToCap

SPECIFICATION FairSpec
CONSTANTS
    MaxLedger = 9
    FirstLedgers = {1, 6}
    Lifetime = 3
    RecordedFee = 1
    SignatureFee = 3
    FeePadding = 1
    Requested = {0, 3}
    Bounds = {2}
    MaxAttempts = 2
    LastLedger = 8
INVARIANTS
    SentFitToLand
    RetryLandsOnce
    SentAreKnown
PROPERTY
    CallReturns
\* A caller that has made its calls stops, and LastLedger ends the network's run.
CHECK_DEADLOCK FALSE

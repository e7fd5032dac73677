CONSTANTS
    SubBits = 2
    TopBuckets = 4
    Types = {"A", "D"}
    Cycles <- EdgeCycles
    Percentiles <- Tails
    MaxSamples = 4
SPECIFICATION Spec
INVARIANTS
    SumAccountsForEveryMessage
    PercentilesAreWithinHalfABucket
    ReportAgreesWithTheSummary

CONSTANTS
    OrderCapacity = 3
    LevelCapacity = 1
    MaxLocates = 1
    MaxOrderRef = 3
    VolumeModulus = 4
    FeedRefs = {0, 1, 2}
    FeedLocates = {0}
    Sides = {"B"}
    Prices = {1}
    Shares = {1, 2}
    Stocks = {"s"}
SPECIFICATION Spec
INVARIANTS
    ListsWellFormed
    VolumeIsSumOfShares
PROPERTY
    ImplementsOrderBook

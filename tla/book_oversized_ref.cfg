CONSTANTS
    OrderCapacity = 2
    LevelCapacity = 2
    MaxLocates = 1
    MaxOrderRef = 2
    VolumeModulus = 4
    FeedRefs = {0, 1, 2}
    FeedLocates = {0}
    Sides = {"B"}
    Prices = {1, 2}
    Shares = {1, 3}
    Stocks = {"s"}
SPECIFICATION Spec
INVARIANT OversizedRefIsRecorded

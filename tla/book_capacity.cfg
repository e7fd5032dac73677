CONSTANTS
    OrderCapacity = 2
    LevelCapacity = 2
    MaxLocates = 1
    MaxOrderRef = 3
    VolumeModulus = 4
    FeedRefs = {0, 1, 2}
    FeedLocates = {0, 2}
    Sides = {B, S}
    Prices = {low, high}
    Shares = {1}
    Stocks = {"s"}
SPECIFICATION Spec
SYMMETRY FeedSymmetry
INVARIANT
    PoolsPartition
PROPERTY
    ImplementsOrderBook

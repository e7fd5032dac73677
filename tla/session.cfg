CONSTANTS
    MaxPacketSize = 6
    HeaderSize = 1
    PrefixSize = 1
    EndOfSessionCount = 6
    Lengths = {1, 2, 3}
    MaxMessages = 4
    EndOfSessionRepeats = 2
    OrderCapacity = 2
    LevelCapacity = 2
    MaxLocates = 1
    MaxOrderRef = 2
    VolumeModulus = 4
    FeedRefs = {0, 1}
    FeedLocates = {0, 1}
    Sides = {"B", "S"}
    Prices = {1, 2}
    Shares = {1, 2}
    Stocks = {"s"}
    Feed <- MCFeed
    LengthOf <- MCLengthOf
    WarmupMessages = 1
    MaxFaults = 2
SPECIFICATION SessionSpec
INVARIANTS
    OnlineBookIsTheReplayedBook
    DropRatesAreTheNetworks
    OrdersAreTheFeeds
    AnEndIsOnItsWay

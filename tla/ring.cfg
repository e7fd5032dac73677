CONSTANTS
    Items = {a, b}
    Blank = Blank
    Capacity = 4
    MaxItems = 6
SPECIFICATION FairSpec
INVARIANTS
    RingTypeOK
    ClaimedSlotsArePrivate
    NoDataRace
    RunStaysInArray
    DepthInRange
PROPERTIES
    ImplementsFIFO
    EveryItemIsRead

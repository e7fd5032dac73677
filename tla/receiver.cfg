CONSTANTS
    data = data
    heartbeat = heartbeat
    runt = runt
    eos = eos
    Blank = Blank
    Items <- AllPackets
    Runts <- RuntPackets
    EndOfSession <- EndOfSessionPackets
    MessageCount <- TwoMessages
    Capacity = 2
    RecvBatch = 2
    SocketCapacity = 2
    MaxArrivals = 3
SPECIFICATION FairSpec
INVARIANTS
    EveryPacketInItsPlace
    ReportedCountsAddUp
    StallsAndDepthAgree
    OkRunsReachTheEnd
PROPERTIES
    UsesTheRingAsAllowed
    EndOfSessionEndsTheRun
    OneStoppedThreadStopsBoth

CONSTANTS
    data = data
    heartbeat = heartbeat
    runt = runt
    eos = eos
    Blank = Blank
    Items <- NoHeartbeat
    Runts <- RuntPackets
    EndOfSession <- EndOfSessionPackets
    MessageCount <- OneMessage
    Capacity = 2
    RecvBatch = 2
    SocketCapacity = 1
    MaxArrivals = 2
SPECIFICATION Spec
INVARIANT ElapsedRunsForwards

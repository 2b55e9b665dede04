CONSTANTS
    Sectors = 2
    SectorWords = 2
    CountMod = 2
    Plans <- SomePlans
    MaxTime = 2
    MaxStale = 1
    Blocks = 2
    BlockPages = 2
    TagPages = 1
    Images <- SomeImages
    Patterns <- SomePatterns
    Routes = {"xfer", "dio", "port"}
    MaxOps = 2
    MaxErrors = 1
    NeStart = 3
    NeStop = 7
    NeTx = 1
    NePages = 8
    NeBatch = 2
    ElFrames = 2
    ElFifo = 4
    ElBatch = 2
    ElStatus = 2
    XiBuffers = 4
    XiQueue = 2
    XiFidFirst = 1
    XiFidLimit = 6
    XiBatch = 2
    WlQueue = 2
    Traffic <- NetworkTraffic
    MaxFrames <- NetworkFrames
    MaxConfig <- NetworkChanges
SPECIFICATION MediaSpec
INVARIANTS TransferInOrder CommittedIsKept NandAsCommanded ReadsDeliver FramesInOrder Announced SecureBeforeData
CHECK_DEADLOCK FALSE

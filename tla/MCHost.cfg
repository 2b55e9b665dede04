CONSTANTS
    Byte = {85, 1}
    IdleByte = 85
    GuestFifo = 2
    PreopenCap = 2
    RxCap = 4
    TxCap = 2
    PaceBacklog = 3
    Backlog = 2
    Kinds = {"tcp_listen", "tcp_connect", "pty"}
    ImmediateRedial = FALSE
    Modes <- SomeModes
    ClusterCount = 16
    ClusterCells = 3
    DirSlots = 5
    RootSlots = 8
    Spelling <- Names
    Packages <- SomePackages
    Sets <- SomeSets
    FactoryVolume <- Factory
    Picks <- SomePicks
    MaxGuest = 1
    CardSizes <- AllSizes
    VmNames = {"a", "b"}
    Images = {"nand", "cf0"}
    OwnSource = FALSE
    MaxFailures = 1
SPECIFICATION HostSpec
INVARIANTS WakeNotLost NamesOwnImages
PROPERTIES InIsStream OutIsStream VolumesSound InstallAtomic
CHECK_DEADLOCK FALSE

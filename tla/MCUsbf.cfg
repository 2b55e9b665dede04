CONSTANTS
    Byte = {1, 2}
    MaxPacket = 2
    OutSlots = 2
    InSlots = 2
    SetupLen = 2
    TopEnChoices <- TopEnOffOn
    MaskChoices <- Unmask
    KeepChoices <- KeepSetup
    Workloads <- Mixes
    N = 3
    W = 16
    Id = {1, 2}
    Lens = {3}
    PathPacket = 2
    PathSlots = 2
SPECIFICATION MCSpec
INVARIANTS IrqLineCurrent NothingLeftWhenDetached AnsweredOnce
PROPERTIES EndpointsArePipes PathIsPipe
CHECK_DEADLOCK FALSE

CONSTANTS
    Byte = {1}
    MaxPacket = 2
    OutSlots = 1
    InSlots = 1
    SetupLen = 1
    Kinds = {"tcp_listen", "tcp_connect"}
    ImmediateRedial = FALSE
    QueueLen = 1
    Scenarios <- FailingOffer
SPECIFICATION Spec
INVARIANT ConnectedMeansOffered
CHECK_DEADLOCK FALSE

CONSTANTS
    Byte = {1}
    MaxPacket = 2
    OutSlots = 1
    InSlots = 1
    SetupLen = 1
    Kinds = {"tcp_connect", "unix_connect", "tcp_listen", "unix_listen", "pty"}
    ImmediateRedial = FALSE
    QueueLen = 1
    Scenarios <- Progress
SPECIFICATION LiveSpec
INVARIANT NewPeerIsUsable
PROPERTIES Redials EventuallyOffered RequestsAnswered
CHECK_DEADLOCK FALSE

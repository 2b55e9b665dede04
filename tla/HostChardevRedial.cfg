CONSTANTS
    Kinds = {"unix_connect"}
    ImmediateRedial = TRUE
SPECIFICATION OwnerSpec
INVARIANT ReportedOncePerPeer
CHECK_DEADLOCK FALSE

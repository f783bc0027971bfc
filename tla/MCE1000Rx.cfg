SPECIFICATION Spec
CONSTANTS
    Causes <- MCCauses
    FLAG_MIT = FALSE
    FLAG_AUTONEG = TRUE
    N = 3
    RctlValues <- MCRctlValues
    Frames <- MCFrames
    Nulls <- MCNulls
    LinkChanges = TRUE
    W = 9
    nq_maxlen = 2
    MaxFrames = 3
INVARIANTS DriverSeesAccepted DeviceStaysBehindTail NoLostReceive ReceiveStatisticsExact
PROPERTIES FlushedByDriver
CONSTRAINT MCNotOverrun

SPECIFICATION Spec
CONSTANTS
    Causes <- MCCauses
    FLAG_MIT = FALSE
    N = 4
    Kinds <- MCKinds
    VME = TRUE
    MigrateOpen = FALSE
    W = 4
    MaxPackets = 3
INVARIANTS PayloadPreserved SegmentsWellFormed OffloadsOwn DoneIsOnWire NoLostTransmit StatisticsExact

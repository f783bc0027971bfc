SPECIFICATION Spec
CONSTANTS
    NSlots = 2
    Names <- MCNames
    DiscNames <- MCDiscNames
    MAX_DEV_SNAPSHOTS = 1
    Placement <- MCPlacement
    MaxDevices = 3
INVARIANTS SnapshotIsInit WiredAsConfigured
PROPERTIES FlipToInit

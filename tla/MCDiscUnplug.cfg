SPECIFICATION Spec
CONSTANTS
    NSlots = 2
    Names <- MCNames
    DiscNames <- MCDiscNames
    MAX_DEV_SNAPSHOTS = 1
    Placement <- MCPlacement
    MaxDevices = 2
INVARIANTS RemovalAnnounced

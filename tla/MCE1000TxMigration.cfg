SPECIFICATION Spec
CONSTANTS
    Causes <- MCCauses
    FLAG_MIT = FALSE
    N = 4
    Kinds <- MCReuse
    VME = TRUE
    MigrateOpen = TRUE
    W = 4
    MaxPackets = 2
INVARIANTS PayloadPreserved

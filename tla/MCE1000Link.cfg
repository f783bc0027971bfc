SPECIFICATION FairSpec
CONSTANTS
    Causes <- MCCauses
    FLAG_MIT = TRUE
    FLAG_AUTONEG = TRUE
INVARIANTS LinkBitsAgree AdminDownHolds DownOnlyWhileNegotiating
PROPERTIES MigrationKeepsDown LinkComesBack

SPECIFICATION Spec
CONSTANTS
    A = 3
    WordBits = 4
    W = 5
    Template <- MCTemplate
    Mac <- MCMac
    EEPROM_SUM = 11
INVARIANTS ReadsWord

SPECIFICATION FairSpec
CONSTANTS
    Causes <- MCCauses
    FLAG_MIT = TRUE
    ItrValues <- MCItrValues
    DelayValues <- MCDelayValues
INVARIANTS TypeOK IcsMirrorsIcr NoLostInterrupt LevelTracksPin
PROPERTIES Throttled LineSafety LineDelivery

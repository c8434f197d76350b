CONSTANTS
    disk1 = disk1
    disk2 = disk2
    White = White
    LedMap <- MCLedMap
    HashOrder <- MCHashOrder
    Health <- MCHealth
    Standby = Standby
    Fail = Fail
    Black = Black
    Loops = {"smart", "zpool", "online"}
    Unsteady = {disk1}
    MaxEvents = 1
    MaxFaults = 1
SPECIFICATION FairSpec
INVARIANTS
    TypeOK
    ColorFollowsStandby
PROPERTIES
    LastingFailureShown
    SleepShown

\* The unit's command line; nothing fails, and one daemon is killed.
CONSTANTS
    Ifaces = {"eth0"}
    TooLong = "a-name-of-16-byte"
    NoName = ""
    Files <- UnitFiles
    ArgLists <- UnitArgLists
    Foreign = {}
    MaxFaults = 0
    MaxKills = 1
SPECIFICATION FairSpec
PROPERTIES
    KilledRestarts

\* Files and command lines of up to two settings, one interface, one call that
\* fails, one kill, any filters of others before the first start.
CONSTANTS
    Ifaces = {"eth0"}
    TooLong = "a-name-of-16-byte"
    NoName = ""
    Files <- MCFiles
    ArgLists <- MCArgLists
    Foreign <- MCForeign
    MaxFaults = 1
    MaxKills = 1
SPECIFICATION FairSpec
INVARIANTS
    TypeOK
    AcceptedSane
    OptionsOverride
    StoppedClean
    PowerShown
PROPERTIES
    ForeignKept
    FailureRetried

\* Two bays and two disks: one deadline can hide another, a disk can take the
\* other's bay. One failing command, two disks that come or go, any
\* number of kills, orderly stops and restarts.
CONSTANTS
    Bays <- MCBays
    Devs = {sda, sdb}
    NoDev = NoDev
    Never = Never
    Invert = TRUE
    BySerial = FALSE
    Hold = 1
    RingSize = 1
    MaxFaults = 1
    MaxPlugs = 2
SPECIFICATION FairSpec
INVARIANTS
    TypeOK
    TimerCovers
    ActiveBlinks
    BayShowsState
    QuiescentSynced
PROPERTIES
    StoppedSteady
    Settles
    Stops

\* One command fails for good, all others succeed; no disk comes or goes.
CONSTANTS
    Bays <- MCBays
    Devs = {sda, sdb}
    NoDev = NoDev
    Never = Never
    Invert = TRUE
    BySerial = FALSE
    Hold = 1
    RingSize = 1
    MaxFaults = 1
    MaxPlugs = 0
SPECIFICATION FairSpec
PROPERTIES
    ReturnsSteady

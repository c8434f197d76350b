\* Four packets on two CPUs can fill a ring of two records, overtake each
\* other between the unlock and the ring, and arrive during a pulse.
CONSTANTS
    Cpus = {c1, c2}
    Interval = 1
    PulseTicks = 1
    RingSize = 2
    MaxPackets = 4
    MaxFaults = 1
SPECIFICATION FairSpec
INVARIANTS
    TypeOK
    Conserved
    LitHasTimer
    DarkWhenIdle
PROPERTIES
    PulseEnds
    PendingShown

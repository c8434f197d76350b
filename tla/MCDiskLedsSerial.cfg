\* Slots are found by the serial in udev's database; one disk is plugged in
\* or pulled, nothing fails.
CONSTANTS
    Bays <- MCBays
    Devs = {sda, sdb}
    NoDev = NoDev
    Never = Never
    Invert = TRUE
    BySerial = TRUE
    Hold = 1
    RingSize = 1
    MaxFaults = 0
    MaxPlugs = 1
SPECIFICATION Spec
SYMMETRY Symmetry
INVARIANTS
    QuiescentSynced

\* Two LEDs, two registers, two valid values and an invalid one, and three
\* attempts of the five: the first, a middle and the last one.
CONSTANTS
    Leds = {l1, l2}
    Regs <- MCRegs
    Vals <- MCVals
    Invalid <- MCInvalid
    Unknown = Unknown
    RetryCount = 3
SPECIFICATION FairSpec
INVARIANTS
    TypeOK
    CacheCoherent
PROPERTIES
    Implements
    CallReturns

\* Shares are multiples of a sixth: even D, so that ties occur.
CONSTANTS
    D = 6
    MaxSamples = 12
SPECIFICATION SchedulerSpec
INVARIANTS
    FairShare
PROPERTIES
    NotPinned
\* The samples are bounded.
CHECK_DEADLOCK FALSE

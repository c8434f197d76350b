\* Three LEDs of which the MCU has two; command lines of up to three names and
\* three operations, two attempts, three reads or writes that fail.
CONSTANTS
    AllLeds <- MCAllLeds
    Fitted = {"disk1", "disk2"}
    NameLists <- MCNameLists
    OpLists <- MCOpLists
    Values = {0, 1}
    RetryCount = 2
    MaxFaults = 3
SPECIFICATION FairSpec
INVARIANTS
    Reported
PROPERTIES
    Ends
\* The process ends.
CHECK_DEADLOCK FALSE

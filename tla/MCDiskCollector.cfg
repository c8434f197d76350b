\* Two CPUs race for one device while another may take over its cell, and a
\* program may find its cell in one life and win the swap in the next; the
\* clock lets a CPU be delayed by a whole interval after it read the clock.
CONSTANTS
    Cpus = {c1, c2}
    Devs = {sda, sdb}
    Cells = {x1, x2}
    Free = Free
    Interval = 2
    MaxClock = 3
    MaxSyncs = 2
    MaxEvents = 2
SPECIFICATION Spec
SYMMETRY Symmetry
INVARIANTS
    TypeOK
    TargetHasState
    Spaced
PROPERTIES
    Noticed
\* Refills and time are bounded, so the system stops.
CHECK_DEADLOCK FALSE

--------------------------- MODULE DiskCollector ---------------------------
(***************************************************************************)
(* ebpf/bpf/disk.bpf.c, the program that runs on every CPU that issues a   *)
(* block request, against the two hash maps it reads, while the daemon     *)
(* refills these maps (disk_leds_sync_bpf and the bpf_runtime functions it *)
(* calls).  Nothing locks the maps: a program may hold a pointer into an   *)
(* element that is deleted and given to another device under it.           *)
(*                                                                         *)
(* Each program does one access to shared memory per step.  A map is a set *)
(* of preallocated cells, as the kernel's hash maps are: a delete frees    *)
(* the cell and leaves its contents, an insert writes a free cell whole.   *)
(* What an event carries and the ring it is put in are in DiskLeds.        *)
(***************************************************************************)
EXTENDS Integers, FiniteSets, Sequences

CONSTANTS Cpus,      \* CPUs that issue block requests
          Devs,      \* device numbers
          Cells,     \* preallocated elements of each map (8 in the code)
          Free,      \* the key of a cell that is in no bucket
          Interval,  \* disk_interval_ns
          MaxClock,  \* bound of the model on the clock
          MaxSyncs,  \* bound of the model on the refills of the maps
          MaxEvents  \* bound of the model: no more requests for a device
                     \* that has sent as many events

ASSUME IntervalAssumption == Interval \in Nat \ {0}
ASSUME FreeAssumption == Free \notin Devs
ASSUME BoundAssumption ==
    MaxClock \in Nat \ {0} /\ MaxSyncs \in Nat /\ MaxEvents \in Nat

VARIABLES clock,    \* bpf_ktime_get_ns, never 0
          targets,  \* keys of the cells of disk_targets
          states,   \* keys of the cells of disk_states
          next,     \* next_emit_ns in the cells of disk_states
          run,      \* per CPU, the program it runs and its local variables
          sync,     \* where disk_leds_sync_bpf is
          todo,     \* devices it has still to enter
          syncs,    \* refills so far
          sent,     \* history: per event.source, its events in order
          given     \* history: per cell of disk_states, whom it was given to

vars == <<clock, targets, states, next, run, sync, todo, syncs, sent, given>>

(* An element of disk_states is a cell from one insert to the next: cell x *)
(* is in its life Len(given[x]).  cell: where state points to; found:      *)
(* history, the life of the cell at the lookup.                            *)
Idle == [pc |-> "idle", dev |-> Free, cell |-> Free, found |-> 0,
         now |-> 0, old |-> 0]

Run == [pc : {"idle", "lookup", "clock", "read", "swap"},
        dev : Devs \cup {Free}, cell : Cells \cup {Free}, found : Nat,
        now : Nat, old : Nat]

(* at: event.timestamp_ns; won: history, when the swap was won, by a       *)
(* program that found the cell in life `found', in its life `into'.        *)
Event == [at : Nat, won : Nat, cell : Cells, found : Nat, into : Nat]

Keys(map) == {map[x] : x \in Cells} \ {Free}

Init ==
    /\ clock = 1
    /\ targets = [x \in Cells |-> Free]
    /\ states = [x \in Cells |-> Free]
    /\ next = [x \in Cells |-> 0]
    /\ run = [c \in Cpus |-> Idle]
    /\ sync = "idle"
    /\ todo = {}
    /\ syncs = 0
    /\ sent = [d \in Devs |-> <<>>]
    /\ given = [x \in Cells |-> <<>>]

-----------------------------------------------------------------------------
(* ugreen_disk_issue                                                       *)

(* A request for device d; the program returns at once if d is no target.  *)
Issue(c, d) ==
    /\ run[c].pc = "idle"
    /\ d \in Keys(targets)
    /\ Len(sent[d]) < MaxEvents
    /\ run' = [run EXCEPT ![c] = [Idle EXCEPT !.pc = "lookup", !.dev = d]]
    /\ UNCHANGED <<clock, targets, states, next, sync, todo, syncs, sent, given>>

BugStateNotTested(c) ==
    /\ run[c].pc = "lookup"
    /\ \/ \E x \in Cells :
            /\ states[x] = run[c].dev
            /\ run' = [run EXCEPT ![c].pc = "clock", ![c].cell = x,
                                  ![c].found = Len(given[x])]
       \/ /\ run[c].dev \notin Keys(states)
          /\ run' = [run EXCEPT ![c].pc = "clock"]
    /\ UNCHANGED <<clock, targets, states, next, sync, todo, syncs, sent, given>>

LookupState(c) ==
    /\ run[c].pc = "lookup"
    /\ \/ \E x \in Cells :
            /\ states[x] = run[c].dev
            /\ run' = [run EXCEPT ![c].pc = "clock", ![c].cell = x,
                                  ![c].found = Len(given[x])]
       \/ /\ run[c].dev \notin Keys(states)
          /\ run' = [run EXCEPT ![c] = Idle]
    /\ UNCHANGED <<clock, targets, states, next, sync, todo, syncs, sent, given>>

ReadClock(c) ==
    /\ run[c].pc = "clock"
    /\ run' = [run EXCEPT ![c].pc = "read", ![c].now = clock]
    /\ UNCHANGED <<clock, targets, states, next, sync, todo, syncs, sent, given>>

(* The deadline, wherever the pointer leads by now.                        *)
ReadDeadline(c) ==
    LET old == next[run[c].cell] IN
    /\ run[c].pc = "read"
    /\ run' = [run EXCEPT ![c] =
                 IF old = 0 \/ run[c].now >= old
                 THEN [@ EXCEPT !.pc = "swap", !.old = old]
                 ELSE Idle]
    /\ UNCHANGED <<clock, targets, states, next, sync, todo, syncs, sent, given>>

(* The event of the program on CPU c, named by the device it was started   *)
(* for, whoever has the element by now.                                    *)
Send(c) ==
    sent' = [sent EXCEPT ![run[c].dev] =
               Append(@, [at |-> run[c].now, won |-> clock,
                          cell |-> run[c].cell, found |-> run[c].found,
                          into |-> Len(given[run[c].cell])])]

BugSwapStores(c) ==
    /\ run[c].pc = "swap"
    /\ next' = [next EXCEPT ![run[c].cell] = run[c].now + Interval]
    /\ Send(c)
    /\ run' = [run EXCEPT ![c] = Idle]
    /\ UNCHANGED <<clock, targets, states, sync, todo, syncs, given>>

BugSwapPostpones(c) ==
    /\ run[c].pc = "swap"
    /\ IF next[run[c].cell] = run[c].old THEN Send(c) ELSE UNCHANGED sent
    /\ next' = [next EXCEPT ![run[c].cell] = @ + Interval]
    /\ run' = [run EXCEPT ![c] = Idle]
    /\ UNCHANGED <<clock, targets, states, sync, todo, syncs, given>>

(* The compare-and-swap; the CPU that wins it sends the event.             *)
Swap(c) ==
    /\ run[c].pc = "swap"
    /\ IF next[run[c].cell] = run[c].old
       THEN /\ next' = [next EXCEPT ![run[c].cell] = run[c].now + Interval]
            /\ Send(c)
       ELSE UNCHANGED <<next, sent>>
    /\ run' = [run EXCEPT ![c] = Idle]
    /\ UNCHANGED <<clock, targets, states, sync, todo, syncs, given>>

Program(c) ==
    \/ \E d \in Devs : Issue(c, d)
    \/ LookupState(c)
    \/ ReadClock(c)
    \/ ReadDeadline(c)
    \/ Swap(c)

-----------------------------------------------------------------------------
(* disk_leds_sync_bpf, in the daemon; present: the devices of the slots.   *)

SyncStarts(present) ==
    /\ sync = "idle"
    /\ syncs < MaxSyncs
    /\ Cardinality(present) <= Cardinality(Cells)
    /\ sync' = "clear"
    /\ todo' = present
    /\ syncs' = syncs + 1
    /\ UNCHANGED <<clock, targets, states, next, run, sent, given>>

BugClearsStatesFirst ==
    /\ sync = "clear"
    /\ IF Keys(states) # {}
       THEN /\ \E x \in Cells :
                 /\ states[x] # Free
                 /\ states' = [states EXCEPT ![x] = Free]
            /\ UNCHANGED <<targets, sync>>
       ELSE IF Keys(targets) # {}
       THEN /\ \E x \in Cells :
                 /\ targets[x] # Free
                 /\ targets' = [targets EXCEPT ![x] = Free]
            /\ UNCHANGED <<states, sync>>
       ELSE sync' = "enter" /\ UNCHANGED <<targets, states>>
    /\ UNCHANGED <<clock, next, run, todo, syncs, sent, given>>

(* clear_map, on disk_targets and then on disk_states: one key at a time,  *)
(* until there is none.                                                    *)
Clear ==
    /\ sync = "clear"
    /\ IF Keys(targets) # {}
       THEN /\ \E x \in Cells :
                 /\ targets[x] # Free
                 /\ targets' = [targets EXCEPT ![x] = Free]
            /\ UNCHANGED <<states, sync>>
       ELSE IF Keys(states) # {}
       THEN /\ \E x \in Cells :
                 /\ states[x] # Free
                 /\ states' = [states EXCEPT ![x] = Free]
            /\ UNCHANGED <<targets, sync>>
       ELSE sync' = "enter" /\ UNCHANGED <<targets, states>>
    /\ UNCHANGED <<clock, next, run, todo, syncs, sent, given>>

(* bpf_runtime_set_disk_target: the state first, reset, ...                *)
EnterState(d) ==
    /\ sync = "enter"
    /\ d \in todo
    /\ \E x \in Cells :
         /\ states[x] = Free
         /\ states' = [states EXCEPT ![x] = d]
         /\ next' = [next EXCEPT ![x] = 0]
         /\ given' = [given EXCEPT ![x] = Append(@, d)]
    /\ sync' = "target"
    /\ UNCHANGED <<clock, targets, run, todo, syncs, sent>>

(* ... then the target.                                                    *)
EnterTarget(d) ==
    /\ sync = "target"
    /\ d \in todo \cap Keys(states)
    /\ \E x \in Cells :
         /\ targets[x] = Free
         /\ targets' = [targets EXCEPT ![x] = d]
    /\ sync' = "enter"
    /\ todo' = todo \ {d}
    /\ UNCHANGED <<clock, states, next, run, syncs, sent, given>>

(* The kernel refuses the target: the state is taken back, the daemon ends.*)
EnterFails(d) ==
    /\ sync = "target"
    /\ d \in todo \cap Keys(states)
    /\ states' = [x \in Cells |-> IF states[x] = d THEN Free ELSE states[x]]
    /\ sync' = "failed"
    /\ UNCHANGED <<clock, targets, next, run, todo, syncs, sent, given>>

SyncEnds ==
    /\ sync = "enter"
    /\ todo = {}
    /\ sync' = "idle"
    /\ UNCHANGED <<clock, targets, states, next, run, todo, syncs, sent, given>>

Sync ==
    \/ \E present \in SUBSET Devs : SyncStarts(present)
    \/ Clear
    \/ \E d \in Devs : EnterState(d) \/ EnterTarget(d) \/ EnterFails(d)
    \/ SyncEnds

Tick ==
    /\ clock < MaxClock
    /\ clock' = clock + 1
    /\ UNCHANGED <<targets, states, next, run, sync, todo, syncs, sent, given>>

Next ==
    \/ \E c \in Cpus : Program(c)
    \/ Sync
    \/ Tick

Spec == Init /\ [][Next]_vars

-----------------------------------------------------------------------------
(* Every variable has its type; a program has a device and, past its       *)
(* lookups, an element.                                                    *)
TypeOK ==
    /\ clock \in Nat \ {0}
    /\ targets \in [Cells -> Devs \cup {Free}]
    /\ states \in [Cells -> Devs \cup {Free}]
    /\ next \in [Cells -> Nat]
    /\ run \in [Cpus -> Run]
    /\ \A c \in Cpus :
         /\ run[c].pc # "idle" => run[c].dev \in Devs
         /\ run[c].pc \in {"clock", "read", "swap"} => run[c].cell \in Cells
    /\ sync \in {"idle", "clear", "enter", "target", "failed"}
    /\ todo \subseteq Devs
    /\ syncs \in Nat
    /\ sent \in [Devs -> Seq(Event)]
    /\ given \in [Cells -> Seq(Devs)]

(* A device is never a target without having a state: a program that finds *)
(* the LED of a device finds its state too, whenever the refill is not     *)
(* running, because bpf_runtime.c enters the state before the target and   *)
(* clears it after.  Keys are unique in both maps.                         *)
TargetHasState ==
    /\ Keys(targets) \subseteq Keys(states)
    /\ \A x, y \in Cells : states[x] = states[y] => x = y \/ states[x] = Free
    /\ \A x, y \in Cells : targets[x] = targets[y] => x = y \/ targets[x] = Free

(* Two events of a device are at least the interval apart, whichever CPUs  *)
(* send them and however long they were delayed after reading the clock:   *)
(* the compare-and-swap of disk.bpf.c lets one CPU through per interval.   *)
(* Exempt are two events with a refill in between, which enters the device *)
(* anew with no deadline: their programs found other lives of a cell, or   *)
(* the later one was sent when its element had been given out again.       *)
Spaced ==
    \A d \in Devs : \A j \in 1 .. Len(sent[d]) : \A i \in 1 .. j - 1 :
        LET e == sent[d][i]
            f == sent[d][j]
        IN  /\ e.cell = f.cell /\ e.found = f.found
            /\ f.found = f.into
            => f.at >= e.at + Interval

(* The element the program on CPU c points to is still its device's.       *)
Own(c) == run[c].found = Len(given[run[c].cell])

(* An event later than t of device d; an event later than t that a program *)
(* of a former owner sent through a pointer to what is d's element now.    *)
Told(d, t, s) == \E i \in 1 .. Len(s[d]) : s[d][i].won > t
Robbed(x, t, s) ==
    \E k \in Devs : \E i \in 1 .. Len(s[k]) :
        /\ s[k][i].won > t
        /\ s[k][i].cell = x
        /\ s[k][i].found < s[k][i].into
        /\ s[k][i].into = Len(given[x])

(* A request that sends no event goes with one that did: an event OF ITS   *)
(* DEVICE was sent less than the interval before it, or is sent while the  *)
(* program runs.  Exempt are a program whose element was given away, and a *)
(* request that comes less than the interval after a program of the former *)
(* owner has won the swap on its element: disk.bpf.c drops that one.       *)
Noticed ==
    [][\A c \in Cpus :
         /\ run[c].pc \in {"read", "swap"}
         /\ run'[c].pc = "idle"
         /\ Own(c)
         => \/ Told(run[c].dev, run[c].now - Interval, sent')
            \/ Robbed(run[c].cell, run[c].now - Interval, sent')]_vars
=============================================================================

------------------------------ MODULE DiskLeds ------------------------------
(***************************************************************************)
(* The disk half of ugreen-ledd: ebpf/src/disk_led.c (the slot table, the  *)
(* activity blink and its idle deadline, hotplug) driven by the event loop *)
(* of ebpf/src/main.c, from the start of the daemon to its end and restart.*)
(*                                                                         *)
(* The daemon has one thread and does one thing to one LED per step;       *)
(* meanwhile time passes, disks do I/O, come and go, and it may be killed. *)
(* A setter of the LED controller behaves as LedCommand promises: it is    *)
(* skipped when the cache knows the register has the value, else it takes  *)
(* effect, or fails, with or without effect, and forgets the LED.          *)
(* (MCLedController checks that led_controller.c does that.)  The colour   *)
(* and the brightness of a bay never change and are one register, "look".  *)
(*                                                                         *)
(* Deadlines are times left.  That of an inactive slot is never read and   *)
(* is 0 here.                                                              *)
(***************************************************************************)
EXTENDS Integers, FiniteSets, Sequences, FiniteSetsExt

CONSTANTS Bays,        \* slot indices, in the order of the slot table
          Devs,        \* device numbers
          NoDev,       \* dev of an empty slot: 0
          Never,       \* dev of a slot before the first scan: UINT32_MAX
          Invert,      \* disk_invert: idle disks are lit
          BySerial,    \* disk_mapping is serial: slots are found by udev's db
          Hold,        \* disk_hold_ms, in ticks
          RingSize,    \* records the events ring holds
          MaxFaults,   \* bounds of the model on commands that fail
          MaxPlugs     \*   and on disks that come or go

ASSUME DevAssumption == Devs \cap {NoDev, Never} = {} /\ NoDev # Never
ASSUME ConfigAssumption ==
    /\ Bays \subseteq Nat /\ IsFiniteSet(Bays)
    /\ Invert \in BOOLEAN /\ BySerial \in BOOLEAN
    /\ Hold \in Nat \ {0} /\ RingSize \in Nat \ {0}
ASSUME BoundAssumption == MaxFaults \in Nat /\ MaxPlugs \in Nat

VARIABLES bays,     \* the device in each bay, as sysfs shows it
          udev,     \* bays whose device is in udev's database
          uevents,  \* the netlink socket: "none", "some" or "overflow"
          targets,  \* disk_targets: the device each LED stands for
          ring,     \* the LEDs of the events in the ring
          stop,     \* a SIGTERM is pending
          led,      \* the MCU: look, mode, and the registers the cache knows
          pc,       \* what the daemon does; "down" when there is none
          ready,    \* descriptors poll reported, still to be handled
          booting,  \* the event loop has not been reached
          failed,   \* the first scan had an error
          found,    \* what discover found
          todo,     \* slots the running loop has still to visit
          slot,     \* disks->slots: dev, active
          left,     \* disks->slots: deadline_ns - now
          timer,    \* the timerfd: ticks left, 0 when readable, or Off
          faults, plugs,  \* spent so far
          dirty     \* history: LEDs some command failed on since they were set

env == <<bays, udev, uevents, ring, stop>>
table == <<slot, left>>
spent == <<faults, plugs>>
vars == <<env, targets, led, pc, ready, booting, failed, found, todo, table,
          timer, spent, dirty>>

Off == Hold + 1

Steady == IF Invert THEN "on" ELSE "off"

Present(b) == slot[b].dev \in Devs

Active == {b \in Bays : slot[b].active}

Empty == [b \in Bays |-> NoDev]

Unscanned == [b \in Bays |-> [dev |-> Never, active |-> FALSE]]

-----------------------------------------------------------------------------
(* Setters of the LED controller, as the set of their outcomes.            *)

Put(l, reg, val) ==
    IF reg \in l.known /\ l[reg] = val
    THEN {[led |-> l, ok |-> TRUE]}
    ELSE LET set == [l EXCEPT ![reg] = val] IN
         {[led |-> [set EXCEPT !.known = @ \cup {reg}], ok |-> TRUE]}
         \cup {[led |-> [x EXCEPT !.known = {}], ok |-> FALSE] : x \in {l, set}}

(* set_steady: the mode only if the look could be set.                     *)
SetSteady(l) ==
    UNION {IF o.ok THEN Put(o.led, "mode", Steady) ELSE {o} :
           o \in Put(l, "look", "configured")}

Invalidated(l) == [l EXCEPT !.known = {}]

(* Outcome o of commands to the LED of bay b.                              *)
Commanded(b, o) ==
    /\ led' = [led EXCEPT ![b] = o.led]
    /\ o.ok \/ faults < MaxFaults
    /\ faults' = IF o.ok THEN faults ELSE faults + 1
    /\ UNCHANGED plugs

(* LED b was set as a whole, or was meant to.                              *)
Repaired(b, o) == dirty' = IF o.ok THEN dirty \ {b} ELSE dirty \cup {b}

BugLatest(slots, lefts) ==
    LET due == {lefts[b] : b \in {x \in Bays : slots[x].active}} IN
    IF due = {} THEN Off ELSE Max(due)

(* arm_timer: at the earliest deadline of the active slots, if any.        *)
Earliest(slots, lefts) ==
    Min({lefts[b] : b \in {x \in Bays : slots[x].active}} \cup {Off})

-----------------------------------------------------------------------------
(* The start and the end of the daemon.                                    *)

(* The kernel drops the socket, the timer, the maps and the ring.          *)
Gone ==
    /\ pc' = "down"
    /\ uevents' = "none" /\ ring' = <<>> /\ targets' = Empty
    /\ stop' = FALSE /\ ready' = {} /\ todo' = {} /\ found' = Empty
    /\ booting' = FALSE /\ failed' = FALSE
    /\ slot' = Unscanned /\ left' = [b \in Bays |-> 0] /\ timer' = Off
    /\ led' = [b \in Bays |-> Invalidated(led[b])]
    /\ UNCHANGED <<bays, udev, faults, plugs, dirty>>

(* main and disk_leds_init up to the first scan; the uevent socket is open *)
(* before it.                                                              *)
Start ==
    /\ pc = "down"
    /\ pc' = "discover"
    /\ booting' = TRUE
    /\ UNCHANGED <<env, targets, led, ready, failed, found, todo, table, timer,
                   spent, dirty>>

(* SIGKILL, or the host resets.                                            *)
Crash ==
    /\ pc # "down"
    /\ Gone

-----------------------------------------------------------------------------
(* rescan                                                                  *)

Visible == [b \in Bays |-> IF BySerial /\ b \notin udev THEN NoDev ELSE bays[b]]

Discover ==
    /\ pc = "discover"
    /\ found' = Visible
    /\ todo' = Bays
    /\ pc' = "rescan"
    /\ UNCHANGED <<env, targets, led, ready, booting, failed, table, timer,
                   spent, dirty>>

BugSlotStaysActive(b) ==
    /\ pc = "rescan" /\ todo # {} /\ b = Min(todo)
    /\ todo' = todo \ {b}
    /\ IF slot[b].dev = found[b]
       THEN UNCHANGED <<led, table, failed, spent, dirty>>
       ELSE \E o \in IF found[b] # NoDev THEN SetSteady(Invalidated(led[b]))
                     ELSE Put(Invalidated(led[b]), "mode", "off") :
              /\ Commanded(b, o)
              /\ Repaired(b, o)
              /\ failed' = (failed \/ ~o.ok)
              /\ slot' = [slot EXCEPT ![b].dev = found[b]]
              /\ UNCHANGED left
    /\ UNCHANGED <<env, targets, pc, ready, booting, found, timer>>

(* One round of the loop: a slot whose device changed gets a fresh entry   *)
(* and its LED the steady or the dark look, whether or not that works.     *)
RescanSlot(b) ==
    /\ pc = "rescan" /\ todo # {} /\ b = Min(todo)
    /\ todo' = todo \ {b}
    /\ IF slot[b].dev = found[b]
       THEN UNCHANGED <<led, table, failed, spent, dirty>>
       ELSE \E o \in IF found[b] # NoDev THEN SetSteady(Invalidated(led[b]))
                     ELSE Put(Invalidated(led[b]), "mode", "off") :
              /\ Commanded(b, o)
              /\ Repaired(b, o)
              /\ failed' = (failed \/ ~o.ok)
              /\ slot' = [slot EXCEPT ![b] = [dev |-> found[b], active |-> FALSE]]
              /\ left' = [left EXCEPT ![b] = 0]
    /\ UNCHANGED <<env, targets, pc, ready, booting, found, timer>>

(* An error of the first scan ends the daemon, that of a later one is      *)
(* logged; then disk_leds_sync_bpf clears the maps.                        *)
RescanEnds ==
    /\ pc = "rescan" /\ todo = {}
    /\ IF booting /\ failed
       THEN Gone
       ELSE /\ pc' = "sync"
            /\ targets' = Empty
            /\ todo' = Bays
            /\ failed' = FALSE
            /\ UNCHANGED <<env, led, ready, booting, found, table, timer, spent,
                           dirty>>

SyncSlot(b) ==
    /\ pc = "sync" /\ todo # {} /\ b = Min(todo)
    /\ todo' = todo \ {b}
    /\ targets' = [targets EXCEPT ![b] =
                     IF Present(b) THEN slot[b].dev ELSE NoDev]
    /\ UNCHANGED <<env, led, pc, ready, booting, failed, found, table, timer,
                   spent, dirty>>

BugSyncDrains ==
    /\ pc = "sync" /\ todo = {}
    /\ pc' = "loop"
    /\ booting' = FALSE
    /\ ready' = ready \ {"uevent"}
    /\ uevents' = "none"
    /\ UNCHANGED <<bays, udev, ring, stop, targets, led, failed, found, todo,
                   table, timer, spent, dirty>>

SyncEnds ==
    /\ pc = "sync" /\ todo = {}
    /\ pc' = "loop"
    /\ booting' = FALSE
    /\ ready' = ready \ {"uevent"}
    /\ UNCHANGED <<env, targets, led, failed, found, todo, table, timer, spent,
                   dirty>>

-----------------------------------------------------------------------------
(* run_event_loop: poll reports what is ready, the handlers run in this    *)
(* order, what becomes ready meanwhile waits for the next poll.            *)

Readable ==
    {f \in {"signal", "timer", "uevent", "bpf"} :
        \/ f = "signal" /\ stop
        \/ f = "timer" /\ timer = 0
        \/ f = "uevent" /\ uevents # "none"
        \/ f = "bpf" /\ ring # <<>>}

Poll ==
    /\ pc = "loop" /\ ready = {} /\ Readable # {}
    /\ ready' = Readable
    /\ UNCHANGED <<env, targets, led, pc, booting, failed, found, todo, table,
                   timer, spent, dirty>>

(* The daemon ends: bpf_runtime_stop, then disk_leds_cleanup.              *)
LeaveLoop ==
    /\ pc' = "cleanup"
    /\ todo' = Bays
    /\ ready' = {}
    /\ targets' = Empty
    /\ ring' = <<>>
    /\ UNCHANGED <<bays, udev, uevents, stop, led, booting, failed, found,
                   table, timer, dirty>>

BugSignalIgnored ==
    /\ pc = "loop" /\ "signal" \in ready
    /\ ready' = ready \ {"signal"}
    /\ stop' = FALSE
    /\ UNCHANGED <<bays, udev, uevents, ring, targets, led, pc, booting, failed,
                   found, todo, table, timer, spent, dirty>>

HandleSignal ==
    /\ pc = "loop" /\ "signal" \in ready
    /\ LeaveLoop
    /\ UNCHANGED spent

(* bpf_runtime_start or an update of a map fails: the daemon cleans up and *)
(* ends.                                                                   *)
SyncFails ==
    /\ pc = "sync"
    /\ faults < MaxFaults
    /\ faults' = faults + 1
    /\ LeaveLoop
    /\ UNCHANGED plugs

BugCleanupLeavesActive(b) ==
    /\ pc = "cleanup" /\ todo # {} /\ b = Min(todo)
    /\ todo' = todo \ {b}
    /\ IF Present(b) /\ ~slot[b].active
       THEN \E o \in SetSteady(led[b]) : Commanded(b, o) /\ Repaired(b, o)
       ELSE UNCHANGED <<led, spent, dirty>>
    /\ UNCHANGED <<env, targets, pc, ready, booting, failed, found, table, timer>>

CleanupSlot(b) ==
    /\ pc = "cleanup" /\ todo # {} /\ b = Min(todo)
    /\ todo' = todo \ {b}
    /\ IF Present(b)
       THEN \E o \in SetSteady(led[b]) : Commanded(b, o) /\ Repaired(b, o)
       ELSE UNCHANGED <<led, spent, dirty>>
    /\ UNCHANGED <<env, targets, pc, ready, booting, failed, found, table, timer>>

CleanupEnds ==
    /\ pc = "cleanup" /\ todo = {}
    /\ Gone

(* disk_leds_handle_timer: the slots that are due when it starts, ...      *)
HandleTimer ==
    /\ pc = "loop" /\ "timer" \in ready /\ "signal" \notin ready
    /\ pc' = "timer"
    /\ todo' = {b \in Active : left[b] = 0}
    /\ timer' = Off
    /\ UNCHANGED <<env, targets, led, ready, booting, failed, found, table,
                   spent, dirty>>

(* ... each of which is idle afterwards, even if its LED failed, ...       *)
RestoreSlot(b) ==
    /\ pc = "timer" /\ todo # {} /\ b = Min(todo)
    /\ todo' = todo \ {b}
    /\ \E o \in SetSteady(led[b]) : Commanded(b, o) /\ Repaired(b, o)
    /\ slot' = [slot EXCEPT ![b].active = FALSE]
    /\ UNCHANGED <<env, targets, pc, ready, booting, failed, found, left, timer>>

BugTimerNotRearmed ==
    /\ pc = "timer" /\ todo = {}
    /\ pc' = "loop"
    /\ ready' = ready \ {"timer"}
    /\ UNCHANGED <<env, targets, led, booting, failed, found, todo, table, timer,
                   spent, dirty>>

(* ... and the timer for the others.                                       *)
TimerEnds ==
    /\ pc = "timer" /\ todo = {}
    /\ pc' = "loop"
    /\ ready' = ready \ {"timer"}
    /\ timer' = Earliest(slot, left)
    /\ UNCHANGED <<env, targets, led, booting, failed, found, todo, table, spent,
                   dirty>>

(* disk_leds_handle_uevent: the socket is drained before the scan; when it *)
(* overflowed, recv reports ENOBUFS and the loop ends.                     *)
HandleUevent ==
    /\ pc = "loop" /\ "uevent" \in ready /\ ready \cap {"signal", "timer"} = {}
    /\ IF uevents = "overflow"
       THEN LeaveLoop /\ UNCHANGED spent
       ELSE /\ pc' = "discover"
            /\ uevents' = "none"
            /\ UNCHANGED <<bays, udev, ring, stop, targets, led, ready, booting,
                           failed, found, todo, table, timer, spent, dirty>>

BugDeadlineAdds(b) ==
    IF ~Present(b)
    THEN UNCHANGED <<led, table, timer, spent, dirty>>
    ELSE \E o \in IF slot[b].active THEN {[led |-> led[b], ok |-> TRUE]}
                  ELSE Put(led[b], "mode", "blink") :
           /\ Commanded(b, o)
           /\ IF o.ok
              THEN /\ slot' = [slot EXCEPT ![b].active = TRUE]
                   /\ left' = [left EXCEPT ![b] = @ + Hold]
                   /\ timer' = Earliest(slot', left')
                   /\ UNCHANGED dirty
              ELSE /\ UNCHANGED <<table, timer>>
                   /\ dirty' = dirty \cup {b}

BugActiveOnError(b) ==
    IF ~Present(b)
    THEN UNCHANGED <<led, table, timer, spent, dirty>>
    ELSE /\ \E o \in IF slot[b].active THEN {[led |-> led[b], ok |-> TRUE]}
                     ELSE Put(led[b], "mode", "blink") :
              /\ Commanded(b, o)
              /\ dirty' = IF o.ok THEN dirty ELSE dirty \cup {b}
         /\ slot' = [slot EXCEPT ![b].active = TRUE]
         /\ left' = [left EXCEPT ![b] = Hold]
         /\ timer' = Earliest(slot', left')

(* disk_leds_handle_activity: the blink starts once, every event extends   *)
(* the deadline.  A blink that could not be started is not active.         *)
Activity(b) ==
    IF ~Present(b)
    THEN UNCHANGED <<led, table, timer, spent, dirty>>
    ELSE \E o \in IF slot[b].active THEN {[led |-> led[b], ok |-> TRUE]}
                  ELSE Put(led[b], "mode", "blink") :
           /\ Commanded(b, o)
           /\ IF o.ok
              THEN /\ slot' = [slot EXCEPT ![b].active = TRUE]
                   /\ left' = [left EXCEPT ![b] = Hold]
                   /\ timer' = Earliest(slot', left')
                   /\ UNCHANGED dirty
              ELSE /\ UNCHANGED <<table, timer>>
                   /\ dirty' = dirty \cup {b}

(* bpf_runtime_consume: records until there is none, those that arrive     *)
(* meanwhile included.                                                     *)
HandleBpf ==
    /\ pc = "loop" /\ ready = {"bpf"} /\ ring # <<>>
    /\ Activity(Head(ring))
    /\ ring' = Tail(ring)
    /\ UNCHANGED <<bays, udev, uevents, stop, targets, pc, ready, booting, failed,
                   found, todo>>

BpfEnds ==
    /\ pc = "loop" /\ ready = {"bpf"} /\ ring = <<>>
    /\ ready' = {}
    /\ UNCHANGED <<env, targets, led, pc, booting, failed, found, todo, table,
                   timer, spent, dirty>>

Daemon ==
    \/ Discover
    \/ \E b \in Bays :
         \/ RescanSlot(b)
         \/ SyncSlot(b)
         \/ CleanupSlot(b)
         \/ RestoreSlot(b)
    \/ RescanEnds
    \/ SyncEnds
    \/ SyncFails
    \/ Poll
    \/ HandleSignal
    \/ CleanupEnds
    \/ HandleTimer
    \/ TimerEnds
    \/ HandleUevent
    \/ HandleBpf
    \/ BpfEnds

-----------------------------------------------------------------------------
(* The world around the daemon.                                            *)

(* A request of the disk in bay b that disk.bpf.c sends an event for; it is *)
(* lost when the ring is full.                                             *)
Io(b) ==
    /\ bays[b] \in Devs
    /\ Len(ring) < RingSize
    /\ \E x \in Bays : targets[x] = bays[b] /\ ring' = Append(ring, x)
    /\ UNCHANGED <<bays, udev, uevents, stop, targets, led, pc, ready, booting,
                   failed, found, todo, table, timer, spent, dirty>>

(* The kernel announces a change in sysfs to the socket, if there is one.  *)
Announced ==
    IF pc = "down" THEN uevents' = "none"
    ELSE \/ uevents' = IF uevents = "none" THEN "some" ELSE uevents
         \/ uevents # "none" /\ uevents' = "overflow"

Plug(b) ==
    /\ plugs < MaxPlugs
    /\ plugs' = plugs + 1
    /\ IF bays[b] = NoDev
       THEN \E d \in Devs \ {bays[x] : x \in Bays} : bays' = [bays EXCEPT ![b] = d]
       ELSE bays' = [bays EXCEPT ![b] = NoDev]
    /\ udev' = udev \ {b}
    /\ Announced
    /\ UNCHANGED <<ring, stop, targets, led, pc, ready, booting, failed, found,
                   todo, table, timer, faults, dirty>>

(* systemd-udevd has handled the kernel's uevent: it writes the serial of  *)
(* the disk to its database and tells its own listeners only.              *)
UdevDone(b) ==
    /\ bays[b] # NoDev /\ b \notin udev
    /\ udev' = udev \cup {b}
    /\ UNCHANGED <<bays, uevents, ring, stop, targets, led, pc, ready, booting,
                   failed, found, todo, table, timer, spent, dirty>>

Tick ==
    /\ timer \in 1 .. Hold \/ \E b \in Active : left[b] > 0
    /\ timer' = IF timer \in 1 .. Hold THEN timer - 1 ELSE timer
    /\ left' = [b \in Bays |-> IF left[b] > 0 THEN left[b] - 1 ELSE 0]
    /\ UNCHANGED <<env, targets, led, pc, ready, booting, failed, found, todo,
                   slot, spent, dirty>>

Terminate ==
    /\ pc # "down" /\ ~stop
    /\ stop' = TRUE
    /\ UNCHANGED <<bays, udev, uevents, ring, targets, led, pc, ready, booting,
                   failed, found, todo, table, timer, spent, dirty>>

World ==
    \/ Start
    \/ Crash
    \/ \E b \in Bays : Io(b) \/ Plug(b) \/ UdevDone(b)
    \/ Tick
    \/ Terminate

(* Before the daemon is first started the LEDs may show anything.          *)
Init ==
    /\ bays \in [Bays -> Devs \cup {NoDev}]
    /\ \A a, b \in Bays : bays[a] = bays[b] => a = b \/ bays[a] = NoDev
    /\ udev = {b \in Bays : bays[b] # NoDev}
    /\ uevents = "none" /\ ring = <<>> /\ targets = Empty /\ stop = FALSE
    /\ led \in [Bays -> [look : {"configured", "other"},
                         mode : {"on", "off", "blink"}, known : {{}}]]
    /\ pc = "down" /\ ready = {} /\ booting = FALSE /\ failed = FALSE
    /\ found = Empty /\ todo = {}
    /\ slot = Unscanned /\ left = [b \in Bays |-> 0] /\ timer = Off
    /\ faults = 0 /\ plugs = 0
    /\ dirty = Bays

Next == Daemon \/ World

Spec == Init /\ [][Next]_vars

(* The daemon's thread runs and time passes.  Nobody need start the daemon *)
(* again.                                                                  *)
FairSpec == Spec /\ WF_vars(Daemon) /\ WF_vars(Tick)

-----------------------------------------------------------------------------
Led == [look : {"configured", "other"}, mode : {"on", "off", "blink"},
        known : SUBSET {"look", "mode"}]

(* Every variable has its type, and the daemon waits in poll with nothing  *)
(* left over from a handler.                                               *)
TypeOK ==
    /\ bays \in [Bays -> Devs \cup {NoDev}]
    /\ udev \subseteq Bays
    /\ uevents \in {"none", "some", "overflow"}
    /\ targets \in [Bays -> Devs \cup {NoDev}]
    /\ ring \in Seq(Bays) /\ Len(ring) <= RingSize
    /\ stop \in BOOLEAN
    /\ led \in [Bays -> Led]
    /\ pc \in {"down", "discover", "rescan", "sync", "loop", "timer", "cleanup"}
    /\ ready \subseteq {"signal", "timer", "uevent", "bpf"}
    /\ booting \in BOOLEAN /\ failed \in BOOLEAN
    /\ found \in [Bays -> Devs \cup {NoDev}]
    /\ todo \subseteq Bays
    /\ pc = "loop" => todo = {}
    /\ slot \in [Bays -> [dev : Devs \cup {NoDev, Never}, active : BOOLEAN]]
    /\ left \in [Bays -> 0 .. Hold]
    /\ timer \in 0 .. Off
    /\ faults \in 0 .. MaxFaults /\ plugs \in 0 .. MaxPlugs
    /\ dirty \subseteq Bays

(* No blink is forgotten: outside the timer's own handler the timer is set *)
(* for the earliest deadline at the latest, through activity, hotplug and  *)
(* failures.  disk_led.c re-arms one timer for all slots by hand.          *)
TimerCovers ==
    pc \notin {"timer", "cleanup"} => \A b \in Active : timer <= left[b]

(* An active slot is one whose LED blinks, also when commands fail: else   *)
(* the next events would only extend a blink that never started.           *)
ActiveBlinks ==
    pc # "cleanup" => \A b \in Active : led[b].mode = "blink"

(* A bay whose last commands succeeded shows what the table says of it: a  *)
(* blink, the steady look, or dark when empty; from the first scan on, and *)
(* whatever the LEDs showed before the daemon was started or restarted.    *)
BayShowsState ==
    pc # "cleanup" =>
        \A b \in Bays \ dirty :
            /\ slot[b].dev = NoDev => led[b].mode = "off"
            /\ Present(b) =>
                  /\ led[b].look = "configured"
                  /\ led[b].mode = IF slot[b].active THEN "blink" ELSE Steady

(* ebpf/README.md: disk presence is updated from block-device uevents.     *)
(* When the daemon waits with no uevent queued, the slot table and the BPF *)
(* targets are what a scan would find: no change is lost between a scan    *)
(* and a later uevent, by an overflow of the socket, or by a restart.      *)
QuiescentSynced ==
    pc = "loop" /\ ready = {} /\ uevents = "none" =>
        \A b \in Bays : slot[b].dev = Visible[b] /\ targets[b] = Visible[b]

(* A daemon that ended in order leaves no LED blinking, except those whose *)
(* commands failed: disk_leds_cleanup restores every present slot.         *)
StoppedSteady ==
    [][pc = "cleanup" /\ todo = {} /\ pc' = "down" =>
         \A b \in Bays \ dirty : led'[b].mode # "blink"]_vars

(* The ring grows by requests only.                                        *)
IoStops == <>[][Len(ring') <= Len(ring)]_ring

(* When the disks fall silent no slot stays active: disk_led.c needs no    *)
(* further event to end a blink.                                           *)
Settles == IoStops => <>[](Active = {})

(* A pending SIGTERM ends the daemon once the ring can be drained.         *)
Stops == IoStops => (stop ~> pc = "down")

(* ebpf/README.md: further events extend an idle deadline; after the       *)
(* deadline the LED returns to its steady state (unless its disk was       *)
(* pulled or the daemon ended).                                            *)
ReturnsSteady ==
    IoStops => \A b \in Bays :
        slot[b].active ~> /\ ~slot[b].active
                          /\ \/ led[b].mode = Steady
                             \/ ~Present(b)
                             \/ pc = "down"
=============================================================================

--------------------------- MODULE DiskLedsProofs ---------------------------
(***************************************************************************)
(* Theorems about DiskLeds, for any number of bays, disks and deadlines,   *)
(* and any number of failing commands, disks that come or go, crashes and  *)
(* restarts: its types, that no blink is forgotten, that active slots      *)
(* blink, that a bay shows what the table says of it, that the table is    *)
(* in step with sysfs, and that an orderly end leaves no LED blinking.     *)
(***************************************************************************)
EXTENDS DiskLeds, WellFoundedInduction, TLAPS

SlotSet == [dev : Devs \cup {NoDev, Never}, active : BOOLEAN]

DevOrNone == Devs \cup {NoDev}

-----------------------------------------------------------------------------
(* The setters.                                                            *)

(* The outcomes of a setter: skipped, done, or failed with or without      *)
(* having changed the register.                                            *)
LEMMA PutOutcome ==
    ASSUME NEW l, NEW reg, NEW val, NEW o \in Put(l, reg, val)
    PROVE  LET set == [l EXCEPT ![reg] = val] IN
           \/ o = [led |-> l, ok |-> TRUE] /\ l[reg] = val
           \/ o = [led |-> [set EXCEPT !.known = @ \cup {reg}], ok |-> TRUE]
           \/ o = [led |-> [l EXCEPT !.known = {}], ok |-> FALSE]
           \/ o = [led |-> [set EXCEPT !.known = {}], ok |-> FALSE]
BY DEF Put

LEMMA PutLook ==
    ASSUME NEW l \in Led, NEW o \in Put(l, "look", "configured")
    PROVE  /\ o.led \in Led /\ o.ok \in BOOLEAN
           /\ o.ok => o.led.look = "configured"
<1> DEFINE set == [l EXCEPT !.look = "configured"]
<1>1. /\ set \in Led /\ set.look = "configured"
      /\ [set EXCEPT !.known = @ \cup {"look"}] \in Led
      /\ [set EXCEPT !.known = {}] \in Led /\ [l EXCEPT !.known = {}] \in Led
  BY DEF Led
<1>2. CASE o = [led |-> l, ok |-> TRUE] /\ l.look = "configured"
  BY <1>2
<1>3. CASE o = [led |-> [set EXCEPT !.known = @ \cup {"look"}], ok |-> TRUE]
  BY <1>1, <1>3 DEF Led
<1>4. CASE o = [led |-> [l EXCEPT !.known = {}], ok |-> FALSE]
  BY <1>1, <1>4 DEF Led
<1>5. CASE o = [led |-> [set EXCEPT !.known = {}], ok |-> FALSE]
  BY <1>1, <1>5 DEF Led
<1> QED
  BY <1>2, <1>3, <1>4, <1>5, PutOutcome

LEMMA PutMode ==
    ASSUME NEW l \in Led, NEW m \in {"on", "off", "blink"}, NEW o \in Put(l, "mode", m)
    PROVE  /\ o.led \in Led /\ o.ok \in BOOLEAN
           /\ o.led.look = l.look
           /\ o.ok => o.led.mode = m
<1> DEFINE set == [l EXCEPT !.mode = m]
<1>1. /\ set \in Led /\ set.mode = m /\ set.look = l.look
      /\ [set EXCEPT !.known = @ \cup {"mode"}] \in Led
      /\ [set EXCEPT !.known = {}] \in Led /\ [l EXCEPT !.known = {}] \in Led
  BY DEF Led
<1>2. CASE o = [led |-> l, ok |-> TRUE] /\ l.mode = m
  BY <1>2
<1>3. CASE o = [led |-> [set EXCEPT !.known = @ \cup {"mode"}], ok |-> TRUE]
  BY <1>1, <1>3 DEF Led
<1>4. CASE o = [led |-> [l EXCEPT !.known = {}], ok |-> FALSE]
  BY <1>1, <1>4 DEF Led
<1>5. CASE o = [led |-> [set EXCEPT !.known = {}], ok |-> FALSE]
  BY <1>1, <1>5 DEF Led
<1> QED
  BY <1>2, <1>3, <1>4, <1>5, PutOutcome

(* set_steady works only when both its setters did.                        *)
LEMMA SteadySet ==
    ASSUME NEW l \in Led, NEW o \in SetSteady(l)
    PROVE  /\ o.led \in Led /\ o.ok \in BOOLEAN
           /\ o.ok => o.led.look = "configured" /\ o.led.mode = Steady
<1>1. PICK x \in Put(l, "look", "configured") :
        o \in IF x.ok THEN Put(x.led, "mode", Steady) ELSE {x}
  BY DEF SetSteady
<1>2. /\ x.led \in Led /\ x.ok \in BOOLEAN
      /\ x.ok => x.led.look = "configured"
  BY PutLook
<1>3. CASE x.ok
  <2>1. o \in Put(x.led, "mode", Steady) /\ Steady \in {"on", "off", "blink"}
    BY <1>1, <1>3 DEF Steady
  <2> QED
    BY <1>2, <1>3, <2>1, PutMode
<1>4. CASE ~x.ok
  BY <1>1, <1>2, <1>4
<1> QED
  BY <1>3, <1>4

(* An LED the cache forgets.                                               *)
LEMMA Forgotten ==
    ASSUME NEW l \in Led
    PROVE  Invalidated(l) \in Led /\ Invalidated(l).mode = l.mode
           /\ Invalidated(l).look = l.look
BY DEF Invalidated, Led

(* A set of natural numbers has a least element.                           *)
LEMMA LeastNatural ==
    ASSUME NEW S, S \subseteq Nat, S # {}
    PROVE  \E m \in S : \A y \in S : m <= y
<1> DEFINE R == OpToRel(<, Nat)
<1>1. \A x, y \in Nat : y < x => <<y, x>> \in R
  BY DEF OpToRel
<1>2. IsWellFoundedOn(R, Nat)
  BY NatLessThanWellFounded
<1> HIDE DEF R
<1>3. PICK m \in S : \A y \in S : <<y, m>> \notin R
  BY <1>2, WFMin
<1>4. \A y \in S : m \in Nat /\ y \in Nat /\ ~(y < m)
  BY <1>1, <1>3
<1>5. \A y \in S : m <= y
  BY <1>4
<1> QED
  BY <1>5

(* The timer is armed at no deadline's back.                               *)
LEMMA EarliestCovers ==
    ASSUME NEW slots, NEW lefts \in [Bays -> 0 .. Hold]
    PROVE  /\ Earliest(slots, lefts) \in 0 .. Off
           /\ \A b \in Bays : slots[b].active => Earliest(slots, lefts) <= lefts[b]
<1> DEFINE S == {lefts[b] : b \in {x \in Bays : slots[x].active}} \cup {Off}
<1>1. S \subseteq 0 .. Off /\ Off \in S /\ Off \in Nat
  BY ConfigAssumption DEF Off
<1>2. \E m \in S : \A y \in S : m <= y
  <2>1. S \subseteq Nat /\ S # {}
    BY <1>1
  <2> HIDE DEF S
  <2> QED
    BY <2>1, LeastNatural
<1>3. Min(S) \in S /\ \A y \in S : Min(S) <= y
  <2> HIDE DEF S
  <2> QED
    BY <1>2 DEF Min
<1>4. Earliest(slots, lefts) = Min(S)
  BY DEF Earliest
<1>5. \A b \in Bays : slots[b].active => lefts[b] \in S
  OBVIOUS
<1> HIDE DEF S
<1> QED
  BY <1>1, <1>3, <1>4, <1>5

-----------------------------------------------------------------------------
(* The invariant, in parts.                                                *)

(* What the world around the daemon changes.                               *)
Outside ==
    /\ bays \in [Bays -> DevOrNone]
    /\ udev \subseteq Bays
    /\ uevents \in {"none", "some", "overflow"}
    /\ ring \in Seq(Bays) /\ Len(ring) <= RingSize

Counts == faults \in 0 .. MaxFaults /\ plugs \in 0 .. MaxPlugs

Flags == stop \in BOOLEAN /\ booting \in BOOLEAN /\ failed \in BOOLEAN

Control ==
    /\ pc \in {"down", "discover", "rescan", "sync", "loop", "timer", "cleanup"}
    /\ ready \subseteq {"signal", "timer", "uevent", "bpf"}
    /\ todo \subseteq Bays
    /\ pc = "loop" => todo = {}

(* Only the slot of a disk is active; the timer's handler visits active    *)
(* slots; every slot has been scanned when the daemon ends in order.       *)
Slots ==
    /\ slot \in [Bays -> SlotSet]
    /\ \A b \in Bays : slot[b].active => slot[b].dev \in Devs
    /\ pc = "down" => \A b \in Bays : ~slot[b].active
    /\ pc = "timer" => \A b \in todo : slot[b].active
    /\ pc = "cleanup" => \A b \in Bays : slot[b].dev # Never

Timing ==
    /\ left \in [Bays -> 0 .. Hold]
    /\ timer \in 0 .. Off
    /\ pc \notin {"timer", "cleanup"} =>
         \A b \in Bays : slot[b].active => timer <= left[b]

Shows(b) ==
    /\ slot[b].dev = NoDev => led[b].mode = "off"
    /\ slot[b].dev \in Devs =>
         /\ led[b].look = "configured"
         /\ slot[b].active => led[b].mode = "blink"
         /\ ~slot[b].active => led[b].mode = Steady

(* Slots that disk_leds_cleanup has visited blink no more.                 *)
Lights ==
    /\ led \in [Bays -> Led] /\ dirty \subseteq Bays
    /\ pc # "cleanup" => \A b \in Bays : slot[b].active => led[b].mode = "blink"
    /\ \A b \in Bays \ dirty : pc # "cleanup" \/ b \in todo => Shows(b)
    /\ \A b \in Bays \ dirty : pc = "cleanup" /\ b \notin todo => led[b].mode # "blink"

(* How far the table and the BPF maps follow what discover found.          *)
InStep ==
    /\ targets \in [Bays -> DevOrNone] /\ found \in [Bays -> DevOrNone]
    /\ pc = "rescan" => \A b \in Bays \ todo : slot[b].dev = found[b]
    /\ pc \in {"sync", "loop", "timer"} => \A b \in Bays : slot[b].dev = found[b]
    /\ pc = "sync" => \A b \in Bays \ todo : targets[b] = found[b]
    /\ pc \in {"loop", "timer"} => \A b \in Bays : targets[b] = found[b]

DInv == Outside /\ Counts /\ Flags /\ Control /\ Slots /\ Timing /\ Lights /\ InStep

(* It holds at the start.                                                  *)
LEMMA DInit == Init => DInv
<1> SUFFICES ASSUME Init
             PROVE  DInv
  OBVIOUS
<1>1. Outside
  <2>1. <<>> \in Seq(Bays) /\ Len(<<>>) = 0
    OBVIOUS
  <2> QED
    BY <2>1, ConfigAssumption DEF Init, Outside, DevOrNone
<1>2. Counts
  BY BoundAssumption DEF Init, Counts
<1>3. Flags /\ Control
  BY DEF Init, Flags, Control
<1>4. \A b \in Bays : slot[b] = [dev |-> Never, active |-> FALSE]
  BY DEF Init, Unscanned
<1>5. Slots
  <2>1. slot \in [Bays -> SlotSet]
    BY DEF Init, Unscanned, SlotSet
  <2> QED
    BY <1>4, <2>1 DEF Init, Slots
<1>6. Timing
  <2>1. Off \in 0 .. Off /\ 0 \in 0 .. Hold
    BY ConfigAssumption DEF Off
  <2> QED
    BY <1>4, <2>1 DEF Init, Timing
<1>7. Lights
  <2>1. led \in [Bays -> Led]
    BY DEF Init, Led
  <2> QED
    BY <1>4, <2>1 DEF Init, Lights
<1>8. InStep
  BY DEF Init, InStep, Empty, DevOrNone
<1> QED
  BY <1>1, <1>2, <1>3, <1>5, <1>6, <1>7, <1>8 DEF DInv

(* The end of the daemon.                                                  *)
LEMMA GoneInv ==
    ASSUME DInv, Gone
    PROVE  Control' /\ Slots' /\ Timing' /\ Lights' /\ InStep'
<1>1. \A b \in Bays : slot'[b] = [dev |-> Never, active |-> FALSE]
  BY DEF Gone, Unscanned
<1>2. Control'
  BY DEF Gone, Control
<1>3. Slots'
  <2>1. slot' \in [Bays -> SlotSet]
    BY DEF Gone, Unscanned, SlotSet
  <2> QED
    BY <1>1, <2>1 DEF Gone, Slots
<1>4. Timing'
  <2>1. Off \in 0 .. Off /\ 0 \in 0 .. Hold
    BY ConfigAssumption DEF Off
  <2>2. left' \in [Bays -> 0 .. Hold] /\ timer' \in 0 .. Off
    BY <2>1 DEF Gone
  <2> QED
    BY <1>1, <2>2 DEF Timing
<1>5. Lights'
  <2>1. led' \in [Bays -> Led]
    BY Forgotten DEF Gone, DInv, Lights
  <2>2. \A b \in Bays : ~slot'[b].active /\ slot'[b].dev \notin Devs \cup {NoDev}
    BY <1>1, DevAssumption
  <2> QED
    BY <2>1, <2>2 DEF Gone, DInv, Lights, Shows
<1>6. InStep'
  BY DEF Gone, InStep, Empty, DevOrNone
<1> QED
  BY <1>2, <1>3, <1>4, <1>5, <1>6

(* The way out of the event loop.                                          *)
LEMMA LeaveInv ==
    ASSUME DInv, LeaveLoop, pc \in {"sync", "loop"}
    PROVE  Control' /\ Slots' /\ Timing' /\ Lights' /\ InStep'
<1> USE DEF table
<1>1. Control'
  BY DEF LeaveLoop, Control
<1>2. \A b \in Bays : slot[b].dev # Never
  BY DevAssumption DEF DInv, InStep, DevOrNone
<1>3. Slots'
  BY <1>2 DEF LeaveLoop, DInv, Slots
<1>4. Timing'
  BY DEF LeaveLoop, DInv, Timing
<1>5. Lights'
  BY DEF LeaveLoop, DInv, Lights, Shows
<1>6. InStep'
  BY DEF LeaveLoop, DInv, InStep, Empty, DevOrNone
<1> QED
  BY <1>1, <1>3, <1>4, <1>5, <1>6

-----------------------------------------------------------------------------
(* The steps, part by part.                                                *)

LEMMA OutsideStep ==
    ASSUME DInv, [Next]_vars
    PROVE  Outside'
<1> USE DEF env
<1>1. ASSUME NEW b \in Bays, Io(b)
      PROVE  Outside'
  <2>1. /\ UNCHANGED <<bays, udev, uevents>>
        /\ \E x \in Bays : ring' = Append(ring, x)
        /\ Len(ring) < RingSize /\ ring \in Seq(Bays) /\ RingSize \in Nat
    BY <1>1, ConfigAssumption DEF Io, DInv, Outside
  <2>2. ring' \in Seq(Bays) /\ Len(ring') <= RingSize
    BY <2>1
  <2> QED
    BY <2>1, <2>2 DEF DInv, Outside
<1>2. ASSUME NEW b \in Bays, Plug(b)
      PROVE  Outside'
  BY <1>2 DEF Plug, Announced, DInv, Outside, DevOrNone
<1>3. ASSUME NEW b \in Bays, UdevDone(b)
      PROVE  Outside'
  BY <1>3 DEF UdevDone, DInv, Outside
<1>4. CASE /\ UNCHANGED <<bays, udev>> /\ uevents' \in {"none", uevents}
           /\ ring' \in {ring, <<>>}
  <2>1. <<>> \in Seq(Bays) /\ Len(<<>>) = 0
    OBVIOUS
  <2>2. ring' \in Seq(Bays) /\ Len(ring') <= RingSize
    <3>1. CASE ring' = ring
      BY <3>1 DEF DInv, Outside
    <3>2. CASE ring' = <<>>
      <4>1. Len(ring') = 0 /\ ring' \in Seq(Bays)
        BY <3>2, <2>1
      <4> QED
        BY <4>1, ConfigAssumption
    <3> QED
      BY <1>4, <3>1, <3>2
  <2> QED
    BY <1>4, <2>2 DEF DInv, Outside
<1>5. CASE HandleBpf
  <2>1. /\ UNCHANGED <<bays, udev, uevents>>
        /\ ring' = Tail(ring) /\ ring # <<>>
        /\ ring \in Seq(Bays) /\ Len(ring) <= RingSize
    BY <1>5 DEF HandleBpf, DInv, Outside
  <2>2. ring' \in Seq(Bays) /\ Len(ring') <= RingSize
    BY <2>1, ConfigAssumption
  <2> QED
    BY <2>1, <2>2 DEF DInv, Outside
<1>6. \/ \E b \in Bays : Io(b) \/ Plug(b) \/ UdevDone(b)
      \/ HandleBpf
      \/ /\ UNCHANGED <<bays, udev>> /\ uevents' \in {"none", uevents}
         /\ ring' \in {ring, <<>>}
  BY DEF Next, Daemon, World, Discover, RescanSlot, SyncSlot, CleanupSlot, RestoreSlot,
         RescanEnds, SyncEnds, SyncFails, Poll, HandleSignal, CleanupEnds, HandleTimer,
         TimerEnds, HandleUevent, BpfEnds, Start, Crash, Tick, Terminate, Gone,
         LeaveLoop, vars
<1> QED
  BY <1>1, <1>2, <1>3, <1>4, <1>5, <1>6

LEMMA CountsStep ==
    ASSUME DInv, [Next]_vars
    PROVE  Counts'
<1>1. \A b \in Bays : \A op :
        Commanded(b, op) =>
          \/ UNCHANGED <<faults, plugs>>
          \/ faults < MaxFaults /\ faults' = faults + 1 /\ UNCHANGED plugs
  BY DEF Commanded
<1>2. HandleBpf => \/ UNCHANGED <<faults, plugs>>
                   \/ \E b \in Bays : \E op : Commanded(b, op)
  <2> SUFFICES ASSUME HandleBpf
               PROVE  \/ UNCHANGED <<faults, plugs>>
                      \/ \E b \in Bays : \E op : Commanded(b, op)
    OBVIOUS
  <2>1. ring \in Seq(Bays) /\ ring # <<>> /\ Activity(Head(ring))
    BY DEF HandleBpf, DInv, Outside
  <2>2. Head(ring) \in Bays
    BY <2>1
  <2> QED
    BY <2>1, <2>2 DEF Activity, spent
<1>3. \/ UNCHANGED <<faults, plugs>>
      \/ faults < MaxFaults /\ faults' = faults + 1 /\ UNCHANGED plugs
      \/ plugs < MaxPlugs /\ plugs' = plugs + 1 /\ UNCHANGED faults
      \/ \E b \in Bays : \E op : Commanded(b, op)
  BY <1>2
  DEF Next, Daemon, World, Discover, RescanSlot, SyncSlot, CleanupSlot, RestoreSlot,
      RescanEnds, SyncEnds, SyncFails, Poll, HandleSignal, CleanupEnds, HandleTimer,
      TimerEnds, HandleUevent, BpfEnds, Start, Crash, Tick, Terminate, Io, Plug,
      UdevDone, Gone, LeaveLoop, vars, spent
<1> QED
  BY <1>1, <1>3, BoundAssumption DEF DInv, Counts

LEMMA FlagsStep ==
    ASSUME DInv, [Next]_vars
    PROVE  Flags'
<1>1. ASSUME NEW b \in Bays, RescanSlot(b)
      PROVE  UNCHANGED <<stop, booting>> /\ failed' \in BOOLEAN
  BY <1>1 DEF RescanSlot, env, DInv, Flags
<1>2. \/ \E b \in Bays : RescanSlot(b)
      \/ /\ stop' \in {TRUE, FALSE, stop} /\ booting' \in {TRUE, FALSE, booting}
         /\ failed' \in {FALSE, failed}
  BY DEF Next, Daemon, World, Discover, SyncSlot, CleanupSlot, RestoreSlot,
         RescanEnds, SyncEnds, SyncFails, Poll, HandleSignal, CleanupEnds, HandleTimer,
         TimerEnds, HandleUevent, HandleBpf, BpfEnds, Start, Crash, Tick, Terminate, Io,
         Plug, UdevDone, Gone, LeaveLoop, vars, env
<1> QED
  BY <1>1, <1>2 DEF DInv, Flags

LEMMA ControlStep ==
    ASSUME DInv, [Next]_vars
    PROVE  Control'
<1>1. CASE Gone
  BY <1>1, GoneInv
<1>2. CASE LeaveLoop /\ pc \in {"sync", "loop"}
  BY <1>2, LeaveInv
<1>3. CASE ~Gone /\ ~(LeaveLoop /\ pc \in {"sync", "loop"})
  BY <1>3
  DEF DInv, Control, Readable, Next, Daemon, World, Discover, RescanSlot, SyncSlot,
      CleanupSlot, RestoreSlot, RescanEnds, SyncEnds, SyncFails, Poll, HandleSignal,
      CleanupEnds, HandleTimer, Active, TimerEnds, HandleUevent, HandleBpf, BpfEnds,
      Start, Crash, Tick, Terminate, Io, Plug, UdevDone, vars
<1> QED
  BY <1>1, <1>2, <1>3

(* An event: it does nothing, or fails to start a blink, or starts or      *)
(* extends one.                                                            *)
LEMMA EventEffect ==
    ASSUME DInv, HandleBpf
    PROVE  /\ pc = "loop" /\ UNCHANGED <<pc, todo, targets, found>>
           /\ \/ UNCHANGED <<led, slot, left, timer, dirty>>
              \/ \E b \in Bays, l \in Led :
                   /\ slot[b].dev \in Devs
                   /\ l.look = led[b].look
                   /\ led' = [led EXCEPT ![b] = l]
                   /\ \/ /\ ~slot[b].active
                         /\ dirty' = dirty \cup {b}
                         /\ UNCHANGED <<slot, left, timer>>
                      \/ /\ l.mode = "blink"
                         /\ slot' = [slot EXCEPT ![b].active = TRUE]
                         /\ left' = [left EXCEPT ![b] = Hold]
                         /\ timer' = Earliest(slot', left')
                         /\ UNCHANGED dirty
<1>1. ring \in Seq(Bays) /\ ring # <<>> /\ Activity(Head(ring))
  BY DEF HandleBpf, DInv, Outside
<1>2. PICK b \in Bays : Activity(b)
  BY <1>1
<1>3. pc = "loop" /\ UNCHANGED <<pc, todo, targets, found>>
  BY DEF HandleBpf
<1>4. CASE ~Present(b)
  BY <1>2, <1>3, <1>4 DEF Activity, table
<1>5. CASE Present(b)
  <2>1. PICK o \in IF slot[b].active THEN {[led |-> led[b], ok |-> TRUE]}
                   ELSE Put(led[b], "mode", "blink") :
          /\ Commanded(b, o)
          /\ IF o.ok
             THEN /\ slot' = [slot EXCEPT ![b].active = TRUE]
                  /\ left' = [left EXCEPT ![b] = Hold]
                  /\ timer' = Earliest(slot', left')
                  /\ UNCHANGED dirty
             ELSE /\ UNCHANGED <<table, timer>>
                  /\ dirty' = dirty \cup {b}
    BY <1>2, <1>5 DEF Activity
  <2>2. led[b] \in Led /\ slot[b].active \in BOOLEAN
    BY DEF DInv, Lights, Slots, SlotSet
  <2>3. /\ o.led \in Led /\ o.ok \in BOOLEAN /\ o.led.look = led[b].look
        /\ o.ok => o.led.mode = "blink"
        /\ ~o.ok => ~slot[b].active
    <3>1. CASE slot[b].active
      <4>1. o = [led |-> led[b], ok |-> TRUE]
        BY <2>1, <3>1
      <4>2. led[b].mode = "blink"
        BY <1>3, <3>1 DEF DInv, Lights
      <4> QED
        BY <2>2, <4>1, <4>2
    <3>2. CASE ~slot[b].active
      <4>1. o \in Put(led[b], "mode", "blink")
        BY <2>1, <3>2
      <4> QED
        BY <2>2, <3>2, <4>1, PutMode
    <3> QED
      BY <2>2, <3>1, <3>2
  <2>4. led' = [led EXCEPT ![b] = o.led] /\ slot[b].dev \in Devs
    BY <1>5, <2>1 DEF Commanded, Present
  <2>5. CASE o.ok
    BY <1>3, <2>1, <2>3, <2>4, <2>5
  <2>6. CASE ~o.ok
    BY <1>3, <2>1, <2>3, <2>4, <2>6 DEF table
  <2> QED
    BY <2>3, <2>5, <2>6
<1> QED
  BY <1>4, <1>5

(* Steps that leave the slots alone.                                       *)
LEMMA StillSlots ==
    ASSUME DInv, UNCHANGED slot,
           \/ pc' \notin {"down", "timer", "cleanup"}
           \/ pc' = pc /\ todo' \subseteq todo
    PROVE  Slots'
BY DEF DInv, Slots

LEMMA SlotsStep ==
    ASSUME DInv, [Next]_vars
    PROVE  Slots'
<1> USE DEF table
<1>1. ASSUME NEW b \in Bays, RescanSlot(b)
      PROVE  Slots'
  <2>1. pc' = "rescan"
    BY <1>1 DEF RescanSlot
  <2>2. CASE slot' = slot
    BY <2>1, <2>2 DEF DInv, Slots
  <2>3. CASE slot' = [slot EXCEPT ![b] = [dev |-> found[b], active |-> FALSE]]
    <3>1. [dev |-> found[b], active |-> FALSE] \in SlotSet
      BY DEF DInv, InStep, DevOrNone, SlotSet
    <3>2. slot' \in [Bays -> SlotSet]
      BY <2>3, <3>1 DEF DInv, Slots
    <3>3. \A x \in Bays : slot'[x].active => slot'[x] = slot[x]
      BY <2>3 DEF DInv, Slots
    <3> QED
      BY <2>1, <3>2, <3>3 DEF DInv, Slots
  <2> QED
    BY <1>1, <2>2, <2>3 DEF RescanSlot
<1>2. ASSUME NEW b \in Bays, RestoreSlot(b)
      PROVE  Slots'
  <2>1. /\ pc' = "timer" /\ pc = "timer" /\ todo' = todo \ {b}
        /\ slot' = [slot EXCEPT ![b].active = FALSE]
    BY <1>2 DEF RestoreSlot
  <2>2. slot' \in [Bays -> SlotSet]
    BY <2>1 DEF DInv, Slots, SlotSet
  <2>3. \A x \in Bays \ {b} : slot'[x] = slot[x]
    BY <2>1 DEF DInv, Slots
  <2>4. ~slot'[b].active
    BY <2>1 DEF DInv, Slots, SlotSet
  <2>5. todo' \subseteq Bays \ {b}
    BY <2>1 DEF DInv, Control
  <2> QED
    BY <2>1, <2>2, <2>3, <2>4, <2>5 DEF DInv, Slots
<1>3. CASE HandleBpf
  <2>1. pc' = "loop"
    BY <1>3, EventEffect
  <2>2. CASE slot' = slot
    BY <2>1, <2>2 DEF DInv, Slots
  <2>3. ASSUME NEW b \in Bays, slot[b].dev \in Devs,
               slot' = [slot EXCEPT ![b].active = TRUE]
        PROVE  Slots'
    <3>1. slot' \in [Bays -> SlotSet]
      BY <2>3 DEF DInv, Slots, SlotSet
    <3>2. \A x \in Bays : slot'[x].dev = slot[x].dev
      BY <2>3 DEF DInv, Slots, SlotSet
    <3>3. \A x \in Bays \ {b} : slot'[x] = slot[x]
      BY <2>3 DEF DInv, Slots
    <3> QED
      BY <2>1, <2>3, <3>1, <3>2, <3>3 DEF DInv, Slots
  <2> QED
    BY <1>3, <2>2, <2>3, EventEffect
<1>4. CASE HandleTimer
  <2>1. slot' = slot /\ pc' = "timer" /\ \A b \in todo' : b \in Bays /\ slot[b].active
    BY <1>4 DEF HandleTimer, Active
  <2> QED
    BY <2>1 DEF DInv, Slots
<1>5. CASE Discover
  BY <1>5, StillSlots DEF Discover
<1>6. CASE RescanEnds
  BY <1>6, GoneInv, StillSlots DEF RescanEnds
<1>7. CASE SyncEnds
  BY <1>7, StillSlots DEF SyncEnds
<1>8. CASE SyncFails
  BY <1>8, LeaveInv DEF SyncFails
<1>9. CASE Poll
  BY <1>9, StillSlots DEF Poll
<1>10. CASE HandleSignal
  BY <1>10, LeaveInv DEF HandleSignal
<1>11. CASE CleanupEnds
  BY <1>11, GoneInv DEF CleanupEnds
<1>12. CASE TimerEnds
  BY <1>12, StillSlots DEF TimerEnds
<1>13. CASE HandleUevent
  BY <1>13, LeaveInv, StillSlots DEF HandleUevent
<1>14. CASE BpfEnds
  BY <1>14, StillSlots DEF BpfEnds
<1>15. CASE Start
  BY <1>15, StillSlots DEF Start
<1>16. CASE Crash
  BY <1>16, GoneInv DEF Crash
<1>17. CASE Tick
  BY <1>17, StillSlots DEF Tick
<1>18. CASE Terminate
  BY <1>18, StillSlots DEF Terminate
<1>19. ASSUME NEW b \in Bays, SyncSlot(b)
      PROVE  Slots'
  BY <1>19, StillSlots DEF SyncSlot
<1>20. ASSUME NEW b \in Bays, CleanupSlot(b)
      PROVE  Slots'
  BY <1>20, StillSlots DEF CleanupSlot
<1>21. ASSUME NEW b \in Bays, Io(b)
      PROVE  Slots'
  BY <1>21, StillSlots DEF Io
<1>22. ASSUME NEW b \in Bays, Plug(b)
      PROVE  Slots'
  BY <1>22, StillSlots DEF Plug
<1>23. ASSUME NEW b \in Bays, UdevDone(b)
      PROVE  Slots'
  BY <1>23, StillSlots DEF UdevDone
<1>24. CASE UNCHANGED vars
  BY <1>24, StillSlots DEF vars
<1> QED
  BY <1>1, <1>2, <1>3, <1>4, <1>5, <1>6, <1>7, <1>8, <1>9, <1>10, <1>11, <1>12, <1>13, <1>14, <1>15, <1>16, <1>17, <1>18, <1>19, <1>20, <1>21, <1>22, <1>23, <1>24 DEF Next, Daemon, World

(* Steps that leave the deadlines and the timer alone.                     *)
LEMMA StillTiming ==
    ASSUME DInv, UNCHANGED <<slot, left, timer>>,
           pc \notin {"timer", "cleanup"} \/ pc' \in {"timer", "cleanup"}
    PROVE  Timing'
BY DEF DInv, Timing

LEMMA TimingStep ==
    ASSUME DInv, [Next]_vars
    PROVE  Timing'
<1> USE DEF table
<1>1. CASE Discover
  BY <1>1, StillTiming DEF Discover
<1>2. ASSUME NEW b \in Bays, RescanSlot(b)
      PROVE  Timing'
  <2>1. pc' = "rescan" /\ pc = "rescan" /\ timer' = timer
    BY <1>2 DEF RescanSlot
  <2>2. CASE UNCHANGED <<slot, left>>
    BY <2>1, <2>2, StillTiming
  <2>3. CASE /\ slot' = [slot EXCEPT ![b] = [dev |-> found[b], active |-> FALSE]]
             /\ left' = [left EXCEPT ![b] = 0]
    <3>1. left' \in [Bays -> 0 .. Hold]
      BY <2>3, ConfigAssumption DEF DInv, Timing
    <3>2. \A x \in Bays : slot'[x].active => slot[x].active /\ left'[x] = left[x]
      BY <2>3 DEF DInv, Slots, Timing
    <3> QED
      BY <2>1, <3>1, <3>2 DEF DInv, Timing
  <2> QED
    BY <1>2, <2>2, <2>3 DEF RescanSlot
<1>3. CASE RescanEnds
  BY <1>3, GoneInv, StillTiming DEF RescanEnds
<1>4. ASSUME NEW b \in Bays, SyncSlot(b)
      PROVE  Timing'
  BY <1>4, StillTiming DEF SyncSlot
<1>5. CASE SyncEnds
  BY <1>5, StillTiming DEF SyncEnds
<1>6. CASE SyncFails
  BY <1>6, LeaveInv DEF SyncFails
<1>7. CASE Poll
  BY <1>7, StillTiming DEF Poll
<1>8. CASE HandleSignal
  BY <1>8, LeaveInv DEF HandleSignal
<1>9. ASSUME NEW b \in Bays, CleanupSlot(b)
      PROVE  Timing'
  BY <1>9, StillTiming DEF CleanupSlot
<1>10. CASE CleanupEnds
  BY <1>10, GoneInv DEF CleanupEnds
<1>11. CASE HandleTimer
  <2>1. pc' = "timer" /\ timer' = Off /\ left' = left
    BY <1>11 DEF HandleTimer
  <2>2. Off \in 0 .. Off
    BY ConfigAssumption DEF Off
  <2> QED
    BY <2>1, <2>2 DEF DInv, Timing
<1>12. ASSUME NEW b \in Bays, RestoreSlot(b)
      PROVE  Timing'
  BY <1>12 DEF RestoreSlot, DInv, Timing
<1>13. CASE TimerEnds
  <2>1. /\ slot' = slot /\ left' = left /\ timer' = Earliest(slot, left)
        /\ left \in [Bays -> 0 .. Hold]
    BY <1>13 DEF TimerEnds, DInv, Timing
  <2>2. /\ Earliest(slot, left) \in 0 .. Off
        /\ \A b \in Bays : slot[b].active => Earliest(slot, left) <= left[b]
    BY <2>1, EarliestCovers
  <2> QED
    BY <2>1, <2>2 DEF Timing
<1>14. CASE HandleUevent
  BY <1>14, LeaveInv, StillTiming DEF HandleUevent
<1>15. CASE HandleBpf
  <2>1. pc = "loop"
    BY <1>15, EventEffect
  <2>2. CASE UNCHANGED <<slot, left, timer>>
    BY <2>1, <2>2, StillTiming
  <2>3. ASSUME NEW b \in Bays, left' = [left EXCEPT ![b] = Hold],
               timer' = Earliest(slot', left')
        PROVE  Timing'
    <3>1. left' \in [Bays -> 0 .. Hold]
      BY <2>3, ConfigAssumption DEF DInv, Timing
    <3>2. /\ Earliest(slot', left') \in 0 .. Off
          /\ \A x \in Bays : slot'[x].active => Earliest(slot', left') <= left'[x]
      BY <3>1, EarliestCovers
    <3> QED
      BY <2>3, <3>1, <3>2 DEF Timing
  <2> QED
    BY <1>15, <2>2, <2>3, EventEffect
<1>16. CASE BpfEnds
  BY <1>16, StillTiming DEF BpfEnds
<1>17. CASE Start
  BY <1>17, StillTiming DEF Start
<1>18. CASE Crash
  BY <1>18, GoneInv DEF Crash
<1>19. ASSUME NEW b \in Bays, Io(b)
      PROVE  Timing'
  BY <1>19, StillTiming DEF Io
<1>20. ASSUME NEW b \in Bays, Plug(b)
      PROVE  Timing'
  BY <1>20, StillTiming DEF Plug
<1>21. ASSUME NEW b \in Bays, UdevDone(b)
      PROVE  Timing'
  BY <1>21, StillTiming DEF UdevDone
<1>22. CASE Tick
  <2>1. /\ slot' = slot /\ pc' = pc
        /\ timer' = IF timer \in 1 .. Hold THEN timer - 1 ELSE timer
        /\ left' = [b \in Bays |-> IF left[b] > 0 THEN left[b] - 1 ELSE 0]
    BY <1>22 DEF Tick
  <2>2. /\ left \in [Bays -> 0 .. Hold] /\ timer \in 0 .. Hold + 1 /\ Hold \in Nat
        /\ Off = Hold + 1
    BY ConfigAssumption DEF DInv, Timing, Off
  <2>3. timer' \in 0 .. Hold + 1
    BY <2>1, <2>2
  <2>4. left' \in [Bays -> 0 .. Hold]
    BY <2>1, <2>2
  <2>5. \A b \in Bays : timer <= left[b] => timer' <= left'[b]
    BY <2>1, <2>2
  <2> QED
    BY <2>1, <2>2, <2>3, <2>4, <2>5 DEF DInv, Timing
<1>23. CASE Terminate
  BY <1>23, StillTiming DEF Terminate
<1>24. CASE UNCHANGED vars
  BY <1>24, StillTiming DEF vars
<1> QED
  BY <1>1, <1>2, <1>3, <1>4, <1>5, <1>6, <1>7, <1>8, <1>9, <1>10, <1>11, <1>12,
     <1>13, <1>14, <1>15, <1>16, <1>17, <1>18, <1>19, <1>20, <1>21, <1>22, <1>23, <1>24
  DEF Next, Daemon, World

(* The loops visit slots that are left to visit.                           *)
LEMMA LeastIn ==
    ASSUME todo \subseteq Bays, todo # {}
    PROVE  Min(todo) \in todo
BY LeastNatural, ConfigAssumption DEF Min

(* Steps that leave the LEDs and the slots alone.                          *)
LEMMA StillLights ==
    ASSUME DInv, UNCHANGED <<slot, led, dirty>>,
           \/ pc # "cleanup" /\ pc' # "cleanup"
           \/ UNCHANGED <<pc, todo>>
    PROVE  Lights'
BY DEF DInv, Lights, Shows

(* A command to one LED.                                                   *)
LEMMA OneLit ==
    ASSUME DInv, NEW b \in Bays, NEW o, o.led \in Led, o.ok \in BOOLEAN,
           Commanded(b, o), Repaired(b, o)
    PROVE  /\ led' \in [Bays -> Led] /\ led'[b] = o.led
           /\ \A x \in Bays \ {b} : led'[x] = led[x]
           /\ dirty' \subseteq Bays
           /\ o.ok \/ b \in dirty'
           /\ \A x \in Bays \ dirty' : x # b => x \notin dirty
BY DEF Commanded, Repaired, DInv, Lights

LEMMA LightsStep ==
    ASSUME DInv, [Next]_vars
    PROVE  Lights'
<1> USE DEF table
<1>1. CASE Discover
  BY <1>1, StillLights DEF Discover
<1>2. ASSUME NEW b \in Bays, RescanSlot(b)
      PROVE  Lights'
  <2>1. pc' = "rescan" /\ pc = "rescan"
    BY <1>2 DEF RescanSlot
  <2>2. CASE slot[b].dev = found[b]
    BY <1>2, <2>1, <2>2, StillLights DEF RescanSlot
  <2>3. CASE slot[b].dev # found[b]
    <3>1. PICK o \in IF found[b] # NoDev THEN SetSteady(Invalidated(led[b]))
                     ELSE Put(Invalidated(led[b]), "mode", "off") :
            Commanded(b, o) /\ Repaired(b, o)
      BY <1>2, <2>3 DEF RescanSlot
    <3>2. slot' = [slot EXCEPT ![b] = [dev |-> found[b], active |-> FALSE]]
      BY <1>2, <2>3 DEF RescanSlot
    <3>3. /\ slot'[b].dev = found[b] /\ ~slot'[b].active
          /\ \A x \in Bays \ {b} : slot'[x] = slot[x]
      BY <3>2 DEF DInv, Slots
    <3>4. Invalidated(led[b]) \in Led
      BY Forgotten DEF DInv, Lights
    <3>5. /\ o.led \in Led /\ o.ok \in BOOLEAN
          /\ o.ok /\ found[b] # NoDev =>
               o.led.look = "configured" /\ o.led.mode = Steady
          /\ o.ok /\ found[b] = NoDev => o.led.mode = "off"
      <4>1. CASE found[b] # NoDev
        BY <3>1, <3>4, <4>1, SteadySet
      <4>2. CASE found[b] = NoDev
        BY <3>1, <3>4, <4>2, PutMode
      <4> QED
        BY <4>1, <4>2
    <3>6. /\ led' \in [Bays -> Led] /\ led'[b] = o.led
          /\ \A x \in Bays \ {b} : led'[x] = led[x]
          /\ dirty' \subseteq Bays
          /\ o.ok \/ b \in dirty'
          /\ \A x \in Bays \ dirty' : x # b => x \notin dirty
      BY <3>1, <3>5, OneLit
    <3>7. \A x \in Bays : slot'[x].active => led'[x].mode = "blink"
      BY <2>1, <3>3, <3>6 DEF DInv, Lights
    <3>8. \A x \in Bays \ dirty' : Shows(x)'
      BY <2>1, <3>3, <3>5, <3>6, DevAssumption DEF DInv, Lights, Shows
    <3> QED
      BY <2>1, <3>6, <3>7, <3>8 DEF Lights
  <2> QED
    BY <2>2, <2>3
<1>3. CASE RescanEnds
  BY <1>3, GoneInv, StillLights DEF RescanEnds
<1>4. ASSUME NEW b \in Bays, SyncSlot(b)
      PROVE  Lights'
  BY <1>4, StillLights DEF SyncSlot
<1>5. CASE SyncEnds
  BY <1>5, StillLights DEF SyncEnds
<1>6. CASE SyncFails
  BY <1>6, LeaveInv DEF SyncFails
<1>7. CASE Poll
  BY <1>7, StillLights DEF Poll
<1>8. CASE HandleSignal
  BY <1>8, LeaveInv DEF HandleSignal
<1>9. ASSUME NEW b \in Bays, CleanupSlot(b)
      PROVE  Lights'
  <2>1. pc' = "cleanup" /\ pc = "cleanup" /\ slot' = slot /\ todo' = todo \ {b}
        /\ b \in todo
    <3>1. todo # {} /\ b = Min(todo) /\ todo \subseteq Bays
      BY <1>9 DEF CleanupSlot, DInv, Control
    <3> QED
      BY <1>9, <3>1, LeastIn DEF CleanupSlot
  <2>2. CASE Present(b)
    <3>1. PICK o \in SetSteady(led[b]) : Commanded(b, o) /\ Repaired(b, o)
      BY <1>9, <2>2 DEF CleanupSlot
    <3>2. /\ o.led \in Led /\ o.ok \in BOOLEAN
          /\ o.ok => o.led.look = "configured" /\ o.led.mode = Steady
      BY <3>1, SteadySet DEF DInv, Lights
    <3>3. /\ led' \in [Bays -> Led] /\ led'[b] = o.led
          /\ \A x \in Bays \ {b} : led'[x] = led[x]
          /\ dirty' \subseteq Bays
          /\ o.ok \/ b \in dirty'
          /\ \A x \in Bays \ dirty' : x # b => x \notin dirty
      BY <3>1, <3>2, OneLit
    <3>4. Steady # "blink"
      BY DEF Steady
    <3>5. \A x \in Bays \ dirty' : x \in todo' => Shows(x)'
      BY <2>1, <3>3 DEF DInv, Lights, Shows
    <3>6. \A x \in Bays \ dirty' : x \notin todo' => led'[x].mode # "blink"
      BY <2>1, <3>2, <3>3, <3>4 DEF DInv, Lights
    <3> QED
      BY <2>1, <3>3, <3>5, <3>6 DEF Lights
  <2>3. CASE ~Present(b)
    <3>1. UNCHANGED <<led, dirty>>
      BY <1>9, <2>3 DEF CleanupSlot
    <3>2. slot[b].dev = NoDev
      BY <2>1, <2>3 DEF DInv, Slots, SlotSet, Present
    <3>3. b \notin dirty => led[b].mode # "blink"
      BY <2>1, <3>2 DEF DInv, Lights, Shows
    <3> QED
      BY <2>1, <3>1, <3>3 DEF DInv, Lights, Shows
  <2> QED
    BY <2>2, <2>3
<1>10. CASE CleanupEnds
  BY <1>10, GoneInv DEF CleanupEnds
<1>11. CASE HandleTimer
  BY <1>11, StillLights DEF HandleTimer
<1>12. ASSUME NEW b \in Bays, RestoreSlot(b)
      PROVE  Lights'
  <2>1. pc' = "timer" /\ pc = "timer" /\ b \in todo
        /\ slot' = [slot EXCEPT ![b].active = FALSE]
    <3>1. todo # {} /\ b = Min(todo) /\ todo \subseteq Bays
      BY <1>12 DEF RestoreSlot, DInv, Control
    <3> QED
      BY <1>12, <3>1, LeastIn DEF RestoreSlot
  <2>2. PICK o \in SetSteady(led[b]) : Commanded(b, o) /\ Repaired(b, o)
    BY <1>12 DEF RestoreSlot
  <2>3. /\ o.led \in Led /\ o.ok \in BOOLEAN
        /\ o.ok => o.led.look = "configured" /\ o.led.mode = Steady
    BY <2>2, SteadySet DEF DInv, Lights
  <2>4. /\ led' \in [Bays -> Led] /\ led'[b] = o.led
        /\ \A x \in Bays \ {b} : led'[x] = led[x]
        /\ dirty' \subseteq Bays
        /\ o.ok \/ b \in dirty'
        /\ \A x \in Bays \ dirty' : x # b => x \notin dirty
    BY <2>2, <2>3, OneLit
  <2>5. /\ ~slot'[b].active /\ slot'[b].dev = slot[b].dev
        /\ \A x \in Bays \ {b} : slot'[x] = slot[x]
    BY <2>1 DEF DInv, Slots, SlotSet
  <2>6. slot[b].dev \in Devs
    BY <2>1 DEF DInv, Slots
  <2>7. \A x \in Bays : slot'[x].active => led'[x].mode = "blink"
    BY <2>1, <2>4, <2>5 DEF DInv, Lights
  <2>8. \A x \in Bays \ dirty' : Shows(x)'
    BY <2>1, <2>3, <2>4, <2>5, <2>6, DevAssumption DEF DInv, Lights, Shows
  <2> QED
    BY <2>1, <2>4, <2>7, <2>8 DEF Lights
<1>13. CASE TimerEnds
  BY <1>13, StillLights DEF TimerEnds
<1>14. CASE HandleUevent
  BY <1>14, LeaveInv, StillLights DEF HandleUevent
<1>15. CASE HandleBpf
  <2>1. pc = "loop" /\ pc' = "loop"
    BY <1>15, EventEffect
  <2>2. CASE UNCHANGED <<led, slot, dirty>>
    BY <2>1, <2>2, StillLights
  <2>3. ASSUME NEW b \in Bays, NEW l \in Led,
               slot[b].dev \in Devs,
               l.look = led[b].look,
               led' = [led EXCEPT ![b] = l],
               \/ /\ ~slot[b].active
                  /\ dirty' = dirty \cup {b}
                  /\ slot' = slot
               \/ /\ l.mode = "blink"
                  /\ slot' = [slot EXCEPT ![b].active = TRUE]
                  /\ dirty' = dirty
        PROVE  Lights'
    <3>1. /\ led' \in [Bays -> Led] /\ led'[b] = l
          /\ \A x \in Bays \ {b} : led'[x] = led[x]
      BY <2>3 DEF DInv, Lights
    <3>2. /\ slot'[b].dev = slot[b].dev
          /\ \A x \in Bays \ {b} : slot'[x] = slot[x]
      BY <2>3 DEF DInv, Slots, SlotSet
    <3>3. \/ ~slot'[b].active /\ dirty' = dirty \cup {b}
          \/ slot'[b].active /\ l.mode = "blink" /\ dirty' = dirty
      BY <2>3 DEF DInv, Slots, SlotSet
    <3>4. \A x \in Bays : slot'[x].active => led'[x].mode = "blink"
      BY <2>1, <3>1, <3>2, <3>3 DEF DInv, Lights
    <3>5. \A x \in Bays \ dirty' : Shows(x)'
      BY <2>1, <2>3, <3>1, <3>2, <3>3, DevAssumption DEF DInv, Lights, Shows
    <3>6. dirty' \subseteq Bays
      BY <3>3 DEF DInv, Lights
    <3> QED
      BY <2>1, <3>1, <3>4, <3>5, <3>6 DEF Lights
  <2> QED
    BY <1>15, <2>2, <2>3, EventEffect
<1>16. CASE BpfEnds
  BY <1>16, StillLights DEF BpfEnds
<1>17. CASE Start
  BY <1>17, StillLights DEF Start
<1>18. CASE Crash
  BY <1>18, GoneInv DEF Crash
<1>19. ASSUME NEW b \in Bays, Io(b)
      PROVE  Lights'
  BY <1>19, StillLights DEF Io
<1>20. ASSUME NEW b \in Bays, Plug(b)
      PROVE  Lights'
  BY <1>20, StillLights DEF Plug
<1>21. ASSUME NEW b \in Bays, UdevDone(b)
      PROVE  Lights'
  BY <1>21, StillLights DEF UdevDone
<1>22. CASE Tick
  BY <1>22, StillLights DEF Tick
<1>23. CASE Terminate
  BY <1>23, StillLights DEF Terminate
<1>24. CASE UNCHANGED vars
  BY <1>24, StillLights DEF vars
<1> QED
  BY <1>1, <1>2, <1>3, <1>4, <1>5, <1>6, <1>7, <1>8, <1>9, <1>10, <1>11, <1>12,
     <1>13, <1>14, <1>15, <1>16, <1>17, <1>18, <1>19, <1>20, <1>21, <1>22, <1>23, <1>24
  DEF Next, Daemon, World

(* Steps that leave the devices of the slots and of the maps alone.        *)
LEMMA StillInStep ==
    ASSUME DInv, UNCHANGED <<found, targets>>,
           \A b \in Bays : slot'[b].dev = slot[b].dev,
           \/ pc' \in {"down", "discover", "cleanup"}
           \/ UNCHANGED <<pc, todo>>
           \/ pc \in {"loop", "timer"} /\ pc' \in {"loop", "timer"}
    PROVE  InStep'
BY DEF DInv, InStep

LEMMA InStepStep ==
    ASSUME DInv, [Next]_vars
    PROVE  InStep'
<1> USE DEF table
<1>1. CASE Discover
  <2>1. Visible \in [Bays -> DevOrNone]
    BY DEF Visible, DevOrNone, DInv, Outside
  <2> QED
    BY <1>1, <2>1 DEF Discover, DInv, InStep
<1>2. ASSUME NEW b \in Bays, RescanSlot(b)
      PROVE  InStep'
  <2>1. pc' = "rescan" /\ pc = "rescan" /\ todo' = todo \ {b}
        /\ UNCHANGED <<found, targets>>
    BY <1>2 DEF RescanSlot
  <2>2. slot'[b].dev = found[b] /\ \A x \in Bays \ {b} : slot'[x] = slot[x]
    <3>1. CASE slot[b].dev = found[b]
      BY <1>2, <3>1 DEF RescanSlot
    <3>2. CASE slot[b].dev # found[b]
      <4>1. slot' = [slot EXCEPT ![b] = [dev |-> found[b], active |-> FALSE]]
        BY <1>2, <3>2 DEF RescanSlot
      <4> QED
        BY <4>1 DEF DInv, Slots
    <3> QED
      BY <3>1, <3>2
  <2> QED
    BY <2>1, <2>2 DEF DInv, InStep
<1>3. CASE RescanEnds
  <2>1. CASE Gone
    BY <2>1, GoneInv
  <2>2. CASE /\ pc' = "sync" /\ targets' = Empty /\ todo' = Bays
             /\ UNCHANGED <<found, slot>>
    BY <1>3, <2>2 DEF RescanEnds, DInv, InStep, Empty, DevOrNone
  <2> QED
    BY <1>3, <2>1, <2>2 DEF RescanEnds
<1>4. ASSUME NEW b \in Bays, SyncSlot(b)
      PROVE  InStep'
  <2>1. /\ pc' = "sync" /\ pc = "sync" /\ todo' = todo \ {b}
        /\ UNCHANGED <<found, slot>>
        /\ targets' = [targets EXCEPT ![b] = IF Present(b) THEN slot[b].dev ELSE NoDev]
    BY <1>4 DEF SyncSlot
  <2>2. slot[b].dev = found[b] /\ found[b] \in Devs \cup {NoDev}
    BY <2>1 DEF DInv, InStep, DevOrNone
  <2>3. targets' = [targets EXCEPT ![b] = found[b]]
    BY <2>1, <2>2 DEF Present
  <2> QED
    BY <2>1, <2>2, <2>3 DEF DInv, InStep, DevOrNone
<1>5. CASE SyncEnds
  BY <1>5 DEF SyncEnds, DInv, InStep
<1>6. CASE SyncFails
  BY <1>6, LeaveInv DEF SyncFails
<1>7. CASE Poll
  BY <1>7, StillInStep DEF Poll
<1>8. CASE HandleSignal
  BY <1>8, LeaveInv DEF HandleSignal
<1>9. ASSUME NEW b \in Bays, CleanupSlot(b)
      PROVE  InStep'
  BY <1>9, StillInStep DEF CleanupSlot
<1>10. CASE CleanupEnds
  BY <1>10, GoneInv DEF CleanupEnds
<1>11. CASE HandleTimer
  BY <1>11, StillInStep DEF HandleTimer
<1>12. ASSUME NEW b \in Bays, RestoreSlot(b)
      PROVE  InStep'
  <2>1. /\ pc' = "timer" /\ pc = "timer" /\ UNCHANGED <<found, targets>>
        /\ slot' = [slot EXCEPT ![b].active = FALSE]
    BY <1>12 DEF RestoreSlot
  <2>2. \A x \in Bays : slot'[x].dev = slot[x].dev
    BY <2>1 DEF DInv, Slots, SlotSet
  <2> QED
    BY <2>1, <2>2, StillInStep
<1>13. CASE TimerEnds
  BY <1>13, StillInStep DEF TimerEnds
<1>14. CASE HandleUevent
  BY <1>14, LeaveInv, StillInStep DEF HandleUevent
<1>15. CASE HandleBpf
  <2>1. UNCHANGED <<pc, todo, found, targets>>
    BY <1>15, EventEffect
  <2>2. \/ slot' = slot
        \/ \E b \in Bays : slot' = [slot EXCEPT ![b].active = TRUE]
    BY <1>15, EventEffect
  <2>3. \A x \in Bays : slot'[x].dev = slot[x].dev
    BY <2>2 DEF DInv, Slots, SlotSet
  <2> QED
    BY <2>1, <2>3, StillInStep
<1>16. CASE BpfEnds
  BY <1>16, StillInStep DEF BpfEnds
<1>17. CASE Start
  BY <1>17, StillInStep DEF Start
<1>18. CASE Crash
  BY <1>18, GoneInv DEF Crash
<1>19. ASSUME NEW b \in Bays, Io(b)
      PROVE  InStep'
  BY <1>19, StillInStep DEF Io
<1>20. ASSUME NEW b \in Bays, Plug(b)
      PROVE  InStep'
  BY <1>20, StillInStep DEF Plug
<1>21. ASSUME NEW b \in Bays, UdevDone(b)
      PROVE  InStep'
  BY <1>21, StillInStep DEF UdevDone
<1>22. CASE Tick
  BY <1>22, StillInStep DEF Tick
<1>23. CASE Terminate
  BY <1>23, StillInStep DEF Terminate
<1>24. CASE UNCHANGED vars
  BY <1>24, StillInStep DEF vars
<1> QED
  BY <1>1, <1>2, <1>3, <1>4, <1>5, <1>6, <1>7, <1>8, <1>9, <1>10, <1>11, <1>12,
     <1>13, <1>14, <1>15, <1>16, <1>17, <1>18, <1>19, <1>20, <1>21, <1>22, <1>23, <1>24
  DEF Next, Daemon, World

-----------------------------------------------------------------------------
(* The invariant holds of every behaviour.                                 *)
LEMMA DAlways == Spec => []DInv
<1>1. DInv /\ [Next]_vars => DInv'
  BY OutsideStep, CountsStep, FlagsStep, ControlStep, SlotsStep, TimingStep, LightsStep,
     InStepStep
  DEF DInv
<1> QED
  BY <1>1, DInit, PTL DEF Spec

(* Every variable has its type, and no handler leaves a slot to visit.     *)
THEOREM Typing == Spec => []TypeOK
<1>1. DInv => TypeOK
  BY DEF DInv, Outside, Counts, Flags, Control, Slots, SlotSet, Timing, Lights, InStep,
         DevOrNone, TypeOK
<1> QED
  BY <1>1, DAlways, PTL

(* arm_timer: the one timer covers the deadlines of all active slots.      *)
THEOREM NoBlinkForgotten == Spec => []TimerCovers
<1>1. DInv => TimerCovers
  BY DEF DInv, Timing, Active, TimerCovers
<1> QED
  BY <1>1, DAlways, PTL

(* disk_leds_handle_activity makes a slot active only when its LED blinks, *)
(* and nothing else changes the LED of an active slot.                     *)
THEOREM BlinkIsReal == Spec => []ActiveBlinks
<1>1. DInv => ActiveBlinks
  BY DEF DInv, Lights, Active, ActiveBlinks
<1> QED
  BY <1>1, DAlways, PTL

(* A bay whose commands worked shows its slot, from the first scan on.     *)
THEOREM BayShown == Spec => []BayShowsState
<1>1. DInv => BayShowsState
  BY DEF DInv, Lights, Shows, Present, BayShowsState
<1> QED
  BY <1>1, DAlways, PTL

(* disk_leds_cleanup: no LED blinks after an orderly end.                  *)
THEOREM EndSteady == Spec => StoppedSteady
<1>1. DInv /\ [Next]_vars =>
        (pc = "cleanup" /\ todo = {} /\ pc' = "down" =>
           \A b \in Bays \ dirty : led'[b].mode # "blink")
  <2> SUFFICES ASSUME DInv, [Next]_vars, pc = "cleanup", todo = {}, pc' = "down"
               PROVE  \A b \in Bays \ dirty : led'[b].mode # "blink"
    OBVIOUS
  <2>1. Gone
    BY DEF Next, Daemon, World, Discover, RescanSlot, SyncSlot, CleanupSlot,
           RestoreSlot, RescanEnds, SyncEnds, SyncFails, Poll, HandleSignal,
           CleanupEnds, HandleTimer, TimerEnds, HandleUevent, HandleBpf, BpfEnds,
           Start, Crash, Tick, Terminate, Io, Plug, UdevDone, vars
  <2>2. \A b \in Bays : led'[b].mode = led[b].mode
    BY <2>1, Forgotten DEF Gone, DInv, Lights
  <2> QED
    BY <2>2 DEF DInv, Lights
<1>2. DInv /\ [Next]_vars =>
        [pc = "cleanup" /\ todo = {} /\ pc' = "down" =>
           \A b \in Bays \ dirty : led'[b].mode # "blink"]_vars
  BY <1>1
<1> QED
  BY <1>2, DAlways, PTL DEF Spec, StoppedSteady

-----------------------------------------------------------------------------
(* What discover found is what there is, as long as no uevent is queued.   *)
(* With disk_mapping serial it is what udev's database knew, which changes *)
(* without a uevent.                                                       *)
Fresh ==
    pc \in {"rescan", "sync", "loop", "timer"} /\ uevents = "none" => found = bays

LEMMA FreshStep ==
    ASSUME ~BySerial, DInv, Fresh, [Next]_vars
    PROVE  Fresh'
<1>1. CASE Discover
  <2>1. Visible = bays
    BY DEF Visible, DInv, Outside
  <2> QED
    BY <1>1, <2>1 DEF Discover, env, Fresh
<1>2. ASSUME NEW b \in Bays, Plug(b)
      PROVE  Fresh'
  BY <1>2 DEF Plug, Announced, Fresh, DInv, Outside
<1>3. CASE Gone \/ LeaveLoop
  BY <1>3 DEF Gone, LeaveLoop, Fresh
<1>4. ASSUME NEW b \in Bays, RescanSlot(b) \/ SyncSlot(b) \/ CleanupSlot(b) \/ RestoreSlot(b)
      PROVE  Fresh'
  BY <1>4 DEF RescanSlot, SyncSlot, CleanupSlot, RestoreSlot, Fresh, env
<1>5. ASSUME NEW b \in Bays, Io(b) \/ UdevDone(b)
      PROVE  Fresh'
  BY <1>5 DEF Io, UdevDone, Fresh
<1>6. CASE RescanEnds
  BY <1>3, <1>6 DEF RescanEnds, Fresh, env
<1>7. CASE SyncEnds \/ Poll \/ HandleTimer \/ TimerEnds \/ HandleBpf \/ BpfEnds
  BY <1>7 DEF SyncEnds, Poll, HandleTimer, TimerEnds, HandleBpf, BpfEnds, Fresh, env
<1>8. CASE SyncFails \/ HandleSignal \/ CleanupEnds \/ Crash
  BY <1>3, <1>8 DEF SyncFails, HandleSignal, CleanupEnds, Crash
<1>9. CASE HandleUevent
  BY <1>3, <1>9 DEF HandleUevent, Fresh
<1>10. CASE Start \/ Tick \/ Terminate
  BY <1>10 DEF Start, Tick, Terminate, Fresh, env
<1>11. CASE UNCHANGED vars
  BY <1>11 DEF vars, env, Fresh
<1> QED
  BY <1>1, <1>2, <1>4, <1>5, <1>6, <1>7, <1>8, <1>9, <1>10, <1>11
  DEF Next, Daemon, World

(* No change in the bays is lost between a scan and a uevent that comes    *)
(* later, when slots are found by their port.                              *)
THEOREM PortsInStep ==
    ASSUME ~BySerial
    PROVE  Spec => []QuiescentSynced
<1>1. Init => Fresh
  BY DEF Init, Fresh
<1>2. Fresh /\ DInv /\ [Next]_vars => Fresh'
  BY FreshStep
<1>3. Fresh /\ DInv => QuiescentSynced
  <2> SUFFICES ASSUME Fresh, DInv, pc = "loop", uevents = "none", NEW b \in Bays
               PROVE  slot[b].dev = Visible[b] /\ targets[b] = Visible[b]
    BY DEF QuiescentSynced
  <2>1. Visible[b] = found[b]
    BY DEF Visible, Fresh
  <2> QED
    BY <2>1 DEF DInv, InStep
<1> QED
  BY <1>1, <1>2, <1>3, DAlways, PTL DEF Spec
=============================================================================

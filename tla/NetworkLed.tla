----------------------------- MODULE NetworkLed -----------------------------
(***************************************************************************)
(* The network half of ugreen-ledd: the TC programs of                     *)
(* ebpf/bpf/network.bpf.c that count bytes, the events ring, and the       *)
(* pulses of ebpf/src/network_led.c driven by the event loop of            *)
(* ebpf/src/main.c.                                                        *)
(*                                                                         *)
(* Bytes are counted in packets.  A setter of the LED controller behaves   *)
(* as in DiskLeds.  Which of two directions that both have bytes is shown  *)
(* is up to Scheduler; here it may be either.                              *)
(***************************************************************************)
EXTENDS Integers, FiniteSets, Sequences

CONSTANTS Cpus,        \* CPUs that handle packets
          Interval,    \* network_interval_ns, in ticks
          PulseTicks,  \* network_pulse_ms, in ticks
          RingSize,    \* records the events ring holds
          MaxPackets,  \* bounds of the model on packets
          MaxFaults    \*   and on commands that fail

ASSUME ConfigAssumption == 
    /\ Interval \in Nat \ {0} /\ PulseTicks \in Nat \ {0}
    /\ RingSize \in Nat \ {0}
ASSUME CpuAssumption == IsFiniteSet(Cpus)
ASSUME BoundAssumption == MaxPackets \in Nat /\ MaxFaults \in Nat

VARIABLES acc,     \* network_state: bytes since the last event
          wait,    \* next_emit_ns - now, 0 when it is past or not set
          out,     \* per CPU, the event it has still to put in the ring
          ring,    \* the ring
          pending, \* pending_rx_bytes, pending_tx_bytes
          led_on,  \* a pulse is shown
          timer,   \* the timerfd: ticks left, 0 when readable, or Off
          led,     \* the MCU: its registers, and those the cache knows
          stop,    \* a SIGTERM is pending
          pc,      \* what the daemon does; "down" when there is none
          ready,   \* descriptors poll reported, still to be handled
          faults,  \* commands that failed so far
          sent,    \* history: the packets counted
          done,    \* history: those that were shown or dropped, or are lost
          dirty    \* history: a failed command or a kill may have left it lit

kernel == <<acc, wait, out, ring, sent>>
net == <<pending, led_on, timer>>
vars == <<kernel, net, led, stop, pc, ready, faults, done, dirty>>

Dirs == {"rx", "tx"}

Off == PulseTicks + 1

None == [d \in Dirs |-> 0]

Plus(a, b) == [d \in Dirs |-> a[d] + b[d]]

(* As Put of DiskLeds: the outcomes of a setter, and of two in sequence.   *)
Put(l, reg, val) ==
    IF reg \in l.known /\ l[reg] = val
    THEN {[led |-> l, ok |-> TRUE]}
    ELSE LET set == [l EXCEPT ![reg] = val] IN
         {[led |-> [set EXCEPT !.known = @ \cup {reg}], ok |-> TRUE]}
         \cup {[led |-> [x EXCEPT !.known = {}], ok |-> FALSE] : x \in {l, set}}

Then(outcomes, reg, val) ==
    UNION {IF o.ok THEN Put(o.led, reg, val) ELSE {o} : o \in outcomes}

Commanded(o) ==
    /\ led' = o.led
    /\ o.ok \/ faults < MaxFaults
    /\ faults' = IF o.ok THEN faults ELSE faults + 1

-----------------------------------------------------------------------------
(* The collector is attached from the end of the start to bpf_runtime_stop.*)
Attached == pc \in {"loop", "render"}

(* account_packet, under the spin lock of network_state: the bytes are     *)
(* added and, if the deadline is past, taken out as an event.  The clock   *)
(* was read before the lock, so the deadline may have passed unseen, and   *)
(* the next one is an interval after that reading, not after the event.    *)
Packet(c, d) ==
    LET total == [acc EXCEPT ![d] = @ + 1] IN
    /\ Attached
    /\ sent["rx"] + sent["tx"] < MaxPackets
    /\ out[c] = None
    /\ sent' = [sent EXCEPT ![d] = @ + 1]
    /\ \/ acc' = total /\ UNCHANGED <<out, wait>>
       \/ /\ wait = 0
          /\ acc' = None
          /\ out' = [out EXCEPT ![c] = total]
          /\ wait' \in 0 .. Interval
    /\ UNCHANGED <<ring, net, led, stop, pc, ready, faults, done, dirty>>

(* The event is put in the ring after the unlock, or lost when it is full. *)
Output(c) ==
    /\ out[c] # None
    /\ out' = [out EXCEPT ![c] = None]
    /\ IF Len(ring) < RingSize
       THEN ring' = Append(ring, out[c]) /\ UNCHANGED done
       ELSE done' = Plus(done, out[c]) /\ UNCHANGED ring
    /\ UNCHANGED <<acc, wait, sent, net, led, stop, pc, ready, faults, dirty>>

-----------------------------------------------------------------------------
(* The start and the end of the daemon.                                    *)

Detached ==
    /\ acc' = None /\ wait' = 0
    /\ out' = [c \in Cpus |-> None]
    /\ ring' = <<>>

(* The process is gone, and with it the ring, the timer and all packets    *)
(* that were on their way.  Where the filters outlive it (see Daemon),     *)
(* nobody reads what they count.                                           *)
Gone ==
    /\ pc' = "down"
    /\ done' = sent
    /\ Detached
    /\ pending' = None /\ led_on' = FALSE /\ timer' = Off
    /\ stop' = FALSE /\ ready' = {}
    /\ UNCHANGED sent

Start ==
    /\ pc = "down"
    /\ pc' = "init"
    /\ UNCHANGED <<kernel, net, led, stop, ready, faults, done, dirty>>

BugInitLeavesLit ==
    /\ pc = "init"
    /\ \E o \in Put(led, "brightness", "configured") :
         /\ Commanded(o)
         /\ IF o.ok
            THEN /\ pc' \in {"loop", "cleanup"}
                 /\ UNCHANGED <<kernel, net, stop, ready, done>>
            ELSE Gone
         /\ dirty' = ~o.ok

(* network_led_init.  If it fails, the daemon ends and does not touch the  *)
(* LED again; if bpf_runtime_start after it fails, the daemon cleans up.   *)
InitLed ==
    /\ pc = "init"
    /\ \E o \in Then(Put(led, "brightness", "configured"), "mode", "off") :
         /\ Commanded(o)
         /\ IF o.ok
            THEN /\ pc' \in {"loop", "cleanup"}
                 /\ UNCHANGED <<kernel, net, stop, ready, done>>
            ELSE Gone
         /\ dirty' = ~o.ok

(* SIGKILL, or the host resets: the pulse shown stays.                     *)
Crash ==
    /\ pc # "down"
    /\ Gone
    /\ led' = [led EXCEPT !.known = {}]
    /\ dirty' = (dirty \/ led_on)
    /\ UNCHANGED faults

-----------------------------------------------------------------------------
(* run_event_loop.  A definition named Bug... is a mistake that could have  *)
(* been made in the one after it; it is no part of the specification.      *)

Readable ==
    {f \in {"signal", "timer", "bpf"} :
        \/ f = "signal" /\ stop
        \/ f = "timer" /\ timer = 0
        \/ f = "bpf" /\ ring # <<>>}

Poll ==
    /\ pc = "loop" /\ ready = {} /\ Readable # {}
    /\ ready' = Readable
    /\ UNCHANGED <<kernel, net, led, stop, pc, faults, done, dirty>>

(* The loop ends and bpf_runtime_stop detaches the collector.              *)
HandleSignal ==
    /\ pc = "loop" /\ "signal" \in ready
    /\ pc' = "cleanup"
    /\ ready' = {}
    /\ Detached
    /\ pending' = None
    /\ done' = sent
    /\ UNCHANGED <<led_on, timer, led, stop, sent, faults, dirty>>

(* network_led_cleanup, and the process is gone.                           *)
Cleanup ==
    /\ pc = "cleanup"
    /\ \E o \in Put(led, "mode", "off") :
         /\ led' = [o.led EXCEPT !.known = {}]
         /\ o.ok \/ faults < MaxFaults
         /\ faults' = IF o.ok THEN faults ELSE faults + 1
         /\ dirty' = ~o.ok
    /\ Gone

BugTimerKeepsPulse ==
    /\ pc = "loop" /\ "timer" \in ready /\ "signal" \notin ready
    /\ timer' = Off
    /\ IF led_on
       THEN \E o \in Put(led, "mode", "off") :
              /\ Commanded(o)
              /\ dirty' = ~o.ok
              /\ led_on' = ~o.ok
              /\ pc' = IF o.ok THEN "render" ELSE "loop"
              /\ ready' = IF o.ok THEN ready ELSE ready \ {"timer"}
       ELSE /\ ready' = ready \ {"timer"}
            /\ UNCHANGED <<led, led_on, pc, faults, dirty>>
    /\ UNCHANGED <<kernel, pending, stop, done>>

BugTimerDoesNotRender ==
    /\ pc = "loop" /\ "timer" \in ready /\ "signal" \notin ready
    /\ timer' = Off
    /\ ready' = ready \ {"timer"}
    /\ IF led_on
       THEN \E o \in Put(led, "mode", "off") :
              /\ Commanded(o)
              /\ dirty' = ~o.ok
              /\ led_on' = FALSE
       ELSE UNCHANGED <<led, led_on, faults, dirty>>
    /\ UNCHANGED <<kernel, pending, stop, pc, done>>

(* network_led_handle_timer: the pulse is over, even if its LED failed,    *)
(* and what is pending is rendered in the same call.                       *)
HandleTimer ==
    /\ pc = "loop" /\ "timer" \in ready /\ "signal" \notin ready
    /\ timer' = Off
    /\ IF led_on
       THEN \E o \in Put(led, "mode", "off") :
              /\ Commanded(o)
              /\ dirty' = ~o.ok
              /\ led_on' = FALSE
              /\ pc' = "render"
              /\ UNCHANGED ready
       ELSE /\ ready' = ready \ {"timer"}
            /\ UNCHANGED <<led, led_on, pc, faults, dirty>>
    /\ UNCHANGED <<kernel, pending, stop, done>>

BugConsumeReplaces ==
    /\ pc = "loop" /\ ready = {"bpf"} /\ ring # <<>>
    /\ pending' = Head(ring)
    /\ ring' = Tail(ring)
    /\ UNCHANGED <<acc, wait, out, sent, led_on, timer, led, stop, pc, ready,
                   faults, done, dirty>>

(* bpf_runtime_consume calls network_led_add_sample for each record, those *)
(* that arrive meanwhile included.                                         *)
Consume ==
    /\ pc = "loop" /\ ready = {"bpf"} /\ ring # <<>>
    /\ pending' = Plus(pending, Head(ring))
    /\ ring' = Tail(ring)
    /\ UNCHANGED <<acc, wait, out, sent, led_on, timer, led, stop, pc, ready,
                   faults, done, dirty>>

ConsumeEnds ==
    /\ pc = "loop" /\ ready = {"bpf"} /\ ring = <<>>
    /\ pc' = "render"
    /\ UNCHANGED <<kernel, net, led, stop, ready, faults, done, dirty>>

(* Render returns to the loop, its caller's descriptor is handled.         *)
Rendered ==
    /\ pc' = "loop"
    /\ ready' = IF "timer" \in ready THEN ready \ {"timer"} ELSE {}

BugRenderKeepsTimer ==
    /\ pc = "render"
    /\ ~led_on /\ pending # None
    /\ pending' = None
    /\ done' = Plus(done, pending)
    /\ \E d \in {x \in Dirs : pending[x] > 0} :
       \E o \in Then(Put(led, "color", d), "mode", "on") :
         /\ Commanded(o)
         /\ led_on' = o.ok
         /\ dirty' = (dirty \/ ~o.ok)
    /\ Rendered
    /\ UNCHANGED <<kernel, timer, stop>>

BugRenderAddsTime ==
    /\ pc = "render"
    /\ ~led_on /\ pending # None
    /\ pending' = None
    /\ done' = Plus(done, pending)
    /\ \E d \in {x \in Dirs : pending[x] > 0} :
       \E o \in Then(Put(led, "color", d), "mode", "on") :
         /\ Commanded(o)
         /\ led_on' = o.ok
         /\ timer' = IF o.ok THEN timer + PulseTicks ELSE timer
         /\ dirty' = (dirty \/ ~o.ok)
    /\ Rendered
    /\ UNCHANGED <<kernel, stop>>

(* network_led_render: a pulse for all that is pending, in the colour of a *)
(* direction that has bytes; a pulse that cannot be started is dropped.    *)
Render ==
    /\ pc = "render"
    /\ ~led_on /\ pending # None
    /\ pending' = None
    /\ done' = Plus(done, pending)
    /\ \E d \in {x \in Dirs : pending[x] > 0} :
       \E o \in Then(Put(led, "color", d), "mode", "on") :
         /\ Commanded(o)
         /\ led_on' = o.ok
         /\ timer' = IF o.ok THEN PulseTicks ELSE timer
         /\ dirty' = (dirty \/ ~o.ok)
    /\ Rendered
    /\ UNCHANGED <<kernel, stop>>

(* A pulse is shown already, or there is nothing to show.                  *)
RenderNothing ==
    /\ pc = "render"
    /\ led_on \/ pending = None
    /\ Rendered
    /\ UNCHANGED <<kernel, net, led, stop, faults, done, dirty>>

Daemon ==
    \/ InitLed
    \/ Poll
    \/ HandleSignal
    \/ Cleanup
    \/ HandleTimer
    \/ Consume
    \/ ConsumeEnds
    \/ Render
    \/ RenderNothing

-----------------------------------------------------------------------------
Tick ==
    /\ wait > 0 \/ timer \in 1 .. PulseTicks
    /\ wait' = IF wait > 0 THEN wait - 1 ELSE 0
    /\ timer' = IF timer \in 1 .. PulseTicks THEN timer - 1 ELSE timer
    /\ UNCHANGED <<acc, out, ring, sent, pending, led_on, led, stop, pc, ready,
                   faults, done, dirty>>

Terminate ==
    /\ pc # "down" /\ ~stop
    /\ stop' = TRUE
    /\ UNCHANGED <<kernel, net, led, pc, ready, faults, done, dirty>>

Init ==
    /\ acc = None /\ wait = 0 /\ ring = <<>>
    /\ out = [c \in Cpus |-> None]
    /\ pending = None /\ led_on = FALSE /\ timer = Off
    /\ led \in [brightness : {"configured", "other"}, color : Dirs \cup {"other"},
                mode : {"on", "off"}, known : {{}}]
    /\ stop = FALSE /\ pc = "down" /\ ready = {}
    /\ faults = 0
    /\ sent = None /\ done = None /\ dirty = TRUE

Next ==
    \/ Daemon
    \/ Start
    \/ Crash
    \/ \E c \in Cpus : Output(c) \/ \E d \in Dirs : Packet(c, d)
    \/ Tick
    \/ Terminate

Spec == Init /\ [][Next]_vars

(* The daemon's thread runs, the timer expires, and a program that left    *)
(* the lock ends.                                                          *)
FairSpec ==
    /\ Spec
    /\ WF_vars(Daemon) /\ WF_vars(Tick)
    /\ \A c \in Cpus : WF_vars(Output(c))

-----------------------------------------------------------------------------
Count == [Dirs -> Nat]

(* Every variable has its type; what is queued is never an empty event.    *)
TypeOK ==
    /\ acc \in Count /\ wait \in 0 .. Interval
    /\ out \in [Cpus -> Count]
    /\ ring \in Seq(Count \ {None}) /\ Len(ring) <= RingSize
    /\ pending \in Count /\ led_on \in BOOLEAN /\ timer \in 0 .. Off
    /\ led \in [brightness : {"configured", "other"},
                color : Dirs \cup {"other"}, mode : {"on", "off"},
                known : SUBSET {"brightness", "color", "mode"}]
    /\ stop \in BOOLEAN
    /\ pc \in {"down", "init", "loop", "render", "cleanup"}
    /\ ready \subseteq {"signal", "timer", "bpf"}
    /\ pc = "render" => ready # {}
    /\ faults \in 0 .. MaxFaults
    /\ sent \in Count /\ done \in Count /\ dirty \in BOOLEAN

(* The packets counted in the events that CPUs have yet to queue, or in    *)
(* the records of the ring, named by where they are.                       *)
Packets(events, d) == UNION {{x} \X (1 .. events[x][d]) : x \in DOMAIN events}

(* Every packet is counted once: in the kernel, in an event a CPU is about *)
(* to queue, in the ring, among the pending bytes, or in a pulse or a loss *)
(* the code accepts; whatever order CPUs unlock and queue in, and whatever *)
(* arrives while the daemon consumes and renders.                          *)
Conserved ==
    \A d \in Dirs :
        sent[d] = acc[d] + Cardinality(Packets(out, d))
                  + Cardinality(Packets(ring, d)) + pending[d] + done[d]

(* While a pulse is shown, the LED is lit in the colour of a direction and *)
(* the timer that will end it is armed.                                    *)
LitHasTimer ==
    led_on /\ pc # "cleanup" =>
        /\ led.mode = "on" /\ led.brightness = "configured" /\ led.color \in Dirs
        /\ timer # Off

(* Between pulses the LED is dark unless a command to it failed, also when *)
(* the daemon before this one was killed during a pulse; and so it is when *)
(* the daemon ended in order, in the middle of a pulse or of traffic.      *)
DarkWhenIdle == ~led_on /\ ~dirty => led.mode = "off"

(* Every pulse ends, even when the LED fails to go dark.                   *)
PulseEnds == led_on ~> ~led_on

(* Bytes the daemon was told of are shown or dropped with the next pulse,  *)
(* without the traffic having to go on: the end of a pulse renders what    *)
(* came in during it.                                                      *)
PendingShown == (pending # None) ~> (pending = None)
=============================================================================

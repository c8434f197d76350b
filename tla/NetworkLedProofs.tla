-------------------------- MODULE NetworkLedProofs --------------------------
(***************************************************************************)
(* Theorems about NetworkLed, for any set of CPUs, any interval, pulse and *)
(* ring size, and any number of packets and failing commands: its types,   *)
(* that a lit pulse has a timer, that the LED is dark between pulses, that *)
(* pending bytes are not forgotten and that every packet is accounted for; *)
(* and about Scheduler, which chooses the colour of its pulses.  The two   *)
(* specifications share no variable.                                       *)
(***************************************************************************)
EXTENDS NetworkLed, Scheduler, FiniteSetTheorems, SequenceTheorems, TLAPS

LedSet == [brightness : {"configured", "other"}, color : Dirs \cup {"other"},
           mode : {"on", "off"}, known : SUBSET {"brightness", "color", "mode"}]

(* The outcomes of a setter: skipped, done, or failed with or without      *)
(* having changed the register.                                            *)
LEMMA PutOutcome ==
    ASSUME NEW l, NEW reg, NEW val, NEW o \in Put(l, reg, val)
    PROVE  LET set == [l EXCEPT ![reg] = val] IN
           \/ o = [led |-> l, ok |-> TRUE] /\ l[reg] = val
           \/ o = [led |-> [set EXCEPT !.known = @ \cup {reg}], ok |-> TRUE]
           \/ o = [led |-> [l EXCEPT !.known = {}], ok |-> FALSE]
           \/ o = [led |-> [set EXCEPT !.known = {}], ok |-> FALSE]
BY DEF Put

(* What a setter of the mode does.                                         *)
LEMMA PutMode ==
    ASSUME NEW l \in LedSet, NEW m \in {"on", "off"},
           NEW o \in Put(l, "mode", m)
    PROVE  /\ o.led \in LedSet /\ o.ok \in BOOLEAN
           /\ o.led.brightness = l.brightness /\ o.led.color = l.color
           /\ o.ok => o.led.mode = m
<1> DEFINE set == [l EXCEPT !.mode = m]
<1>1. /\ set \in LedSet /\ set.mode = m
      /\ [set EXCEPT !.known = @ \cup {"mode"}] \in LedSet
      /\ [set EXCEPT !.known = {}] \in LedSet /\ [l EXCEPT !.known = {}] \in LedSet
  BY DEF LedSet
<1>2. CASE o = [led |-> l, ok |-> TRUE] /\ l.mode = m
  BY <1>2
<1>3. CASE o = [led |-> [set EXCEPT !.known = @ \cup {"mode"}], ok |-> TRUE]
  BY <1>1, <1>3 DEF LedSet
<1>4. CASE o = [led |-> [l EXCEPT !.known = {}], ok |-> FALSE]
  BY <1>1, <1>4 DEF LedSet
<1>5. CASE o = [led |-> [set EXCEPT !.known = {}], ok |-> FALSE]
  BY <1>1, <1>5 DEF LedSet
<1> QED
  BY <1>2, <1>3, <1>4, <1>5, PutOutcome

(* What a setter of the brightness does.                                   *)
LEMMA PutBrightness ==
    ASSUME NEW l \in LedSet, NEW o \in Put(l, "brightness", "configured")
    PROVE  /\ o.led \in LedSet /\ o.ok \in BOOLEAN
           /\ o.ok => o.led.brightness = "configured"
<1> DEFINE set == [l EXCEPT !.brightness = "configured"]
<1>1. /\ set \in LedSet /\ set.brightness = "configured"
      /\ [set EXCEPT !.known = @ \cup {"brightness"}] \in LedSet
      /\ [set EXCEPT !.known = {}] \in LedSet /\ [l EXCEPT !.known = {}] \in LedSet
  BY DEF LedSet
<1>2. CASE o = [led |-> l, ok |-> TRUE] /\ l.brightness = "configured"
  BY <1>2
<1>3. CASE o = [led |-> [set EXCEPT !.known = @ \cup {"brightness"}], ok |-> TRUE]
  BY <1>1, <1>3 DEF LedSet
<1>4. CASE o = [led |-> [l EXCEPT !.known = {}], ok |-> FALSE]
  BY <1>1, <1>4 DEF LedSet
<1>5. CASE o = [led |-> [set EXCEPT !.known = {}], ok |-> FALSE]
  BY <1>1, <1>5 DEF LedSet
<1> QED
  BY <1>2, <1>3, <1>4, <1>5, PutOutcome

(* What a setter of the colour does.                                       *)
LEMMA PutColor ==
    ASSUME NEW l \in LedSet, NEW d \in Dirs, NEW o \in Put(l, "color", d)
    PROVE  /\ o.led \in LedSet /\ o.ok \in BOOLEAN
           /\ o.led.brightness = l.brightness
           /\ o.ok => o.led.color = d
<1> DEFINE set == [l EXCEPT !.color = d]
<1>1. /\ set \in LedSet /\ set.color = d
      /\ [set EXCEPT !.known = @ \cup {"color"}] \in LedSet
      /\ [set EXCEPT !.known = {}] \in LedSet /\ [l EXCEPT !.known = {}] \in LedSet
  BY DEF LedSet
<1>2. CASE o = [led |-> l, ok |-> TRUE] /\ l.color = d
  BY <1>2
<1>3. CASE o = [led |-> [set EXCEPT !.known = @ \cup {"color"}], ok |-> TRUE]
  BY <1>1, <1>3 DEF LedSet
<1>4. CASE o = [led |-> [l EXCEPT !.known = {}], ok |-> FALSE]
  BY <1>1, <1>4 DEF LedSet
<1>5. CASE o = [led |-> [set EXCEPT !.known = {}], ok |-> FALSE]
  BY <1>1, <1>5 DEF LedSet
<1> QED
  BY <1>2, <1>3, <1>4, <1>5, PutOutcome

(* The two setters of network_led_init.                                    *)
LEMMA Initialised ==
    ASSUME NEW l \in LedSet,
           NEW o \in Then(Put(l, "brightness", "configured"), "mode", "off")
    PROVE  /\ o.led \in LedSet /\ o.ok \in BOOLEAN
           /\ o.ok => o.led.brightness = "configured" /\ o.led.mode = "off"
<1>1. PICK x \in Put(l, "brightness", "configured") :
        o \in IF x.ok THEN Put(x.led, "mode", "off") ELSE {x}
  BY DEF Then
<1>2. /\ x.led \in LedSet /\ x.ok \in BOOLEAN
      /\ x.ok => x.led.brightness = "configured"
  BY PutBrightness
<1>3. CASE x.ok
  <2>1. o \in Put(x.led, "mode", "off")
    BY <1>1, <1>3
  <2> QED
    BY <1>2, <1>3, <2>1, PutMode
<1>4. CASE ~x.ok
  BY <1>1, <1>2, <1>4
<1> QED
  BY <1>3, <1>4

(* The two setters of network_led_render.                                  *)
LEMMA Lit ==
    ASSUME NEW l \in LedSet, NEW d \in Dirs,
           NEW o \in Then(Put(l, "color", d), "mode", "on")
    PROVE  /\ o.led \in LedSet /\ o.ok \in BOOLEAN
           /\ o.led.brightness = l.brightness
           /\ o.ok => o.led.color = d /\ o.led.mode = "on"
<1>1. PICK x \in Put(l, "color", d) :
        o \in IF x.ok THEN Put(x.led, "mode", "on") ELSE {x}
  BY DEF Then
<1>2. /\ x.led \in LedSet /\ x.ok \in BOOLEAN
      /\ x.led.brightness = l.brightness
      /\ x.ok => x.led.color = d
  BY PutColor
<1>3. CASE x.ok
  <2>1. o \in Put(x.led, "mode", "on")
    BY <1>1, <1>3
  <2> QED
    BY <1>2, <1>3, <2>1, PutMode
<1>4. CASE ~x.ok
  BY <1>1, <1>2, <1>4
<1> QED
  BY <1>3, <1>4

(* Counts are added component by component.                                *)
LEMMA Sums ==
    /\ None \in Count
    /\ \A a \in Count, b \in Count : Plus(a, b) \in Count
    /\ \A a \in Count, d \in Dirs :
         [a EXCEPT ![d] = @ + 1] \in Count /\ [a EXCEPT ![d] = @ + 1] # None
BY DEF None, Count, Plus, Dirs

-----------------------------------------------------------------------------
(* TypeOK in three parts, of which a step usually leaves two alone.        *)
KernelType ==
    /\ acc \in Count /\ wait \in 0 .. Interval
    /\ out \in [Cpus -> Count]
    /\ ring \in Seq(Count \ {None}) /\ Len(ring) <= RingSize
    /\ sent \in Count

NetType ==
    /\ pending \in Count /\ led_on \in BOOLEAN /\ timer \in 0 .. Off
    /\ done \in Count

ControlType ==
    /\ led \in LedSet /\ stop \in BOOLEAN
    /\ pc \in {"down", "init", "loop", "render", "cleanup"}
    /\ ready \subseteq {"signal", "timer", "bpf"}
    /\ pc = "render" => ready # {}
    /\ faults \in 0 .. MaxFaults /\ dirty \in BOOLEAN

(* TypeOK in three parts, which different steps disturb.                   *)
LEMMA TypeParts == TypeOK <=> KernelType /\ NetType /\ ControlType
BY DEF TypeOK, KernelType, NetType, ControlType, LedSet

LEMMA Counted ==
    ASSUME faults \in 0 .. MaxFaults, NEW o, Commanded(o)
    PROVE  faults' \in 0 .. MaxFaults
BY BoundAssumption DEF Commanded

LEMMA DetachedType == ASSUME Detached, sent' = sent, KernelType PROVE KernelType'
<1>1. <<>> \in Seq(Count \ {None}) /\ Len(<<>>) = 0
  OBVIOUS
<1> QED
  BY <1>1, Sums, ConfigAssumption DEF Detached, KernelType

LEMMA GoneType ==
    ASSUME Gone, KernelType, NetType
    PROVE  /\ KernelType' /\ NetType'
           /\ stop' \in BOOLEAN /\ ready' = {} /\ pc' = "down"
<1>1. KernelType'
  BY DetachedType DEF Gone
<1>2. Off \in 0 .. Off /\ None \in Count
  BY ConfigAssumption, Sums DEF Off
<1>3. NetType'
  BY <1>1, <1>2 DEF Gone, NetType, KernelType
<1> QED
  BY <1>1, <1>3 DEF Gone

(* Every variable keeps its type.                                          *)
THEOREM Typing == Spec => []TypeOK
<1> DEFINE TInv == KernelType /\ NetType /\ ControlType
<1> USE ConfigAssumption, BoundAssumption
<1>1. Init => TInv
  <2> SUFFICES ASSUME Init PROVE TInv
    OBVIOUS
  <2>1. <<>> \in Seq(Count \ {None}) /\ Len(<<>>) = 0
    OBVIOUS
  <2>2. KernelType
    BY <2>1, Sums DEF Init, KernelType
  <2>3. Off \in 0 .. Off /\ None \in Count
    BY Sums DEF Off
  <2>4. NetType
    BY <2>3 DEF Init, NetType
  <2>5. led \in LedSet
    BY DEF Init, LedSet
  <2>6. faults \in 0 .. MaxFaults
    BY DEF Init
  <2>7. stop \in BOOLEAN /\ dirty \in BOOLEAN /\ pc = "down" /\ ready = {}
    BY DEF Init
  <2>8. ControlType
    BY <2>5, <2>6, <2>7 DEF ControlType
  <2> QED
    BY <2>2, <2>4, <2>8
<1>2. TInv /\ [Next]_vars => TInv'
  <2> SUFFICES ASSUME KernelType, NetType, ControlType, [Next]_vars
               PROVE  KernelType' /\ NetType' /\ ControlType'
    OBVIOUS
  <2>1. CASE InitLed
    <3>1. PICK o \in Then(Put(led, "brightness", "configured"), "mode", "off") :
            /\ Commanded(o)
            /\ IF o.ok
               THEN /\ pc' \in {"loop", "cleanup"}
                    /\ UNCHANGED <<kernel, net, stop, ready, done>>
               ELSE Gone
            /\ dirty' = ~o.ok
      BY <2>1 DEF InitLed
    <3>2. o.led \in LedSet /\ o.ok \in BOOLEAN
      BY Initialised DEF ControlType
    <3>3. faults' \in 0 .. MaxFaults /\ led' \in LedSet /\ dirty' \in BOOLEAN
      BY <3>1, <3>2, Counted DEF Commanded, ControlType
    <3>4. CASE o.ok
      BY <3>1, <3>3, <3>4 DEF KernelType, NetType, ControlType, kernel, net
    <3>5. CASE ~o.ok
      BY <3>1, <3>3, <3>5, GoneType DEF ControlType
    <3> QED
      BY <3>4, <3>5
  <2>2. CASE HandleSignal
    <3>1. KernelType'
      BY <2>2, DetachedType DEF HandleSignal
    <3>2. NetType'
      BY <2>2, Sums DEF HandleSignal, NetType, KernelType
    <3> QED
      BY <2>2, <3>1, <3>2 DEF HandleSignal, ControlType
  <2>3. CASE Cleanup
    <3>1. PICK o \in Put(led, "mode", "off") :
            /\ led' = [o.led EXCEPT !.known = {}]
            /\ o.ok \/ faults < MaxFaults
            /\ faults' = IF o.ok THEN faults ELSE faults + 1
            /\ dirty' = ~o.ok
      BY <2>3 DEF Cleanup
    <3>2. o.led \in LedSet /\ o.ok \in BOOLEAN
      BY PutMode DEF ControlType
    <3>3. led' \in LedSet
      BY <3>1, <3>2 DEF LedSet
    <3>4. Gone
      BY <2>3 DEF Cleanup
    <3> QED
      BY <3>1, <3>2, <3>3, <3>4, GoneType DEF ControlType
  <2>4. CASE HandleTimer
    <3>1. Off \in 0 .. Off
      BY DEF Off
    <3>2. led_on' \in BOOLEAN
      <4>1. CASE led_on
        BY <2>4, <4>1 DEF HandleTimer
      <4>2. CASE ~led_on
        BY <2>4, <4>2 DEF HandleTimer, NetType
      <4> QED
        BY <4>1, <4>2
    <3>3. KernelType' /\ NetType'
      BY <2>4, <3>1, <3>2 DEF HandleTimer, KernelType, NetType, kernel
    <3>4. CASE led_on
      <4>1. PICK o \in Put(led, "mode", "off") :
              Commanded(o) /\ dirty' = ~o.ok /\ pc' = "render" /\ UNCHANGED ready
        BY <2>4, <3>4 DEF HandleTimer
      <4>2. o.led \in LedSet /\ o.ok \in BOOLEAN
        BY PutMode DEF ControlType
      <4>3. faults' \in 0 .. MaxFaults
        BY <4>1, Counted DEF ControlType
      <4> QED
        BY <2>4, <3>3, <4>1, <4>2, <4>3 DEF HandleTimer, Commanded, ControlType
    <3>5. CASE ~led_on
      BY <2>4, <3>3, <3>5 DEF HandleTimer, ControlType
    <3> QED
      BY <3>4, <3>5
  <2>5. CASE Consume
    <3>1. Head(ring) \in Count \ {None} /\ Tail(ring) \in Seq(Count \ {None})
          /\ Len(Tail(ring)) <= RingSize
      BY <2>5 DEF Consume, KernelType
    <3>2. Plus(pending, Head(ring)) \in Count
      BY <3>1, Sums DEF NetType
    <3> QED
      BY <2>5, <3>1, <3>2 DEF Consume, KernelType, NetType, ControlType
  <2>6. CASE Render
    <3>1. PICK d \in Dirs :
            \E o \in Then(Put(led, "color", d), "mode", "on") :
              /\ Commanded(o)
              /\ led_on' = o.ok
              /\ timer' = IF o.ok THEN PulseTicks ELSE timer
              /\ dirty' = (dirty \/ ~o.ok)
      BY <2>6 DEF Render
    <3>2. PICK o \in Then(Put(led, "color", d), "mode", "on") :
            /\ Commanded(o)
            /\ led_on' = o.ok
            /\ timer' = IF o.ok THEN PulseTicks ELSE timer
            /\ dirty' = (dirty \/ ~o.ok)
      BY <3>1
    <3>3. o.led \in LedSet /\ o.ok \in BOOLEAN
      BY Lit DEF ControlType
    <3>4. faults' \in 0 .. MaxFaults
      BY <3>2, Counted DEF ControlType
    <3>5. Plus(done, pending) \in Count /\ None \in Count
      BY Sums DEF NetType
    <3>6. KernelType'
      BY <2>6 DEF Render, KernelType, kernel
    <3>7. NetType'
      BY <2>6, <3>2, <3>3, <3>5 DEF Render, NetType, Off
    <3>8. ready' \subseteq {"signal", "timer", "bpf"} /\ pc' = "loop" /\ stop' = stop
      BY <2>6 DEF Render, Rendered, ControlType
    <3> QED
      BY <3>2, <3>3, <3>4, <3>6, <3>7, <3>8 DEF Commanded, ControlType
  <2>7. CASE Poll \/ ConsumeEnds \/ RenderNothing \/ Start \/ Terminate
    BY <2>7 DEF Poll, ConsumeEnds, RenderNothing, Rendered, Start, Terminate,
                Readable, KernelType, NetType, ControlType, kernel, net
  <2>8. CASE Crash
    <3>1. KernelType' /\ NetType' /\ stop' \in BOOLEAN /\ ready' = {} /\ pc' = "down"
      BY <2>8, GoneType DEF Crash
    <3>2. led' \in LedSet /\ dirty' \in BOOLEAN /\ faults' = faults
      BY <2>8 DEF Crash, ControlType, NetType, LedSet
    <3> QED
      BY <3>1, <3>2 DEF ControlType
  <2>9. ASSUME NEW c \in Cpus, NEW d \in Dirs, Packet(c, d)
        PROVE  KernelType' /\ NetType' /\ ControlType'
    <3>1. [acc EXCEPT ![d] = @ + 1] \in Count /\ [sent EXCEPT ![d] = @ + 1] \in Count
          /\ None \in Count
      BY Sums DEF KernelType
    <3>2. KernelType'
      BY <2>9, <3>1 DEF Packet, KernelType
    <3> QED
      BY <2>9, <3>2 DEF Packet, NetType, ControlType, net
  <2>10. ASSUME NEW c \in Cpus, Output(c)
         PROVE  KernelType' /\ NetType' /\ ControlType'
    <3>1. out[c] \in Count \ {None}
      BY <2>10 DEF Output, KernelType
    <3>2. /\ Append(ring, out[c]) \in Seq(Count \ {None})
          /\ Len(Append(ring, out[c])) = Len(ring) + 1 /\ Len(ring) \in Nat
      BY <3>1 DEF KernelType
    <3>3. Plus(done, out[c]) \in Count /\ None \in Count
      BY <3>1, Sums DEF NetType
    <3>4. KernelType'
      BY <2>10, <3>2, <3>3 DEF Output, KernelType
    <3> QED
      BY <2>10, <3>3, <3>4 DEF Output, NetType, ControlType, net
  <2>11. CASE Tick
    <3>1. wait' \in 0 .. Interval /\ timer' \in 0 .. Off
      BY <2>11 DEF Tick, KernelType, NetType, Off
    <3> QED
      BY <2>11, <3>1 DEF Tick, KernelType, NetType, ControlType
  <2>12. CASE UNCHANGED vars
    BY <2>12 DEF vars, kernel, net, KernelType, NetType, ControlType
  <2> QED
    BY <2>1, <2>2, <2>3, <2>4, <2>5, <2>6, <2>7, <2>8, <2>9, <2>10, <2>11, <2>12
    DEF Next, Daemon
<1>3. TInv => TypeOK
  BY TypeParts
<1> QED
  BY <1>1, <1>2, <1>3, PTL DEF Spec

-----------------------------------------------------------------------------
(* A pulse: the brightness is set before the loop is entered and by nobody *)
(* else, led_on is true only while the loop runs, and then the LED and its *)
(* timer agree with it.                                                    *)
PulseInv ==
    /\ pc \in {"loop", "render", "cleanup"} => led.brightness = "configured"
    /\ led_on => pc \in {"loop", "render", "cleanup"}
    /\ led_on /\ pc # "cleanup" =>
         led.mode = "on" /\ led.color \in Dirs /\ timer # Off

LEMMA PulseStep == TypeOK /\ PulseInv /\ [Next]_vars => PulseInv'
<1> USE ConfigAssumption
<1> SUFFICES ASSUME TypeOK, PulseInv, [Next]_vars PROVE PulseInv'
  OBVIOUS
<1>0. led \in LedSet /\ led_on \in BOOLEAN
  BY DEF TypeOK, LedSet
<1>1. CASE InitLed
  <2>1. PICK o \in Then(Put(led, "brightness", "configured"), "mode", "off") :
          /\ led' = o.led
          /\ IF o.ok THEN UNCHANGED <<kernel, net, stop, ready, done>> ELSE Gone
    BY <1>1 DEF InitLed, Commanded
  <2>2. o.ok \in BOOLEAN /\ (o.ok => o.led.brightness = "configured")
    BY <1>0, Initialised
  <2>3. pc = "init" /\ ~led_on
    BY <1>1 DEF InitLed, PulseInv
  <2> QED
    BY <2>1, <2>2, <2>3 DEF PulseInv, Gone, net
<1>2. CASE HandleSignal
  BY <1>2 DEF HandleSignal, PulseInv
<1>3. CASE Cleanup \/ Crash
  BY <1>3 DEF Cleanup, Crash, Gone, PulseInv
<1>4. CASE HandleTimer
  <2>1. CASE led_on
    <3>1. PICK o \in Put(led, "mode", "off") :
            led' = o.led /\ led_on' = FALSE
      BY <1>4, <2>1 DEF HandleTimer, Commanded
    <3>2. o.led.brightness = led.brightness
      BY <1>0, PutMode
    <3> QED
      BY <1>4, <3>1, <3>2 DEF HandleTimer, PulseInv
  <2>2. CASE ~led_on
    BY <1>4, <2>2 DEF HandleTimer, PulseInv
  <2> QED
    BY <2>1, <2>2
<1>5. CASE Render
  <2>1. PICK d \in Dirs :
          \E o \in Then(Put(led, "color", d), "mode", "on") :
            /\ led' = o.led
            /\ led_on' = o.ok
            /\ timer' = IF o.ok THEN PulseTicks ELSE timer
    BY <1>5 DEF Render, Commanded
  <2>2. PICK o \in Then(Put(led, "color", d), "mode", "on") :
          /\ led' = o.led
          /\ led_on' = o.ok
          /\ timer' = IF o.ok THEN PulseTicks ELSE timer
    BY <2>1
  <2>3. /\ o.ok \in BOOLEAN /\ o.led.brightness = led.brightness
        /\ o.ok => o.led.color = d /\ o.led.mode = "on"
    BY <1>0, Lit
  <2>4. pc = "render" /\ pc' = "loop" /\ PulseTicks # Off
    BY <1>5 DEF Render, Rendered, Off
  <2> QED
    BY <2>2, <2>3, <2>4 DEF PulseInv
<1>6. CASE Tick
  <2>1. timer # Off => timer' # Off
    BY <1>6 DEF Tick, Off, TypeOK
  <2> QED
    BY <1>6, <2>1 DEF Tick, PulseInv
<1>7. CASE Poll \/ Consume \/ ConsumeEnds \/ RenderNothing \/ Start \/ Terminate
  BY <1>7 DEF Poll, Consume, ConsumeEnds, RenderNothing, Rendered, Start, Terminate,
              PulseInv, net
<1>8. ASSUME NEW c \in Cpus, Output(c) \/ \E d \in Dirs : Packet(c, d)
      PROVE  PulseInv'
  BY <1>8 DEF Output, Packet, PulseInv, net
<1>9. CASE UNCHANGED vars
  BY <1>9 DEF vars, net, PulseInv
<1> QED
  BY <1>1, <1>2, <1>3, <1>4, <1>5, <1>6, <1>7, <1>8, <1>9 DEF Next, Daemon

(* While a pulse is shown the LED is lit and the timer that will end it is *)
(* armed, through failing commands, kills and restarts.                    *)
THEOREM LitPulse == Spec => []LitHasTimer
<1>1. Init => PulseInv
  BY DEF Init, PulseInv
<1>2. PulseInv => LitHasTimer
  BY DEF PulseInv, LitHasTimer
<1> QED
  BY <1>1, <1>2, PulseStep, Typing, PTL DEF Spec

-----------------------------------------------------------------------------
(* Between pulses the LED is dark, unless a command to it failed or the    *)
(* daemon was killed while it was lit.                                     *)
THEOREM DarkBetween == Spec => []DarkWhenIdle
<1>1. Init => DarkWhenIdle
  BY DEF Init, DarkWhenIdle
<1>2. TypeOK /\ DarkWhenIdle /\ [Next]_vars => DarkWhenIdle'
  <2> SUFFICES ASSUME TypeOK, DarkWhenIdle, [Next]_vars PROVE DarkWhenIdle'
    OBVIOUS
  <2>0. led \in LedSet /\ led_on \in BOOLEAN /\ dirty \in BOOLEAN
    BY DEF TypeOK, LedSet
  <2>1. CASE InitLed
    <3>1. PICK o \in Then(Put(led, "brightness", "configured"), "mode", "off") :
            led' = o.led /\ dirty' = ~o.ok
      BY <2>1 DEF InitLed, Commanded
    <3>2. o.ok \in BOOLEAN /\ (o.ok => o.led.mode = "off")
      BY <2>0, Initialised
    <3> QED
      BY <3>1, <3>2 DEF DarkWhenIdle
  <2>2. CASE Cleanup
    <3>1. PICK o \in Put(led, "mode", "off") :
            led' = [o.led EXCEPT !.known = {}] /\ dirty' = ~o.ok
      BY <2>2 DEF Cleanup
    <3>2. o.led \in LedSet /\ o.ok \in BOOLEAN /\ (o.ok => o.led.mode = "off")
      BY <2>0, PutMode
    <3>3. led'.mode = o.led.mode
      BY <3>1, <3>2 DEF LedSet
    <3> QED
      BY <3>1, <3>2, <3>3 DEF DarkWhenIdle
  <2>3. CASE Crash
    <3>1. led'.mode = led.mode
      BY <2>0, <2>3 DEF Crash, LedSet
    <3> QED
      BY <2>0, <2>3, <3>1 DEF Crash, Gone, DarkWhenIdle
  <2>4. CASE HandleTimer
    <3>1. CASE led_on
      <4>1. PICK o \in Put(led, "mode", "off") : led' = o.led /\ dirty' = ~o.ok
        BY <2>4, <3>1 DEF HandleTimer, Commanded
      <4>2. o.ok \in BOOLEAN /\ (o.ok => o.led.mode = "off")
        BY <2>0, PutMode
      <4> QED
        BY <4>1, <4>2 DEF DarkWhenIdle
    <3>2. CASE ~led_on
      BY <2>4, <3>2 DEF HandleTimer, DarkWhenIdle
    <3> QED
      BY <3>1, <3>2
  <2>5. CASE Render
    BY <2>0, <2>5, Lit DEF Render, DarkWhenIdle
  <2>6. CASE Poll \/ Consume \/ ConsumeEnds \/ RenderNothing \/ Start \/ Terminate
             \/ Tick \/ HandleSignal
    BY <2>6 DEF Poll, Consume, ConsumeEnds, RenderNothing, Start, Terminate,
                Tick, HandleSignal, DarkWhenIdle, net
  <2>7. ASSUME NEW c \in Cpus, Output(c) \/ \E d \in Dirs : Packet(c, d)
        PROVE  DarkWhenIdle'
    BY <2>7 DEF Output, Packet, DarkWhenIdle, net
  <2>8. CASE UNCHANGED vars
    BY <2>8 DEF vars, net, DarkWhenIdle
  <2> QED
    BY <2>1, <2>2, <2>3, <2>4, <2>5, <2>6, <2>7, <2>8 DEF Next, Daemon
<1> QED
  BY <1>1, <1>2, Typing, PTL DEF Spec

-----------------------------------------------------------------------------
(* Bytes the daemon was told of and has not shown yet: a pulse is shown,   *)
(* whose end renders them, or the step that renders them is next.          *)
PendingWaits ==
    pending # None => led_on \/ pc = "render" \/ (pc = "loop" /\ ready = {"bpf"})

(* No byte is forgotten among the pending ones: whatever the order in      *)
(* which records, timers and failing commands come, some later step of the *)
(* loop has to render it.                                                  *)
THEOREM PendingNotForgotten == Spec => []PendingWaits
<1>1. Init => PendingWaits
  BY DEF Init, PendingWaits
<1>2. TypeOK /\ PendingWaits /\ [Next]_vars => PendingWaits'
  <2> SUFFICES ASSUME TypeOK, PendingWaits, [Next]_vars PROVE PendingWaits'
    OBVIOUS
  <2>1. CASE InitLed
    BY <2>1 DEF InitLed, Gone, PendingWaits, net
  <2>2. CASE Cleanup \/ Crash \/ HandleSignal
    BY <2>2 DEF Cleanup, Crash, HandleSignal, Gone, PendingWaits
  <2>3. CASE HandleTimer
    BY <2>3 DEF HandleTimer, PendingWaits
  <2>4. CASE Render
    BY <2>4 DEF Render, PendingWaits
  <2>5. CASE Poll \/ Consume \/ ConsumeEnds \/ RenderNothing \/ Start \/ Terminate \/ Tick
    BY <2>5 DEF Poll, Consume, ConsumeEnds, RenderNothing, Rendered, Start, Terminate,
                Tick, PendingWaits, net
  <2>6. ASSUME NEW c \in Cpus, Output(c) \/ \E d \in Dirs : Packet(c, d)
        PROVE  PendingWaits'
    BY <2>6 DEF Output, Packet, PendingWaits, net
  <2>7. CASE UNCHANGED vars
    BY <2>7 DEF vars, net, PendingWaits
  <2> QED
    BY <2>1, <2>2, <2>3, <2>4, <2>5, <2>6, <2>7 DEF Next, Daemon
<1> QED
  BY <1>1, <1>2, Typing, PTL DEF Spec

-----------------------------------------------------------------------------
(* A number of packets.                                                    *)
LEMMA Part == \A a \in Count, d \in Dirs : a[d] \in Nat
BY DEF Count

(* The numbers of n packets. *)
LEMMA Numbers == \A n \in Nat : IsFiniteSet(1 .. n) /\ Cardinality(1 .. n) = n
<1> TAKE n \in Nat
<1>1. IsFiniteSet(1 .. n) /\ Cardinality(1 .. n) = IF 1 > n THEN 0 ELSE n - 1 + 1
  BY FS_Interval
<1> QED
  BY <1>1

(* A set of packets is finite.                                             *)
LEMMA PacketsFinite ==
    ASSUME NEW d \in Dirs, NEW S, IsFiniteSet(S), NEW f \in [S -> Count]
    PROVE  IsFiniteSet(Packets(f, d)) /\ Cardinality(Packets(f, d)) \in Nat
<1> DEFINE Own(x) == {x} \X (1 .. f[x][d])
           F == [x \in S |-> Own(x)]
           T == {Own(x) : x \in S}
<1>1. F \in Surjection(S, T)
  BY DEF Surjection
<1>2. IsFiniteSet(T)
  <2> HIDE DEF F, T
  <2> QED
    BY <1>1, FS_Surjection
<1>3. ASSUME NEW x \in S
      PROVE  IsFiniteSet(Own(x))
  <2>1. IsFiniteSet({x})
    BY FS_Singleton
  <2>2. IsFiniteSet(1 .. f[x][d])
    BY Part, FS_Interval
  <2> QED
    BY <2>1, <2>2, FS_Product
<1>4. IsFiniteSet(UNION T)
  <2>1. \A U \in T : IsFiniteSet(U)
    BY <1>3
  <2> HIDE DEF T
  <2> QED
    BY <1>2, <2>1, FS_UNION
<1>5. Packets(f, d) = UNION T
  BY DEF Packets
<1> QED
  BY <1>4, <1>5, FS_CardinalityType

(* A packet is an element with one of its numbers.                         *)
LEMMA PacketsMember ==
    ASSUME NEW d \in Dirs, NEW S, NEW f \in [S -> Count]
    PROVE  Packets(f, d) = {t \in S \X Nat : t[2] \in 1 .. f[t[1]][d]}
BY DEF Packets

(* An element more adds its number.                                        *)
LEMMA PacketsAdd ==
    ASSUME NEW d \in Dirs, NEW S, IsFiniteSet(S), NEW x \in S,
           NEW R, R = S \ {x}, NEW f \in [R -> Count], NEW g \in [S -> Count],
           \A y \in R : g[y] = f[y]
    PROVE  Cardinality(Packets(g, d)) = Cardinality(Packets(f, d)) + g[x][d]
<1> DEFINE Own == {x} \X (1 .. g[x][d])
<1>1. Packets(g, d) = Packets(f, d) \cup Own
  BY DEF Packets
<1>2. Packets(f, d) \cap Own = {}
  BY DEF Packets
<1>3. g[x][d] \in Nat /\ IsFiniteSet(Own) /\ Cardinality(Own) = g[x][d]
  <2>1. IsFiniteSet({x}) /\ Cardinality({x}) = 1
    BY FS_Singleton
  <2> DEFINE m == g[x][d]
  <2>2. m \in Nat
    BY Part
  <2> HIDE DEF m
  <2>4. IsFiniteSet(1 .. m) /\ Cardinality(1 .. m) = m
    BY <2>2, Numbers
  <2>3. Cardinality(Own) = 1 * Cardinality(1 .. g[x][d])
    <3>1. Cardinality({x} \X (1 .. m)) = Cardinality({x}) * Cardinality(1 .. m)
      BY <2>1, <2>4, FS_Product
    <3> QED
      BY <2>1, <3>1 DEF m
  <2>5. IsFiniteSet(Own)
    <3>1. IsFiniteSet({x} \X (1 .. m))
      BY <2>1, <2>4, FS_Product
    <3> QED
      BY <3>1 DEF m
  <2> HIDE DEF Own
  <2> QED
    BY <2>2, <2>3, <2>4, <2>5 DEF m
<1>4. IsFiniteSet(Packets(f, d)) /\ Cardinality(Packets(f, d)) \in Nat
  <2>1. IsFiniteSet(R)
    BY FS_RemoveElement
  <2> QED
    BY <2>1, PacketsFinite
<1> HIDE DEF Own
<1> QED
  <2>1. Cardinality(Packets(f, d) \cup Own)
          = Cardinality(Packets(f, d)) + Cardinality(Own) - Cardinality({})
    BY <1>2, <1>3, <1>4, FS_Union
  <2>2. Cardinality({}) = 0
    BY FS_EmptySet
  <2> QED
    BY <1>1, <1>3, <1>4, <2>1, <2>2

(* An element that had none gets a number.                                 *)
LEMMA PacketsSet ==
    ASSUME NEW d \in Dirs, NEW S, IsFiniteSet(S), NEW x \in S,
           NEW f \in [S -> Count], NEW g \in [S -> Count], f[x][d] = 0,
           \A y \in S \ {x} : g[y] = f[y]
    PROVE  Cardinality(Packets(g, d)) = Cardinality(Packets(f, d)) + g[x][d]
<1> DEFINE R == S \ {x}
           h == [y \in R |-> f[y]]
<1>1. h \in [R -> Count] /\ \A y \in R : f[y] = h[y] /\ g[y] = h[y]
  OBVIOUS
<1> HIDE DEF h
<1>2. Cardinality(Packets(f, d)) = Cardinality(Packets(h, d)) + f[x][d]
  BY <1>1, PacketsAdd
<1>3. Cardinality(Packets(g, d)) = Cardinality(Packets(h, d)) + g[x][d]
  BY <1>1, PacketsAdd
<1>4. Cardinality(Packets(h, d)) \in Nat /\ g[x][d] \in Nat
  <2>1. IsFiniteSet(R)
    BY FS_RemoveElement
  <2> QED
    BY <1>1, <2>1, PacketsFinite, Part
<1> QED
  BY <1>2, <1>3, <1>4

(* Elements under other names have as many packets.                        *)
LEMMA PacketsRename ==
    ASSUME NEW d \in Dirs, NEW S, IsFiniteSet(S),
           NEW T, NEW b \in Bijection(S, T), NEW f \in [S -> Count], NEW g \in [T -> Count],
           \A x \in S : g[b[x]] = f[x]
    PROVE  Cardinality(Packets(g, d)) = Cardinality(Packets(f, d))
<1> DEFINE B == [t \in Packets(f, d) |-> <<b[t[1]], t[2]>>]
<1>1. /\ Packets(f, d) = {t \in S \X Nat : t[2] \in 1 .. f[t[1]][d]}
      /\ Packets(g, d) = {t \in T \X Nat : t[2] \in 1 .. g[t[1]][d]}
  BY PacketsMember
<1>2. /\ b \in [S -> T]
      /\ \A x \in S, y \in S : b[x] = b[y] => x = y
      /\ \A z \in T : \E x \in S : b[x] = z
  BY DEF Bijection, Injection, Surjection, IsInjective
<1>3. ASSUME NEW t \in Packets(f, d)
      PROVE  B[t] \in Packets(g, d)
  <2>1. t \in S \X Nat /\ t[1] \in S /\ t[2] \in Nat /\ t[2] \in 1 .. f[t[1]][d]
    BY <1>1
  <2>2. b[t[1]] \in T /\ g[b[t[1]]] = f[t[1]]
    BY <1>2, <2>1
  <2> QED
    BY <1>1, <2>1, <2>2
<1>4. ASSUME NEW t \in Packets(f, d), NEW u \in Packets(f, d), B[t] = B[u]
      PROVE  t = u
  <2>1. t \in S \X Nat /\ u \in S \X Nat
    BY <1>1
  <2>2. b[t[1]] = b[u[1]] /\ t[2] = u[2]
    BY <1>4
  <2> QED
    BY <1>2, <2>1, <2>2
<1>5. ASSUME NEW u \in Packets(g, d)
      PROVE  \E t \in Packets(f, d) : B[t] = u
  <2>1. u \in T \X Nat /\ u[2] \in 1 .. g[u[1]][d]
    BY <1>1
  <2>2. PICK x \in S : b[x] = u[1]
    BY <1>2, <2>1
  <2>3. <<x, u[2]>> \in Packets(f, d)
    BY <1>1, <2>1, <2>2
  <2>4. B[<<x, u[2]>>] = u
    BY <2>1, <2>2, <2>3
  <2> QED
    BY <2>3, <2>4
<1>6. B \in Bijection(Packets(f, d), Packets(g, d))
  BY <1>3, <1>4, <1>5 DEF Bijection, Injection, Surjection, IsInjective
<1> HIDE DEF B
<1> QED
  BY <1>6, PacketsFinite, FS_Bijection DEF ExistsBijection

(* Empty events have none.                                                 *)
LEMMA PacketsNone ==
    ASSUME NEW d \in Dirs, NEW f, \A x \in DOMAIN f : f[x] = None
    PROVE  Cardinality(Packets(f, d)) = 0
<1>1. Packets(f, d) = {}
  BY DEF Packets, None
<1> QED
  BY <1>1, FS_EmptySet

(* A record more at the end.                                               *)
LEMMA PacketsLast ==
    ASSUME NEW d \in Dirs, NEW n \in Nat, NEW f, NEW g
    PROVE  /\ f \in [1 .. n -> Count] /\ g \in [1 .. n + 1 -> Count]
           /\ \A k \in 1 .. n : g[k] = f[k]
           => Cardinality(Packets(g, d)) = Cardinality(Packets(f, d)) + g[n + 1][d]
<1> DEFINE S == 1 .. n + 1
           x == n + 1
           R == 1 .. n
<1>1. R = S \ {x} /\ x \in S /\ IsFiniteSet(S)
  BY Numbers
<1> HIDE DEF S, x, R
<1>2. /\ f \in [R -> Count] /\ g \in [S -> Count]
      /\ \A k \in R : g[k] = f[k]
      => Cardinality(Packets(g, d)) = Cardinality(Packets(f, d)) + g[x][d]
  BY <1>1, PacketsAdd
<1> QED
  BY <1>2 DEF S, x, R

(* A record less at the start: the others move up.                         *)
LEMMA PacketsFirst ==
    ASSUME NEW d \in Dirs, NEW n \in Nat \ {0}, NEW f, NEW g
    PROVE  /\ f \in [1 .. n -> Count] /\ g \in [1 .. n - 1 -> Count]
           /\ \A k \in 1 .. n - 1 : g[k] = f[k + 1]
           => Cardinality(Packets(f, d)) = Cardinality(Packets(g, d)) + f[1][d]
<1> DEFINE S == 1 .. n
           x == 1
           R == 2 .. n
           T == 1 .. n - 1
           up == [k \in R |-> k - 1]
           h == [k \in R |-> f[k]]
           Moved == \A k \in T : g[k] = f[k + 1]
<1>1. R = S \ {x} /\ x \in S /\ R \subseteq S
  OBVIOUS
<1>2. IsFiniteSet(S) /\ IsFiniteSet(R)
  <2>1. n \in Int
    OBVIOUS
  <2> QED
    BY <2>1, FS_Interval
<1>3. up \in Bijection(R, T)
  <2>1. up \in [R -> T]
    OBVIOUS
  <2>2. \A a \in R, b \in R : up[a] = up[b] => a = b
    OBVIOUS
  <2>3. ASSUME NEW m \in T
        PROVE  \E k \in R : up[k] = m
    <3>1. m + 1 \in R /\ up[m + 1] = m
      OBVIOUS
    <3> QED
      BY <3>1
  <2> QED
    BY <2>1, <2>2, <2>3 DEF Bijection, Injection, Surjection, IsInjective
<1>4. Moved => \A k \in R : g[up[k]] = f[k]
  OBVIOUS
<1> HIDE DEF S, x, R, T, up, Moved
<1>5. ASSUME f \in [S -> Count], g \in [T -> Count], Moved
      PROVE  Cardinality(Packets(f, d)) = Cardinality(Packets(g, d)) + f[x][d]
  <2>1. h \in [R -> Count] /\ \A k \in R : f[k] = h[k]
    BY <1>1, <1>5
  <2>2. \A k \in R : g[up[k]] = h[k]
    BY <1>4, <1>5, <2>1
  <2> HIDE DEF h
  <2>3. Cardinality(Packets(f, d)) = Cardinality(Packets(h, d)) + f[x][d]
    BY <1>1, <1>2, <1>5, <2>1, PacketsAdd
  <2>4. Cardinality(Packets(g, d)) = Cardinality(Packets(h, d))
    BY <1>2, <1>3, <1>5, <2>1, <2>2, PacketsRename
  <2> QED
    BY <2>3, <2>4
<1> QED
  BY <1>5 DEF S, x, T, Moved

(* A record is put in the ring.                                            *)
LEMMA PacketsAppend ==
    ASSUME NEW d \in Dirs, NEW s \in Seq(Count), NEW e \in Count
    PROVE  Cardinality(Packets(Append(s, e), d)) = Cardinality(Packets(s, d)) + e[d]
<1> DEFINE n == Len(s)
           t == Append(s, e)
<1>1. n \in Nat /\ s \in [1 .. n -> Count]
  BY LenProperties
<1>2. /\ t \in [1 .. n + 1 -> Count] /\ t[n + 1] = e
      /\ \A k \in 1 .. n : t[k] = s[k]
  <2>1. t \in Seq(Count) /\ Len(t) = n + 1
    BY AppendProperties
  <2>2. t \in [1 .. Len(t) -> Count]
    BY <2>1, LenProperties
  <2>3. t[n + 1] = e /\ \A k \in 1 .. n : t[k] = s[k]
    BY AppendProperties
  <2> QED
    BY <2>1, <2>2, <2>3
<1> HIDE DEF n, t
<1>3. Cardinality(Packets(t, d)) = Cardinality(Packets(s, d)) + t[n + 1][d]
  BY <1>1, <1>2, PacketsLast
<1> QED
  BY <1>2, <1>3 DEF t

(* The first record is taken out of the ring.                              *)
LEMMA PacketsTail ==
    ASSUME NEW d \in Dirs, NEW s \in Seq(Count), s # <<>>
    PROVE  Cardinality(Packets(s, d)) = Cardinality(Packets(Tail(s), d)) + Head(s)[d]
<1> DEFINE n == Len(s)
           t == Tail(s)
<1>1. n \in Nat \ {0}
  BY EmptySeq
<1>2. /\ s \in [1 .. n -> Count] /\ t \in [1 .. n - 1 -> Count]
      /\ \A k \in 1 .. n - 1 : t[k] = s[k + 1]
  <2>1. t \in Seq(Count) /\ Len(t) = n - 1
    BY HeadTailProperties
  <2>2. s \in [1 .. n -> Count] /\ t \in [1 .. n - 1 -> Count]
    BY <2>1, LenProperties
  <2>3. \A k \in 1 .. n - 1 : t[k] = s[k + 1]
    BY <2>1, HeadTailProperties
  <2> QED
    BY <2>2, <2>3
<1>3. Head(s) = s[1]
  OBVIOUS
<1> HIDE DEF n, t
<1>4. /\ s \in [1 .. n -> Count] /\ t \in [1 .. n - 1 -> Count]
      /\ \A k \in 1 .. n - 1 : t[k] = s[k + 1]
      => Cardinality(Packets(s, d)) = Cardinality(Packets(t, d)) + s[1][d]
  BY <1>1, PacketsFirst
<1> QED
  BY <1>2, <1>3, <1>4 DEF t

(* All packets on their way are done with when the collector is detached.  *)
LEMMA NoneLeft ==
    ASSUME TypeOK, Detached, pending' = None, done' = sent, sent' = sent
    PROVE  Conserved'
<1> SUFFICES ASSUME NEW d \in Dirs
             PROVE  sent'[d] = acc'[d] + Cardinality(Packets(out', d))
                               + Cardinality(Packets(ring', d)) + pending'[d] + done'[d]
  BY DEF Conserved, Packets
<1>1. Cardinality(Packets(out', d)) = 0 /\ Cardinality(Packets(ring', d)) = 0
  BY PacketsNone DEF Detached
<1>2. acc'[d] = 0 /\ pending'[d] = 0 /\ done'[d] = sent[d] /\ sent'[d] = sent[d]
  BY DEF Detached, None
<1>3. sent[d] \in Nat
  BY Part DEF TypeOK
<1> QED
  BY <1>1, <1>2, <1>3

(* No packet is lost without being accounted for, and none counted twice,  *)
(* between the TC programs, the ring, the samples and the pulses.          *)
THEOREM Conservation == Spec => []Conserved
<1>1. Init => Conserved
  <2> SUFFICES ASSUME Init, NEW d \in Dirs
               PROVE  sent[d] = acc[d] + Cardinality(Packets(out, d))
                                + Cardinality(Packets(ring, d)) + pending[d] + done[d]
    BY DEF Conserved
  <2>1. Cardinality(Packets(out, d)) = 0 /\ Cardinality(Packets(ring, d)) = 0
    BY PacketsNone DEF Init
  <2>2. acc[d] = 0 /\ pending[d] = 0 /\ done[d] = 0 /\ sent[d] = 0
    BY DEF Init, None
  <2> QED
    BY <2>1, <2>2
<1>2. TypeOK /\ TypeOK' /\ Conserved /\ [Next]_vars => Conserved'
  <2> SUFFICES ASSUME TypeOK, TypeOK', Conserved, [Next]_vars
               PROVE  Conserved'
    OBVIOUS
  <2> USE CpuAssumption
  <2>1. /\ out \in [Cpus -> Count] /\ out' \in [Cpus -> Count]
        /\ ring \in Seq(Count) /\ ring' \in Seq(Count)
        /\ acc \in Count /\ pending \in Count /\ done \in Count /\ sent \in Count
    <3>1. Seq(Count \ {None}) \subseteq Seq(Count)
      OBVIOUS
    <3> QED
      BY <3>1 DEF TypeOK
  <2>2. ASSUME NEW d \in Dirs
        PROVE  /\ acc[d] \in Nat /\ pending[d] \in Nat /\ done[d] \in Nat
               /\ sent[d] \in Nat
               /\ Cardinality(Packets(out, d)) \in Nat
               /\ Cardinality(Packets(ring, d)) \in Nat
    <3>1. ring \in [1 .. Len(ring) -> Count] /\ Len(ring) \in Nat
      BY <2>1
    <3>2. IsFiniteSet(1 .. Len(ring))
      BY <3>1, Numbers
    <3> QED
      BY <2>1, <3>1, <3>2, Part, PacketsFinite
  <2>3. CASE UNCHANGED <<acc, out, ring, pending, sent, done>>
    BY <2>3 DEF Conserved, Packets
  <2>4. CASE Gone \/ HandleSignal
    BY <2>4, NoneLeft DEF Gone, HandleSignal
  <2>5. CASE Consume
    <3> SUFFICES ASSUME NEW d \in Dirs
                 PROVE  sent'[d] = acc'[d] + Cardinality(Packets(out', d))
                                   + Cardinality(Packets(ring', d)) + pending'[d] + done'[d]
      BY DEF Conserved, Packets
    <3>1. /\ pending'[d] = pending[d] + Head(ring)[d] /\ Head(ring) \in Count
          /\ ring' = Tail(ring) /\ ring # <<>>
          /\ UNCHANGED <<acc, out, sent, done>>
      BY <2>1, <2>5 DEF Consume, Plus
    <3>2. Cardinality(Packets(ring, d)) = Cardinality(Packets(ring', d)) + Head(ring)[d]
      BY <2>1, <3>1, PacketsTail
    <3>3. ring' \in [1 .. Len(ring') -> Count] /\ Len(ring') \in Nat
      BY <2>1
    <3>6. IsFiniteSet(1 .. Len(ring'))
      BY <3>3, Numbers
    <3>4. Cardinality(Packets(ring', d)) \in Nat /\ Head(ring)[d] \in Nat
      BY <3>1, <3>3, <3>6, PacketsFinite, Part
    <3>5. sent[d] = acc[d] + Cardinality(Packets(out, d))
                    + Cardinality(Packets(ring, d)) + pending[d] + done[d]
      BY DEF Conserved
    <3> DEFINE h == Head(ring)[d]
    <3>7. /\ pending'[d] = pending[d] + h /\ h \in Nat
          /\ Cardinality(Packets(ring, d)) = Cardinality(Packets(ring', d)) + h
          /\ acc'[d] = acc[d] /\ sent'[d] = sent[d] /\ done'[d] = done[d]
          /\ Cardinality(Packets(out', d)) = Cardinality(Packets(out, d))
      BY <3>1, <3>2, <3>4
    <3> HIDE DEF h
    <3> QED
      BY <2>2, <3>4, <3>5, <3>7
  <2>6. CASE Render
    <3> SUFFICES ASSUME NEW d \in Dirs
                 PROVE  sent'[d] = acc'[d] + Cardinality(Packets(out', d))
                                   + Cardinality(Packets(ring', d)) + pending'[d] + done'[d]
      BY DEF Conserved, Packets
    <3>1. /\ pending'[d] = 0 /\ done'[d] = done[d] + pending[d]
          /\ UNCHANGED <<acc, out, ring, sent>>
      BY <2>6 DEF Render, None, Plus, kernel
    <3>2. sent[d] = acc[d] + Cardinality(Packets(out, d))
                    + Cardinality(Packets(ring, d)) + pending[d] + done[d]
      BY DEF Conserved
    <3> QED
      BY <2>2, <3>1, <3>2
  <2>7. ASSUME NEW c \in Cpus, NEW x \in Dirs, Packet(c, x)
        PROVE  Conserved'
    <3> SUFFICES ASSUME NEW d \in Dirs
                 PROVE  sent'[d] = acc'[d] + Cardinality(Packets(out', d))
                                   + Cardinality(Packets(ring', d)) + pending'[d] + done'[d]
      BY DEF Conserved, Packets
    <3> DEFINE total == [acc EXCEPT ![x] = @ + 1]
    <3>1. /\ out[c] = None /\ UNCHANGED <<ring, pending, done>>
          /\ sent' = [sent EXCEPT ![x] = @ + 1]
      BY <2>7 DEF Packet, net
    <3>2. total \in Count /\ total[d] \in Nat /\ sent'[d] - sent[d] = total[d] - acc[d]
          /\ sent'[d] \in Nat
      <4>1. acc \in [Dirs -> Nat] /\ sent \in [Dirs -> Nat]
        BY <2>1 DEF Count
      <4>2. total \in Count
        BY <4>1 DEF Count
      <4>3. CASE d = x
        BY <2>2, <3>1, <4>1, <4>2, <4>3
      <4>4. CASE d # x
        BY <2>2, <3>1, <4>1, <4>2, <4>4
      <4> QED
        BY <4>3, <4>4
    <3>3. sent[d] = acc[d] + Cardinality(Packets(out, d))
                    + Cardinality(Packets(ring, d)) + pending[d] + done[d]
      BY DEF Conserved
    <3> HIDE DEF total
    <3>4. CASE acc' = total /\ UNCHANGED out
      BY <2>2, <3>1, <3>2, <3>3, <3>4
    <3>5. CASE acc' = None /\ out' = [out EXCEPT ![c] = total]
      <4>1. /\ acc'[d] = 0 /\ out[c][d] = 0 /\ out'[c] = total
            /\ \A y \in Cpus \ {c} : out'[y] = out[y]
        BY <2>1, <3>1, <3>5 DEF None
      <4>2. Cardinality(Packets(out', d)) = Cardinality(Packets(out, d)) + total[d]
        BY <2>1, <4>1, PacketsSet
      <4> QED
        BY <2>2, <3>1, <3>2, <3>3, <4>1, <4>2
    <3> QED
      BY <2>7, <3>4, <3>5 DEF Packet, total
  <2>8. ASSUME NEW c \in Cpus, Output(c)
        PROVE  Conserved'
    <3> SUFFICES ASSUME NEW d \in Dirs
                 PROVE  sent'[d] = acc'[d] + Cardinality(Packets(out', d))
                                   + Cardinality(Packets(ring', d)) + pending'[d] + done'[d]
      BY DEF Conserved, Packets
    <3>1. /\ out' = [out EXCEPT ![c] = None] /\ UNCHANGED <<acc, pending, sent>>
          /\ \/ ring' = Append(ring, out[c]) /\ UNCHANGED done
             \/ done' = Plus(done, out[c]) /\ UNCHANGED ring
      BY <2>8 DEF Output, net
    <3>2. /\ out'[c][d] = 0 /\ out[c] \in Count /\ out[c][d] \in Nat
          /\ \A y \in Cpus \ {c} : out[y] = out'[y]
      BY <2>1, <3>1, Part DEF None
    <3>3. Cardinality(Packets(out, d)) = Cardinality(Packets(out', d)) + out[c][d]
      BY <2>1, <3>2, PacketsSet
    <3>4. Cardinality(Packets(out', d)) \in Nat
      BY <2>1, PacketsFinite
    <3>5. sent[d] = acc[d] + Cardinality(Packets(out, d))
                    + Cardinality(Packets(ring, d)) + pending[d] + done[d]
      BY DEF Conserved
    <3>6. CASE ring' = Append(ring, out[c]) /\ UNCHANGED done
      <4>1. Cardinality(Packets(ring', d)) = Cardinality(Packets(ring, d)) + out[c][d]
        BY <2>1, <3>2, <3>6, PacketsAppend
      <4> QED
        BY <2>2, <3>1, <3>2, <3>3, <3>4, <3>5, <3>6, <4>1
    <3>7. CASE done' = Plus(done, out[c]) /\ UNCHANGED ring
      <4>1. done'[d] = done[d] + out[c][d]
        BY <3>7 DEF Plus
      <4> QED
        BY <2>2, <3>1, <3>2, <3>3, <3>4, <3>5, <3>7, <4>1
    <3> QED
      BY <3>1, <3>6, <3>7
  <2>9. CASE InitLed
    <3>1. Gone \/ UNCHANGED <<acc, out, ring, pending, sent, done>>
      BY <2>9 DEF InitLed, kernel, net
    <3> QED
      BY <2>3, <2>4, <3>1
  <2>10. CASE Cleanup \/ Crash
    BY <2>4, <2>10 DEF Cleanup, Crash
  <2>11. CASE Poll \/ HandleTimer \/ ConsumeEnds \/ RenderNothing \/ Start \/ Tick
              \/ Terminate \/ UNCHANGED vars
    BY <2>3, <2>11 DEF Poll, HandleTimer, ConsumeEnds, RenderNothing, Start, Tick,
                       Terminate, vars, kernel, net
  <2> QED
    BY <2>5, <2>6, <2>7, <2>8, <2>9, <2>10, <2>11, <2>4 DEF Next, Daemon
<1> QED
  BY <1>1, <1>2, Typing, PTL DEF Spec

-----------------------------------------------------------------------------
(* Scheduler, for every unit D of the shares and every bound on the        *)
(* samples.                                                                *)

(* RX's credit is what it earned less what it was given, TX's the opposite; *)
(* neither is ever more than half a pulse.  A direction that was passed    *)
(* over with the larger share is ahead.                                    *)
Credits ==
    /\ rx_credit \in Int /\ tx_credit \in Int /\ earned \in Int
    /\ given \in Int
    /\ rx_credit + tx_credit = 0
    /\ rx_credit = earned - D * given
    /\ -D <= 2 * rx_credit /\ 2 * rx_credit <= D
    /\ last \in [share : Int, rx : BOOLEAN]
    /\ 2 * last.share > D /\ ~last.rx => rx_credit > 0
    /\ 2 * last.share < D /\ last.rx => rx_credit < 0

LEMMA InitCredits == SchedulerInit => Credits
<1>1. D \in Nat \ {0} /\ D * 0 = 0
  BY ShareAssumption
<1>2. NoSample \in [share : Int, rx : BOOLEAN] /\ NoSample.share = 0
      /\ ~NoSample.rx
  BY DEF NoSample
<1> SUFFICES ASSUME SchedulerInit PROVE Credits
  OBVIOUS
<1>3. /\ rx_credit = 0 /\ tx_credit = 0 /\ earned = 0 /\ given = 0
      /\ last \in [share : Int, rx : BOOLEAN] /\ last.share = 0 /\ ~last.rx
  BY <1>2 DEF SchedulerInit
<1>4. rx_credit = earned - D * given
  BY <1>1, <1>3
<1>5. rx_credit + tx_credit = 0
  BY <1>3
<1>6. -D <= 0 /\ 0 <= D
  BY <1>1
<1>7. -D <= 2 * rx_credit /\ 2 * rx_credit <= D
  BY <1>3, <1>6
<1>8. ~(2 * last.share > D)
  BY <1>1, <1>3
<1> QED
  BY <1>1, <1>3, <1>4, <1>5, <1>7, <1>8 DEF Credits

(* One mixed sample, with its choice spelled out.                          *)
LEMMA MixedStep ==
    ASSUME Credits, NEW share \in 1 .. D - 1, ChooseMixed(share)
    PROVE  /\ Credits'
           /\ last'.share = share
           /\ last'.rx <=> 2 * (rx_credit + share) >= D
<1> DEFINE rx == rx_credit + share >= tx_credit + (D - share)
<1>1. /\ D \in Nat \ {0} /\ share \in Nat /\ rx_credit \in Int
      /\ tx_credit \in Int /\ earned \in Int /\ given \in Int
      /\ rx_credit + tx_credit = 0
  BY ShareAssumption DEF Credits
<1>2. rx <=> 2 * (rx_credit + share) >= D
  BY <1>1
<1>3. /\ rx_credit' = rx_credit + share - (IF rx THEN D ELSE 0)
      /\ tx_credit' = tx_credit + (D - share) - (IF rx THEN 0 ELSE D)
      /\ earned' = earned + share
      /\ given' = given + (IF rx THEN 1 ELSE 0)
      /\ last' = [share |-> share, rx |-> rx]
  BY DEF ChooseMixed
<1>4. /\ last' \in [share : Int, rx : BOOLEAN]
      /\ last'.share = share
      /\ last'.rx <=> rx
  <2>1. rx \in BOOLEAN
    OBVIOUS
  <2> HIDE DEF rx
  <2> QED
    BY <1>1, <1>3, <2>1
<1> HIDE DEF rx
<1>5. CASE rx
  <2>1. /\ rx_credit' = rx_credit + share - D
        /\ tx_credit' = tx_credit + (D - share)
        /\ earned' = earned + share
        /\ given' = given + 1
    BY <1>1, <1>3, <1>5
  <2>2. D * (given + 1) = D * given + D
    BY <1>1
  <2> QED
    BY <1>1, <1>2, <1>4, <1>5, <2>1, <2>2 DEF Credits
<1>6. CASE ~rx
  <2>1. /\ rx_credit' = rx_credit + share
        /\ tx_credit' = tx_credit + (D - share) - D
        /\ earned' = earned + share
        /\ given' = given
    BY <1>1, <1>3, <1>6
  <2> QED
    BY <1>1, <1>2, <1>4, <1>6, <2>1 DEF Credits
<1> QED
  BY <1>2, <1>4, <1>5, <1>6

LEMMA StepCredits == Credits /\ [SchedulerNext]_scheduler => Credits'
<1> SUFFICES ASSUME Credits, [SchedulerNext]_scheduler PROVE Credits'
  OBVIOUS
<1>1. ASSUME NEW rx \in BOOLEAN, ChooseOnly(rx)
      PROVE  Credits'
  BY <1>1 DEF ChooseOnly, Credits
<1>2. ASSUME NEW share \in 1 .. D - 1, ChooseMixed(share)
      PROVE  Credits'
  BY <1>2, MixedStep
<1>3. CASE UNCHANGED scheduler
  BY <1>3 DEF scheduler, Credits
<1> QED
  BY <1>1, <1>2, <1>3 DEF SchedulerNext

(* scheduler.c shares the pulses of mixed traffic by its bytes, to within  *)
(* half a pulse, forever.                                                  *)
THEOREM PulsesFair == SchedulerSpec => []FairShare
<1>1. Credits => FairShare
  <2> SUFFICES ASSUME Credits PROVE FairShare
    OBVIOUS
  <2>1. D * given \in Int
    BY ShareAssumption DEF Credits
  <2> QED
    BY <2>1, ShareAssumption DEF Credits, FairShare
<1> QED
  BY <1>1, InitCredits, StepCredits, PTL DEF SchedulerSpec

(* No history of traffic keeps the direction that now has the larger share *)
(* from one of its next two pulses.                                        *)
THEOREM OldTrafficPaid == SchedulerSpec => NotPinned
<1> DEFINE Turn ==
      earned' # earned /\ last # NoSample =>
         /\ 2 * last.share > D /\ 2 * last'.share > D => last.rx \/ last'.rx
         /\ 2 * last.share < D /\ 2 * last'.share < D => ~last.rx \/ ~last'.rx
<1>1. Credits /\ [SchedulerNext]_scheduler => [Turn]_scheduler
  <2> SUFFICES ASSUME Credits, SchedulerNext, earned' # earned
               PROVE  Turn
    BY DEF Turn
  <2>1. PICK share \in 1 .. D - 1 : ChooseMixed(share)
    BY DEF SchedulerNext, ChooseOnly
  <2>2. last'.share = share /\ (last'.rx <=> 2 * (rx_credit + share) >= D)
    BY <2>1, MixedStep
  <2> QED
    BY <2>2, ShareAssumption DEF Credits
<1> QED
  BY <1>1, InitCredits, StepCredits, PTL DEF SchedulerSpec, NotPinned
=============================================================================

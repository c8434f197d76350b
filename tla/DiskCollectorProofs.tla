------------------------ MODULE DiskCollectorProofs ------------------------
(***************************************************************************)
(* Theorems about DiskCollector, for any number of CPUs, devices and map   *)
(* elements, any interval and any number of refills: its types, the order  *)
(* of the two maps, the spacing of events, and that no request is missed.  *)
(***************************************************************************)
EXTENDS DiskCollector, TLAPS

(* A step that only gives a CPU a well-formed program keeps the types.     *)
LEMMA RunStep ==
    ASSUME TypeOK, NEW c \in Cpus, NEW r \in Run,
           r.pc # "idle" => r.dev \in Devs,
           r.pc \in {"clock", "read", "swap"} => r.cell \in Cells,
           run' = [run EXCEPT ![c] = r]
    PROVE  /\ run' \in [Cpus -> Run]
           /\ \A k \in Cpus :
                 /\ run'[k].pc # "idle" => run'[k].dev \in Devs
                 /\ run'[k].pc \in {"clock", "read", "swap"} =>
                       run'[k].cell \in Cells
BY DEF TypeOK

(* The event a program that wins the swap sends.                           *)
NewEvent(c) ==
    [at |-> run[c].now, won |-> clock, cell |-> run[c].cell,
     found |-> run[c].found, into |-> Len(given[run[c].cell])]

LEMMA EventType ==
    ASSUME TypeOK, NEW c \in Cpus, run[c].pc = "swap"
    PROVE  NewEvent(c) \in Event
<1>1. run[c] \in Run /\ run[c].cell \in Cells
  BY DEF TypeOK
<1>2. given[run[c].cell] \in Seq(Devs) /\ clock \in Nat
  BY <1>1 DEF TypeOK
<1>3. Len(given[run[c].cell]) \in Nat
  BY <1>2
<1> QED
  BY <1>1, <1>2, <1>3 DEF NewEvent, Event, Run

(* Every variable keeps its type; a program has a device and, past its     *)
(* lookups, an element to point to.                                        *)
THEOREM Typing == Spec => []TypeOK
<1>1. Init => TypeOK
  BY DEF Init, TypeOK, Run, Idle
<1>2. TypeOK /\ [Next]_vars => TypeOK'
  <2> SUFFICES ASSUME TypeOK, [Next]_vars PROVE TypeOK'
    OBVIOUS
  <2> USE IntervalAssumption DEF TypeOK
  <2>1. Idle \in Run /\ Idle.pc = "idle"
    BY DEF Idle, Run
  <2>2. ASSUME NEW c \in Cpus, NEW d \in Devs, Issue(c, d)
        PROVE  TypeOK'
    <3> DEFINE r == [Idle EXCEPT !.pc = "lookup", !.dev = d]
    <3>1. r \in Run /\ r.pc = "lookup" /\ r.dev = d
      BY DEF Idle, Run
    <3>2. run' = [run EXCEPT ![c] = r]
      BY <2>2 DEF Issue
    <3> HIDE DEF r
    <3> QED
      BY <2>2, <3>1, <3>2, RunStep DEF Issue
  <2>3. ASSUME NEW c \in Cpus, LookupState(c)
        PROVE  TypeOK'
    <3>1. ASSUME NEW x \in Cells,
                 run' = [run EXCEPT ![c].pc = "clock", ![c].cell = x,
                                    ![c].found = Len(given[x])]
          PROVE  TypeOK'
      <4> DEFINE n == Len(given[x])
                 r == [run[c] EXCEPT !.pc = "clock", !.cell = x, !.found = n]
      <4>0. n \in Nat
        OBVIOUS
      <4>1. r \in Run /\ r.cell = x /\ r.dev = run[c].dev /\ r.dev \in Devs
        BY <2>3, <4>0 DEF Run, LookupState
      <4>2. run' = [run EXCEPT ![c] = r]
        BY <3>1
      <4> HIDE DEF r
      <4> QED
        BY <2>3, <4>1, <4>2, RunStep DEF LookupState
    <3>2. CASE run' = [run EXCEPT ![c] = Idle]
      BY <2>1, <2>3, <3>2, RunStep DEF LookupState
    <3> QED
      BY <2>3, <3>1, <3>2 DEF LookupState
  <2>4. ASSUME NEW c \in Cpus, ReadClock(c)
        PROVE  TypeOK'
    <3> DEFINE r == [run[c] EXCEPT !.pc = "read", !.now = clock]
    <3>1. r \in Run /\ r.cell \in Cells /\ r.dev \in Devs
      BY <2>4 DEF ReadClock, Run
    <3>2. run' = [run EXCEPT ![c] = r]
      BY <2>4 DEF ReadClock
    <3> HIDE DEF r
    <3> QED
      BY <2>4, <3>1, <3>2, RunStep DEF ReadClock
  <2>5. ASSUME NEW c \in Cpus, ReadDeadline(c)
        PROVE  TypeOK'
    <3> DEFINE old == next[run[c].cell]
               r == [run[c] EXCEPT !.pc = "swap", !.old = old]
    <3>1. run[c].cell \in Cells /\ old \in Nat
      BY <2>5 DEF ReadDeadline
    <3>2. r \in Run /\ r.cell = run[c].cell /\ r.dev \in Devs
      BY <2>5, <3>1 DEF Run, ReadDeadline
    <3>3. \/ run' = [run EXCEPT ![c] = r]
          \/ run' = [run EXCEPT ![c] = Idle]
      BY <2>5 DEF ReadDeadline
    <3> HIDE DEF r
    <3> QED
      BY <2>1, <2>5, <3>1, <3>2, <3>3, RunStep DEF ReadDeadline
  <2>6. ASSUME NEW c \in Cpus, Swap(c)
        PROVE  TypeOK'
    <3>1. run[c].now \in Nat /\ run[c].cell \in Cells /\ run[c].dev \in Devs
      BY <2>6 DEF Swap, Run
    <3>2. run' = [run EXCEPT ![c] = Idle]
      BY <2>6 DEF Swap
    <3>3. /\ run' \in [Cpus -> Run]
          /\ \A k \in Cpus :
                /\ run'[k].pc # "idle" => run'[k].dev \in Devs
                /\ run'[k].pc \in {"clock", "read", "swap"} =>
                      run'[k].cell \in Cells
      BY <2>1, <3>2, RunStep
    <3>4. CASE UNCHANGED <<next, sent>>
      BY <2>6, <3>3, <3>4 DEF Swap
    <3>5. CASE next[run[c].cell] = run[c].old
      <4> DEFINE x == run[c].cell
                 now == run[c].now
                 d == run[c].dev
                 e == NewEvent(c)
      <4>1. /\ next' = [next EXCEPT ![x] = now + Interval]
            /\ sent' = [sent EXCEPT ![d] = Append(@, e)]
        BY <2>6, <3>5 DEF Swap, Send, NewEvent
      <4>2. now + Interval \in Nat
        BY <3>1
      <4>3. e \in Event
        BY <2>6, EventType DEF Swap
      <4> HIDE DEF e
      <4>4. Append(sent[d], e) \in Seq(Event)
        BY <3>1, <4>3
      <4>5. /\ next' \in [Cells -> Nat]
            /\ sent' \in [Devs -> Seq(Event)]
        BY <3>1, <4>1, <4>2, <4>4
      <4> QED
        BY <2>6, <3>3, <4>5 DEF Swap
    <3> QED
      BY <2>6, <3>4, <3>5 DEF Swap
  <2>7. ASSUME NEW present \in SUBSET Devs, SyncStarts(present)
        PROVE  TypeOK'
    BY <2>7 DEF SyncStarts
  <2>8. CASE Clear
    BY <2>8 DEF Clear
  <2>9. ASSUME NEW d \in Devs, EnterState(d)
        PROVE  TypeOK'
    <3>1. PICK x \in Cells :
             /\ states' = [states EXCEPT ![x] = d]
             /\ next' = [next EXCEPT ![x] = 0]
             /\ given' = [given EXCEPT ![x] = Append(@, d)]
      BY <2>9 DEF EnterState
    <3>2. Append(given[x], d) \in Seq(Devs)
      OBVIOUS
    <3>3. given' \in [Cells -> Seq(Devs)]
      BY <3>1, <3>2
    <3> QED
      BY <2>9, <3>1, <3>3 DEF EnterState
  <2>10. ASSUME NEW d \in Devs, EnterTarget(d)
         PROVE  TypeOK'
    BY <2>10 DEF EnterTarget
  <2>11. ASSUME NEW d \in Devs, EnterFails(d)
         PROVE  TypeOK'
    BY <2>11 DEF EnterFails
  <2>12. CASE SyncEnds
    BY <2>12 DEF SyncEnds
  <2>13. CASE Tick
    BY <2>13 DEF Tick
  <2>14. CASE UNCHANGED vars
    BY <2>14 DEF vars
  <2> QED
    BY <2>2, <2>3, <2>4, <2>5, <2>6, <2>7, <2>8, <2>9, <2>10, <2>11, <2>12,
       <2>13, <2>14
    DEF Next, Program, Sync
<1> QED
  BY <1>1, <1>2, PTL DEF Spec

-----------------------------------------------------------------------------
(* A refill enters devices one by one: what it has still to enter is in no *)
(* map, but for the one whose state it just entered.                       *)
Refill ==
    /\ sync = "enter" => Keys(states) \cap todo = {}
    /\ sync = "target" => \E d \in todo : Keys(states) \cap todo = {d}
    /\ sync \in {"enter", "target"} => Keys(targets) \cap todo = {}

MapInv == TypeOK /\ TargetHasState /\ Refill

LEMMA KeysMember ==
    \A map : \A d \in Devs : d \in Keys(map) <=> \E x \in Cells : map[x] = d
BY FreeAssumption DEF Keys

LEMMA InitMapInv == Init => TargetHasState /\ Refill
BY DEF Init, TargetHasState, Refill, Keys

LEMMA StepMapInv ==
    MapInv /\ TypeOK' /\ [Next]_vars => TargetHasState' /\ Refill'
<1> SUFFICES ASSUME MapInv, TypeOK', [Next]_vars
             PROVE  TargetHasState' /\ Refill'
  OBVIOUS
<1> USE DEF MapInv
<1>1. CASE UNCHANGED <<targets, states, sync, todo>>
  BY <1>1 DEF TargetHasState, Refill, Keys
<1>2. ASSUME NEW present \in SUBSET Devs, SyncStarts(present)
      PROVE  TargetHasState' /\ Refill'
  BY <1>2 DEF SyncStarts, TargetHasState, Refill, Keys
<1>3. CASE Clear
  <2>1. CASE Keys(targets) # {}
    <3>1. PICK x \in Cells : targets' = [targets EXCEPT ![x] = Free]
      BY <1>3, <2>1 DEF Clear
    <3>2. UNCHANGED <<states, sync>> /\ sync = "clear"
      BY <1>3, <2>1 DEF Clear
    <3>3. Keys(targets)' \subseteq Keys(targets) /\ Keys(states)' = Keys(states)
      BY <3>1, <3>2 DEF Keys, TypeOK
    <3>4. \A y, z \in Cells :
             targets'[y] = targets'[z] => (y = z \/ targets'[y] = Free)
      BY <3>1 DEF TypeOK, TargetHasState
    <3> QED
      BY <3>2, <3>3, <3>4 DEF TargetHasState, Refill
  <2>2. CASE Keys(targets) = {} /\ Keys(states) # {}
    <3>1. PICK x \in Cells : states' = [states EXCEPT ![x] = Free]
      BY <1>3, <2>2 DEF Clear
    <3>2. UNCHANGED <<targets, sync>> /\ sync = "clear"
      BY <1>3, <2>2 DEF Clear
    <3>3. Keys(targets)' = {}
      BY <2>2, <3>2 DEF Keys
    <3>4. \A y, z \in Cells :
             states'[y] = states'[z] => y = z \/ states'[y] = Free
      BY <3>1 DEF TypeOK, TargetHasState
    <3> QED
      BY <3>2, <3>3, <3>4 DEF TargetHasState, Refill
  <2>3. CASE Keys(targets) = {} /\ Keys(states) = {}
    BY <1>3, <2>3 DEF Clear, TargetHasState, Refill, Keys
  <2> QED
    BY <2>1, <2>2, <2>3
<1>4. ASSUME NEW d \in Devs, EnterState(d)
      PROVE  TargetHasState' /\ Refill'
  <2>1. PICK x \in Cells : states[x] = Free
                           /\ states' = [states EXCEPT ![x] = d]
    BY <1>4 DEF EnterState
  <2>2. Keys(states)' = Keys(states) \cup {d}
    BY <2>1, FreeAssumption DEF Keys, TypeOK
  <2>3. d \notin Keys(states) /\ Keys(states) \cap todo = {} /\ d \in todo
    BY <1>4 DEF EnterState, Refill
  <2>4. \A y \in Cells : states[y] # d
    BY <2>3, KeysMember
  <2>5. UNCHANGED <<targets, todo>> /\ sync' = "target" /\ sync = "enter"
    BY <1>4 DEF EnterState
  <2>6. Keys(targets)' = Keys(targets)
    BY <2>5 DEF Keys
  <2>7. \A y, z \in Cells :
           states'[y] = states'[z] => y = z \/ states'[y] = Free
    BY <2>1, <2>4 DEF TypeOK, TargetHasState
  <2>8. TargetHasState'
    BY <2>2, <2>5, <2>6, <2>7 DEF TargetHasState
  <2>9. Refill'
    BY <2>2, <2>3, <2>5, <2>6 DEF Refill
  <2> QED
    BY <2>8, <2>9
<1>5. ASSUME NEW d \in Devs, EnterTarget(d)
      PROVE  TargetHasState' /\ Refill'
  <2>1. PICK x \in Cells : targets[x] = Free
                           /\ targets' = [targets EXCEPT ![x] = d]
    BY <1>5 DEF EnterTarget
  <2>2. Keys(targets)' = Keys(targets) \cup {d}
    BY <2>1, FreeAssumption DEF Keys, TypeOK
  <2>3. Keys(states) \cap todo = {d} /\ Keys(targets) \cap todo = {}
    BY <1>5 DEF EnterTarget, Refill
  <2>4. \A y \in Cells : targets[y] # d
    BY <2>3, KeysMember
  <2>5. \A y, z \in Cells :
           targets'[y] = targets'[z] => (y = z \/ targets'[y] = Free)
    BY <2>1, <2>4 DEF TypeOK, TargetHasState
  <2>6. UNCHANGED states /\ todo' = todo \ {d} /\ sync' = "enter"
    BY <1>5 DEF EnterTarget
  <2>7. Keys(states)' = Keys(states)
    BY <2>6 DEF Keys
  <2>8. TargetHasState'
    BY <2>2, <2>3, <2>5, <2>6, <2>7 DEF TargetHasState
  <2>9. Refill'
    BY <2>2, <2>3, <2>6, <2>7 DEF Refill
  <2> QED
    BY <2>8, <2>9
<1>6. ASSUME NEW d \in Devs, EnterFails(d)
      PROVE  TargetHasState' /\ Refill'
  <2>1. d \notin Keys(targets)
    BY <1>6 DEF EnterFails, Refill
  <2>2. Keys(states)' = Keys(states) \ {d}
    BY <1>6, FreeAssumption DEF EnterFails, Keys, TypeOK
  <2>3. UNCHANGED targets /\ sync' = "failed"
    BY <1>6 DEF EnterFails
  <2>4. Keys(targets)' = Keys(targets)
    BY <2>3 DEF Keys
  <2>5. \A x, y \in Cells :
           states'[x] = states'[y] => x = y \/ states'[x] = Free
    BY <1>6 DEF EnterFails, TargetHasState
  <2> QED
    BY <2>1, <2>2, <2>3, <2>4, <2>5 DEF TargetHasState, Refill
<1>7. CASE SyncEnds
  BY <1>7 DEF SyncEnds, TargetHasState, Refill, Keys
<1>8. ASSUME NEW c \in Cpus, Program(c)
      PROVE  UNCHANGED <<targets, states, sync, todo>>
  BY <1>8 DEF Program, Issue, LookupState, ReadClock, ReadDeadline, Swap
<1>9. Tick \/ UNCHANGED vars => UNCHANGED <<targets, states, sync, todo>>
  BY DEF Tick, vars
<1> QED
  BY <1>1, <1>2, <1>3, <1>4, <1>5, <1>6, <1>7, <1>8, <1>9
  DEF Next, Sync

(* bpf_runtime.c keeps the two maps in order: a device is a target only    *)
(* while it has a state, and has one state, at every moment of a refill.   *)
THEOREM MapsInOrder == Spec => []TargetHasState
<1>1. Spec => []MapInv
  BY InitMapInv, StepMapInv, Typing, PTL DEF Spec, MapInv
<1> QED
  BY <1>1, PTL DEF MapInv
-----------------------------------------------------------------------------
Events(d) == {sent[d][i] : i \in 1 .. Len(sent[d])}

(* Won on cell x in its present life.                                      *)
OnIt(e, x) == e.cell = x /\ e.into = Len(given[x])

(* The event (d, e) carries the device its program found, and the deadline *)
(* of its element is at least an interval after it.                        *)
EventOK(d, e) ==
    /\ e.at <= e.won /\ e.won <= clock
    /\ e.found \in 1 .. Len(given[e.cell]) /\ given[e.cell][e.found] = d
    /\ e.found <= e.into /\ e.into <= Len(given[e.cell])
    /\ e.into = Len(given[e.cell]) => next[e.cell] >= e.at + Interval

EventsOK == \A d \in Devs : \A e \in Events(d) : EventOK(d, e)

(* A deadline is one interval after an event won on the element.           *)
Deadlines ==
    \A x \in Cells :
        next[x] # 0 => \E d \in Devs : \E e \in Events(d) :
                          OnIt(e, x) /\ next[x] = e.at + Interval

(* The present owner of a cell is the last it was given to.                *)
Owners ==
    \A x \in Cells :
        states[x] # Free => /\ Len(given[x]) >= 1
                            /\ given[x][Len(given[x])] = states[x]

(* A program that tries the swap saw its deadline expired; if another won  *)
(* since, it did so after this one read the clock.                         *)
ProgramOK(c) ==
    /\ run[c].pc \in {"clock", "read", "swap"} =>
          /\ run[c].found \in 1 .. Len(given[run[c].cell])
          /\ given[run[c].cell][run[c].found] = run[c].dev
    /\ run[c].pc \in {"read", "swap"} => run[c].now <= clock
    /\ run[c].pc = "swap" =>
          /\ run[c].old = 0 \/ run[c].now >= run[c].old
          /\ Own(c) =>
                \/ next[run[c].cell] = run[c].old
                \/ \E d \in Devs : \E e \in Events(d) :
                       OnIt(e, run[c].cell) /\ e.won >= run[c].now

Programs == \A c \in Cpus : ProgramOK(c)

EventInv == TypeOK /\ EventsOK /\ Deadlines /\ Owners /\ Programs /\ Spaced

LEMMA InitEventInv ==
    Init => EventsOK /\ Deadlines /\ Owners /\ Programs /\ Spaced
BY DEF Init, Idle, EventsOK, Events, Deadlines, Owners, Programs, ProgramOK,
       Spaced

LEMMA EventsTyped ==
    ASSUME TypeOK, NEW d \in Devs, NEW e \in Events(d)
    PROVE  e \in Event
BY DEF TypeOK, Events

(* What a step changes that only concerns programs, events or owners.      *)
LEMMA EventsKept ==
    ASSUME EventInv, UNCHANGED <<next, sent, given>>, clock' >= clock,
           clock' \in Nat
    PROVE  EventsOK' /\ Deadlines' /\ Spaced'
<1>1. \A d \in Devs : Events(d)' = Events(d)
  BY DEF Events
<1>2. EventsOK'
  <2> SUFFICES ASSUME NEW d \in Devs, NEW e \in Events(d)
               PROVE  EventOK(d, e)'
    BY <1>1 DEF EventsOK
  <2>1. EventOK(d, e) /\ e \in Event /\ clock \in Nat
    BY EventsTyped DEF EventInv, EventsOK, TypeOK
  <2> QED
    BY <2>1 DEF EventOK, Event
<1>3. Deadlines'
  BY <1>1 DEF EventInv, Deadlines, OnIt
<1>4. Spaced'
  BY DEF EventInv, Spaced
<1> QED
  BY <1>2, <1>3, <1>4

LEMMA ProgramKept ==
    ASSUME EventInv, UNCHANGED <<next, sent, given>>, clock' >= clock,
           clock' \in Nat, NEW c \in Cpus, run'[c] = run[c]
    PROVE  ProgramOK(c)'
<1>1. \A d \in Devs : Events(d)' = Events(d)
  BY DEF Events
<1>2. ProgramOK(c) /\ run[c].now \in Nat /\ clock \in Nat
  BY DEF EventInv, Programs, TypeOK, Run
<1> QED
  BY <1>1, <1>2 DEF ProgramOK, Own, OnIt

(* The winner of the swap sends its event, and keeps the distance.         *)
LEMMA SwapSends ==
    ASSUME EventInv, NEW c \in Cpus, Swap(c),
           NEW x, x = run[c].cell, NEW now, now = run[c].now,
           NEW d, d = run[c].dev, NEW e, e = NewEvent(c),
           next[x] = run[c].old
    PROVE  /\ d \in Devs /\ e \in Events(d)' /\ e.won >= now
           /\ EventsOK' /\ Deadlines' /\ Spaced'
           /\ \A k \in Cpus \ {c} : ProgramOK(k)'
<1>0. PICK s : s = sent[d]
  OBVIOUS
<1>1. /\ x \in Cells /\ now \in Nat /\ now <= clock /\ d \in Devs
      /\ s \in Seq(Event) /\ Interval \in Nat \ {0} /\ clock \in Nat
      /\ next[x] \in Nat
  BY <1>0, IntervalAssumption DEF EventInv, TypeOK, Swap, Run, Programs, ProgramOK
<1>2. e \in Event
  BY EventType DEF EventInv, Swap
<1>3. /\ e.at = now /\ e.won = clock /\ e.cell = x
      /\ e.found = run[c].found /\ e.into = Len(given[x])
  BY DEF NewEvent
<1>4. /\ next' = [next EXCEPT ![x] = now + Interval]
      /\ sent' = [sent EXCEPT ![d] = Append(s, e)]
      /\ run' = [run EXCEPT ![c] = Idle]
      /\ UNCHANGED <<clock, given>>
  BY <1>0 DEF Swap, Send, NewEvent
<1>5. given[x] \in Seq(Devs) /\ e.found \in 1 .. e.into /\ given[x][e.found] = d
  BY <1>1, <1>3 DEF EventInv, TypeOK, Programs, ProgramOK, Swap
<1>6. /\ next'[x] = now + Interval /\ sent'[d] = Append(s, e)
      /\ \A y \in Cells \ {x} : next'[y] = next[y]
      /\ \A k \in Devs \ {d} : sent'[k] = sent[k]
      /\ \A k \in Cpus \ {c} : run'[k] = run[k]
  BY <1>0, <1>1, <1>4 DEF EventInv, TypeOK
<1>7. /\ Len(Append(s, e)) = Len(s) + 1
      /\ Append(s, e)[Len(s) + 1] = e
      /\ \A i \in 1 .. Len(s) : Append(s, e)[i] = s[i]
      /\ Len(s) \in Nat
  BY <1>1, <1>2
<1>8. Events(d)' = Events(d) \cup {e}
  BY <1>0, <1>6, <1>7 DEF Events
<1>9. \A k \in Devs \ {d} : Events(k)' = Events(k)
  BY <1>6 DEF Events
<1>10. \A k \in Devs : Events(k)' \subseteq Events(k) \cup {e}
                        /\ Events(k) \subseteq Events(k)'
  BY <1>8, <1>9
<1>11. \A k \in Devs : \A f \in Events(k) :
          OnIt(f, x) => now >= f.at + Interval
  <2> SUFFICES ASSUME NEW k \in Devs, NEW f \in Events(k), OnIt(f, x)
               PROVE  now >= f.at + Interval
    OBVIOUS
  <2>1. f \in Event /\ next[x] >= f.at + Interval
    BY EventsTyped DEF EventInv, EventsOK, EventOK, OnIt
  <2>2. next[x] # 0
    BY <1>1, <2>1 DEF Event
  <2>3. now >= next[x]
    BY <2>2 DEF EventInv, Programs, ProgramOK, Swap
  <2>4. f.at \in Nat
    BY <2>1 DEF Event
  <2> QED
    BY <1>1, <2>1, <2>3, <2>4
<1>12. EventsOK'
  <2> SUFFICES ASSUME NEW k \in Devs, NEW f \in Events(k)' PROVE EventOK(k, f)'
    BY DEF EventsOK
  <2>1. CASE f \in Events(k)
    <3>1. EventOK(k, f) /\ f \in Event
      BY <2>1, EventsTyped DEF EventInv, EventsOK
    <3>2. CASE f.cell = x /\ f.into = Len(given[x])
      <4>1. now >= f.at + Interval
        BY <1>11, <2>1, <3>2 DEF OnIt
      <4>2. next'[f.cell] = now + Interval /\ f.at \in Nat
        BY <1>6, <3>1, <3>2 DEF Event
      <4>3. next'[f.cell] >= f.at + Interval
        BY <1>1, <4>1, <4>2
      <4> QED
        BY <1>4, <3>1, <4>3 DEF EventOK
    <3>3. CASE f.cell = x /\ f.into # Len(given[x])
      BY <1>4, <3>1, <3>3 DEF EventOK
    <3>4. CASE f.cell # x
      BY <1>4, <1>6, <3>1, <3>4 DEF EventOK, Event
    <3> QED
      BY <3>2, <3>3, <3>4
  <2>2. CASE f = e /\ k = d
    <3>1. e.found \in Nat /\ e.into \in Nat
      BY <1>2 DEF Event
    <3>2. e.found <= e.into /\ e.into <= Len(given'[e.cell])
      BY <1>3, <1>4, <1>5, <3>1
    <3>3. /\ e.found \in 1 .. Len(given'[e.cell])
          /\ given'[e.cell][e.found] = d
      BY <1>3, <1>4, <1>5
    <3>4. next'[e.cell] >= e.at + Interval
      BY <1>1, <1>3, <1>6
    <3>5. e.at <= e.won /\ e.won <= clock'
      BY <1>1, <1>3, <1>4
    <3> QED
      BY <2>2, <3>2, <3>3, <3>4, <3>5 DEF EventOK
  <2> QED
    BY <1>8, <1>9, <2>1, <2>2
<1>13. Deadlines'
  <2> SUFFICES ASSUME NEW y \in Cells, next'[y] # 0
               PROVE  \E k \in Devs : \E f \in Events(k)' :
                         OnIt(f, y)' /\ next'[y] = f.at + Interval
    BY DEF Deadlines
  <2>1. CASE y = x
    <3>1. e \in Events(d)' /\ OnIt(e, y)'
      BY <1>3, <1>4, <1>8, <2>1 DEF OnIt
    <3>2. next'[y] = e.at + Interval
      BY <1>3, <1>6, <2>1
    <3> QED
      BY <1>1, <3>1, <3>2
  <2>2. CASE y # x
    <3>1. PICK k \in Devs : \E f \in Events(k) :
             OnIt(f, y) /\ next[y] = f.at + Interval
      BY <1>6, <2>2 DEF EventInv, Deadlines
    <3>2. PICK f \in Events(k) : OnIt(f, y) /\ next[y] = f.at + Interval
      BY <3>1
    <3>3. f \in Events(k)' /\ OnIt(f, y)' /\ next'[y] = f.at + Interval
      BY <1>4, <1>6, <1>10, <2>2, <3>2 DEF OnIt
    <3> QED
      BY <3>3
  <2> QED
    BY <2>1, <2>2
<1>14. Spaced'
  <2> SUFFICES ASSUME NEW k \in Devs, NEW j \in 1 .. Len(sent'[k]),
                      NEW i \in 1 .. j - 1,
                      sent'[k][i].cell = sent'[k][j].cell,
                      sent'[k][i].found = sent'[k][j].found,
                      sent'[k][j].found = sent'[k][j].into
               PROVE  sent'[k][j].at >= sent'[k][i].at + Interval
    BY DEF Spaced
  <2>1. CASE k # d
    BY <1>6, <2>1 DEF EventInv, Spaced
  <2>2. CASE k = d /\ j <= Len(s)
    <3>1. j \in 1 .. Len(s) /\ i \in 1 .. Len(s)
      BY <1>6, <1>7, <2>2
    <3>2. sent'[k][j] = s[j] /\ sent'[k][i] = s[i]
      BY <1>6, <1>7, <2>2, <3>1
    <3> QED
      BY <1>0, <1>1, <2>2, <3>1, <3>2 DEF EventInv, Spaced
  <2>3. CASE k = d /\ j > Len(s)
    <3>1. j = Len(s) + 1 /\ i \in 1 .. Len(s)
      BY <1>6, <1>7, <2>3
    <3>2. /\ sent'[k][j] = e /\ sent'[k][i] = s[i]
          /\ s[i] \in Events(d)
      <4>1. sent'[k] = Append(s, e)
        BY <1>6, <2>3
      <4>2. sent'[k][j] = e /\ sent'[k][i] = s[i]
        BY <1>7, <3>1, <4>1
      <4>3. s[i] \in Events(d)
        BY <1>0, <3>1 DEF Events
      <4> QED
        BY <4>2, <4>3
    <3>3. s[i] \in Event /\ EventOK(d, s[i])
      BY <1>1, <3>2, EventsTyped DEF EventInv, EventsOK
    <3>4. s[i].into = Len(given[x]) /\ s[i].cell = x
      BY <1>3, <1>5, <3>2, <3>3 DEF EventOK, Event
    <3> QED
      BY <1>1, <1>3, <1>11, <3>2, <3>4 DEF OnIt
  <2> QED
    BY <1>6, <1>7, <2>1, <2>2, <2>3
<1>15. ASSUME NEW k \in Cpus \ {c} PROVE ProgramOK(k)'
  <2>1. ProgramOK(k) /\ run'[k] = run[k] /\ run[k].now \in Nat
    BY <1>6 DEF EventInv, Programs, TypeOK, Run
  <2>2. ASSUME run[k].pc = "swap", Own(k)
        PROVE  \/ next'[run[k].cell] = run[k].old
               \/ \E h \in Devs : \E f \in Events(h)' :
                     OnIt(f, run[k].cell)' /\ f.won >= run[k].now
    <3>1. CASE run[k].cell = x
      <4>1. e.won >= run[k].now
        BY <1>3, <2>1, <2>2 DEF ProgramOK
      <4>2. e \in Events(d)'
        BY <1>8
      <4>3. OnIt(e, run[k].cell)'
        BY <1>3, <1>4, <2>1, <3>1 DEF OnIt
      <4> QED
        BY <1>1, <4>1, <4>2, <4>3
    <3>2. CASE run[k].cell # x
      <4>1. next'[run[k].cell] = next[run[k].cell]
        BY <1>6, <2>2, <3>2 DEF EventInv, TypeOK
      <4> QED
        BY <1>4, <1>10, <2>1, <2>2, <4>1 DEF ProgramOK, OnIt
    <3> QED
      BY <3>1, <3>2
  <2>3. run[k].pc = "swap" /\ Own(k)' => Own(k)
    BY <1>4, <2>1 DEF Own
  <2> QED
    BY <1>4, <2>1, <2>2, <2>3 DEF ProgramOK
<1> QED
  BY <1>1, <1>3, <1>8, <1>12, <1>13, <1>14, <1>15

(* An insert starts a new life of a free cell: no event was won on it yet, *)
(* and no program's pointer is its owner's.                                *)
LEMMA EnterKeeps ==
    ASSUME EventInv, NEW d \in Devs, EnterState(d)
    PROVE  EventsOK' /\ Deadlines' /\ Owners' /\ Programs' /\ Spaced'
<1>1. PICK x \in Cells :
         /\ states' = [states EXCEPT ![x] = d]
         /\ next' = [next EXCEPT ![x] = 0]
         /\ given' = [given EXCEPT ![x] = Append(@, d)]
  BY DEF EnterState
<1>2. UNCHANGED <<clock, run, sent>>
  BY DEF EnterState
<1>3. PICK n \in Nat : n = Len(given[x])
  BY DEF EventInv, TypeOK
<1>4. /\ Len(given'[x]) = n + 1 /\ given'[x][n + 1] = d
      /\ \A i \in 1 .. n : given'[x][i] = given[x][i]
  BY <1>1, <1>3 DEF EventInv, TypeOK
<1>5. /\ next'[x] = 0 /\ states'[x] = d
      /\ \A y \in Cells \ {x} : /\ next'[y] = next[y]
                                /\ given'[y] = given[y]
                                /\ states'[y] = states[y]
  BY <1>1 DEF EventInv, TypeOK
<1>6. \A k \in Devs : Events(k)' = Events(k)
  BY <1>2 DEF Events
<1>7. EventsOK'
  <2> SUFFICES ASSUME NEW k \in Devs, NEW e \in Events(k) PROVE EventOK(k, e)'
    BY <1>6 DEF EventsOK
  <2>1. EventOK(k, e) /\ e \in Event
    BY EventsTyped DEF EventInv, EventsOK
  <2>2. CASE e.cell = x
    <3>1. e.into <= n /\ e.into \in Nat /\ e.found \in 1 .. n
      BY <1>3, <2>1, <2>2 DEF EventOK, Event
    <3>2. e.into # n + 1 /\ e.into <= n + 1 /\ e.found \in 1 .. n + 1
      BY <3>1
    <3> QED
      BY <1>2, <1>3, <1>4, <2>1, <2>2, <3>1, <3>2 DEF EventOK
  <2>3. CASE e.cell # x
    BY <1>2, <1>5, <2>1, <2>3 DEF EventOK, Event
  <2> QED
    BY <2>2, <2>3
<1>8. Deadlines'
  <2> SUFFICES ASSUME NEW y \in Cells, next'[y] # 0
               PROVE  \E k \in Devs : \E f \in Events(k)' :
                         OnIt(f, y)' /\ next'[y] = f.at + Interval
    BY DEF Deadlines
  <2>1. y # x
    BY <1>5
  <2>2. PICK k \in Devs : \E f \in Events(k) :
           OnIt(f, y) /\ next[y] = f.at + Interval
    BY <1>5, <2>1 DEF EventInv, Deadlines
  <2> QED
    BY <1>5, <1>6, <2>1, <2>2 DEF OnIt
<1>9. Owners'
  <2> SUFFICES ASSUME NEW y \in Cells, states'[y] # Free
               PROVE  /\ Len(given'[y]) >= 1
                      /\ given'[y][Len(given'[y])] = states'[y]
    BY DEF Owners
  <2>1. CASE y = x
    BY <1>4, <1>5, <2>1
  <2>2. CASE y # x
    BY <1>5, <2>2 DEF EventInv, Owners
  <2> QED
    BY <2>1, <2>2
<1>10. ASSUME NEW c \in Cpus PROVE ProgramOK(c)'
  <2>1. ProgramOK(c) /\ run[c] \in Run
    BY DEF EventInv, Programs, TypeOK
  <2>2. run[c].pc \in {"clock", "read", "swap"} => run[c].cell \in Cells
    BY DEF EventInv, TypeOK
  <2>3. CASE run[c].cell = x /\ run[c].pc \in {"clock", "read", "swap"}
    <3>1. run[c].found \in 1 .. n /\ given[x][run[c].found] = run[c].dev
      BY <1>3, <2>1, <2>3 DEF ProgramOK
    <3>2. run[c].found \in 1 .. n + 1 /\ run[c].found # n + 1
      BY <3>1
    <3> QED
      BY <1>2, <1>4, <2>1, <2>3, <3>1, <3>2 DEF ProgramOK, Own
  <2>4. CASE run[c].cell \in Cells \ {x}
    BY <1>2, <1>5, <1>6, <2>1, <2>4 DEF ProgramOK, Own, OnIt
  <2>5. CASE run[c].pc \notin {"clock", "read", "swap"}
    BY <1>2, <2>5 DEF ProgramOK
  <2> QED
    BY <2>2, <2>3, <2>4, <2>5
<1>11. Spaced'
  BY <1>2 DEF EventInv, Spaced
<1> QED
  BY <1>7, <1>8, <1>9, <1>10, <1>11 DEF Programs

LEMMA StepEventInv ==
    EventInv /\ TypeOK' /\ [Next]_vars =>
        EventsOK' /\ Deadlines' /\ Owners' /\ Programs' /\ Spaced'
<1> SUFFICES ASSUME EventInv, TypeOK', [Next]_vars
             PROVE  EventsOK' /\ Deadlines' /\ Owners' /\ Programs' /\ Spaced'
  OBVIOUS
<1>0. clock \in Nat /\ clock' \in Nat
  BY DEF EventInv, TypeOK
<1>1. ASSUME UNCHANGED <<states, given>>
      PROVE  Owners'
  BY <1>1 DEF EventInv, Owners
<1>2. ASSUME UNCHANGED <<run, next, sent, given>>, clock' >= clock
      PROVE  EventsOK' /\ Deadlines' /\ Programs' /\ Spaced'
  BY <1>0, <1>2, EventsKept, ProgramKept DEF Programs
<1>3. ASSUME NEW c \in Cpus,
             \/ \E d \in Devs : Issue(c, d)
             \/ LookupState(c) \/ ReadClock(c) \/ ReadDeadline(c)
      PROVE  EventsOK' /\ Deadlines' /\ Owners' /\ Programs' /\ Spaced'
  <2>1. UNCHANGED <<clock, states, next, sent, given>>
    BY <1>3 DEF Issue, LookupState, ReadClock, ReadDeadline
  <2>2. \A k \in Cpus \ {c} : run'[k] = run[k]
    BY <1>3
    DEF EventInv, TypeOK, Issue, LookupState, ReadClock, ReadDeadline
  <2>3. /\ ProgramOK(c) /\ run[c] \in Run
        /\ run[c].pc \in {"clock", "read", "swap"} => run[c].cell \in Cells
    BY DEF EventInv, Programs, TypeOK
  <2>4. ProgramOK(c)'
    <3>1. ASSUME run'[c].pc \in {"idle", "lookup"}
          PROVE  ProgramOK(c)'
      BY <3>1 DEF ProgramOK
    <3>2. ASSUME NEW d \in Devs, Issue(c, d)
          PROVE  run'[c].pc = "lookup"
      BY <3>2 DEF EventInv, TypeOK, Issue, Idle
    <3>3. ASSUME run' = [run EXCEPT ![c] = Idle]
          PROVE  run'[c].pc = "idle"
      BY <3>3 DEF EventInv, TypeOK, Idle
    <3>4. ASSUME NEW x \in Cells, states[x] = run[c].dev, LookupState(c),
                 run' = [run EXCEPT ![c].pc = "clock", ![c].cell = x,
                                    ![c].found = Len(given[x])]
          PROVE  ProgramOK(c)'
      <4>1. /\ run'[c].pc = "clock" /\ run'[c].cell = x
            /\ run'[c].found = Len(given[x]) /\ run'[c].dev = run[c].dev
        BY <2>3, <3>4 DEF EventInv, TypeOK, Run
      <4>2. run[c].dev \in Devs
        BY <3>4 DEF LookupState, EventInv, TypeOK
      <4>3. states[x] # Free
        BY <3>4, <4>2, FreeAssumption
      <4>4. Len(given[x]) >= 1 /\ given[x][Len(given[x])] = run[c].dev
        BY <3>4, <4>3 DEF EventInv, Owners
      <4>5. Len(given[x]) \in Nat
        BY DEF EventInv, TypeOK
      <4> QED
        BY <2>1, <4>1, <4>4, <4>5 DEF ProgramOK
    <3>5. CASE ReadClock(c)
      <4>1. /\ run'[c].pc = "read" /\ run'[c].cell = run[c].cell
            /\ run'[c].found = run[c].found /\ run'[c].dev = run[c].dev
            /\ run'[c].now = clock /\ run[c].pc = "clock"
        BY <2>3, <3>5 DEF EventInv, TypeOK, ReadClock, Run
      <4> QED
        BY <1>0, <2>1, <2>3, <4>1 DEF ProgramOK
    <3>6. CASE ReadDeadline(c)
      <4>1. CASE run' = [run EXCEPT ![c] =
                      [@ EXCEPT !.pc = "swap", !.old = next[run[c].cell]]]
                 /\ \/ next[run[c].cell] = 0
                    \/ run[c].now >= next[run[c].cell]
        <5>1. /\ run'[c].pc = "swap" /\ run'[c].cell = run[c].cell
              /\ run'[c].found = run[c].found /\ run'[c].dev = run[c].dev
              /\ run'[c].now = run[c].now
              /\ run'[c].old = next[run[c].cell] /\ run[c].pc = "read"
          BY <2>3, <3>6, <4>1 DEF EventInv, TypeOK, ReadDeadline, Run
        <5> QED
          BY <2>1, <2>3, <4>1, <5>1 DEF ProgramOK, Own
      <4> QED
        BY <3>1, <3>3, <3>6, <4>1 DEF ReadDeadline
    <3> QED
      BY <1>3, <3>1, <3>2, <3>3, <3>4, <3>5, <3>6 DEF LookupState
  <2>5. \A k \in Cpus \ {c} : ProgramOK(k)'
    BY <1>0, <2>1, <2>2, ProgramKept
  <2>6. EventsOK' /\ Deadlines' /\ Spaced'
    BY <1>0, <2>1, EventsKept
  <2> QED
    BY <1>1, <2>1, <2>4, <2>5, <2>6 DEF Programs
<1>4. ASSUME NEW c \in Cpus, Swap(c)
      PROVE  EventsOK' /\ Deadlines' /\ Owners' /\ Programs' /\ Spaced'
  <2>1. /\ run' = [run EXCEPT ![c] = Idle]
        /\ UNCHANGED <<clock, states, given>>
    BY <1>4 DEF Swap
  <2>2. run'[c].pc = "idle" /\ \A k \in Cpus \ {c} : run'[k] = run[k]
    BY <2>1 DEF EventInv, TypeOK, Idle
  <2>3. ProgramOK(c)'
    BY <2>2 DEF ProgramOK
  <2>4. CASE next[run[c].cell] # run[c].old
    <3>1. UNCHANGED <<next, sent>>
      BY <1>4, <2>4 DEF Swap
    <3>2. \A k \in Cpus \ {c} : ProgramOK(k)'
      BY <1>0, <2>1, <2>2, <3>1, ProgramKept
    <3> QED
      BY <1>0, <1>1, <2>1, <2>3, <3>1, <3>2, EventsKept DEF Programs
  <2>5. CASE next[run[c].cell] = run[c].old
    <3>1. PICK x, now, d, e : /\ x = run[c].cell /\ now = run[c].now
                              /\ d = run[c].dev /\ e = NewEvent(c)
      OBVIOUS
    <3>2. /\ EventsOK' /\ Deadlines' /\ Spaced'
          /\ \A k \in Cpus \ {c} : ProgramOK(k)'
      BY <1>4, <2>5, <3>1, SwapSends
    <3> QED
      BY <1>1, <2>1, <2>3, <3>2 DEF Programs
  <2> QED
    BY <2>4, <2>5
<1>5. CASE Tick
  <2>1. clock' >= clock /\ UNCHANGED <<states, run, next, sent, given>>
    BY <1>0, <1>5 DEF Tick
  <2> QED
    BY <1>1, <1>2, <2>1
<1>6. ASSUME \/ \E present \in SUBSET Devs : SyncStarts(present)
             \/ \E d \in Devs : EnterTarget(d) \/ EnterFails(d)
             \/ Clear \/ SyncEnds \/ UNCHANGED vars
      PROVE  EventsOK' /\ Deadlines' /\ Owners' /\ Programs' /\ Spaced'
  <2>1. UNCHANGED <<clock, run, next, sent, given>>
    BY <1>6 DEF SyncStarts, Clear, EnterTarget, EnterFails, SyncEnds, vars
  <2>2. clock' >= clock
    BY <1>0, <2>1
  <2>3. \A x \in Cells : states'[x] \in {Free, states[x]}
    BY <1>6
    DEF SyncStarts, Clear, EnterTarget, EnterFails, SyncEnds, vars, EventInv,
        TypeOK
  <2>4. Owners'
    BY <2>1, <2>3 DEF EventInv, Owners
  <2> QED
    BY <1>2, <2>1, <2>2, <2>4
<1>7. ASSUME NEW c \in Cpus, Program(c)
      PROVE  EventsOK' /\ Deadlines' /\ Owners' /\ Programs' /\ Spaced'
  BY <1>3, <1>4, <1>7 DEF Program
<1>8. CASE Sync
  BY <1>6, <1>8, EnterKeeps DEF Sync
<1> QED
  BY <1>5, <1>6, <1>7, <1>8 DEF Next

LEMMA AlwaysEventInv == Spec => []EventInv
BY InitEventInv, StepEventInv, Typing, PTL DEF Spec, EventInv

(* disk.bpf.c sends the events of a device at least disk_interval_ns apart, *)
(* on any number of CPUs and with any delay between their steps, as long as *)
(* no refill enters the device anew.                                       *)
THEOREM EventsSpaced == Spec => []Spaced
BY AlwaysEventInv, PTL DEF EventInv

(* An event on the element program c points to, while it is its device's,  *)
(* is of this device, or of a program of a former owner.                   *)
LEMMA OnItNoticed ==
    ASSUME EventInv, NEW c \in Cpus, Own(c), UNCHANGED sent,
           run[c].pc \in {"read", "swap"}, NEW t,
           NEW k \in Devs, NEW e \in Events(k),
           OnIt(e, run[c].cell), e.won > t
    PROVE  Told(run[c].dev, t, sent') \/ Robbed(run[c].cell, t, sent')
<1>1. PICK i \in 1 .. Len(sent[k]) : e = sent[k][i]
  BY DEF Events
<1>2. EventOK(k, e) /\ ProgramOK(c) /\ e \in Event
  BY EventsTyped DEF EventInv, EventsOK, Programs
<1>3. e.found = e.into \/ e.found < e.into
  BY <1>2 DEF EventOK, Event
<1>4. CASE e.found = e.into
  <2>1. k = run[c].dev
    BY <1>2, <1>4 DEF EventOK, ProgramOK, OnIt, Own
  <2> QED
    BY <1>1, <2>1 DEF Told
<1>5. CASE e.found < e.into
  BY <1>1, <1>5 DEF Robbed, OnIt
<1> QED
  BY <1>3, <1>4, <1>5

(* No request passes unnoticed: when disk.bpf.c sends no event for it, one *)
(* of its device was sent less than an interval before, or meanwhile, but  *)
(* for the requests in the one interval after a program of the element's   *)
(* former owner has won its swap.                                          *)
THEOREM RequestsNoticed == Spec => Noticed
<1> DEFINE Owed ==
      \A c \in Cpus :
         /\ run[c].pc \in {"read", "swap"}
         /\ run'[c].pc = "idle"
         /\ Own(c)
         => \/ Told(run[c].dev, run[c].now - Interval, sent')
            \/ Robbed(run[c].cell, run[c].now - Interval, sent')
<1>1. EventInv /\ [Next]_vars => [Owed]_vars
  <2> SUFFICES ASSUME EventInv, Next, NEW c \in Cpus,
                      run[c].pc \in {"read", "swap"}, run'[c].pc = "idle",
                      Own(c)
               PROVE  \/ Told(run[c].dev, run[c].now - Interval, sent')
                      \/ Robbed(run[c].cell, run[c].now - Interval, sent')
    OBVIOUS
  <2>1. PICK x, now, d, t : /\ x = run[c].cell /\ now = run[c].now
                            /\ d = run[c].dev /\ t = run[c].now - Interval
    OBVIOUS
  <2>2. /\ x \in Cells /\ now \in Nat /\ clock \in Nat /\ now <= clock
        /\ d \in Devs /\ next[x] \in Nat /\ Interval \in Nat \ {0}
        /\ t = now - Interval
    BY <2>1, IntervalAssumption
    DEF EventInv, TypeOK, Run, Programs, ProgramOK
  <2> USE <2>1
  <2>3. CASE ReadDeadline(c)
    <3>1. next[x] # 0 /\ now < next[x] /\ UNCHANGED sent
      BY <2>2, <2>3 DEF ReadDeadline, EventInv, TypeOK
    <3>2. PICK k \in Devs : \E e \in Events(k) :
             OnIt(e, x) /\ next[x] = e.at + Interval
      BY <2>2, <3>1 DEF EventInv, Deadlines
    <3>3. PICK e \in Events(k) : OnIt(e, x) /\ next[x] = e.at + Interval
      BY <3>2
    <3>4. EventOK(k, e) /\ e \in Event
      BY EventsTyped DEF EventInv, EventsOK
    <3>5. e.at \in Nat /\ e.won \in Nat /\ e.at <= e.won
      BY <3>4 DEF EventOK, Event
    <3>6. next[x] = e.at + Interval
      BY <3>3
    <3>7. e.won > t
      BY <2>2, <3>1, <3>5, <3>6
    <3> QED
      BY <3>1, <3>3, <3>7, OnItNoticed
  <2>4. CASE Swap(c)
    <3>1. CASE next[x] = run[c].old
      <4>1. PICK e : e = NewEvent(c)
        OBVIOUS
      <4>2. d \in Devs /\ e \in Events(d)' /\ e.won >= now
        BY <2>4, <3>1, <4>1, SwapSends
      <4>3. PICK i \in 1 .. Len(sent'[d]) : e = sent'[d][i]
        BY <4>2 DEF Events
      <4>4. e.won > t
        BY <2>2, <4>1, <4>2 DEF NewEvent
      <4> QED
        BY <4>3, <4>4 DEF Told
    <3>2. CASE next[x] # run[c].old
      <4>1. UNCHANGED sent /\ run[c].pc = "swap"
        BY <2>4, <3>2 DEF Swap
      <4>2. PICK k \in Devs : \E e \in Events(k) : OnIt(e, x) /\ e.won >= now
        BY <3>2, <4>1 DEF EventInv, Programs, ProgramOK
      <4>3. PICK e \in Events(k) : OnIt(e, x) /\ e.won >= now
        BY <4>2
      <4>4. e.won > t
        BY <2>2, <4>3, EventsTyped DEF EventInv, Event
      <4> QED
        BY <4>1, <4>3, <4>4, OnItNoticed
    <3> QED
      BY <3>1, <3>2
  <2>5. ASSUME NEW k \in Cpus, Program(k), k # c
        PROVE  FALSE
    <3>1. run'[c] = run[c]
      BY <2>5
      DEF Program, Issue, LookupState, ReadClock, ReadDeadline, Swap,
          EventInv, TypeOK
    <3> QED
      BY <3>1
  <2>6. ASSUME (\E k \in Devs : Issue(c, k)) \/ LookupState(c) \/ ReadClock(c)
        PROVE  FALSE
    BY <2>6 DEF Issue, LookupState, ReadClock, EventInv, TypeOK, Run
  <2>7. ASSUME Sync \/ Tick
        PROVE  FALSE
    <3>1. run' = run
      BY <2>7
      DEF Sync, SyncStarts, Clear, EnterState, EnterTarget, EnterFails,
          SyncEnds, Tick
    <3> QED
      BY <3>1
  <2> QED
    BY <2>3, <2>4, <2>5, <2>6, <2>7 DEF Next, Program
<1> QED
  BY <1>1, AlwaysEventInv, PTL DEF Spec, Noticed
=============================================================================

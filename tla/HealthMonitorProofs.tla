------------------------- MODULE HealthMonitorProofs -------------------------
(***************************************************************************)
(* Theorems about HealthMonitor, for any LEDs, colours and loops, and any  *)
(* number of disks that change, restarts and failing calls: its types, and *)
(* that the colour of a LED follows what check-standby knows of its disk.  *)
(***************************************************************************)
EXTENDS HealthMonitor, TLAPS

Colors == {Health[l] : l \in Leds} \cup {Standby, Fail}

Troubles == {"gone", "smart", "zpool", "asleep"}

Doing == [i : 1 .. N, step : {"ask", "read", "write"}, is : BOOLEAN, want : Colors]

LEMMA Orders ==
    /\ N \in Nat /\ N > 0
    /\ \A k \in 1 .. N : HashOrder[k] \in Leds /\ LedMap[k] \in Leds
    /\ \A k \in 1 .. N : After(k) \in 1 .. N
<1>1. N \in Nat /\ N > 0 /\ Len(LedMap) = N
  BY LedAssumption DEF N
<1>2. \A k \in 1 .. N : HashOrder[k] \in Leds /\ LedMap[k] \in Leds
  BY <1>1, LedAssumption DEF N
<1>3. \A k \in 1 .. N : k % N \in 0 .. N - 1
  BY <1>1
<1>4. \A k \in 1 .. N : After(k) \in 1 .. N
  BY <1>1, <1>3 DEF After
<1> QED
  BY <1>1, <1>2, <1>4

-----------------------------------------------------------------------------
(* The invariant, in parts.                                                *)

Disks ==
    /\ troubles \in [Leds -> SUBSET Troubles]
    /\ verdict \subseteq Leds /\ missed \subseteq Leds
    /\ valid \in [Leds -> BOOLEAN]

Rounds == at \in [Loops -> 1 .. N] /\ step \in [Loops -> Steps]

Counts == events \in 0 .. MaxEvents /\ faults \in 0 .. MaxFaults

(* What check-standby asks about a disk is whether it changed.             *)
Asking ==
    /\ sb \in Doing /\ asleep \in [Leds -> BOOLEAN]
    /\ sb.step \in {"read", "write"} => sb.is = ~asleep[HashOrder[sb.i]]

Known(l) == IF asleep[l] THEN Standby ELSE Health[l]

(* Between Compare and Exchange the colour that check-standby is about to  *)
(* write is that of the new state; if it is to write none, the LED shows a *)
(* failure and goes on showing it.                                         *)
Following ==
    /\ color \in [Leds -> Colors]
    /\ \A l \in Leds \ missed : Told(l) => color[l] \in {Fail, Known(l)}
    /\ sb.step = "write" =>
         LET l == HashOrder[sb.i] IN
         Told(l) =>
           /\ sb.want \in {Fail, IF sb.is THEN Standby ELSE Health[l]}
           /\ sb.want = Fail /\ l \notin missed => color[l] = Fail

HInv == Disks /\ Rounds /\ Counts /\ Asking /\ Following

(* It holds at the start.                                                  *)
LEMMA HInit == Init => HInv
<1> SUFFICES ASSUME Init
             PROVE  HInv
  OBVIOUS
<1>1. color = Health /\ color \in [Leds -> Colors]
  BY ColorAssumption DEF Init, Colors
<1>2. Disks
  BY DEF Init, Disks, Troubles
<1>3. Rounds
  BY Orders DEF Init, Rounds, First, Steps
<1>4. Counts
  BY BoundAssumption DEF Init, Counts
<1>5. Asking
  BY Orders DEF Init, Asking, Doing, Colors
<1>6. Following
  BY <1>1 DEF Init, Following, Known
<1> QED
  BY <1>2, <1>3, <1>4, <1>5, <1>6 DEF HInv

-----------------------------------------------------------------------------
(* The steps, part by part.                                                *)
LEMMA DisksStep ==
    ASSUME HInv, [Next]_vars
    PROVE  Disks'
<1> USE DEF standby, loops
<1>1. ASSUME NEW p \in Loops, Loop(p)
      PROVE  Disks'
  BY <1>1 DEF Loop, ZpoolStatus, ReadColor, TestDisk, WriteFail, HInv, Disks
<1>2. CASE CheckStandby
  <2>1. HashOrder[sb.i] \in Leds
    BY Orders DEF HInv, Asking, Doing
  <2>2. /\ UNCHANGED <<troubles, verdict>>
        /\ missed' \in {missed, missed \cup {HashOrder[sb.i]}}
        /\ valid' \in {valid, [valid EXCEPT ![HashOrder[sb.i]] = FALSE]}
    <3>1. CASE Ask
      BY <3>1 DEF Ask, GiveUp
    <3>2. CASE OpenFails
      BY <3>2 DEF OpenFails, GiveUp
    <3>3. CASE Compare
      BY <3>3 DEF Compare
    <3>4. CASE Exchange
      BY <3>4 DEF Exchange
    <3> QED
      BY <1>2, <3>1, <3>2, <3>3, <3>4 DEF CheckStandby
  <2> QED
    BY <2>1, <2>2 DEF HInv, Disks
<1>3. ASSUME NEW l \in Leds, NEW t \in Troubles, DiskEvent(l, t)
      PROVE  Disks'
  <2>1. troubles' \in [Leds -> SUBSET Troubles]
    BY <1>3 DEF DiskEvent, HInv, Disks
  <2> QED
    BY <1>3, <2>1 DEF DiskEvent, HInv, Disks
<1>4. CASE Restart
  BY <1>4 DEF Restart, Fresh, HInv, Disks
<1>5. CASE UNCHANGED vars
  BY <1>5 DEF vars, HInv, Disks
<1> QED
  BY <1>1, <1>2, <1>3, <1>4, <1>5, BoundAssumption DEF Next, Troubles

LEMMA RoundsStep ==
    ASSUME HInv, [Next]_vars
    PROVE  Rounds'
<1> USE DEF loops
<1>1. ASSUME NEW p \in Loops, NEW k \in 1 .. N, NEW s \in Steps, Goto(p, k, s)
      PROVE  Rounds'
  BY <1>1 DEF Goto, HInv, Rounds
<1>2. ASSUME NEW p \in Loops, Advance(p)
      PROVE  Rounds'
  <2>1. After(at[p]) \in 1 .. N
    BY Orders DEF HInv, Rounds
  <2>2. (IF After(at[p]) = 1 THEN First(p) ELSE "read") \in Steps
    BY DEF First, Steps
  <2>3. Goto(p, After(at[p]), IF After(at[p]) = 1 THEN First(p) ELSE "read")
    BY <1>2 DEF Advance
  <2> QED
    BY <1>1, <2>1, <2>2, <2>3
<1>3. ASSUME NEW p \in Loops, Loop(p)
      PROVE  Rounds'
  <2>1. at[p] \in 1 .. N /\ 1 \in 1 .. N
    BY Orders DEF HInv, Rounds
  <2>2. \/ \E k \in 1 .. N, s \in Steps : Goto(p, k, s)
        \/ Advance(p)
    BY <1>3, <2>1 DEF Loop, ZpoolStatus, ReadColor, TestDisk, WriteFail, Steps
  <2> QED
    BY <1>1, <1>2, <2>2
<1>4. CASE Restart
  BY <1>4, Orders DEF Restart, Fresh, First, Rounds, Steps
<1>5. CASE UNCHANGED loops
  BY <1>5 DEF HInv, Rounds
<1>6. \/ \E p \in Loops : Loop(p)
      \/ Restart
      \/ UNCHANGED loops
  BY DEF Next, CheckStandby, Ask, OpenFails, Compare, Exchange, DiskEvent, vars
<1> QED
  BY <1>3, <1>4, <1>5, <1>6

LEMMA CountsStep ==
    ASSUME HInv, [Next]_vars
    PROVE  Counts'
<1> DEFINE Both == /\ events < MaxEvents /\ events' = events + 1
                   /\ faults < MaxFaults /\ faults' = faults + 1
<1>1. \/ UNCHANGED <<events, faults>>
      \/ events < MaxEvents /\ events' = events + 1 /\ UNCHANGED faults
      \/ faults < MaxFaults /\ faults' = faults + 1 /\ UNCHANGED events
      \/ Both
  <2> DEFINE Kinds == \/ UNCHANGED <<events, faults>>
                      \/ events < MaxEvents /\ events' = events + 1 /\ UNCHANGED faults
                      \/ faults < MaxFaults /\ faults' = faults + 1 /\ UNCHANGED events
                      \/ Both
  <2>1. \A l, c : Write(l, c) => Kinds
    BY DEF Write, spent
  <2>2. \A p \in Loops : ZpoolStatus(p) \/ ReadColor(p) \/ TestDisk(p) => Kinds
    BY DEF ZpoolStatus, ReadColor, TestDisk, spent
  <2>3. \A p \in Loops : WriteFail(p) => Kinds
    BY <2>1 DEF WriteFail
  <2>4. Ask => Kinds
    <3> SUFFICES ASSUME Ask
                 PROVE  Kinds
      OBVIOUS
    <3>1. CASE UNCHANGED spent
      BY <3>1 DEF spent
    <3>2. CASE /\ "gone" \in troubles[HashOrder[sb.i]] \/ faults < MaxFaults
               /\ faults' = IF "gone" \in troubles[HashOrder[sb.i]] THEN faults
                            ELSE faults + 1
               /\ UNCHANGED events
      BY <3>2
    <3> QED
      BY <3>1, <3>2 DEF Ask
  <2>5. OpenFails \/ Compare => Kinds
    BY DEF OpenFails, Compare, spent
  <2>6. Exchange => Kinds
    BY <2>1 DEF Exchange, spent
  <2>7. \A l \in Leds, t \in Troubles : DiskEvent(l, t) => Kinds
    BY DEF DiskEvent
  <2>8. Restart \/ UNCHANGED vars => Kinds
    <3>1. Restart => Kinds
      BY DEF Restart, Fresh
    <3>2. UNCHANGED vars => Kinds
      BY DEF vars, spent
    <3> QED
      BY <3>1, <3>2
  <2> HIDE DEF Kinds
  <2>9. Kinds
    BY <2>2, <2>3, <2>4, <2>5, <2>6, <2>7, <2>8, BoundAssumption
    DEF Next, Loop, CheckStandby, Troubles
  <2> QED
    BY <2>9 DEF Kinds
<1> QED
  BY <1>1, BoundAssumption DEF HInv, Counts

(* What the loops do to the colours and to check-standby.                  *)
LEMMA LoopEffect ==
    ASSUME HInv, NEW p \in Loops, Loop(p)
    PROVE  /\ UNCHANGED <<sb, asleep, missed>>
           /\ \/ color' = color
              \/ \E l \in Leds : color' = [color EXCEPT ![l] = Fail]
<1>1. HashOrder[at[p]] \in Leds
  BY Orders DEF HInv, Rounds
<1> QED
  BY <1>1 DEF Loop, ZpoolStatus, ReadColor, TestDisk, WriteFail, Write, standby

LEMMA AskingStep ==
    ASSUME HInv, [Next]_vars
    PROVE  Asking'
<1> USE DEF standby
<1> DEFINE next == [i |-> After(sb.i), step |-> "ask", is |-> FALSE, want |-> Fail]
<1>1. next \in Doing /\ next.step = "ask"
  BY Orders DEF HInv, Asking, Doing, Colors
<1>2. CASE sb' = next /\ asleep' \in [Leds -> BOOLEAN]
  BY <1>1, <1>2 DEF Asking
<1>3. CASE UNCHANGED <<sb, asleep>>
  BY <1>3 DEF HInv, Asking
<1>4. CASE Ask
  <2>1. CASE NextDevice
    BY <1>2, <1>4, <2>1 DEF Ask, NextDevice, HInv, Asking
  <2>2. CASE sb' = [sb EXCEPT !.step = "read", !.is = "asleep" \in troubles[HashOrder[sb.i]]]
             /\ ("asleep" \in troubles[HashOrder[sb.i]]) # asleep[HashOrder[sb.i]]
    <3> DEFINE is == "asleep" \in troubles[HashOrder[sb.i]]
    <3>1. is \in BOOLEAN /\ asleep[HashOrder[sb.i]] \in BOOLEAN /\ asleep' = asleep
      BY <1>4, Orders DEF Ask, HInv, Asking, Doing
    <3> HIDE DEF is
    <3>2. sb' = [sb EXCEPT !.step = "read", !.is = is] /\ is # asleep[HashOrder[sb.i]]
      BY <2>2 DEF is
    <3>3. sb' \in Doing /\ sb'.i = sb.i /\ sb'.is = is
      BY <3>1, <3>2 DEF HInv, Asking, Doing
    <3>4. is = ~asleep[HashOrder[sb.i]]
      BY <3>1, <3>2
    <3> QED
      BY <3>1, <3>3, <3>4 DEF HInv, Asking
  <2> QED
    BY <1>4, <2>1, <2>2 DEF Ask, GiveUp
<1>5. CASE OpenFails
  BY <1>2, <1>5 DEF OpenFails, GiveUp, NextDevice, HInv, Asking
<1>6. CASE Compare
  <2> DEFINE l == HashOrder[sb.i]
             want == IF asleep[l] /\ color[l] = Standby THEN Normal(sb.i)
                     ELSE IF ~asleep[l] /\ color[l] = Normal(sb.i)
                     THEN Standby ELSE Fail
  <2>1. want \in Colors
    BY Orders DEF HInv, Asking, Doing, Colors, Normal
  <2>2. sb' = [sb EXCEPT !.step = "write", !.want = want] /\ sb.step = "read"
        /\ asleep' = asleep
    BY <1>6 DEF Compare
  <2> HIDE DEF want
  <2>3. sb' \in Doing /\ sb'.i = sb.i /\ sb'.is = sb.is
    BY <2>1, <2>2 DEF HInv, Asking, Doing
  <2> QED
    BY <2>2, <2>3 DEF HInv, Asking
<1>7. CASE Exchange
  <2>1. asleep' \in [Leds -> BOOLEAN]
    BY <1>7, Orders DEF Exchange, HInv, Asking, Doing
  <2> QED
    BY <1>2, <1>7, <2>1 DEF Exchange, NextDevice
<1>8. CASE Restart
  <2>1. /\ sb' = [i |-> 1, step |-> "ask", is |-> FALSE, want |-> Fail]
        /\ asleep' \in [Leds -> BOOLEAN]
    BY <1>8 DEF Restart, Fresh
  <2> QED
    BY <2>1, Orders DEF Asking, Doing, Colors
<1>9. \A l, t : DiskEvent(l, t) => UNCHANGED <<sb, asleep>>
  BY DEF DiskEvent
<1>10. UNCHANGED vars => UNCHANGED <<sb, asleep>>
  BY DEF vars
<1> QED
  BY <1>3, <1>4, <1>5, <1>6, <1>7, <1>8, <1>9, <1>10, LoopEffect DEF Next, CheckStandby

LEMMA FollowingStep ==
    ASSUME HInv, [Next]_vars
    PROVE  Following'
<1> USE DEF standby
<1> DEFINE l == HashOrder[sb.i]
<1>1. l \in Leds /\ sb.is \in BOOLEAN /\ asleep[l] \in BOOLEAN
  BY Orders DEF HInv, Asking, Doing
<1>2. Told(l) => Normal(sb.i) = Health[l]
  BY DEF Told, HInv, Asking, Doing
<1>3. ASSUME NEW p \in Loops, Loop(p)
      PROVE  Following'
  <2>1. UNCHANGED <<sb, asleep, missed>>
    BY <1>3, LoopEffect
  <2>2. color' \in [Leds -> Colors] /\ \A x \in Leds : color'[x] \in {color[x], Fail}
    BY <1>3, LoopEffect DEF HInv, Following, Colors
  <2> QED
    BY <1>1, <2>1, <2>2 DEF HInv, Following, Known
<1>4. CASE Ask \/ OpenFails
  <2>1. /\ UNCHANGED <<color, asleep>> /\ sb'.step # "write" /\ missed \subseteq missed'
    <3>1. CASE NextDevice /\ UNCHANGED <<color, asleep>> /\ missed \subseteq missed'
      BY <3>1 DEF NextDevice
    <3>2. CASE /\ sb' = [sb EXCEPT !.step = "read",
                           !.is = "asleep" \in troubles[HashOrder[sb.i]]]
               /\ UNCHANGED <<color, asleep, missed>>
      <4>1. sb'.step = "read"
        BY <3>2 DEF HInv, Asking, Doing
      <4> QED
        BY <3>2, <4>1
    <3> QED
      BY <1>4, <3>1, <3>2 DEF Ask, OpenFails, GiveUp
  <2> QED
    BY <2>1 DEF HInv, Following, Known
<1>5. CASE Compare
  <2> DEFINE want == IF asleep[l] /\ color[l] = Standby THEN Normal(sb.i)
                     ELSE IF ~asleep[l] /\ color[l] = Normal(sb.i)
                     THEN Standby ELSE Fail
  <2>1. /\ sb' = [sb EXCEPT !.step = "write", !.want = want] /\ sb.step = "read"
        /\ UNCHANGED <<color, asleep, missed>>
    BY <1>5 DEF Compare
  <2>2. sb.is = ~asleep[l]
    BY <2>1 DEF HInv, Asking
  <2>3. ASSUME Told(l)
        PROVE  /\ want \in {Fail, IF sb.is THEN Standby ELSE Health[l]}
               /\ want = Fail /\ l \notin missed => color[l] = Fail
    <3>1. l \notin missed => color[l] \in {Fail, IF asleep[l] THEN Standby ELSE Health[l]}
      BY <1>1, <2>3 DEF HInv, Following, Known
    <3>2. Standby # Fail /\ Health[l] # Fail
      BY <1>1, ColorAssumption
    <3>3. CASE asleep[l]
      BY <1>2, <2>2, <2>3, <3>1, <3>2, <3>3
    <3>4. CASE ~asleep[l]
      BY <1>2, <2>2, <2>3, <3>1, <3>2, <3>4
    <3> QED
      BY <1>1, <3>3, <3>4
  <2> HIDE DEF want
  <2>4. sb'.i = sb.i /\ sb'.is = sb.is /\ sb'.want = want /\ sb'.step = "write"
    BY <2>1 DEF HInv, Asking, Doing
  <2> QED
    BY <2>1, <2>3, <2>4 DEF HInv, Following, Known
<1>6. CASE Exchange
  <2>1. /\ sb.step = "write" /\ sb'.step = "ask"
        /\ asleep' = [asleep EXCEPT ![l] = sb.is]
        /\ sb.is = ~asleep[l]
    BY <1>6 DEF Exchange, NextDevice, HInv, Asking
  <2>2. asleep'[l] = sb.is /\ \A x \in Leds \ {l} : asleep'[x] = asleep[x]
    BY <1>1, <2>1 DEF HInv, Asking
  <2>3. Told(l) => /\ sb.want \in {Fail, IF sb.is THEN Standby ELSE Health[l]}
                   /\ sb.want = Fail /\ l \notin missed => color[l] = Fail
    BY <2>1 DEF HInv, Following
  <2>4. CASE sb.want = Fail
    <3>1. UNCHANGED <<color, missed>>
      BY <1>6, <2>4 DEF Exchange
    <3> QED
      BY <2>1, <2>2, <2>3, <2>4, <3>1 DEF HInv, Following, Known
  <2>5. CASE sb.want # Fail /\ color' = [color EXCEPT ![l] = sb.want] /\ missed' = missed
    <3>1. color' \in [Leds -> Colors] /\ color'[l] = sb.want
          /\ \A x \in Leds \ {l} : color'[x] = color[x]
      BY <1>1, <2>5 DEF HInv, Following, Asking, Doing
    <3>2. Told(l) => color'[l] = IF asleep'[l] THEN Standby ELSE Health[l]
      BY <2>2, <2>3, <2>5, <3>1
    <3> QED
      BY <2>1, <2>2, <2>5, <3>1, <3>2 DEF HInv, Following, Known
  <2>6. CASE color' = color /\ missed' = missed \cup {l}
    BY <2>1, <2>2, <2>6 DEF HInv, Following, Known
  <2>7. sb.want # Fail =>
          \/ color' = [color EXCEPT ![l] = sb.want] /\ missed' = missed
          \/ color' = color /\ missed' = missed \cup {l}
    <3>1. faults \in Nat
      BY BoundAssumption DEF HInv, Counts
    <3>2. faults + 1 # faults
      BY <3>1
    <3> QED
      BY <1>6, <3>2 DEF Exchange, Write, spent
  <2> QED
    BY <2>4, <2>5, <2>6, <2>7
<1>7. CASE Restart
  <2>1. sb'.step = "ask" /\ \A x \in Leds : ~asleep'[x]
    BY <1>7 DEF Restart, Fresh
  <2>2. PICK failed \in SUBSET Leds :
           /\ color' = [x \in Leds |-> IF x \in failed THEN color[x] ELSE Health[x]]
           /\ missed' = failed
    BY <1>7 DEF Restart, Fresh
  <2>3. \A x \in Leds : color[x] \in Colors /\ Health[x] \in Colors
    BY ColorAssumption DEF HInv, Following, Colors
  <2>4. color' \in [Leds -> Colors] /\ \A x \in Leds \ failed : color'[x] = Health[x]
    BY <2>2, <2>3
  <2> QED
    BY <2>1, <2>2, <2>4 DEF Following, Known
<1>8. CASE UNCHANGED <<color, sb, asleep, missed>>
  BY <1>8 DEF HInv, Following, Known
<1>9. \A x, t : DiskEvent(x, t) => UNCHANGED <<color, sb, asleep, missed>>
  BY DEF DiskEvent
<1>10. UNCHANGED vars => UNCHANGED <<color, sb, asleep, missed>>
  BY DEF vars
<1> QED
  BY <1>3, <1>4, <1>5, <1>6, <1>7, <1>8, <1>9, <1>10 DEF Next, CheckStandby

(* The invariant holds of every behaviour.                                 *)
LEMMA HAlways == Spec => []HInv
<1>1. HInv /\ [Next]_vars => HInv'
  BY DisksStep, RoundsStep, CountsStep, AskingStep, FollowingStep DEF HInv
<1> QED
  BY <1>1, HInit, PTL DEF Spec

(* Every variable has its type.                                            *)
THEOREM Typing == Spec => []TypeOK
<1>1. HInv => TypeOK
  BY DEF HInv, Disks, Troubles, Rounds, Counts, Asking, Doing, Following, Colors, TypeOK
<1> QED
  BY <1>1, HAlways, PTL

(* check-standby and the loops write the same colours without a lock; even *)
(* so the colour of a LED follows what check-standby knows of its disk, on  *)
(* every LED whose own colour check-standby was told and on which none of  *)
(* its calls failed, nor the write of the colour at the start.             *)
THEOREM StandbyFollowed == Spec => []ColorFollowsStandby
<1>1. HInv => ColorFollowsStandby
  BY DEF HInv, Following, Known, ColorFollowsStandby
<1> QED
  BY <1>1, HAlways, PTL
=============================================================================

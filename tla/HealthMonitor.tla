--------------------------- MODULE HealthMonitor ---------------------------
(***************************************************************************)
(* The colours of the disk LEDs under scripts/ugreen-diskiomon.  The SMART *)
(* and the online loop, the ZFS loop and scripts/check-standby.cpp are     *)
(* processes of their own.  Each goes over the LEDs for ever; it reads the *)
(* colour of one, asks the disk, which may take seconds, and writes the    *)
(* colour, and no lock keeps the others out in between.                    *)
(*                                                                         *)
(* The three failure colours are one.  A write may fail in the driver of   *)
(* the LED, at the start of the service as well; no process looks at the   *)
(* outcome.                                                                *)
(***************************************************************************)
EXTENDS Integers, Sequences, FiniteSets, SequencesExt

CONSTANTS LedMap,     \* led_map: the LEDs in the order of their bays
          HashOrder,  \* the LEDs in the order of "${!devices[@]}"
          Health,     \* color_disk_health of each LED
          Standby,    \* COLOR_DISK_STANDBY
          Fail,       \* COLOR_DISK_UNAVAIL, COLOR_SMART_FAIL, COLOR_ZPOOL_FAIL
          Black,      \* "0 0 0": the driver turns the LED off, color stays
          Loops,      \* the loops that are enabled: "smart", "zpool", "online"
          Unsteady,   \* bounds of the model: the LEDs whose disks change,
          MaxEvents,  \*   what happens to them,
          MaxFaults   \*   and the calls that fail

Leds == Range(LedMap)

ASSUME LedAssumption ==
    /\ LedMap \in Seq(Leds) /\ HashOrder \in Seq(Leds)
    /\ Len(HashOrder) = Len(LedMap) /\ Len(LedMap) > 0
    /\ Range(HashOrder) = Leds
    /\ Loops \subseteq {"smart", "zpool", "online"}
ASSUME ColorAssumption ==
    /\ Standby # Fail /\ Black \notin {Standby, Fail}
    /\ Health \in [Leds -> {Health[l] : l \in Leds}]
    /\ \A l \in Leds : Health[l] \notin {Standby, Fail, Black}
ASSUME BoundAssumption ==
    Unsteady \subseteq Leds /\ MaxEvents \in Nat /\ MaxFaults \in Nat

VARIABLES color,    \* /sys/class/leds/*/color
          troubles, \* per disk: "gone", "smart", "zpool", "asleep"
          at,       \* per loop, the index in HashOrder it has reached
          step,     \* per loop: "status", "read", "test" or "write"
          verdict,  \* zpool loop: LEDs of the last zpool status not ONLINE
          sb,       \* check-standby: its index, its step, is_standby and the
                    \*   colour it is about to write
          valid,    \* device_valid
          asleep,   \* device_standby
          events, faults,  \* spent so far
          missed    \* history: LEDs on which a call of check-standby, or the
                    \*   write of the colour at the start, failed

loops == <<at, step, verdict>>
standby == <<sb, valid, asleep>>
spent == <<events, faults>>
vars == <<color, troubles, loops, standby, spent, missed>>

N == Len(HashOrder)

BugAfter(i) == i + 1

(* The next LED of a round, and the first one again after the last.        *)
After(i) == (i % N) + 1

(* The arguments of check-standby: the colours come from                   *)
(* disk_health_parameters in the order of led_map, the LEDs from           *)
(* diskiomon_parameters in that of the associative array.                  *)
Normal(i) == Health[LedMap[i]]

(* is_disk_healthy_or_standby.                                             *)
HealthyOrStandby(l) == color[l] \in {Health[l], Standby}

(* color_store of the driver: the colour of l changes, or the command to   *)
(* the MCU is given up and it stays; a colour it has needs no command.     *)
Write(l, c) ==
    \/ color' = [color EXCEPT ![l] = c] /\ UNCHANGED <<spent>>
    \/ /\ color[l] # c
       /\ faults < MaxFaults
       /\ faults' = faults + 1
       /\ UNCHANGED <<color, events>>

-----------------------------------------------------------------------------
(* The three loops.  A definition named Bug... is a mistake that could     *)
(* have been made in the one after it; it is no part of the specification. *)

(* What the test of a loop finds.  smartctl does not open a sleeping disk  *)
(* and reports a missing one as an error; the online loop looks for stat.  *)
Finds(p, l) ==
    \/ p \in {"smart", "online"} /\ "gone" \in troubles[l]
    \/ p = "smart" /\ troubles[l] \cap {"smart", "asleep"} = {"smart"}
    \/ p = "zpool" /\ l \in verdict

Goto(p, i, s) ==
    /\ at' = [at EXCEPT ![p] = i]
    /\ step' = [step EXCEPT ![p] = s]

(* A round of the zpool loop starts with zpool status.                     *)
First(p) == IF p = "zpool" THEN "status" ELSE "read"

Advance(p) ==
    LET i == After(at[p]) IN Goto(p, i, IF i = 1 THEN First(p) ELSE "read")

ZpoolStatus(p) ==
    /\ step[p] = "status"
    /\ verdict' = {l \in Leds : "zpool" \in troubles[l]}
    /\ Goto(p, 1, "read")
    /\ UNCHANGED <<color, troubles, standby, spent, missed>>

BugReadSkipsStandby(p) ==
    LET l == HashOrder[at[p]] IN
    /\ step[p] = "read"
    /\ IF color[l] = Health[l] THEN Goto(p, at[p], "test") ELSE Advance(p)
    /\ UNCHANGED <<color, troubles, verdict, standby, spent, missed>>

(* A LED that shows a failure is left alone.                               *)
ReadColor(p) ==
    /\ step[p] = "read"
    /\ IF HealthyOrStandby(HashOrder[at[p]]) THEN Goto(p, at[p], "test")
                                             ELSE Advance(p)
    /\ UNCHANGED <<color, troubles, verdict, standby, spent, missed>>

TestDisk(p) ==
    /\ step[p] = "test"
    /\ IF Finds(p, HashOrder[at[p]]) THEN Goto(p, at[p], "write")
                                     ELSE Advance(p)
    /\ UNCHANGED <<color, troubles, verdict, standby, spent, missed>>

WriteFail(p) ==
    /\ step[p] = "write"
    /\ Write(HashOrder[at[p]], Fail)
    /\ Advance(p)
    /\ UNCHANGED <<troubles, verdict, standby, missed>>

Loop(p) == ZpoolStatus(p) \/ ReadColor(p) \/ TestDisk(p) \/ WriteFail(p)

-----------------------------------------------------------------------------
(* check-standby.cpp                                                       *)

NextDevice == sb' = [i |-> After(sb.i), step |-> "ask", is |-> FALSE, want |-> Fail]

GiveUp(l) ==
    /\ valid' = [valid EXCEPT ![l] = FALSE]
    /\ missed' = missed \cup {l}
    /\ NextDevice

(* CheckPowerMode; a device that does not answer is never asked again.     *)
Ask ==
    LET l == HashOrder[sb.i]
        is == "asleep" \in troubles[l]
    IN
    /\ sb.step = "ask"
    /\ \/ /\ ~valid[l] \/ ("gone" \notin troubles[l] /\ is = asleep[l])
          /\ NextDevice
          /\ UNCHANGED <<valid, spent, missed>>
       \/ /\ valid[l]
          /\ "gone" \in troubles[l] \/ faults < MaxFaults
          /\ faults' = IF "gone" \in troubles[l] THEN faults ELSE faults + 1
          /\ GiveUp(l)
          /\ UNCHANGED events
       \/ /\ valid[l] /\ "gone" \notin troubles[l] /\ is # asleep[l]
          /\ sb' = [sb EXCEPT !.step = "read", !.is = is]
          /\ UNCHANGED <<valid, spent, missed>>
    /\ UNCHANGED <<color, troubles, loops, asleep>>

OpenFails ==
    /\ sb.step = "read"
    /\ faults < MaxFaults
    /\ faults' = faults + 1
    /\ GiveUp(HashOrder[sb.i])
    /\ UNCHANGED <<color, troubles, loops, asleep, events>>

BugCompareNew ==
    LET l == HashOrder[sb.i] IN
    /\ sb.step = "read"
    /\ sb' = [sb EXCEPT !.step = "write",
                !.want = IF sb.is /\ color[l] = Standby THEN Normal(sb.i)
                         ELSE IF ~sb.is /\ color[l] = Normal(sb.i)
                         THEN Standby ELSE Fail]
    /\ UNCHANGED <<color, troubles, loops, valid, asleep, spent, missed>>

(* The colour is exchanged only for the one that check-standby itself      *)
(* would have left there; Fail stands for nothing to write.                *)
Compare ==
    LET l == HashOrder[sb.i] IN
    /\ sb.step = "read"
    /\ sb' = [sb EXCEPT !.step = "write",
                !.want = IF asleep[l] /\ color[l] = Standby THEN Normal(sb.i)
                         ELSE IF ~asleep[l] /\ color[l] = Normal(sb.i)
                         THEN Standby ELSE Fail]
    /\ UNCHANGED <<color, troubles, loops, valid, asleep, spent, missed>>

BugExchangeForgets ==
    LET l == HashOrder[sb.i] IN
    /\ sb.step = "write"
    /\ IF sb.want = Fail
       THEN UNCHANGED <<color, spent, missed>>
       ELSE /\ Write(l, sb.want)
            /\ missed' = IF faults' = faults THEN missed ELSE missed \cup {l}
    /\ NextDevice
    /\ UNCHANGED <<troubles, loops, valid, asleep>>

(* device_standby is updated whatever became of the colour.                *)
Exchange ==
    LET l == HashOrder[sb.i] IN
    /\ sb.step = "write"
    /\ IF sb.want = Fail
       THEN UNCHANGED <<color, spent, missed>>
       ELSE /\ Write(l, sb.want)
            /\ missed' = IF faults' = faults THEN missed ELSE missed \cup {l}
    /\ asleep' = [asleep EXCEPT ![l] = sb.is]
    /\ NextDevice
    /\ UNCHANGED <<troubles, loops, valid>>

CheckStandby == Ask \/ OpenFails \/ Compare \/ Exchange

-----------------------------------------------------------------------------
(* A disk goes, comes back, falls asleep, wakes, fails or recovers.        *)
DiskEvent(l, t) ==
    /\ events < MaxEvents
    /\ events' = events + 1
    /\ troubles' = [troubles EXCEPT ![l] =
                      IF t \in @ THEN @ \ {t} ELSE @ \cup {t}]
    /\ UNCHANGED <<color, loops, standby, faults, missed>>

(* A start of the service: every LED that has another colour is written    *)
(* the healthy one.  The bus fails under some of these writes, or under    *)
(* none; such an outage is one fault.                                      *)
Fresh ==
    /\ \E failed \in SUBSET {l \in Leds : color[l] # Health[l]} :
         /\ color' = [l \in Leds |-> IF l \in failed THEN color[l] ELSE Health[l]]
         /\ missed' = failed
         /\ \/ failed = {} /\ faults' = faults
            \/ failed # {} /\ faults < MaxFaults /\ faults' = faults + 1
    /\ at' = [p \in Loops |-> 1] /\ step' = [p \in Loops |-> First(p)]
    /\ verdict' = {}
    /\ sb' = [i |-> 1, step |-> "ask", is |-> FALSE, want |-> Fail]
    /\ valid' = [l \in Leds |-> TRUE] /\ asleep' = [l \in Leds |-> FALSE]

(* The service is restarted, with a disk in each bay: bays without are not *)
(* monitored.                                                              *)
Restart ==
    /\ \A l \in Leds : "gone" \notin troubles[l]
    /\ events < MaxEvents
    /\ events' = events + 1
    /\ Fresh
    /\ UNCHANGED troubles

(* The first start, at which no write fails (with another healthy colour   *)
(* than the white of the driver's probe, a LED whose first write fails is  *)
(* taken neither for healthy nor for sleeping).                            *)
Init ==
    /\ color = Health
    /\ troubles \in [Leds -> SUBSET {"smart", "zpool", "asleep"}]
    /\ \A l \in Leds \ Unsteady : troubles[l] = {}
    /\ at = [p \in Loops |-> 1] /\ step = [p \in Loops |-> First(p)]
    /\ verdict = {}
    /\ sb = [i |-> 1, step |-> "ask", is |-> FALSE, want |-> Fail]
    /\ valid = [l \in Leds |-> TRUE] /\ asleep = [l \in Leds |-> FALSE]
    /\ events = 0 /\ faults = 0
    /\ missed = {}

Next ==
    \/ \E p \in Loops : Loop(p)
    \/ CheckStandby
    \/ \E l \in Unsteady, t \in {"gone", "smart", "zpool", "asleep"} :
         DiskEvent(l, t)
    \/ Restart

Spec == Init /\ [][Next]_vars

(* Every process is scheduled.                                             *)
FairSpec ==
    Spec /\ (\A p \in Loops : WF_vars(Loop(p))) /\ WF_vars(CheckStandby)

-----------------------------------------------------------------------------
Steps == {"status", "read", "test", "write"}

(* Every variable has its type.                                            *)
TypeOK ==
    /\ color \in [Leds -> {Health[l] : l \in Leds} \cup {Standby, Fail}]
    /\ troubles \in [Leds -> SUBSET {"gone", "smart", "zpool", "asleep"}]
    /\ at \in [Loops -> 1 .. N] /\ step \in [Loops -> Steps]
    /\ verdict \subseteq Leds
    /\ sb \in [i : 1 .. N, step : {"ask", "read", "write"}, is : BOOLEAN,
               want : {Health[l] : l \in Leds} \cup {Standby, Fail}]
    /\ valid \in [Leds -> BOOLEAN] /\ asleep \in [Leds -> BOOLEAN]
    /\ events \in 0 .. MaxEvents /\ faults \in 0 .. MaxFaults
    /\ missed \subseteq Leds

(* check-standby was told the colour of the LED's own bay.                 *)
Told(l) == \A i \in 1 .. N : HashOrder[i] = l => Normal(i) = Health[l]

(* Whatever the loops write in between, the colour of a LED follows what   *)
(* check-standby knows of its disk: it is the standby colour only while    *)
(* the disk is known to sleep, the healthy one only while it is not, and a *)
(* failure otherwise.  Exempt are the LEDs on which a call of check-standby *)
(* or the first write of the service failed, and those whose colours came  *)
(* to check-standby in the order of other LEDs: with colours of one's own  *)
(* per disk, as ugreen-leds.conf offers, it compares with the wrong one.   *)
ColorFollowsStandby ==
    \A l \in Leds \ missed :
        Told(l) => color[l] \in {Fail, IF asleep[l] THEN Standby ELSE Health[l]}

Failing(l) ==
    \/ \E p \in Loops \ {"zpool"} : Finds(p, l)
    \/ "zpool" \in Loops /\ "zpool" \in troubles[l]

(* A failure that lasts is shown in the end and stays, although a standby  *)
(* or a healthy colour, decided on before it was found, may replace its    *)
(* colour, and the write of the colour may fail.                           *)
LastingFailureShown ==
    \A l \in Unsteady : <>[]Failing(l) => <>[](color[l] = Fail)

(* ugreen-leds.conf, COLOR_DISK_STANDBY: a disk that stays asleep gets the *)
(* standby colour, or that of a failure, and loses it when it stays awake. *)
(* Exempt are the LEDs on which a call of check-standby or the write of    *)
(* the colour at the start failed, and those it was told a wrong colour of. *)
SleepShown ==
    \A l \in Unsteady : Told(l) =>
        /\ <>[]("asleep" \in troubles[l]) =>
               <>(l \in missed \/ [](color[l] \in {Standby, Fail}))
        /\ <>[]("asleep" \notin troubles[l]) =>
               <>(l \in missed \/ [](color[l] # Standby))
=============================================================================

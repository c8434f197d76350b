------------------------ MODULE LedControllerProofs ------------------------
(***************************************************************************)
(* Theorems about LedController, for any number of LEDs, registers, values *)
(* and attempts: its types, the coherence of its cache, and that it does   *)
(* what LedCommand promises.                                               *)
(***************************************************************************)
EXTENDS LedController, TLAPS

(* Every variable keeps its type, and the attempts stay below their limit. *)
THEOREM Typing == Spec => []TypeOK
<1>1. Init => TypeOK
  BY RetryAssumption DEF Init, TypeOK, Forgotten, Cmd
<1>2. TypeOK /\ [Next]_vars => TypeOK'
  <2> SUFFICES ASSUME TypeOK, [Next]_vars PROVE TypeOK'
    OBVIOUS
  <2> USE RetryAssumption
  <2>1. ASSUME NEW c \in Cmd, SetInvalid(c) \/ SetCached(c) \/ SetCommand(c)
        PROVE  TypeOK'
    BY <2>1 DEF TypeOK, SetInvalid, SetCached, SetCommand, Cmd
  <2>2. Forgotten \in [Regs -> Vals \cup {Unknown}]
    BY DEF Forgotten
  <2>3. Commanded \in [Leds -> [Regs -> Vals]]
    BY DEF TypeOK, Commanded, Cmd
  <2>4. ASSUME AttemptFails
        PROVE  /\ cache' \in [Leds -> [Regs -> Vals \cup {Unknown}]]
               /\ pc' \in {"idle", "write", "status"}
               /\ attempt' \in 0 .. RetryCount - 1
               /\ result' \in {"none", "ok", "error"}
    BY <2>2, <2>4 DEF AttemptFails, Retry, GiveUp, TypeOK
  <2>5. CASE WriteFails
    BY <2>3, <2>4, <2>5 DEF WriteFails, TypeOK
  <2>6. CASE WriteDone
    BY <2>3, <2>6 DEF WriteDone, TypeOK
  <2>7. CASE StatusAccepted
    BY <2>7 DEF StatusAccepted, TypeOK, Cmd
  <2>8. CASE StatusRejected \/ StatusFails
    BY <2>4, <2>8 DEF StatusRejected, StatusFails, TypeOK
  <2>9. ASSUME NEW l \in Leds, Invalidate(l)
        PROVE  TypeOK'
    BY <2>2, <2>9 DEF Invalidate, TypeOK
  <2>10. CASE Restart
    BY <2>2, <2>10 DEF Restart, TypeOK
  <2>11. CASE UNCHANGED vars
    BY <2>11 DEF vars, TypeOK
  <2> QED
    BY <2>1, <2>5, <2>6, <2>7, <2>8, <2>9, <2>10, <2>11
    DEF Next, Set, ChangeStatus
<1> QED
  BY <1>1, <1>2, PTL DEF Spec

-----------------------------------------------------------------------------
(* The invariant that is inductive: coherence needs to know that a positive *)
(* acknowledgement answers the command that is running, the refinement that *)
(* its register has the new value or the one it had.                       *)
AckAnswers == pc = "status" /\ ack => mcu[cmd.led][cmd.reg] = cmd.val

OldOrNew == pc # "idle" => mcu[cmd.led][cmd.reg] \in {old, cmd.val}

IInv == TypeOK /\ CacheCoherent /\ AckAnswers /\ OldOrNew

(* What the running command does to the MCU leaves the other registers.    *)
LEMMA CommandedElsewhere ==
    ASSUME TypeOK
    PROVE  /\ Commanded[cmd.led][cmd.reg] = cmd.val
           /\ \A l \in Leds, r \in Regs :
                 l # cmd.led \/ r # cmd.reg => Commanded[l][r] = mcu[l][r]
BY DEF TypeOK, Commanded, Cmd

LEMMA InitIInv == Init => IInv
BY RetryAssumption
DEF Init, IInv, TypeOK, CacheCoherent, AckAnswers, OldOrNew, Forgotten, Cmd

LEMMA StepIInv == IInv /\ TypeOK' /\ [Next]_vars => IInv'
<1> SUFFICES ASSUME IInv, TypeOK', [Next]_vars
             PROVE  CacheCoherent' /\ AckAnswers' /\ OldOrNew'
  BY DEF IInv
<1> USE DEF IInv
<1>1. ASSUME NEW c \in Cmd, SetInvalid(c) \/ SetCached(c) \/ SetCommand(c)
      PROVE  CacheCoherent' /\ AckAnswers' /\ OldOrNew'
  BY <1>1 DEF SetInvalid, SetCached, SetCommand, CacheCoherent, AckAnswers, OldOrNew
<1>2. ASSUME AttemptFails, mcu' \in {mcu, Commanded}, UNCHANGED <<cmd, old>>,
             pc # "idle"
      PROVE  CacheCoherent' /\ AckAnswers' /\ OldOrNew'
  <2>1. CASE Retry
    BY <1>2, <2>1, CommandedElsewhere
    DEF Retry, CacheCoherent, AckAnswers, OldOrNew
  <2>2. CASE GiveUp
    BY <1>2, <2>2, CommandedElsewhere
    DEF GiveUp, CacheCoherent, AckAnswers, OldOrNew, Forgotten, TypeOK, Cmd
  <2> QED
    BY <1>2, <2>1, <2>2 DEF AttemptFails
<1>3. CASE WriteFails
  BY <1>2, <1>3 DEF WriteFails
<1>4. CASE WriteDone
  BY <1>4, CommandedElsewhere DEF WriteDone, CacheCoherent, AckAnswers, OldOrNew
<1>5. CASE StatusAccepted
  BY <1>5 DEF StatusAccepted, CacheCoherent, AckAnswers, OldOrNew, TypeOK, Cmd
<1>6. CASE StatusRejected \/ StatusFails
  BY <1>2, <1>6 DEF StatusRejected, StatusFails
<1>7. ASSUME NEW l \in Leds, Invalidate(l)
      PROVE  CacheCoherent' /\ AckAnswers' /\ OldOrNew'
  BY <1>7 DEF Invalidate, CacheCoherent, AckAnswers, OldOrNew, Forgotten, TypeOK
<1>8. CASE Restart
  BY <1>8 DEF Restart, CacheCoherent, AckAnswers, OldOrNew, Forgotten
<1>9. CASE UNCHANGED vars
  BY <1>9 DEF vars, CacheCoherent, AckAnswers, OldOrNew
<1> QED
  BY <1>1, <1>3, <1>4, <1>5, <1>6, <1>7, <1>8, <1>9
  DEF Next, Set, ChangeStatus

(* Nothing but the register of a running call is cached with a value the   *)
(* MCU does not have: the early returns of the setters in led_controller.c *)
(* never skip a command that was needed.                                   *)
THEOREM Coherence == Spec => []CacheCoherent
<1>1. Spec => []IInv
  BY InitIInv, StepIInv, Typing, PTL DEF Spec
<1> QED
  BY <1>1, PTL DEF IInv

-----------------------------------------------------------------------------
(* While a call runs, its attempts are not seen.                           *)
LEMMA ShownStays ==
    ASSUME TypeOK, pc # "idle", pc' # "idle", mcu' \in {mcu, Commanded},
           UNCHANGED <<cmd, old>>
    PROVE  Shown' = Shown
<1>1. [Commanded EXCEPT ![cmd.led][cmd.reg] = old]
        = [mcu EXCEPT ![cmd.led][cmd.reg] = old]
  BY DEF TypeOK, Cmd, Commanded
<1> QED
  BY <1>1 DEF Shown

(* When it returns, all it may have done becomes visible at once.          *)
LEMMA ShownReturns ==
    ASSUME IInv, pc # "idle", pc' = "idle", mcu' \in {mcu, Commanded},
           UNCHANGED cmd
    PROVE  /\ Shown' = mcu'
           /\ Shown' \in {Shown, Command!Applied(cmd)}
           /\ mcu'[cmd.led][cmd.reg] = cmd.val => Shown' = Command!Applied(cmd)
<1> DEFINE With(v) == [mcu EXCEPT ![cmd.led][cmd.reg] = v]
<1>1. Shown' = mcu' /\ Shown = With(old)
  BY DEF Shown
<1>2. Command!Applied(cmd) = With(cmd.val) /\ Commanded = With(cmd.val)
  <2>1. [With(old) EXCEPT ![cmd.led][cmd.reg] = cmd.val] = With(cmd.val)
    BY DEF IInv, TypeOK, Cmd
  <2> QED
    BY <1>1, <2>1 DEF Command!Applied, Commanded
<1>3. mcu = With(mcu[cmd.led][cmd.reg])
  BY DEF IInv, TypeOK, Cmd
<1>4. mcu[cmd.led][cmd.reg] \in {old, cmd.val}
  BY DEF IInv, OldOrNew
<1>5. mcu' \in {With(old), With(cmd.val)}
  BY <1>2, <1>3, <1>4
<1>6. mcu'[cmd.led][cmd.reg] = cmd.val => mcu' = With(cmd.val)
  BY <1>2, <1>3
<1> QED
  BY <1>1, <1>2, <1>5, <1>6

(* An LED that the cache forgets.                                          *)
LEMMA KnownForgets ==
    ASSUME TypeOK, NEW l \in Leds, cache' = [cache EXCEPT ![l] = Forgotten]
    PROVE  Known' = [Known EXCEPT ![l] = {}]
BY DEF Known, TypeOK, Forgotten

(* Each step is a step of LedCommand or none at all.                       *)
LEMMA StepImplements == IInv /\ [Next]_vars => [Command!Next]_(Command!vars)
<1> SUFFICES ASSUME IInv, [Next]_vars PROVE [Command!Next]_(Command!vars)
  OBVIOUS
<1> USE DEF Command!Call, Cmd
<1>0. TypeOK /\ cmd.led \in Leds /\ cmd.reg \in Regs
  BY DEF IInv, TypeOK
<1>1. ASSUME NEW c \in Cmd, SetInvalid(c)
      PROVE  Command!Refuse(c)
  BY <1>1 DEF SetInvalid, Command!Refuse, Command!Valid, Shown, Known
<1>2. ASSUME NEW c \in Cmd, pc = "idle"
      PROVE  Command!Skips(c) <=> cache[c.led][c.reg] = c.val
  <2>1. Shown = mcu /\ cache[c.led][c.reg] \in {Unknown, mcu[c.led][c.reg]}
    BY <1>2 DEF Shown, IInv, CacheCoherent
  <2>2. c.reg \in Known[c.led] <=> cache[c.led][c.reg] # Unknown
    BY DEF Known
  <2>3. c.val # Unknown
    BY UnknownAssumption
  <2> QED
    BY <2>1, <2>2, <2>3 DEF Command!Skips
<1>3. ASSUME NEW c \in Cmd, SetCached(c)
      PROVE  Command!Answer(c)
  BY <1>2, <1>3 DEF SetCached, Command!Answer, Command!Valid, Shown, Known
<1>4. ASSUME NEW c \in Cmd, SetCommand(c)
      PROVE  Command!Begin(c)
  <2>1. [mcu EXCEPT ![c.led][c.reg] = mcu[c.led][c.reg]] = mcu
    BY <1>0 DEF TypeOK
  <2>2. Shown' = Shown
    BY <1>4, <2>1 DEF SetCommand, Shown
  <2> QED
    BY <1>2, <1>4, <2>2 DEF SetCommand, Command!Begin, Command!Valid, Known
<1>5. ASSUME AttemptFails, mcu' \in {mcu, Commanded}, UNCHANGED <<cmd, old>>,
             pc # "idle"
      PROVE  Command!ReturnError \/ UNCHANGED Command!vars
  <2>1. CASE Retry
    BY <1>0, <1>5, <2>1, ShownStays DEF Retry, Command!vars, Known
  <2>2. CASE GiveUp
    BY <1>0, <1>5, <2>2, ShownReturns, KnownForgets DEF GiveUp, Command!ReturnError
  <2> QED
    BY <1>5, <2>1, <2>2 DEF AttemptFails
<1>6. CASE WriteFails
  BY <1>5, <1>6 DEF WriteFails, Command!Next
<1>7. CASE WriteDone
  BY <1>0, <1>7, ShownStays DEF WriteDone, Command!vars, Known
<1>8. CASE StatusAccepted
  <2>1. Shown' = Command!Applied(cmd)
    BY <1>8, ShownReturns DEF StatusAccepted, IInv, AckAnswers
  <2>2. Known' = [Known EXCEPT ![cmd.led] = @ \cup {cmd.reg}]
    <3>1. /\ cache \in [Leds -> [Regs -> Vals \cup {Unknown}]]
          /\ cache' = [cache EXCEPT ![cmd.led][cmd.reg] = cmd.val]
          /\ cmd.val # Unknown
      BY <1>0, <1>8, UnknownAssumption DEF StatusAccepted, TypeOK
    <3>2. ASSUME NEW l \in Leds, NEW r \in Regs
          PROVE  cache'[l][r] # Unknown
                   <=> cache[l][r] # Unknown \/ (l = cmd.led /\ r = cmd.reg)
      BY <1>0, <3>1, <3>2
    <3>3. ASSUME NEW l \in Leds
          PROVE  {r \in Regs : cache'[l][r] # Unknown}
                   = IF l = cmd.led
                     THEN {r \in Regs : cache[l][r] # Unknown} \cup {cmd.reg}
                     ELSE {r \in Regs : cache[l][r] # Unknown}
      BY <1>0, <3>2
    <3> QED
      BY <1>0, <3>3, Zenon DEF Known
  <2>3. Command!ReturnOk
    BY <1>8, <2>1, <2>2 DEF StatusAccepted, Command!ReturnOk
  <2> QED
    BY <2>3 DEF Command!Next
<1>9. CASE StatusRejected \/ StatusFails
  BY <1>5, <1>9 DEF StatusRejected, StatusFails, Command!Next
<1>10. ASSUME NEW l \in Leds, Invalidate(l)
       PROVE  Command!Invalidate(l)
  BY <1>0, <1>10, KnownForgets DEF Invalidate, Command!Invalidate, Shown
<1>11. CASE Restart
  <2>1. Known' = Command!NothingKnown
    BY <1>11 DEF Restart, Known, Forgotten, Command!NothingKnown
  <2>2. pc = "idle" => Shown' = Shown
    BY <1>11 DEF Restart, Shown
  <2>3. pc # "idle" => Shown' \in {Shown, Command!Applied(cmd)}
    BY <1>11, ShownReturns DEF Restart
  <2>4. Command!Exit
    BY <1>11, <2>1, <2>2, <2>3 DEF Restart, Command!Exit
  <2> QED
    BY <2>4 DEF Command!Next
<1>12. CASE UNCHANGED vars
  BY <1>12 DEF vars, Command!vars, Shown, Known
<1> QED
  BY <1>1, <1>3, <1>4, <1>6, <1>7, <1>8, <1>9, <1>10, <1>11, <1>12
  DEF Next, Set, ChangeStatus, Command!Next

(* led_controller.c implements LedCommand: to its callers a setter is one  *)
(* step that is skipped, works, or fails with or without effect and forgets *)
(* the LED, whatever the bus does and wherever the process is killed.      *)
THEOREM Implementation == Spec => Implements
<1>1. Init => Command!Init
  BY DEF Init, Command!Init, Command!Call, Cmd, Shown, Known, Forgotten,
         Command!NothingKnown
<1>2. Spec => []IInv
  BY InitIInv, StepIInv, Typing, PTL DEF Spec
<1> QED
  BY <1>1, <1>2, StepImplements, PTL DEF Spec, Implements, Command!Spec
=============================================================================

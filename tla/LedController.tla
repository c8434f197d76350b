--------------------------- MODULE LedController ---------------------------
(***************************************************************************)
(* ebpf/src/led_controller.c: the commands of ugreen-ledd to the MCU, with *)
(* the acknowledgement and retry sequence and the cache of what the MCU    *)
(* last accepted.  All setters have one shape: a value the cache already   *)
(* holds is not sent, any other goes through change_status and is cached   *)
(* when the MCU acknowledged it.  (mode, on_ms, off_ms) of the cache are   *)
(* compared and written together whenever they are looked at and so are    *)
(* one register here.                                                      *)
(*                                                                         *)
(* The MCU and the bus are the environment: a write may fail before or     *)
(* after the MCU took the command, the MCU may reject it, the read of the  *)
(* acknowledgement may fail.  The MCU keeps its registers when the daemon  *)
(* ends; it has handled a command when its acknowledgement is read, 2 ms   *)
(* after the write.                                                        *)
(***************************************************************************)
EXTENDS Naturals

CONSTANTS Leds,       \* LED ids of the MCU
          Regs,       \* "color", "brightness" and "mode" in the code
          Vals,       \* values of a register
          Invalid,    \* <<register, value>>: a blink whose cycle overflows 16 bits
          Unknown,    \* a cache entry that is not valid
          RetryCount  \* COMMAND_RETRY_COUNT

ASSUME RetryAssumption == RetryCount \in Nat \ {0}
ASSUME UnknownAssumption == Unknown \notin Vals
ASSUME InvalidAssumption == Invalid \subseteq Regs \X Vals

VARIABLES mcu,      \* [Leds -> [Regs -> Vals]], the registers of the MCU
          ack,      \* its acknowledgement register 0x80 reads 1
          cache,    \* controller->cache
          pc,       \* "idle", "write" or "status": where change_status is
          cmd,      \* the arguments of the last setter called
          attempt,  \* the loop counter of change_status
          result,   \* what the last setter returned, "none" while it runs
          old       \* history: the register when the running setter was called

vars == <<mcu, ack, cache, pc, cmd, attempt, result, old>>

Cmd == [led : Leds, reg : Regs, val : Vals]

Forgotten == [r \in Regs |-> Unknown]

(* The registers of the MCU once it took the command.                      *)
Commanded == [mcu EXCEPT ![cmd.led][cmd.reg] = cmd.val]

(* led_controller_open clears the cache; the MCU may show anything.        *)
Init ==
    /\ mcu \in [Leds -> [Regs -> Vals]]
    /\ ack \in BOOLEAN
    /\ cache = [l \in Leds |-> Forgotten]
    /\ pc = "idle"
    /\ cmd \in Cmd
    /\ attempt = 0
    /\ result = "none"
    /\ old = mcu[cmd.led][cmd.reg]

-----------------------------------------------------------------------------
(* The setters, up to their first effect.                                  *)

(* set_blink refuses a cycle that wraps.                                   *)
SetInvalid(c) ==
    /\ pc = "idle"
    /\ <<c.reg, c.val>> \in Invalid
    /\ cmd' = c
    /\ result' = "error"
    /\ UNCHANGED <<mcu, ack, cache, pc, attempt, old>>

(* The cache already holds the value: nothing is sent.                     *)
SetCached(c) ==
    /\ pc = "idle"
    /\ <<c.reg, c.val>> \notin Invalid
    /\ cache[c.led][c.reg] = c.val
    /\ cmd' = c
    /\ result' = "ok"
    /\ UNCHANGED <<mcu, ack, cache, pc, attempt, old>>

SetCommand(c) ==
    /\ pc = "idle"
    /\ <<c.reg, c.val>> \notin Invalid
    /\ cache[c.led][c.reg] # c.val
    /\ cmd' = c
    /\ pc' = "write"
    /\ attempt' = 0
    /\ result' = "none"
    /\ old' = mcu[c.led][c.reg]
    /\ UNCHANGED <<mcu, ack, cache>>

-----------------------------------------------------------------------------
(* change_status.  A definition named Bug... is a mistake that could have  *)
(* been made in the one after it; it is no part of the specification.      *)

BugRetryNotCounted ==
    /\ attempt + 1 < RetryCount
    /\ pc' = "write"
    /\ UNCHANGED <<cache, attempt, result>>

BugRetryOnceMore ==
    /\ attempt + 1 <= RetryCount
    /\ attempt' = attempt + 1
    /\ pc' = "write"
    /\ UNCHANGED <<cache, result>>

Retry ==
    /\ attempt + 1 < RetryCount
    /\ attempt' = attempt + 1
    /\ pc' = "write"
    /\ UNCHANGED <<cache, result>>

BugGiveUpKeepsCache ==
    /\ attempt + 1 >= RetryCount
    /\ pc' = "idle"
    /\ result' = "error"
    /\ UNCHANGED <<cache, attempt>>

(* The attempts are used up: the whole LED is forgotten, the other         *)
(* registers included.                                                     *)
GiveUp ==
    /\ attempt + 1 >= RetryCount
    /\ cache' = [cache EXCEPT ![cmd.led] = Forgotten]
    /\ pc' = "idle"
    /\ result' = "error"
    /\ UNCHANGED attempt

AttemptFails == Retry \/ GiveUp

(* The SMBus write reports an error; the MCU may have taken it all the     *)
(* same.                                                                   *)
WriteFails ==
    /\ pc = "write"
    /\ \/ mcu' = Commanded /\ ack' = TRUE
       \/ UNCHANGED <<mcu, ack>>
    /\ AttemptFails
    /\ UNCHANGED <<cmd, old>>

(* The write succeeds and the MCU accepts or rejects the command.          *)
WriteDone ==
    /\ pc = "write"
    /\ \/ mcu' = Commanded /\ ack' = TRUE
       \/ UNCHANGED mcu /\ ack' = FALSE
    /\ pc' = "status"
    /\ UNCHANGED <<cache, cmd, attempt, result, old>>

BugAckIgnored ==
    /\ pc = "status"
    /\ cache' = [cache EXCEPT ![cmd.led][cmd.reg] = cmd.val]
    /\ pc' = "idle"
    /\ result' = "ok"
    /\ UNCHANGED <<mcu, ack, cmd, attempt, old>>

(* The acknowledgement is 1: the setter caches the value and returns 0.    *)
StatusAccepted ==
    /\ pc = "status"
    /\ ack
    /\ cache' = [cache EXCEPT ![cmd.led][cmd.reg] = cmd.val]
    /\ pc' = "idle"
    /\ result' = "ok"
    /\ UNCHANGED <<mcu, ack, cmd, attempt, old>>

StatusRejected ==
    /\ pc = "status"
    /\ ~ack
    /\ AttemptFails
    /\ UNCHANGED <<mcu, ack, cmd, old>>

StatusFails ==
    /\ pc = "status"
    /\ AttemptFails
    /\ UNCHANGED <<mcu, ack, cmd, old>>

-----------------------------------------------------------------------------
(* led_controller_invalidate, called by the users of the controller when a *)
(* sequence of setters failed.                                             *)
Invalidate(l) ==
    /\ pc = "idle"
    /\ cache' = [cache EXCEPT ![l] = Forgotten]
    /\ UNCHANGED <<mcu, ack, pc, cmd, attempt, result, old>>

(* The daemon dies or is stopped, and is started again by its unit.        *)
Restart ==
    /\ cache' = [l \in Leds |-> Forgotten]
    /\ pc' = "idle"
    /\ attempt' = 0
    /\ result' = "none"
    /\ UNCHANGED <<mcu, ack, cmd, old>>

Set == \E c \in Cmd : SetInvalid(c) \/ SetCached(c) \/ SetCommand(c)

ChangeStatus ==
    \/ WriteFails
    \/ WriteDone
    \/ StatusAccepted
    \/ StatusRejected
    \/ StatusFails

Next ==
    \/ Set
    \/ ChangeStatus
    \/ \E l \in Leds : Invalidate(l)
    \/ Restart

Spec == Init /\ [][Next]_vars

(* change_status runs in the daemon's only thread and each of its system   *)
(* calls returns.                                                          *)
FairSpec == Spec /\ WF_vars(ChangeStatus)

-----------------------------------------------------------------------------
(* Every variable has its type; the attempts stay below their limit.       *)
TypeOK ==
    /\ mcu \in [Leds -> [Regs -> Vals]]
    /\ ack \in BOOLEAN
    /\ cache \in [Leds -> [Regs -> Vals \cup {Unknown}]]
    /\ pc \in {"idle", "write", "status"}
    /\ cmd \in Cmd
    /\ attempt \in 0 .. RetryCount - 1
    /\ result \in {"none", "ok", "error"}
    /\ old \in Vals

(* A cached register is the register of the MCU, except for the one the    *)
(* running call is changing: the early returns of the setters are right.   *)
(* led_controller.c caches on acknowledgement and forgets the LED when the *)
(* attempts are used up, since any of them may have reached the MCU.       *)
CacheCoherent ==
    \A l \in Leds, r \in Regs :
        \/ cache[l][r] \in {Unknown, mcu[l][r]}
        \/ pc # "idle" /\ cmd.led = l /\ cmd.reg = r

(* What the callers see: until a setter returns, its register counts as    *)
(* what it was when the setter was called.                                 *)
Shown == IF pc = "idle" THEN mcu ELSE [mcu EXCEPT ![cmd.led][cmd.reg] = old]

Known == [l \in Leds |-> {r \in Regs : cache[l][r] # Unknown}]

Command == INSTANCE LedCommand
    WITH mcu <- Shown, known <- Known, call <- cmd, running <- (pc # "idle")

(* The attempts, the acknowledgements and the steps of a command are       *)
(* invisible to the callers: led_controller.c does what LedCommand says,   *)
(* each setter being one step.  The models of its callers rest on this.    *)
Implements == Command!Spec

(* Every call returns, whatever the bus does: the attempts are bounded.    *)
CallReturns == (pc # "idle") ~> (pc = "idle")
=============================================================================

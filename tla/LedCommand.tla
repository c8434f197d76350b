---------------------------- MODULE LedCommand ----------------------------
(***************************************************************************)
(* What led_controller_set_* of ebpf/src/led_controller.h promise to their *)
(* callers, without attempts, acknowledgements or the steps of a command:  *)
(* a call is one step, taken when it returns.  It touches one register of  *)
(* one LED.  When the register cannot have the value the call is refused   *)
(* and nothing changes; when it is known to have it, the call is skipped.  *)
(* Else it answers "ok" and the register has the value and is known, or    *)
(* "error", the register has the value or not, and nothing is known of the *)
(* LED any more.  This is the operator Put of DiskLeds, NetworkLed and     *)
(* Daemon.  LedController implements this specification.                   *)
(***************************************************************************)
CONSTANTS Leds,    \* LED ids of the MCU
          Regs,    \* what a command sets: the colour, the brightness, the mode
          Vals,    \* values of a register
          Invalid  \* <<register, value>>: values a register cannot have

Call == [led : Leds, reg : Regs, val : Vals]

VARIABLES mcu,      \* the registers of the MCU
          known,    \* per LED the registers whose value is known
          call,     \* the last call
          running,  \* whether that call has yet to return
          result    \* what it returned: "none" while it runs, "ok", "error"

vars == <<mcu, known, call, running, result>>

Applied(c) == [mcu EXCEPT ![c.led][c.reg] = c.val]

Valid(c) == <<c.reg, c.val>> \notin Invalid

NothingKnown == [l \in Leds |-> {}]

Skips(c) == c.reg \in known[c.led] /\ mcu[c.led][c.reg] = c.val

Init ==
    /\ mcu \in [Leds -> [Regs -> Vals]]
    /\ known = NothingKnown
    /\ call \in Call
    /\ running = FALSE
    /\ result = "none"

(* A call that has nothing to do answers at once.                          *)
Answer(c) ==
    /\ ~running
    /\ Valid(c)
    /\ Skips(c)
    /\ call' = c
    /\ result' = "ok"
    /\ UNCHANGED <<mcu, known, running>>

(* A call with invalid arguments is refused at once.                       *)
Refuse(c) ==
    /\ ~running
    /\ ~Valid(c)
    /\ call' = c
    /\ result' = "error"
    /\ UNCHANGED <<mcu, known, running>>

(* Any other call takes its time.                                          *)
Begin(c) ==
    /\ ~running
    /\ Valid(c)
    /\ ~Skips(c)
    /\ call' = c
    /\ running' = TRUE
    /\ result' = "none"
    /\ UNCHANGED <<mcu, known>>

ReturnOk ==
    /\ running
    /\ mcu' = Applied(call)
    /\ known' = [known EXCEPT ![call.led] = @ \cup {call.reg}]
    /\ running' = FALSE
    /\ result' = "ok"
    /\ UNCHANGED call

ReturnError ==
    /\ running
    /\ mcu' \in {mcu, Applied(call)}
    /\ known' = [known EXCEPT ![call.led] = {}]
    /\ running' = FALSE
    /\ result' = "error"
    /\ UNCHANGED call

(* The caller gives up a sequence of calls.                                *)
Invalidate(l) ==
    /\ ~running
    /\ known' = [known EXCEPT ![l] = {}]
    /\ UNCHANGED <<mcu, call, running, result>>

(* The process ends; the call it was in may have had its effect or not.    *)
Exit ==
    /\ IF running THEN mcu' \in {mcu, Applied(call)} ELSE UNCHANGED mcu
    /\ known' = NothingKnown
    /\ running' = FALSE
    /\ result' = "none"
    /\ UNCHANGED call

Next ==
    \/ \E c \in Call : Answer(c) \/ Refuse(c) \/ Begin(c)
    \/ ReturnOk
    \/ ReturnError
    \/ \E l \in Leds : Invalidate(l)
    \/ Exit

Spec == Init /\ [][Next]_vars
=============================================================================

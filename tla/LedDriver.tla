----------------------------- MODULE LedDriver -----------------------------
(***************************************************************************)
(* kmod/led-ugreen.c: the LEDs as devices of the kernel's LED class.  Tasks *)
(* (writers of sysfs files, triggers) call the setters.  A setter holds    *)
(* the mutex, compares what it is asked for with the state of the LED as   *)
(* the driver knows it, and sends what differs, with the attempts and      *)
(* acknowledgements of LedController.  Unlike the daemon, the driver keeps *)
(* the state it knows when the attempts are used up: "lost" records the    *)
(* registers it may be wrong about.                                        *)
(*                                                                         *)
(* mode stands for status, t_on and t_cycle, which are compared and set    *)
(* together while the LED blinks and are not looked at otherwise.  What    *)
(* setters return and what the show functions print changes no state and   *)
(* is left out.                                                            *)
(***************************************************************************)
EXTENDS Naturals, Sequences

CONSTANTS Leds, Tasks,
          Brights,     \* non-zero brightnesses
          Colors,      \* colours, Black and White among them
          Blinks,      \* blinks and breaths, with their delays
          Black, White,
          Zero,        \* LED_OFF, the brightness that turns an LED off
          Half,        \* 128, the brightness that probe sets
          Invalid,     \* the state of an LED that could not be read
          None,        \* the owner of a free mutex, the request of an idle task
          RetryCount   \* UGREEN_LED_CHANGE_STATE_RETRY_COUNT

Probe == "probe"   \* the task that binds the driver to the device
Actors == Tasks \cup {Probe}

Regs == {"mode", "brightness", "color"}
Modes == {"off", "on"} \cup Blinks
LedState == [mode : Modes, brightness : Brights, color : Colors]

(* A value for one register: what a command sets.                          *)
Setting == [reg : {"mode"}, val : Modes]
      \cup [reg : {"brightness"}, val : Brights]
      \cup [reg : {"color"}, val : Colors]

(* What is asked of an LED: a brightness, zero or not, a colour, a blink   *)
(* (blink_type or a trigger), "none" of blink_type, or what probe sets.    *)
Request == [led : Leds, op : {"brightness"}, val : Brights \cup {Zero}]
      \cup [led : Leds, op : {"color"}, val : Colors]
      \cup [led : Leds, op : {"blink"}, val : Blinks]
      \cup [led : Leds, op : {"none"}, val : {"on"}]
ProbeRequest == [led : Leds, op : {"probe"}, val : {Half}]

ASSUME RetryAssumption == RetryCount \in Nat \ {0}
ASSUME ValueAssumption ==
    /\ Half \in Brights
    /\ Zero \notin Brights \cup Blinks \cup {"on"}
    /\ Black \in Colors
    /\ White \in Colors \ {Black}
    /\ "off" \notin Blinks
ASSUME TaskAssumption == Probe \notin Tasks /\ None \notin Actors
ASSUME NoneAssumption ==
    /\ Invalid \notin LedState
    /\ None \notin Request \cup ProbeRequest

VARIABLES mcu,      \* [Leds -> LedState], the registers of the MCU
          ack,      \* its acknowledgement register 0x80 reads 1
          state,    \* priv->state of each LED
          phase,    \* "absent", "probing" or "bound"
          unprobed, \* LEDs that probe has yet to read
          mutex,    \* the task that holds priv->mutex
          pc,       \* "idle", "lock", "check", "write" or "status"
          req,      \* what the task was asked for
          todo,     \* settings its setter has yet to look at
          attempt,  \* loop counter of ugreen_led_change_state_robust
          lost      \* <<led, register>>: given up, not set since

device == <<mcu, ack>>
binding == <<phase, unprobed>>
vars == <<device, state, binding, mutex, pc, req, todo, attempt, lost>>

Init ==
    /\ mcu \in [Leds -> LedState]
    /\ ack = FALSE
    /\ state = [l \in Leds |-> Invalid]
    /\ phase = "absent"
    /\ unprobed = {}
    /\ mutex = None
    /\ pc = [t \in Actors |-> "idle"]
    /\ req = [t \in Actors |-> None]
    /\ todo = [t \in Actors |-> <<>>]
    /\ attempt = [t \in Actors |-> 0]
    /\ lost = {}

-----------------------------------------------------------------------------
(* The ..._unlock functions, as the settings they look at one by one.      *)
(* Whether an LED that gets a brightness is off is tested after the        *)
(* brightness was sent; nobody changes it in between.  A definition named  *)
(* Bug... is a mistake that could have been made in the one after it; it   *)
(* is no part of the specification.                                        *)

TurnOnOrOff(m) == <<[reg |-> "mode", val |-> m]>>

BugBrightnessStaysOff(l, b) ==
    IF b = Zero THEN TurnOnOrOff("off")
    ELSE <<[reg |-> "brightness", val |-> b]>>

SetBrightness(l, b) ==
    IF b = Zero THEN TurnOnOrOff("off")
    ELSE <<[reg |-> "brightness", val |-> b]>>
         \o (IF state[l].mode = "off" THEN TurnOnOrOff("on") ELSE <<>>)

SetColor(c) ==
    IF c = Black THEN TurnOnOrOff("off") ELSE <<[reg |-> "color", val |-> c]>>

SetBlinkOrBreath(k) == <<[reg |-> "mode", val |-> k]>>

Settings(r) ==
    IF r.op = "brightness" THEN SetBrightness(r.led, r.val)
    ELSE IF r.op = "color" THEN SetColor(r.val)
    ELSE IF r.op = "blink" THEN SetBlinkOrBreath(r.val)
    ELSE TurnOnOrOff(r.val)

-----------------------------------------------------------------------------
(* The entry points: a registered LED is asked for something.              *)
Call(t, r) ==
    /\ phase = "bound"
    /\ state[r.led] # Invalid
    /\ pc[t] = "idle"
    /\ pc' = [pc EXCEPT ![t] = "lock"]
    /\ req' = [req EXCEPT ![t] = r]
    /\ UNCHANGED <<device, state, binding, mutex, todo, attempt, lost>>

BugLockNotHeld(t) ==
    /\ pc[t] = "lock"
    /\ mutex' = t
    /\ pc' = [pc EXCEPT ![t] = "check"]
    /\ todo' = [todo EXCEPT ![t] = Settings(req[t])]
    /\ UNCHANGED <<device, state, binding, req, attempt, lost>>

Lock(t) ==
    /\ pc[t] = "lock"
    /\ mutex = None
    /\ mutex' = t
    /\ pc' = [pc EXCEPT ![t] = "check"]
    /\ todo' = [todo EXCEPT ![t] = Settings(req[t])]
    /\ UNCHANGED <<device, state, binding, req, attempt, lost>>

Unlock(t) ==
    /\ pc[t] = "check"
    /\ todo[t] = <<>>
    /\ mutex' = None
    /\ pc' = [pc EXCEPT ![t] = "idle"]
    /\ req' = [req EXCEPT ![t] = None]
    /\ UNCHANGED <<device, state, binding, todo, attempt, lost>>

-----------------------------------------------------------------------------
(* One setting after the other: left out if the driver thinks that the LED *)
(* has it, sent otherwise.                                                 *)

Known(t) == state[req[t].led][Head(todo[t]).reg] = Head(todo[t]).val

Skip(t) ==
    /\ pc[t] = "check"
    /\ todo[t] # <<>>
    /\ Known(t)
    /\ todo' = [todo EXCEPT ![t] = Tail(@)]
    /\ UNCHANGED <<device, state, binding, mutex, pc, req, attempt, lost>>

Send(t) ==
    /\ pc[t] = "check"
    /\ todo[t] # <<>>
    /\ ~Known(t)
    /\ pc' = [pc EXCEPT ![t] = "write"]
    /\ attempt' = [attempt EXCEPT ![t] = 0]
    /\ UNCHANGED <<device, state, binding, mutex, req, todo, lost>>

(* What the register of the running command is, and an LED that has it.    *)
Target(t) == <<req[t].led, Head(todo[t]).reg>>

Changed(leds, t) ==
    [leds EXCEPT ![req[t].led] =
        [@ EXCEPT ![Head(todo[t]).reg] = Head(todo[t]).val]]

BugRetryOnceMore(t) ==
    /\ attempt[t] + 1 <= RetryCount
    /\ attempt' = [attempt EXCEPT ![t] = @ + 1]
    /\ pc' = [pc EXCEPT ![t] = "write"]
    /\ UNCHANGED <<todo, lost>>

Retry(t) ==
    /\ attempt[t] + 1 < RetryCount
    /\ attempt' = [attempt EXCEPT ![t] = @ + 1]
    /\ pc' = [pc EXCEPT ![t] = "write"]
    /\ UNCHANGED <<todo, lost>>

(* The attempts are used up: the known state stays what it was, and the    *)
(* setter goes on with its next setting all the same.                      *)
GiveUp(t) ==
    /\ attempt[t] + 1 >= RetryCount
    /\ todo' = [todo EXCEPT ![t] = Tail(@)]
    /\ pc' = [pc EXCEPT ![t] = "check"]
    /\ lost' = lost \cup {Target(t)}
    /\ UNCHANGED attempt

AttemptFails(t) == Retry(t) \/ GiveUp(t)

(* The write reports an error; the MCU may have taken it all the same.     *)
WriteFails(t) ==
    /\ pc[t] = "write"
    /\ \/ mcu' = Changed(mcu, t) /\ ack' = TRUE
       \/ UNCHANGED device
    /\ AttemptFails(t)
    /\ UNCHANGED <<state, binding, mutex, req>>

(* The write succeeds and the MCU accepts or rejects the command.          *)
WriteDone(t) ==
    /\ pc[t] = "write"
    /\ \/ mcu' = Changed(mcu, t) /\ ack' = TRUE
       \/ UNCHANGED mcu /\ ack' = FALSE
    /\ pc' = [pc EXCEPT ![t] = "status"]
    /\ UNCHANGED <<state, binding, mutex, req, todo, attempt, lost>>

StatusAccepted(t) ==
    /\ pc[t] = "status"
    /\ ack
    /\ state' = Changed(state, t)
    /\ todo' = [todo EXCEPT ![t] = Tail(@)]
    /\ pc' = [pc EXCEPT ![t] = "check"]
    /\ lost' = lost \ {Target(t)}
    /\ UNCHANGED <<device, binding, mutex, req, attempt>>

(* The acknowledgement is not 1, or cannot be read.                        *)
StatusRefused(t) ==
    /\ pc[t] = "status"
    /\ AttemptFails(t)
    /\ UNCHANGED <<device, state, binding, mutex, req>>

Setter(t) ==
    \/ Skip(t)
    \/ Send(t)
    \/ WriteFails(t)
    \/ WriteDone(t)
    \/ StatusAccepted(t)
    \/ StatusRefused(t)

-----------------------------------------------------------------------------
(* ugreen_led_probe, which calls the setters without the mutex, before any *)
(* LED is registered; and ugreen_led_remove.                               *)

ProbeStarts ==
    /\ phase = "absent"
    /\ phase' = "probing"
    /\ unprobed' = Leds
    /\ UNCHANGED <<device, state, mutex, pc, req, todo, attempt, lost>>

(* The LED is read and given a brightness and a colour.                    *)
ProbeLed(l) ==
    /\ phase = "probing"
    /\ pc[Probe] = "idle"
    /\ l \in unprobed
    /\ unprobed' = unprobed \ {l}
    /\ state' = [state EXCEPT ![l] = mcu[l]]
    /\ req' = [req EXCEPT ![Probe] = [led |-> l, op |-> "probe", val |-> Half]]
    /\ pc' = [pc EXCEPT ![Probe] = "check"]
    /\ todo' = [todo EXCEPT ![Probe] =
                  <<[reg |-> "brightness", val |-> Half]>>
                  \o (IF mcu[l].mode = "off" THEN TurnOnOrOff("on") ELSE <<>>)
                  \o SetColor(White)]
    /\ UNCHANGED <<device, phase, mutex, attempt, lost>>

(* None of the attempts reads a state with a right checksum.               *)
ProbeFails(l) ==
    /\ phase = "probing"
    /\ pc[Probe] = "idle"
    /\ l \in unprobed
    /\ unprobed' = unprobed \ {l}
    /\ UNCHANGED <<device, state, phase, mutex, pc, req, todo, attempt, lost>>

ProbedLed ==
    /\ pc[Probe] = "check"
    /\ todo[Probe] = <<>>
    /\ pc' = [pc EXCEPT ![Probe] = "idle"]
    /\ req' = [req EXCEPT ![Probe] = None]
    /\ UNCHANGED <<device, state, binding, mutex, todo, attempt, lost>>

(* The LEDs that were read are registered, all under the mutex.  What      *)
(* led_classdev_register answers is ignored: a LED it did not register has *)
(* no files, it is one that no task calls.                                 *)
ProbeEnds ==
    /\ phase = "probing"
    /\ pc[Probe] = "idle"
    /\ unprobed = {}
    /\ phase' = "bound"
    /\ UNCHANGED <<device, state, unprobed, mutex, pc, req, todo, attempt,
                   lost>>

(* The LEDs are unregistered, which waits for the tasks that use them.     *)
(* Until the driver is bound again the tools of the LED class or another   *)
(* program may change them.                                                *)
Remove ==
    /\ phase = "bound"
    /\ \A t \in Tasks : pc[t] = "idle"
    /\ phase' = "absent"
    /\ state' = [l \in Leds |-> Invalid]
    /\ lost' = {}
    /\ mcu' \in [Leds -> LedState]
    /\ UNCHANGED <<ack, unprobed, mutex, pc, req, todo, attempt>>

Binding ==
    \/ ProbeStarts
    \/ \E l \in Leds : ProbeLed(l) \/ ProbeFails(l)
    \/ Setter(Probe)
    \/ ProbedLed
    \/ ProbeEnds

Next ==
    \/ \E t \in Tasks : \/ \E r \in Request : Call(t, r)
                        \/ Lock(t)
                        \/ Setter(t)
                        \/ Unlock(t)
    \/ Binding
    \/ Remove

Spec == Init /\ [][Next]_vars

-----------------------------------------------------------------------------
(* Every variable has its type; the attempts stay below their limit.       *)
TypeOK ==
    /\ mcu \in [Leds -> LedState]
    /\ ack \in BOOLEAN
    /\ state \in [Leds -> LedState \cup {Invalid}]
    /\ phase \in {"absent", "probing", "bound"}
    /\ unprobed \subseteq Leds
    /\ mutex \in Tasks \cup {None}
    /\ pc \in [Actors -> {"idle", "lock", "check", "write", "status"}]
    /\ req \in [Actors -> Request \cup ProbeRequest \cup {None}]
    /\ todo \in [Actors -> Seq(Setting)]
    /\ attempt \in [Actors -> 0 .. RetryCount - 1]
    /\ lost \subseteq Leds \X Regs

Sending(t) == pc[t] \in {"write", "status"}

(* What the driver knows of a register is what the MCU has, unless the     *)
(* attempts of the last command for it were used up or a command for it is *)
(* running.  The acknowledgement register is one for all LEDs: without the *)
(* mutex a task would take the answer to another task's command for its    *)
(* own.                                                                    *)
StateCoherent ==
    \A l \in Leds, r \in Regs :
        \/ state[l] = Invalid
        \/ state[l][r] = mcu[l][r]
        \/ <<l, r>> \in lost
        \/ \E t \in Actors : Sending(t) /\ Target(t) = <<l, r>>

(* The values a request wants its LED to have in each register.            *)
Wanted(r) ==
    IF r.val = (IF r.op = "color" THEN Black ELSE Zero)
    THEN [mode |-> {"off"}, brightness |-> Brights, color |-> Colors]
    ELSE [mode |-> IF r.op \in {"blink", "none"} THEN {r.val}
                   ELSE IF r.op = "color" THEN Modes
                   ELSE Modes \ {"off"},
          brightness |-> IF r.op \in {"brightness", "probe"} THEN {r.val}
                         ELSE Brights,
          color |-> IF r.op = "color" THEN {r.val}
                    ELSE IF r.op = "probe" THEN {White}
                    ELSE Colors]

(* When a setter is about to return, the LED shows what was asked for,     *)
(* whatever part of it was skipped, provided no command for this LED was   *)
(* given up: a non-zero brightness turns it on, a blink blinks.            *)
Obeyed ==
    \A t \in Actors :
        /\ pc[t] = "check"
        /\ todo[t] = <<>>
        /\ \A r \in Regs : <<req[t].led, r>> \notin lost
        => \A r \in Regs : mcu[req[t].led][r] \in Wanted(req[t])[r]
=============================================================================

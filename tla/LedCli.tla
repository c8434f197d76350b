------------------------------- MODULE LedCli -------------------------------
(***************************************************************************)
(* The tool ugreen_leds_cli: cli/ugreen_leds_cli.cpp, the commands of      *)
(* cli/ugreen_leds.cpp and the bus of cli/i2c.cpp.  It takes names of LEDs *)
(* and operations, and applies all operations to one LED after another.    *)
(*                                                                         *)
(* What the MCU keeps of a blink is four bytes: the length of the cycle    *)
(* and that of its lit part.  A colour and a brightness are one value.     *)
(***************************************************************************)
EXTENDS Integers, Sequences, FiniteSets, Functions

CONSTANTS AllLeds,    \* led_name_map: the LEDs in the order of their names
          Fitted,     \* those the MCU of this model has
          NameLists,  \* the names on command lines: LEDs, "all", "unknown"
          OpLists,    \* the operations on command lines
          Values,     \* values of a colour or a brightness
          RetryCount, \* MAX_RETRY_COUNT
          MaxFaults   \* bound of the model on reads and writes that fail

Leds == Range(AllLeds)

MaxTime == 65535

Times == 0 .. MaxTime

Blinks == {"blink", "breath"}

Modes == {"on", "off"} \cup Blinks

(* Operations; "usage" is one that the parser refuses.                     *)
Op ==
    [kind : {"on", "off", "status", "usage"}]
    \cup [kind : Blinks, on : Times, off : Times]
    \cup [kind : {"color", "brightness"}, val : Values]

ASSUME LedAssumption ==
    /\ AllLeds \in Seq(Leds) /\ Fitted \subseteq Leds /\ IsFiniteSet(Fitted)
    /\ Leds \cap {"all", "unknown"} = {}
ASSUME InputAssumption ==
    /\ NameLists \subseteq Seq(Leds \cup {"all", "unknown"})
    /\ OpLists \subseteq Seq(Op)
ASSUME BoundAssumption == RetryCount \in Nat \ {0} /\ MaxFaults \in Nat

VARIABLES names, ops,  \* the command line
          pc,      \* what the tool does
          code,    \* how it ended
          leds,    \* the LEDs named so far
          i, j,    \* the LED and the operation it is at
          tries,   \* retry_cnt
          mcu,     \* the LEDs it has
          ack,     \* register 0x80: whether the last write was accepted
          faults,  \* spent so far
          before   \* history: the LEDs before the tool was started

input == <<names, ops>>
place == <<i, j, tries>>
vars == <<input, pc, code, leds, place, mcu, ack, faults, before>>

-----------------------------------------------------------------------------
(* What goes over the bus.  A definition named Bug... is a mistake that    *)
(* could have been made in the one after it; it is no part of the          *)
(* specification.                                                          *)

Bytes(n) == <<(n \div 256) % 256, n % 256>>

Word(b) == 256 * b[1] + b[2]

BugCommandSendsOff(op, l) ==
    IF op.kind \in Blinks
    THEN [l EXCEPT !.mode = op.kind, !.cycle = Bytes(op.off), !.lit = Bytes(op.on)]
    ELSE IF op.kind \in Modes THEN [l EXCEPT !.mode = op.kind]
    ELSE [l EXCEPT ![op.kind] = op.val]

(* _change_status and its callers; the sum of the two times is cut to 16   *)
(* bits.                                                                   *)
Command(op, l) ==
    IF op.kind \in Blinks
    THEN [l EXCEPT !.mode = op.kind, !.cycle = Bytes(op.on + op.off),
                   !.lit = Bytes(op.on)]
    ELSE IF op.kind \in Modes THEN [l EXCEPT !.mode = op.kind]
    ELSE [l EXCEPT ![op.kind] = op.val]

-----------------------------------------------------------------------------
Goto(step) == pc' = step /\ UNCHANGED <<input, code, before>>

Exit(c) ==
    /\ pc' = "done" /\ code' = c
    /\ UNCHANGED <<input, leds, place, before>>

(* Without arguments it shows its usage; else it opens the bus.            *)
Start ==
    /\ pc = "start"
    /\ \/ names = <<>> /\ ops = <<>> /\ Exit(0) /\ UNCHANGED faults
       \/ /\ names # <<>> \/ ops # <<>>
          /\ \/ Goto("names") /\ UNCHANGED <<leds, place, faults>>
             \/ /\ Exit(-1)
                /\ faults < MaxFaults /\ faults' = faults + 1
    /\ UNCHANGED <<mcu, ack>>

(* The LEDs of a set in the order of led_name_map.                         *)
Precedes(l, m) ==
    \E a, b \in DOMAIN AllLeds : a < b /\ AllLeds[a] = l /\ AllLeds[b] = m

Listings(set) ==
    {list \in [1 .. Cardinality(set) -> set] :
        \A a, b \in DOMAIN list : a < b => Precedes(list[a], list[b])}

(* "all" are the LEDs whose status can be read: a LED that is not fitted,  *)
(* or whose reads all fail, is left out.                                   *)
Name ==
    /\ pc = "names" /\ i <= Len(names)
    /\ IF names[i] = "unknown" THEN Exit(-1) /\ UNCHANGED faults
       ELSE /\ Goto("names")
            /\ i' = i + 1 /\ UNCHANGED <<j, tries>>
            /\ IF names[i] # "all"
               THEN leds' = Append(leds, names[i]) /\ UNCHANGED faults
               ELSE \E missed \in SUBSET Fitted :
                      /\ faults' = faults + RetryCount * Cardinality(missed)
                      /\ faults' <= MaxFaults
                      /\ \E list \in Listings(Fitted \ missed) : leds' = leds \o list
    /\ UNCHANGED <<mcu, ack>>

(* All operations are parsed before the first is applied; without any the  *)
(* status of the LEDs is shown.                                            *)
ParseOps ==
    /\ pc = "names" /\ i > Len(names)
    /\ IF \E k \in DOMAIN ops : ops[k].kind = "usage" THEN Exit(-1)
       ELSE IF ops = <<>> \/ leds = <<>> THEN Exit(0)
       ELSE /\ Goto("write")
            /\ i' = 1 /\ j' = 1 /\ tries' = 0
            /\ UNCHANGED leds
    /\ UNCHANGED <<mcu, ack, faults>>

(* The operation has worked: the next one, or the first for the next LED.  *)
Advance ==
    IF j < Len(ops)
    THEN j' = j + 1 /\ tries' = 0 /\ UNCHANGED <<i, leds>> /\ Goto("write")
    ELSE IF i < Len(leds)
    THEN i' = i + 1 /\ j' = 1 /\ tries' = 0 /\ UNCHANGED leds /\ Goto("write")
    ELSE Exit(0)

BugRetryNotCounted ==
    IF tries + 1 < RetryCount
    THEN UNCHANGED <<place, leds>> /\ Goto("write")
    ELSE Exit(-1)

(* It has not: another attempt, or the tool gives up.                      *)
Retry ==
    IF tries + 1 < RetryCount
    THEN tries' = tries + 1 /\ UNCHANGED <<i, j, leds>> /\ Goto("write")
    ELSE Exit(-1)

Target == [mcu EXCEPT ![leds[i]] = Command(ops[j], @)]

ShowStatus ==
    /\ pc = "write" /\ ops[j].kind = "status"
    /\ Advance
    /\ UNCHANGED <<mcu, ack, faults>>

(* The write is made.  The MCU accepts it or not; it has no other LEDs     *)
(* than those fitted.                                                      *)
WriteDone ==
    /\ pc = "write" /\ ops[j].kind # "status"
    /\ \/ /\ leds[i] \in Fitted
          /\ mcu' = Target /\ ack' = TRUE
          /\ UNCHANGED faults
       \/ /\ ack' = FALSE
          /\ IF leds[i] \in Fitted
             THEN faults < MaxFaults /\ faults' = faults + 1
             ELSE UNCHANGED faults
          /\ UNCHANGED mcu
    /\ Goto("ack")
    /\ UNCHANGED <<place, leds>>

(* The ioctl fails, perhaps after the MCU has taken the command.           *)
WriteFails ==
    /\ pc = "write" /\ ops[j].kind # "status"
    /\ faults < MaxFaults /\ faults' = faults + 1
    /\ mcu' \in IF leds[i] \in Fitted THEN {mcu, Target} ELSE {mcu}
    /\ ack' \in BOOLEAN
    /\ Retry

(* is_last_modification_successful; a read that fails returns 0.           *)
ReadAck ==
    /\ pc = "ack"
    /\ \/ ack /\ Advance /\ UNCHANGED faults
       \/ ~ack /\ Retry /\ UNCHANGED faults
       \/ Retry /\ faults < MaxFaults /\ faults' = faults + 1
    /\ UNCHANGED <<mcu, ack>>

Init ==
    /\ names \in NameLists /\ ops \in OpLists
    /\ pc = "start" /\ code = 0
    /\ leds = <<>> /\ i = 1 /\ j = 1 /\ tries = 0
    /\ mcu \in [Fitted -> [mode : {"on"}, color : Values, brightness : Values,
                           cycle : {<<0, 0>>}, lit : {<<0, 0>>}]]
    /\ ack = TRUE /\ faults = 0
    /\ before = mcu

Next ==
    \/ Start
    \/ Name
    \/ ParseOps
    \/ ShowStatus
    \/ WriteDone
    \/ WriteFails
    \/ ReadAck

Spec == Init /\ [][Next]_vars

(* The process is scheduled.                                               *)
FairSpec == Spec /\ WF_vars(Next)

-----------------------------------------------------------------------------
Byte == 0 .. 255

Led == [mode : Modes, color : Values, brightness : Values,
        cycle : Byte \X Byte, lit : Byte \X Byte]

(* Every variable has its type.                                            *)
TypeOK ==
    /\ names \in NameLists /\ ops \in OpLists
    /\ pc \in {"start", "names", "write", "ack", "done"}
    /\ code \in {0, -1}
    /\ leds \in Seq(Leds)
    /\ i \in Nat \ {0} /\ j \in Nat \ {0} /\ tries \in 0 .. RetryCount - 1
    /\ pc \in {"write", "ack"} => i <= Len(leds) /\ j <= Len(ops)
    /\ mcu \in [Fitted -> Led] /\ before \in [Fitted -> Led]
    /\ ack \in BOOLEAN /\ faults \in 0 .. MaxFaults

(* What an operation is about: later ones about the same replace it.       *)
About(op) == IF op.kind \in Modes THEN "mode" ELSE op.kind

(* The cycle of a blink is a 16-bit number for the MCU.                    *)
Fits(op) == op.on + op.off <= MaxTime

(* The registers x of a LED are what the operation asked for, in the       *)
(* meaning README.md gives them: the milliseconds of a cycle, and those of *)
(* its lit part.  The tool also takes times whose cycle does not fit; the  *)
(* MCU is then given another cycle than was asked for.                     *)
Obeys(x, op) ==
    /\ op.kind \in Modes => x.mode = op.kind
    /\ op.kind \in Blinks =>
         Word(x.lit) = op.on /\ (Fits(op) => Word(x.cycle) = op.on + op.off)
    /\ op.kind = "color" => x.color = op.val
    /\ op.kind = "brightness" => x.brightness = op.val

(* LED l is as operations 1 to n left it, up to m perhaps replaced.        *)
HasOps(l, n, m) ==
    \A k \in 1 .. n :
        Obeys(mcu[l], ops[k]) \/ \E x \in k + 1 .. m : About(ops[x]) = About(ops[k])

(* What the exit code says is so, however many attempts failed on the way. *)
(* After 0 the registers of every LED named have what was asked last;      *)
(* after a failure those before the one that failed have, that one has     *)
(* what came before the operation that failed, and the others, or all      *)
(* after a wrong argument, were not touched.  Nothing is said of the cycle *)
(* of a blink whose times do not fit together in 16 bits: the tool accepts *)
(* them (parse_integer allows each the whole range) and ends with 0, but   *)
(* the MCU gets a cycle shorter than its lit part.                         *)
Reported ==
    pc = "done" =>
        IF code = 0
        THEN ops # <<>> => \A k \in DOMAIN leds : HasOps(leds[k], Len(ops), Len(ops))
        ELSE \/ mcu = before
             \/ /\ \A k \in 1 .. i - 1 :
                     leds[k] = leds[i] \/ HasOps(leds[k], Len(ops), Len(ops))
                /\ HasOps(leds[i], j - 1, j)
                /\ \A l \in Fitted :
                     mcu[l] = before[l] \/ \E k \in 1 .. i : leds[k] = l

(* The tool ends, also for LEDs that do not exist and on a dead bus.       *)
Ends == <>(pc = "done")
=============================================================================

---------------------------- MODULE LedCliProofs ----------------------------
(***************************************************************************)
(* Theorems about LedCli, for any LEDs, command lines, number of attempts  *)
(* and of failing reads and writes: its types, that the exit code tells    *)
(* the truth about every LED, and that no step is taken twice.             *)
(***************************************************************************)
EXTENDS LedCli, FiniteSetTheorems, SequenceTheorems, TLAPS

(* What an operation carries, by its kind.                                 *)
LEMMA OpParts ==
    \A op \in Op :
        /\ op.kind \in Modes \cup {"color", "brightness", "status", "usage"}
        /\ op.kind \in Blinks => op.on \in Times /\ op.off \in Times
        /\ op.kind \in {"color", "brightness"} => op.val \in Values
BY DEF Op, Blinks, Modes

-----------------------------------------------------------------------------
(* Two bytes are the number they were made of, less what does not fit.     *)
LEMMA BytesFit ==
    \A n \in Nat : Bytes(n) \in Byte \X Byte /\ Word(Bytes(n)) = n % 65536
<1> TAKE n \in Nat
<1> DEFINE high == (n \div 256) % 256
           low == n % 256
<1>1. high \in Nat /\ high <= 255 /\ low \in Nat /\ low <= 255
  OBVIOUS
<1>2. 256 * high + low = n % 65536
  OBVIOUS
<1>3. Bytes(n) = <<high, low>>
  BY DEF Bytes
<1> HIDE DEF high, low
<1>4. high \in Byte /\ low \in Byte
  BY <1>1 DEF Byte
<1> QED
  BY <1>2, <1>3, <1>4 DEF Word

(* The times of a command line fit in 16 bits.                             *)
LEMMA TimesFit == \A t \in Times : t \in Nat /\ t < 65536
<1>1. MaxTime \in Nat /\ \A t \in Nat : t <= MaxTime => t < 65536
  BY DEF MaxTime
<1> QED
  BY <1>1 DEF Times

(* The two numbers of a blink reach the MCU as they were asked for, the    *)
(* cycle when it fits in 16 bits.                                          *)
LEMMA BlinkNumbers ==
    \A on \in Times, off \in Times :
        /\ Word(Bytes(on)) = on
        /\ on + off <= MaxTime => Word(Bytes(on + off)) = on + off
<1> TAKE on \in Times, off \in Times
<1> DEFINE n == on + off
<1>1. on \in Nat /\ on < 65536 /\ n \in Nat
  BY TimesFit
<1>2. n <= MaxTime => n < 65536
  BY <1>1 DEF MaxTime
<1> HIDE DEF n
<1>3. Word(Bytes(on)) = on % 65536 /\ Word(Bytes(n)) = n % 65536
  BY <1>1, BytesFit
<1>4. on % 65536 = on /\ (n < 65536 => n % 65536 = n)
  BY <1>1
<1>5. Word(Bytes(on)) = on /\ (n <= MaxTime => Word(Bytes(n)) = n)
  BY <1>2, <1>3, <1>4
<1> QED
  BY <1>5 DEF n

-----------------------------------------------------------------------------
(* To show the status changes nothing and so promises nothing.             *)
LEMMA NothingSaid == \A x, op : op.kind = "status" => Obeys(x, op)
BY DEF Obeys, Modes, Blinks

(* An operation that changes something: what it leaves of a LED.           *)
LEMMA CommandResult ==
    ASSUME NEW x \in Led, NEW op \in Op, op.kind \notin {"status", "usage"}
    PROVE  LET y == Command(op, x) IN
           /\ y \in Led
           /\ Obeys(y, op)
           /\ op.kind \notin Modes => y.mode = x.mode /\ y.cycle = x.cycle /\ y.lit = x.lit
           /\ op.kind # "color" => y.color = x.color
           /\ op.kind # "brightness" => y.brightness = x.brightness
<1> DEFINE y == Command(op, x)
<1>1. CASE op.kind \in Blinks
  <2>1. /\ op.on \in Times /\ op.off \in Times
        /\ op.on \in Nat /\ op.on + op.off \in Nat
    BY <1>1, OpParts, TimesFit
  <2>2. y = [x EXCEPT !.mode = op.kind, !.cycle = Bytes(op.on + op.off), !.lit = Bytes(op.on)]
    BY <1>1 DEF Command
  <2>3. /\ Bytes(op.on) \in Byte \X Byte /\ Bytes(op.on + op.off) \in Byte \X Byte
    BY <2>1, BytesFit
  <2>4. op.kind \in Modes /\ op.kind # "color" /\ op.kind # "brightness"
    BY <1>1 DEF Blinks, Modes
  <2> DEFINE cycle == Bytes(op.on + op.off)
             lit == Bytes(op.on)
  <2>5. y \in Led
    <3>1. cycle \in Byte \X Byte /\ lit \in Byte \X Byte
      BY <2>3
    <3>2. y = [x EXCEPT !.mode = op.kind, !.cycle = cycle, !.lit = lit]
      BY <2>2
    <3> HIDE DEF cycle, lit, y
    <3>3. y.mode \in Modes
      BY <2>4, <3>2 DEF Led
    <3> QED
      BY <2>4, <3>1, <3>2, <3>3, Zenon DEF Led
  <2>6. y.mode = op.kind /\ y.cycle = Bytes(op.on + op.off) /\ y.lit = Bytes(op.on)
        /\ y.color = x.color /\ y.brightness = x.brightness
    BY <2>2 DEF Led
  <2>7. Obeys(y, op)
    BY <2>1, <2>4, <2>6, BlinkNumbers DEF Obeys, Fits
  <2> QED
    BY <2>4, <2>5, <2>6, <2>7
<1>2. CASE op.kind \in Modes \ Blinks
  <2>1. y = [x EXCEPT !.mode = op.kind]
    BY <1>2 DEF Command
  <2>2. op.kind # "color" /\ op.kind # "brightness"
    BY <1>2 DEF Modes, Blinks
  <2> QED
    BY <1>2, <2>1, <2>2 DEF Led, Obeys
<1>3. CASE op.kind = "color"
  <2>1. y = [x EXCEPT !.color = op.val] /\ op.val \in Values /\ op.kind \notin Modes
    BY <1>3, OpParts DEF Command, Modes, Blinks
  <2> QED
    BY <1>3, <2>1 DEF Led, Obeys, Modes
<1>4. CASE op.kind = "brightness"
  <2>1. y = [x EXCEPT !.brightness = op.val] /\ op.val \in Values /\ op.kind \notin Modes
    BY <1>4, OpParts DEF Command, Modes, Blinks
  <2> QED
    BY <1>4, <2>1 DEF Led, Obeys, Modes
<1> QED
  BY <1>1, <1>2, <1>3, <1>4, OpParts

(* An operation leaves alone what others are about.                        *)
LEMMA CommandKeeps ==
    ASSUME NEW x \in Led, NEW op \in Op, op.kind \notin {"status", "usage"},
           NEW other \in Op, other.kind # "usage", About(other) # About(op), Obeys(x, other)
    PROVE  Obeys(Command(op, x), other)
<1> DEFINE y == Command(op, x)
<1>1. /\ op.kind \notin Modes => y.mode = x.mode /\ y.cycle = x.cycle /\ y.lit = x.lit
      /\ op.kind # "color" => y.color = x.color
      /\ op.kind # "brightness" => y.brightness = x.brightness
  BY CommandResult
<1> HIDE DEF y
<1>2. Blinks \subseteq Modes /\ "color" \notin Modes /\ "brightness" \notin Modes
  BY DEF Modes, Blinks
<1>3. CASE other.kind \in Modes
  <2>1. op.kind \notin Modes
    BY <1>3 DEF About
  <2> QED
    BY <1>1, <1>2, <1>3, <2>1 DEF Obeys, y
<1>4. CASE other.kind \notin Modes
  <2>1. op.kind # other.kind
    BY <1>4 DEF About
  <2> QED
    BY <1>1, <1>2, <1>4, <2>1 DEF Obeys, y
<1> QED
  BY <1>3, <1>4

-----------------------------------------------------------------------------
(* Registers x are as operations 1 to n of a list left them, up to m       *)
(* perhaps replaced.                                                       *)
Kept(list, x, n, m) ==
    \A k \in 1 .. n :
        Obeys(x, list[k]) \/ \E y \in k + 1 .. m : About(list[y]) = About(list[k])

(* As HasOps, for the LEDs c; no operation but a status works on a LED     *)
(* that is not fitted.                                                     *)
Has(list, c, l, n, m) ==
    IF l \in Fitted THEN Kept(list, c[l], n, m)
                    ELSE \A k \in 1 .. n : list[k].kind = "status"

(* The invariant's view of an LED implies the one of Reported.             *)
LEMMA HasIsHasOps == \A l : \A n, m \in Nat : Has(ops, mcu, l, n, m) => HasOps(l, n, m)
BY NothingSaid DEF Has, Kept, HasOps

(* The operation at which a LED is has been carried out.                   *)
LEMMA KeptDone ==
    ASSUME NEW list, NEW x, NEW n \in Nat \ {0}, Kept(list, x, n - 1, n), Obeys(x, list[n])
    PROVE  Kept(list, x, n, n)
BY DEF Kept

(* An LED at which all of the operations are done has done one less.       *)
LEMMA KeptLess ==
    ASSUME NEW list, NEW x, NEW n \in Nat \ {0}, Kept(list, x, n, n)
    PROVE  Kept(list, x, n - 1, n)
BY DEF Kept

(* With an operation done, the next is the one at hand.                    *)
LEMMA KeptLater ==
    ASSUME NEW list, NEW x, NEW n \in Nat, Kept(list, x, n, n)
    PROVE  Kept(list, x, n, n + 1)
BY DEF Kept

(* The command of the operation at hand, whatever became of it, keeps      *)
(* those before it.                                                        *)
LEMMA KeptCommand ==
    ASSUME NEW list \in Seq(Op), NEW x \in Led, NEW n \in 1 .. Len(list),
           list[n].kind # "status", \A k \in DOMAIN list : list[k].kind # "usage",
           Kept(list, x, n - 1, n)
    PROVE  Kept(list, Command(list[n], x), n, n)
<1> DEFINE y == Command(list[n], x)
<1>1. n \in Nat \ {0} /\ n \in DOMAIN list /\ list[n] \in Op /\ list[n].kind \notin {"status", "usage"}
  OBVIOUS
<1>2. Obeys(y, list[n])
  BY <1>1, CommandResult
<1>3. ASSUME NEW k \in 1 .. n - 1
      PROVE  Obeys(y, list[k]) \/ \E z \in k + 1 .. n : About(list[z]) = About(list[k])
  <2>1. list[k] \in Op /\ list[k].kind # "usage"
    OBVIOUS
  <2>2. CASE Obeys(x, list[k]) /\ About(list[k]) # About(list[n])
    BY <1>1, <2>1, <2>2, CommandKeeps
  <2>3. CASE About(list[k]) = About(list[n])
    BY <1>1, <2>3
  <2> QED
    BY <2>2, <2>3 DEF Kept
<1> HIDE DEF y
<1> QED
  BY <1>1, <1>2, <1>3 DEF Kept, y
-----------------------------------------------------------------------------
(* The MCU's registers are not touched before the first operation; while   *)
(* operations are applied, the LEDs before the one at hand have them all   *)
(* and that one has those before the one at hand, which may have been      *)
(* taken by the MCU already; what was accepted is there.                   *)
Place ==
    /\ \A k \in DOMAIN ops : ops[k].kind # "usage"
    /\ \A k \in 1 .. i - 1 :
         leds[k] = leds[i] \/ Has(ops, mcu, leds[k], Len(ops), Len(ops))
    /\ Has(ops, mcu, leds[i], j - 1, j)
    /\ \A l \in Fitted : mcu[l] = before[l] \/ \E k \in 1 .. i : leds[k] = l

Accepted ==
    pc = "ack" =>
        /\ ops[j].kind # "status"
        /\ ack => leds[i] \in Fitted /\ Obeys(mcu[leds[i]], ops[j])

Work ==
    /\ pc \in {"start", "names"} => mcu = before
    /\ pc \in {"write", "ack"} => Place
    /\ Accepted
    /\ Reported

(* The types of what the steps below read.                                 *)
LEMMA Typed ==
    ASSUME TypeOK
    PROVE  /\ ops \in Seq(Op) /\ Len(ops) \in Nat /\ DOMAIN ops = 1 .. Len(ops)
           /\ names \in Seq(Leds \cup {"all", "unknown"}) /\ Len(names) \in Nat
           /\ Len(leds) \in Nat /\ DOMAIN leds = 1 .. Len(leds)
BY InputAssumption DEF TypeOK

(* The LED an operation is at, after a step that changed it only by that   *)
(* operation.                                                              *)
Changed ==
    \/ mcu' = mcu
    \/ leds[i] \in Fitted /\ mcu' = Target

(* A command that took effect or not keeps the place of the tool.          *)
LEMMA PlaceKept ==
    ASSUME TypeOK, pc \in {"write", "ack"}, Place, ops[j].kind # "status",
           Changed, UNCHANGED <<ops, leds, i, j, before>>
    PROVE  Place' /\ mcu' \in [Fitted -> Led]
<1>1. /\ ops \in Seq(Op) /\ Len(ops) \in Nat /\ j \in 1 .. Len(ops)
      /\ i \in 1 .. Len(leds) /\ mcu \in [Fitted -> Led] /\ j \in DOMAIN ops
      /\ ops[j] \in Op /\ ops[j].kind \notin {"status", "usage"}
  BY Typed DEF TypeOK, Place
<1>2. CASE mcu' = mcu
  BY <1>1, <1>2 DEF Place
<1>3. CASE leds[i] \in Fitted /\ mcu' = Target
  <2>1. /\ mcu'[leds[i]] = Command(ops[j], mcu[leds[i]])
        /\ \A l \in Fitted \ {leds[i]} : mcu'[l] = mcu[l]
    BY <1>1, <1>3 DEF Target
  <2>2. mcu' \in [Fitted -> Led]
    <3>1. Command(ops[j], mcu[leds[i]]) \in Led
      BY <1>1, <1>3, CommandResult
    <3> QED
      BY <1>1, <1>3, <3>1 DEF Target
  <2>3. Has(ops, mcu', leds[i], j - 1, j)
    <3>1. Kept(ops, mcu[leds[i]], j - 1, j)
      BY <1>3 DEF Place, Has
    <3>2. Kept(ops, mcu'[leds[i]], j, j)
      BY <1>1, <1>3, <2>1, <3>1, KeptCommand DEF Place
    <3>3. Kept(ops, mcu'[leds[i]], j - 1, j)
      BY <1>1, <3>2, KeptLess
    <3> QED
      BY <1>3, <3>3 DEF Has
  <2>4. ASSUME NEW k \in 1 .. i - 1, leds[k] # leds[i]
        PROVE  Has(ops, mcu', leds[k], Len(ops), Len(ops))
    <3>1. Has(ops, mcu, leds[k], Len(ops), Len(ops))
      BY <2>4 DEF Place
    <3> QED
      BY <2>1, <2>4, <3>1 DEF Has
  <2>5. ASSUME NEW l \in Fitted
        PROVE  mcu'[l] = before[l] \/ \E k \in 1 .. i : leds[k] = l
    BY <1>1, <2>1 DEF Place
  <2> QED
    BY <2>2, <2>3, <2>4, <2>5 DEF Place
<1> QED
  BY <1>2, <1>3 DEF Changed

(* The tool tells the truth when it gives up at its place.                 *)
LEMMA PlaceReported ==
    ASSUME TypeOK, pc \in {"write", "ack"}, Place', UNCHANGED <<ops, leds, i, j>>, code' = -1
    PROVE  Reported'
<1>1. /\ Len(ops) \in Nat /\ i \in 1 .. Len(leds) /\ j - 1 \in Nat /\ j \in Nat
  BY Typed DEF TypeOK
<1>2. (\A l : \A n, m \in Nat : Has(ops, mcu, l, n, m) => HasOps(l, n, m))'
  BY HasIsHasOps, PTL
<1> QED
  BY <1>1, <1>2 DEF Place, Reported

(* An attempt that failed, whatever it did to the LED.                     *)
LEMMA Retried ==
    ASSUME TypeOK, Work, pc \in {"write", "ack"}, ops[j].kind # "status", Changed, Retry
    PROVE  Work'
<1>1. UNCHANGED <<ops, leds, i, j, before>> /\ Place
  BY DEF Retry, Exit, Goto, input, place, Work
<1>2. Place'
  BY <1>1, PlaceKept
<1>3. CASE pc' = "write"
  BY <1>2, <1>3 DEF Work, Accepted, Reported
<1>4. CASE pc' = "done" /\ code' = -1
  BY <1>1, <1>2, <1>4, PlaceReported DEF Work, Accepted
<1> QED
  BY <1>3, <1>4 DEF Retry, Goto, Exit

(* The operation at hand is done: the next place.                          *)
LEMMA Advanced ==
    ASSUME TypeOK, Work, pc \in {"write", "ack"}, Has(ops, mcu, leds[i], j, j),
           UNCHANGED mcu, Advance
    PROVE  Work'
<1>1. /\ Len(ops) \in Nat /\ i \in 1 .. Len(leds) /\ j \in 1 .. Len(ops)
      /\ DOMAIN leds = 1 .. Len(leds) /\ Len(leds) \in Nat
  BY Typed DEF TypeOK
<1>2. Place /\ UNCHANGED <<ops, leds, before>>
  BY DEF Work, Advance, Exit, Goto, input
<1>3. CASE j < Len(ops) /\ j' = j + 1 /\ i' = i /\ pc' = "write"
  <2>1. Has(ops, mcu, leds[i], j, j + 1)
    BY <1>1, KeptLater DEF Has
  <2>2. j' - 1 = j
    BY <1>1, <1>3
  <2>3. Place'
    BY <1>2, <1>3, <2>1, <2>2 DEF Place
  <2> QED
    BY <1>3, <2>3 DEF Work, Accepted, Reported
<1>4. ASSUME j >= Len(ops), NEW k \in 1 .. i
      PROVE  Has(ops, mcu, leds[k], Len(ops), Len(ops))
  BY <1>1, <1>2, <1>4 DEF Place
<1>5. CASE j >= Len(ops) /\ i < Len(leds) /\ i' = i + 1 /\ j' = 1 /\ pc' = "write"
  <2>1. Has(ops, mcu, leds[i'], 0, 1)
    BY DEF Has, Kept
  <2>2. j' - 1 = 0 /\ i' - 1 = i
    BY <1>1, <1>5
  <2>3. \A l \in Fitted : mcu[l] = before[l] \/ \E k \in 1 .. i' : leds[k] = l
    BY <1>1, <1>2, <1>5 DEF Place
  <2>4. Place'
    BY <1>2, <1>4, <1>5, <2>1, <2>2, <2>3 DEF Place
  <2> QED
    BY <1>5, <2>4 DEF Work, Accepted, Reported
<1>6. CASE j >= Len(ops) /\ i >= Len(leds) /\ pc' = "done" /\ code' = 0
  <2>1. i = Len(leds)
    <3>1. i \in Nat /\ i <= Len(leds) /\ Len(leds) \in Nat
      BY <1>1
    <3>2. i >= Len(leds)
      BY <1>6
    <3> QED
      BY <3>1, <3>2
  <2>2. \A k \in DOMAIN leds : HasOps(leds[k], Len(ops), Len(ops))
    BY <1>1, <1>4, <1>6, <2>1, HasIsHasOps
  <2>3. \A k \in DOMAIN leds' : HasOps(leds[k], Len(ops), Len(ops))'
    BY <1>2, <2>2 DEF HasOps, Obeys
  <2>4. Reported'
    BY <1>2, <1>6, <2>3 DEF Reported
  <2> QED
    BY <1>6, <2>4 DEF Work, Accepted
<1>7. j >= Len(ops) <=> ~(j < Len(ops))
  BY <1>1
<1>8. i >= Len(leds) <=> ~(i < Len(leds))
  BY <1>1
<1> QED
  BY <1>3, <1>5, <1>6, <1>7, <1>8 DEF Advance, Goto, Exit

-----------------------------------------------------------------------------
(* The types hold at the start.                                            *)
LEMMA InitType == Init => TypeOK
<1> SUFFICES ASSUME Init PROVE TypeOK
  OBVIOUS
<1>1. <<0, 0>> \in Byte \X Byte
  <2>1. 0 \in Byte
    BY DEF Byte
  <2> QED
    BY <2>1
<1>2. [mode : {"on"}, color : Values, brightness : Values,
       cycle : {<<0, 0>>}, lit : {<<0, 0>>}] \subseteq Led
  BY <1>1 DEF Led, Modes
<1>3. mcu \in [Fitted -> Led] /\ before \in [Fitted -> Led]
  BY <1>2 DEF Init
<1>4. <<>> \in Seq(Leds) /\ 0 \in 0 .. RetryCount - 1 /\ 0 \in 0 .. MaxFaults
  BY BoundAssumption
<1> QED
  BY <1>3, <1>4 DEF Init, TypeOK

(* The rest of TypeOK, for the steps that apply operations.                *)
LEMMA StepType ==
    ASSUME TypeOK, pc \in {"write", "ack"}, Advance \/ Retry \/ (Goto("ack") /\ UNCHANGED <<place, leds>>),
           mcu' \in [Fitted -> Led], ack' \in BOOLEAN, faults' \in 0 .. MaxFaults
    PROVE  TypeOK'
<1>1. /\ Len(ops) \in Nat /\ Len(leds) \in Nat /\ leds \in Seq(Leds)
      /\ i \in Nat \ {0} /\ j \in Nat \ {0} /\ i <= Len(leds) /\ j <= Len(ops)
      /\ tries \in 0 .. RetryCount - 1 /\ RetryCount \in Nat \ {0}
  BY Typed, BoundAssumption DEF TypeOK
<1>2. UNCHANGED <<names, ops, leds, before>>
  BY DEF Advance, Retry, Exit, Goto, input
<1>3. 0 \in 0 .. RetryCount - 1
  BY <1>1
<1>4. CASE pc' = "done" /\ code' \in {0, -1} /\ UNCHANGED <<i, j, tries>>
  BY <1>2, <1>4 DEF TypeOK
<1>5. CASE pc' \in {"write", "ack"} /\ code' = code /\ i' \in Nat \ {0} /\ j' \in Nat \ {0}
           /\ i' <= Len(leds) /\ j' <= Len(ops) /\ tries' \in 0 .. RetryCount - 1
  BY <1>2, <1>5 DEF TypeOK
<1>6. CASE Advance
  <2>1. CASE j < Len(ops)
    <3>1. pc' = "write" /\ code' = code /\ i' = i /\ j' = j + 1 /\ tries' = 0
      BY <1>6, <2>1 DEF Advance, Goto
    <3> QED
      BY <1>1, <1>3, <1>5, <2>1, <3>1
  <2>2. CASE ~(j < Len(ops)) /\ i < Len(leds)
    <3>1. pc' = "write" /\ code' = code /\ i' = i + 1 /\ j' = 1 /\ tries' = 0
      BY <1>6, <2>2 DEF Advance, Goto
    <3> QED
      BY <1>1, <1>3, <1>5, <2>2, <3>1
  <2>3. CASE ~(j < Len(ops)) /\ ~(i < Len(leds))
    BY <1>4, <1>6, <2>3 DEF Advance, Exit, place
  <2> QED
    BY <2>1, <2>2, <2>3
<1>7. CASE Retry
  <2>1. CASE tries + 1 < RetryCount
    <3>1. pc' = "write" /\ code' = code /\ i' = i /\ j' = j /\ tries' = tries + 1
      BY <1>7, <2>1 DEF Retry, Goto
    <3> QED
      BY <1>1, <1>5, <2>1, <3>1
  <2>2. CASE ~(tries + 1 < RetryCount)
    BY <1>4, <1>7, <2>2 DEF Retry, Exit, place
  <2> QED
    BY <2>1, <2>2
<1>8. CASE Goto("ack") /\ UNCHANGED <<place, leds>>
  BY <1>1, <1>5, <1>8 DEF Goto, place
<1> QED
  BY <1>6, <1>7, <1>8

(* Faults are spent within their bound.                                    *)
LEMMA Spent ==
    ASSUME TypeOK, faults < MaxFaults, faults' = faults + 1
    PROVE  faults' \in 0 .. MaxFaults
BY BoundAssumption DEF TypeOK

(* A list of LEDs that are not on the command line.                        *)
LEMMA Listed ==
    ASSUME NEW set \in SUBSET Fitted, NEW list \in Listings(set)
    PROVE  list \in Seq(Leds)
<1>1. IsFiniteSet(set)
  BY LedAssumption, FS_Subset
<1> DEFINE n == Cardinality(set)
<1>2. n \in Nat
  BY <1>1, FS_CardinalityType
<1>3. list \in [1 .. n -> set]
  BY DEF Listings
<1> HIDE DEF n
<1>4. list \in [1 .. n -> Leds]
  BY <1>3, LedAssumption
<1> QED
  BY <1>2, <1>4

(* Each action keeps the types and the invariant.                          *)
LEMMA StartStep == TypeOK /\ Work /\ Start => TypeOK' /\ Work'
<1> SUFFICES ASSUME TypeOK, Work, Start PROVE TypeOK' /\ Work'
  OBVIOUS
<1>1. /\ UNCHANGED <<names, ops, leds, place, mcu, ack, before>> /\ mcu = before
      /\ \/ pc' = "done" /\ code' = 0 /\ ops = <<>> /\ UNCHANGED faults
         \/ pc' = "names" /\ code' = code /\ UNCHANGED faults
         \/ pc' = "done" /\ code' = -1 /\ faults < MaxFaults /\ faults' = faults + 1
  BY DEF Start, Exit, Goto, input, Work
<1>2. TypeOK'
  BY <1>1, Spent DEF TypeOK, place
<1>3. Work'
  BY <1>1 DEF Work, Accepted, Reported
<1> QED
  BY <1>2, <1>3

LEMMA NameStep == TypeOK /\ Work /\ Name => TypeOK' /\ Work'
<1> SUFFICES ASSUME TypeOK, Work, Name PROVE TypeOK' /\ Work'
  OBVIOUS
<1>1. UNCHANGED <<names, ops, mcu, ack, before>> /\ mcu = before /\ pc = "names"
  BY DEF Name, Exit, Goto, input, Work
<1>2. CASE names[i] = "unknown"
  <2>1. pc' = "done" /\ code' = -1 /\ UNCHANGED <<leds, i, j, tries, faults>>
    BY <1>2 DEF Name, Exit, place
  <2> QED
    BY <1>1, <2>1 DEF TypeOK, Work, Accepted, Reported
<1>3. CASE names[i] # "unknown"
  <2>1. /\ pc' = "names" /\ code' = code /\ i' = i + 1 /\ UNCHANGED <<j, tries>>
        /\ \/ names[i] # "all" /\ leds' = Append(leds, names[i]) /\ UNCHANGED faults
           \/ \E missed \in SUBSET Fitted :
                /\ faults' = faults + RetryCount * Cardinality(missed)
                /\ faults' <= MaxFaults
                /\ \E list \in Listings(Fitted \ missed) : leds' = leds \o list
    BY <1>3 DEF Name, Goto
  <2>2. leds' \in Seq(Leds) /\ faults' \in 0 .. MaxFaults
    <3>1. leds \in Seq(Leds) /\ faults \in 0 .. MaxFaults
      BY DEF TypeOK
    <3>2. CASE names[i] # "all" /\ leds' = Append(leds, names[i]) /\ UNCHANGED faults
      <4>1. i \in 1 .. Len(names)
        BY Typed DEF Name, TypeOK
      <4>2. names[i] \in Leds
        BY <1>3, <3>2, <4>1, Typed
      <4> QED
        BY <3>1, <3>2, <4>2
    <3>3. ASSUME NEW missed \in SUBSET Fitted, NEW list \in Listings(Fitted \ missed),
                 faults' = faults + RetryCount * Cardinality(missed),
                 faults' <= MaxFaults, leds' = leds \o list
          PROVE  leds' \in Seq(Leds) /\ faults' \in 0 .. MaxFaults
      <4>1. list \in Seq(Leds)
        BY Listed
      <4>2. Cardinality(missed) \in Nat
        BY LedAssumption, FS_Subset, FS_CardinalityType
      <4>3. RetryCount * Cardinality(missed) \in Nat
        BY <4>2, BoundAssumption
      <4> QED
        BY <3>1, <3>3, <4>1, <4>3, BoundAssumption
    <3> QED
      BY <2>1, <3>2, <3>3
  <2>3. TypeOK'
    BY <1>1, <2>1, <2>2 DEF TypeOK
  <2>4. Work'
    BY <1>1, <2>1 DEF Work, Accepted, Reported
  <2> QED
    BY <2>3, <2>4
<1> QED
  BY <1>2, <1>3

LEMMA ParseStep == TypeOK /\ Work /\ ParseOps => TypeOK' /\ Work'
<1> SUFFICES ASSUME TypeOK, Work, ParseOps PROVE TypeOK' /\ Work'
  OBVIOUS
<1>1. /\ UNCHANGED <<names, ops, leds, mcu, ack, faults, before>> /\ mcu = before
      /\ pc = "names"
  BY DEF ParseOps, Exit, Goto, input, Work
<1>2. CASE \E k \in DOMAIN ops : ops[k].kind = "usage"
  <2>1. pc' = "done" /\ code' = -1 /\ UNCHANGED <<i, j, tries>>
    BY <1>2 DEF ParseOps, Exit, place
  <2> QED
    BY <1>1, <2>1 DEF TypeOK, Work, Accepted, Reported
<1>3. CASE (\A k \in DOMAIN ops : ops[k].kind # "usage") /\ (ops = <<>> \/ leds = <<>>)
  <2>1. pc' = "done" /\ code' = 0 /\ UNCHANGED <<i, j, tries>>
    BY <1>3 DEF ParseOps, Exit, place
  <2>2. ops # <<>> => DOMAIN leds = {}
    BY <1>3
  <2> QED
    BY <1>1, <2>1, <2>2 DEF TypeOK, Work, Accepted, Reported
<1>4. CASE (\A k \in DOMAIN ops : ops[k].kind # "usage") /\ ops # <<>> /\ leds # <<>>
  <2>1. pc' = "write" /\ code' = code /\ i' = 1 /\ j' = 1 /\ tries' = 0
    BY <1>4 DEF ParseOps, Goto
  <2>2. 1 <= Len(leds) /\ 1 <= Len(ops)
    <3>1. leds \in Seq(Leds) /\ ops \in Seq(Op)
      BY Typed DEF TypeOK
    <3> QED
      BY <1>4, <3>1, EmptySeq
  <2>3. 0 \in 0 .. RetryCount - 1
    BY BoundAssumption
  <2>4. TypeOK'
    BY <1>1, <2>1, <2>2, <2>3 DEF TypeOK
  <2>5. Place'
    <3>1. Has(ops, mcu, leds[1], 0, 1)
      BY DEF Has, Kept
    <3>2. j' - 1 = 0 /\ i' - 1 = 0
      BY <2>1
    <3> QED
      BY <1>1, <1>4, <2>1, <3>1, <3>2 DEF Place
  <2> QED
    BY <2>1, <2>4, <2>5 DEF Work, Accepted, Reported
<1> QED
  BY <1>2, <1>3, <1>4

LEMMA StatusStep == TypeOK /\ Work /\ ShowStatus => TypeOK' /\ Work'
<1> SUFFICES ASSUME TypeOK, Work, ShowStatus PROVE TypeOK' /\ Work'
  OBVIOUS
<1>1. TypeOK'
  BY StepType DEF ShowStatus, TypeOK
<1>2. /\ j \in Nat \ {0} /\ ops[j].kind = "status" /\ Place
  BY DEF TypeOK, ShowStatus, Work
<1>3. Has(ops, mcu, leds[i], j, j)
  <2>1. CASE leds[i] \in Fitted
    BY <1>2, <2>1, KeptDone, NothingSaid DEF Has, Place
  <2>2. CASE leds[i] \notin Fitted
    BY <1>2, <2>2 DEF Has, Place
  <2> QED
    BY <2>1, <2>2
<1>4. Work'
  BY <1>3, Advanced DEF ShowStatus
<1> QED
  BY <1>1, <1>4

LEMMA WriteStep == TypeOK /\ Work /\ WriteDone => TypeOK' /\ Work'
<1> SUFFICES ASSUME TypeOK, Work, WriteDone PROVE TypeOK' /\ Work'
  OBVIOUS
<1>1. /\ pc = "write" /\ pc' = "ack" /\ ops[j].kind # "status" /\ Place /\ Changed
      /\ UNCHANGED <<ops, leds, i, j, before>>
  BY DEF WriteDone, Goto, Work, Changed, input, place
<1>2. Place' /\ mcu' \in [Fitted -> Led]
  BY <1>1, PlaceKept
<1>3. ack' \in BOOLEAN /\ faults' \in 0 .. MaxFaults
  <2>1. \/ UNCHANGED faults
        \/ faults < MaxFaults /\ faults' = faults + 1
    BY DEF WriteDone
  <2> QED
    BY <2>1, Spent DEF WriteDone, TypeOK
<1>4. TypeOK'
  BY <1>1, <1>2, <1>3, StepType DEF WriteDone
<1>5. ack' => leds[i] \in Fitted /\ Obeys(mcu'[leds[i]], ops[j])
  <2>1. CASE leds[i] \in Fitted /\ mcu' = Target
    <3>1. /\ mcu'[leds[i]] = Command(ops[j], mcu[leds[i]]) /\ mcu[leds[i]] \in Led
      BY <2>1 DEF Target, TypeOK
    <3>2. ops[j] \in Op /\ ops[j].kind \notin {"status", "usage"}
      <4>1. j \in DOMAIN ops /\ ops \in Seq(Op)
        BY <1>1, Typed DEF TypeOK
      <4> QED
        BY <1>1, <4>1 DEF Place
    <3> QED
      BY <2>1, <3>1, <3>2, CommandResult
  <2>2. CASE ack' = FALSE
    BY <2>2
  <2> QED
    BY <2>1, <2>2 DEF WriteDone
<1>6. Work'
  BY <1>1, <1>2, <1>5 DEF Work, Accepted, Reported
<1> QED
  BY <1>4, <1>6

LEMMA FailStep == TypeOK /\ Work /\ WriteFails => TypeOK' /\ Work'
<1> SUFFICES ASSUME TypeOK, Work, WriteFails PROVE TypeOK' /\ Work'
  OBVIOUS
<1>1. /\ pc = "write" /\ ops[j].kind # "status" /\ Place /\ Changed /\ Retry
      /\ UNCHANGED <<ops, leds, i, j, before>>
  BY DEF WriteFails, Retry, Exit, Goto, Work, Changed, input, place
<1>2. mcu' \in [Fitted -> Led]
  BY <1>1, PlaceKept
<1>3. TypeOK'
  BY <1>1, <1>2, StepType, Spent DEF WriteFails
<1>4. Work'
  BY <1>1, Retried
<1> QED
  BY <1>3, <1>4

LEMMA AckStep == TypeOK /\ Work /\ ReadAck => TypeOK' /\ Work'
<1> SUFFICES ASSUME TypeOK, Work, ReadAck PROVE TypeOK' /\ Work'
  OBVIOUS
<1>1. /\ pc = "ack" /\ ops[j].kind # "status" /\ Place /\ UNCHANGED <<mcu, ack>>
      /\ j \in Nat \ {0} /\ mcu' \in [Fitted -> Led] /\ ack' \in BOOLEAN
  BY DEF ReadAck, Work, Accepted, TypeOK
<1>2. CASE ack /\ Advance /\ UNCHANGED faults
  <2>1. leds[i] \in Fitted /\ Obeys(mcu[leds[i]], ops[j])
    BY <1>1, <1>2 DEF Work, Accepted
  <2>2. Has(ops, mcu, leds[i], j, j)
    BY <1>1, <2>1, KeptDone DEF Has, Place
  <2>3. Work'
    BY <1>1, <1>2, <2>2, Advanced
  <2>4. TypeOK'
    <3>1. faults' \in 0 .. MaxFaults
      BY <1>2 DEF TypeOK
    <3> QED
      BY <1>1, <1>2, <3>1, StepType
  <2> QED
    BY <2>3, <2>4
<1>3. CASE Retry /\ (UNCHANGED faults \/ (faults < MaxFaults /\ faults' = faults + 1))
  <2>1. faults' \in 0 .. MaxFaults
    BY <1>3, Spent DEF TypeOK
  <2>2. TypeOK'
    BY <1>1, <1>3, <2>1, StepType
  <2>3. Work'
    BY <1>1, <1>3, Retried DEF Changed
  <2> QED
    BY <2>2, <2>3
<1> QED
  BY <1>2, <1>3 DEF ReadAck

LEMMA CliStep == TypeOK /\ Work /\ [Next]_vars => TypeOK' /\ Work'
<1> SUFFICES ASSUME TypeOK, Work, [Next]_vars PROVE TypeOK' /\ Work'
  OBVIOUS
<1>1. CASE UNCHANGED vars
  <2>1. UNCHANGED <<names, ops, pc, code, leds, i, j, tries, mcu, ack, faults, before>>
    BY <1>1 DEF vars, input, place
  <2>2. TypeOK'
    BY <2>1 DEF TypeOK
  <2>3. Place => Place'
    BY <2>1 DEF Place
  <2>4. Reported'
    BY <2>1 DEF Work, Reported, HasOps, Obeys
  <2> QED
    BY <2>1, <2>2, <2>3, <2>4 DEF Work, Accepted
<1> QED
  BY <1>1, StartStep, NameStep, ParseStep, StatusStep, WriteStep, FailStep, AckStep DEF Next

LEMMA InitWork == Init => Work
BY DEF Init, Work, Accepted, Reported

(* Every variable keeps its type: no operation makes registers of a LED    *)
(* that the MCU cannot have, and the place stays on the command line.      *)
THEOREM CliTyping == Spec => []TypeOK
BY InitType, InitWork, CliStep, PTL DEF Spec

(* What the exit code says of every LED is so, for any command line,       *)
(* number of attempts, and however reads and writes fail.                  *)
THEOREM ExitTruthful == Spec => []Reported
<1>1. Work => Reported
  BY DEF Work
<1> QED
  BY <1>1, InitType, InitWork, CliStep, PTL DEF Spec

-----------------------------------------------------------------------------
(* Every step of the tool goes forward: to the next argument, LED,         *)
(* operation or attempt, from a write to its acknowledgement, or to the    *)
(* end.  CliTyping bounds each of them, so the tool cannot retry forever.  *)
Forward ==
    [][ \/ pc = "start"
        \/ pc' = "done" /\ pc # "done"
        \/ pc = "names" /\ pc' = "names" /\ i <= Len(names) /\ i' = i + 1
        \/ pc = "names" /\ pc' = "write"
        \/ /\ pc \in {"write", "ack"} /\ pc' \in {"write", "ack"}
           /\ \/ i' = i + 1
              \/ i' = i /\ j' = j + 1
              \/ i' = i /\ j' = j /\ tries' = tries + 1
              \/ UNCHANGED place /\ pc = "write" /\ pc' = "ack" ]_vars

(* A command line is worked off step by step, whatever fails.              *)
THEOREM NoStepTwice == Spec => Forward
<1> DEFINE Onward ==
      \/ pc = "start"
      \/ pc' = "done" /\ pc # "done"
      \/ pc = "names" /\ pc' = "names" /\ i <= Len(names) /\ i' = i + 1
      \/ pc = "names" /\ pc' = "write"
      \/ /\ pc \in {"write", "ack"} /\ pc' \in {"write", "ack"}
         /\ \/ i' = i + 1
            \/ i' = i /\ j' = j + 1
            \/ i' = i /\ j' = j /\ tries' = tries + 1
            \/ UNCHANGED place /\ pc = "write" /\ pc' = "ack"
<1>1. [Next]_vars => [Onward]_vars
  <2> SUFFICES ASSUME Next PROVE Onward
    OBVIOUS
  <2>1. CASE Start
    BY <2>1 DEF Start
  <2>2. CASE Name \/ ParseOps
    BY <2>2 DEF Name, ParseOps, Exit, Goto
  <2>3. ASSUME pc \in {"write", "ack"}, Advance \/ Retry
        PROVE  Onward
    BY <2>3 DEF Advance, Retry, Exit, Goto
  <2>4. CASE ShowStatus \/ WriteFails \/ ReadAck
    BY <2>3, <2>4 DEF ShowStatus, WriteFails, ReadAck
  <2>5. CASE WriteDone
    BY <2>5 DEF WriteDone, Goto
  <2> QED
    BY <2>1, <2>2, <2>4, <2>5 DEF Next
<1> QED
  BY <1>1, PTL DEF Spec, Forward
=============================================================================

-------------------------- MODULE LedDriverProofs --------------------------
(***************************************************************************)
(* Theorems about LedDriver, for any number of LEDs, tasks, values and     *)
(* attempts: its types, the coherence of the known state with the MCU, and *)
(* that a setter without a command that was given up does what it is asked.*)
(***************************************************************************)
EXTENDS LedDriver, SequenceTheorems, TLAPS

Busy(t) == pc[t] \in {"check", "write", "status"}

(* One task is busy at a time: the holder of the mutex, or probe before    *)
(* any LED is registered.                                                  *)
Serial ==
    /\ \A t \in Tasks : Busy(t) => mutex = t
    /\ phase # "bound" => \A t \in Tasks : pc[t] = "idle"
    /\ pc[Probe] # "idle" => phase = "probing" /\ Busy(Probe)

(* A task that is not idle has a request for an LED that was read, and one *)
(* that runs a command has its setting.                                    *)
Engaged ==
    \A t \in Actors :
        /\ pc[t] # "idle" => req[t] # None /\ state[req[t].led] # Invalid
        /\ pc[t] # "idle" /\ t \in Tasks => req[t] \in Request
        /\ Sending(t) => todo[t] # <<>>

(* An acknowledgement of 1 answers the command that is running.            *)
AckAnswers ==
    \A t \in Actors :
        pc[t] = "status" /\ ack => mcu[req[t].led][Head(todo[t]).reg] = Head(todo[t]).val

IInv == TypeOK /\ Serial /\ Engaged /\ AckAnswers /\ StateCoherent

-----------------------------------------------------------------------------
(* What a command does to the registers of an LED.                         *)
LEMMA SettingApplied ==
    ASSUME NEW s \in LedState, NEW c \in Setting
    PROVE  LET s2 == [s EXCEPT ![c.reg] = c.val]
           IN  /\ s2 \in LedState
               /\ c.reg \in Regs
               /\ s2[c.reg] = c.val
               /\ \A r \in Regs : r # c.reg => s2[r] = s[r]
<1>1. CASE c \in [reg : {"mode"}, val : Modes]
  BY <1>1 DEF LedState, Regs
<1>2. CASE c \in [reg : {"brightness"}, val : Brights]
  BY <1>2 DEF LedState, Regs
<1>3. CASE c \in [reg : {"color"}, val : Colors]
  BY <1>3 DEF LedState, Regs
<1> QED
  BY <1>1, <1>2, <1>3 DEF Setting

LEMMA HeadSetting ==
    ASSUME NEW q \in Seq(Setting), q # <<>>
    PROVE  Head(q) \in Setting /\ Tail(q) \in Seq(Setting)
OBVIOUS

(* The setters look at settings.                                           *)
LEMMA SettingsType ==
    ASSUME NEW r \in Request
    PROVE  Settings(r) \in Seq(Setting)
<1>1. \A m \in Modes : TurnOnOrOff(m) \in Seq(Setting)
  BY DEF TurnOnOrOff, Setting
<1>2. "off" \in Modes /\ "on" \in Modes
  BY DEF Modes
<1>3. CASE r \in [led : Leds, op : {"brightness"}, val : Brights \cup {Zero}]
  <2>1. r.val # Zero => <<[reg |-> "brightness", val |-> r.val]>> \in Seq(Setting)
    BY <1>3 DEF Setting
  <2>2. SetBrightness(r.led, r.val) \in Seq(Setting)
    BY <1>1, <1>2, <2>1 DEF SetBrightness
  <2> QED
    BY <1>3, <2>2 DEF Settings
<1>4. CASE r \in [led : Leds, op : {"color"}, val : Colors]
  <2>1. <<[reg |-> "color", val |-> r.val]>> \in Seq(Setting)
    BY <1>4 DEF Setting
  <2>2. SetColor(r.val) \in Seq(Setting)
    BY <1>1, <1>2, <2>1 DEF SetColor
  <2> QED
    BY <1>4, <2>2 DEF Settings
<1>5. CASE r \in [led : Leds, op : {"blink"}, val : Blinks]
  <2>1. r.val \in Modes
    BY <1>5 DEF Modes
  <2>2. SetBlinkOrBreath(r.val) \in Seq(Setting)
    BY <2>1 DEF SetBlinkOrBreath, Setting
  <2> QED
    BY <1>5, <2>2 DEF Settings
<1>6. CASE r \in [led : Leds, op : {"none"}, val : {"on"}]
  BY <1>1, <1>2, <1>6 DEF Settings
<1> QED
  BY <1>3, <1>4, <1>5, <1>6 DEF Request

(* The LED, the register and the value of a task that looks at a setting.  *)
LEMMA TargetFacts ==
    ASSUME TypeOK, Engaged, NEW t \in Actors, pc[t] # "idle", todo[t] # <<>>
    PROVE  /\ req[t].led \in Leds
           /\ state[req[t].led] \in LedState
           /\ Head(todo[t]) \in Setting
           /\ Tail(todo[t]) \in Seq(Setting)
           /\ Head(todo[t]).reg \in Regs
<1>1. req[t] \in Request \cup ProbeRequest
  BY DEF TypeOK, Engaged
<1>2. req[t].led \in Leds
  BY <1>1 DEF Request, ProbeRequest
<1>3. todo[t] \in Seq(Setting)
  BY DEF TypeOK
<1>4. Head(todo[t]) \in Setting /\ Tail(todo[t]) \in Seq(Setting)
  BY <1>3, HeadSetting
<1>5. Head(todo[t]).reg \in Regs
  BY <1>4 DEF Setting, Regs
<1> QED
  BY <1>2, <1>4, <1>5 DEF TypeOK, Engaged

(* What Changed does to the registers of the MCU or to the known state.    *)
LEMMA ChangedFacts ==
    ASSUME TypeOK, Engaged, NEW t \in Actors, pc[t] # "idle", todo[t] # <<>>,
           NEW S, S \in {LedState, LedState \cup {Invalid}},
           NEW f \in [Leds -> S], f[req[t].led] \in LedState
    PROVE  /\ Changed(f, t) \in [Leds -> S]
           /\ Changed(f, t)[req[t].led] \in LedState
           /\ Changed(f, t)[req[t].led][Head(todo[t]).reg] = Head(todo[t]).val
           /\ \A r \in Regs : r # Head(todo[t]).reg =>
                 Changed(f, t)[req[t].led][r] = f[req[t].led][r]
           /\ \A l \in Leds : l # req[t].led => Changed(f, t)[l] = f[l]
<1> DEFINE l == req[t].led
           c == Head(todo[t])
           s == [f[l] EXCEPT ![c.reg] = c.val]
<1>1. l \in Leds /\ c \in Setting
  BY TargetFacts
<1>2. /\ s \in LedState
      /\ s[c.reg] = c.val
      /\ \A r \in Regs : r # c.reg => s[r] = f[l][r]
  BY <1>1, SettingApplied
<1>3. Changed(f, t) = [f EXCEPT ![l] = s]
  BY DEF Changed
<1> HIDE DEF l, c, s
<1>4. /\ [f EXCEPT ![l] = s] \in [Leds -> S]
      /\ [f EXCEPT ![l] = s][l] = s
      /\ \A k \in Leds : k # l => [f EXCEPT ![l] = s][k] = f[k]
  BY <1>1, <1>2
<1> QED
  BY <1>2, <1>3, <1>4 DEF l, c, s

-----------------------------------------------------------------------------
LEMMA InitIInv == Init => IInv
<1> SUFFICES ASSUME Init PROVE IInv
  OBVIOUS
<1>1. TypeOK
  <2>1. <<>> \in Seq(Setting) /\ 0 \in 0 .. RetryCount - 1
    BY RetryAssumption
  <2>2. todo \in [Actors -> Seq(Setting)] /\ attempt \in [Actors -> 0 .. RetryCount - 1]
    BY <2>1 DEF Init
  <2> QED
    BY <2>2 DEF Init, TypeOK
<1>2. Probe \in Actors /\ Tasks \subseteq Actors
  BY DEF Actors
<1> QED
  BY <1>1, <1>2
  DEF Init, IInv, Serial, Busy, Engaged, Sending, AckAnswers, StateCoherent

LEMMA StepType == IInv /\ [Next]_vars => TypeOK'
<1> SUFFICES ASSUME IInv, [Next]_vars PROVE TypeOK'
  OBVIOUS
<1> USE RetryAssumption DEF IInv
<1>0. Probe \in Actors /\ Tasks \subseteq Actors
  BY DEF Actors
<1>1. ASSUME NEW t \in Tasks, NEW r \in Request, Call(t, r)
      PROVE  TypeOK'
  BY <1>0, <1>1 DEF Call, TypeOK, device, binding
<1>2. ASSUME NEW t \in Tasks, Lock(t)
      PROVE  TypeOK'
  <2>1. req[t] \in Request
    BY <1>0, <1>2 DEF Lock, Engaged
  <2>2. Settings(req[t]) \in Seq(Setting)
    BY <2>1, SettingsType
  <2> QED
    BY <1>0, <1>2, <2>2 DEF Lock, TypeOK, device, binding
<1>3. ASSUME NEW t \in Tasks, Unlock(t)
      PROVE  TypeOK'
  BY <1>0, <1>3 DEF Unlock, TypeOK, device, binding
<1>4. ASSUME NEW t \in Actors, Setter(t)
      PROVE  TypeOK'
  <2>1. CASE Skip(t)
    BY <2>1, TargetFacts DEF Skip, TypeOK, device, binding
  <2>2. CASE Send(t)
    BY <2>2 DEF Send, TypeOK, device, binding
  <2> SUFFICES ASSUME Sending(t),
                      WriteFails(t) \/ WriteDone(t) \/ StatusAccepted(t)
                      \/ StatusRefused(t)
               PROVE  TypeOK'
    BY <1>4, <2>1, <2>2
    DEF Setter, Sending, WriteFails, WriteDone, StatusAccepted, StatusRefused
  <2>3. pc[t] # "idle" /\ todo[t] # <<>>
    BY DEF Sending, Engaged
  <2>4. /\ Changed(mcu, t) \in [Leds -> LedState]
        /\ Changed(state, t) \in [Leds -> LedState \cup {Invalid}]
        /\ Target(t) \in Leds \X Regs
        /\ Tail(todo[t]) \in Seq(Setting)
    BY <2>3, TargetFacts, ChangedFacts DEF TypeOK, Target
  <2>5. ASSUME AttemptFails(t)
        PROVE  /\ pc' \in [Actors -> {"idle", "lock", "check", "write", "status"}]
               /\ todo' \in [Actors -> Seq(Setting)]
               /\ attempt' \in [Actors -> 0 .. RetryCount - 1]
               /\ lost' \subseteq Leds \X Regs
    <3>1. CASE Retry(t)
      BY <3>1 DEF Retry, TypeOK
    <3>2. CASE GiveUp(t)
      BY <2>4, <3>2 DEF GiveUp, TypeOK
    <3> QED
      BY <2>5, <3>1, <3>2 DEF AttemptFails
  <2>6. CASE WriteFails(t)
    BY <2>4, <2>5, <2>6 DEF WriteFails, TypeOK, device, binding
  <2>7. CASE WriteDone(t)
    BY <2>4, <2>7 DEF WriteDone, TypeOK, device, binding
  <2>8. CASE StatusAccepted(t)
    BY <2>4, <2>8 DEF StatusAccepted, TypeOK, device, binding
  <2>9. CASE StatusRefused(t)
    BY <2>5, <2>9 DEF StatusRefused, TypeOK, device, binding
  <2> QED
    BY <2>6, <2>7, <2>8, <2>9
<1>5. ASSUME NEW l \in Leds, ProbeLed(l)
      PROVE  TypeOK'
  <2> DEFINE on == IF mcu[l].mode = "off" THEN TurnOnOrOff("on") ELSE <<>>
  <2>1. <<[reg |-> "brightness", val |-> Half]>> \in Seq(Setting)
    BY ValueAssumption DEF Setting
  <2>2. on \in Seq(Setting)
    <3>1. TurnOnOrOff("on") \in Seq(Setting)
      BY DEF TurnOnOrOff, Setting, Modes
    <3>2. <<>> \in Seq(Setting)
      OBVIOUS
    <3> QED
      BY <3>1, <3>2
  <2>3. SetColor(White) \in Seq(Setting)
    BY ValueAssumption DEF SetColor, Setting
  <2>4. <<[reg |-> "brightness", val |-> Half]>> \o on \o SetColor(White) \in Seq(Setting)
    <3> HIDE DEF on
    <3> QED
      BY <2>1, <2>2, <2>3
  <2>5. [led |-> l, op |-> "probe", val |-> Half] \in ProbeRequest
    BY DEF ProbeRequest
  <2> QED
    BY <1>0, <1>5, <2>4, <2>5 DEF ProbeLed, TypeOK, device, binding
<1>6. ASSUME NEW l \in Leds, ProbeFails(l)
      PROVE  TypeOK'
  BY <1>6 DEF ProbeFails, TypeOK, device
<1>7. CASE ProbeStarts \/ ProbeEnds \/ Remove
  BY <1>7 DEF ProbeStarts, ProbeEnds, Remove, TypeOK, device
<1>8. CASE ProbedLed
  BY <1>0, <1>8 DEF ProbedLed, TypeOK, device, binding
<1>9. CASE UNCHANGED vars
  BY <1>9 DEF vars, TypeOK, device, binding
<1> QED
  BY <1>0, <1>1, <1>2, <1>3, <1>4, <1>5, <1>6, <1>7, <1>8, <1>9 DEF Next, Binding

-----------------------------------------------------------------------------
(* At most one task is past the mutex.                                     *)
LEMMA Alone ==
    ASSUME TypeOK, Serial, NEW t \in Actors, NEW u \in Actors, Busy(t), Busy(u)
    PROVE  t = u
BY TaskAssumption DEF Serial, Busy, Actors

(* A setter moves the task that runs it and no other.                      *)
LEMMA SetterFrame ==
    ASSUME TypeOK, NEW t \in Actors, Setter(t)
    PROVE  /\ Busy(t) /\ Busy(t)'
           /\ \A u \in Actors \ {t} : pc'[u] = pc[u] /\ todo'[u] = todo[u]
           /\ UNCHANGED <<binding, mutex, req>>
<1>1. CASE Skip(t) \/ Send(t)
  BY <1>1 DEF Skip, Send, Busy, TypeOK
<1>2. ASSUME AttemptFails(t)
      PROVE  /\ pc'[t] \in {"check", "write"}
             /\ \A u \in Actors \ {t} : pc'[u] = pc[u] /\ todo'[u] = todo[u]
  <2>1. CASE Retry(t)
    BY <2>1 DEF Retry, TypeOK
  <2>2. CASE GiveUp(t)
    BY <2>2 DEF GiveUp, TypeOK
  <2> QED
    BY <1>2, <2>1, <2>2 DEF AttemptFails
<1>3. CASE WriteFails(t)
  BY <1>2, <1>3 DEF WriteFails, Busy
<1>4. CASE StatusRefused(t)
  BY <1>2, <1>4 DEF StatusRefused, Busy
<1>5. CASE WriteDone(t) \/ StatusAccepted(t)
  BY <1>5 DEF WriteDone, StatusAccepted, Busy, TypeOK
<1> QED
  BY <1>1, <1>3, <1>4, <1>5 DEF Setter

LEMMA StepSerial == IInv /\ [Next]_vars => Serial'
<1> SUFFICES ASSUME IInv, [Next]_vars PROVE Serial'
  OBVIOUS
<1> USE TaskAssumption DEF IInv
<1>0. Probe \in Actors /\ Tasks \subseteq Actors
  BY DEF Actors
<1>1. ASSUME NEW t \in Tasks, NEW r \in Request, Call(t, r)
      PROVE  Serial'
  BY <1>0, <1>1 DEF Call, TypeOK, binding, Serial, Busy
<1>2. ASSUME NEW t \in Tasks, Lock(t)
      PROVE  Serial'
  BY <1>0, <1>2 DEF Lock, TypeOK, binding, Serial, Busy
<1>3. ASSUME NEW t \in Tasks, Unlock(t)
      PROVE  Serial'
  BY <1>0, <1>3 DEF Unlock, TypeOK, binding, Serial, Busy
<1>4. ASSUME NEW t \in Actors, Setter(t)
      PROVE  Serial'
  <2>1. /\ Busy(t) /\ Busy(t)'
        /\ \A u \in Actors \ {t} : pc'[u] = pc[u]
        /\ UNCHANGED <<phase, mutex>>
    BY <1>4, SetterFrame DEF binding
  <2> QED
    BY <1>0, <2>1 DEF Serial, Busy
<1>5. ASSUME NEW l \in Leds, ProbeLed(l) \/ ProbeFails(l)
      PROVE  Serial'
  BY <1>0, <1>5 DEF ProbeLed, ProbeFails, TypeOK, Serial, Busy
<1>6. CASE ProbeStarts \/ ProbeEnds \/ ProbedLed \/ Remove
  BY <1>0, <1>6
  DEF ProbeStarts, ProbeEnds, ProbedLed, Remove, TypeOK, binding, Serial, Busy
<1>7. CASE UNCHANGED vars
  BY <1>7 DEF vars, binding, Serial, Busy
<1> QED
  BY <1>0, <1>1, <1>2, <1>3, <1>4, <1>5, <1>6, <1>7 DEF Next, Binding

LEMMA StepEngaged == IInv /\ [Next]_vars => Engaged'
<1> SUFFICES ASSUME IInv, [Next]_vars PROVE Engaged'
  OBVIOUS
<1> USE TaskAssumption, NoneAssumption DEF IInv
<1>0. Probe \in Actors /\ Tasks \subseteq Actors
  BY DEF Actors
<1>1. ASSUME NEW t \in Tasks, NEW r \in Request, Call(t, r)
      PROVE  Engaged'
  BY <1>0, <1>1 DEF Call, TypeOK, Engaged, Sending
<1>2. ASSUME NEW t \in Tasks, Lock(t) \/ Unlock(t)
      PROVE  Engaged'
  BY <1>0, <1>2 DEF Lock, Unlock, TypeOK, Engaged, Sending
<1>3. ASSUME NEW t \in Actors, Setter(t)
      PROVE  Engaged'
  <2>1. /\ pc[t] # "idle"
        /\ \A u \in Actors \ {t} : pc'[u] = pc[u] /\ todo'[u] = todo[u]
        /\ req' = req
    BY <1>3, SetterFrame DEF Busy
  <2>2. Sending(t)' => todo'[t] # <<>>
    <3>1. CASE Skip(t) \/ Send(t) \/ WriteDone(t) \/ StatusAccepted(t)
      BY <3>1 DEF Skip, Send, WriteDone, StatusAccepted, Sending, TypeOK, Engaged
    <3>2. CASE WriteFails(t) \/ StatusRefused(t)
      <4>1. todo[t] # <<>> /\ AttemptFails(t)
        BY <3>2 DEF WriteFails, StatusRefused, Engaged, Sending
      <4> QED
        BY <4>1 DEF AttemptFails, Retry, GiveUp, Sending, TypeOK
    <3> QED
      BY <1>3, <3>1, <3>2 DEF Setter
  <2>3. \A l \in Leds : state[l] # Invalid => state'[l] # Invalid
    <3>1. CASE StatusAccepted(t)
      <4>1. todo[t] # <<>>
        BY <3>1 DEF StatusAccepted, Engaged, Sending
      <4>2. state[req[t].led] \in LedState
        BY <2>1, <4>1, TargetFacts
      <4>3. state \in [Leds -> LedState \cup {Invalid}]
        BY DEF TypeOK
      <4>4. /\ Changed(state, t)[req[t].led] \in LedState
            /\ \A l \in Leds : l # req[t].led => Changed(state, t)[l] = state[l]
        BY <2>1, <4>1, <4>2, <4>3, ChangedFacts
      <4> QED
        BY <3>1, <4>4 DEF StatusAccepted
    <3>2. CASE ~StatusAccepted(t)
      BY <1>3, <3>2
      DEF Setter, Skip, Send, WriteFails, WriteDone, StatusRefused
    <3> QED
      BY <3>1, <3>2
  <2>4. \A u \in Actors : pc[u] # "idle" => req[u].led \in Leds
    BY DEF TypeOK, Engaged, Request, ProbeRequest
  <2> QED
    BY <2>1, <2>2, <2>3, <2>4 DEF Engaged, Sending
<1>4. ASSUME NEW l \in Leds, ProbeLed(l)
      PROVE  Engaged'
  <2>1. /\ \A u \in Tasks : pc'[u] = "idle"
        /\ pc'[Probe] = "check"
        /\ req'[Probe] = [led |-> l, op |-> "probe", val |-> Half]
        /\ state'[l] = mcu[l]
    BY <1>0, <1>4 DEF ProbeLed, Serial, TypeOK
  <2>2. mcu[l] # Invalid /\ req'[Probe] # None
    BY <2>1 DEF TypeOK, ProbeRequest
  <2> QED
    BY <2>1, <2>2 DEF Engaged, Sending, Actors
<1>5. ASSUME NEW l \in Leds, ProbeFails(l)
      PROVE  Engaged'
  BY <1>5 DEF ProbeFails, Engaged, Sending
<1>6. CASE ProbeStarts \/ ProbeEnds
  BY <1>6 DEF ProbeStarts, ProbeEnds, Engaged, Sending
<1>7. CASE ProbedLed
  BY <1>0, <1>7 DEF ProbedLed, TypeOK, Engaged, Sending
<1>8. CASE Remove
  BY <1>8 DEF Remove, Serial, Engaged, Sending, Actors
<1>9. CASE UNCHANGED vars
  BY <1>9 DEF vars, Engaged, Sending
<1> QED
  BY <1>0, <1>1, <1>2, <1>3, <1>4, <1>5, <1>6, <1>7, <1>8, <1>9 DEF Next, Binding

-----------------------------------------------------------------------------
(* The command of a task that writes leaves all but its target as it was,  *)
(* whether the MCU takes it or not.                                        *)
LEMMA WriteFacts ==
    ASSUME IInv, NEW t \in Actors, Sending(t), mcu' \in {mcu, Changed(mcu, t)}
    PROVE  \A l \in Leds, r \in Regs :
              <<l, r>> # Target(t) => mcu'[l][r] = mcu[l][r]
<1>1. pc[t] # "idle" /\ todo[t] # <<>>
  BY DEF IInv, Sending, Engaged
<1>2. mcu \in [Leds -> LedState] /\ mcu[req[t].led] \in LedState
  BY <1>1, TargetFacts DEF IInv, TypeOK
<1>3. /\ \A r \in Regs : r # Head(todo[t]).reg =>
            Changed(mcu, t)[req[t].led][r] = mcu[req[t].led][r]
      /\ \A l \in Leds : l # req[t].led => Changed(mcu, t)[l] = mcu[l]
  BY <1>1, <1>2, ChangedFacts DEF IInv
<1> SUFFICES ASSUME NEW l \in Leds, NEW r \in Regs, <<l, r>> # Target(t)
             PROVE  mcu'[l][r] = mcu[l][r]
  OBVIOUS
<1>4. l = req[t].led => r # Head(todo[t]).reg
  BY DEF Target
<1>5. Changed(mcu, t)[l][r] = mcu[l][r]
  BY <1>3, <1>4
<1> QED
  BY <1>5

(* Coherence outlasts a step that disturbs no command and no register.     *)
LEMMA CoherentFrame ==
    ASSUME StateCoherent, UNCHANGED <<mcu, state, lost>>,
           \A u \in Actors : Sending(u) =>
               pc'[u] = pc[u] /\ req'[u] = req[u] /\ todo'[u] = todo[u]
    PROVE  StateCoherent'
<1>1. \A u \in Actors : Sending(u) => Sending(u)' /\ Target(u)' = Target(u)
  BY DEF Sending, Target
<1> QED
  BY <1>1 DEF StateCoherent

LEMMA StepAck == IInv /\ [Next]_vars => AckAnswers'
<1> SUFFICES ASSUME IInv, [Next]_vars PROVE AckAnswers'
  OBVIOUS
<1> USE TaskAssumption DEF IInv
<1>0. Probe \in Actors /\ Tasks \subseteq Actors
  BY DEF Actors
<1>1. ASSUME NEW t \in Tasks, NEW r \in Request, Call(t, r)
      PROVE  AckAnswers'
  BY <1>0, <1>1 DEF Call, TypeOK, AckAnswers, device
<1>2. ASSUME NEW t \in Tasks, Lock(t) \/ Unlock(t)
      PROVE  AckAnswers'
  BY <1>0, <1>2 DEF Lock, Unlock, TypeOK, AckAnswers, device
<1>3. ASSUME NEW t \in Actors, Setter(t)
      PROVE  AckAnswers'
  <2>1. Busy(t) /\ Busy(t)' /\ req' = req
    BY <1>3, SetterFrame
  <2>2. \A u \in Actors \ {t} : pc'[u] # "status"
    BY <1>3, <2>1, SetterFrame, Alone DEF Busy
  <2>3. CASE WriteDone(t)
    <3>1. pc[t] # "idle" /\ todo[t] # <<>>
      BY <2>3 DEF WriteDone, Engaged, Sending
    <3>2. Changed(mcu, t)[req[t].led][Head(todo[t]).reg] = Head(todo[t]).val
      <4>1. mcu \in [Leds -> LedState] /\ mcu[req[t].led] \in LedState
        BY <3>1, TargetFacts DEF TypeOK
      <4> QED
        BY <3>1, <4>1, ChangedFacts
    <3> QED
      BY <2>1, <2>2, <2>3, <3>2 DEF WriteDone, AckAnswers
  <2>4. CASE ~WriteDone(t)
    <3>1. pc'[t] # "status"
      BY <1>3, <2>4
      DEF Setter, Skip, Send, WriteFails, StatusAccepted, StatusRefused,
          AttemptFails, Retry, GiveUp, TypeOK
    <3> QED
      BY <2>2, <3>1 DEF AckAnswers
  <2> QED
    BY <2>3, <2>4
<1>4. ASSUME NEW l \in Leds, ProbeLed(l) \/ ProbeFails(l)
      PROVE  AckAnswers'
  BY <1>0, <1>4 DEF ProbeLed, ProbeFails, TypeOK, AckAnswers, Serial, Actors, device
<1>5. CASE ProbeStarts \/ ProbeEnds
  BY <1>5 DEF ProbeStarts, ProbeEnds, AckAnswers, device
<1>6. CASE ProbedLed
  BY <1>0, <1>6 DEF ProbedLed, TypeOK, AckAnswers, device
<1>7. CASE Remove
  BY <1>7 DEF Remove, Serial, AckAnswers, Actors
<1>8. CASE UNCHANGED vars
  BY <1>8 DEF vars, AckAnswers, device
<1> QED
  BY <1>0, <1>1, <1>2, <1>3, <1>4, <1>5, <1>6, <1>7, <1>8 DEF Next, Binding

LEMMA StepCoherent == IInv /\ [Next]_vars => StateCoherent'
<1> SUFFICES ASSUME IInv, [Next]_vars PROVE StateCoherent'
  OBVIOUS
<1> USE TaskAssumption DEF IInv
<1>0. Probe \in Actors /\ Tasks \subseteq Actors
  BY DEF Actors
<1>1. ASSUME NEW t \in Tasks, NEW r \in Request, Call(t, r)
      PROVE  StateCoherent'
  BY <1>0, <1>1, CoherentFrame DEF Call, TypeOK, Sending, device
<1>2. ASSUME NEW t \in Tasks, Lock(t) \/ Unlock(t)
      PROVE  StateCoherent'
  BY <1>0, <1>2, CoherentFrame DEF Lock, Unlock, TypeOK, Sending, device
<1>3. ASSUME NEW t \in Actors, Setter(t)
      PROVE  StateCoherent'
  <2>1. Busy(t) /\ Busy(t)' /\ req' = req
    BY <1>3, SetterFrame
  <2>2. \A u \in Actors : Sending(u) => u = t
    BY <2>1, Alone DEF Sending, Busy
  <2>3. CASE Skip(t) \/ Send(t)
    <3>1. ~Sending(t) /\ UNCHANGED <<device, state, lost>>
      BY <2>3 DEF Skip, Send, Sending
    <3> QED
      BY <2>2, <3>1 DEF StateCoherent, device
  <2>4. CASE WriteFails(t) \/ WriteDone(t) \/ StatusRefused(t)
    <3>1. Sending(t) /\ mcu' \in {mcu, Changed(mcu, t)} /\ state' = state
      BY <2>4 DEF WriteFails, WriteDone, StatusRefused, Sending, device
    <3>2. \A l \in Leds, r \in Regs :
             <<l, r>> # Target(t) => mcu'[l][r] = mcu[l][r]
      BY <3>1, WriteFacts
    <3>3. /\ lost \subseteq lost'
          /\ \/ Target(t) \in lost'
             \/ Sending(t)' /\ Target(t)' = Target(t)
      BY <2>1, <2>4
      DEF WriteFails, WriteDone, StatusRefused, AttemptFails, Retry, GiveUp,
          Sending, Target, TypeOK
    <3> QED
      BY <2>2, <3>1, <3>2, <3>3 DEF StateCoherent
  <2>5. CASE StatusAccepted(t)
    <3>1. pc[t] # "idle" /\ todo[t] # <<>>
      BY <2>5 DEF StatusAccepted, Engaged, Sending
    <3>2. /\ state[req[t].led] \in LedState
          /\ state \in [Leds -> LedState \cup {Invalid}]
          /\ state' = Changed(state, t)
          /\ mcu' = mcu
          /\ lost' = lost \ {Target(t)}
      BY <2>5, <3>1, TargetFacts DEF StatusAccepted, TypeOK, device
    <3>3. /\ Changed(state, t)[req[t].led][Head(todo[t]).reg] = Head(todo[t]).val
          /\ \A r \in Regs : r # Head(todo[t]).reg =>
                Changed(state, t)[req[t].led][r] = state[req[t].led][r]
          /\ \A l \in Leds : l # req[t].led => Changed(state, t)[l] = state[l]
      BY <3>1, <3>2, ChangedFacts
    <3>4. mcu[req[t].led][Head(todo[t]).reg] = Head(todo[t]).val
      BY <2>5 DEF StatusAccepted, AckAnswers
    <3>5. state[req[t].led] # Invalid
      BY <3>1 DEF Engaged
    <3> SUFFICES ASSUME NEW l \in Leds, NEW r \in Regs
                 PROVE  \/ state'[l] = Invalid
                        \/ state'[l][r] = mcu'[l][r]
                        \/ <<l, r>> \in lost'
      BY DEF StateCoherent
    <3>6. CASE <<l, r>> = Target(t)
      BY <3>2, <3>3, <3>4, <3>6 DEF Target
    <3>7. CASE <<l, r>> # Target(t)
      <4>1. state[l] = Invalid \/ state[l][r] = mcu[l][r] \/ <<l, r>> \in lost
        BY <2>2, <3>7 DEF StateCoherent
      <4>2. CASE l = req[t].led
        BY <3>2, <3>3, <3>5, <3>7, <4>1, <4>2 DEF Target
      <4>3. CASE l # req[t].led
        BY <3>2, <3>3, <3>7, <4>1, <4>3
      <4> QED
        BY <4>2, <4>3
    <3> QED
      BY <3>6, <3>7
  <2> QED
    BY <1>3, <2>3, <2>4, <2>5 DEF Setter
<1>4. ASSUME NEW l \in Leds, ProbeLed(l)
      PROVE  StateCoherent'
  <2>1. \A u \in Actors : ~Sending(u)
    BY <1>4 DEF ProbeLed, Serial, Sending, Actors
  <2> QED
    BY <1>4, <2>1 DEF ProbeLed, TypeOK, StateCoherent, device
<1>5. ASSUME NEW l \in Leds, ProbeFails(l)
      PROVE  StateCoherent'
  BY <1>5, CoherentFrame DEF ProbeFails, device
<1>6. CASE ProbeStarts \/ ProbeEnds
  BY <1>6, CoherentFrame DEF ProbeStarts, ProbeEnds, device
<1>7. CASE ProbedLed
  BY <1>0, <1>7, CoherentFrame DEF ProbedLed, TypeOK, Sending, device
<1>8. CASE Remove
  BY <1>8 DEF Remove, StateCoherent
<1>9. CASE UNCHANGED vars
  BY <1>9, CoherentFrame DEF vars, device
<1> QED
  BY <1>0, <1>1, <1>2, <1>3, <1>4, <1>5, <1>6, <1>7, <1>8, <1>9 DEF Next, Binding

LEMMA Invariance == Spec => []IInv
BY InitIInv, StepType, StepSerial, StepEngaged, StepAck, StepCoherent, PTL
DEF Spec, IInv

(* Every variable keeps its type, and the attempts stay below their limit. *)
THEOREM Typing == Spec => []TypeOK
BY Invariance, PTL DEF IInv

(* What led-ugreen.c knows of a register is what the MCU has, for any      *)
(* number of tasks, unless the register's last command was given up: the   *)
(* setters leave out no command that was needed.                           *)
THEOREM Coherence == Spec => []StateCoherent
BY Invariance, PTL DEF IInv

-----------------------------------------------------------------------------
(* What remains to be done leads to what is wanted: each setting asks for  *)
(* a wanted value, and a register that has none has a setting.             *)
Right(q, r) == \A i \in 1 .. Len(q) : q[i].val \in Wanted(r)[q[i].reg]
Owes(q, reg) == \E i \in 1 .. Len(q) : q[i].reg = reg

Plans(q, s, r) ==
    /\ Right(q, r)
    /\ \A reg \in Regs : s[reg] \in Wanted(r)[reg] \/ Owes(q, reg)

Owed ==
    \A t \in Actors : Busy(t) =>
        /\ Right(todo[t], req[t])
        /\ \A reg \in Regs :
              \/ <<req[t].led, reg>> \in lost
              \/ state[req[t].led][reg] \in Wanted(req[t])[reg]
              \/ Owes(todo[t], reg)

LEMMA PlanTail ==
    ASSUME NEW q \in Seq(Setting), q # <<>>, NEW r, Right(q, r)
    PROVE  /\ Head(q).val \in Wanted(r)[Head(q).reg]
           /\ Right(Tail(q), r)
           /\ \A reg : reg # Head(q).reg /\ Owes(q, reg) => Owes(Tail(q), reg)
<1>1. Len(q) \in Nat \ {0} /\ Head(q) = q[1] /\ Len(Tail(q)) = Len(q) - 1
  OBVIOUS
<1>2. \A i \in 1 .. Len(Tail(q)) : Tail(q)[i] = q[i + 1]
  OBVIOUS
<1>3. \A i \in 1 .. Len(Tail(q)) : i + 1 \in 1 .. Len(q)
  BY <1>1
<1>4. Right(Tail(q), r)
  BY <1>2, <1>3 DEF Right
<1>5. ASSUME NEW reg, reg # Head(q).reg, Owes(q, reg)
      PROVE  Owes(Tail(q), reg)
  <2>1. PICK i \in 1 .. Len(q) : q[i].reg = reg
    BY <1>5 DEF Owes
  <2>2. i # 1
    BY <1>1, <1>5, <2>1
  <2>3. i - 1 \in 1 .. Len(Tail(q)) /\ Tail(q)[i - 1] = q[i]
    BY <1>1, <1>2, <2>1, <2>2
  <2> QED
    BY <2>1, <2>3 DEF Owes
<1> QED
  BY <1>1, <1>4, <1>5 DEF Right

LEMMA PlanConcat ==
    ASSUME NEW p \in Seq(Setting), NEW q \in Seq(Setting)
    PROVE  /\ p \o q \in Seq(Setting)
           /\ \A r : Right(p, r) /\ Right(q, r) => Right(p \o q, r)
           /\ \A reg : Owes(p, reg) \/ Owes(q, reg) => Owes(p \o q, reg)
<1> DEFINE pq == p \o q
<1>1. /\ pq \in Seq(Setting)
      /\ Len(p) \in Nat /\ Len(q) \in Nat /\ Len(pq) = Len(p) + Len(q)
      /\ \A i \in 1 .. Len(p) : pq[i] = p[i]
      /\ \A i \in Len(p) + 1 .. Len(pq) : pq[i] = q[i - Len(p)]
  OBVIOUS
<1> HIDE DEF pq
<1>2. ASSUME NEW i \in 1 .. Len(p)
      PROVE  i \in 1 .. Len(pq) /\ pq[i] = p[i]
  BY <1>1
<1>3. ASSUME NEW i \in 1 .. Len(q)
      PROVE  i + Len(p) \in 1 .. Len(pq) /\ pq[i + Len(p)] = q[i]
  <2> DEFINE k == i + Len(p)
  <2>1. k \in Len(p) + 1 .. Len(pq) /\ k \in 1 .. Len(pq) /\ k - Len(p) = i
    BY <1>1
  <2> HIDE DEF k
  <2>2. pq[k] = q[k - Len(p)]
    BY <1>1, <2>1
  <2>3. k \in 1 .. Len(pq) /\ pq[k] = q[i]
    BY ONLY <2>1, <2>2
  <2> QED
    BY <2>3 DEF k
<1>4. ASSUME NEW i \in 1 .. Len(pq)
      PROVE  \/ \E j \in 1 .. Len(p) : pq[i] = p[j]
             \/ \E j \in 1 .. Len(q) : pq[i] = q[j]
  <2>1. CASE i \in 1 .. Len(p)
    BY <1>2, <2>1
  <2>2. CASE i \notin 1 .. Len(p)
    <3>1. i \in Len(p) + 1 .. Len(pq) /\ i - Len(p) \in 1 .. Len(q)
      BY <1>1, <2>2
    <3> QED
      BY <1>1, <3>1
  <2> QED
    BY <2>1, <2>2
<1>5. ASSUME NEW r, Right(p, r), Right(q, r)
      PROVE  Right(pq, r)
  BY <1>4, <1>5 DEF Right
<1>6. ASSUME NEW reg, Owes(p, reg) \/ Owes(q, reg)
      PROVE  Owes(pq, reg)
  BY <1>2, <1>3, <1>6 DEF Owes
<1> QED
  BY <1>1, <1>5, <1>6 DEF pq

LEMMA OneSetting ==
    ASSUME NEW reg \in Regs, NEW v, NEW r, v \in Wanted(r)[reg]
    PROVE  Right(<<[reg |-> reg, val |-> v]>>, r) /\ Owes(<<[reg |-> reg, val |-> v]>>, reg)
BY DEF Right, Owes

(* The setters look at all the settings a request needs and no other.      *)
LEMMA SettingsPlan ==
    ASSUME NEW r \in Request, state[r.led] \in LedState
    PROVE  Plans(Settings(r), state[r.led], r)
<1> DEFINE s == state[r.led]
<1> USE ValueAssumption DEF Plans, Right, Owes, Wanted, Regs, LedState, Modes
<1>1. CASE r \in [led : Leds, op : {"brightness"}, val : Brights \cup {Zero}]
  <2>1. Settings(r) = SetBrightness(r.led, r.val)
    BY <1>1 DEF Settings
  <2>2. CASE r.val = Zero
    BY <1>1, <2>1, <2>2 DEF SetBrightness, TurnOnOrOff
  <2>3. CASE r.val # Zero
    <3> DEFINE b == <<[reg |-> "brightness", val |-> r.val]>>
               m == <<[reg |-> "mode", val |-> "on"]>>
    <3>1. Settings(r) = b \o (IF s.mode = "off" THEN m ELSE <<>>)
      BY <2>1, <2>3 DEF SetBrightness, TurnOnOrOff
    <3>2. Wanted(r) = [mode |-> Modes \ {"off"}, brightness |-> {r.val}, color |-> Colors]
      BY <1>1, <2>3
    <3>3. Right(b, r) /\ Owes(b, "brightness") /\ Right(m, r) /\ Owes(m, "mode")
      BY <3>2, OneSetting
    <3>4. b \in Seq(Setting) /\ m \in Seq(Setting)
      BY <1>1, <2>3 DEF Setting
    <3>5. b \o <<>> = b
      BY <3>4
    <3>6. s.mode \in Modes /\ s.color \in Colors
      OBVIOUS
    <3> HIDE DEF b, m, Right, Owes
    <3>7. Right(b \o m, r) /\ Owes(b \o m, "brightness") /\ Owes(b \o m, "mode")
      BY <3>3, <3>4, PlanConcat
    <3>8. /\ Right(Settings(r), r)
          /\ Owes(Settings(r), "brightness")
          /\ s.mode = "off" => Owes(Settings(r), "mode")
      BY <3>1, <3>3, <3>5, <3>7
    <3> QED
      BY <3>2, <3>6, <3>8
  <2> QED
    BY <2>2, <2>3
<1>2. CASE r \in [led : Leds, op : {"color"}, val : Colors]
  BY <1>2 DEF Settings, SetColor, TurnOnOrOff
<1>3. CASE r \in [led : Leds, op : {"blink"}, val : Blinks]
  BY <1>3 DEF Settings, SetBlinkOrBreath
<1>4. CASE r \in [led : Leds, op : {"none"}, val : {"on"}]
  BY <1>4 DEF Settings, TurnOnOrOff
<1> QED
  BY <1>1, <1>2, <1>3, <1>4 DEF Request

(* The same for what probe sets on an LED it read.                         *)
LEMMA ProbePlan ==
    ASSUME NEW s \in LedState, NEW r \in ProbeRequest
    PROVE  Plans(<<[reg |-> "brightness", val |-> Half]>>
                 \o (IF s.mode = "off" THEN TurnOnOrOff("on") ELSE <<>>)
                 \o SetColor(White), s, r)
<1> DEFINE b == <<[reg |-> "brightness", val |-> Half]>>
           m == <<[reg |-> "mode", val |-> "on"]>>
           c == <<[reg |-> "color", val |-> White]>>
           bm == b \o (IF s.mode = "off" THEN m ELSE <<>>)
<1>1. SetColor(White) = c /\ TurnOnOrOff("on") = m
  BY ValueAssumption DEF SetColor, TurnOnOrOff
<1>2. Wanted(r) = [mode |-> Modes \ {"off"}, brightness |-> {Half}, color |-> {White}]
  BY ValueAssumption DEF ProbeRequest, Wanted
<1>3. /\ Right(b, r) /\ Owes(b, "brightness")
      /\ Right(m, r) /\ Owes(m, "mode")
      /\ Right(c, r) /\ Owes(c, "color")
  BY <1>2, OneSetting DEF Regs, Modes
<1>4. b \in Seq(Setting) /\ m \in Seq(Setting) /\ c \in Seq(Setting)
  BY ValueAssumption DEF Setting, Modes
<1>5. b \o <<>> = b
  BY <1>4
<1>6. s.mode \in Modes
  BY DEF LedState
<1> HIDE DEF b, m, c
<1>7. /\ b \o m \in Seq(Setting) /\ Right(b \o m, r)
      /\ Owes(b \o m, "brightness") /\ Owes(b \o m, "mode")
  BY <1>3, <1>4, PlanConcat
<1>8. /\ bm \in Seq(Setting) /\ Right(bm, r) /\ Owes(bm, "brightness")
      /\ s.mode = "off" => Owes(bm, "mode")
  BY <1>3, <1>4, <1>5, <1>7
<1> HIDE DEF bm
<1>9. /\ Right(bm \o c, r)
      /\ Owes(bm \o c, "brightness") /\ Owes(bm \o c, "color")
      /\ s.mode = "off" => Owes(bm \o c, "mode")
  BY <1>3, <1>4, <1>8, PlanConcat
<1>10. Plans(bm \o c, s, r)
  BY <1>2, <1>6, <1>9 DEF Plans, Regs
<1> QED
  BY <1>1, <1>10 DEF bm, b

-----------------------------------------------------------------------------
LEMMA StepOwed == IInv /\ Owed /\ [Next]_vars => Owed'
<1> SUFFICES ASSUME IInv, Owed, [Next]_vars PROVE Owed'
  OBVIOUS
<1> USE TaskAssumption DEF IInv
<1>0. Probe \in Actors /\ Tasks \subseteq Actors
  BY DEF Actors
<1>1. ASSUME NEW t \in Tasks, NEW r \in Request, Call(t, r)
      PROVE  Owed'
  BY <1>0, <1>1 DEF Call, TypeOK, Owed, Busy
<1>2. ASSUME NEW t \in Tasks, Lock(t)
      PROVE  Owed'
  <2>1. req[t] \in Request /\ state[req[t].led] # Invalid
    BY <1>0, <1>2 DEF Lock, Engaged
  <2>2. state[req[t].led] \in LedState
    BY <2>1 DEF TypeOK, Request
  <2>3. Plans(Settings(req[t]), state[req[t].led], req[t])
    BY <2>1, <2>2, SettingsPlan
  <2>4. /\ todo'[t] = Settings(req[t])
        /\ req' = req /\ state' = state /\ lost' = lost
        /\ \A u \in Actors \ {t} : pc'[u] = pc[u] /\ todo'[u] = todo[u]
    BY <1>0, <1>2 DEF Lock, TypeOK
  <2> QED
    BY <2>3, <2>4 DEF Plans, Owed, Busy
<1>3. ASSUME NEW t \in Tasks, Unlock(t)
      PROVE  Owed'
  BY <1>0, <1>3 DEF Unlock, TypeOK, Owed, Busy
<1>4. ASSUME NEW t \in Actors, Setter(t)
      PROVE  Owed'
  <2> DEFINE l == req[t].led
             c == Head(todo[t])
  <2>1. Busy(t) /\ pc[t] # "idle" /\ req' = req
    BY <1>4, SetterFrame DEF Busy
  <2>2. \A u \in Actors \ {t} : ~Busy(u)'
    BY <1>4, <2>1, SetterFrame, Alone DEF Busy
  <2>3. /\ Right(todo[t], req[t])
        /\ \A reg \in Regs : \/ <<l, reg>> \in lost
                              \/ state[l][reg] \in Wanted(req[t])[reg]
                              \/ Owes(todo[t], reg)
    BY <2>1 DEF Owed
  <2> SUFFICES /\ Right(todo'[t], req[t])
               /\ \A reg \in Regs : \/ <<l, reg>> \in lost'
                                     \/ state'[l][reg] \in Wanted(req[t])[reg]
                                     \/ Owes(todo'[t], reg)
    BY <2>1, <2>2 DEF Owed
  <2>4. todo[t] # <<>>
    BY <1>4
    DEF Setter, Skip, Send, WriteFails, WriteDone, StatusAccepted,
        StatusRefused, Engaged, Sending
  <2>5. todo[t] \in Seq(Setting)
    BY DEF TypeOK
  <2>6. /\ c.val \in Wanted(req[t])[c.reg]
        /\ Right(Tail(todo[t]), req[t])
        /\ \A reg : reg # c.reg /\ Owes(todo[t], reg) => Owes(Tail(todo[t]), reg)
    BY <2>3, <2>4, <2>5, PlanTail
  <2>7. CASE todo'[t] = todo[t] /\ UNCHANGED <<state, lost>>
    BY <2>3, <2>7
  <2>8. CASE Skip(t)
    <3>1. todo'[t] = Tail(todo[t]) /\ UNCHANGED <<state, lost>>
      BY <2>8 DEF Skip, TypeOK
    <3>2. state[l][c.reg] = c.val
      BY <2>8 DEF Skip, Known
    <3> QED
      BY <2>3, <2>6, <3>1, <3>2
  <2>9. CASE StatusAccepted(t)
    <3>1. /\ todo'[t] = Tail(todo[t])
          /\ state' = Changed(state, t)
          /\ lost' = lost \ {<<l, c.reg>>}
      BY <2>9 DEF StatusAccepted, Target, TypeOK
    <3>2. state \in [Leds -> LedState \cup {Invalid}] /\ state[l] \in LedState
      BY <2>1, <2>4, TargetFacts DEF TypeOK
    <3>3. /\ Changed(state, t)[l][c.reg] = c.val
          /\ \A reg \in Regs : reg # c.reg => Changed(state, t)[l][reg] = state[l][reg]
      BY <2>1, <2>4, <3>2, ChangedFacts
    <3> QED
      BY <2>3, <2>6, <3>1, <3>3
  <2>10. CASE GiveUp(t) /\ state' = state
    <3>1. todo'[t] = Tail(todo[t]) /\ lost' = lost \cup {<<l, c.reg>>}
      BY <2>10 DEF GiveUp, Target, TypeOK
    <3> QED
      BY <2>3, <2>6, <2>10, <3>1
  <2> QED
    BY <1>4, <2>7, <2>8, <2>9, <2>10
    DEF Setter, Send, WriteFails, WriteDone, StatusRefused, AttemptFails, Retry
<1>5. ASSUME NEW l \in Leds, ProbeLed(l)
      PROVE  Owed'
  <2>1. /\ \A u \in Tasks : ~Busy(u)'
        /\ state'[l] = mcu[l] /\ mcu[l] \in LedState
    BY <1>0, <1>5 DEF ProbeLed, Serial, Busy, TypeOK
  <2>2. req'[Probe] \in ProbeRequest /\ req'[Probe].led = l
    BY <1>0, <1>5 DEF ProbeLed, ProbeRequest, TypeOK
  <2>3. todo'[Probe] = <<[reg |-> "brightness", val |-> Half]>>
                       \o (IF mcu[l].mode = "off" THEN TurnOnOrOff("on") ELSE <<>>)
                       \o SetColor(White)
    BY <1>0, <1>5 DEF ProbeLed, TypeOK
  <2>4. Plans(todo'[Probe], state'[l], req'[Probe])
    BY <2>1, <2>2, <2>3, ProbePlan
  <2> QED
    BY <2>1, <2>2, <2>4 DEF Plans, Owed, Actors
<1>6. ASSUME NEW l \in Leds, ProbeFails(l)
      PROVE  Owed'
  BY <1>6 DEF ProbeFails, Owed, Busy
<1>7. CASE ProbeStarts \/ ProbeEnds
  BY <1>7 DEF ProbeStarts, ProbeEnds, Owed, Busy
<1>8. CASE ProbedLed
  BY <1>0, <1>8 DEF ProbedLed, TypeOK, Owed, Busy
<1>9. CASE Remove
  BY <1>9 DEF Remove, Serial, Owed, Busy, Actors
<1>10. CASE UNCHANGED vars
  BY <1>10 DEF vars, Owed, Busy
<1> QED
  BY <1>0, <1>1, <1>2, <1>3, <1>4, <1>5, <1>6, <1>7, <1>8, <1>9, <1>10
  DEF Next, Binding

LEMMA OwedObeyed == IInv /\ Owed => Obeyed
<1> SUFFICES ASSUME IInv, Owed, NEW t \in Actors, pc[t] = "check",
                    todo[t] = <<>>, \A r \in Regs : <<req[t].led, r>> \notin lost,
                    NEW r \in Regs
             PROVE  mcu[req[t].led][r] \in Wanted(req[t])[r]
  BY DEF Obeyed
<1>1. state[req[t].led][r] \in Wanted(req[t])[r]
  <2>1. Busy(t)
    BY DEF Busy
  <2>2. ~Owes(todo[t], r)
    BY DEF Owes
  <2> QED
    BY <2>1, <2>2 DEF Owed
<1>2. req[t].led \in Leds /\ state[req[t].led] # Invalid
  BY DEF IInv, TypeOK, Engaged, Request, ProbeRequest
<1>3. \A u \in Actors : ~Sending(u)
  BY Alone DEF IInv, Sending, Busy
<1>4. state[req[t].led][r] = mcu[req[t].led][r]
  BY <1>2, <1>3 DEF IInv, StateCoherent
<1> QED
  BY <1>1, <1>4

(* A setter that returns has done what it was asked, what it left out      *)
(* included, unless a command for its LED was given up and none for the    *)
(* same register succeeded since: for any number of tasks and LEDs.        *)
THEOREM Obedience == Spec => []Obeyed
<1>1. Init => Owed
  BY DEF Init, Owed, Busy
<1>2. Spec => []Owed
  BY <1>1, Invariance, StepOwed, PTL DEF Spec
<1> QED
  BY <1>2, Invariance, OwedObeyed, PTL
=============================================================================

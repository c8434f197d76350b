---------------------------- MODULE DaemonProofs ----------------------------
(***************************************************************************)
(* Theorems about Daemon and the configuration it reads, for any files and *)
(* command lines, any interfaces, any filters of others, and any number of *)
(* failures and kills: types, what an accepted configuration guarantees,   *)
(* that options override the file, that no filter is left behind and none  *)
(* of others removed, and that a daemon that runs has set up the power     *)
(* LED.                                                                    *)
(***************************************************************************)
EXTENDS Daemon, TLAPS

CfgSet == [interface : Ifaces \cup {NoName}, network : BOOLEAN,
           disks : BOOLEAN, power : BOOLEAN,
           disk_interval_ms : 1 .. 1000, disk_pulse_ms : 1 .. 1000,
           power_mode : PowerMode]

(* What holds of struct config after each line and each option.            *)
CfgInv(c) ==
    /\ c \in CfgSet
    /\ c.network => c.interface \in Ifaces
    /\ c.power_mode.on + c.power_mode.off <= Uint16

(* Changed fields keep the record in its set.                              *)
LEMMA CfgFields ==
    ASSUME NEW c \in CfgSet, NEW i \in Ifaces \cup {NoName}, NEW b \in BOOLEAN
    PROVE  /\ [c EXCEPT !.interface = i, !.network = b] \in CfgSet
           /\ [c EXCEPT !.network = b] \in CfgSet
           /\ [c EXCEPT !.disks = b] \in CfgSet
           /\ [c EXCEPT !.power = b] \in CfgSet
<1> DEFINE I == Ifaces \cup {NoName}
           B == BOOLEAN
           T == 1 .. 1000
           Same == [interface : I, network : B, disks : B, power : B,
                    disk_interval_ms : T, disk_pulse_ms : T, power_mode : PowerMode]
<1>1. CfgSet = Same
  BY DEF CfgSet
<1>2. i \in I /\ b \in B
  OBVIOUS
<1> HIDE DEF I, B, T
<1>3. c \in Same
  BY <1>1
<1>4. [c EXCEPT !.interface = i, !.network = b] \in Same
  BY ONLY <1>2, <1>3
<1>5. [c EXCEPT !.network = b] \in Same
  BY ONLY <1>2, <1>3
<1>6. [c EXCEPT !.disks = b] \in Same
  BY ONLY <1>2, <1>3
<1>7. [c EXCEPT !.power = b] \in Same
  BY ONLY <1>2, <1>3
<1> HIDE DEF Same
<1> QED
  BY <1>1, <1>4, <1>5, <1>6, <1>7

(* The defaults are sane.                                                  *)
LEMMA DefaultsInv == CfgInv(Defaults)
<1>1. Defaults \in CfgSet
  BY DEF Defaults, CfgSet, PowerMode
<1>2. Defaults.power_mode.on + Defaults.power_mode.off <= Uint16
  BY DEF Defaults, Uint16
<1> QED
  BY <1>1, <1>2 DEF CfgInv, Defaults

(* A setting that is accepted keeps it, wherever it comes from.            *)
LEMMA Settled ==
    ASSUME NEW s \in Setting, NEW from, Accepts(s, from), CfgInv(cfg)
    PROVE  CfgInv(With(s))
<1>1. CASE s \in [key : {"interface"}, name : Ifaces \cup {TooLong, NoName}]
  <2>1. /\ With(s) = [cfg EXCEPT !.interface = s.name, !.network = (s.name # NoName)]
        /\ s.name \in Ifaces \cup {NoName}
    BY <1>1 DEF With, Accepts
  <2>2. CASE s.name = NoName
    <3>1. With(s) = [cfg EXCEPT !.interface = NoName, !.network = FALSE]
      BY <2>1, <2>2
    <3>2. With(s) \in CfgSet
      BY <3>1, CfgFields DEF CfgInv
    <3>3. ~With(s).network /\ With(s).power_mode = cfg.power_mode
      BY <3>1 DEF CfgInv, CfgSet
    <3> QED
      BY <3>2, <3>3 DEF CfgInv
  <2>3. CASE s.name # NoName
    <3>1. With(s) = [cfg EXCEPT !.interface = s.name, !.network = TRUE]
      BY <2>1, <2>3
    <3>2. With(s) \in CfgSet
      BY <2>1, <3>1, CfgFields DEF CfgInv
    <3>3. With(s).interface \in Ifaces /\ With(s).power_mode = cfg.power_mode
      BY <2>1, <2>3, <3>1 DEF CfgInv, CfgSet
    <3> QED
      BY <3>2, <3>3 DEF CfgInv
  <2> QED
    BY <2>2, <2>3
<1>2. CASE s \in [key : Times, ms : Int]
  <2>1. s.key \in Times /\ s.ms \in 1 .. 1000 /\ With(s) = [cfg EXCEPT ![s.key] = s.ms]
    BY <1>2 DEF With, Accepts, Times
  <2>2. CASE s.key = "disk_interval_ms"
    BY <2>1, <2>2 DEF CfgInv, CfgSet
  <2>3. CASE s.key = "disk_pulse_ms"
    BY <2>1, <2>3 DEF CfgInv, CfgSet
  <2> QED
    BY <2>1, <2>2, <2>3 DEF Times
<1>3. CASE s \in [key : {"power_mode"}, mode : {"none", "blink", "breath", "bad"},
                  on : Nat, off : Nat]
  <2>1. With(s) = [cfg EXCEPT !.power_mode = Mode(s)]
    BY <1>3 DEF With, Times
  <2>2. Mode(s) \in PowerMode /\ Mode(s).on + Mode(s).off <= Uint16
    <3>1. CASE s.mode = "none"
      <4>1. Mode(s) = [cfg.power_mode EXCEPT !.mode = "on"]
        BY <3>1 DEF Mode
      <4>2. cfg.power_mode \in PowerMode
        BY DEF CfgInv, CfgSet
      <4> QED
        BY <4>1, <4>2 DEF CfgInv, PowerMode
    <3>2. CASE s.mode # "none"
      <4>1. /\ Mode(s) = [mode |-> s.mode, on |-> s.on, off |-> s.off]
            /\ s.mode \in {"blink", "breath"} /\ s.on \in Nat /\ s.off \in Nat
            /\ s.on + s.off <= Uint16
        BY <1>3, <3>2 DEF Mode, Accepts
      <4> QED
        BY <4>1 DEF PowerMode
    <3> QED
      BY <3>1, <3>2
  <2> QED
    BY <2>1, <2>2 DEF CfgInv, CfgSet
<1>4. CASE s \in [key : Parts \cup {"config", "help", "unknown"}]
  <2>1. CASE s.key \in Parts
    <3>1. With(s) = [cfg EXCEPT ![s.key] = FALSE]
      BY <2>1 DEF With, Parts, Times
    <3>2. CASE s.key = "network"
      <4>1. With(s) = [cfg EXCEPT !.network = FALSE]
        BY <3>1, <3>2
      <4>2. With(s) \in CfgSet
        BY <4>1, CfgFields DEF CfgInv
      <4>3. With(s).interface = cfg.interface /\ With(s).power_mode = cfg.power_mode
            /\ (With(s).network => cfg.network)
        BY <4>1 DEF CfgInv, CfgSet
      <4> QED
        BY <4>2, <4>3 DEF CfgInv
    <3>3. CASE s.key = "disks"
      <4>1. With(s) = [cfg EXCEPT !.disks = FALSE]
        BY <3>1, <3>3
      <4>2. With(s) \in CfgSet
        BY <4>1, CfgFields DEF CfgInv
      <4>3. With(s).interface = cfg.interface /\ With(s).power_mode = cfg.power_mode
            /\ (With(s).network => cfg.network)
        BY <4>1 DEF CfgInv, CfgSet
      <4> QED
        BY <4>2, <4>3 DEF CfgInv
    <3>4. CASE s.key = "power"
      <4>1. With(s) = [cfg EXCEPT !.power = FALSE]
        BY <3>1, <3>4
      <4>2. With(s) \in CfgSet
        BY <4>1, CfgFields DEF CfgInv
      <4>3. With(s).interface = cfg.interface /\ With(s).power_mode = cfg.power_mode
            /\ (With(s).network => cfg.network)
        BY <4>1 DEF CfgInv, CfgSet
      <4> QED
        BY <4>2, <4>3 DEF CfgInv
    <3> QED
      BY <2>1, <3>2, <3>3, <3>4 DEF Parts
  <2>2. CASE s.key \notin Parts
    <3>1. With(s) = cfg
      BY <1>4, <2>2 DEF With, Times
    <3> QED
      BY <3>1
  <2> QED
    BY <2>1, <2>2
<1> QED
  BY <1>1, <1>2, <1>3, <1>4 DEF Setting

-----------------------------------------------------------------------------
(* The reading of the configuration.                                       *)
ParseInv ==
    /\ file \in Files /\ exists \in BOOLEAN /\ args \in ArgLists
    /\ CfgInv(cfg)
    /\ parse \in {"file", "options", "accepted", "rejected", "help"}
    /\ at \in Nat \ {0}
    /\ parse = "accepted" =>
         cfg.disk_pulse_ms < cfg.disk_interval_ms /\ \E p \in Parts : cfg[p]

(* An option or a line that is taken.                                      *)
LEMMA Taken ==
    ASSUME ParseInv, NEW s \in Setting, NEW from, Accepts(s, from), Take(s),
           parse # "accepted"
    PROVE  ParseInv'
<1>1. CfgInv(cfg)'
  <2>1. CfgInv(With(s))
    BY Settled DEF ParseInv
  <2> QED
    BY <2>1 DEF Take
<1> QED
  BY <1>1 DEF Take, ParseInv, input

(* The end of the reading.                                                 *)
LEMMA Finished ==
    ASSUME ParseInv, NEW outcome, Finish(outcome),
           outcome \in {"accepted", "rejected", "help"},
           outcome = "accepted" =>
             cfg.disk_pulse_ms < cfg.disk_interval_ms /\ \E p \in Parts : cfg[p]
    PROVE  ParseInv'
BY DEF Finish, ParseInv, CfgInv, input

LEMMA ParseStep ==
    ParseInv /\ (Parse \/ Reset \/ UNCHANGED <<input, configuration>>) => ParseInv'
<1> SUFFICES ASSUME ParseInv, Parse \/ Reset \/ UNCHANGED <<input, configuration>>
             PROVE  ParseInv'
  OBVIOUS
<1>1. CASE ReadLine
  <2>1. file[at] \in Setting /\ parse = "file"
    BY <1>1, InputAssumption DEF ReadLine, ParseInv
  <2>2. CASE Accepts(file[at], "file")
    BY <1>1, <2>1, <2>2, Taken DEF ReadLine
  <2>3. CASE ~Accepts(file[at], "file")
    BY <1>1, <2>3, Finished DEF ReadLine
  <2> QED
    BY <2>2, <2>3
<1>2. CASE FileEnds
  <2>1. CASE ~exists /\ Explicit
    BY <1>2, <2>1, Finished DEF FileEnds
  <2>2. CASE ~(~exists /\ Explicit)
    BY <1>2, <2>2 DEF FileEnds, ParseInv, CfgInv, input
  <2> QED
    BY <2>1, <2>2
<1>3. CASE ReadOption
  <2>1. args[at] \in Setting /\ parse = "options"
    BY <1>3, InputAssumption DEF ReadOption, ParseInv
  <2>2. CASE args[at].key = "help"
    BY <1>3, <2>2, Finished DEF ReadOption
  <2>3. CASE args[at].key # "help" /\ Accepts(args[at], "options")
    BY <1>3, <2>1, <2>3, Taken DEF ReadOption
  <2>4. CASE args[at].key # "help" /\ ~Accepts(args[at], "options")
    BY <1>3, <2>4, Finished DEF ReadOption
  <2> QED
    BY <2>2, <2>3, <2>4
<1>4. CASE OptionsEnd
  <2>1. CASE cfg.disk_pulse_ms < cfg.disk_interval_ms /\ \E p \in Parts : cfg[p]
    BY <1>4, <2>1, Finished DEF OptionsEnd
  <2>2. CASE ~(cfg.disk_pulse_ms < cfg.disk_interval_ms /\ \E p \in Parts : cfg[p])
    BY <1>4, <2>2, Finished DEF OptionsEnd
  <2> QED
    BY <2>1, <2>2
<1>5. CASE Reset
  BY <1>5, DefaultsInv DEF Reset, ParseInv, CfgInv, input
<1>6. CASE UNCHANGED <<input, configuration>>
  BY <1>6 DEF input, configuration, ParseInv, CfgInv
<1> QED
  BY <1>1, <1>2, <1>3, <1>4, <1>5, <1>6 DEF Parse

(* Who changes it: a daemon that begins or is reading it.                  *)
LEMMA ConfigSteps ==
    ASSUME [Next]_vars
    PROVE  /\ Parse \/ Reset \/ UNCHANGED <<input, configuration>>
           /\ pc \notin {"down", "config"} => UNCHANGED <<input, configuration>>
BY DEF Next, Main, Configure, Configured, Open, Power, Leds, Load, CreateQdisc, Attach,
       Detach, AttachRest, LeaveLoop, Detached, Cleanup, Start, Restart, Begin, Kill,
       Terminate, ClearHooks, Exit, Goto, Fails, vars

(* It holds of every behaviour.                                            *)
LEMMA ParseAlways == Spec => []ParseInv
<1>1. Init => ParseInv
  BY DefaultsInv DEF Init, ConfigInit, ParseInv
<1>2. ParseInv /\ [Next]_vars => ParseInv'
  BY ParseStep, ConfigSteps
<1> QED
  BY <1>1, <1>2, PTL DEF Spec

(* A configuration the daemon runs with is sane, whichever lines and       *)
(* options it comes from, in any order.                                    *)
THEOREM ConfigurationSane == Spec => []AcceptedSane
<1>1. ParseInv => AcceptedSane
  <2> SUFFICES ASSUME ParseInv, parse = "accepted"
               PROVE  /\ cfg.network => cfg.interface \in Ifaces
                      /\ 0 < cfg.disk_pulse_ms /\ cfg.disk_pulse_ms < cfg.disk_interval_ms
                      /\ cfg.disk_interval_ms <= Uint16
                      /\ cfg.power_mode.on + cfg.power_mode.off <= Uint16
                      /\ \E p \in Parts : cfg[p]
    BY DEF AcceptedSane
  <2> DEFINE T == 1 .. 1000
  <2>1. cfg.disk_pulse_ms \in T /\ cfg.disk_interval_ms \in T
    BY DEF ParseInv, CfgInv, CfgSet
  <2>2. \A n \in T : 0 < n /\ n <= Uint16
    BY DEF Uint16
  <2> HIDE DEF T
  <2>3. 0 < cfg.disk_pulse_ms /\ cfg.disk_interval_ms <= Uint16
    BY ONLY <2>1, <2>2
  <2>4. /\ cfg.network => cfg.interface \in Ifaces
        /\ cfg.power_mode.on + cfg.power_mode.off <= Uint16
    BY DEF ParseInv, CfgInv
  <2>5. cfg.disk_pulse_ms < cfg.disk_interval_ms /\ \E p \in Parts : cfg[p]
    BY DEF ParseInv
  <2> QED
    BY ONLY <2>3, <2>4, <2>5
<1> QED
  BY <1>1, ParseAlways, PTL

-----------------------------------------------------------------------------
(* Options and the file.                                                   *)
Fields == {"interface"} \cup Parts \cup Times

(* Of the options read so far, the last about a setting says what it is;   *)
(* and all of them are read when the configuration is accepted.            *)
Overrides ==
    /\ parse \in {"options", "accepted"} =>
         /\ at <= Len(args) + 1
         /\ \A k \in DOMAIN args : k < at => \A field \in Concerns(args[k]) :
              \/ Says(args[k], field)
              \/ \E j \in DOMAIN args : k < j /\ j < at /\ field \in Concerns(args[j])
    /\ parse = "accepted" => at \notin DOMAIN args

(* A setting changes what it concerns and nothing else.                    *)
LEMMA OthersStay ==
    ASSUME ParseInv, NEW s \in Setting, s.key \in OptionKeys, NEW field \in Fields,
           field \notin Concerns(s)
    PROVE  With(s)[field] = cfg[field]
<1> DEFINE Set(f, a, v) == [f EXCEPT ![a] = v]
<1>1. \A f, a, v : field \in DOMAIN f /\ a # field =>
        field \in DOMAIN Set(f, a, v) /\ Set(f, a, v)[field] = f[field]
  OBVIOUS
<1>2. field \in DOMAIN cfg
  BY DEF ParseInv, CfgInv, CfgSet, Fields, Parts, Times
<1>3. CASE s.key = "interface"
  <2>1. "interface" # field /\ "network" # field
    BY <1>3 DEF Concerns
  <2>2. With(s) = Set(Set(cfg, "interface", s.name), "network", s.name # NoName)
    BY <1>3 DEF With
  <2> HIDE DEF Set
  <2> QED
    BY <1>1, <1>2, <2>1, <2>2
<1>4. CASE s.key \in Times
  <2>1. s.key # field
    BY <1>4 DEF Concerns, Times
  <2>2. With(s) = Set(cfg, s.key, s.ms)
    BY <1>4 DEF With, Times
  <2> HIDE DEF Set
  <2> QED
    BY <1>1, <1>2, <2>1, <2>2
<1>5. CASE s.key \in Parts
  <2>1. s.key # field
    BY <1>5 DEF Concerns, Parts
  <2>2. With(s) = [cfg EXCEPT ![s.key] = FALSE]
    BY <1>5 DEF With, Times, Parts
  <2> QED
    BY <1>2, <2>1, <2>2
<1>6. CASE s.key \in {"config", "help", "unknown"}
  BY <1>6 DEF With, Times, Parts
<1> QED
  BY <1>3, <1>4, <1>5, <1>6 DEF OptionKeys

(* An option that is taken is obeyed; what the others say of settings it   *)
(* is not about is as before.                                              *)
LEMMA Obeyed ==
    ASSUME ParseInv, NEW s \in Setting, s.key \in OptionKeys, Accepts(s, "options"),
           cfg' = With(s)
    PROVE  /\ \A field \in Concerns(s) : Says(s, field)'
           /\ \A r \in Setting : r.key \in OptionKeys =>
                \A field \in Concerns(r) :
                  field \notin Concerns(s) /\ Says(r, field) => Says(r, field)'
<1>1. cfg \in CfgSet
  BY DEF ParseInv, CfgInv
<1>2. ASSUME NEW field \in Concerns(s)
      PROVE  Says(s, field)'
  <2>1. CASE s.key = "interface"
    <3>1. s.name \in Ifaces /\ s.name # NoName
      BY <2>1, NameAssumption DEF Accepts
    <3>2. cfg' = [cfg EXCEPT !.interface = s.name, !.network = TRUE]
      BY <2>1, <3>1 DEF With
    <3>3. cfg'.interface = s.name /\ cfg'.network
      BY <1>1, <3>2 DEF CfgSet
    <3> QED
      BY <2>1, <3>3 DEF Says
  <2>2. CASE s.key \in Times
    <3>1. field = s.key
      BY <1>2, <2>2 DEF Concerns, Times
    <3>2. cfg' = [cfg EXCEPT ![s.key] = s.ms]
      BY <2>2 DEF With, Times
    <3>3. cfg'[field] = s.ms
      BY <1>1, <2>2, <3>1, <3>2 DEF CfgSet, Times
    <3> QED
      BY <2>2, <3>3 DEF Says, Times
  <2>3. CASE s.key \in Parts
    <3>1. field = s.key
      BY <1>2, <2>3 DEF Concerns, Parts
    <3>2. cfg' = [cfg EXCEPT ![s.key] = FALSE]
      BY <2>3 DEF With, Times, Parts
    <3>3. ~cfg'[field]
      BY <1>1, <2>3, <3>1, <3>2 DEF CfgSet, Parts
    <3> QED
      BY <2>3, <3>3 DEF Says, Times, Parts
  <2>4. CASE s.key \in {"config", "help", "unknown"}
    BY <1>2, <2>4 DEF Concerns, Says, Times, Parts
  <2> QED
    BY <2>1, <2>2, <2>3, <2>4 DEF OptionKeys
<1>3. ASSUME NEW r \in Setting, r.key \in OptionKeys, NEW field \in Concerns(r),
             field \notin Concerns(s), Says(r, field)
      PROVE  Says(r, field)'
  <2>1. field \in Fields => cfg'[field] = cfg[field]
    BY <1>3, OthersStay
  <2>2. CASE r.key = "interface"
    <3>1. field \in {"interface", "network"}
      BY <1>3, <2>2 DEF Concerns
    <3> QED
      BY <1>3, <2>1, <2>2, <3>1 DEF Says, Fields, Parts
  <2>3. CASE r.key # "interface"
    <3>1. field = r.key
      BY <1>3, <2>3 DEF Concerns
    <3> QED
      BY <1>3, <2>1, <2>3, <3>1 DEF Says, Fields
  <2> QED
    BY <2>2, <2>3
<1> QED
  BY <1>2, <1>3

(* The next option is read: it overrides what it is about, and the word of *)
(* the others stands where it is silent.                                   *)
LEMMA OptionTaken ==
    ASSUME ParseInv, Overrides, parse = "options", at \in DOMAIN args,
           Accepts(args[at], "options"), Take(args[at])
    PROVE  Overrides'
<1>1. /\ args \in Seq(Setting) /\ at \in Nat \ {0}
      /\ \A k \in DOMAIN args : args[k] \in Setting /\ args[k].key \in OptionKeys
  BY InputAssumption DEF ParseInv
<1>2. /\ DOMAIN args = 1 .. Len(args) /\ Len(args) \in Nat /\ at <= Len(args)
      /\ \A k \in DOMAIN args : k \in Int
  BY <1>1
<1>3. args' = args /\ at' = at + 1 /\ parse' = "options" /\ cfg' = With(args[at])
  BY DEF Take, input
<1>4. ASSUME NEW k \in DOMAIN args, k < at + 1, NEW field \in Concerns(args[k])
      PROVE  \/ Says(args[k], field)'
             \/ \E j \in DOMAIN args : k < j /\ j < at + 1 /\ field \in Concerns(args[j])
  <2>1. CASE k = at
    BY <1>1, <1>3, <1>4, <2>1, Obeyed
  <2>2. CASE k # at /\ field \in Concerns(args[at])
    <3>1. k < at /\ at < at + 1
      BY <1>1, <1>2, <1>4, <2>2
    <3> QED
      BY <2>2, <3>1
  <2>3. CASE k # at /\ field \notin Concerns(args[at])
    <3>1. k < at
      BY <1>1, <1>2, <1>4, <2>3
    <3>2. CASE Says(args[k], field)
      BY <1>1, <1>3, <1>4, <2>3, <3>2, Obeyed
    <3>3. CASE \E j \in DOMAIN args : k < j /\ j < at /\ field \in Concerns(args[j])
      <4>1. PICK j \in DOMAIN args : k < j /\ j < at /\ field \in Concerns(args[j])
        BY <3>3
      <4>2. j < at + 1
        BY <1>1, <1>2, <4>1
      <4> QED
        BY <4>1, <4>2
    <3> QED
      BY <1>4, <3>1, <3>2, <3>3 DEF Overrides
  <2> QED
    BY <2>1, <2>2, <2>3
<1>5. at + 1 <= Len(args) + 1
  BY <1>1, <1>2
<1> QED
  BY <1>3, <1>4, <1>5 DEF Overrides, Concerns, Says

LEMMA OverridesStep ==
    ASSUME ParseInv, Overrides, Parse \/ Reset \/ UNCHANGED <<input, configuration>>
    PROVE  Overrides'
<1>1. CASE ReadLine
  BY <1>1 DEF ReadLine, Take, Finish, Overrides
<1>2. CASE FileEnds
  <2>1. args \in Seq(Setting)
    BY InputAssumption DEF ParseInv
  <2>2. Len(args) \in Nat /\ \A k \in DOMAIN args : ~(k < 1)
    BY <2>1
  <2>3. CASE ~exists /\ Explicit
    BY <1>2, <2>3 DEF FileEnds, Finish, Overrides
  <2>4. CASE ~(~exists /\ Explicit)
    <3>1. parse' = "options" /\ at' = 1 /\ args' = args
      BY <1>2, <2>4 DEF FileEnds, input
    <3>2. 1 <= Len(args) + 1
      BY <2>2
    <3> QED
      BY <2>2, <3>1, <3>2 DEF Overrides
  <2> QED
    BY <2>3, <2>4
<1>3. CASE ReadOption
  <2>1. CASE args[at].key = "help"
    BY <1>3, <2>1 DEF ReadOption, Finish, Overrides
  <2>2. CASE args[at].key # "help" /\ Accepts(args[at], "options")
    BY <1>3, <2>2, OptionTaken DEF ReadOption
  <2>3. CASE args[at].key # "help" /\ ~Accepts(args[at], "options")
    BY <1>3, <2>3 DEF ReadOption, Finish, Overrides
  <2> QED
    BY <2>1, <2>2, <2>3
<1>4. CASE OptionsEnd
  BY <1>4 DEF OptionsEnd, Finish, Overrides, Says, input
<1>5. CASE Reset
  BY <1>5 DEF Reset, Overrides
<1>6. CASE UNCHANGED <<input, configuration>>
  BY <1>6 DEF input, configuration, Overrides, Says
<1> QED
  BY <1>1, <1>2, <1>3, <1>4, <1>5, <1>6 DEF Parse

(* Of a configuration that is accepted, each option on the command line is *)
(* obeyed or a later one about the same setting is; what the file says     *)
(* never stands against an option.                                         *)
THEOREM OptionsPrevail == Spec => []OptionsOverride
<1>1. Init => Overrides
  BY DEF Init, ConfigInit, Overrides
<1>2. ParseInv /\ Overrides /\ [Next]_vars => Overrides'
  BY OverridesStep, ConfigSteps
<1>3. ParseInv /\ Overrides => OptionsOverride
  <2> SUFFICES ASSUME ParseInv, Overrides, parse = "accepted",
                      NEW k \in DOMAIN args, NEW field \in Concerns(args[k])
               PROVE  \/ Says(args[k], field)
                      \/ \E j \in DOMAIN args : j > k /\ field \in Concerns(args[j])
    BY DEF OptionsOverride
  <2>1. args \in Seq(Setting) /\ at \in Nat \ {0}
    BY InputAssumption DEF ParseInv
  <2>2. /\ DOMAIN args = 1 .. Len(args) /\ Len(args) \in Nat
        /\ \A j \in DOMAIN args : j \in Int
    BY <2>1
  <2>3. at <= Len(args) + 1 /\ at \notin DOMAIN args
    BY DEF Overrides
  <2>4. k < at
    BY <2>1, <2>2, <2>3
  <2>5. CASE Says(args[k], field)
    BY <2>5
  <2>6. CASE \E j \in DOMAIN args : k < j /\ j < at /\ field \in Concerns(args[j])
    BY <2>2, <2>6
  <2> QED
    BY <2>4, <2>5, <2>6 DEF Overrides
<1> QED
  BY <1>1, <1>2, <1>3, ParseAlways, PTL DEF Spec

-----------------------------------------------------------------------------
(* The power LED.                                                          *)
Modes == PowerMode \cup {OtherMode}

LedSet == [color : {"configured", "other"}, brightness : {"configured", "other"},
           mode : Modes, known : SUBSET Registers]

(* The outcomes of a setter: skipped, done, or failed with or without      *)
(* having changed the register.                                            *)
LEMMA PutOutcome ==
    ASSUME NEW l, NEW reg, NEW val, NEW o \in Put(l, reg, val)
    PROVE  LET set == [l EXCEPT ![reg] = val] IN
           \/ o = [led |-> l, ok |-> TRUE] /\ l[reg] = val
           \/ o = [led |-> [set EXCEPT !.known = @ \cup {reg}], ok |-> TRUE]
           \/ o = [led |-> [l EXCEPT !.known = {}], ok |-> FALSE]
           \/ o = [led |-> [set EXCEPT !.known = {}], ok |-> FALSE]
BY DEF Put

LEMMA PutColor ==
    ASSUME NEW l \in LedSet, NEW o \in Put(l, "color", "configured")
    PROVE  /\ o.led \in LedSet /\ o.ok \in BOOLEAN
           /\ o.ok => o.led.color = "configured"
<1> DEFINE set == [l EXCEPT !.color = "configured"]
<1>1. /\ set \in LedSet /\ set.color = "configured"
      /\ [set EXCEPT !.known = @ \cup {"color"}] \in LedSet
      /\ [set EXCEPT !.known = {}] \in LedSet /\ [l EXCEPT !.known = {}] \in LedSet
  BY DEF LedSet, Registers
<1>2. CASE o = [led |-> l, ok |-> TRUE] /\ l.color = "configured"
  BY <1>2
<1>3. CASE o = [led |-> [set EXCEPT !.known = @ \cup {"color"}], ok |-> TRUE]
  BY <1>1, <1>3 DEF LedSet
<1>4. CASE o = [led |-> [l EXCEPT !.known = {}], ok |-> FALSE]
  BY <1>1, <1>4 DEF LedSet
<1>5. CASE o = [led |-> [set EXCEPT !.known = {}], ok |-> FALSE]
  BY <1>1, <1>5 DEF LedSet
<1> QED
  BY <1>2, <1>3, <1>4, <1>5, PutOutcome

LEMMA PutBrightness ==
    ASSUME NEW l \in LedSet, NEW o \in Put(l, "brightness", "configured")
    PROVE  /\ o.led \in LedSet /\ o.ok \in BOOLEAN
           /\ o.ok => o.led.brightness = "configured" /\ o.led.color = l.color
<1> DEFINE set == [l EXCEPT !.brightness = "configured"]
<1>1. /\ set \in LedSet /\ set.brightness = "configured" /\ set.color = l.color
      /\ [set EXCEPT !.known = @ \cup {"brightness"}] \in LedSet
      /\ [set EXCEPT !.known = {}] \in LedSet /\ [l EXCEPT !.known = {}] \in LedSet
  BY DEF LedSet, Registers
<1>2. CASE o = [led |-> l, ok |-> TRUE] /\ l.brightness = "configured"
  BY <1>2
<1>3. CASE o = [led |-> [set EXCEPT !.known = @ \cup {"brightness"}], ok |-> TRUE]
  BY <1>1, <1>3 DEF LedSet
<1>4. CASE o = [led |-> [l EXCEPT !.known = {}], ok |-> FALSE]
  BY <1>1, <1>4 DEF LedSet
<1>5. CASE o = [led |-> [set EXCEPT !.known = {}], ok |-> FALSE]
  BY <1>1, <1>5 DEF LedSet
<1> QED
  BY <1>2, <1>3, <1>4, <1>5, PutOutcome

LEMMA PutMode ==
    ASSUME NEW l \in LedSet, NEW m \in Modes, NEW o \in Put(l, "mode", m)
    PROVE  /\ o.led \in LedSet /\ o.ok \in BOOLEAN
           /\ o.ok => /\ o.led.mode = m
                      /\ o.led.color = l.color /\ o.led.brightness = l.brightness
<1> DEFINE set == [l EXCEPT !.mode = m]
<1>1. /\ set \in LedSet /\ set.mode = m
      /\ set.color = l.color /\ set.brightness = l.brightness
      /\ [set EXCEPT !.known = @ \cup {"mode"}] \in LedSet
      /\ [set EXCEPT !.known = {}] \in LedSet /\ [l EXCEPT !.known = {}] \in LedSet
  BY DEF LedSet, Registers
<1>2. CASE o = [led |-> l, ok |-> TRUE] /\ l.mode = m
  BY <1>2
<1>3. CASE o = [led |-> [set EXCEPT !.known = @ \cup {"mode"}], ok |-> TRUE]
  BY <1>1, <1>3 DEF LedSet
<1>4. CASE o = [led |-> [l EXCEPT !.known = {}], ok |-> FALSE]
  BY <1>1, <1>4 DEF LedSet
<1>5. CASE o = [led |-> [set EXCEPT !.known = {}], ok |-> FALSE]
  BY <1>1, <1>5 DEF LedSet
<1> QED
  BY <1>2, <1>3, <1>4, <1>5, PutOutcome

(* power_led_apply: it works only when all three setters did.              *)
LEMMA AppliedAll ==
    ASSUME led \in LedSet, cfg.power_mode \in PowerMode, NEW o \in Applied
    PROVE  /\ o.led \in LedSet /\ o.ok \in BOOLEAN
           /\ o.ok => /\ o.led.color = "configured" /\ o.led.brightness = "configured"
                      /\ o.led.mode = Shown(cfg.power_mode)
<1> DEFINE m == Shown(cfg.power_mode)
           Then(outs, reg, val) ==
               UNION {IF x.ok THEN Put(x.led, reg, val) ELSE {x} : x \in outs}
<1>1. m \in Modes
  <2>1. CASE cfg.power_mode.mode = "on"
    BY <2>1 DEF Shown, PowerMode, Modes
  <2>2. CASE cfg.power_mode.mode # "on"
    BY <2>2 DEF Shown, Modes
  <2> QED
    BY <2>1, <2>2
<1>2. o \in Then(Then(Put(led, "color", "configured"), "brightness", "configured"),
                 "mode", m)
  BY DEF Applied
<1>3. PICK y \in Then(Put(led, "color", "configured"), "brightness", "configured") :
        o \in IF y.ok THEN Put(y.led, "mode", m) ELSE {y}
  BY <1>2
<1>4. PICK x \in Put(led, "color", "configured") :
        y \in IF x.ok THEN Put(x.led, "brightness", "configured") ELSE {x}
  BY <1>3
<1> HIDE DEF Then, m
<1>5. /\ x.led \in LedSet /\ x.ok \in BOOLEAN
      /\ x.ok => x.led.color = "configured"
  BY PutColor
<1>6. /\ y.led \in LedSet /\ y.ok \in BOOLEAN
      /\ y.ok => y.led.color = "configured" /\ y.led.brightness = "configured"
  <2>1. CASE x.ok
    <3>1. y \in Put(x.led, "brightness", "configured")
      BY <1>4, <2>1
    <3> QED
      BY <1>5, <2>1, <3>1, PutBrightness
  <2>2. CASE ~x.ok
    BY <1>4, <1>5, <2>2
  <2> QED
    BY <2>1, <2>2
<1>7. /\ o.led \in LedSet /\ o.ok \in BOOLEAN
      /\ o.ok => /\ o.led.color = "configured" /\ o.led.brightness = "configured"
                 /\ o.led.mode = m
  <2>1. CASE y.ok
    <3>1. o \in Put(y.led, "mode", m)
      BY <1>3, <2>1
    <3> QED
      BY <1>1, <1>6, <2>1, <3>1, PutMode
  <2>2. CASE ~y.ok
    BY <1>3, <1>6, <2>2
  <2> QED
    BY <2>1, <2>2
<1> QED
  BY <1>7 DEF m

-----------------------------------------------------------------------------
(* The life of the daemon.                                                 *)
Control ==
    /\ pc \in {"down", "config", "open", "power", "leds", "object", "qdisc",
               "ingress", "egress", "ring", "loop", "detach", "cleanup"}
    /\ pc \notin {"down", "config"} => parse = "accepted"
    /\ status \in {"ok", "stopped", "failed", "killed"}
    /\ pc = "qdisc" => cfg.network

Flags == error \in BOOLEAN /\ stop \in BOOLEAN

Spent == faults \in 0 .. MaxFaults /\ kills \in 0 .. MaxKills

(* The filters are those of this process and those of others.  Only        *)
(* between Attach and Detach does the process have any, and only on an     *)
(* interface that it monitors.                                             *)
Hooked ==
    /\ qdiscs \subseteq Ifaces /\ filters \subseteq Hooks /\ others \subseteq Hooks
    /\ attached \subseteq Dirs
    /\ filters = others \cup Mine
    /\ others \cap Mine = {}
    /\ attached # {} => pc \in {"egress", "ring", "loop", "detach"}
    /\ attached # {} \/ pc \in {"ingress", "egress"} => cfg.network

(* Once the power LED is applied it stays so until the daemon ends.        *)
Powered ==
    /\ led \in LedSet
    /\ /\ pc \in {"leds", "object", "qdisc", "ingress", "egress", "ring", "loop"}
       /\ cfg.power
       => /\ led.color = "configured" /\ led.brightness = "configured"
          /\ led.mode = Shown(cfg.power_mode)

DInv == ParseInv /\ Control /\ Flags /\ Spent /\ Hooked /\ Powered

(* The invariant holds at the start,                                       *)
LEMMA DInit == Init => DInv
<1> SUFFICES ASSUME Init
             PROVE  DInv
  OBVIOUS
<1>1. ParseInv
  BY DefaultsInv DEF Init, ConfigInit, ParseInv
<1>2. Control /\ Flags
  BY DEF Init, Control, Flags
<1>5. Spent
  BY BoundAssumption DEF Init, Spent
<1>3. Hooked
  <2>1. Mine = {} /\ filters \subseteq Hooks
    BY HookAssumption DEF Init, Mine
  <2>2. qdiscs \subseteq Ifaces
    BY <2>1 DEF Init, Hooks
  <2> QED
    BY <2>1, <2>2 DEF Init, Hooked
<1>4. Powered
  BY DEF Init, Powered, LedSet, Modes, Registers
<1> QED
  BY <1>1, <1>2, <1>3, <1>4, <1>5 DEF DInv

(* What each step may do to the counters, and to the flags.                *)
LEMMA FlagSteps ==
    ASSUME DInv, [Next]_vars
    PROVE  Flags' /\ Spent'
<1>1. \/ UNCHANGED <<faults, kills>>
      \/ faults < MaxFaults /\ faults' = faults + 1 /\ UNCHANGED kills
      \/ kills < MaxKills /\ kills' = kills + 1 /\ UNCHANGED faults
  BY DEF Next, Main, Configure, Configured, Open, Power, Leds, Load, CreateQdisc, Attach,
         Detach, AttachRest, LeaveLoop, Detached, Cleanup, Start, Restart, Begin, Kill,
         Terminate, ClearHooks, Fault, vars, spent
<1>2. Spent'
  BY <1>1, BoundAssumption DEF DInv, Spent
<1>3. error' \in {error, TRUE, FALSE} /\ stop' \in {stop, TRUE, FALSE}
  BY DEF Next, Main, Configure, Configured, Open, Power, Leds, Load, CreateQdisc, Attach,
         Detach, AttachRest, LeaveLoop, Detached, Cleanup, Start, Restart, Begin, Kill,
         Terminate, ClearHooks, Exit, Goto, Fails, vars
<1>4. Flags'
  BY <1>3 DEF DInv, Flags
<1> QED
  BY <1>2, <1>4

(* The end of a process: a kill leaves what it installed to others; one    *)
(* that ends by itself has nothing installed, where it does so.            *)
LEMMA Ended ==
    ASSUME DInv, NEW s \in {"ok", "stopped", "failed", "killed"}, Exit(s),
           \/ others' = others \cup Mine
           \/ others' = others /\ pc \in {"config", "cleanup"}
    PROVE  Control' /\ Hooked' /\ Powered'
<1>1. Control'
  BY DEF DInv, Control, Exit
<1>2. Hooked'
  <2>1. Mine' = {} /\ Mine \subseteq Hooks
    BY DEF Exit, DInv, Hooked, Mine
  <2>2. qdiscs' = qdiscs /\ filters' = filters /\ attached' = {} /\ pc' = "down"
    BY DEF Exit
  <2>3. others' = others \cup Mine
    <3>1. pc \in {"config", "cleanup"} => Mine = {}
      BY DEF DInv, Hooked, Mine
    <3> QED
      BY <3>1
  <2> QED
    BY <2>1, <2>2, <2>3 DEF DInv, Hooked
<1>3. Powered'
  <2>1. led' \in LedSet
    BY DEF Exit, DInv, Powered, LedSet
  <2> QED
    BY <2>1 DEF Exit, Powered
<1> QED
  BY <1>1, <1>2, <1>3

(* What each step does to the place in main: it leaves it, goes on to the  *)
(* next, or ends the process.                                              *)
LEMMA ControlStep ==
    ASSUME DInv, Next
    PROVE  Control'
<1>1. CASE Configure
  BY <1>1 DEF Configure, DInv, Control
<1>2. CASE Configured
  <2>1. CASE parse = "accepted" /\ Goto("open")
    BY <2>1 DEF Goto, DInv, Control, configuration
  <2>2. CASE ~(parse = "accepted" /\ Goto("open"))
    BY <1>2, <2>2, Ended DEF Configured
  <2> QED
    BY <2>1, <2>2
<1>3. CASE Open
  BY <1>3 DEF Open, Goto, Fails, DInv, Control, configuration
<1>4. CASE Power
  BY <1>4 DEF Power, Goto, Fails, DInv, Control, configuration
<1>5. CASE Leds
  BY <1>5 DEF Leds, Goto, Fails, DInv, Control, configuration
<1>6. CASE Load
  BY <1>6 DEF Load, Goto, Fails, DInv, Control, configuration
<1>7. CASE CreateQdisc
  BY <1>7
  DEF CreateQdisc, Goto, Fails, DInv, Control, configuration
<1>8. ASSUME NEW d \in Dirs, Attach(d)
      PROVE  Control'
  BY <1>8
  DEF Attach, Goto, Fails, DInv, Control, configuration, Dirs
<1>9. ASSUME NEW d \in Dirs, Detach(d)
      PROVE  Control'
  BY <1>9 DEF Detach, Goto, DInv, Control, configuration
<1>10. CASE AttachRest
  BY <1>10
  DEF AttachRest, Goto, Fails, DInv, Control, configuration
<1>11. CASE LeaveLoop
  BY <1>11
  DEF LeaveLoop, Goto, Fails, DInv, Control, configuration
<1>12. CASE Detached
  BY <1>12 DEF Detached, Goto, DInv, Control, configuration
<1>13. CASE Cleanup
  BY <1>13, Ended DEF Cleanup
<1>14. CASE Start \/ Restart
  BY <1>14 DEF Start, Restart, Begin, DInv, Control
<1>15. CASE Kill
  BY <1>15, Ended DEF Kill
<1>16. CASE Terminate
  <2>1. CASE pc = "config" /\ Exit("stopped") /\ UNCHANGED <<others, spent>>
    BY <2>1, Ended
  <2>2. CASE stop' = TRUE
             /\ UNCHANGED <<input, configuration, pc, status, error, led, tc>>
    BY <2>2 DEF DInv, Control, configuration
  <2> QED
    BY <1>16, <2>1, <2>2 DEF Terminate
<1>17. CASE ClearHooks
  BY <1>17 DEF ClearHooks, DInv, Control, configuration
<1> QED
  BY <1>1, <1>2, <1>3, <1>4, <1>5, <1>6, <1>7, <1>8, <1>9, <1>10, <1>11, <1>12,
     <1>13, <1>14, <1>15, <1>16, <1>17
  DEF Next, Main

(* What no step of the process but Attach, Detach and its end disturbs.    *)
LEMMA StillHooked ==
    ASSUME DInv, UNCHANGED <<filters, attached, others>>,
           qdiscs' = qdiscs \/ (qdiscs' = qdiscs \cup {cfg.interface} /\ cfg.network),
           \/ attached = {} /\ pc' \notin {"ingress", "egress"}
           \/ /\ UNCHANGED cfg
              /\ attached # {} => pc' \in {"egress", "ring", "loop", "detach"}
              /\ pc' \in {"ingress", "egress"} => cfg.network
    PROVE  Hooked'
<1>1. Mine' = Mine
  BY DEF Mine, DInv, Hooked
<1>2. qdiscs' \subseteq Ifaces
  BY DEF DInv, Hooked, ParseInv, CfgInv
<1> QED
  BY <1>1, <1>2 DEF DInv, Hooked

LEMMA HookedStep ==
    ASSUME DInv, Next
    PROVE  Hooked'
<1> USE DEF configuration, tc
<1>1. CASE Configure
  BY <1>1, StillHooked DEF Configure, DInv, Hooked
<1>2. CASE Configured
  <2>1. CASE parse = "accepted" /\ Goto("open") /\ UNCHANGED tc
    BY <1>2, <2>1, StillHooked DEF Configured, Goto, DInv, Hooked
  <2>2. CASE ~(parse = "accepted" /\ Goto("open") /\ UNCHANGED tc)
    BY <1>2, <2>2, Ended DEF Configured
  <2> QED
    BY <2>1, <2>2
<1>3. CASE Open
  BY <1>3, StillHooked DEF Open, Goto, Fails, DInv, Hooked
<1>4. CASE Power
  BY <1>4, StillHooked DEF Power, Goto, Fails, DInv, Hooked
<1>5. CASE Leds
  BY <1>5, StillHooked DEF Leds, Goto, Fails, DInv, Hooked
<1>6. CASE Load
  BY <1>6, StillHooked DEF Load, Goto, Fails, DInv, Hooked
<1>7. CASE CreateQdisc
  BY <1>7, StillHooked DEF CreateQdisc, Goto, Fails, DInv, Hooked, Control
<1>8. ASSUME NEW d \in Dirs, Attach(d)
      PROVE  Hooked'
  <2> DEFINE hook == <<cfg.interface, d>>
  <2>1. cfg.network /\ cfg.interface \in Ifaces /\ cfg' = cfg /\ pc = d
    BY <1>8 DEF Attach, Goto, Fails, DInv, Hooked, ParseInv, CfgInv, Dirs
  <2>2. hook \in Hooks
    BY <2>1 DEF Hooks
  <2>3. CASE UNCHANGED <<filters, attached>>
    BY <1>8, <2>1, <2>3, StillHooked DEF Attach, Goto, Fails, DInv, Hooked, Dirs
  <2>4. CASE /\ hook \notin filters
             /\ filters' = filters \cup {hook}
             /\ attached' = attached \cup {d}
             /\ Goto(IF d = "ingress" THEN "egress" ELSE "ring")
    <3>1. Mine' = Mine \cup {hook}
      BY <2>1, <2>4 DEF Mine
    <3>2. qdiscs' = qdiscs /\ others' = others
      BY <1>8 DEF Attach
    <3>3. pc' \in {"egress", "ring"}
      BY <2>4 DEF Goto
    <3>4. qdiscs' \subseteq Ifaces /\ others' \subseteq Hooks /\ filters' \subseteq Hooks
          /\ attached' \subseteq Dirs /\ cfg'.network
      BY <2>1, <2>2, <2>4, <3>2 DEF DInv, Hooked
    <3>5. filters' = others' \cup Mine' /\ others' \cap Mine' = {}
      BY <2>4, <3>1, <3>2 DEF DInv, Hooked
    <3> QED
      BY <3>3, <3>4, <3>5 DEF Hooked
  <2> QED
    BY <1>8, <2>3, <2>4 DEF Attach
<1>9. ASSUME NEW d \in Dirs, Detach(d)
      PROVE  Hooked'
  <2> DEFINE hook == <<cfg.interface, d>>
  <2>1. /\ d \in attached /\ attached' = attached \ {d} /\ cfg' = cfg
        /\ qdiscs' = qdiscs /\ pc = "detach" /\ pc' = "detach"
        /\ cfg.network /\ cfg.interface \in Ifaces
    BY <1>9 DEF Detach, Goto, DInv, Hooked, ParseInv, CfgInv
  <2>2. hook \in Mine /\ Mine' = Mine \ {hook} /\ hook \in Hooks
    BY <2>1 DEF Mine, Hooks
  <2>3. \/ filters' = filters \ {hook} /\ others' = others
        \/ filters' = filters /\ others' = others \cup {hook}
    BY <1>9 DEF Detach
  <2>4. /\ filters' = others' \cup Mine' /\ others' \cap Mine' = {}
        /\ filters' \subseteq Hooks /\ others' \subseteq Hooks
    BY <2>2, <2>3 DEF DInv, Hooked
  <2> QED
    BY <2>1, <2>4 DEF DInv, Hooked
<1>10. CASE AttachRest
  BY <1>10, StillHooked DEF AttachRest, Goto, Fails, DInv, Hooked
<1>11. CASE LeaveLoop
  BY <1>11, StillHooked DEF LeaveLoop, Goto, Fails, DInv, Hooked
<1>12. CASE Detached
  BY <1>12, StillHooked DEF Detached, Goto
<1>13. CASE Cleanup
  BY <1>13, Ended DEF Cleanup
<1>14. CASE Start \/ Restart
  BY <1>14, StillHooked DEF Start, Restart, Begin, DInv, Hooked
<1>15. CASE Kill
  BY <1>15, Ended DEF Kill
<1>16. CASE Terminate
  <2>1. CASE pc = "config" /\ Exit("stopped") /\ UNCHANGED <<others, spent>>
    BY <2>1, Ended
  <2>2. CASE stop' = TRUE
             /\ UNCHANGED <<input, configuration, pc, status, error, led, tc, spent>>
    BY <2>2, StillHooked DEF DInv, Hooked
  <2> QED
    BY <1>16, <2>1, <2>2 DEF Terminate
<1>17. CASE ClearHooks
  <2>1. attached = {} /\ attached' = {} /\ pc' = "down" /\ Mine' = {}
    BY <1>17 DEF ClearHooks, DInv, Hooked, Mine
  <2> QED
    BY <1>17, <2>1 DEF ClearHooks, Hooked
<1> QED
  BY <1>1, <1>2, <1>3, <1>4, <1>5, <1>6, <1>7, <1>8, <1>9, <1>10, <1>11, <1>12,
     <1>13, <1>14, <1>15, <1>16, <1>17
  DEF Next, Main

(* Most steps leave the LED alone and go on from where it is applied.      *)
LEMMA StillPowered ==
    ASSUME DInv, UNCHANGED led,
           \/ pc' \in {"down", "config", "open", "power", "detach", "cleanup"}
           \/ /\ UNCHANGED cfg
              /\ \/ ~cfg.power
                 \/ pc \in {"leds", "object", "qdisc", "ingress", "egress", "ring", "loop"}
    PROVE  Powered'
BY DEF DInv, Powered

LEMMA PoweredStep ==
    ASSUME DInv, Next
    PROVE  Powered'
<1> USE DEF configuration
<1>1. CASE Configure
  BY <1>1, StillPowered DEF Configure
<1>2. CASE Configured
  <2>1. CASE parse = "accepted" /\ Goto("open") /\ UNCHANGED led
    BY <1>2, <2>1, StillPowered DEF Goto
  <2>2. CASE ~(parse = "accepted" /\ Goto("open") /\ UNCHANGED led)
    BY <1>2, <2>2, Ended DEF Configured
  <2> QED
    BY <2>1, <2>2
<1>3. CASE Open
  BY <1>3, StillPowered DEF Open, Goto, Fails
<1>4. CASE Power
  <2>1. CASE ~cfg.power
    BY <1>4, <2>1, StillPowered DEF Power, Goto
  <2>2. CASE cfg.power
    <3>1. PICK o \in Applied :
            /\ led' = o.led
            /\ IF o.ok THEN Goto("leds") /\ UNCHANGED <<error, spent>>
                       ELSE Fails("cleanup") /\ Fault
      BY <1>4, <2>2 DEF Power
    <3>2. led \in LedSet /\ cfg.power_mode \in PowerMode
      BY DEF DInv, Powered, ParseInv, CfgInv, CfgSet
    <3>3. /\ o.led \in LedSet /\ o.ok \in BOOLEAN
          /\ o.ok => /\ o.led.color = "configured" /\ o.led.brightness = "configured"
                     /\ o.led.mode = Shown(cfg.power_mode)
      BY <3>2, AppliedAll
    <3>4. cfg' = cfg
      BY <3>1 DEF Goto, Fails
    <3>5. CASE o.ok
      BY <3>1, <3>3, <3>4, <3>5 DEF Powered
    <3>6. CASE ~o.ok
      <4>1. pc' = "cleanup"
        BY <3>1, <3>6 DEF Fails, Goto
      <4> QED
        BY <3>1, <3>3, <4>1 DEF Powered
    <3> QED
      BY <3>3, <3>5, <3>6
  <2> QED
    BY <2>1, <2>2
<1>5. CASE Leds
  BY <1>5, StillPowered DEF Leds, Goto, Fails
<1>6. CASE Load
  BY <1>6, StillPowered DEF Load, Goto, Fails
<1>7. CASE CreateQdisc
  BY <1>7, StillPowered DEF CreateQdisc, Goto, Fails
<1>8. ASSUME NEW d \in Dirs, Attach(d)
      PROVE  Powered'
  BY <1>8, StillPowered DEF Attach, Goto, Fails, Dirs
<1>9. ASSUME NEW d \in Dirs, Detach(d)
      PROVE  Powered'
  BY <1>9, StillPowered DEF Detach, Goto
<1>10. CASE AttachRest
  BY <1>10, StillPowered DEF AttachRest, Goto, Fails
<1>11. CASE LeaveLoop
  BY <1>11, StillPowered DEF LeaveLoop, Goto, Fails
<1>12. CASE Detached
  BY <1>12, StillPowered DEF Detached, Goto
<1>13. CASE Cleanup
  BY <1>13, Ended DEF Cleanup
<1>14. CASE Start \/ Restart
  BY <1>14, StillPowered DEF Start, Restart, Begin
<1>15. CASE Kill
  BY <1>15, Ended DEF Kill
<1>16. CASE Terminate
  <2>1. CASE pc = "config" /\ Exit("stopped") /\ UNCHANGED <<others, spent>>
    BY <2>1, Ended
  <2>2. CASE stop' = TRUE
             /\ UNCHANGED <<input, configuration, pc, status, error, led, tc, spent>>
    BY <2>2 DEF DInv, Powered
  <2> QED
    BY <1>16, <2>1, <2>2 DEF Terminate
<1>17. CASE ClearHooks
  BY <1>17, StillPowered DEF ClearHooks
<1> QED
  BY <1>1, <1>2, <1>3, <1>4, <1>5, <1>6, <1>7, <1>8, <1>9, <1>10, <1>11, <1>12,
     <1>13, <1>14, <1>15, <1>16, <1>17
  DEF Next, Main

(* and of every behaviour.                                                 *)
LEMMA DAlways == Spec => []DInv
<1>1. DInv /\ [Next]_vars => DInv'
  <2>1. CASE UNCHANGED vars
    BY <2>1
    DEF vars, input, configuration, tc, spent, DInv, ParseInv, CfgInv, Control,
        Flags, Spent, Hooked, Mine, Powered
  <2> QED
    BY <2>1, ParseStep, ConfigSteps, FlagSteps, ControlStep, HookedStep, PoweredStep DEF DInv
<1> QED
  BY <1>1, DInit, PTL DEF Spec

(* Every variable has its type, and main goes on only with a configuration *)
(* that was accepted.                                                      *)
THEOREM Typing == Spec => []TypeOK
<1>1. DInv => TypeOK
  BY DEF DInv, ParseInv, CfgInv, CfgSet, Control, Flags, Spent, Hooked, Powered, LedSet, Modes,
         TypeOK, ConfigType
<1> QED
  BY <1>1, DAlways, PTL

(* bpf_runtime_stop leaves no filter of this process, wherever the start   *)
(* failed.                                                                 *)
THEOREM NoFilterLeft == Spec => []StoppedClean
<1>1. DInv => StoppedClean
  BY DEF DInv, Hooked, Mine, StoppedClean
<1> QED
  BY <1>1, DAlways, PTL

(* It detaches the filters it installed and no other, and no qdisc.        *)
THEOREM OthersKept == Spec => ForeignKept
<1>1. DInv /\ [Next]_vars =>
        (pc # "down" => others \subseteq filters' /\ qdiscs \subseteq qdiscs')
  <2> SUFFICES ASSUME DInv, [Next]_vars, pc # "down"
               PROVE  others \subseteq filters' /\ qdiscs \subseteq qdiscs'
    OBVIOUS
  <2>1. others \subseteq filters
    BY DEF DInv, Hooked
  <2>2. ASSUME NEW d \in Dirs, Attach(d)
        PROVE  filters \subseteq filters' /\ qdiscs' = qdiscs
    BY <2>2 DEF Attach
  <2>3. ASSUME NEW d \in Dirs, Detach(d)
        PROVE  others \subseteq filters' /\ qdiscs' = qdiscs
    <3>1. <<cfg.interface, d>> \in Mine
      BY <2>3 DEF Detach, Mine
    <3>2. filters \ {<<cfg.interface, d>>} \subseteq filters' /\ qdiscs' = qdiscs
      BY <2>3 DEF Detach
    <3> QED
      BY <2>1, <3>1, <3>2 DEF DInv, Hooked
  <2>4. CASE CreateQdisc
    BY <2>1, <2>4 DEF CreateQdisc, Goto, Fails
  <2>5. CASE UNCHANGED <<filters, qdiscs>>
    BY <2>1, <2>5
  <2>6. \/ CreateQdisc
        \/ \E d \in Dirs : Attach(d) \/ Detach(d)
        \/ UNCHANGED <<filters, qdiscs>>
    BY DEF Next, Main, Configure, Configured, Open, Power, Leds, Load, AttachRest,
           LeaveLoop, Detached, Cleanup, Start, Restart, Begin, Kill, Terminate,
           ClearHooks, Exit, vars, tc
  <2> QED
    BY <2>1, <2>2, <2>3, <2>4, <2>5, <2>6
<1>2. DInv /\ [Next]_vars =>
        [pc # "down" => others \subseteq filters' /\ qdiscs \subseteq qdiscs']_vars
  BY <1>1
<1> QED
  BY <1>2, DAlways, PTL DEF Spec, ForeignKept

(* power_led_apply succeeded before the event loop is entered.             *)
THEOREM PowerLedSet == Spec => []PowerShown
<1>1. DInv => PowerShown
  BY DEF DInv, Powered, PowerShown
<1> QED
  BY <1>1, DAlways, PTL
=============================================================================

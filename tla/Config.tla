------------------------------- MODULE Config -------------------------------
(***************************************************************************)
(* How ugreen-ledd reads its configuration: ebpf/src/config.c.  Defaults,  *)
(* then the lines of the file, then the options of the command line, each  *)
(* checked as it comes, and a check of the whole at the end.               *)
(*                                                                         *)
(* A setting, from a line or an option, is a record whose key names what   *)
(* it sets.  The settings are those that decide which LEDs the daemon      *)
(* drives and the times the MCU adds up; colours, brightnesses and the     *)
(* other times are parsed in the same way and stand alone.  Text that is   *)
(* no number is a number out of range here.                                *)
(***************************************************************************)
EXTENDS Integers, Sequences

CONSTANTS Ifaces,    \* names of interfaces that fit in 15 bytes
          TooLong,   \* one that does not
          NoName,    \* the empty string
          Files,     \* configuration files: sequences of settings
          ArgLists   \* command lines: sequences of settings

ASSUME NameAssumption == TooLong \notin Ifaces /\ NoName \notin Ifaces /\ TooLong # NoName

Parts == {"network", "disks", "power"}

Times == {"disk_interval_ms", "disk_pulse_ms"}

Uint16 == 65535

(* What the keys are.  "power_mode" is in files only; those of Parts are   *)
(* the options --no-..., and they, "config" (the path of the file), "help" *)
(* and "unknown" are on command lines only.                                *)
Setting ==
    [key : {"interface"}, name : Ifaces \cup {TooLong, NoName}]
    \cup [key : Times, ms : Int]
    \cup [key : {"power_mode"}, mode : {"none", "blink", "breath", "bad"},
          on : Nat, off : Nat]
    \cup [key : Parts \cup {"config", "help", "unknown"}]

FileKeys == {"interface", "power_mode"} \cup Times

OptionKeys == {"interface", "config", "help", "unknown"} \cup Times \cup Parts

ASSUME InputAssumption ==
    /\ \A f \in Files : f \in Seq(Setting) /\ \A k \in DOMAIN f : f[k].key \in FileKeys
    /\ \A a \in ArgLists :
         a \in Seq(Setting) /\ \A k \in DOMAIN a : a[k].key \in OptionKeys

VARIABLES file,    \* the lines of the file
          exists,  \* whether there is such a file
          args,    \* argv
          cfg,     \* struct config
          parse,   \* "file", "options", or the end: "accepted", ...
          at       \* the line or option to read next

input == <<file, exists, args>>
configuration == <<cfg, parse, at>>

(* config_set_defaults                                                     *)
Defaults ==
    [interface |-> NoName, network |-> FALSE, disks |-> TRUE, power |-> TRUE,
     disk_interval_ms |-> 100, disk_pulse_ms |-> 45,
     power_mode |-> [mode |-> "on", on |-> 0, off |-> 0]]

BugSumUnchecked(s, from) ==
    /\ s.key # "unknown"
    /\ s.key = "interface" => s.name \in Ifaces \/ (from = "file" /\ s.name = NoName)
    /\ s.key \in Times => s.ms \in 1 .. 1000
    /\ s.key = "power_mode" =>
         \/ s.mode = "none"
         \/ s.mode \in {"blink", "breath"} /\ s.on <= Uint16 /\ s.off <= Uint16

BugNoMaximum(s, from) ==
    /\ s.key # "unknown"
    /\ s.key = "interface" => s.name \in Ifaces \/ (from = "file" /\ s.name = NoName)
    /\ s.key \in Times => s.ms >= 1
    /\ s.key = "power_mode" =>
         \/ s.mode = "none"
         \/ s.mode \in {"blink", "breath"} /\ s.on + s.off <= Uint16

(* copy_interface, parse_unsigned, parse_power_mode.  An empty name is     *)
(* looked at before copy_interface, in the file only.                      *)
Accepts(s, from) ==
    /\ s.key # "unknown"
    /\ s.key = "interface" => s.name \in Ifaces \/ (from = "file" /\ s.name = NoName)
    /\ s.key \in Times => s.ms \in 1 .. 1000
    /\ s.key = "power_mode" =>
         \/ s.mode = "none"
         \/ s.mode \in {"blink", "breath"} /\ s.on + s.off <= Uint16

Mode(s) ==
    IF s.mode = "none" THEN [cfg.power_mode EXCEPT !.mode = "on"]
                       ELSE [mode |-> s.mode, on |-> s.on, off |-> s.off]

(* An interface enables the network, an empty one disables it.             *)
With(s) ==
    IF s.key = "interface"
    THEN [cfg EXCEPT !.interface = s.name, !.network = (s.name # NoName)]
    ELSE IF s.key \in Times THEN [cfg EXCEPT ![s.key] = s.ms]
    ELSE IF s.key = "power_mode" THEN [cfg EXCEPT !.power_mode = Mode(s)]
    ELSE IF s.key \in Parts THEN [cfg EXCEPT ![s.key] = FALSE]
    ELSE cfg

ConfigInit ==
    /\ file \in Files /\ exists \in BOOLEAN /\ args \in ArgLists
    /\ ~exists => file = <<>>
    /\ cfg = Defaults /\ parse = "file" /\ at = 1

Reset == cfg' = Defaults /\ parse' = "file" /\ at' = 1 /\ UNCHANGED input

-----------------------------------------------------------------------------
(* A definition named Bug... is a mistake that could have been made in the *)
(* one after it; it is no part of the specification.                       *)

Take(s) ==
    /\ cfg' = With(s)
    /\ at' = at + 1
    /\ UNCHANGED <<parse, input>>

Finish(outcome) == parse' = outcome /\ UNCHANGED <<cfg, at, input>>

ReadLine ==
    /\ parse = "file" /\ exists /\ at \in DOMAIN file
    /\ IF Accepts(file[at], "file") THEN Take(file[at]) ELSE Finish("rejected")

(* find_config_path                                                        *)
Explicit == \E k \in DOMAIN args : args[k].key = "config"

(* Only the default file may be missing.                                   *)
FileEnds ==
    /\ parse = "file" /\ (~exists \/ at \notin DOMAIN file)
    /\ IF ~exists /\ Explicit
       THEN Finish("rejected")
       ELSE parse' = "options" /\ at' = 1 /\ UNCHANGED <<cfg, input>>

BugOptionNotLast ==
    /\ parse = "options" /\ at \in DOMAIN args
    /\ IF args[at].key = "help" THEN Finish("help")
       ELSE IF ~Accepts(args[at], "options") THEN Finish("rejected")
       ELSE IF \E k \in DOMAIN file : file[k].key = args[at].key
       THEN at' = at + 1 /\ UNCHANGED <<cfg, parse, input>>
       ELSE Take(args[at])

ReadOption ==
    /\ parse = "options" /\ at \in DOMAIN args
    /\ IF args[at].key = "help" THEN Finish("help")
       ELSE IF Accepts(args[at], "options") THEN Take(args[at])
       ELSE Finish("rejected")

OptionsEnd ==
    /\ parse = "options" /\ at \notin DOMAIN args
    /\ Finish(IF /\ cfg.disk_pulse_ms < cfg.disk_interval_ms
                 /\ \E p \in Parts : cfg[p]
              THEN "accepted" ELSE "rejected")

Parse == ReadLine \/ FileEnds \/ ReadOption \/ OptionsEnd

-----------------------------------------------------------------------------
PowerMode == [mode : {"on", "blink", "breath"}, on : Nat, off : Nat]

ConfigType ==
    /\ file \in Files /\ exists \in BOOLEAN /\ args \in ArgLists
    /\ cfg \in [interface : Ifaces \cup {NoName}, network : BOOLEAN,
                disks : BOOLEAN, power : BOOLEAN,
                disk_interval_ms : 1 .. 1000, disk_pulse_ms : 1 .. 1000,
                power_mode : PowerMode]
    /\ parse \in {"file", "options", "accepted", "rejected", "help"}
    /\ at \in Nat \ {0}

(* What the rest of the daemon takes for granted of a configuration it     *)
(* runs with: a network to monitor has a name, a blink has a lit and a     *)
(* dark part, the two never overflow the 16 bits of a command (else the    *)
(* LED controller refuses it and the daemon does not start), and there is  *)
(* something to do; whichever of file and options said so, in any order.   *)
AcceptedSane ==
    parse = "accepted" =>
        /\ cfg.network => cfg.interface \in Ifaces
        /\ 0 < cfg.disk_pulse_ms /\ cfg.disk_pulse_ms < cfg.disk_interval_ms
        /\ cfg.disk_interval_ms <= Uint16
        /\ cfg.power_mode.on + cfg.power_mode.off <= Uint16
        /\ \E p \in Parts : cfg[p]

(* The setting an option is about: an interface also enables the network.  *)
Concerns(s) == IF s.key = "interface" THEN {"interface", "network"} ELSE {s.key}

Says(s, field) ==
    IF s.key = "interface"
    THEN IF field = "interface" THEN cfg.interface = s.name ELSE cfg.network
    ELSE IF s.key \in Times THEN cfg[field] = s.ms
    ELSE field \in Parts => ~cfg[field]

(* ebpf/README.md: command-line options override the configuration file.   *)
(* What the last option about a setting says is so.                        *)
OptionsOverride ==
    parse = "accepted" =>
        \A k \in DOMAIN args : \A field \in Concerns(args[k]) :
            \/ Says(args[k], field)
            \/ \E j \in DOMAIN args : j > k /\ field \in Concerns(args[j])
=============================================================================

------------------------------ MODULE MCDaemon ------------------------------
(* The instances of Daemon that TLC checks.                                *)
EXTENDS Daemon

Line(name) == [key |-> "interface", name |-> name]
Time(key, ms) == [key |-> key, ms |-> ms]
Mode3(mode, on, off) == [key |-> "power_mode", mode |-> mode, on |-> on, off |-> off]
Flag(key) == [key |-> key]

Upto2(S) == {<<>>} \cup {<<a>> : a \in S} \cup {<<a, b>> : a, b \in S}

(* Each kind of line, good and bad, and lines that undo or complete others.*)
MCFiles ==
    {<<>>, <<Line("eth0")>>, <<Line("eth0"), Line(NoName)>>, <<Line(TooLong)>>,
     <<Time("disk_pulse_ms", 100)>>,
     <<Time("disk_interval_ms", 1000), Time("disk_pulse_ms", 100)>>,
     <<Mode3("blink", 65535, 0)>>, <<Mode3("blink", 65535, 1)>>,
     <<Mode3("breath", 500, 500), Mode3("none", 0, 0)>>}

(* All command lines of up to two options, and some that are refused.      *)
MCArgLists ==
    Upto2({Line("eth0"), Time("disk_interval_ms", 100), Flag("config")}
          \cup {Flag(k) : k \in Parts})
    \cup {<<Line(NoName)>>, <<Time("disk_interval_ms", 1001)>>, <<Flag("unknown")>>,
          <<Flag("disks"), Flag("help")>>}

MCForeign == Hooks

(* The unit's command line and a file that says nothing.                   *)
UnitFiles == {<<>>}
UnitArgLists == {<<Line("eth0")>>}
=============================================================================

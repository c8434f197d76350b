------------------------------- MODULE Daemon -------------------------------
(***************************************************************************)
(* The life of ugreen-ledd: main of ebpf/src/main.c with the configuration *)
(* before it, power_led_apply, and bpf_runtime_start and _stop, under the  *)
(* unit ugreen-ledd@.service.                                              *)
(*                                                                         *)
(* What the disk and the network LEDs do is in DiskLeds and NetworkLed;    *)
(* here their start works or fails.  The TC filters of an interface belong *)
(* to the kernel, they outlive the process that installed them.  A hook is *)
(* an interface and a direction; the filters meant are those with the      *)
(* handle and the priority the daemon uses.                                *)
(***************************************************************************)
EXTENDS Config, FiniteSets

CONSTANTS Foreign,    \* hooks on which other programs may have filters
          MaxFaults,  \* bounds of the model on calls that fail
          MaxKills    \*   and on kills

Dirs == {"ingress", "egress"}

Hooks == Ifaces \X Dirs

ASSUME HookAssumption == Foreign \subseteq Hooks
ASSUME BoundAssumption == MaxFaults \in Nat /\ MaxKills \in Nat

VARIABLES pc,        \* what the daemon does; "down" when there is none
          status,    \* how the last one ended, as systemd sees it
          error,     \* main's error is negative
          stop,      \* a SIGTERM is pending
          led,       \* the power LED: its registers, and those the cache knows
          qdiscs,    \* interfaces with a clsact qdisc
          filters,   \* hooks with a filter
          attached,  \* ingress_attached, egress_attached
          faults, kills,  \* spent so far
          others     \* history: hooks with a filter of another program, of a
                     \*   killed daemon, or one whose removal failed

tc == <<qdiscs, filters, attached, others>>
spent == <<faults, kills>>
vars == <<input, configuration, pc, status, error, stop, led, tc, spent>>

Mine == {<<cfg.interface, d>> : d \in attached}

Fault == faults < MaxFaults /\ faults' = faults + 1 /\ UNCHANGED kills

-----------------------------------------------------------------------------
(* The process starts and ends.                                            *)

(* What the MCU shows and what is installed stays.                         *)
Exit(s) ==
    /\ pc' = "down" /\ status' = s
    /\ error' = FALSE /\ stop' = FALSE /\ attached' = {}
    /\ led' = [led EXCEPT !.known = {}]
    /\ UNCHANGED <<input, configuration, qdiscs, filters>>

(* By an operator, or by systemd (Restart=on-failure).                     *)
Begin ==
    /\ pc = "down"
    /\ pc' = "config"
    /\ Reset
    /\ UNCHANGED <<status, error, stop, led, tc, spent>>

Start == status \in {"ok", "stopped"} /\ Begin

Restart == status \in {"failed", "killed"} /\ Begin

Kill ==
    /\ pc # "down"
    /\ kills < MaxKills
    /\ kills' = kills + 1
    /\ Exit("killed")
    /\ others' = others \cup Mine
    /\ UNCHANGED faults

(* SIGTERM is blocked only when the configuration has been read.           *)
Terminate ==
    \/ /\ pc = "config"
       /\ Exit("stopped")
       /\ UNCHANGED <<others, spent>>
    \/ /\ pc \notin {"down", "config"} /\ ~stop
       /\ stop' = TRUE
       /\ UNCHANGED <<input, configuration, pc, status, error, led, tc, spent>>

(* The host is booted, or somebody removes the qdiscs.                     *)
ClearHooks ==
    /\ pc = "down"
    /\ qdiscs' = {} /\ filters' = {} /\ others' = {}
    /\ UNCHANGED <<input, configuration, pc, status, error, stop, led, attached,
                   spent>>

-----------------------------------------------------------------------------
(* main.  A definition named Bug... is a mistake that could have been made *)
(* in the one after it; it is no part of the specification.                *)

Goto(step) == pc' = step /\ UNCHANGED <<input, configuration, status, stop>>

Fails(step) == error' = TRUE /\ Goto(step)

Configure ==
    /\ pc = "config"
    /\ Parse
    /\ UNCHANGED <<pc, status, error, stop, led, tc, spent>>

Configured ==
    /\ pc = "config"
    /\ \/ /\ parse = "accepted"
          /\ Goto("open")
          /\ UNCHANGED <<error, led, tc>>
       \/ parse = "rejected" /\ Exit("failed") /\ UNCHANGED others
       \/ parse = "help" /\ Exit("ok") /\ UNCHANGED others
    /\ UNCHANGED spent

(* The memory limit, the signal descriptor, led_controller_open.           *)
Open ==
    /\ pc = "open"
    /\ \/ Goto("power") /\ UNCHANGED <<error, spent>>
       \/ Fails("cleanup") /\ Fault
    /\ UNCHANGED <<led, tc>>

(* Setters of the LED controller, as the set of their outcomes (see        *)
(* DiskLeds); the times of an accepted mode are never refused.             *)
Put(l, reg, val) ==
    IF reg \in l.known /\ l[reg] = val
    THEN {[led |-> l, ok |-> TRUE]}
    ELSE LET set == [l EXCEPT ![reg] = val] IN
         {[led |-> [set EXCEPT !.known = @ \cup {reg}], ok |-> TRUE]}
         \cup {[led |-> [x EXCEPT !.known = {}], ok |-> FALSE] : x \in {l, set}}

(* The LED that shows the mode: without times when it is just on.          *)
Shown(m) == IF m.mode = "on" THEN [m EXCEPT !.on = 0, !.off = 0] ELSE m

BugColorErrorLost ==
    LET Then(outs, reg, val) == UNION {Put(o.led, reg, val) : o \in outs}
    IN Then(Then(Put(led, "color", "configured"), "brightness", "configured"),
            "mode", Shown(cfg.power_mode))

(* power_led_apply: each setter only when the one before it worked.        *)
Applied ==
    LET Then(outs, reg, val) ==
            UNION {IF o.ok THEN Put(o.led, reg, val) ELSE {o} : o \in outs}
    IN Then(Then(Put(led, "color", "configured"), "brightness", "configured"),
            "mode", Shown(cfg.power_mode))

Power ==
    /\ pc = "power"
    /\ IF ~cfg.power THEN Goto("leds") /\ UNCHANGED <<led, error, spent>>
       ELSE \E o \in Applied :
              /\ led' = o.led
              /\ IF o.ok THEN Goto("leds") /\ UNCHANGED <<error, spent>>
                         ELSE Fails("cleanup") /\ Fault
    /\ UNCHANGED tc

(* disk_leds_init and network_led_init, and whether there is anything to   *)
(* collect.                                                                *)
Leds ==
    /\ pc = "leds"
    /\ \/ /\ Goto(IF cfg.disks \/ cfg.network THEN "object" ELSE "loop")
          /\ UNCHANGED <<error, spent>>
       \/ (cfg.disks \/ cfg.network) /\ Fails("cleanup") /\ Fault
    /\ UNCHANGED <<led, tc>>

-----------------------------------------------------------------------------
(* bpf_runtime_start; whatever fails, it ends with bpf_runtime_stop.       *)

(* The object is loaded, the configuration written to its map.             *)
Load ==
    /\ pc = "object"
    /\ \/ Goto(IF cfg.network THEN "qdisc" ELSE "ring") /\ UNCHANGED <<error, spent>>
       \/ Fails("detach") /\ Fault
    /\ UNCHANGED <<led, tc>>

(* if_nametoindex and bpf_tc_hook_create; a qdisc may exist already.       *)
CreateQdisc ==
    /\ pc = "qdisc"
    /\ \/ /\ qdiscs' = qdiscs \cup {cfg.interface}
          /\ Goto("ingress")
          /\ UNCHANGED <<error, spent>>
       \/ Fails("detach") /\ Fault /\ UNCHANGED qdiscs
    /\ UNCHANGED <<led, filters, attached, others>>

BugAttachedLate(d) ==
    LET hook == <<cfg.interface, d>> IN
    /\ pc = d
    /\ \/ /\ hook \notin filters
          /\ filters' = filters \cup {hook}
          /\ attached' = IF d = "egress" THEN Dirs ELSE {}
          /\ Goto(IF d = "ingress" THEN "egress" ELSE "ring")
          /\ UNCHANGED <<error, spent>>
       \/ /\ Fails("detach")
          /\ (hook \in filters /\ UNCHANGED spent) \/ Fault
          /\ UNCHANGED <<filters, attached>>
    /\ UNCHANGED <<led, qdiscs, others>>

(* bpf_tc_attach without BPF_TC_F_REPLACE: -EEXIST when there is a filter. *)
Attach(d) ==
    LET hook == <<cfg.interface, d>> IN
    /\ pc = d
    /\ \/ /\ hook \notin filters
          /\ filters' = filters \cup {hook}
          /\ attached' = attached \cup {d}
          /\ Goto(IF d = "ingress" THEN "egress" ELSE "ring")
          /\ UNCHANGED <<error, spent>>
       \/ /\ Fails("detach")
          /\ (hook \in filters /\ UNCHANGED spent) \/ Fault
          /\ UNCHANGED <<filters, attached>>
    /\ UNCHANGED <<led, qdiscs, others>>

BugFailsAttached ==
    /\ pc = "ring"
    /\ \/ Goto("loop") /\ UNCHANGED <<error, spent>>
       \/ Fails("cleanup") /\ Fault
    /\ UNCHANGED <<led, tc>>

(* The tracepoint, the ring buffer, disk_leds_sync_bpf.                    *)
AttachRest ==
    /\ pc = "ring"
    /\ \/ Goto("loop") /\ UNCHANGED <<error, spent>>
       \/ Fails("detach") /\ Fault
    /\ UNCHANGED <<led, tc>>

-----------------------------------------------------------------------------
(* run_event_loop returns on a signal or when a handler fails.             *)
LeaveLoop ==
    /\ pc = "loop"
    /\ \/ stop /\ Goto("detach") /\ UNCHANGED <<error, spent>>
       \/ Fails("detach") /\ Fault
    /\ UNCHANGED <<led, tc>>

BugDetachesAny(d) ==
    LET hook == <<cfg.interface, d>> IN
    /\ pc = "detach" /\ hook \in filters
    /\ d = "egress" => <<cfg.interface, "ingress">> \notin filters
    /\ attached' = attached \ {d}
    /\ filters' = filters \ {hook}
    /\ Goto("detach")
    /\ UNCHANGED <<error, led, qdiscs, others, spent>>

(* detach_tc, ingress first; an error is ignored and leaves the filter.    *)
Detach(d) ==
    LET hook == <<cfg.interface, d>> IN
    /\ pc = "detach" /\ d \in attached
    /\ d = "egress" => "ingress" \notin attached
    /\ attached' = attached \ {d}
    /\ \/ filters' = filters \ {hook} /\ UNCHANGED <<others, spent>>
       \/ others' = others \cup {hook} /\ Fault /\ UNCHANGED filters
    /\ Goto("detach")
    /\ UNCHANGED <<error, led, qdiscs>>

Detached ==
    /\ pc = "detach" /\ attached = {}
    /\ Goto("cleanup")
    /\ UNCHANGED <<error, led, tc, spent>>

Cleanup ==
    /\ pc = "cleanup"
    /\ Exit(IF error THEN "failed" ELSE "ok")
    /\ UNCHANGED <<others, spent>>

Main ==
    \/ Configure
    \/ Configured
    \/ Open
    \/ Power
    \/ Leds
    \/ Load
    \/ CreateQdisc
    \/ \E d \in Dirs : Attach(d) \/ Detach(d)
    \/ AttachRest
    \/ LeaveLoop
    \/ Detached
    \/ Cleanup

Registers == {"color", "brightness", "mode"}

OtherMode == [mode |-> "other", on |-> 0, off |-> 0]

(* Other programs may have filters installed.                              *)
Init ==
    /\ ConfigInit
    /\ pc = "down" /\ status = "ok" /\ error = FALSE /\ stop = FALSE
    /\ led = [color |-> "other", brightness |-> "other", mode |-> OtherMode,
              known |-> {}]
    /\ filters \in SUBSET Foreign
    /\ qdiscs = {h[1] : h \in filters}
    /\ attached = {} /\ others = filters
    /\ faults = 0 /\ kills = 0

Next ==
    \/ Main
    \/ Start
    \/ Restart
    \/ Kill
    \/ Terminate
    \/ ClearHooks

Spec == Init /\ [][Next]_vars

(* The daemon's thread runs, and systemd restarts a daemon that failed.    *)
FairSpec == Spec /\ WF_vars(Main) /\ WF_vars(Restart)

-----------------------------------------------------------------------------
(* Every variable has its type.                                            *)
TypeOK ==
    /\ ConfigType
    /\ pc \in {"down", "config", "open", "power", "leds", "object", "qdisc",
               "ingress", "egress", "ring", "loop", "detach", "cleanup"}
    /\ pc \notin {"down", "config"} => parse = "accepted"
    /\ status \in {"ok", "stopped", "failed", "killed"}
    /\ error \in BOOLEAN /\ stop \in BOOLEAN
    /\ led \in [color : {"configured", "other"}, brightness : {"configured", "other"},
                mode : PowerMode \cup {OtherMode}, known : SUBSET Registers]
    /\ qdiscs \subseteq Ifaces /\ filters \subseteq Hooks /\ others \subseteq Hooks
    /\ attached \subseteq Dirs
    /\ faults \in 0 .. MaxFaults /\ kills \in 0 .. MaxKills

(* A daemon that ended by itself leaves no filter behind, wherever its     *)
(* start failed (bpf_runtime_stop at the end of bpf_runtime_start and of   *)
(* main): the filters there are belong to other programs, or to a daemon   *)
(* that was killed, or their removal was tried and failed.                 *)
StoppedClean == pc = "down" => filters \subseteq others

(* ebpf/README.md: the daemon detaches only the TC filters it installed    *)
(* and leaves an existing clsact qdisc in place.                           *)
ForeignKept ==
    [][pc # "down" => others \subseteq filters' /\ qdiscs \subseteq qdiscs']_vars

(* ebpf/README.md: at startup the daemon applies the settings of the power *)
(* LED.  A daemon that runs has done so, whatever failed before.           *)
PowerShown ==
    pc = "loop" /\ cfg.power =>
        /\ led.color = "configured" /\ led.brightness = "configured"
        /\ led.mode = Shown(cfg.power_mode)

(* The unit restarts a daemon that failed, and the next one runs (or is    *)
(* stopped while it reads its configuration): a failure leaves nothing     *)
(* that is in the way of the next start.  What may be is a filter, on the  *)
(* interface of the configuration, that another program installed, that a  *)
(* killed daemon left, or whose removal failed.                            *)
FailureRetried ==
    pc = "cleanup" /\ error ~>
        \/ pc = "loop"
        \/ cfg.network /\ \E d \in Dirs : <<cfg.interface, d>> \in others
        \/ pc = "down" /\ status = "stopped"

(* ugreen-ledd@.service, Restart=on-failure: also one that was killed.     *)
KilledRestarts ==
    pc = "down" /\ status = "killed" ~>
        \/ pc = "loop"
        \/ pc = "down" /\ status = "stopped"
=============================================================================

-------------------------- MODULE MCHealthMonitor --------------------------
(* The instance of HealthMonitor that TLC checks: the disks are enumerated *)
(* from the last bay to the first, as bash does, and have the one colour   *)
(* that the configuration of the repository gives them.                    *)
EXTENDS HealthMonitor

CONSTANTS White, disk1, disk2

MCLedMap == <<disk1, disk2>>
MCHashOrder == <<disk2, disk1>>
MCHealth == [l \in Leds |-> White]
=============================================================================

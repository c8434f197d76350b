----------------------------- MODULE Scheduler -----------------------------
(***************************************************************************)
(* ebpf/src/scheduler.c: which direction the next network pulse shows.     *)
(* Each call is given the bytes received and sent since the last pulse;    *)
(* only their ratio matters, and shares are counted in parts of D, so that *)
(* 1.0 of the code is D here.  The rounding of the code's long doubles is  *)
(* left out, and so is the saturation of the pulse counters at 2^64.       *)
(***************************************************************************)
EXTENDS Integers

CONSTANTS D,          \* what a share of 1 is counted in
          MaxSamples  \* bound of the model on the calls

ASSUME ShareAssumption == D \in Nat \ {0}
ASSUME SampleAssumption == MaxSamples \in Nat

VARIABLES rx_credit, tx_credit,  \* pulse_scheduler
          rx_pulses, tx_pulses,
          earned,  \* history: RX's shares of the mixed samples, added up
          given,   \* history: RX's pulses for mixed samples
          last     \* history: the last mixed sample, RX's share and the choice

scheduler == <<rx_credit, tx_credit, rx_pulses, tx_pulses, earned, given, last>>

NoSample == [share |-> 0, rx |-> FALSE]

SchedulerInit ==
    /\ rx_credit = 0 /\ tx_credit = 0
    /\ rx_pulses = 0 /\ tx_pulses = 0
    /\ earned = 0 /\ given = 0
    /\ last = NoSample

Bounded == rx_pulses + tx_pulses < MaxSamples

Pulse(rx) ==
    IF rx THEN rx_pulses' = rx_pulses + 1 /\ UNCHANGED tx_pulses
          ELSE tx_pulses' = tx_pulses + 1 /\ UNCHANGED rx_pulses

(* A sample of one direction gets its pulse and leaves the credits alone.  *)
ChooseOnly(rx) ==
    /\ Bounded
    /\ Pulse(rx)
    /\ UNCHANGED <<rx_credit, tx_credit, earned, given, last>>

BugUnpaidPulse(share) ==
    LET rx == rx_credit + share >= tx_credit + (D - share) IN
    /\ Bounded
    /\ rx_credit' = rx_credit + share
    /\ tx_credit' = tx_credit + (D - share) - (IF rx THEN 0 ELSE D)
    /\ Pulse(rx)
    /\ earned' = earned + share
    /\ given' = given + (IF rx THEN 1 ELSE 0)
    /\ last' = [share |-> share, rx |-> rx]

BugTotalRatio(share) ==
    LET rx == earned + share >= (rx_pulses + tx_pulses + 1) * D - earned - share IN
    /\ Bounded
    /\ rx_credit' = rx_credit + share - (IF rx THEN D ELSE 0)
    /\ tx_credit' = tx_credit + (D - share) - (IF rx THEN 0 ELSE D)
    /\ Pulse(rx)
    /\ earned' = earned + share
    /\ given' = given + (IF rx THEN 1 ELSE 0)
    /\ last' = [share |-> share, rx |-> rx]

(* A mixed sample: each direction earns its share, the one with more       *)
(* credit pays for the pulse.                                              *)
ChooseMixed(share) ==
    LET rx == rx_credit + share >= tx_credit + (D - share) IN
    /\ Bounded
    /\ rx_credit' = rx_credit + share - (IF rx THEN D ELSE 0)
    /\ tx_credit' = tx_credit + (D - share) - (IF rx THEN 0 ELSE D)
    /\ Pulse(rx)
    /\ earned' = earned + share
    /\ given' = given + (IF rx THEN 1 ELSE 0)
    /\ last' = [share |-> share, rx |-> rx]

SchedulerNext ==
    \/ \E rx \in BOOLEAN : ChooseOnly(rx)
    \/ \E share \in 1 .. D - 1 : ChooseMixed(share)

SchedulerSpec == SchedulerInit /\ [][SchedulerNext]_scheduler

-----------------------------------------------------------------------------
(* The pulses RX was given for mixed traffic never differ from what its    *)
(* bytes earned by more than half a pulse, whatever sequence of ratios     *)
(* came before: over any stretch of samples the colours follow the ratio   *)
(* to within one pulse, and no old traffic is still to be paid for.        *)
FairShare == 2 * (earned - D * given) \in (-D) .. D

(* ebpf/README.md: old traffic does not pin the colour.  A direction with  *)
(* more than half of two mixed samples in a row gets one of their pulses,  *)
(* after any history of the other direction.                               *)
NotPinned ==
    [][earned' # earned /\ last # NoSample =>
         /\ 2 * last.share > D /\ 2 * last'.share > D => last.rx \/ last'.rx
         /\ 2 * last.share < D /\ 2 * last'.share < D => ~last.rx \/ ~last'.rx]_scheduler
=============================================================================

---------------------------- MODULE MCLedDriver ----------------------------
(* The instance of LedDriver that TLC checks.                              *)
EXTENDS LedDriver, TLC

Symmetry == Permutations(Leds) \cup Permutations(Tasks)
=============================================================================

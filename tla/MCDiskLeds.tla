----------------------------- MODULE MCDiskLeds -----------------------------
(* The instances of DiskLeds that TLC checks.                              *)
EXTENDS DiskLeds, TLC

MCBays == {0, 1}

Symmetry == Permutations(Devs)
=============================================================================

-------------------------- MODULE MCDiskCollector --------------------------
(* The instance of DiskCollector that TLC checks.                          *)
EXTENDS DiskCollector, TLC

Symmetry == Permutations(Cpus) \cup Permutations(Devs) \cup Permutations(Cells)
=============================================================================

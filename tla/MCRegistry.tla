----------------------------- MODULE MCRegistry -----------------------------
(* Registry on a small instance, for TLC.                                  *)
EXTENDS RegistryInv, TLC

Symmetry ==
  Permutations(Threads) \cup Permutations(Instances) \cup Permutations(Keys)
    \cup Permutations(PhysDevs) \cup Permutations(Devices)
    \cup Permutations(Customs)
=============================================================================

----------------------------- MODULE MCNbdBoot -----------------------------
(* Instances of NbdBoot for TLC. *)
EXTENDS NbdBoot, TLC

CONSTANTS k1, k2

Upgrades == {<<k1, k2>>}

Symmetry == Permutations(Instance) \cup Permutations(Disk)
=============================================================================

-------------------------- MODULE MCInventoryScans --------------------------
(* Instances of InventoryScans for TLC.                                     *)
EXTENDS InventoryScans, TLC

Symmetry ==
  Permutations(Runs) \cup Permutations(Dispatchers) \cup Permutations(Workers)

==============================================================================

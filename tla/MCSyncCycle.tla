---------------------------- MODULE MCSyncCycle ----------------------------
(* Small instances of SyncCycle. *)
EXTENDS SyncCycle, TLC

ContentSymmetry == Permutations(Content)
Symmetry == Permutations(Path) \cup Permutations(Content \ Large)
=============================================================================

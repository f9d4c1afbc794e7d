--------------------------- MODULE MCPriorityPull ---------------------------
(* Small instances of PriorityPull. *)
EXTENDS PriorityPull, TLC

Symmetry == Permutations(Path)
=============================================================================

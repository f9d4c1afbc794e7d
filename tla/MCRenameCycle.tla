---------------------------- MODULE MCRenameCycle ----------------------------
(* RenameCycle on a small instance. *)
EXTENDS RenameCycle
=============================================================================

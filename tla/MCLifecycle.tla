----------------------------- MODULE MCLifecycle -----------------------------
EXTENDS Lifecycle, TLC
Symmetry == Permutations(Target) \cup Permutations(Object)
=============================================================================

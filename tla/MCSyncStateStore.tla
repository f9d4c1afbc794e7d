-------------------------- MODULE MCSyncStateStore --------------------------
(* Small instances of SyncStateStore for TLC.                              *)
EXTENDS SyncStateStore, TLC

\* Identities, paths, hashes and clients are interchangeable.
Symmetry == Permutations(Identity) \cup Permutations(Path) \cup
            Permutations(Hash) \cup Permutations(Client)

=============================================================================

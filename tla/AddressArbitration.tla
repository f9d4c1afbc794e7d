------------------------- MODULE AddressArbitration -------------------------
(***************************************************************************)
(* Which of two provider objects holds a cache address both derive         *)
(* (fs/caching/address-arbitration.ts).  A claim is an identity, how its   *)
(* address was produced, and whether the object is a folder; arrival order *)
(* is no part of it.  Identities are numbers: the code compares them as    *)
(* strings, and only their order matters.                                  *)
(***************************************************************************)
EXTENDS Naturals

Authorities == {"actual_resolved", "requested_echo"}

AddressClaim == [id : Nat, authority : Authorities, isFolder : BOOLEAN]

\* Two folders that the provider itself resolved to one path are one vault
\* folder.  An echo never merges: its parent chain does not reach the root.
MergesAsOneFolder(left, right) ==
  /\ left.id # right.id
  /\ left.isFolder /\ right.isFolder
  /\ left.authority = "actual_resolved"
  /\ right.authority = "actual_resolved"

AuthorityRank(claim) == IF claim.authority = "actual_resolved" THEN 0 ELSE 1

\* The total order behind every outcome: authority, then the smallest identity.
Precedes(left, right) ==
  \/ AuthorityRank(left) < AuthorityRank(right)
  \/ AuthorityRank(left) = AuthorityRank(right) /\ left.id < right.id

Contested(left, right) == left.id # right.id /\ ~ MergesAsOneFolder(left, right)

Admitted(incumbent, claimant) ==
  IF incumbent.id = claimant.id \/ Precedes(incumbent, claimant)
    THEN incumbent ELSE claimant

\* The decision: who holds the address, who does not, and whether the loser is
\* a provider object that can be renamed out of the way.
Outcome(admitted, withheld, contested) ==
  [admittedId |-> admitted.id,
   withheldId |-> IF contested THEN {withheld.id} ELSE {},
   owesRemediation |-> contested /\ withheld.authority = "actual_resolved"]

ArbitrateAddress(incumbent, claimant) ==
  IF Admitted(incumbent, claimant) = incumbent
    THEN Outcome(incumbent, claimant, Contested(incumbent, claimant))
    ELSE Outcome(claimant, incumbent, Contested(incumbent, claimant))

\* The one claim of a set that every other claim yields to (admitOne folds the
\* arbiter over the set; Precedes being total, the order cannot matter).
Holder(claims) == CHOOSE c \in claims : \A d \in claims : Admitted(c, d).id = c.id
=============================================================================

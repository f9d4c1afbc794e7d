--------------------------- MODULE RemoteCheckpoint ---------------------------
(***************************************************************************)
(* What the remote filesystem promises about its checkpoint: a working     *)
(* view moves forward through the log, is saved only whole, and is lost    *)
(* without a trace; the saved one never goes back while it is not          *)
(* forgotten.  Both are sets of at most one element.                       *)
(***************************************************************************)
EXTENDS Integers

VARIABLES working, \* [view, position, whole]
          saved    \* [view, position]

Init == working = {} /\ saved = {}

\* Nothing in memory: the view starts from what is saved, or from a scan.
Acquire ==
  /\ working = {}
  /\ \E w \in working' :
       /\ working' = {w} /\ w.position \in Nat /\ ~ w.whole
       /\ \A s \in saved : w.position >= s.position
  /\ UNCHANGED saved

Advance ==
  /\ \E w \in working, n \in working' :
       working' = {n} /\ n.position \in Nat /\ n.position >= w.position
  /\ UNCHANGED saved

Save ==
  /\ \E w \in working :
       w.whole /\ saved' = {[view |-> w.view, position |-> w.position]}
  /\ UNCHANGED working

Lose == working' = {} /\ UNCHANGED saved

Forget == working' = {} /\ saved' = {}

Next == Acquire \/ Advance \/ Save \/ Lose \/ Forget

Spec == Init /\ [][Next]_<<working, saved>>
=============================================================================

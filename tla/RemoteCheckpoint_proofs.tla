----------------------- MODULE RemoteCheckpoint_proofs -----------------------
(***************************************************************************)
(* What every remote filesystem that keeps to RemoteCheckpoint guarantees  *)
(* of its saved cursor.                                                    *)
(***************************************************************************)
EXTENDS RemoteCheckpoint, TLAPS

Positions ==
  /\ \A w \in working : w.position \in Nat
  /\ \A s \in saved : s.position \in Nat

\* The view that is worked on is never older than what is saved, so saving it
\* repeats no change and skips none backwards.
ViewIsAhead == \A w \in working, s \in saved : w.position >= s.position

OneView == \A v, w \in working : v = w

OneSaved == \A s, t \in saved : s = t

IInv == Positions /\ OneView /\ OneSaved /\ ViewIsAhead

LEMMA IInvAtStart == Init => IInv
BY DEF Init, IInv, Positions, OneView, OneSaved, ViewIsAhead

LEMMA IInvIsKept == IInv /\ [Next]_<<working, saved>> => IInv'
<1> SUFFICES ASSUME IInv, [Next]_<<working, saved>> PROVE IInv'
  OBVIOUS
<1>1. CASE Acquire
  BY <1>1 DEF Acquire, IInv, Positions, OneView, OneSaved, ViewIsAhead
<1>2. CASE Advance
  <2>1. PICK w \in working, n \in working' :
          working' = {n} /\ n.position \in Nat /\ n.position >= w.position
    BY <1>2 DEF Advance
  <2>2. saved' = saved
    BY <1>2 DEF Advance
  <2>3. Positions'
    BY <2>1, <2>2 DEF IInv, Positions
  <2>4. ASSUME NEW s \in saved PROVE n.position >= s.position
    <3>1. w.position >= s.position /\ w.position \in Nat /\ s.position \in Nat
      BY DEF IInv, Positions, ViewIsAhead
    <3> QED BY <2>1, <3>1
  <2>5. ViewIsAhead'
    BY <2>1, <2>2, <2>4 DEF ViewIsAhead
  <2>6. OneView' /\ OneSaved'
    BY <2>1, <2>2 DEF IInv, OneView, OneSaved
  <2> QED BY <2>3, <2>5, <2>6 DEF IInv
<1>3. CASE Save
  <2>1. PICK w \in working : saved' = {[view |-> w.view, position |-> w.position]}
    BY <1>3 DEF Save
  <2>2. working' = working
    BY <1>3 DEF Save
  <2>3. Positions'
    BY <2>1, <2>2 DEF IInv, Positions
  <2>4. ViewIsAhead'
    BY <2>1, <2>2 DEF IInv, Positions, OneView, OneSaved, ViewIsAhead
  <2>5. OneView' /\ OneSaved'
    BY <2>1, <2>2 DEF IInv, OneView, OneSaved
  <2> QED BY <2>3, <2>4, <2>5 DEF IInv
<1>4. CASE Lose
  BY <1>4 DEF Lose, IInv, Positions, OneView, OneSaved, ViewIsAhead
<1>5. CASE Forget
  BY <1>5 DEF Forget, IInv, Positions, OneView, OneSaved, ViewIsAhead
<1>6. CASE UNCHANGED <<working, saved>>
  BY <1>6 DEF IInv, Positions, OneView, OneSaved, ViewIsAhead
<1> QED BY <1>1, <1>2, <1>3, <1>4, <1>5, <1>6 DEF Next

\* remote-fs.ts: commitCheckpoint saves the view in memory with its cursor; the
\* view is never one from before the checkpoint it replaces.
THEOREM ViewNeverTrailsCheckpoint == Spec => []ViewIsAhead
<1>1. IInv => ViewIsAhead
  BY DEF IInv
<1> QED BY <1>1, IInvAtStart, IInvIsKept, PTL DEF Spec

\* While a checkpoint is not forgotten altogether its cursor only moves forward:
\* no change of the log is taken out of the saved view again, whatever attempts
\* failed, were discarded or ended with the process in between.
NeverGoesBack ==
  [][\A old \in saved, new \in saved' : new.position >= old.position]_<<working, saved>>

THEOREM CheckpointNeverGoesBack == Spec => NeverGoesBack
<1> DEFINE Forward == \A old \in saved, new \in saved' : new.position >= old.position
<1>1. ASSUME IInv, [Next]_<<working, saved>>
      PROVE  [Forward]_<<working, saved>>
  <2>1. CASE saved' = saved
    <3>1. \A s, t \in saved : s = t => s.position >= t.position
      BY <1>1 DEF IInv, Positions
    <3>2. OneSaved
      BY <1>1 DEF IInv
    <3> QED BY <2>1, <3>1, <3>2 DEF OneSaved
  <2>2. CASE Save
    <3>1. PICK w \in working : saved' = {[view |-> w.view, position |-> w.position]}
      BY <2>2 DEF Save
    <3> QED BY <1>1, <3>1 DEF IInv, ViewIsAhead
  <2>3. CASE Forget
    BY <2>3 DEF Forget
  <2> QED BY <1>1, <2>1, <2>2, <2>3 DEF Next, Acquire, Advance, Lose
<1> QED BY <1>1, IInvAtStart, IInvIsKept, PTL DEF Spec, NeverGoesBack
=============================================================================

------------------------ MODULE PriorityCoordinator ------------------------
(***************************************************************************)
(* The safe point between the normal actions of a sync cycle, the pulls of *)
(* opened files and the close of the cycle                                 *)
(* (src/src/sync/priority-coordinator.ts).                                 *)
(*                                                                         *)
(* A normal action holds a permit from before its effect until after its   *)
(* publication.  Pulls and finalizers run one at a time, and only while    *)
(* nobody holds a permit.  The code runs to completion between two awaits, *)
(* so an action here is one synchronous stretch: a call together with the  *)
(* drain it starts, up to the first run the drain awaits.  The drain is    *)
(* under way (`draining`) exactly while it awaits one, `current`.          *)
(***************************************************************************)
EXTENDS Naturals, Sequences, Functions

CONSTANTS
    Worker,      \* holders of normal permits
    Path,        \* vault paths a pull can be queued for
    Finalizer,   \* `current` when the drain runs a finalizer
    None         \* `current` when no drain is under way

ASSUME CurrentAssumption == Finalizer \notin Path /\ None \notin Path \cup {Finalizer}

VARIABLES
    active,      \* holders of a permit: activeNormal counts them
    waiting,     \* normalWaiters, which are always admitted together
    queued,      \* pending: the map of queued pulls, in insertion order
    finalizers,  \* number of finalizers waiting
    current      \* what the drain awaits

coordinator == <<active, waiting, queued, finalizers, current>>

CoordinatorTypeOK ==
    /\ active \subseteq Worker
    /\ waiting \subseteq Worker \ active
    /\ queued \in Seq(Path) /\ IsInjective(queued)
    /\ finalizers \in Nat
    /\ current \in Path \cup {Finalizer, None}

CoordinatorInit ==
    /\ active = {} /\ waiting = {}
    /\ queued = <<>> /\ finalizers = 0
    /\ current = None

-----------------------------------------------------------------------------
(* The drain, over the fields as the caller leaves them.                    *)

(* Priority first, then a finalizer; with neither, the waiters go on.       *)
Drain(holders, waiters, queue, closers) ==
    \/ /\ holders = {} /\ queue # <<>>
       /\ current' = Head(queue) /\ queued' = Tail(queue)
       /\ finalizers' = closers /\ active' = holders /\ waiting' = waiters
    \/ /\ holders = {} /\ queue = <<>> /\ closers > 0
       /\ current' = Finalizer /\ finalizers' = closers - 1
       /\ queued' = queue /\ active' = holders /\ waiting' = waiters
    \/ /\ queue = <<>> /\ closers = 0
       /\ current' = None /\ active' = holders \cup waiters /\ waiting' = {}
       /\ queued' = queue /\ finalizers' = closers
    \/ /\ holders # {} /\ (queue # <<>> \/ closers > 0)
       /\ current' = None
       /\ active' = holders /\ waiting' = waiters
       /\ queued' = queue /\ finalizers' = closers

RequestDrain(holders, waiters, queue, closers) ==
    IF current # None \/ holders # {}
    THEN /\ active' = holders /\ waiting' = waiters
         /\ queued' = queue /\ finalizers' = closers
         /\ UNCHANGED current
    ELSE Drain(holders, waiters, queue, closers)

-----------------------------------------------------------------------------
(* The operations.                                                          *)

(* Mutant: a drain that has emptied the queue does not hold actions back.   *)
AdmitDuringDrain == queued = <<>> /\ finalizers = 0

(* Mutant: queued work holds an action back only once it runs.              *)
AdmitBetweenRuns == current = None

CanAdmitNormal == current = None /\ queued = <<>> /\ finalizers = 0

AcquireNormalPermit(w) ==
    /\ w \notin active \cup waiting
    /\ IF CanAdmitNormal
       THEN active' = active \cup {w} /\ UNCHANGED waiting
       ELSE waiting' = waiting \cup {w} /\ UNCHANGED active
    /\ UNCHANGED <<queued, finalizers, current>>

(* Mutant: the last permit returned does not look for queued work.          *)
ReleaseSilently(w) ==
    /\ w \in active
    /\ active' = active \ {w}
    /\ UNCHANGED <<waiting, queued, finalizers, current>>

Release(w) ==
    /\ w \in active
    /\ RequestDrain(active \ {w}, waiting, queued, finalizers)

(* Mutant: every open is queued, whatever is queued for the path already.   *)
EnqueueEvery(p) == RequestDrain(active, waiting, Append(queued, p), finalizers)

(* A path already queued is joined by another waiter of the same run.       *)
Enqueue(p) ==
    IF p \in Range(queued)
    THEN UNCHANGED coordinator
    ELSE RequestDrain(active, waiting, Append(queued, p), finalizers)

Finalize == RequestDrain(active, waiting, queued, finalizers + 1)

(* What the drain awaits has settled, one way or the other.                 *)
Settle ==
    /\ current # None
    /\ Drain(active, waiting, queued, finalizers)

CoordinatorNext ==
    \/ \E w \in Worker : AcquireNormalPermit(w) \/ Release(w)
    \/ \E p \in Path : Enqueue(p)
    \/ Finalize
    \/ Settle

CoordinatorSpec == CoordinatorInit /\ [][CoordinatorNext]_coordinator

-----------------------------------------------------------------------------
(* Properties.                                                              *)

(* Pulls and finalizers run where no normal action is between its effect    *)
(* and its publication (docs/sync-pipeline.md, "runs only where no normal   *)
(* action is half-applied").                                                *)
SafePoint == current # None => active = {}

(* No wakeup is lost: whoever waits, for a permit or for its turn, waits    *)
(* for somebody who is running and whose end starts the drain.              *)
NobodyWaitsForNothing ==
    waiting # {} \/ queued # <<>> \/ finalizers > 0 =>
        active # {} \/ current # None

(* A permit is granted only when every queued pull and finalizer has been   *)
(* served: a queued open overtakes every normal action that has not begun.  *)
PriorityFirst ==
    [][~(active' \subseteq active) => queued' = <<>> /\ finalizers' = 0
                                      /\ current' = None]_coordinator

=============================================================================

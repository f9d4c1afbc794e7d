---------------------------- MODULE AdaptivePool ----------------------------
(***************************************************************************)
(* The pool that runs transfers and listings (src/backend-api/             *)
(* async-queue.ts): a ceiling on running tasks that rises with clean runs  *)
(* and is halved when a provider throttles, a budget of bytes in flight,   *)
(* and a queue without overtaking.  Each action is one synchronous stretch *)
(* of the code.  A task runs when it has arrived and does not wait.        *)
(***************************************************************************)
EXTENDS Integers, Sequences

CONSTANTS
    Task,           \* what is handed to the pool
    Size,           \* the bytes of each task
    MinLimit, StartLimit, MaxLimit, RampAfter, ByteBudget

ASSUME PoolAssumption ==
    /\ MinLimit \in Nat \ {0}
    /\ MaxLimit \in Nat /\ MinLimit <= MaxLimit
    /\ StartLimit \in Nat /\ RampAfter \in Nat \ {0} /\ ByteBudget \in Nat
    /\ Size \in [Task -> Nat]

VARIABLES
    limit,          \* the ceiling of now
    running,        \* how many tasks run
    inFlightBytes,  \* and their bytes
    waiting,        \* tasks not yet admitted, first come first
    successStreak   \* clean runs since the ceiling last moved or a run failed

pool == <<limit, running, inFlightBytes, waiting, successStreak>>

PoolTypeOK ==
    /\ limit \in MinLimit .. MaxLimit
    /\ running \in Int
    /\ waiting \in Seq(Task)
    /\ successStreak \in Nat

AtLeast(a, b) == IF a < b THEN b ELSE a

PoolInit ==
    /\ limit = IF AtLeast(StartLimit, MinLimit) < MaxLimit
                 THEN AtLeast(StartLimit, MinLimit) ELSE MaxLimit
    /\ running = 0
    /\ inFlightBytes = 0
    /\ waiting = <<>>
    /\ successStreak = 0

(* Whether a task of this size fits beside n running ones; an empty pool    *)
(* takes any.                                                               *)
CanAdmit(ceiling, n, bytes, size) ==
    /\ n < ceiling
    /\ n = 0 \/ bytes + size <= ByteBudget

(* The bytes of the first k waiters.                                        *)
Ahead(k) ==
    LET sum[j \in 0 .. Len(waiting)] ==
            IF j = 0 THEN 0 ELSE sum[j - 1] + Size[waiting[j]]
    IN  sum[k]

(* Mutant: every waiter is looked at against the same state.                *)
DrainUnreserved(ceiling, n, bytes) ==
    \E k \in 0 .. Len(waiting) :
        /\ \A j \in 1 .. k : CanAdmit(ceiling, n, bytes, Size[waiting[j]])
        /\ k < Len(waiting) => ~CanAdmit(ceiling, n, bytes, Size[waiting[k + 1]])
        /\ running' = n + k
        /\ inFlightBytes' = bytes + Ahead(k)
        /\ waiting' = SubSeq(waiting, k + 1, Len(waiting))

(* Waiters are admitted from the front, each as if those before it already  *)
(* ran, until one does not fit; it holds up those behind it.                *)
Drain(ceiling, n, bytes) ==
    \E k \in 0 .. Len(waiting) :
        /\ \A j \in 1 .. k :
              CanAdmit(ceiling, n + j - 1, bytes + Ahead(j - 1), Size[waiting[j]])
        /\ k < Len(waiting) =>
              ~CanAdmit(ceiling, n + k, bytes + Ahead(k), Size[waiting[k + 1]])
        /\ running' = n + k
        /\ inFlightBytes' = bytes + Ahead(k)
        /\ waiting' = SubSeq(waiting, k + 1, Len(waiting))

(* A task enters at once only if nobody waits.                              *)
Arrive(t) ==
    /\ \/ /\ waiting = <<>>
          /\ CanAdmit(limit, running, inFlightBytes, Size[t])
          /\ running' = running + 1
          /\ inFlightBytes' = inFlightBytes + Size[t]
          /\ UNCHANGED waiting
       \/ /\ waiting # <<>> \/ ~CanAdmit(limit, running, inFlightBytes, Size[t])
          /\ waiting' = Append(waiting, t)
          /\ UNCHANGED <<running, inFlightBytes>>
    /\ UNCHANGED <<limit, successStreak>>

Ramps == successStreak + 1 >= RampAfter /\ limit < MaxLimit

(* Mutant: gives back its place and looks no further.                       *)
ResolveQuietly(t) ==
    /\ limit' = IF Ramps THEN limit + 1 ELSE limit
    /\ successStreak' = IF Ramps THEN 0 ELSE successStreak + 1
    /\ running' = running - 1
    /\ inFlightBytes' = inFlightBytes - Size[t]
    /\ UNCHANGED waiting

(* A run that resolves: the ceiling may rise, and the task gives back its   *)
(* place.  The code drains after each; both together admit what the second  *)
(* alone would.                                                             *)
Resolve(t) ==
    /\ limit' = IF Ramps THEN limit + 1 ELSE limit
    /\ successStreak' = IF Ramps THEN 0 ELSE successStreak + 1
    /\ Drain(limit', running - 1, inFlightBytes - Size[t])

Reject(t) ==
    /\ successStreak' = 0
    /\ limit' = limit
    /\ Drain(limit, running - 1, inFlightBytes - Size[t])

(* A throttled task lowers the ceiling, once for all that ran above it.     *)
NoteRateLimit ==
    /\ IF running > limit
         THEN UNCHANGED <<limit, successStreak>>
         ELSE /\ limit' = AtLeast(limit \div 2, MinLimit)
              /\ successStreak' = 0
    /\ UNCHANGED <<running, inFlightBytes, waiting>>

PoolNext ==
    \/ \E t \in Task : Arrive(t) \/ Resolve(t) \/ Reject(t)
    \/ NoteRateLimit

PoolSpec == PoolInit /\ [][PoolNext]_pool

-----------------------------------------------------------------------------
(* Nobody waits for a place that is there: the pool is looked at again      *)
(* wherever room may appear (async-queue.ts, drain), so while anyone waits  *)
(* somebody runs who will look again.                                       *)
NobodyWaitsForRoom ==
    waiting # <<>> =>
        ~CanAdmit(limit, running, inFlightBytes, Size[Head(waiting)])

Admits == running' > running \/ Len(waiting') < Len(waiting)

(* No task is let in above the ceiling of that moment, also after it was    *)
(* halved while more ran, by however many ways room appears at once.        *)
CeilingHolds == [][Admits => running' <= limit']_pool

(* Nor above the budget of bytes, unless it runs alone.                     *)
AdmitsWithinBounds ==
    [][Admits => /\ running' <= limit'
                 /\ running' = 1 \/ inFlightBytes' <= ByteBudget]_pool
=============================================================================

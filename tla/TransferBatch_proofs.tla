------------------------ MODULE TransferBatch_proofs ------------------------
(***************************************************************************)
(* Proofs about a plan of calls, for any plan, providers and faults.       *)
(*                                                                         *)
(* The transfer pool, alone and under a plan: for any tasks, sizes,        *)
(* ceilings and budget.  The tokens: one refresh is under way at most, and *)
(* what it brought is the newest token until it is stored.  The reads: a   *)
(* version keeps its content and is never given out again, so bytes        *)
(* compared under a version are that version's.  The changes: no request   *)
(* changes a file before the adapter has compared it with what the caller  *)
(* admitted.                                                               *)
(***************************************************************************)
EXTENDS TransferBatch, WellFoundedInduction, TLAPS

PoolInv == PoolTypeOK /\ NobodyWaitsForRoom

(* Draining stops only where the next waiter does not fit, and takes the    *)
(* waiters it admits off the front.                                         *)
LEMMA DrainStops ==
    ASSUME NEW ceiling \in Int, NEW n \in Int, NEW bytes,
           waiting \in Seq(Task), limit' = ceiling, Drain(ceiling, n, bytes)
    PROVE  /\ waiting' \in Seq(Task)
           /\ running' \in Int
           /\ NobodyWaitsForRoom'
           /\ running' > n => running' <= ceiling
           /\ Len(waiting) - Len(waiting') = running' - n
<1>1. PICK k \in 0 .. Len(waiting) :
        /\ \A j \in 1 .. k :
              CanAdmit(ceiling, n + j - 1, bytes + Ahead(j - 1), Size[waiting[j]])
        /\ k < Len(waiting) =>
              ~CanAdmit(ceiling, n + k, bytes + Ahead(k), Size[waiting[k + 1]])
        /\ running' = n + k
        /\ inFlightBytes' = bytes + Ahead(k)
        /\ waiting' = SubSeq(waiting, k + 1, Len(waiting))
  BY DEF Drain
<1>2. waiting' \in Seq(Task) /\ Len(waiting') = Len(waiting) - k
  BY <1>1
<1>3. running' \in Int
  BY <1>1
<1>4. NobodyWaitsForRoom'
  <2>1. SUFFICES ASSUME waiting' # <<>>
                 PROVE  ~CanAdmit(limit', running', inFlightBytes', Size[Head(waiting')])
    BY DEF NobodyWaitsForRoom, CanAdmit
  <2>2. k < Len(waiting) /\ Head(waiting') = waiting[k + 1]
    BY <1>1, <1>2, <2>1
  <2>3. QED
    BY <1>1, <2>2
<1>5. ASSUME running' > n PROVE running' <= ceiling
  <2>1. k \in 1 .. k
    BY <1>1, <1>5
  <2>2. CanAdmit(ceiling, n + k - 1, bytes + Ahead(k - 1), Size[waiting[k]])
    BY <1>1, <2>1
  <2>3. QED
    BY <1>1, <2>2 DEF CanAdmit
<1>6. QED
  BY <1>1, <1>2, <1>3, <1>4, <1>5

(* The pool's actions keep its invariant.                                   *)
LEMMA PoolInvHolds == PoolSpec => []PoolInv
<1> USE PoolAssumption
<1>1. PoolInit => PoolInv
  BY DEF PoolInit, PoolInv, PoolTypeOK, NobodyWaitsForRoom, AtLeast
<1>2. PoolInv /\ [PoolNext]_pool => PoolInv'
  <2> SUFFICES ASSUME PoolInv, [PoolNext]_pool PROVE PoolInv'
    OBVIOUS
  <2> USE DEF PoolInv, PoolTypeOK
  <2>1. ASSUME NEW t \in Task, Arrive(t) PROVE PoolInv'
    <3>1. CASE waiting = <<>> /\ waiting' = <<>>
      BY <2>1, <3>1 DEF Arrive, NobodyWaitsForRoom
    <3>2. CASE /\ waiting # <<>> \/ ~CanAdmit(limit, running, inFlightBytes, Size[t])
               /\ waiting' = Append(waiting, t)
               /\ UNCHANGED <<limit, successStreak, running, inFlightBytes>>
      <4>1. Head(waiting') = IF waiting = <<>> THEN t ELSE Head(waiting)
        BY <3>2
      <4>2. ~CanAdmit(limit, running, inFlightBytes, Size[Head(waiting')])
        BY <3>2, <4>1 DEF NobodyWaitsForRoom
      <4>3. QED
        BY <3>2, <4>2 DEF NobodyWaitsForRoom, CanAdmit
    <3>3. QED
      BY <2>1, <3>1, <3>2 DEF Arrive
  <2>2. ASSUME NEW t \in Task, Resolve(t) PROVE PoolInv'
    <3>1. limit' \in MinLimit .. MaxLimit /\ successStreak' \in Nat
      BY <2>2 DEF Resolve, Ramps
    <3>2. Drain(limit', running - 1, inFlightBytes - Size[t])
      BY <2>2 DEF Resolve
    <3>3. QED
      BY <3>1, <3>2, DrainStops
  <2>3. ASSUME NEW t \in Task, Reject(t) PROVE PoolInv'
    BY <2>3, DrainStops DEF Reject
  <2>4. ASSUME NoteRateLimit PROVE PoolInv'
    <3>1. limit' \in MinLimit .. limit /\ successStreak' \in Nat
      BY <2>4 DEF NoteRateLimit, AtLeast
    <3>2. QED
      BY <2>4, <3>1 DEF NoteRateLimit, NobodyWaitsForRoom, CanAdmit
  <2>5. CASE UNCHANGED pool
    BY <2>5 DEF pool, NobodyWaitsForRoom, CanAdmit
  <2>6. QED
    BY <2>1, <2>2, <2>3, <2>4, <2>5 DEF PoolNext
<1>3. QED
  BY <1>1, <1>2, PTL DEF PoolSpec

(* No task enters above the ceiling (async-queue.ts, canAdmit and drain).   *)
THEOREM PoolCeiling == PoolSpec => CeilingHolds
<1> USE PoolAssumption
<1>1. PoolInv /\ [PoolNext]_pool => [Admits => running' <= limit']_pool
  <2> SUFFICES ASSUME PoolInv, PoolNext, Admits PROVE running' <= limit'
    OBVIOUS
  <2> USE DEF PoolInv, PoolTypeOK
  <2>1. ASSUME NEW t \in Task, Arrive(t) PROVE running' <= limit'
    BY <2>1 DEF Arrive, Admits, CanAdmit
  <2>2. ASSUME NEW t \in Task, NEW ceiling \in Int, limit' = ceiling,
               Drain(ceiling, running - 1, inFlightBytes - Size[t])
        PROVE  running' <= limit'
    <3>1. running' > running - 1
      BY <2>2, DrainStops DEF Admits
    <3>2. QED
      BY <2>2, <3>1, DrainStops
  <2>3. ASSUME NEW t \in Task, Resolve(t) PROVE running' <= limit'
    BY <2>2, <2>3 DEF Resolve, Ramps
  <2>4. ASSUME NEW t \in Task, Reject(t) PROVE running' <= limit'
    BY <2>2, <2>4 DEF Reject
  <2>5. ASSUME NoteRateLimit PROVE running' <= limit'
    BY <2>5 DEF NoteRateLimit, Admits
  <2>6. QED
    BY <2>1, <2>3, <2>4, <2>5 DEF PoolNext
<1>2. QED
  BY <1>1, PoolInvHolds, PTL DEF CeilingHolds, PoolSpec

-----------------------------------------------------------------------------
(* The bytes.  A drain reserves for each waiter what those before it take,  *)
(* so the last one it admits was admitted against all of them.              *)

(* Every set of numbers that is not empty has a smallest one.               *)
LEMMA SmallestNumber ==
    ASSUME NEW S \in SUBSET Nat, S # {}
    PROVE  \E n \in S : \A k \in S : n <= k
<1> DEFINE Less == OpToRel(<, Nat)
<1>1. IsWellFoundedOn(Less, Nat)
  BY NatLessThanWellFounded
<1> HIDE DEF Less
<1>2. PICK n \in S : \A k \in S : ~ (<<k, n>> \in Less)
  BY <1>1, WFMin
<1>3. \A k \in S : ~ (k < n)
  BY <1>2 DEF Less, OpToRel
<1>4. QED
  BY <1>3

\* What Ahead sums up, for the first n of a queue.
SumsUp(g, queue, n) ==
    g = [j \in 0 .. n |-> IF j = 0 THEN 0 ELSE g[j - 1] + Size[queue[j]]]

(* What such a function is at each number.                                  *)
LEMMA SumsUpAt ==
    ASSUME NEW queue, NEW n \in Nat, NEW g, SumsUp(g, queue, n)
    PROVE  /\ g[0] = 0
           /\ \A j \in 1 .. n : g[j] = g[j - 1] + Size[queue[j]]
<1> DEFINE F(j) == IF j = 0 THEN 0 ELSE g[j - 1] + Size[queue[j]]
<1>1. g = [j \in 0 .. n |-> F(j)]
  BY Zenon DEF SumsUp
<1> HIDE DEF F
<1>2. \A j \in 0 .. n : g[j] = F(j)
  BY <1>1
<1>3. g[0] = 0
  BY <1>2 DEF F
<1>4. ASSUME NEW j \in 1 .. n PROVE g[j] = g[j - 1] + Size[queue[j]]
  <2>1. j \in 0 .. n /\ j # 0
    OBVIOUS
  <2>2. QED
    BY <1>2, <2>1 DEF F
<1>5. QED
  BY <1>3, <1>4

(* There is such a function.                                                *)
LEMMA SumsUpExists ==
    ASSUME NEW queue, NEW n \in Nat
    PROVE  \E g : SumsUp(g, queue, n)
<1> DEFINE T == {m \in Nat : ~ \E g : SumsUp(g, queue, m)}
<1>1. SUFFICES ASSUME T # {} PROVE FALSE
  OBVIOUS
<1>2. PICK m \in T : \A k \in T : m <= k
  BY <1>1, SmallestNumber
<1>3. CASE m = 0
  <2>1. SumsUp([j \in 0 .. 0 |-> 0], queue, 0)
    BY DEF SumsUp
  <2>2. QED
    BY <1>2, <1>3, <2>1
<1>4. CASE m # 0
  <2>1. m - 1 \in Nat /\ m - 1 < m
    BY <1>2, <1>4
  <2>2. PICK g : SumsUp(g, queue, m - 1)
    BY <1>2, <2>1
  <2> DEFINE h == [j \in 0 .. m |-> IF j < m THEN g[j] ELSE g[m - 1] + Size[queue[m]]]
  <2>3. ASSUME NEW j \in 0 .. m
        PROVE  h[j] = IF j = 0 THEN 0 ELSE h[j - 1] + Size[queue[j]]
    <3>1. CASE j = m
      BY <1>4, <2>1, <3>1
    <3>2. CASE j < m
      <4>1. g[j] = IF j = 0 THEN 0 ELSE g[j - 1] + Size[queue[j]]
        BY <1>2, <2>1, <2>2, <3>2, SumsUpAt
      <4>2. h[j] = g[j] /\ (j # 0 => h[j - 1] = g[j - 1])
        BY <1>2, <3>2
      <4>3. QED
        BY <4>1, <4>2
    <3>3. QED
      BY <1>2, <3>1, <3>2
  <2>4. SumsUp(h, queue, m)
    <3> HIDE DEF h
    <3>1. h = [j \in 0 .. m |-> h[j]]
      BY DEF h
    <3>2. QED
      BY <2>3, <3>1 DEF SumsUp
  <2>5. QED
    BY <1>2, <2>4
<1>5. QED
  BY <1>3, <1>4

(* The bytes ahead of a waiter, one waiter after the other.                 *)
LEMMA AheadAdds ==
    ASSUME waiting \in Seq(Task)
    PROVE  /\ Ahead(0) = 0
           /\ \A j \in 1 .. Len(waiting) : Ahead(j) = Ahead(j - 1) + Size[waiting[j]]
           /\ \A j \in 0 .. Len(waiting) : Ahead(j) \in Nat
<1> DEFINE n == Len(waiting)
<1>1. n \in Nat
  OBVIOUS
<1>2. PICK g : SumsUp(g, waiting, n) /\ \A j : Ahead(j) = g[j]
  <2>1. \E g : SumsUp(g, waiting, n)
    BY <1>1, SumsUpExists
  <2>2. QED
    BY <2>1 DEF Ahead, SumsUp
<1>3. /\ Ahead(0) = 0
      /\ \A j \in 1 .. n : Ahead(j) = Ahead(j - 1) + Size[waiting[j]]
  BY <1>1, <1>2, SumsUpAt
<1> DEFINE T == {j \in 0 .. n : Ahead(j) \notin Nat}
<1>4. T = {}
  <2>1. SUFFICES ASSUME T # {} PROVE FALSE
    OBVIOUS
  <2>2. T \subseteq Nat
    OBVIOUS
  <2>3. PICK j \in T : \A i \in T : j <= i
    BY <2>1, <2>2, SmallestNumber
  <2>4. j \in 1 .. n /\ j - 1 \in 0 .. n /\ j - 1 < j
    BY <1>1, <1>3, <2>3
  <2>5. Ahead(j - 1) \in Nat
    BY <2>3, <2>4
  <2>6. Size[waiting[j]] \in Nat
    BY <2>4, PoolAssumption
  <2>7. QED
    BY <1>3, <2>3, <2>4, <2>5, <2>6
<1>5. QED
  BY <1>3, <1>4

(* Whoever a drain lets in fits beside all the others, or runs alone.       *)
LEMMA DrainFits ==
    ASSUME NEW ceiling \in Int, NEW n \in Int, NEW bytes \in Int,
           waiting \in Seq(Task), Drain(ceiling, n, bytes)
    PROVE  /\ inFlightBytes' \in Int
           /\ running' > n \/ Len(waiting') < Len(waiting) =>
                running' = 1 \/ inFlightBytes' <= ByteBudget
<1>1. PICK k \in 0 .. Len(waiting) :
        /\ \A j \in 1 .. k :
              CanAdmit(ceiling, n + j - 1, bytes + Ahead(j - 1), Size[waiting[j]])
        /\ running' = n + k
        /\ inFlightBytes' = bytes + Ahead(k)
        /\ waiting' = SubSeq(waiting, k + 1, Len(waiting))
  BY DEF Drain
<1>2. Ahead(k) \in Nat
  BY <1>1, AheadAdds
<1>3. CASE k = 0
  <2>1. Len(waiting') = Len(waiting)
    BY <1>1, <1>3
  <2>2. QED
    BY <1>1, <1>2, <1>3, <2>1
<1>4. CASE k # 0
  <2>1. k \in 1 .. Len(waiting) /\ k \in 1 .. k /\ k - 1 \in 0 .. Len(waiting)
    BY <1>1, <1>4
  <2>2. CanAdmit(ceiling, n + k - 1, bytes + Ahead(k - 1), Size[waiting[k]])
    BY <1>1, <2>1
  <2>3. n + k - 1 = 0 \/ bytes + Ahead(k - 1) + Size[waiting[k]] <= ByteBudget
    BY <2>2 DEF CanAdmit
  <2>4. Ahead(k) = Ahead(k - 1) + Size[waiting[k]] /\ Ahead(k - 1) \in Nat
    BY <2>1, AheadAdds
  <2>5. Size[waiting[k]] \in Nat
    BY <2>1, PoolAssumption
  <2>6. bytes + Ahead(k) = bytes + Ahead(k - 1) + Size[waiting[k]]
    BY <2>4, <2>5
  <2>7. bytes + Ahead(k) \in Int
    BY <1>2
  <2>8. QED
    BY <1>1, <2>3, <2>6, <2>7
<1>5. QED
  BY <1>3, <1>4

(* Each action of the pool lets in only who fits.                           *)
LEMMA PoolFits ==
    ASSUME PoolInv, inFlightBytes \in Int, PoolNext
    PROVE  /\ inFlightBytes' \in Int
           /\ Admits => running' = 1 \/ inFlightBytes' <= ByteBudget
<1> USE DEF PoolInv, PoolTypeOK
<1>1. ASSUME NEW t \in Task, Arrive(t)
      PROVE  /\ inFlightBytes' \in Int
             /\ Admits => running' = 1 \/ inFlightBytes' <= ByteBudget
  <2>1. Size[t] \in Nat
    BY PoolAssumption
  <2>2. CASE /\ CanAdmit(limit, running, inFlightBytes, Size[t])
             /\ running' = running + 1
             /\ inFlightBytes' = inFlightBytes + Size[t]
    BY <2>1, <2>2 DEF CanAdmit
  <2>3. CASE waiting' = Append(waiting, t) /\ UNCHANGED <<running, inFlightBytes>>
    BY <2>3 DEF Admits
  <2>4. QED
    BY <1>1, <2>2, <2>3 DEF Arrive
<1>2. ASSUME NEW t \in Task, NEW ceiling \in Int,
             Drain(ceiling, running - 1, inFlightBytes - Size[t])
      PROVE  /\ inFlightBytes' \in Int
             /\ Admits => running' = 1 \/ inFlightBytes' <= ByteBudget
  <2>1. running - 1 \in Int /\ inFlightBytes - Size[t] \in Int
    BY PoolAssumption
  <2>2. inFlightBytes' \in Int /\
          (running' > running - 1 \/ Len(waiting') < Len(waiting) =>
             running' = 1 \/ inFlightBytes' <= ByteBudget)
    BY <1>2, <2>1, DrainFits
  <2>3. Admits => running' > running - 1 \/ Len(waiting') < Len(waiting)
    <3>1. running' \in Int
      BY <1>2, <2>1 DEF Drain
    <3>2. QED
      BY <3>1 DEF Admits
  <2>4. QED
    BY <2>2, <2>3
<1>3. ASSUME NEW t \in Task, Resolve(t)
      PROVE  /\ inFlightBytes' \in Int
             /\ Admits => running' = 1 \/ inFlightBytes' <= ByteBudget
  <2>1. limit' \in Int
    BY <1>3, PoolAssumption DEF Resolve
  <2>2. QED
    BY <1>2, <1>3, <2>1 DEF Resolve
<1>4. ASSUME NEW t \in Task, Reject(t)
      PROVE  /\ inFlightBytes' \in Int
             /\ Admits => running' = 1 \/ inFlightBytes' <= ByteBudget
  <2>1. limit \in Int
    BY PoolAssumption
  <2>2. QED
    BY <1>2, <1>4, <2>1 DEF Reject
<1>5. ASSUME NoteRateLimit
      PROVE  inFlightBytes' \in Int /\ ~ Admits
  BY <1>5 DEF NoteRateLimit, Admits
<1>6. QED
  BY <1>1, <1>3, <1>4, <1>5 DEF PoolNext

(* No task enters above the ceiling of its moment, nor above the budget of  *)
(* bytes unless it runs alone, by however many ways room appears at once    *)
(* (async-queue.ts, canAdmit and drain).                                    *)
THEOREM PoolWithinBounds == PoolSpec => AdmitsWithinBounds
<1> DEFINE Counted == inFlightBytes \in Int
<1>1. PoolInit => Counted
  BY DEF PoolInit
<1>2. PoolInv /\ Counted /\ [PoolNext]_pool => Counted'
  BY PoolFits DEF pool
<1>3. PoolInv /\ Counted /\ [PoolNext]_pool =>
        [Admits => running' = 1 \/ inFlightBytes' <= ByteBudget]_pool
  BY PoolFits
<1>4. [Admits => running' <= limit']_pool /\
      [Admits => running' = 1 \/ inFlightBytes' <= ByteBudget]_pool =>
        [Admits => /\ running' <= limit'
                   /\ running' = 1 \/ inFlightBytes' <= ByteBudget]_pool
  OBVIOUS
<1>5. QED
  BY <1>1, <1>2, <1>3, <1>4, PoolInvHolds, PoolCeiling, PTL
     DEF PoolSpec, CeilingHolds, AdmitsWithinBounds

-----------------------------------------------------------------------------
(* Whatever a plan of calls does to the pool is what the pool allows: every *)
(* step of a call ends one task, notes a rate limit or leaves it alone.     *)
PoolStep == [PoolNext]_pool

LEMMA FinishStep ==
    ASSUME NEW t \in Task, NEW c, NEW outcome, Finish(t, c, outcome)
    PROVE  PoolStep
BY DEF Finish, PoolStep, PoolNext

LEMMA GoOnStep ==
    ASSUME NEW t \in Task, NEW c, NEW plan, GoOn(t, c, plan)
    PROVE  PoolStep
BY DEF GoOn, PoolStep

LEMMA FailsStep ==
    ASSUME NEW t \in Task, NEW c, NEW kind, Fails(t, c, kind)
    PROVE  PoolStep
<1>1. CASE RenamingCase(c)
  <2>1. CaseRenameFails(t, c, kind)
    BY <1>1 DEF Fails
  <2>2. QED
    BY <2>1, GoOnStep, FinishStep DEF CaseRenameFails, LookAround
<1>2. CASE ~RenamingCase(c)
  <2>1. GiveUp(t, c, kind)
    BY <1>2 DEF Fails
  <2>2. CASE NoteRateLimit \/ UNCHANGED pool
    BY <2>2 DEF PoolStep, PoolNext
  <2>3. CASE Finish(t, c, kind)
    BY <2>3, FinishStep
  <2>4. QED
    BY <2>1, <2>2, <2>3 DEF GiveUp
<1>3. QED
  BY <1>1, <1>2

LEMMA DeliverStep ==
    ASSUME NEW t \in Task, Deliver(t)
    PROVE  PoolStep
<1> DEFINE c == calls[t]
<1>1. ASSUME Proceed(t, c) PROVE PoolStep
  BY <1>1, GoOnStep, FinishStep DEF Proceed, LookAround
<1>2. CASE LooksUp(t, c)
  BY <1>1, <1>2, FinishStep, FailsStep DEF LooksUp
<1>3. CASE LooksForEndpoint(t, c)
  <2>1. ASSUME NEW place, Conclude(t, c, place) PROVE PoolStep
    BY <2>1, GoOnStep, FinishStep DEF Conclude
  <2>2. QED
    BY <1>3, <2>1, GoOnStep DEF LooksForEndpoint
<1>4. CASE Changes(t, c)
  BY <1>1, <1>4, FailsStep DEF Changes
<1>5. QED
  BY <1>2, <1>3, <1>4 DEF Deliver

(* A plan of calls uses the pool as the pool allows.                        *)
THEOREM BatchUsesPool == Spec => PoolSpec
<1>1. Init => PoolInit
  BY DEF Init
<1>2. [Next]_vars => PoolStep
  <2> SUFFICES ASSUME [Next]_vars PROVE PoolStep
    OBVIOUS
  <2> USE DEF PoolStep
  <2>1. ASSUME NEW t \in Task, Enter(t) PROVE PoolStep
    BY <2>1 DEF Enter, PoolNext
  <2>2. ASSUME NEW t \in Task, Start(t) \/ StartStructural(t) PROVE PoolStep
    BY <2>2 DEF Start, StartStructural
  <2>3. ASSUME NEW t \in Task, Deliver(t) PROVE PoolStep
    BY <2>3, DeliverStep
  <2>4. ASSUME NEW t \in Task, Refused(t) \/ Throttled(t) PROVE PoolStep
    BY <2>4, FailsStep DEF Refused, Throttled
  <2>5. ASSUME NEW t \in Task, Unreachable(t) \/ AnswerLost(t) \/ Forbidden(t)
        PROVE  PoolStep
    BY <2>5, FailsStep DEF Unreachable, AnswerLost, Forbidden
  <2>6. ASSUME NEW t \in Task, TakeToken(t) \/ Denied(t) PROVE PoolStep
    BY <2>6, FailsStep DEF TakeToken, Denied
  <2>7. ASSUME NEW t \in Task, RefreshWorks(t) \/ RefreshRotates(t) \/ RefreshFails(t)
        PROVE  PoolStep
    BY <2>7 DEF RefreshWorks, RefreshRotates, RefreshFails
  <2>8. CASE TokenEnds \/ OthersAct
    BY <2>8 DEF TokenEnds, OthersAct
  <2>9. CASE Done \/ UNCHANGED vars
    BY <2>9 DEF Done, vars
  <2>10. QED
    BY <2>1, <2>2, <2>3, <2>4, <2>5, <2>6, <2>7, <2>8, <2>9 DEF Next
<1>3. QED
  BY <1>1, <1>2, PTL DEF Spec, PoolSpec, PoolStep

(* So while a call of a plan waits for its turn there is no room for it: a  *)
(* call that runs will look again when it ends (async-queue.ts, drain).     *)
THEOREM BatchNobodyWaitsForRoom == Spec => []NobodyWaitsForRoom
<1>1. PoolInv => NobodyWaitsForRoom
  BY DEF PoolInv
<1>2. QED
  BY <1>1, PoolInvHolds, BatchUsesPool, PTL

(* And none starts above the ceiling of its moment.                         *)
THEOREM BatchCeiling == Spec => CeilingHolds
  BY PoolCeiling, BatchUsesPool, PTL

(* Nor above the budget, unless it runs alone.                              *)
THEOREM BatchWithinBounds == Spec => AdmitsWithinBounds
  BY PoolWithinBounds, BatchUsesPool, PTL

-----------------------------------------------------------------------------
(* The token manager under a batch.  Only the call that started a refresh   *)
(* waits for its answer, which is what refreshPromise is for; the token an  *)
(* answer brings is the newest one until it is stored, since nobody else    *)
(* can ask meanwhile; and the manager works with what the store has.        *)
Exchanges == [phase : {"none", "asked", "storing"}, brought : Nat]

TokenInv ==
    /\ issued \in Nat /\ learned \in Nat /\ secret \in Nat
    /\ refreshToken = secret
    /\ exchange \in [Caller -> Exchanges]
    /\ \A t \in Caller : exchange[t].phase # "none" => refreshPromise = t
    /\ \A t \in Caller : exchange[t].phase = "storing" => exchange[t].brought = learned
    /\ (\A t \in Caller : exchange[t].phase # "storing") /\ ~unstored => secret = learned

TokenNext ==
    \/ \E t \in Caller :
          \/ \E force : GetAccessToken(t, force)
          \/ Granted(t) \/ Rotated(t) \/ Stored(t) \/ StoreFails(t)
          \/ HandleRefreshError(t) \/ RefreshLost(t)
    \/ AccessEnds

LEMMA ExchangeEnds ==
    ASSUME TokenInv, NEW t \in Caller, EndExchange(t)
    PROVE  /\ exchange' \in [Caller -> Exchanges]
           /\ exchange'[t].phase = "none"
           /\ \A s \in Caller : s # t => exchange'[s] = exchange[s]
           /\ exchange[t].phase # "none" => \A s \in Caller : exchange'[s].phase = "none"
BY DEF TokenInv, EndExchange, NoExchange, Exchanges

(* Every operation of the token manager keeps TokenInv.                     *)
LEMMA TokenInvStep ==
    ASSUME TokenInv, [TokenNext]_token PROVE TokenInv'
<1>1. ASSUME NEW t \in Caller, NEW force, GetAccessToken(t, force) PROVE TokenInv'
  <2>1. CASE UNCHANGED token
    BY <2>1 DEF token, TokenInv
  <2>2. CASE refreshPromise = None /\ StartRefresh(t)
    <3>1. \A s \in Caller : exchange[s].phase = "none"
      BY <2>2, NobodyAssumption DEF TokenInv
    <3>2. /\ exchange' \in [Caller -> Exchanges]
          /\ exchange'[t].phase = "asked"
          /\ \A s \in Caller : s # t => exchange'[s] = exchange[s]
      BY <2>2 DEF StartRefresh, TokenInv, Exchanges
    <3>3. QED
      BY <2>2, <3>1, <3>2 DEF StartRefresh, TokenInv
  <2>3. QED
    BY <1>1, <2>1, <2>2 DEF GetAccessToken, JoinsRefresh
<1>2. ASSUME NEW t \in Caller, Granted(t) \/ HandleRefreshError(t) \/ RefreshLost(t)
      PROVE TokenInv'
  <2>1. /\ exchange[t].phase = "asked" /\ EndExchange(t)
        /\ UNCHANGED <<refreshToken, secret, learned, unstored>>
        /\ issued' \in {issued, issued + 1}
    BY <1>2 DEF Granted, HandleRefreshError, RefreshLost
  <2>2. QED
    BY <2>1, ExchangeEnds DEF TokenInv
<1>3. ASSUME NEW t \in Caller, Rotated(t) PROVE TokenInv'
  <2>1. /\ exchange' \in [Caller -> Exchanges]
        /\ exchange'[t].phase = "storing" /\ exchange'[t].brought = learned'
        /\ \A s \in Caller : s # t => exchange'[s] = exchange[s]
    BY <1>3 DEF Rotated, TokenInv, Exchanges
  <2>2. \A s \in Caller : s # t => exchange[s].phase = "none"
    BY <1>3 DEF Rotated, TokenInv
  <2>3. QED
    BY <1>3, <2>1, <2>2 DEF Rotated, TokenInv
<1>4. ASSUME NEW t \in Caller, Stored(t) PROVE TokenInv'
  <2>1. /\ exchange[t].phase = "storing" /\ EndExchange(t)
        /\ secret' = learned /\ refreshToken' = learned
        /\ UNCHANGED <<issued, learned, unstored>>
    BY <1>4 DEF Stored, TokenInv
  <2>2. QED
    BY <2>1, ExchangeEnds DEF TokenInv
<1>5. ASSUME NEW t \in Caller, StoreFails(t) PROVE TokenInv'
  BY <1>5, ExchangeEnds DEF StoreFails, TokenInv
<1>6. CASE AccessEnds
  BY <1>6 DEF AccessEnds, TokenInv
<1>7. CASE UNCHANGED token
  BY <1>7 DEF token, TokenInv
<1>8. QED
  BY <1>1, <1>2, <1>3, <1>4, <1>5, <1>6, <1>7 DEF TokenNext

(* Whatever a call of a plan does about its bearer, it does through the     *)
(* manager's operations.                                                    *)
LEMMA BatchUsesManager == ASSUME [Next]_vars PROVE [TokenNext]_token
<1> USE CallersAssumption DEF TokenNext
<1>1. ASSUME NEW t \in Task, Enter(t) \/ Start(t) \/ StartStructural(t) \/ Denied(t)
      PROVE  UNCHANGED token
  BY <1>1 DEF Enter, Start, StartStructural, Denied
<1>2. ASSUME NEW t \in Task,
             Deliver(t) \/ Refused(t) \/ Throttled(t) \/ Unreachable(t) \/ AnswerLost(t)
               \/ Forbidden(t)
      PROVE  UNCHANGED token
  BY <1>2 DEF Deliver, Refused, Throttled, Unreachable, AnswerLost, Forbidden, Quiet
<1>3. ASSUME NEW t \in Task, TakeToken(t) PROVE [TokenNext]_token
  BY <1>3 DEF TakeToken
<1>4. ASSUME NEW t \in Task, RefreshWorks(t) \/ RefreshRotates(t) \/ RefreshFails(t)
      PROVE  [TokenNext]_token
  BY <1>4 DEF RefreshWorks, RefreshRotates, RefreshFails
<1>5. CASE TokenEnds \/ OthersAct \/ Done \/ UNCHANGED vars
  BY <1>5 DEF TokenEnds, OthersAct, Done, vars
<1>6. QED
  BY <1>1, <1>2, <1>3, <1>4, <1>5 DEF Next

(* However many calls of a batch meet an expired or withdrawn access token, *)
(* and whichever refreshes are refused, lost or rotated, the newest refresh *)
(* token received is the one stored and used once no refresh is under way,  *)
(* and never one the store does not have (getAccessToken and                *)
(* storeTokenResponse of oauth-pkce.ts).                                    *)
THEOREM BatchKeepsRotatedToken == Spec => []RotatedTokenIsKept
<1>1. Init => TokenInv
  BY DEF Init, TokenInit, TokenInv, Exchanges, NoExchange
<1>2. TokenInv /\ [Next]_vars => TokenInv'
  BY TokenInvStep, BatchUsesManager
<1>3. TokenInv => RotatedTokenIsKept
  BY DEF TokenInv, RotatedTokenIsKept
<1>4. QED
  BY <1>1, <1>2, <1>3, PTL DEF Spec

-----------------------------------------------------------------------------
(* Reads.  What a read has learned by each of its requests is never taken   *)
(* from it: the service numbers versions, keeps the content of each, and    *)
(* gives a file no version twice.                                           *)
(* What the proof needs of the services' history of contents: that it is a  *)
(* sequence.                                                                *)
Numbered(s) == \E S : s \in Seq(S)

(* Every file is a record with these fields.                                *)
Shaped == DOMAIN objs = Id /\ \A o \in Id : DOMAIN objs[o] = {"live", "at", "ver"}

(* A file that is live has a version, and every version has its content.    *)
ServiceInv ==
    /\ provider \in Provider
    /\ Numbered(content)
    /\ Shaped
    /\ \A o \in Id : /\ objs[o].ver \in 0 .. Len(content)
                     /\ objs[o].live \in BOOLEAN
                     /\ Live(o) => objs[o].ver # 0

(* A version the service has made.                                          *)
Version(n) == n \in 1 .. Len(content)

(* What is left of the plan of a read, by the request it is at: the three   *)
(* plans of the three providers and their remainders. Only Dropbox reads by *)
(* revision.                                                                *)
Revisioned == {<<"observe", "fetch", "download">>, <<"fetch", "download">>, <<"download">>}
Observing == {<<"observe", "fetch", "download">>,
              <<"observe", "fetch", "download", "refetch">>,
              <<"observe", "fetch", "url", "download", "refetch">>}
Fetching == {<<"fetch", "download">>, <<"fetch", "download", "refetch">>,
             <<"fetch", "url", "download", "refetch">>}
Downloading == {<<"download">>, <<"download", "refetch">>, <<"url", "download", "refetch">>}

(* The read is one of a revision, with nothing to look at again.            *)
Whole(plan) == plan \in Revisioned

(* What a read under way has learned: once it has observed, a version to    *)
(* read; once it has fetched, that it is still that one; and before the     *)
(* last look that, if the file is still of that version, so are the bytes.  *)
Underway(c) ==
    /\ c.outcome # "ok"
    /\ c.denial # "ok"
    /\ Whole(c.plan) <=> provider = "dropbox"
    /\ \/ c.plan \in Observing
       \/ c.plan \in Fetching /\ Version(c.want)
       \/ c.plan \in Downloading /\ Version(c.want) /\ c.seen = c.want
       \/ /\ c.plan = <<"refetch">> /\ Version(c.want) /\ c.seen = c.want
          /\ objs[c.id].ver = c.want => c.got = content[c.want]

(* A read in any phase; when it has succeeded its bytes are those of its    *)
(* version.                                                                 *)
Reading(c) ==
    /\ c.id \in Id
    /\ \/ c.phase \in {"new", "waiting"} /\ c.outcome # "ok" /\ c.denial # "ok"
       \/ c.phase = "done" /\ (c.outcome = "ok" => Version(c.want) /\ c.got = content[c.want])
       \/ c.phase \in {"ready", "token", "holding", "denied"} /\ Underway(c)

(* The other calls only keep their shape.                                   *)
Good(c) == DOMAIN c = CallFields /\ (c.op = "read" => Reading(c))

(* Every call of the plan is good.                                          *)
CallsInv == DOMAIN calls = Task /\ \A t \in Task : Good(calls[t])

(* Sequences put together.                                                  *)
LEMMA JoinFirst ==
    ASSUME NEW a, NEW b, NEW c
    PROVE  <<a>> \o <<b, c>> = <<a, b, c>>
<1> DEFINE s == <<a>> \o <<b, c>>
           u == <<a, b, c>>
           T == {a, b, c}
<1>1. /\ <<a>> \in Seq(T) /\ Len(<<a>>) = 1
      /\ <<b, c>> \in Seq(T) /\ Len(<<b, c>>) = 2
      /\ u \in Seq(T) /\ Len(u) = 3
  OBVIOUS
<1> HIDE DEF T
<1>2. s \in Seq(T) /\ Len(s) = 3
  BY <1>1
<1>3. \A i \in 1 .. 3 : s[i] = u[i]
  BY <1>1
<1> HIDE DEF s, u
<1>4. s = u
  BY <1>1, <1>2, <1>3
<1>5. QED
  BY <1>4 DEF s, u

(* The same at the other end.                                               *)
LEMMA JoinLast ==
    ASSUME NEW a, NEW b, NEW c, NEW d
    PROVE  <<a, b, c>> \o <<d>> = <<a, b, c, d>>
<1> DEFINE s == <<a, b, c>> \o <<d>>
           u == <<a, b, c, d>>
           T == {a, b, c, d}
<1>1. /\ <<a, b, c>> \in Seq(T) /\ Len(<<a, b, c>>) = 3
      /\ <<d>> \in Seq(T) /\ Len(<<d>>) = 1
      /\ u \in Seq(T) /\ Len(u) = 4
  OBVIOUS
<1> HIDE DEF T
<1>2. s \in Seq(T) /\ Len(s) = 4
  BY <1>1
<1>3. \A i \in 1 .. 4 : s[i] = u[i]
  BY <1>1
<1> HIDE DEF s, u
<1>4. s = u
  BY <1>1, <1>2, <1>3
<1>5. QED
  BY <1>4 DEF s, u

(* The plans of a read.                                                     *)
LEMMA ReadScript ==
    ASSUME provider \in Provider, NEW form
    PROVE  /\ provider = "dropbox" => Script("read", form) = <<"observe", "fetch", "download">>
           /\ provider = "onedrive" =>
                 Script("read", form) = <<"observe", "fetch", "url", "download", "refetch">>
           /\ provider = "googledrive" =>
                 Script("read", form) = <<"observe", "fetch", "download", "refetch">>
<1>0. Script("read", form) = <<"observe">> \o ReadSteps
  BY DEF Script
<1>1. CASE provider = "dropbox"
  <2>1. ReadSteps = DropboxRead
    BY <1>1 DEF ReadSteps
  <2>2. QED
    BY <1>0, <1>1, <2>1 DEF DropboxRead
<1>2. CASE provider = "onedrive"
  <2>1. ReadSteps = OneDriveRead
    BY <1>2 DEF ReadSteps
  <2>2. <<"fetch">> \o OneDriveDownload = <<"fetch", "url", "download">>
    BY JoinFirst DEF OneDriveDownload
  <2>3. OneDriveRead = <<"fetch", "url", "download", "refetch">>
    BY <2>2, JoinLast DEF OneDriveRead
  <2>4. QED
    BY <1>0, <1>2, <2>1, <2>3
<1>3. CASE provider = "googledrive"
  <2>1. ReadSteps = DriveRead
    BY <1>3 DEF ReadSteps
  <2>2. QED
    BY <1>0, <1>3, <2>1 DEF DriveRead
<1> QED
  BY <1>1, <1>2, <1>3 DEF Provider

(* Appending makes a longer sequence that starts with the old one.          *)
LEMMA AppendNumbered ==
    ASSUME NEW s, Numbered(s), NEW x
    PROVE  /\ Numbered(Append(s, x)) /\ Len(s) \in Nat /\ Len(Append(s, x)) = Len(s) + 1
           /\ \A i \in 1 .. Len(s) : Append(s, x)[i] = s[i]
<1>1. PICK S : s \in Seq(S)
  BY DEF Numbered
<1> DEFINE T == S \cup {x}
<1>2. s \in [1 .. Len(s) -> S] /\ Len(s) \in Nat
  BY <1>1
<1>3. s \in [1 .. Len(s) -> T]
  BY <1>2
<1>4. s \in Seq(T)
  BY <1>2, <1>3
<1>5. x \in T
  OBVIOUS
<1> HIDE DEF T
<1>6. Append(s, x) \in Seq(T) /\ Len(Append(s, x)) = Len(s) + 1
        /\ \A i \in 1 .. Len(s) : Append(s, x)[i] = s[i]
  BY <1>4, <1>5
<1> QED
  BY <1>6, <1>2 DEF Numbered

(* What any change of the service leaves: old versions keep their content,  *)
(* and a file has the version it had or one that is newer than all there    *)
(* were.                                                                    *)
ServiceStep ==
   /\ ServiceInv'
   /\ provider' = provider
   /\ Len(content') >= Len(content)
   /\ \A i \in 1 .. Len(content) : content'[i] = content[i]
   /\ \A o \in Id : objs'[o].ver = objs[o].ver \/ objs'[o].ver > Len(content)

(* A file keeps its version, and is not brought to life.                    *)
Kept(o) ==
    /\ objs'[o].ver = objs[o].ver
    /\ objs'[o].live \in BOOLEAN /\ (objs'[o].live => objs[o].live)

(* A file gets the newest version.                                          *)
Renewed(o) == objs'[o].ver = Newest /\ objs'[o].live \in BOOLEAN

(* A step of the service, file by file.                                     *)
StepOfObjs == 
   /\ provider' = provider
   /\ Shaped'
   /\ \/ content' = content /\ \A o \in Id : Kept(o)
      \/ /\ \E x : content' = Append(content, x)
         /\ \A o \in Id : Kept(o) \/ Renewed(o)

(* A sequence has a length.                                                 *)
LEMMA NumberedLen ==
    ASSUME NEW s, Numbered(s)
    PROVE  Len(s) \in Nat
BY DEF Numbered

(* Step by step it keeps ServiceInv.                                        *)
LEMMA ServiceSteps ==
    ASSUME ServiceInv, StepOfObjs
    PROVE  ServiceStep
<1>0. Len(content) \in Nat
  BY NumberedLen DEF ServiceInv
<1>1. CASE content' = content /\ \A o \in Id : Kept(o)
  BY <1>0, <1>1 DEF ServiceInv, StepOfObjs, ServiceStep, Live, Kept
<1>2. CASE (\E x : content' = Append(content, x)) /\ \A o \in Id : Kept(o) \/ Renewed(o)
  <2>1. PICK x : content' = Append(content, x)
    BY <1>2
  <2>2. /\ Numbered(content') /\ Len(content) \in Nat /\ Len(content') = Len(content) + 1
        /\ \A i \in 1 .. Len(content) : content'[i] = content[i]
    BY <2>1, AppendNumbered DEF ServiceInv
  <2>3. ASSUME NEW o \in Id PROVE 
       /\ objs'[o].ver \in 0 .. Len(content') /\ objs'[o].live \in BOOLEAN
       /\ objs'[o].live => objs'[o].ver # 0
       /\ objs'[o].ver = objs[o].ver \/ objs'[o].ver > Len(content)
    <3>1. CASE Kept(o)
      BY <2>2, <3>1 DEF ServiceInv, Live, Kept
    <3>2. CASE Renewed(o)
      BY <2>2, <3>2 DEF Newest, Renewed
    <3>3. QED
      BY <1>2, <3>1, <3>2
  <2>4. QED
    BY <2>2, <2>3 DEF ServiceInv, StepOfObjs, ServiceStep, Live
<1>3. QED
  BY <1>1, <1>2 DEF StepOfObjs

(* Each of the service's changes is such a step.                            *)
LEMMA ChangeIsStep ==
    ASSUME ServiceInv, provider' = provider, NEW o, NEW n,
           \/ CreateAt(n) \/ Overwrite(o) \/ Relabel(o, n) \/ Discard(o)
           \/ UNCHANGED <<objs, content>>
    PROVE  ServiceStep
<1> SUFFICES StepOfObjs
  BY ServiceSteps
<1> USE DEF ServiceInv, Shaped
<1>1. CASE CreateAt(n)
  <2>1. \A p \in Id : Kept(p) \/ Renewed(p)
    BY <1>1 DEF CreateAt, Kept, Renewed, Live
  <2>2. Shaped'
    BY <1>1 DEF CreateAt
  <2>3. QED
    BY <1>1, <2>1, <2>2 DEF StepOfObjs, CreateAt
<1>2. CASE Overwrite(o)
  <2>1. \A p \in Id : Kept(p) \/ Renewed(p)
    BY <1>2 DEF Overwrite, Kept, Renewed, Live
  <2>2. Shaped'
    BY <1>2 DEF Overwrite
  <2>3. QED
    BY <1>2, <2>1, <2>2 DEF StepOfObjs, Overwrite
<1>3. CASE Relabel(o, n)
  <2>1. CASE content' = content /\ objs' = [objs EXCEPT ![o].at = n]
    <3>1. \A p \in Id : Kept(p)
      BY <2>1 DEF Kept, Live
    <3>2. Shaped'
      BY <2>1
    <3>3. QED
      BY <2>1, <3>1, <3>2 DEF StepOfObjs
  <2>2. CASE /\ objs' = [objs EXCEPT ![o].at = n, ![o].ver = Newest]
             /\ content' = Append(content, content[objs[o].ver])
    <3>1. \A p \in Id : Kept(p) \/ Renewed(p)
      BY <2>2 DEF Kept, Renewed, Live
    <3>2. Shaped'
      BY <2>2
    <3>3. QED
      BY <2>2, <3>1, <3>2 DEF StepOfObjs
  <2>3. QED
    BY <1>3, <2>1, <2>2 DEF Relabel
<1>4. CASE Discard(o)
  <2>1. \A p \in Id : Kept(p)
    BY <1>4 DEF Discard, Kept, Live
  <2>2. Shaped'
    BY <1>4 DEF Discard
  <2>3. QED
    BY <1>4, <2>1, <2>2 DEF StepOfObjs, Discard
<1>5. CASE UNCHANGED <<objs, content>>
  BY <1>5 DEF StepOfObjs, Kept, Live
<1>6. QED
  BY <1>1, <1>2, <1>3, <1>4, <1>5

(* So is what a request of a call does.                                     *)
LEMMA EffectIsStep ==
    ASSUME ServiceInv, provider' = provider, NEW c, Step(c) \in Mutations \union {"open"},
           Effect(c)
    PROVE  ServiceStep
<1>1. CASE UNCHANGED <<objs, content>> \/ CreateAt(c.dest)
  BY <1>1, ChangeIsStep
<1>2. CASE ~ (UNCHANGED <<objs, content>> \/ CreateAt(c.dest))
  <2> DEFINE o == CHOOSE o \in Subject(c) : TRUE
  <2>1. CASE Step(c) \in {"write", "put"} 
    <3>1. Overwrite(o)
      BY <1>2, <2>1 DEF Effect, Moves
    <3>2. QED
      BY <3>1, ChangeIsStep
  <2>2. CASE Step(c) = "mtime"
    <3>1. Relabel(o, objs[o].at)
      BY <1>2, <2>2 DEF Effect, Moves
    <3>2. QED
      BY <3>1, ChangeIsStep
  <2>3. CASE Moves(c)
    <3>1. Relabel(o, To(c))
      BY <1>2, <2>3 DEF Effect, Moves
    <3>2. QED
      BY <3>1, ChangeIsStep
  <2>4. CASE Step(c) = "remove"
    <3>1. Discard(o)
      BY <1>2, <2>4 DEF Effect, Moves
    <3>2. QED
      BY <3>1, ChangeIsStep
  <2>5. QED
    BY <1>2, <2>1, <2>2, <2>3, <2>4 DEF Effect, Moves, Mutations
<1>3. QED
  BY <1>1, <1>2

(* And what another device does.                                            *)
LEMMA OthersAreStep ==
    ASSUME ServiceInv, OtherDevice
    PROVE  ServiceStep
BY ChangeIsStep DEF OtherDevice

(* No change of the service takes from a read what it has learned: a        *)
(* version it is bound to keeps its content, and a file that leaves it      *)
(* never gets it back.                                                      *)
LEMMA ReadingKept ==
    ASSUME ServiceInv, ServiceStep, NEW c, Good(c)
    PROVE  Good(c)'
<1>0. Len(content) \in Nat
  BY NumberedLen DEF ServiceInv
<1>1. SUFFICES ASSUME c.op = "read", Reading(c) PROVE Reading(c)'
  BY DEF Good
<1>2. Version(c.want) => Version(c.want)' /\ content'[c.want] = content[c.want]
  BY <1>0 DEF ServiceStep, Version
<1>3. Underway(c) => Underway(c)'
  <2>1. Version(c.want) /\ objs'[c.id].ver = c.want => objs[c.id].ver = c.want
    BY <1>0, <1>1 DEF ServiceStep, Version, Reading
  <2>2. QED
    BY <1>2, <2>1 DEF Underway, ServiceStep
<1>4. QED
  BY <1>1, <1>2, <1>3 DEF Reading

(* The phases of a call that has begun and not ended.                       *)
Active == {"ready", "token", "holding", "denied"}

(* One call changes, to a good one.                                         *)
LEMMA ReplaceCall ==
    ASSUME ServiceInv, ServiceStep, CallsInv, NEW t \in Task, NEW d,
           calls' = [calls EXCEPT ![t] = d], Good(d)'
    PROVE  CallsInv'
<1>1. \A s \in Task : Good(calls[s])'
  BY ReadingKept DEF CallsInv
<1>2. DOMAIN calls' = Task /\ calls'[t] = d /\ \A s \in Task : s # t => calls'[s] = calls[s]
  BY DEF CallsInv
<1>3. QED
  BY <1>1, <1>2, ReadingKept DEF CallsInv

(* A read sends no request that changes anything.                           *)
LEMMA StepOfRead ==
    ASSUME NEW c, Underway(c)
    PROVE  Step(c) \in {"observe", "fetch", "url", "download", "refetch"}
BY DEF Underway, Step, Observing, Fetching, Downloading

(* A call ends; a read must have its bytes if it succeeded.                 *)
LEMMA FinishGood ==
    ASSUME ServiceInv, ServiceStep, CallsInv, NEW t \in Task, NEW c, NEW outcome,
           DOMAIN c = CallFields,
           c.op = "read" =>
             /\ c.id \in Id
             /\ outcome = "ok" => Version(c.want)' /\ c.got = content'[c.want],
           Finish(t, c, outcome)
    PROVE  CallsInv'
<1> DEFINE d == [c EXCEPT !.phase = "done", !.outcome = outcome, !.plan = <<>>]
<1>1. /\ DOMAIN d = CallFields /\ d.op = c.op /\ d.id = c.id /\ d.phase = "done"
      /\ d.outcome = outcome
      /\ d.want = c.want /\ d.got = c.got
  BY DEF CallFields
<1>2. calls' = [calls EXCEPT ![t] = d]
  BY DEF Finish
<1> HIDE DEF d
<1>3. Good(d)'
  BY <1>1 DEF Good, Reading
<1>4. QED
  BY <1>2, <1>3, ReplaceCall

(* A call that is no read goes on.                                          *)
LEMMA GoOnOther ==
    ASSUME ServiceInv, ServiceStep, CallsInv, NEW t \in Task, NEW c, NEW plan,
           DOMAIN c = CallFields, c.op # "read", GoOn(t, c, plan)
    PROVE  CallsInv'
<1> DEFINE d == [c EXCEPT !.plan = plan, !.phase = "ready", !.resent = FALSE, !.waits = 0]
<1>1. DOMAIN d = CallFields /\ d.op = c.op
  BY DEF CallFields
<1>2. calls' = [calls EXCEPT ![t] = d]
  BY DEF GoOn
<1> HIDE DEF d
<1>3. Good(d)'
  BY <1>1 DEF Good
<1>4. QED
  BY <1>2, <1>3, ReplaceCall

(* A read goes on with what it has learned.                                 *)
LEMMA GoOnRead ==
    ASSUME ServiceInv, ServiceStep, CallsInv, NEW t \in Task, NEW c, NEW plan, NEW e,
           DOMAIN c = CallFields, c.id \in Id, e = [c EXCEPT !.plan = plan], Underway(e)',
           GoOn(t, c, plan)
    PROVE  CallsInv'
<1> DEFINE d == [c EXCEPT !.plan = plan, !.phase = "ready", !.resent = FALSE, !.waits = 0]
<1>1. DOMAIN d = CallFields /\ d.id \in Id /\ d.phase = "ready"
   /\ d.id = e.id /\ d.outcome = e.outcome /\ d.denial = e.denial /\ d.plan = e.plan
   /\ d.want = e.want /\ d.got = e.got /\ d.seen = e.seen
  BY DEF CallFields
<1>2. calls' = [calls EXCEPT ![t] = d]
  BY DEF GoOn
<1> HIDE DEF d
<1>3. Underway(d)'
  BY <1>1 DEF Underway
<1>4. Good(d)'
  BY <1>1, <1>3 DEF Good, Reading
<1>5. QED
  BY <1>2, <1>4, ReplaceCall

(* A call begins, again or for the first time; a read has learned nothing.  *)
LEMMA FreshGood ==
    ASSUME ServiceInv, ServiceStep, NEW c, NEW d, d = Fresh(c), DOMAIN c = CallFields,
           c.op = "read" => c.id \in Id /\ c.outcome # "ok" /\ c.denial # "ok"
    PROVE  Good(d)'
<1>1. /\ DOMAIN d = CallFields /\ d.id = c.id /\ d.phase = "ready" /\ d.op = c.op
      /\ d.outcome = c.outcome /\ d.denial = c.denial /\ d.plan = Script(c.op, c.form)
  BY DEF CallFields, Fresh
<1>2. ASSUME c.op = "read"
      PROVE  ((d.plan \in Revisioned) <=> (provider = "dropbox")) /\ d.plan \in Observing
  <2>1. d.plan = Script("read", c.form)
    BY <1>1, <1>2
  <2>2. CASE provider = "dropbox"
    <3>1. d.plan = <<"observe", "fetch", "download">>
      BY <2>1, <2>2, ReadScript DEF ServiceInv
    <3>2. QED
      BY <3>1, <2>2 DEF Revisioned, Observing
  <2>3. CASE provider = "onedrive"
    <3>1. d.plan = <<"observe", "fetch", "url", "download", "refetch">>
      BY <2>1, <2>3, ReadScript DEF ServiceInv
    <3>2. QED
      BY <3>1, <2>3 DEF Revisioned, Observing
  <2>4. CASE provider = "googledrive"
    <3>1. d.plan = <<"observe", "fetch", "download", "refetch">>
      BY <2>1, <2>4, ReadScript DEF ServiceInv
    <3>2. QED
      BY <3>1, <2>4 DEF Revisioned, Observing
  <2>5. QED
    BY <2>2, <2>3, <2>4 DEF ServiceInv, Provider
<1>3. ASSUME c.op = "read" PROVE Reading(d)'
  <2>1. Underway(d)'
    BY <1>1, <1>2, <1>3 DEF Underway, ServiceStep, Whole
  <2>2. QED
    BY <1>1, <1>3, <2>1 DEF Reading
<1>4. QED
  BY <1>1, <1>3 DEF Good

(* It is retried or ends with an error.                                     *)
LEMMA GiveUpGood ==
    ASSUME ServiceInv, ServiceStep, CallsInv, NEW t \in Task, NEW c, NEW kind,
           DOMAIN c = CallFields,
           c.op = "read" => c.id \in Id /\ c.outcome # "ok" /\ c.denial # "ok",
           c.op = "read" => kind # "ok", GiveUp(t, c, kind)
    PROVE  CallsInv'
<1>1. CASE Finish(t, c, kind)
  BY <1>1, FinishGood
<1>2. CASE calls' = [calls EXCEPT ![t] = Fresh([c EXCEPT !.attempt = @ + 1])]
  <2> DEFINE e == [c EXCEPT !.attempt = @ + 1]
  <2>1. /\ DOMAIN e = CallFields /\ e.op = c.op /\ e.id = c.id /\ e.outcome = c.outcome
        /\ e.denial = c.denial
    BY DEF CallFields
  <2>2. calls' = [calls EXCEPT ![t] = Fresh(e)]
    BY <1>2
  <2> HIDE DEF e
  <2>3. PICK d : d = Fresh(e)
    OBVIOUS
  <2>4. Good(d)'
    BY <2>1, <2>3, FreshGood
  <2>5. QED
    BY <2>2, <2>3, <2>4, ReplaceCall
<1>3. QED
  BY <1>1, <1>2 DEF GiveUp

(* A call that is no read ends.                                             *)
LEMMA FinishOther ==
    ASSUME ServiceInv, ServiceStep, CallsInv, NEW t \in Task, NEW c, NEW outcome,
           DOMAIN c = CallFields, c.op # "read", Finish(t, c, outcome)
    PROVE  CallsInv'
BY FinishGood

(* It looks where its object is.                                            *)
LEMMA LookAroundOther ==
    ASSUME ServiceInv, ServiceStep, CallsInv, NEW t \in Task, NEW c, NEW stage, NEW kind,
           DOMAIN c = CallFields, c.op # "read", LookAround(t, c, stage, kind)
    PROVE  CallsInv'
<1> DEFINE e == [c EXCEPT !.stage = stage, !.saved = kind]
<1>1. DOMAIN e = CallFields /\ e.op = c.op
  BY DEF CallFields
<1>2. GoOn(t, e, EndpointSteps)
  BY DEF LookAround
<1> HIDE DEF e
<1>3. QED
  BY <1>1, <1>2, GoOnOther

(* A request of a call fails.                                               *)
LEMMA FailsGood ==
    ASSUME ServiceInv, ServiceStep, CallsInv, NEW t \in Task, NEW c, NEW kind, Good(c),
           c.phase \in Active, c.op = "read" => kind # "ok", Fails(t, c, kind)
    PROVE  CallsInv'
<1>1. c.op = "read" => c.id \in Id /\ Underway(c)
  BY DEF Good, Reading, Active
<1>2. CASE GiveUp(t, c, kind)
  BY <1>1, <1>2, GiveUpGood DEF Underway, Good
<1>3. CASE RenamingCase(c) /\ CaseRenameFails(t, c, kind)
  <2>1. c.op # "read" /\ DOMAIN c = CallFields
    BY <1>1, <1>3, StepOfRead DEF RenamingCase, Good
  <2>2. CASE \E stage, k : LookAround(t, c, stage, k)
    BY <2>1, <2>2, LookAroundOther
  <2>3. CASE Finish(t, [c EXCEPT !.blind = TRUE], kind)
    <3> DEFINE e == [c EXCEPT !.blind = TRUE]
    <3>1. DOMAIN e = CallFields /\ e.op = c.op
      BY <2>1 DEF CallFields
    <3>2. Finish(t, e, kind)
      BY <2>3
    <3> HIDE DEF e
    <3>3. QED
      BY <2>1, <3>1, <3>2, FinishOther
  <2>4. QED
    BY <1>3, <2>2, <2>3 DEF CaseRenameFails
<1>4. QED
  BY <1>2, <1>3 DEF Fails

(* What an endpoint lookup leads to.                                        *)
LEMMA ConcludeOther ==
    ASSUME ServiceInv, ServiceStep, CallsInv, NEW t \in Task, NEW c, NEW place,
           DOMAIN c = CallFields, c.op # "read", Conclude(t, c, place)
    PROVE  CallsInv'
<1>1. CASE \E plan : GoOn(t, c, plan)
  BY <1>1, GoOnOther
<1>2. CASE \E outcome : Finish(t, c, outcome)
  BY <1>2, FinishOther
<1>3. QED
  BY <1>1, <1>2 DEF Conclude

(* A request of another call succeeds.                                      *)
LEMMA ProceedOther ==
    ASSUME ServiceInv, ServiceStep, CallsInv, NEW t \in Task, NEW c, DOMAIN c = CallFields,
           c.op # "read", Proceed(t, c)
    PROVE  CallsInv'
<1>1. DOMAIN Learn(c) = CallFields /\ Learn(c).op = c.op
  BY DEF Learn, CallFields
<1>2. CASE LookAround(t, c, "verify", c.saved)
  BY <1>2, LookAroundOther
<1>3. CASE \E plan : GoOn(t, Learn(c), plan)
  BY <1>1, <1>3, GoOnOther
<1>4. CASE Finish(t, Learn(c), "ok")
  BY <1>1, <1>4, FinishOther
<1>5. QED
  BY <1>2, <1>3, <1>4 DEF Proceed

(* The requests of a read and what is left after each.                      *)
LEMMA ObservingSteps ==
    ASSUME NEW p, p \in Observing
    PROVE  /\ Head(p) = "observe" /\ Tail(p) \in Fetching /\ (Whole(Tail(p)) <=> Whole(p))
           /\ Len(Tail(p)) # 0
<1>1. CASE p = <<"observe", "fetch", "download">>
  <2>1. Tail(p) = <<"fetch", "download">>
    BY <1>1
  <2>2. QED
    BY <1>1, <2>1 DEF Fetching, Revisioned, Whole
<1>2. CASE p = <<"observe", "fetch", "download", "refetch">>
  <2>1. Tail(p) = <<"fetch", "download", "refetch">>
    BY <1>2
  <2>2. QED
    BY <1>2, <2>1 DEF Fetching, Revisioned, Whole
<1>3. CASE p = <<"observe", "fetch", "url", "download", "refetch">>
  <2>1. Tail(p) = <<"fetch", "url", "download", "refetch">>
    BY <1>3
  <2>2. QED
    BY <1>3, <2>1 DEF Fetching, Revisioned, Whole
<1>4. QED
  BY <1>1, <1>2, <1>3 DEF Observing

(* After the fetch.                                                         *)
LEMMA FetchingSteps ==
    ASSUME NEW p, p \in Fetching
    PROVE  /\ Head(p) = "fetch" /\ Tail(p) \in Downloading
           /\ (Whole(Tail(p)) <=> Whole(p)) /\ Len(Tail(p)) # 0
<1>1. CASE p = <<"fetch", "download">>
  <2>1. Tail(p) = <<"download">>
    BY <1>1
  <2>2. QED
    BY <1>1, <2>1 DEF Downloading, Revisioned, Whole
<1>2. CASE p = <<"fetch", "download", "refetch">>
  <2>1. Tail(p) = <<"download", "refetch">>
    BY <1>2
  <2>2. QED
    BY <1>2, <2>1 DEF Downloading, Revisioned, Whole
<1>3. CASE p = <<"fetch", "url", "download", "refetch">>
  <2>1. Tail(p) = <<"url", "download", "refetch">>
    BY <1>3
  <2>2. QED
    BY <1>3, <2>1 DEF Downloading, Revisioned, Whole
<1>4. QED
  BY <1>1, <1>2, <1>3 DEF Fetching

(* After the request for a link, and after the download.                    *)
LEMMA DownloadingSteps ==
    ASSUME NEW p, p \in Downloading
    PROVE  \/ /\ Head(p) = "url" /\ ~Whole(p)
              /\ Tail(p) \in Downloading /\ ~Whole(Tail(p)) /\ Len(Tail(p)) # 0
           \/ Head(p) = "download" /\ Whole(p) /\ Tail(p) = <<>>
           \/ Head(p) = "download" /\ ~Whole(p) /\ Tail(p) = <<"refetch">>
<1>1. CASE p = <<"download">>
  BY <1>1 DEF Revisioned, Whole
<1>2. CASE p = <<"download", "refetch">>
  BY <1>2 DEF Downloading, Revisioned, Whole
<1>3. CASE p = <<"url", "download", "refetch">>
  <2>1. Tail(p) = <<"download", "refetch">>
    BY <1>3
  <2>2. QED
    BY <1>3, <2>1 DEF Downloading, Revisioned, Whole
<1>4. QED
  BY <1>1, <1>2, <1>3 DEF Downloading

(* The last look.                                                           *)
LEMMA LastReadStep ==
   /\ Head(<<"refetch">>) = "refetch" /\ Tail(<<"refetch">>) = <<>>
   /\ ~Whole(<<"refetch">>) /\ Len(<<"refetch">>) # 0
BY DEF Whole, Revisioned

(* The service is as it was.                                                *)
Still == ServiceStep /\ objs' = objs /\ content' = content

(* The observation binds the read to the version of the moment.             *)
LEMMA ObserveGood ==
    ASSUME ServiceInv, Still, CallsInv, NEW t \in Task, NEW c, DOMAIN c = CallFields,
           c.op = "read", c.id \in Id, Underway(c), c.plan \in Observing, LooksUp(t, c),
           Verdict(c) = "next"
    PROVE  CallsInv'
<1>1. /\ Step(c) = "observe" /\ Tail(c.plan) \in Fetching
      /\ (Whole(Tail(c.plan)) <=> Whole(c.plan)) /\ Len(Tail(c.plan)) # 0
  BY ObservingSteps DEF Step
<1>2. Live(c.id) /\ objs[c.id].ver \in 1 .. Len(content)
  BY <1>1, NumberedLen DEF Verdict, ObserveVerdict, Gone, ReadFails, ServiceInv
<1>3. GoOn(t, Learn(c), Tail(c.plan))
  BY <1>1 DEF LooksUp, Proceed, NextPlan
<1> DEFINE d == Learn(c)
           e == [d EXCEPT !.plan = Tail(c.plan)]
<1>4. d = [c EXCEPT !.want = objs[c.id].ver]
  BY <1>1 DEF Learn
<1> HIDE DEF d
<1>5. DOMAIN d = CallFields /\ d.id \in Id
  BY <1>4 DEF CallFields
<1>6. /\ e.plan = Tail(c.plan) /\ e.outcome = c.outcome /\ e.denial = c.denial
      /\ e.want = objs[c.id].ver
  BY <1>4 DEF CallFields
<1>7. PICK f : f = e
  OBVIOUS
<1>8. Underway(f)'
  BY <1>1, <1>2, <1>6, <1>7 DEF Underway, Still, ServiceStep, Version
<1>9. GoOn(t, d, Tail(c.plan))
  BY <1>3 DEF d
<1>10. QED
  BY <1>5, <1>7, <1>8, <1>9, GoOnRead DEF Still

(* The fetch finds that version or fails.                                   *)
LEMMA FetchGood ==
    ASSUME ServiceInv, Still, CallsInv, NEW t \in Task, NEW c, DOMAIN c = CallFields,
           c.op = "read", c.id \in Id, Underway(c), c.plan \in Fetching, Version(c.want),
           LooksUp(t, c), Verdict(c) = "next"
    PROVE  CallsInv'
<1>1. /\ Step(c) = "fetch" /\ Tail(c.plan) \in Downloading
      /\ (Whole(Tail(c.plan)) <=> Whole(c.plan)) /\ Len(Tail(c.plan)) # 0
  BY FetchingSteps DEF Step
<1>2. objs[c.id].ver = c.want
  <2>1. FetchVerdict(c) = "next"
    BY <1>1 DEF Verdict
  <2>2. Compared(c) = "next"
    BY <2>1
       DEF FetchVerdict, DropboxFetch, OneDriveFetch, DriveFetch, OneDriveGuard, Missing,
           ReadFails, ServiceInv, Provider
  <2>3. c.want # NoVersion
    BY NoVersionAssumption, NumberedLen DEF Version, ServiceInv
  <2>4. QED
    BY <2>2, <2>3 DEF Compared, ReadFails
<1>3. GoOn(t, Learn(c), Tail(c.plan))
  BY <1>1 DEF LooksUp, Proceed, NextPlan, CaseOnly
<1> DEFINE d == Learn(c)
           e == [d EXCEPT !.plan = Tail(c.plan)]
<1>4. d = [c EXCEPT !.seen = objs[c.id].ver, !.seenAt = objs[c.id].at, !.caseOnly = CaseOnly(c)]
  BY <1>1 DEF Learn
<1> HIDE DEF d
<1>5. DOMAIN d = CallFields /\ d.id \in Id
  BY <1>4 DEF CallFields
<1>6. /\ e.plan = Tail(c.plan) /\ e.outcome = c.outcome /\ e.denial = c.denial
      /\ e.want = c.want /\ e.seen = c.want
  BY <1>2, <1>4 DEF CallFields
<1>7. PICK f : f = e
  OBVIOUS
<1>8. Underway(f)'
  BY <1>1, <1>2, <1>6, <1>7 DEF Underway, Still, ServiceStep, Version
<1>9. GoOn(t, d, Tail(c.plan))
  BY <1>3 DEF d
<1>10. QED
  BY <1>5, <1>7, <1>8, <1>9, GoOnRead DEF Still

(* The download brings the bytes of the revision, or those of the moment.   *)
LEMMA DownloadGood ==
    ASSUME ServiceInv, Still, CallsInv, NEW t \in Task, NEW c, DOMAIN c = CallFields,
           c.op = "read", c.id \in Id, Underway(c), c.plan \in Downloading, Version(c.want),
           c.seen = c.want, LooksUp(t, c), Verdict(c) = "next"
    PROVE  CallsInv'
<1> DEFINE d == Learn(c)
           e == [d EXCEPT !.plan = Tail(c.plan)]
<1>1. CASE /\ Step(c) = "url" /\ ~Whole(c.plan) /\ Tail(c.plan) \in Downloading
           /\ ~Whole(Tail(c.plan)) /\ Len(Tail(c.plan)) # 0
  <2>1. GoOn(t, d, Tail(c.plan)) /\ d = c
    BY <1>1 DEF LooksUp, Proceed, NextPlan, Learn
  <2> HIDE DEF d
  <2>2. /\ e.plan = Tail(c.plan) /\ e.outcome = c.outcome /\ e.denial = c.denial
        /\ e.want = c.want /\ e.seen = c.want
    BY <2>1 DEF CallFields
  <2>3. PICK f : f = e
    OBVIOUS
  <2>4. Underway(f)'
    BY <1>1, <2>2, <2>3 DEF Underway, Still, ServiceStep, Version
  <2>5. QED
    BY <2>1, <2>3, <2>4, GoOnRead DEF Still
<1>2. CASE Step(c) = "download" /\ Whole(c.plan) /\ Tail(c.plan) = <<>>
  <2>1. d = [c EXCEPT !.got = Bytes(c)]
    BY <1>2 DEF Learn
  <2>2. Finish(t, d, "ok")
    BY <1>2 DEF LooksUp, Proceed, NextPlan
  <2> HIDE DEF d
  <2>3. Bytes(c) = content[c.want]
    BY <1>2 DEF Bytes, Underway
  <2>4. DOMAIN d = CallFields /\ d.id = c.id /\ d.want = c.want /\ d.got = content[c.want]
    BY <2>1, <2>3 DEF CallFields
  <2>5. QED
    BY <2>2, <2>4, FinishGood DEF Still, Version
<1>3. CASE Step(c) = "download" /\ ~Whole(c.plan) /\ Tail(c.plan) = <<"refetch">>
  <2>1. d = [c EXCEPT !.got = Bytes(c)]
    BY <1>3 DEF Learn
  <2>2. GoOn(t, d, Tail(c.plan))
    BY <1>3, LastReadStep DEF LooksUp, Proceed, NextPlan
  <2> HIDE DEF d
  <2>3. Bytes(c) = content[objs[c.id].ver]
    BY <1>3 DEF Bytes, Underway
  <2>4. DOMAIN d = CallFields /\ d.id \in Id
    BY <2>1 DEF CallFields
  <2>5. /\ e.plan = <<"refetch">> /\ e.outcome = c.outcome /\ e.denial = c.denial
        /\ e.want = c.want /\ e.seen = c.want
        /\ e.id = c.id /\ e.got = content[objs[c.id].ver]
    BY <1>3, <2>1, <2>3 DEF CallFields
  <2>6. PICK f : f = e
    OBVIOUS
  <2>7. Underway(f)'
    BY <1>3, <2>5, <2>6, LastReadStep DEF Underway, Still, ServiceStep, Version
  <2>8. QED
    BY <2>2, <2>4, <2>6, <2>7, GoOnRead DEF Still
<1>4. QED
  BY <1>1, <1>2, <1>3, DownloadingSteps DEF Step

(* The last look succeeds only on the version of the fetch, and then the    *)
(* bytes are its bytes.                                                     *)
LEMMA RefetchGood ==
    ASSUME ServiceInv, Still, CallsInv, NEW t \in Task, NEW c, DOMAIN c = CallFields,
           c.op = "read", c.id \in Id, Underway(c), c.plan = <<"refetch">>, LooksUp(t, c),
           Verdict(c) = "next"
    PROVE  CallsInv'
<1>1. Step(c) = "refetch" /\ Tail(c.plan) = <<>>
  BY LastReadStep DEF Step
<1>2. objs[c.id].ver = c.seen
  BY <1>1 DEF Verdict, RefetchVerdict, ReadFails
<1>3. Finish(t, Learn(c), "ok") /\ Learn(c) = c
  BY <1>1 DEF LooksUp, Proceed, NextPlan, Learn
<1>4. c.seen = c.want /\ Version(c.want) /\ c.got = content[c.want]
  BY <1>2 DEF Underway, Observing, Fetching, Downloading
<1>5. QED
  BY <1>3, <1>4, FinishGood DEF Still, Version

(* A lookup keeps every call good.                                          *)
LEMMA LooksUpGood ==
    ASSUME ServiceInv, Still, CallsInv, NEW t \in Task, NEW c, Good(c), c.phase \in Active,
           LooksUp(t, c)
    PROVE  CallsInv'
<1>1. ASSUME c.op = "read" PROVE c.id \in Id /\ Underway(c)
  BY <1>1 DEF Good, Reading, Active
<1>2. CASE Verdict(c) = "next"
  <2>1. CASE c.op # "read"
    <3>1. Proceed(t, c)
      BY <1>2 DEF LooksUp
    <3>2. QED
      BY <2>1, <3>1, ProceedOther DEF Good, Still
  <2>2. CASE c.op = "read"
    BY <1>1, <1>2, <2>2, ObserveGood, FetchGood, DownloadGood, RefetchGood DEF Good, Underway
  <2>3. QED
    BY <2>1, <2>2
<1>3. CASE Verdict(c) = "done"
  <2>1. Finish(t, c, "ok")
    BY <1>3 DEF LooksUp
  <2>2. c.op # "read"
    <3>1. SUFFICES ASSUME c.op = "read" PROVE FALSE
      OBVIOUS
    <3>2. Compared(c) # "done" /\ Missing(c) # "done"
      BY <3>1 DEF Compared, Missing, ReadFails
    <3>3. FetchVerdict(c) # "done"
      BY <3>2
         DEF FetchVerdict, DropboxFetch, OneDriveFetch, DriveFetch, OneDriveGuard, ServiceInv,
             Provider
    <3>4. Step(c) \in {"observe", "fetch", "url", "download", "refetch"}
      BY <1>1, <3>1, StepOfRead
    <3>5. QED
      BY <1>3, <3>3, <3>4 DEF Verdict, ObserveVerdict, UrlVerdict, RefetchVerdict, ReadFails
  <2>3. QED
    BY <2>1, <2>2, FinishOther DEF Good, Still
<1>4. CASE Verdict(c) \notin {"next", "done"}
  <2>1. Fails(t, c, Verdict(c))
    BY <1>4 DEF LooksUp
  <2>2. c.op = "read" => Verdict(c) # "ok"
    <3>1. SUFFICES ASSUME c.op = "read" PROVE Verdict(c) # "ok"
      OBVIOUS
    <3>2. Compared(c) # "ok" /\ Missing(c) # "ok"
      BY <3>1 DEF Compared, Missing, ReadFails
    <3>3. FetchVerdict(c) # "ok"
      BY <3>2
         DEF FetchVerdict, DropboxFetch, OneDriveFetch, DriveFetch, OneDriveGuard, ServiceInv,
             Provider
    <3>4. Step(c) \in {"observe", "fetch", "url", "download", "refetch"}
      BY <1>1, <3>1, StepOfRead
    <3>5. QED
      BY <3>3, <3>4 DEF Verdict, ObserveVerdict, UrlVerdict, RefetchVerdict, ReadFails
  <2>3. QED
    BY <2>1, <2>2, FailsGood DEF Still
<1>5. QED
  BY <1>2, <1>3, <1>4

(* So does every request that is answered.                                  *)
LEMMA DeliverGood ==
    ASSUME ServiceInv, CallsInv, NEW t \in Task, Deliver(t)
    PROVE  CallsInv' /\ ServiceStep
<1> DEFINE c == calls[t]
<1>1. Good(c) /\ c.phase \in Active
  BY DEF CallsInv, Deliver, CanSend, Active
<1>2. provider' = provider
  BY DEF Deliver, Quiet
<1>3. ASSUME c.op = "read"
      PROVE Step(c) \notin Mutations \union {"open", "atOld", "atNew", "atTemp"}
  BY <1>1, <1>3, StepOfRead DEF Good, Reading, Active, Mutations
<1>4. CASE LooksUp(t, c)
  <2>1. UNCHANGED <<objs, content>>
    BY <1>4 DEF LooksUp
  <2>2. Still
    BY <1>2, <2>1, ChangeIsStep DEF Still
  <2>3. QED
    BY <1>1, <1>4, <2>2, LooksUpGood DEF Still
<1>5. CASE LooksForEndpoint(t, c)
  <2>1. UNCHANGED <<objs, content>> /\ c.op # "read"
    BY <1>3, <1>5 DEF LooksForEndpoint
  <2>2. ServiceStep
    BY <1>2, <2>1, ChangeIsStep
  <2>3. DOMAIN c = CallFields
    BY <1>1 DEF Good
  <2>4. CASE \E place : Conclude(t, c, place)
    BY <2>1, <2>2, <2>3, <2>4, ConcludeOther
  <2>5. CASE GoOn(t, c, Tail(c.plan))
    BY <2>1, <2>2, <2>3, <2>5, GoOnOther
  <2>6. QED
    BY <1>5, <2>2, <2>4, <2>5 DEF LooksForEndpoint
<1>6. CASE Changes(t, c)
  <2>1. c.op # "read" /\ Step(c) \in Mutations \union {"open"}
    BY <1>3, <1>6 DEF Changes
  <2>2. CASE Effect(c) /\ Proceed(t, c)
    <3>1. ServiceStep
      BY <1>2, <2>1, <2>2, EffectIsStep
    <3>2. QED
      BY <1>1, <2>1, <2>2, <3>1, ProceedOther DEF Good
  <2>3. CASE UNCHANGED <<objs, content>> /\ Fails(t, c, Answer(c))
    <3>1. ServiceStep
      BY <1>2, <2>3, ChangeIsStep
    <3>2. QED
      BY <1>1, <2>1, <2>3, <3>1, FailsGood
  <2>4. QED
    BY <1>6, <2>2, <2>3 DEF Changes
<1>7. QED
  BY <1>4, <1>5, <1>6 DEF Deliver

(* What changes only the phase of a call keeps it good.                     *)
LEMMA PhaseGood ==
    ASSUME ServiceInv, CallsInv, ServiceStep, NEW t \in Task, NEW d, Good(calls[t]),
           DOMAIN d = CallFields, d.op = calls[t].op, d.id = calls[t].id,
           d.outcome = calls[t].outcome, d.denial # "ok", d.plan = calls[t].plan,
           d.want = calls[t].want, d.seen = calls[t].seen, d.got = calls[t].got,
           \/ calls[t].phase \in Active /\ d.phase \in Active
           \/ calls[t].phase = "new" /\ d.phase = "waiting"
    PROVE  Good(d)'
<1>1. Good(d)
  BY DEF Good, Reading, Underway, Active
<1>2. QED
  BY <1>1, ReadingKept

(* Handing the outcome of a refresh to all that waited for it.              *)
LEMMA HandGood ==
    ASSUME ServiceInv, CallsInv, ServiceStep, NEW phase \in Active, NEW kind, kind # "ok",
           Hand(phase, kind)
    PROVE  CallsInv'
<1>1. DOMAIN calls' = Task
  BY DEF Hand
<1>2. ASSUME NEW t \in Task PROVE Good(calls[t])'
  <2>1. CASE t \notin Waiters
    <3>1. calls'[t] = calls[t]
      BY <2>1 DEF Hand
    <3>2. QED
      BY <3>1, ReadingKept DEF CallsInv
  <2>2. CASE t \in Waiters
    <3>1. PICK d : d = [calls[t] EXCEPT !.phase = phase, !.denial = kind]
      OBVIOUS
    <3>2. calls'[t] = d
      BY <2>2, <3>1 DEF Hand
    <3>3. DOMAIN calls[t] = CallFields
      BY DEF CallsInv, Good
    <3>4. /\ DOMAIN d = CallFields /\ d.op = calls[t].op /\ d.id = calls[t].id
          /\ d.outcome = calls[t].outcome /\ d.denial = kind
          /\ d.plan = calls[t].plan /\ d.want = calls[t].want /\ d.seen = calls[t].seen
          /\ d.got = calls[t].got /\ d.phase = phase
      BY <3>1, <3>3 DEF CallFields
    <3>5. calls[t].phase \in Active
      BY <2>2 DEF Waiters, Active
    <3>6. Good(d)'
      BY <3>4, <3>5, PhaseGood DEF CallsInv
    <3>7. QED
      BY <3>2, <3>6
  <2>3. QED
    BY <2>1, <2>2
<1>3. QED
  BY <1>1, <1>2 DEF CallsInv

(* A call in another phase.                                                 *)
Moved(c, phase, resent, waits) ==
    [c EXCEPT !.phase = phase, !.resent = resent, !.waits = waits]

(* One call changes its phase.                                              *)
LEMMA PhaseStep ==
    ASSUME ServiceInv, CallsInv, ServiceStep, NEW t \in Task, NEW phase, NEW resent, NEW waits,
           calls' = [calls EXCEPT ![t] = Moved(calls[t], phase, resent, waits)],
           \/ calls[t].phase \in Active /\ phase \in Active
           \/ calls[t].phase = "new" /\ phase = "waiting"
    PROVE  CallsInv'
<1>1. PICK d : d = Moved(calls[t], phase, resent, waits)
  OBVIOUS
<1>2. DOMAIN calls[t] = CallFields
  BY DEF CallsInv, Good
<1>3. /\ DOMAIN d = CallFields /\ d.op = calls[t].op /\ d.id = calls[t].id
      /\ d.outcome = calls[t].outcome /\ d.denial = calls[t].denial
          /\ d.plan = calls[t].plan /\ d.want = calls[t].want /\ d.seen = calls[t].seen
          /\ d.got = calls[t].got /\ d.phase = phase
  BY <1>1, <1>2 DEF CallFields, Moved
<1>4. calls[t].op = "read" => d.denial # "ok"
  BY <1>3 DEF CallsInv, Good, Reading, Underway, Active
<1>5. Good(d)'
  <2>1. CASE calls[t].op = "read"
    BY <1>3, <1>4, <2>1, PhaseGood DEF CallsInv
  <2>2. CASE calls[t].op # "read"
    BY <1>3, <2>2 DEF Good
  <2>3. QED
    BY <2>1, <2>2
<1>6. QED
  BY <1>1, <1>5, ReplaceCall

(* The inductive invariant of reads.                                        *)
ReadInv == ServiceInv /\ CallsInv

(* Every step of the plan, of the token manager and of other devices keeps  *)
(* it.                                                                      *)
LEMMA ReadInvStep ==
    ASSUME ReadInv, [Next]_vars
    PROVE  ReadInv'
<1> USE DEF ReadInv
<1>0. ASSUME UNCHANGED service PROVE ServiceStep
  BY <1>0, ChangeIsStep DEF service
<1>s. ServiceStep => ServiceInv'
  BY DEF ServiceStep
<1>1. ASSUME NEW t \in Task, Enter(t) PROVE ReadInv'
  <2>1. calls' = [calls EXCEPT ![t] =
                    Moved(calls[t], "waiting", calls[t].resent, calls[t].waits)]
    BY <1>1 DEF Enter, CallsInv, Good, CallFields, Moved
  <2>2. calls[t].phase = "new"
    BY <1>1 DEF Enter
  <2>3. ServiceStep
    BY <1>0, <1>1 DEF Enter
  <2>4. QED
    BY <1>s, <2>1, <2>2, <2>3, PhaseStep
<1>2. ASSUME NEW t \in Task, Start(t) \/ StartStructural(t) PROVE ReadInv'
  <2>1. ServiceStep
    BY <1>0, <1>2 DEF Start, StartStructural
  <2>2. calls[t].phase \in {"waiting", "new"}
    BY <1>2 DEF Start, StartStructural, Admitted
  <2>3. PICK d : d = Fresh(calls[t])
    OBVIOUS
  <2>4. calls' = [calls EXCEPT ![t] = d]
    BY <1>2, <2>3 DEF Start, StartStructural
  <2>5. Good(d)'
    BY <2>1, <2>2, <2>3, FreshGood DEF CallsInv, Good, Reading
  <2>6. QED
    BY <1>s, <2>1, <2>4, <2>5, ReplaceCall
<1>3. ASSUME NEW t \in Task, Deliver(t) PROVE ReadInv'
  BY <1>s, <1>3, DeliverGood
<1>f. ASSUME NEW t \in Task, NEW kind, ServiceStep, calls[t].phase \in Active,
             calls[t].op = "read" => kind # "ok", Fails(t, calls[t], kind)
      PROVE  ReadInv'
  BY <1>f, <1>s, FailsGood DEF CallsInv
<1>4. ASSUME NEW t \in Task, Refused(t) PROVE ReadInv'
  <2>1. ServiceStep
    BY <1>0, <1>4 DEF Refused, Quiet, service
  <2>2. calls[t].phase \in Active
    BY <1>4 DEF Refused, CanSend, Active
  <2>3. CASE Fails(t, calls[t], "auth")
    BY <1>f, <2>1, <2>2, <2>3
  <2>4. CASE calls' = [calls EXCEPT ![t].resent = TRUE, ![t].phase = "ready"]
    <3>1. calls' = [calls EXCEPT ![t] = Moved(calls[t], "ready", TRUE, calls[t].waits)]
      BY <2>4 DEF CallsInv, Good, CallFields, Moved
    <3>2. QED
      BY <1>s, <2>1, <2>2, <3>1, PhaseStep DEF Active
  <2>5. QED
    BY <1>4, <2>3, <2>4 DEF Refused
<1>5. ASSUME NEW t \in Task, Throttled(t) PROVE ReadInv'
  <2>1. ServiceStep
    BY <1>0, <1>5 DEF Throttled, Quiet, service
  <2>2. calls[t].phase \in Active
    BY <1>5 DEF Throttled, CanSend, Active
  <2>3. CASE Fails(t, calls[t], "rate_limit")
    BY <1>f, <2>1, <2>2, <2>3
  <2>4. CASE calls' = [calls EXCEPT ![t].waits = @ + 1, ![t].phase = "ready"]
    <3>1. calls' = [calls EXCEPT ![t] =
                      Moved(calls[t], "ready", calls[t].resent, calls[t].waits + 1)]
      BY <2>4 DEF CallsInv, Good, CallFields, Moved
    <3>2. QED
      BY <1>s, <2>1, <2>2, <3>1, PhaseStep DEF Active
  <2>5. QED
    BY <1>5, <2>3, <2>4 DEF Throttled
<1>6. ASSUME NEW t \in Task, Unreachable(t) \/ Forbidden(t) PROVE ReadInv'
  <2>1. ServiceStep
    BY <1>0, <1>6 DEF Unreachable, Forbidden, Quiet, service
  <2>2. calls[t].phase \in Active
    BY <1>6 DEF Unreachable, Forbidden, CanSend, Active
  <2>3. Fails(t, calls[t], "transient") \/ Fails(t, calls[t], "permission")
    BY <1>6 DEF Unreachable, Forbidden
  <2>4. QED
    BY <1>f, <2>1, <2>2, <2>3
<1>7. ASSUME NEW t \in Task, AnswerLost(t) PROVE ReadInv'
  <2>1. ServiceStep
    BY <1>7, EffectIsStep DEF AnswerLost, Quiet
  <2>2. calls[t].phase \in Active
    BY <1>7 DEF AnswerLost, CanSend, Active
  <2>3. Fails(t, calls[t], "transient")
    BY <1>7 DEF AnswerLost
  <2>4. QED
    BY <1>f, <2>1, <2>2, <2>3
<1>8. ASSUME NEW t \in Task, TakeToken(t) PROVE ReadInv'
  <2>1. ServiceStep
    BY <1>0, <1>8 DEF TakeToken
  <2>2. calls[t].phase \in Active
    BY <1>8 DEF TakeToken, Active
  <2>3. CASE Fails(t, calls[t], "auth")
    BY <1>f, <2>1, <2>2, <2>3
  <2>4. CASE calls' = [calls EXCEPT ![t].phase = "token"]
    <3>1. calls' = [calls EXCEPT ![t] =
                      Moved(calls[t], "token", calls[t].resent, calls[t].waits)]
      BY <2>4 DEF CallsInv, Good, CallFields, Moved
    <3>2. QED
      BY <1>s, <2>1, <2>2, <3>1, PhaseStep DEF Active
  <2>5. QED
    BY <1>8, <2>3, <2>4 DEF TakeToken
<1>9. ASSUME NEW t \in Task, RefreshWorks(t) PROVE ReadInv'
  <2>1. ServiceStep /\ Hand("holding", "none")
    BY <1>0, <1>9 DEF RefreshWorks
  <2>2. QED
    BY <1>s, <2>1, HandGood DEF Active
<1>10. ASSUME NEW t \in Task, RefreshFails(t) PROVE ReadInv'
  <2>1. ServiceStep /\ (Hand("denied", "auth") \/ Hand("denied", "transient"))
    BY <1>0, <1>10 DEF RefreshFails
  <2>2. QED
    BY <1>s, <2>1, HandGood DEF Active
<1>11. ASSUME NEW t \in Task, Denied(t) PROVE ReadInv'
  <2>1. ServiceStep
    BY <1>0, <1>11 DEF Denied
  <2>2. calls[t].phase \in Active
    BY <1>11 DEF Denied, Active
  <2>3. calls[t].op = "read" => calls[t].denial # "ok"
    BY <2>2 DEF CallsInv, Good, Reading, Underway, Active
  <2>4. Fails(t, calls[t], calls[t].denial)
    BY <1>11 DEF Denied
  <2>5. QED
    BY <1>f, <2>1, <2>2, <2>3, <2>4
<1>12. ASSUME ServiceStep, UNCHANGED calls PROVE ReadInv'
  BY <1>12, <1>s, ReadingKept DEF CallsInv
<1>13. CASE \/ \E t \in Task : RefreshRotates(t)
            \/ TokenEnds \/ OthersAct \/ Done \/ UNCHANGED vars
  <2>1. ServiceStep
    BY <1>0, <1>13, OthersAreStep DEF RefreshRotates, TokenEnds, OthersAct, Done, vars
  <2>2. UNCHANGED calls
    BY <1>13 DEF RefreshRotates, TokenEnds, OthersAct, Done, vars
  <2>3. QED
    BY <1>12, <2>1, <2>2
<1>14. QED
  BY <1>1, <1>2, <1>3, <1>4, <1>5, <1>6, <1>7, <1>8, <1>9, <1>10, <1>11, <1>13 DEF Next

(* A plan starts with it.                                                   *)
LEMMA BatchStarts == Init => ReadInv
<1>1. SUFFICES ASSUME Init PROVE ServiceInv /\ CallsInv
  BY DEF ReadInv
<1>2. PICK b \in Batches : /\ provider = b.provider /\ objs = b.objs
                            /\ content = b.content /\ calls = b.calls
  BY <1>1 DEF Init
<1>3. ServiceInv
  BY <1>2, BatchesAssumption DEF ServiceInv, Numbered, Shaped, Live
<1>4. CallsInv
  BY <1>2, BatchesAssumption DEF CallsInv, Unmade, Good, Reading
<1>5. QED
  BY <1>3, <1>4

(* A read that succeeds has brought the bytes of the version it was bound   *)
(* to, with any number of other calls, other devices, retries and lost      *)
(* answers between its requests: by revision from Dropbox, and elsewhere    *)
(* because it looks again and a file never gets a version back (adapter.ts  *)
(* of each backend, read).                                                  *)
THEOREM BatchReadsAreBound == Spec => []ReadsAreBound
<1>1. ReadInv /\ [Next]_vars => ReadInv'
  BY ReadInvStep
<1>2. ReadInv => ReadsAreBound
  BY DEF ReadInv, CallsInv, Good, Reading, Underway, ReadsAreBound
<1>3. QED
  BY BatchStarts, <1>1, <1>2, PTL DEF Spec

-----------------------------------------------------------------------------
(* Changes.  What a call is about to change it has looked at, and the plan  *)
(* says with which requests it goes on: the plans of the three providers    *)
(* and their remainders.                                                    *)
UploadPlans == {<<"write">>, <<"open", "write">>, <<"put", "mtime">>, <<"mtime">>}
FetchUpload == {<<"fetch", "write">>, <<"fetch", "open", "write">>, <<"fetch", "put", "mtime">>}
FetchChange == {<<"fetch", "rename">>, <<"fetch", "remove">>}
Simple == {<<"rename">>, <<"remove">>}
CaseOnlyPlans == {<<"tempFree", "targetFree", "aside", "home">>,
                  <<"targetFree", "aside", "home">>, <<"aside", "home">>, <<"home">>, <<"back">>,
                  <<"atOld", "atNew", "atTemp">>, <<"atNew", "atTemp">>, <<"atTemp">>}

(* Only OneDrive sets a date by a request of its own.                       *)
Dated == {<<"fetch", "put", "mtime">>, <<"put", "mtime">>, <<"mtime">>}

(* An update sends its bytes when what it saw is what the caller admitted,  *)
(* a move or a deletion also when the caller admitted nothing; OneDrive     *)
(* does not take the latter and moves in one request.                       *)
Prepared(op, plan, want, seen) ==
    \/ op = "create" /\ plan \in UploadPlans
    \/ op = "update" /\ plan \in FetchUpload /\ (provider = "googledrive" => plan \notin Dated)
    \/ /\ op = "update" /\ plan \in UploadPlans
       /\ seen = want \/ plan = <<"mtime">>
       /\ provider = "googledrive" => plan \notin Dated
    \/ op \in Structural /\ plan \in FetchChange
    \/ /\ op \in Structural /\ want \in {NoVersion, seen} /\ provider # "onedrive"
       /\ plan \in Simple \union CaseOnlyPlans
    \/ op \in Structural /\ want = seen /\ plan \in Simple

(* A call under way is prepared; of reads the section above speaks.         *)
Careful(c) ==
    /\ c.op \in Structural \union {"read", "create", "update"}
    /\ c.op # "read" /\ c.phase \in Active => Prepared(c.op, c.plan, c.want, c.seen)

CarefulInv == \A t \in Task : Careful(calls[t])

(* Sequences put together.                                                  *)
LEMMA JoinTwo ==
    ASSUME NEW a, NEW b
    PROVE  <<a>> \o <<b>> = <<a, b>>
<1> DEFINE s == <<a>> \o <<b>>
           u == <<a, b>>
           T == {a, b}
<1>1. /\ <<a>> \in Seq(T) /\ Len(<<a>>) = 1
      /\ <<b>> \in Seq(T) /\ Len(<<b>>) = 1
      /\ u \in Seq(T) /\ Len(u) = 2
  OBVIOUS
<1> HIDE DEF T
<1>2. s \in Seq(T) /\ Len(s) = 2
  BY <1>1
<1>3. \A i \in 1 .. 2 : s[i] = u[i]
  BY <1>1
<1> HIDE DEF s, u
<1>4. s = u
  BY <1>1, <1>2, <1>3
<1>5. QED
  BY <1>4 DEF s, u

(* The uploads of the three providers.                                      *)
LEMMA UploadScript ==
    ASSUME provider \in Provider, NEW form
    PROVE  /\ UploadSteps(form) \in {<<"write">>, <<"open", "write">>, <<"put", "mtime">>}
           /\ provider = "googledrive" => UploadSteps(form) # <<"put", "mtime">>
<1>1. CASE provider = "dropbox"
  BY <1>1 DEF UploadSteps, DropboxUpload
<1>2. CASE provider = "onedrive"
  BY <1>2 DEF UploadSteps, OneDriveUpload, OneDriveSession, OneDriveSimple
<1>3. CASE provider = "googledrive"
  <2>1. UploadSteps(form) \in {<<"write">>, <<"open", "write">>}
    BY <1>3 DEF UploadSteps, DriveUpload, DriveSession
  <2>2. <<"write">> # <<"put", "mtime">> /\ <<"open", "write">> # <<"put", "mtime">>
    OBVIOUS
  <2>3. QED
    BY <2>1, <2>2
<1>4. QED
  BY <1>1, <1>2, <1>3 DEF Provider

(* The plan a call begins with.                                             *)
LEMMA ScriptPrepared ==
    ASSUME provider \in Provider, NEW op \in Structural \union {"create", "update"}, NEW form,
           NEW want, NEW seen
    PROVE  Prepared(op, Script(op, form), want, seen)
<1>1. CASE op = "create"
  <2>1. Script(op, form) = UploadSteps(form)
    BY <1>1 DEF Script
  <2>2. QED
    BY <1>1, <2>1, UploadScript DEF Prepared, UploadPlans
<1>2. CASE op = "update"
  <2>1. Script(op, form) = <<"fetch">> \o UploadSteps(form)
    BY <1>2 DEF Script
  <2>2. /\ Script(op, form) \in FetchUpload
        /\ UploadSteps(form) # <<"put", "mtime">> => Script(op, form) \notin Dated
    <3>1. CASE UploadSteps(form) = <<"write">>
      <4>1. Script(op, form) = <<"fetch", "write">>
        BY <2>1, <3>1, JoinTwo
      <4>2. QED
        BY <4>1 DEF FetchUpload, Dated
    <3>2. CASE UploadSteps(form) = <<"open", "write">>
      <4>1. Script(op, form) = <<"fetch", "open", "write">>
        BY <2>1, <3>2, JoinFirst
      <4>2. QED
        BY <4>1 DEF FetchUpload, Dated
    <3>3. CASE UploadSteps(form) = <<"put", "mtime">>
      <4>1. Script(op, form) = <<"fetch", "put", "mtime">>
        BY <2>1, <3>3, JoinFirst
      <4>2. QED
        BY <3>3, <4>1 DEF FetchUpload
    <3>4. QED
      BY <3>1, <3>2, <3>3, UploadScript
  <2>3. QED
    BY <1>2, <2>2, UploadScript DEF Prepared
<1>3. CASE op \in Structural
  <2>1. Script(op, form) \in FetchChange
    BY <1>3 DEF Script, FetchChange, Structural
  <2>2. QED
    BY <1>3, <2>1 DEF Prepared
<1>4. QED
  BY <1>1, <1>2, <1>3

(* The requests of an upload and what is left after each.                   *)
LEMMA UploadPlansStep ==
    ASSUME NEW p \in UploadPlans
    PROVE  /\ Head(p) \in {"write", "open", "put", "mtime"}
           /\ Head(p) = "put" => Tail(p) = <<"mtime">>
           /\ Head(p) = "mtime" => p = <<"mtime">>
           /\ Head(p) \in {"put", "mtime"} <=> p \in Dated
           /\ \/ Tail(p) = <<>> /\ Len(Tail(p)) = 0
              \/ Tail(p) = <<"write">> /\ Head(p) = "open"
              \/ Tail(p) = <<"mtime">> /\ Head(p) = "put"
<1>1. CASE p = <<"write">>
  BY <1>1 DEF Dated
<1>2. CASE p = <<"mtime">>
  BY <1>2 DEF Dated
<1>3. CASE p = <<"open", "write">>
  <2>1. Tail(p) = <<"write">> /\ Head(p) = "open"
    BY <1>3
  <2>2. p \notin Dated
    BY <1>3 DEF Dated
  <2>3. QED
    BY <2>1, <2>2
<1>4. CASE p = <<"put", "mtime">>
  <2>1. Tail(p) = <<"mtime">> /\ Head(p) = "put"
    BY <1>4
  <2>2. p \in Dated
    BY <1>4 DEF Dated
  <2>3. QED
    BY <2>1, <2>2
<1>5. QED
  BY <1>1, <1>2, <1>3, <1>4 DEF UploadPlans

(* The fetch before it.                                                     *)
LEMMA FetchUploadStep ==
    ASSUME NEW p \in FetchUpload
    PROVE  /\ Head(p) = "fetch" /\ Tail(p) \in UploadPlans
           /\ p \notin Dated => Tail(p) \notin Dated
<1>1. CASE p = <<"fetch", "write">>
  <2>1. Head(p) = "fetch" /\ Tail(p) = <<"write">>
    BY <1>1
  <2>2. QED
    BY <2>1 DEF UploadPlans, Dated
<1>2. CASE p = <<"fetch", "open", "write">>
  <2>1. Head(p) = "fetch" /\ Tail(p) = <<"open", "write">>
    BY <1>2
  <2>2. <<"open", "write">> \notin Dated
    BY DEF Dated
  <2>3. QED
    BY <2>1, <2>2 DEF UploadPlans
<1>3. CASE p = <<"fetch", "put", "mtime">>
  <2>1. Head(p) = "fetch" /\ Tail(p) = <<"put", "mtime">>
    BY <1>3
  <2>2. QED
    BY <1>3, <2>1 DEF UploadPlans, Dated
<1>4. QED
  BY <1>1, <1>2, <1>3 DEF FetchUpload

(* The two requests of a move or a deletion.                                *)
LEMMA FetchChangeStep ==
    ASSUME NEW p \in FetchChange
    PROVE  Head(p) = "fetch" /\ Tail(p) \in Simple
<1>1. CASE p = <<"fetch", "rename">>
  <2>1. Head(p) = "fetch" /\ Tail(p) = <<"rename">>
    BY <1>1
  <2>2. QED
    BY <2>1 DEF Simple
<1>2. CASE p = <<"fetch", "remove">>
  <2>1. Head(p) = "fetch" /\ Tail(p) = <<"remove">>
    BY <1>2
  <2>2. QED
    BY <2>1 DEF Simple
<1>3. QED
  BY <1>1, <1>2 DEF FetchChange

LEMMA SimpleStep ==
    ASSUME NEW p \in Simple
    PROVE  Head(p) \in {"rename", "remove"} /\ Len(Tail(p)) = 0
BY DEF Simple

(* And those of a case-only rename.                                         *)
LEMMA CaseOnlyStep ==
    ASSUME NEW p \in CaseOnlyPlans
    PROVE  /\ Head(p) \in {"tempFree", "targetFree", "aside", "home", "back",
                           "atOld", "atNew", "atTemp"}
           /\ Tail(p) \in CaseOnlyPlans \/ Len(Tail(p)) = 0
           /\ Len(p) > 1 => Tail(p) \in CaseOnlyPlans
<1>1. CASE p = <<"tempFree", "targetFree", "aside", "home">>
  <2>1. Head(p) = "tempFree" /\ Tail(p) = <<"targetFree", "aside", "home">>
    BY <1>1
  <2>2. QED
    BY <2>1 DEF CaseOnlyPlans
<1>2. CASE p = <<"targetFree", "aside", "home">>
  <2>1. Head(p) = "targetFree" /\ Tail(p) = <<"aside", "home">>
    BY <1>2
  <2>2. QED
    BY <2>1 DEF CaseOnlyPlans
<1>3. CASE p = <<"aside", "home">>
  <2>1. Head(p) = "aside" /\ Tail(p) = <<"home">>
    BY <1>3
  <2>2. QED
    BY <2>1 DEF CaseOnlyPlans
<1>4. CASE p = <<"home">> \/ p = <<"back">> \/ p = <<"atTemp">>
  <2>1. Head(p) \in {"home", "back", "atTemp"} /\ Len(p) = 1 /\ Len(Tail(p)) = 0
    BY <1>4
  <2>2. QED
    BY <2>1
<1>5. CASE p = <<"atOld", "atNew", "atTemp">>
  <2>1. Head(p) = "atOld" /\ Tail(p) = <<"atNew", "atTemp">>
    BY <1>5
  <2>2. QED
    BY <2>1 DEF CaseOnlyPlans
<1>6. CASE p = <<"atNew", "atTemp">>
  <2>1. Head(p) = "atNew" /\ Tail(p) = <<"atTemp">>
    BY <1>6
  <2>2. QED
    BY <2>1 DEF CaseOnlyPlans
<1>7. QED
  BY <1>1, <1>2, <1>3, <1>4, <1>5, <1>6 DEF CaseOnlyPlans

(* The plan is known in every branch by its first request.                  *)
LEMMA CaseOnlyIsDropbox ==
    ASSUME provider \in Provider, NEW c, c.op \in Structural \union {"create", "update"},
           Prepared(c.op, c.plan, c.want, c.seen), RenamingCase(c)
    PROVE  /\ c.op \in Structural /\ c.want \in {NoVersion, c.seen} /\ provider # "onedrive"
           /\ c.plan \in CaseOnlyPlans
BY UploadPlansStep, FetchUploadStep, FetchChangeStep, SimpleStep
   DEF Prepared, RenamingCase, Step, Structural

(* One call changes, to a careful one; c is the call as it was or with what *)
(* it has learned, and the rest is as for reads.                            *)
Changed(t) ==
    /\ provider' = provider
    /\ \A s \in Task : s # t => calls'[s] = calls[s]
    /\ Careful(calls'[t])

(* It ends.                                                                 *)
LEMMA FinishCareful ==
    ASSUME DOMAIN calls = Task, provider' = provider, NEW t \in Task, NEW c, NEW outcome,
           DOMAIN c = CallFields, c.op \in Structural \union {"read", "create", "update"},
           Finish(t, c, outcome)
    PROVE  Changed(t)
<1> DEFINE d == [c EXCEPT !.phase = "done", !.outcome = outcome, !.plan = <<>>]
<1>1. d.op = c.op /\ d.phase = "done"
  BY DEF CallFields
<1>2. calls' = [calls EXCEPT ![t] = d]
  BY DEF Finish
<1> HIDE DEF d
<1>3. QED
  BY <1>1, <1>2 DEF Changed, Careful, Active

(* It goes on with another plan.                                            *)
LEMMA GoOnCareful ==
    ASSUME DOMAIN calls = Task, provider' = provider, NEW t \in Task, NEW c, NEW plan,
           DOMAIN c = CallFields, c.op \in Structural \union {"create", "update"},
           Prepared(c.op, plan, c.want, c.seen), GoOn(t, c, plan)
    PROVE  Changed(t)
<1> DEFINE d == [c EXCEPT !.plan = plan, !.phase = "ready", !.resent = FALSE, !.waits = 0]
<1>1. d.op = c.op /\ d.plan = plan /\ d.want = c.want /\ d.seen = c.seen
  BY DEF CallFields
<1>2. calls' = [calls EXCEPT ![t] = d]
  BY DEF GoOn
<1> HIDE DEF d
<1>3. QED
  BY <1>1, <1>2 DEF Changed, Careful

(* It begins, again or for the first time.                                  *)
LEMMA FreshCareful ==
    ASSUME provider \in Provider, NEW c, NEW d, d = Fresh(c), DOMAIN c = CallFields,
           c.op \in Structural \union {"read", "create", "update"}
    PROVE  Careful(d)
<1>1. d.op = c.op /\ d.plan = Script(c.op, c.form)
  BY DEF CallFields, Fresh
<1>2. QED
  BY <1>1, ScriptPrepared DEF Careful

(* It is retried or ends with an error.                                     *)
LEMMA GiveUpCareful ==
    ASSUME DOMAIN calls = Task, provider \in Provider, provider' = provider, NEW t \in Task,
           NEW c, NEW kind, DOMAIN c = CallFields,
           c.op \in Structural \union {"read", "create", "update"}, GiveUp(t, c, kind)
    PROVE  Changed(t)
<1>1. CASE Finish(t, c, kind)
  BY <1>1, FinishCareful
<1>2. CASE calls' = [calls EXCEPT ![t] = Fresh([c EXCEPT !.attempt = @ + 1])]
  <2> DEFINE e == [c EXCEPT !.attempt = @ + 1]
  <2>1. DOMAIN e = CallFields /\ e.op = c.op
    BY DEF CallFields
  <2>2. calls' = [calls EXCEPT ![t] = Fresh(e)]
    BY <1>2
  <2> HIDE DEF e
  <2>3. PICK d : d = Fresh(e)
    OBVIOUS
  <2>4. Careful(d)
    BY <2>1, <2>3, FreshCareful
  <2>5. QED
    BY <2>2, <2>3, <2>4 DEF Changed
<1>3. QED
  BY <1>1, <1>2 DEF GiveUp

(* It looks where its object is.                                            *)
LEMMA LookAroundCareful ==
    ASSUME DOMAIN calls = Task, provider' = provider, NEW t \in Task, NEW c, NEW stage, NEW kind,
           DOMAIN c = CallFields, c.op \in Structural, c.want \in {NoVersion, c.seen},
           provider # "onedrive", LookAround(t, c, stage, kind)
    PROVE  Changed(t)
<1> DEFINE e == [c EXCEPT !.stage = stage, !.saved = kind]
<1>1. DOMAIN e = CallFields /\ e.op = c.op /\ e.want = c.want /\ e.seen = c.seen
  BY DEF CallFields
<1>2. GoOn(t, e, EndpointSteps)
  BY DEF LookAround
<1> HIDE DEF e
<1>3. Prepared(e.op, EndpointSteps, e.want, e.seen)
  BY <1>1 DEF Prepared, EndpointSteps, CaseOnlyPlans
<1>4. QED
  BY <1>1, <1>2, <1>3, GoOnCareful

(* A request of it fails.                                                   *)
LEMMA FailsCareful ==
    ASSUME DOMAIN calls = Task, provider \in Provider, provider' = provider, NEW t \in Task,
           NEW c, NEW kind, Good(c), Careful(c), c.phase \in Active, Fails(t, c, kind)
    PROVE  Changed(t)
<1>0. DOMAIN c = CallFields /\ c.op \in Structural \union {"read", "create", "update"}
  BY DEF Good, Careful
<1>1. CASE GiveUp(t, c, kind)
  BY <1>0, <1>1, GiveUpCareful
<1>2. CASE RenamingCase(c) /\ CaseRenameFails(t, c, kind)
  <2>1. c.op # "read"
    BY <1>2, StepOfRead DEF Good, Reading, Active, RenamingCase
  <2>2. /\ c.op \in Structural /\ c.want \in {NoVersion, c.seen} /\ provider # "onedrive"
    BY <1>0, <1>2, <2>1, CaseOnlyIsDropbox DEF Careful
  <2>3. CASE \E stage, k : LookAround(t, c, stage, k)
    BY <1>0, <2>2, <2>3, LookAroundCareful
  <2>4. CASE Finish(t, [c EXCEPT !.blind = TRUE], kind)
    <3> DEFINE e == [c EXCEPT !.blind = TRUE]
    <3>1. DOMAIN e = CallFields /\ e.op = c.op
      BY <1>0 DEF CallFields
    <3>2. Finish(t, e, kind)
      BY <2>4
    <3> HIDE DEF e
    <3>3. QED
      BY <1>0, <3>1, <3>2, FinishCareful
  <2>5. QED
    BY <1>2, <2>3, <2>4 DEF CaseRenameFails
<1>3. QED
  BY <1>1, <1>2 DEF Fails

(* What an endpoint lookup leads to.                                        *)
LEMMA ConcludeCareful ==
    ASSUME DOMAIN calls = Task, provider' = provider, NEW t \in Task, NEW c, NEW place,
           DOMAIN c = CallFields, c.op \in Structural, c.want \in {NoVersion, c.seen},
           provider # "onedrive", Conclude(t, c, place)
    PROVE  Changed(t)
<1>1. CASE GoOn(t, c, <<"home">>) \/ GoOn(t, c, <<"back">>)
  <2>1. /\ Prepared(c.op, <<"home">>, c.want, c.seen)
        /\ Prepared(c.op, <<"back">>, c.want, c.seen)
    BY DEF Prepared, CaseOnlyPlans
  <2>2. QED
    BY <1>1, <2>1, GoOnCareful
<1>2. CASE \E outcome : Finish(t, c, outcome)
  BY <1>2, FinishCareful
<1>3. QED
  BY <1>1, <1>2 DEF Conclude

(* What a fetch that goes on has found: the version admitted, or any where  *)
(* none was.                                                                *)
LEMMA FetchFound ==
    ASSUME provider \in Provider, NEW c, c.op \in Structural \union {"update"},
           FetchVerdict(c) = "next"
    PROVE  /\ c.op = "update" \/ provider = "onedrive" => c.want = objs[c.id].ver
           /\ c.want \in {NoVersion, objs[c.id].ver}
<1>1. Missing(c) # "next"
  BY DEF Missing, ReadFails
<1>2. /\ Compared(c) = "next"
      /\ provider = "onedrive" /\ c.op \in Structural => c.want # NoVersion
  BY <1>1
     DEF FetchVerdict, DropboxFetch, OneDriveFetch, DriveFetch, OneDriveGuard, Provider,
         Structural
<1>3. QED
  BY <1>2 DEF Compared, ReadFails, Structural

(* A request of a call that is no read succeeds.                            *)
LEMMA ProceedCareful ==
    ASSUME DOMAIN calls = Task, provider \in Provider, provider' = provider, NEW t \in Task,
           NEW c, DOMAIN c = CallFields, c.op \in Structural \union {"create", "update"},
           Prepared(c.op, c.plan, c.want, c.seen), Step(c) = "fetch" => FetchVerdict(c) = "next",
           Proceed(t, c)
    PROVE  Changed(t)
<1>0. DOMAIN Learn(c) = CallFields /\ Learn(c).op = c.op
  BY DEF Learn, CallFields
<1>f. ASSUME Finish(t, Learn(c), "ok") PROVE Changed(t)
  BY <1>0, <1>f, FinishCareful
<1>g. ASSUME GoOn(t, Learn(c), NextPlan(c)),
             Prepared(c.op, NextPlan(c), Learn(c).want, Learn(c).seen)
      PROVE  Changed(t)
  BY <1>0, <1>g, GoOnCareful
<1>1. CASE c.plan \in UploadPlans /\ c.op \in {"create", "update"}
  <2>1. Step(c) \in {"write", "open", "put", "mtime"} /\ NextPlan(c) = Tail(c.plan)
    BY <1>1, UploadPlansStep DEF Step, NextPlan
  <2>2. CASE Len(Tail(c.plan)) = 0
    BY <1>f, <2>1, <2>2 DEF Proceed
  <2>3. CASE Tail(c.plan) = <<"write">> /\ Step(c) = "open"
    <3>1. Learn(c) = c
      BY <2>3 DEF Learn
    <3>2. <<"write">> \in UploadPlans \ Dated
      BY DEF UploadPlans, Dated
    <3>3. c.op = "update" => c.seen = c.want
      <4>1. c.plan \notin FetchUpload /\ c.plan # <<"mtime">>
        BY <1>1, <2>3, FetchUploadStep DEF Step
      <4>2. QED
        BY <4>1 DEF Prepared, Structural
    <3>4. QED
      BY <1>1, <1>f, <1>g, <2>1, <2>3, <3>1, <3>2, <3>3 DEF Proceed, Prepared
  <2>4. CASE Tail(c.plan) = <<"mtime">> /\ Step(c) = "put"
    <3>1. <<"mtime">> \in UploadPlans
      BY DEF UploadPlans
    <3>2. c.op = "update" => provider # "googledrive"
      <4>1. c.plan \notin FetchUpload /\ c.plan \in Dated
        BY <1>1, <2>4, FetchUploadStep, UploadPlansStep DEF Step
      <4>2. QED
        BY <4>1 DEF Prepared, Structural
    <3>3. Prepared(c.op, <<"mtime">>, Learn(c).want, Learn(c).seen)
      BY <1>1, <3>1, <3>2 DEF Prepared
    <3>4. QED
      BY <1>f, <1>g, <2>1, <2>4, <3>3 DEF Proceed
  <2>5. QED
    BY <1>1, <2>2, <2>3, <2>4, UploadPlansStep DEF Step
<1>2. CASE c.op = "update" /\ c.plan \in FetchUpload
  <2>1. /\ Step(c) = "fetch" /\ Tail(c.plan) \in UploadPlans
        /\ c.plan \notin Dated => Tail(c.plan) \notin Dated
    BY <1>2, FetchUploadStep DEF Step
  <2>2. NextPlan(c) = Tail(c.plan)
    BY <1>2 DEF NextPlan, CaseOnly
  <2>3. provider = "googledrive" => Tail(c.plan) \notin Dated
    <3>1. c.plan \notin UploadPlans
      BY <2>1, UploadPlansStep DEF Step
    <3>2. QED
      BY <1>2, <2>1, <3>1 DEF Prepared, Structural
  <2>4. Learn(c).want = c.want /\ Learn(c).seen = c.want
    BY <1>2, <2>1, FetchFound DEF Learn, CallFields
  <2>5. Prepared(c.op, NextPlan(c), Learn(c).want, Learn(c).seen)
    BY <1>2, <2>1, <2>2, <2>3, <2>4 DEF Prepared
  <2>6. QED
    BY <1>f, <1>g, <2>1, <2>5 DEF Proceed
<1>3. CASE c.op \in Structural /\ c.plan \in FetchChange
  <2>1. Step(c) = "fetch" /\ Tail(c.plan) \in Simple
    BY <1>3, FetchChangeStep DEF Step
  <2>2. Learn(c).want = c.want /\ Learn(c).seen = objs[c.id].ver
    BY <2>1 DEF Learn, CallFields
  <2>3. /\ c.want \in {NoVersion, objs[c.id].ver}
        /\ provider = "onedrive" => c.want = objs[c.id].ver
    BY <1>3, <2>1, FetchFound
  <2>4. CASE CaseOnly(c)
    <3>1. NextPlan(c) \in CaseOnlyPlans /\ provider # "onedrive"
      BY <2>1, <2>4 DEF NextPlan, CaseOnly, CaseOnlySteps, CaseOnlyPlans
    <3>2. Prepared(c.op, NextPlan(c), Learn(c).want, Learn(c).seen)
      BY <1>3, <2>2, <2>3, <3>1 DEF Prepared
    <3>3. QED
      BY <1>f, <1>g, <2>1, <3>2 DEF Proceed
  <2>5. CASE ~CaseOnly(c)
    <3>1. NextPlan(c) \in Simple
      BY <2>1, <2>5 DEF NextPlan
    <3>2. Prepared(c.op, NextPlan(c), Learn(c).want, Learn(c).seen)
      BY <1>3, <2>2, <2>3, <3>1 DEF Prepared
    <3>3. QED
      BY <1>f, <1>g, <2>1, <3>2 DEF Proceed
  <2>6. QED
    BY <2>4, <2>5
<1>4. CASE c.op \in Structural /\ c.plan \in Simple
  <2>1. Step(c) \in {"rename", "remove"} /\ Len(NextPlan(c)) = 0
    BY <1>4, SimpleStep DEF Step, NextPlan
  <2>2. QED
    BY <1>f, <2>1 DEF Proceed
<1>5. CASE /\ c.op \in Structural /\ c.want \in {NoVersion, c.seen} /\ provider # "onedrive"
           /\ c.plan \in CaseOnlyPlans
  <2>1. /\ Step(c) \in {"tempFree", "targetFree", "aside", "home", "back",
                        "atOld", "atNew", "atTemp"}
        /\ NextPlan(c) = Tail(c.plan)
    BY <1>5, CaseOnlyStep DEF Step, NextPlan
  <2>2. CASE Step(c) = "back"
    BY <1>5, <2>2, LookAroundCareful DEF Proceed
  <2>3. CASE Step(c) # "back"
    <3>1. Learn(c) = c
      BY <2>1 DEF Learn
    <3>2. CASE Len(NextPlan(c)) = 0
      BY <1>f, <2>3, <3>2 DEF Proceed
    <3>3. CASE Len(NextPlan(c)) # 0
      <4>1. NextPlan(c) \in CaseOnlyPlans
        BY <1>5, <2>1, <3>3, CaseOnlyStep
      <4>2. Prepared(c.op, NextPlan(c), c.want, c.seen)
        BY <1>5, <4>1 DEF Prepared
      <4>3. QED
        BY <1>g, <2>3, <3>1, <3>3, <4>2 DEF Proceed
    <3>4. QED
      BY <3>2, <3>3
  <2>4. QED
    BY <2>2, <2>3
<1>6. QED
  BY <1>1, <1>2, <1>3, <1>4, <1>5 DEF Prepared

(* A request that is answered.                                              *)
LEMMA DeliverCareful ==
    ASSUME ReadInv, CarefulInv, NEW t \in Task, Deliver(t)
    PROVE  Changed(t)
<1> DEFINE c == calls[t]
<1>0. /\ DOMAIN calls = Task /\ DOMAIN c = CallFields /\ provider \in Provider
      /\ provider' = provider /\ Good(c) /\ Careful(c) /\ c.phase \in Active
      /\ c.op \in Structural \union {"read", "create", "update"}
  BY DEF ReadInv, ServiceInv, CallsInv, Good, CarefulInv, Careful, Deliver, CanSend, Active, Quiet
<1>1. ASSUME c.op = "read"
      PROVE Step(c) \in {"observe", "fetch", "url", "download", "refetch"}
  BY <1>0, <1>1, StepOfRead DEF Good, Reading, Active
<1>2. c.op # "read" => Prepared(c.op, c.plan, c.want, c.seen)
  BY <1>0 DEF Careful
<1>f. ASSUME NEW kind, Fails(t, c, kind) PROVE Changed(t)
  BY <1>0, <1>f, FailsCareful
<1>3. CASE LooksUp(t, c)
  <2>1. CASE Verdict(c) = "next" /\ Proceed(t, c)
    <3>1. Step(c) = "fetch" => FetchVerdict(c) = "next"
      BY <2>1 DEF Verdict
    <3>2. CASE c.op # "read"
      BY <1>0, <1>2, <2>1, <3>1, <3>2, ProceedCareful
    <3>3. CASE c.op = "read"
      <4>1. DOMAIN Learn(c) = CallFields /\ Learn(c).op = "read"
        BY <1>0, <3>3 DEF Learn, CallFields
      <4>2. CASE Finish(t, Learn(c), "ok")
        BY <1>0, <4>1, <4>2, FinishCareful
      <4>3. CASE GoOn(t, Learn(c), NextPlan(c))
        <5> DEFINE e == Learn(c)
                   d == [e EXCEPT !.plan = NextPlan(c), !.phase = "ready", !.resent = FALSE,
                                  !.waits = 0]
        <5>1. calls' = [calls EXCEPT ![t] = d]
          BY <4>3 DEF GoOn
        <5> HIDE DEF e
        <5>2. d.op = "read"
          BY <4>1 DEF CallFields, e
        <5> HIDE DEF d
        <5>3. QED
          BY <1>0, <5>1, <5>2 DEF Changed, Careful
      <4>4. Step(c) # "back"
        BY <1>1, <3>3
      <4>5. QED
        BY <2>1, <4>2, <4>3, <4>4 DEF Proceed
    <3>4. QED
      BY <3>2, <3>3
  <2>2. CASE Finish(t, c, "ok")
    BY <1>0, <2>2, FinishCareful
  <2>3. CASE Fails(t, c, Verdict(c))
    BY <1>f, <2>3
  <2>4. QED
    BY <1>3, <2>1, <2>2, <2>3 DEF LooksUp
<1>4. CASE LooksForEndpoint(t, c)
  <2>1. Step(c) \in {"atOld", "atNew", "atTemp"}
    BY <1>4 DEF LooksForEndpoint
  <2>2. /\ c.op \in Structural /\ c.want \in {NoVersion, c.seen} /\ provider # "onedrive"
        /\ c.plan \in CaseOnlyPlans
    <3>1. c.op # "read" /\ RenamingCase(c)
      BY <1>1, <2>1 DEF RenamingCase
    <3>2. QED
      BY <1>0, <1>2, <3>1, CaseOnlyIsDropbox
  <2>3. CASE \E place : Conclude(t, c, place)
    BY <1>0, <2>2, <2>3, ConcludeCareful
  <2>4. CASE Len(c.plan) > 1 /\ GoOn(t, c, Tail(c.plan))
    <3>1. Tail(c.plan) \in CaseOnlyPlans
      BY <2>2, <2>4, CaseOnlyStep
    <3>2. Prepared(c.op, Tail(c.plan), c.want, c.seen)
      BY <2>2, <3>1 DEF Prepared
    <3>3. QED
      BY <1>0, <2>2, <2>4, <3>2, GoOnCareful
  <2>5. QED
    BY <1>4, <2>3, <2>4 DEF LooksForEndpoint
<1>5. CASE Changes(t, c)
  <2>1. c.op # "read" /\ Step(c) # "fetch"
    BY <1>1, <1>5 DEF Changes, Mutations
  <2>2. CASE Proceed(t, c)
    BY <1>0, <1>2, <2>1, <2>2, ProceedCareful
  <2>3. CASE Fails(t, c, Answer(c))
    BY <1>f, <2>3
  <2>4. QED
    BY <1>5, <2>2, <2>3 DEF Changes
<1>6. QED
  BY <1>3, <1>4, <1>5 DEF Deliver

(* One call changes its phase and keeps what it is about.                   *)
LEMMA MovedCareful ==
    ASSUME ReadInv, CarefulInv, provider' = provider, NEW t \in Task, NEW phase, NEW resent,
           NEW waits, phase \in Active => calls[t].phase \in Active,
           calls' = [calls EXCEPT ![t] = Moved(calls[t], phase, resent, waits)]
    PROVE  Changed(t)
<1>1. PICK d : d = Moved(calls[t], phase, resent, waits)
  OBVIOUS
<1>2. DOMAIN calls[t] = CallFields /\ DOMAIN calls = Task
  BY DEF ReadInv, CallsInv, Good
<1>3. /\ d.op = calls[t].op /\ d.phase = phase /\ d.plan = calls[t].plan
      /\ d.want = calls[t].want /\ d.seen = calls[t].seen
  BY <1>1, <1>2 DEF CallFields, Moved
<1>4. Careful(d)
  BY <1>3 DEF CarefulInv, Careful
<1>5. QED
  BY <1>1, <1>2, <1>4 DEF Changed

(* What a step does to the calls: it changes one, or hands the outcome of a *)
(* refresh to all that wait for it, or none.                                *)
LEMMA CallsStep ==
    ASSUME ReadInv, CarefulInv, [Next]_vars
    PROVE  \/ \E t \in Task : /\ Deliver(t) \/ AnswerLost(t) \/ UNCHANGED objs
                              /\ Changed(t)
           \/ /\ provider' = provider /\ UNCHANGED objs
              /\ \E phase \in Active : \E kind : Hand(phase, kind)
           \/ provider' = provider /\ UNCHANGED calls
<1>0. /\ DOMAIN calls = Task /\ provider \in Provider
      /\ \A t \in Task : /\ Good(calls[t]) /\ Careful(calls[t]) /\ DOMAIN calls[t] = CallFields
                         /\ calls[t].op \in Structural \union {"read", "create", "update"}
  BY DEF ReadInv, ServiceInv, CallsInv, Good, CarefulInv, Careful
<1>f. ASSUME NEW t \in Task, NEW kind, provider' = provider, calls[t].phase \in Active,
             Fails(t, calls[t], kind)
      PROVE  Changed(t)
  BY <1>0, <1>f, FailsCareful
<1>1. ASSUME NEW t \in Task, Enter(t) PROVE Changed(t) /\ UNCHANGED objs
  <2>1. calls' = [calls EXCEPT ![t] =
                    Moved(calls[t], "waiting", calls[t].resent, calls[t].waits)]
    BY <1>0, <1>1 DEF Enter, CallFields, Moved
  <2>2. UNCHANGED service
    BY <1>1 DEF Enter
  <2>3. QED
    BY <2>1, <2>2, MovedCareful DEF service, Active
<1>2. ASSUME NEW t \in Task, Start(t) \/ StartStructural(t) PROVE Changed(t) /\ UNCHANGED objs
  <2>1. PICK d : d = Fresh(calls[t])
    OBVIOUS
  <2>2. calls' = [calls EXCEPT ![t] = d] /\ UNCHANGED service
    BY <1>2, <2>1 DEF Start, StartStructural
  <2>3. Careful(d)
    BY <1>0, <2>1, FreshCareful
  <2>4. QED
    BY <1>0, <2>2, <2>3 DEF Changed, service
<1>3. ASSUME NEW t \in Task, Deliver(t) PROVE Changed(t)
  BY <1>3, DeliverCareful
<1>4. ASSUME NEW t \in Task, Refused(t) PROVE Changed(t) /\ UNCHANGED objs
  <2>1. calls[t].phase \in Active /\ provider' = provider /\ UNCHANGED objs
    BY <1>4 DEF Refused, CanSend, Active, Quiet
  <2>2. CASE Fails(t, calls[t], "auth")
    BY <1>f, <2>1, <2>2
  <2>3. CASE calls' = [calls EXCEPT ![t].resent = TRUE, ![t].phase = "ready"]
    <3>1. calls' = [calls EXCEPT ![t] = Moved(calls[t], "ready", TRUE, calls[t].waits)]
      BY <1>0, <2>3 DEF CallFields, Moved
    <3>2. QED
      BY <2>1, <3>1, MovedCareful
  <2>4. QED
    BY <1>4, <2>1, <2>2, <2>3 DEF Refused
<1>5. ASSUME NEW t \in Task, Throttled(t) PROVE Changed(t) /\ UNCHANGED objs
  <2>1. calls[t].phase \in Active /\ provider' = provider /\ UNCHANGED objs
    BY <1>5 DEF Throttled, CanSend, Active, Quiet
  <2>2. CASE Fails(t, calls[t], "rate_limit")
    BY <1>f, <2>1, <2>2
  <2>3. CASE calls' = [calls EXCEPT ![t].waits = @ + 1, ![t].phase = "ready"]
    <3>1. calls' = [calls EXCEPT ![t] =
                      Moved(calls[t], "ready", calls[t].resent, calls[t].waits + 1)]
      BY <1>0, <2>3 DEF CallFields, Moved
    <3>2. QED
      BY <2>1, <3>1, MovedCareful
  <2>4. QED
    BY <1>5, <2>1, <2>2, <2>3 DEF Throttled
<1>6. ASSUME NEW t \in Task, Unreachable(t) \/ Forbidden(t) PROVE Changed(t) /\ UNCHANGED objs
  <2>1. calls[t].phase \in Active /\ provider' = provider /\ UNCHANGED objs
    BY <1>6 DEF Unreachable, Forbidden, CanSend, Active, Quiet
  <2>2. QED
    BY <1>f, <1>6, <2>1 DEF Unreachable, Forbidden
<1>7. ASSUME NEW t \in Task, AnswerLost(t) PROVE Changed(t)
  <2>1. calls[t].phase \in Active /\ provider' = provider
    BY <1>7 DEF AnswerLost, CanSend, Active, Quiet
  <2>2. QED
    BY <1>f, <1>7, <2>1 DEF AnswerLost
<1>8. ASSUME NEW t \in Task, TakeToken(t) PROVE Changed(t) /\ UNCHANGED objs
  <2>1. calls[t].phase \in Active /\ provider' = provider /\ UNCHANGED objs
    BY <1>8 DEF TakeToken, Active, service
  <2>2. CASE Fails(t, calls[t], "auth")
    BY <1>f, <2>1, <2>2
  <2>3. CASE calls' = [calls EXCEPT ![t].phase = "token"]
    <3>1. calls' = [calls EXCEPT ![t] =
                      Moved(calls[t], "token", calls[t].resent, calls[t].waits)]
      BY <1>0, <2>3 DEF CallFields, Moved
    <3>2. QED
      BY <2>1, <3>1, MovedCareful
  <2>4. QED
    BY <1>8, <2>1, <2>2, <2>3 DEF TakeToken
<1>9. ASSUME NEW t \in Task, Denied(t) PROVE Changed(t) /\ UNCHANGED objs
  <2>1. calls[t].phase \in Active /\ provider' = provider /\ UNCHANGED objs
    BY <1>9 DEF Denied, Active, service
  <2>2. QED
    BY <1>f, <1>9, <2>1 DEF Denied
<1>10. ASSUME NEW t \in Task, RefreshWorks(t) \/ RefreshFails(t)
       PROVE  /\ provider' = provider /\ UNCHANGED objs
              /\ \E phase \in Active : \E kind : Hand(phase, kind)
  BY <1>10 DEF RefreshWorks, RefreshFails, service, Active
<1>11. CASE \/ \E t \in Task : RefreshRotates(t)
            \/ TokenEnds \/ OthersAct \/ Done \/ UNCHANGED vars
  BY <1>11 DEF RefreshRotates, TokenEnds, OthersAct, OtherDevice, Done, vars, service
<1>12. QED
  BY <1>1, <1>2, <1>3, <1>4, <1>5, <1>6, <1>7, <1>8, <1>9, <1>10, <1>11 DEF Next

(* Every step keeps the calls careful.                                      *)
LEMMA CarefulStep ==
    ASSUME ReadInv, CarefulInv, [Next]_vars
    PROVE  CarefulInv'
<1>0. provider' = provider => \A t \in Task : Careful(calls[t]) => Careful(calls[t])'
                                \/ calls'[t] # calls[t]
  BY DEF Careful, Prepared
<1>1. ASSUME NEW t \in Task, Changed(t) PROVE CarefulInv'
  <2>1. Careful(calls'[t]) => Careful(calls[t])'
    BY <1>1 DEF Changed, Careful, Prepared
  <2>2. QED
    BY <1>0, <1>1, <2>1 DEF Changed, CarefulInv
<1>2. ASSUME provider' = provider, NEW phase \in Active, NEW kind, Hand(phase, kind)
      PROVE  CarefulInv'
  <2>1. SUFFICES ASSUME NEW t \in Task PROVE Careful(calls[t])'
    BY DEF CarefulInv
  <2>2. CASE t \notin Waiters
    <3>1. calls'[t] = calls[t]
      BY <1>2, <2>2 DEF Hand
    <3>2. QED
      BY <1>0, <1>2, <3>1 DEF CarefulInv
  <2>3. CASE t \in Waiters
    <3>1. PICK d : d = [calls[t] EXCEPT !.phase = phase, !.denial = kind]
      OBVIOUS
    <3>2. calls'[t] = d
      BY <1>2, <2>3, <3>1 DEF Hand
    <3>3. DOMAIN calls[t] = CallFields
      BY DEF ReadInv, CallsInv, Good
    <3>4. /\ d.op = calls[t].op /\ d.plan = calls[t].plan /\ d.want = calls[t].want
          /\ d.seen = calls[t].seen
      BY <3>1, <3>3 DEF CallFields
    <3>5. calls[t].phase \in Active
      BY <2>3 DEF Waiters, Active
    <3>6. QED
      BY <1>2, <3>2, <3>4, <3>5 DEF CarefulInv, Careful, Prepared
  <2>4. QED
    BY <2>2, <2>3
<1>3. ASSUME provider' = provider, UNCHANGED calls PROVE CarefulInv'
  BY <1>0, <1>3 DEF CarefulInv
<1>4. QED
  BY <1>1, <1>2, <1>3, CallsStep

(* What an accepted request changes that makes no new file is one of those  *)
(* it names.                                                                *)
LEMMA EffectTouches ==
    ASSUME Shaped, NEW c, Step(c) \in Mutations \union {"open"}, Effect(c), NEW o \in Touched,
           ~Creates(c)
    PROVE  o \in Subject(c) /\ Step(c) # "open"
<1>1. Step(c) # "open" /\ Subject(c) # {}
  BY DEF Effect, Touched
<1> DEFINE p == CHOOSE q \in Subject(c) : TRUE
<1>2. p \in Subject(c)
  BY <1>1
<1>3. \E n : Overwrite(p) \/ Relabel(p, n) \/ Discard(p)
  <2>1. CASE Step(c) \in {"write", "put"}
    BY <1>1, <2>1 DEF Effect, Moves
  <2>2. CASE Step(c) = "mtime"
    BY <1>1, <2>2 DEF Effect, Moves
  <2>3. CASE Moves(c)
    BY <1>1, <2>3 DEF Effect, Moves
  <2>4. CASE Step(c) = "remove"
    BY <1>1, <2>4 DEF Effect, Moves
  <2>5. QED
    BY <1>1, <2>1, <2>2, <2>3, <2>4 DEF Moves, Mutations
<1> HIDE DEF p
<1>4. QED
  BY <1>1, <1>2, <1>3 DEF Touched, Shaped, Overwrite, Relabel, Discard

(* And it is what the caller may change: the service checks what the        *)
(* adapter claims it does, and the rest was compared in the fetch.          *)
LEMMA EffectAllowed ==
    ASSUME ServiceInv, NEW c, c.op \in Structural \union {"create", "update"},
           Prepared(c.op, c.plan, c.want, c.seen), Step(c) \in Mutations \union {"open"},
           Answer(c) = "ok", Effect(c), NEW o \in Touched
    PROVE  MayChange(c, o)
<1>0. ~Refuses(c) /\ provider \in Provider
  BY DEF Answer, ServiceInv
<1>1. CASE c.op = "create"
  <2>1. c.plan \in UploadPlans
    BY <1>1 DEF Prepared, Structural
  <2>2. Step(c) \in {"write", "open", "put", "mtime"}
    BY <2>1, UploadPlansStep DEF Step
  <2>3. ASSUME Step(c) # "mtime", exclusiveCreate PROVE Called(c.dest) = {}
    <3>1. Creates(c) /\ To(c) = c.dest
      BY <1>1, <2>2, <2>3 DEF Creates, To
    <3>2. provider \in {"dropbox", "onedrive"}
      BY <1>0, <2>3 DEF exclusiveCreate, Provider
    <3>3. QED
      BY <1>0, <3>1, <3>2 DEF Refuses, DropboxRefuses, OneDriveUploadRefuses
  <2>4. QED
    BY <1>1, <2>3 DEF MayChange
<1>2. CASE c.op = "update"
  <2>1. /\ c.plan \in UploadPlans /\ (c.seen = c.want \/ c.plan = <<"mtime">>)
        /\ provider = "googledrive" => c.plan \notin Dated
    <3>1. c.plan \notin FetchUpload
      BY FetchUploadStep DEF Step, Mutations
    <3>2. QED
      BY <1>2, <3>1 DEF Prepared, Structural
  <2>2. ~Creates(c)
    BY <1>2 DEF Creates
  <2>3. o \in Subject(c) /\ Step(c) # "open"
    BY <2>2, EffectTouches DEF ServiceInv
  <2>4. provider = "dropbox" => objs[o].ver = c.seen
    BY <1>0, <1>2, <2>3 DEF Refuses, DropboxRefuses
  <2>5. CASE Step(c) = "mtime"
    <3>1. provider # "googledrive"
      BY <2>1, <2>5, UploadPlansStep DEF Step
    <3>2. provider = "onedrive" => objs[o].ver = c.seen
      BY <1>0, <2>2, <2>3, <2>5 DEF Refuses, OneDriveUploadRefuses
    <3>3. QED
      BY <1>0, <1>2, <2>4, <2>5, <3>1, <3>2 DEF MayChange, Provider
  <2>6. CASE Step(c) # "mtime"
    <3>1. c.seen = c.want
      BY <2>1, <2>6 DEF Step
    <3>2. conditionalContentUpdate = "all" => provider = "dropbox"
      BY DEF conditionalContentUpdate
    <3>3. QED
      BY <1>2, <2>4, <3>1, <3>2 DEF MayChange
  <2>7. QED
    BY <2>5, <2>6
<1>3. CASE c.op \in Structural
  <2>1. /\ c.want \in {NoVersion, c.seen}
        /\ provider = "onedrive" => c.want = c.seen /\ c.plan \in Simple
    <3>1. c.plan \notin FetchChange
      BY FetchChangeStep DEF Step, Mutations
    <3>2. QED
      BY <1>3, <3>1 DEF Prepared, Structural
  <2>2. ASSUME conditionalMetadataMutation PROVE o = c.id /\ objs[o].ver = c.want
    <3>1. provider = "onedrive" /\ Step(c) \in {"rename", "remove"}
      BY <2>1, <2>2, SimpleStep DEF conditionalMetadataMutation, Step
    <3>2. o \in Subject(c)
      BY <1>3, EffectTouches DEF ServiceInv, Creates, Structural
    <3>3. o = c.id
      BY <3>1, <3>2 DEF Subject
    <3>4. objs[o].ver = c.seen
      BY <1>0, <3>1, <3>2 DEF Refuses, OneDriveChangeRefuses
    <3>5. QED
      BY <2>1, <3>1, <3>3, <3>4
  <2>3. QED
    BY <1>3, <2>1, <2>2 DEF MayChange, Structural
<1>4. QED
  BY <1>1, <1>2, <1>3

(* Whatever other calls, other devices, retries and lost answers come       *)
(* between the requests of a call, a request that changes a file changes    *)
(* what its caller may: a new file takes a free place where the provider    *)
(* claims so, content and metadata are replaced only after the adapter saw  *)
(* the admitted version, and where the provider claims it only if the file  *)
(* still has it (adapter.ts of each backend, RemoteBackendCapabilities).    *)
THEOREM BatchMutatesOnlyWhatItMay == Spec => MutatesOnlyWhatItMayClaim
<1>1. Init => ReadInv /\ CarefulInv
  <2>1. Init => ReadInv
    BY BatchStarts
  <2>2. Init => CarefulInv
    BY BatchesAssumption DEF Init, CarefulInv, Careful, Unmade, Active
  <2>3. QED
    BY <2>1, <2>2
<1>2. ReadInv /\ CarefulInv /\ [Next]_vars => ReadInv' /\ CarefulInv'
  BY ReadInvStep, CarefulStep
<1>3. ReadInv /\ CarefulInv /\ [Next]_vars =>
        [\A t \in Task : Acted(t) => \A o \in Touched : MayChange(calls[t], o)]_vars
  <2>1. SUFFICES ASSUME ReadInv, CarefulInv, [Next]_vars, NEW t \in Task, Acted(t),
                        NEW o \in Touched
                 PROVE  MayChange(calls[t], o)
    OBVIOUS
  <2> DEFINE c == calls[t]
  <2>2. objs' # objs /\ calls'[t] # calls[t]
    BY <2>1 DEF Touched, Acted
  <2>3. Deliver(t) \/ AnswerLost(t)
    <3>1. PICK s \in Task : (Deliver(s) \/ AnswerLost(s)) /\ Changed(s)
      BY <2>1, <2>2, CallsStep
    <3>2. s = t
      BY <2>2, <3>1 DEF Changed
    <3>3. QED
      BY <3>1, <3>2
  <2>4. /\ Step(c) \in Mutations \union {"open"} /\ Answer(c) = "ok" /\ Effect(c)
        /\ c.phase \in Active
    BY <2>2, <2>3
       DEF Deliver, LooksUp, LooksForEndpoint, Changes, AnswerLost, CanSend, Active
  <2>5. c.op # "read"
    BY <2>1, <2>4, StepOfRead DEF ReadInv, CallsInv, Good, Reading, Active, Mutations
  <2>6. /\ c.op \in Structural \union {"create", "update"}
        /\ Prepared(c.op, c.plan, c.want, c.seen)
    BY <2>1, <2>4, <2>5 DEF CarefulInv, Careful
  <2>7. QED
    BY <2>1, <2>4, <2>6, EffectAllowed DEF ReadInv
<1>4. QED
  BY <1>1, <1>2, <1>3, PTL DEF Spec, MutatesOnlyWhatItMayClaim


(* Case-only renames.  Where a file may be while nobody but this device     *)
(* has acted on it.                                                         *)
Within(c, places) == Live(c.id) /\ others = 0 => objs[c.id].at \in places

(* What a case-only rename that is under way rests on, by the requests      *)
(* still ahead of it.                                                       *)
Between(c) ==
    /\ c.plan \in {<<"tempFree", "targetFree", "aside", "home">>,
                   <<"targetFree", "aside", "home">>, <<"aside", "home">>}
         => Within(c, {c.seenAt}) /\ (Live(c.id) => objs[c.id].at # Temp)
    /\ c.plan \in {<<"home">>, <<"back">>} => Within(c, {Temp})
    /\ c.plan = <<"back">> => c.saved # "ok"
    /\ c.plan \in {<<"atOld", "atNew", "atTemp">>, <<"atNew", "atTemp">>, <<"atTemp">>} =>
         /\ c.saved # "ok" /\ c.stage \in {"aside", "home", "back", "verify"}
         /\ c.stage = "aside" =>
              Within(c, IF c.plan = <<"atOld", "atNew", "atTemp">>
                          THEN {c.seenAt, Temp} ELSE {Temp})
         /\ c.stage = "home" => Within(c, {Temp, c.dest})

(* How it ends: CaseRenameSettles for one call.                             *)
Ends(c, outcome) ==
    ~c.blind /\ Live(c.id) /\ outcome \notin Inconclusive =>
        /\ objs[c.id].at # Temp
        /\ others = 0 => objs[c.id].at = IF outcome = "ok" THEN c.dest ELSE c.seenAt

(* What it is about: a file of Dropbox that was found under another         *)
(* spelling of the name it is to have.                                      *)
About(c) ==
    /\ c.op = "move" /\ provider = "dropbox"
    /\ objs[c.id].ver # 0
    /\ c.seenAt \in Name /\ SameUpToCase(c.seenAt, c.dest)

(* The plans of moves and deletions.                                        *)
StructuralPlan(c) ==
    IF c.caseOnly THEN c.plan \in CaseOnlyPlans
    ELSE IF c.op = "move" THEN c.plan \in {<<"fetch", "rename">>, <<"rename">>}
    ELSE c.plan \in {<<"fetch", "remove">>, <<"remove">>}

Renaming(c) ==
    /\ c.id \in Id /\ c.dest \in Name /\ (c.op = "move" => c.dest # Temp)
    /\ c.denial # "ok"
    /\ c.phase \in Active /\ c.op \in Structural => StructuralPlan(c)
    /\ c.caseOnly =>
         /\ About(c) /\ c.phase \in Active \union {"done"}
         /\ c.phase \in Active => Between(c)
         /\ c.phase = "done" => Ends(c, c.outcome)

(* Every file is somewhere, and on Dropbox no two under one name.           *)
Places ==
    /\ \A o \in Id : objs[o].at \in Name \union {Outside}
    /\ provider = "dropbox" => TellsApart(objs)
    /\ others \in Nat

(* A file is left alone, or moved by another device.                        *)
Stays(o) ==
    /\ objs[o].ver # 0 => objs'[o].ver # 0
    /\ objs[o].ver # 0 /\ objs'[o].live =>
         /\ objs[o].live
         /\ objs'[o].at = objs[o].at \/ (others' # 0 /\ objs'[o].at # Temp)

(* Other devices take nothing away from what a rename rests on.             *)
LEMMA RenamingKept ==
    ASSUME provider' = provider, others' = 0 => others = 0, NEW c, Renaming(c),
           c.caseOnly => Stays(c.id)
    PROVE  Renaming(c)'
<1>1. CASE ~c.caseOnly
  BY <1>1 DEF Renaming, StructuralPlan
<1>2. CASE c.caseOnly
  <2>1. About(c)'
    BY <1>2 DEF Renaming, About, Stays
  <2>2. objs[c.id].ver # 0
    BY <1>2 DEF Renaming, About
  <2>3. ASSUME NEW places, Within(c, places) PROVE Within(c, places)'
    BY <1>2, <2>2, <2>3 DEF Within, Stays, Live
  <2>4. (Live(c.id) => objs[c.id].at # Temp) => (Live(c.id) => objs[c.id].at # Temp)'
    BY <1>2, <2>2 DEF Stays, Live
  <2>5. Between(c) => Between(c)'
    BY <2>3, <2>4 DEF Between
  <2>6. Ends(c, c.outcome) => Ends(c, c.outcome)'
    BY <1>2, <2>2 DEF Ends, Stays, Live
  <2>7. QED
    BY <1>2, <2>1, <2>5, <2>6 DEF Renaming, StructuralPlan
<1>3. QED
  BY <1>1, <1>2

(* Identities are numbers: a set of them has a smallest one.                *)
LEMMA SmallestId ==
    ASSUME NEW S \in SUBSET Id, S # {}
    PROVE  \E o \in S : \A p \in S : o <= p
<1> DEFINE Less == OpToRel(<, Nat)
<1>1. IsWellFoundedOn(Less, Nat)
  BY NatLessThanWellFounded
<1>2. S \in SUBSET Nat
  BY FoldAssumption
<1> HIDE DEF Less
<1>3. PICK o \in S : \A p \in S : ~ (<<p, o>> \in Less)
  BY <1>1, <1>2, WFMin
<1>4. \A p \in S : ~ (p < o)
  BY <1>2, <1>3 DEF Less, OpToRel
<1>5. QED
  BY <1>2, <1>4

(* The next identity is one no file has had.                                *)
LEMMA NextIdUnborn ==
    ASSUME Unborn # {}
    PROVE  NextId \in Id /\ objs[NextId].ver = 0
<1>1. Unborn \in SUBSET Id
  BY DEF Unborn
<1>2. \E o \in Unborn : \A p \in Unborn : o <= p
  BY <1>1, SmallestId
<1>3. NextId \in Unborn
  BY <1>2 DEF NextId
<1>4. QED
  BY <1>3 DEF Unborn

(* A new file takes a name nobody has, and moves no other file.             *)
LEMMA CreatePlaces ==
    ASSUME ServiceInv, Places, provider' = provider, others' \in Nat,
           NEW n \in Name, CreateAt(n),
           provider = "dropbox" => Called(n) = {}
    PROVE  Places' /\ (others' = others => \A o \in Id : Stays(o))
<1>0. Len(content) \in Nat
  BY NumberedLen DEF ServiceInv
<1> DEFINE new == NextId
<1>1. new \in Id /\ objs[new].ver = 0
  BY NextIdUnborn DEF CreateAt
<1>2. objs' = [objs EXCEPT ![new] = [live |-> TRUE, at |-> n, ver |-> Newest]]
  BY DEF CreateAt
<1> HIDE DEF new
<1>3. /\ objs'[new].live /\ objs'[new].at = n /\ objs'[new].ver # 0
      /\ \A o \in Id : o # new => objs'[o] = objs[o]
  BY <1>0, <1>1, <1>2 DEF ServiceInv, Shaped, Newest
<1>4. \A o \in Id : Stays(o)
  BY <1>1, <1>3 DEF Stays
<1>5. \A o \in Id : objs'[o].at \in Name \union {Outside}
  BY <1>3 DEF Places
<1>6. ASSUME provider = "dropbox" PROVE TellsApart(objs')
  <2>1. \A o \in Id : Live(o) /\ objs[o].at # Outside => Fold[objs[o].at] # Fold[n]
    BY <1>6 DEF Called
  <2>2. TellsApart(objs)
    BY <1>6 DEF Places
  <2>3. QED
    BY <1>3, <2>1, <2>2 DEF TellsApart, Live
<1>7. QED
  BY <1>4, <1>5, <1>6 DEF Places

(* A rename moves one file, to where no other file is called so.            *)
LEMMA RelabelPlaces ==
    ASSUME ServiceInv, Places, provider' = provider, others' \in Nat, NEW o \in Id,
           NEW n \in Name \union {Outside}, Relabel(o, n),
           provider = "dropbox" => n = Outside \/ n = objs[o].at \/ Called(n) \subseteq {o}
    PROVE  /\ Places'
           /\ objs'[o].at = n /\ objs'[o].live = objs[o].live
           /\ objs[o].ver # 0 => objs'[o].ver # 0
           /\ \A p \in Id : p # o => objs'[p] = objs[p]
<1>0. Len(content) \in Nat
  BY NumberedLen DEF ServiceInv
<1>1. /\ objs'[o].at = n /\ objs'[o].live = objs[o].live
      /\ objs'[o].ver = objs[o].ver \/ objs'[o].ver = Newest
      /\ \A p \in Id : p # o => objs'[p] = objs[p]
  <2>1. CASE objs' = [objs EXCEPT ![o].at = n]
    BY <2>1 DEF ServiceInv, Shaped
  <2>2. CASE objs' = [objs EXCEPT ![o].at = n, ![o].ver = Newest]
    BY <2>2 DEF ServiceInv, Shaped
  <2>3. QED
    BY <2>1, <2>2 DEF Relabel
<1>2. \A p \in Id : objs'[p].at \in Name \union {Outside}
  BY <1>1 DEF Places
<1>3. ASSUME provider = "dropbox" PROVE TellsApart(objs')
  <2>1. TellsApart(objs)
    BY <1>3 DEF Places
  <2>2. CASE n = Outside \/ n = objs[o].at
    BY <1>1, <2>1, <2>2 DEF TellsApart
  <2>3. CASE Called(n) \subseteq {o}
    <3>1. \A p \in Id : p # o /\ Live(p) /\ objs[p].at # Outside => Fold[objs[p].at] # Fold[n]
      BY <1>3, <2>3 DEF Called
    <3>2. QED
      BY <1>1, <2>1, <3>1 DEF TellsApart, Live
  <2>4. QED
    BY <1>3, <2>2, <2>3
<1>4. QED
  BY <1>0, <1>1, <1>2, <1>3 DEF Places, Newest

(* New bytes and a removal leave every file where it was.                   *)
LEMMA OtherPlaces ==
    ASSUME ServiceInv, Places, provider' = provider, others' \in Nat, NEW o \in Id,
           Overwrite(o) \/ Discard(o)
    PROVE  Places' /\ \A p \in Id : Stays(p)
<1>0. Len(content) \in Nat
  BY NumberedLen DEF ServiceInv
<1>1. \A p \in Id : /\ objs'[p].at = objs[p].at /\ (objs'[p].live => objs[p].live)
                    /\ objs'[p].ver = objs[p].ver \/ objs'[p].ver = Newest
  <2>1. CASE Overwrite(o)
    BY <2>1 DEF Overwrite, ServiceInv, Shaped
  <2>2. CASE Discard(o)
    BY <2>2 DEF Discard, ServiceInv, Shaped
  <2>3. QED
    BY <2>1, <2>2
<1>2. \A p \in Id : Stays(p)
  BY <1>0, <1>1 DEF Stays, Newest
<1>3. QED
  BY <1>1, <1>2 DEF Places, TellsApart

(* Other devices put no file where only this device puts one.               *)
LEMMA OthersPlaces ==
    ASSUME ServiceInv, Places, OtherDevice
    PROVE  Places' /\ others' # 0 /\ \A o \in Id : Stays(o)
<1>1. others' \in Nat \ {0} /\ provider' = provider
  BY DEF OtherDevice, Places
<1>2. Temp \notin Shared /\ Temp # Outside /\ Shared \subseteq Name
  BY TempAssumption, FoldAssumption
<1>3. ASSUME NEW o \in Id, Overwrite(o) \/ Discard(o) PROVE Places' /\ \A p \in Id : Stays(p)
  BY <1>1, <1>3, OtherPlaces
<1>4. ASSUME NEW o \in Id, NEW n \in Shared \union {Outside}, Live(o), Relabel(o, n),
             n = Outside \/ Called(n) \subseteq {o}
      PROVE  Places' /\ \A p \in Id : Stays(p)
  <2>1. /\ Places' /\ objs'[o].at = n /\ objs'[o].live = objs[o].live
        /\ objs[o].ver # 0 => objs'[o].ver # 0
        /\ \A p \in Id : p # o => objs'[p] = objs[p]
    BY <1>1, <1>2, <1>4, RelabelPlaces
  <2>2. n # Temp
    BY <1>2
  <2>3. QED
    BY <1>1, <2>1, <2>2 DEF Stays
<1>5. ASSUME NEW n \in Shared, Free(n), CreateAt(n) PROVE Places' /\ \A p \in Id : Stays(p)
  <2>0. Len(content) \in Nat
    BY NumberedLen DEF ServiceInv
  <2>1. Places'
    BY <1>1, <1>2, <1>5, CreatePlaces DEF Free
  <2>2. NextId \in Id /\ objs[NextId].ver = 0
    BY <1>5, NextIdUnborn DEF CreateAt
  <2>3. \A p \in Id : objs[p].ver # 0 => objs'[p] = objs[p]
    BY <1>5, <2>2 DEF CreateAt, ServiceInv, Shaped
  <2>4. QED
    BY <2>1, <2>3 DEF Stays
<1>6. QED
  BY <1>1, <1>3, <1>4, <1>5 DEF OtherDevice

(* What a request does to the places.  Moves on Dropbox take a free name.   *)
LEMMA EffectPlaces ==
    ASSUME ServiceInv, Places, provider' = provider, others' = others, NEW c,
           Step(c) \in Mutations \union {"open"}, Answer(c) = "ok", Effect(c),
           c.id \in Id, c.dest \in Name, Step(c) = "back" => c.seenAt \in Name
    PROVE  /\ Places'
           /\ ~Moves(c) => \A o \in Id : Stays(o)
           /\ Moves(c) /\ provider = "dropbox" =>
                \E o \in Called(From(c)) :
                  /\ objs'[o].at = To(c) /\ objs'[o].live = objs[o].live
                  /\ objs[o].ver # 0 => objs'[o].ver # 0
                  /\ \A p \in Id : p # o => objs'[p] = objs[p]
<1>0. others' \in Nat /\ provider \in Provider
  BY DEF Places, ServiceInv
<1>u. ASSUME UNCHANGED <<objs, content>> PROVE Places' /\ \A o \in Id : Stays(o)
  BY <1>u DEF Places, Stays, TellsApart
<1>1. CASE Step(c) = "open"
  BY <1>u, <1>1 DEF Effect, Moves
<1>2. CASE Step(c) # "open" /\ Creates(c)
  <2>1. CreateAt(c.dest) /\ To(c) = c.dest /\ ~Moves(c)
    BY <1>2 DEF Effect, Creates, To, Moves
  <2>2. provider = "dropbox" => Called(c.dest) = {}
    BY <1>2, <2>1 DEF Answer, Refuses, DropboxRefuses
  <2>3. QED
    BY <1>0, <2>1, <2>2, CreatePlaces
<1>3. CASE Step(c) # "open" /\ ~Creates(c) /\ Subject(c) = {}
  <2>1. UNCHANGED <<objs, content>>
    BY <1>3 DEF Effect
  <2>2. ~Moves(c)
    BY <1>3 DEF Answer, Moves
  <2>3. QED
    BY <1>u, <2>1, <2>2
<1>4. CASE Step(c) # "open" /\ ~Creates(c) /\ Subject(c) # {}
  <2> DEFINE o == CHOOSE o \in Subject(c) : TRUE
  <2>1. o \in Subject(c)
    BY <1>4
  <2>2. o \in Id
    BY <1>0, <1>4, <2>1 DEF Subject, Called, Provider
  <2>3. CASE Step(c) \in {"write", "put", "remove"}
    <3>1. Overwrite(o) \/ Discard(o)
      BY <1>4, <2>3 DEF Effect, Moves
    <3>2. QED
      BY <1>0, <2>2, <2>3, <3>1, OtherPlaces DEF Moves
  <2>4. CASE Step(c) = "mtime"
    <3>1. Relabel(o, objs[o].at)
      BY <1>4, <2>4 DEF Effect, Moves
    <3> HIDE DEF o
    <3>2. objs[o].at \in Name \union {Outside}
      BY <2>2 DEF Places
    <3>3. Places' /\ \A p \in Id : Stays(p)
      BY <1>0, <2>2, <3>1, <3>2, RelabelPlaces DEF Stays
    <3>4. QED
      BY <2>4, <3>3 DEF Moves
  <2>5. CASE Moves(c)
    <3>1. Relabel(o, To(c))
      BY <1>4, <2>5 DEF Effect, Moves
    <3> HIDE DEF o
    <3>2. To(c) \in Name
      BY TempAssumption DEF To
    <3>3. provider = "dropbox" => Called(To(c)) = {} /\ o \in Called(From(c))
      BY <2>1, <2>5 DEF Answer, Refuses, DropboxRefuses, Subject
    <3>4. /\ Places' /\ objs'[o].at = To(c) /\ objs'[o].live = objs[o].live
          /\ objs[o].ver # 0 => objs'[o].ver # 0
          /\ \A p \in Id : p # o => objs'[p] = objs[p]
      BY <1>0, <2>2, <3>1, <3>2, <3>3, RelabelPlaces
    <3>5. QED
      BY <2>5, <3>3, <3>4
  <2>6. QED
    BY <1>4, <2>3, <2>4, <2>5 DEF Mutations, Moves
<1>5. QED
  BY <1>1, <1>2, <1>3, <1>4

(* One call changes, to one in order.                                       *)
Renames(t, op) ==
    /\ \A s \in Task : s # t => calls'[s] = calls[s]
    /\ Renaming(calls[t])' /\ calls'[t].op = op

(* Where a call is about, and what never changes of it.                     *)
Placed(c) ==
    /\ c.id \in Id /\ c.dest \in Name /\ (c.op = "move" => c.dest # Temp) /\ c.denial # "ok"
    /\ DOMAIN c = CallFields

(* A call that ends has ended as CaseRenameSettles says.                    *)
LEMMA FinishRenames ==
    ASSUME DOMAIN calls = Task, NEW t \in Task, NEW c, NEW outcome, Placed(c),
           c.caseOnly => About(c)' /\ Ends(c, outcome)',
           Finish(t, c, outcome)
    PROVE  Renames(t, c.op)
<1>1. PICK d : d = [c EXCEPT !.phase = "done", !.outcome = outcome, !.plan = <<>>]
  OBVIOUS
<1>2. calls' = [calls EXCEPT ![t] = d]
  BY <1>1 DEF Finish
<1>3. /\ d.id = c.id /\ d.op = c.op /\ d.dest = c.dest
      /\ d.denial = c.denial /\ d.caseOnly = c.caseOnly
      /\ d.phase = "done" /\ d.outcome = outcome /\ d.id = c.id /\ d.seenAt = c.seenAt
      /\ d.blind = c.blind
  BY <1>1 DEF CallFields, Placed
<1>4. Renaming(d)'
  BY <1>3 DEF Renaming, About, Ends, Placed, Active
<1>5. QED
  BY <1>2, <1>3, <1>4 DEF Renames

(* A call that goes on rests on what its next request needs.                *)
LEMMA GoOnRenames ==
    ASSUME DOMAIN calls = Task, NEW t \in Task, NEW c, NEW plan, NEW d, Placed(c),
           d = [c EXCEPT !.plan = plan, !.phase = "ready", !.resent = FALSE, !.waits = 0],
           c.op \in Structural => StructuralPlan(d), c.caseOnly => About(c)' /\ Between(d)',
           GoOn(t, c, plan)
    PROVE  Renames(t, c.op)
<1>2. calls' = [calls EXCEPT ![t] = d]
  BY DEF GoOn
<1>3. /\ d.id = c.id /\ d.op = c.op /\ d.dest = c.dest
      /\ d.denial = c.denial /\ d.caseOnly = c.caseOnly
      /\ d.phase = "ready" /\ d.id = c.id /\ d.seenAt = c.seenAt
  BY DEF CallFields, Placed
<1>4. Renaming(d)'
  BY <1>3 DEF Renaming, About, Placed, Active, StructuralPlan
<1>5. QED
  BY <1>2, <1>3, <1>4 DEF Renames

(* A call that starts again has renamed nothing.                            *)
LEMMA FreshRenames ==
    ASSUME NEW c, NEW d, d = Fresh(c), Placed(c), ~c.caseOnly
    PROVE  Renaming(d)'
<1>1. /\ d.id = c.id /\ d.op = c.op /\ d.dest = c.dest
      /\ d.denial = c.denial /\ d.caseOnly = c.caseOnly
      /\ d.plan = Script(c.op, c.form)
  BY DEF CallFields, Placed, Fresh
<1>2. c.op \in Structural => StructuralPlan(d)
  BY <1>1 DEF StructuralPlan, Script, Structural
<1>3. QED
  BY <1>1, <1>2 DEF Renaming, Placed, StructuralPlan

(* A call that fails ends, or starts again before it renamed anything.      *)
LEMMA GiveUpRenames ==
    ASSUME DOMAIN calls = Task, NEW t \in Task, NEW c, NEW kind, Placed(c),
           c.caseOnly => c.op = "move" /\ About(c)' /\ Ends(c, kind)',
           GiveUp(t, c, kind)
    PROVE  Renames(t, c.op)
<1>1. CASE Finish(t, c, kind)
  BY <1>1, FinishRenames
<1>2. CASE ~c.caseOnly /\ calls' = [calls EXCEPT ![t] = Fresh([c EXCEPT !.attempt = @ + 1])]
  <2>1. PICK e : e = [c EXCEPT !.attempt = @ + 1]
    OBVIOUS
  <2>2. PICK d : d = Fresh(e)
    OBVIOUS
  <2>3. Placed(e) /\ ~e.caseOnly
    BY <1>2, <2>1 DEF Placed, CallFields
  <2>4. Renaming(d)'
    BY <2>2, <2>3, FreshRenames
  <2>5. calls' = [calls EXCEPT ![t] = d]
    BY <1>2, <2>1, <2>2
  <2>6. d.op = c.op
    BY <2>1, <2>2 DEF Placed, CallFields, Fresh
  <2>7. QED
    BY <2>4, <2>5, <2>6 DEF Renames
<1>3. QED
  BY <1>1, <1>2 DEF GiveUp, RetryAgain

(* A rename whose request failed looks for the file where it may be.        *)
LEMMA LookAroundRenames ==
    ASSUME DOMAIN calls = Task, NEW t \in Task, NEW c, NEW stage, NEW kind,
           Placed(c), kind # "ok",
           c.caseOnly, About(c)', stage \in {"aside", "home", "back", "verify"},
           stage = "aside" => Within(c, {c.seenAt, Temp})',
           stage = "home" => Within(c, {Temp, c.dest})',
           LookAround(t, c, stage, kind)
    PROVE  Renames(t, c.op)
<1>1. PICK e : e = [c EXCEPT !.stage = stage, !.saved = kind]
  OBVIOUS
<1>2. /\ Placed(e) /\ e.caseOnly /\ e.op = c.op /\ e.dest = c.dest /\ e.seenAt = c.seenAt
      /\ e.stage = stage /\ e.saved = kind /\ e.id = c.id
  BY <1>1 DEF Placed, CallFields
<1>3. About(e)'
  BY <1>2 DEF About
<1>4. PICK d : d = [e EXCEPT !.plan = EndpointSteps, !.phase = "ready",
                             !.resent = FALSE, !.waits = 0]
  OBVIOUS
<1>5. /\ d.plan = EndpointSteps /\ d.caseOnly /\ d.id = c.id /\ d.dest = c.dest
      /\ d.seenAt = c.seenAt /\ d.stage = stage /\ d.saved = kind
  BY <1>2, <1>4 DEF Placed, CallFields
<1>6. StructuralPlan(d)
  BY <1>5 DEF StructuralPlan, EndpointSteps, CaseOnlyPlans
<1>7. Between(d)'
  BY <1>5 DEF Between, Within, EndpointSteps
<1>8. GoOn(t, e, EndpointSteps)
  BY <1>1 DEF LookAround
<1>9. QED
  BY <1>2, <1>3, <1>4, <1>6, <1>7, <1>8, GoOnRenames

(* What a call can be doing that renames nothing in case.                   *)
LEMMA PlainStep ==
    ASSUME provider \in Provider, NEW c, Good(c), Careful(c), Renaming(c), c.phase \in Active,
           ~c.caseOnly
    PROVE  /\ Step(c) \notin {"tempFree", "targetFree", "aside", "home", "back",
                              "atOld", "atNew", "atTemp"}
           /\ Step(c) = "rename" => c.op = "move"
<1>1. CASE c.op = "read"
  BY <1>1, StepOfRead DEF Good, Reading, Active
<1>2. CASE c.op \in Structural
  <2>1. StructuralPlan(c)
    BY <1>2 DEF Renaming
  <2>2. QED
    BY <1>2, <2>1 DEF StructuralPlan, Step, Structural
<1>3. CASE c.op \in {"create", "update"}
  <2>1. c.plan \in UploadPlans \union FetchUpload
    BY <1>3 DEF Careful, Prepared, Structural
  <2>2. QED
    BY <2>1, UploadPlansStep, FetchUploadStep DEF Step
<1>4. QED
  BY <1>1, <1>2, <1>3 DEF Careful

(* And one that does.                                                       *)
LEMMA CaseStep ==
    ASSUME NEW c, Renaming(c), c.phase \in Active, c.caseOnly
    PROVE  /\ About(c) /\ Between(c) /\ c.plan \in CaseOnlyPlans /\ c.seenAt # Temp
           /\ c.dest # Temp /\ c.dest # c.seenAt
           /\ Step(c) = "tempFree" <=> c.plan = <<"tempFree", "targetFree", "aside", "home">>
           /\ Step(c) = "targetFree" <=> c.plan = <<"targetFree", "aside", "home">>
           /\ Step(c) = "aside" <=> c.plan = <<"aside", "home">>
           /\ Step(c) = "home" <=> c.plan = <<"home">>
           /\ Step(c) = "back" <=> c.plan = <<"back">>
           /\ Step(c) = "atOld" <=> c.plan = <<"atOld", "atNew", "atTemp">>
           /\ Step(c) = "atNew" <=> c.plan = <<"atNew", "atTemp">>
           /\ Step(c) = "atTemp" <=> c.plan = <<"atTemp">>
<1>1. About(c) /\ Between(c) /\ c.plan \in CaseOnlyPlans /\ c.dest # Temp /\ c.dest \in Name
  BY DEF Renaming, StructuralPlan, About, Structural
<1>2. c.seenAt # Temp /\ c.dest # c.seenAt
  BY <1>1, TempAssumption DEF About, SameUpToCase
<1>3. QED
  BY <1>1, <1>2, CaseOnlyStep DEF Step, CaseOnlyPlans

(* Moved aside, the file is at the temporary name; moved home, no longer.   *)
LEMMA MovesCase ==
    ASSUME ServiceInv, Places, provider' = provider, others' = others, NEW c,
           Renaming(c), c.phase \in Active, c.caseOnly, Moves(c), Answer(c) = "ok", Effect(c)
    PROVE  /\ Places' /\ About(c)'
           /\ Step(c) = "aside" => Within(c, {Temp})'
           /\ Step(c) = "home" => Ends(c, "ok")' /\ Within(c, {Temp, c.dest})'
<1>0. /\ c.id \in Id /\ c.dest \in Name
      /\ About(c) /\ Between(c) /\ c.seenAt # Temp /\ c.dest # Temp
      /\ c.seenAt \in Name /\ provider = "dropbox" /\ Step(c) # "rename"
      /\ Step(c) \in Mutations
  BY CaseStep, CaseOnlyStep DEF About, Renaming, Moves, Mutations, Step
<1>1. /\ Places'
      /\ \E o \in Called(From(c)) :
           /\ objs'[o].at = To(c) /\ objs'[o].live = objs[o].live
           /\ objs[o].ver # 0 => objs'[o].ver # 0
           /\ \A p \in Id : p # o => objs'[p] = objs[p]
  BY <1>0, EffectPlaces
<1>2. PICK o \in Called(From(c)) :
           /\ objs'[o].at = To(c) /\ objs'[o].live = objs[o].live
           /\ objs[o].ver # 0 => objs'[o].ver # 0
           /\ \A p \in Id : p # o => objs'[p] = objs[p]
  BY <1>1
<1>3. /\ o \in Id /\ Live(o) /\ objs[o].at # Outside
      /\ Fold[objs[o].at] = Fold[From(c)] /\ objs[o].at \in Name
  BY <1>0 DEF Called, Places
<1>4. TellsApart(objs)
  BY <1>0 DEF Places
<1>5. About(c)'
  BY <1>0, <1>2, <1>3 DEF About
<1>6. CASE Step(c) = "aside"
  <2>1. From(c) = c.seenAt /\ To(c) = Temp /\ Within(c, {c.seenAt})
    BY <1>0, <1>6, CaseStep DEF From, To, Between
  <2>2. ASSUME objs'[c.id].live, others' = 0 PROVE objs'[c.id].at = Temp
    <3>1. CASE o = c.id
      BY <1>2, <2>1, <3>1
    <3>2. CASE o # c.id
      <4>1. Live(c.id) /\ objs[c.id].at = c.seenAt
        BY <1>0, <1>2, <2>1, <2>2, <3>2 DEF Within, Live
      <4>2. c.seenAt # Outside
        BY <1>0, FoldAssumption
      <4>3. QED
        BY <1>0, <1>3, <1>4, <2>1, <3>2, <4>1, <4>2 DEF TellsApart, Live
    <3>3. QED
      BY <3>1, <3>2
  <2>3. QED
    BY <1>1, <1>5, <1>6, <2>2 DEF Within, Live
<1>7. CASE Step(c) = "home"
  <2>1. From(c) = Temp /\ To(c) = c.dest /\ Within(c, {Temp})
    BY <1>0, <1>7, CaseStep DEF From, To, Between
  <2>2. objs[o].at = Temp
    BY <1>3, <2>1, TempAssumption
  <2>3. ASSUME objs[c.id].live, objs[c.id].at = Temp PROVE o = c.id
    BY <1>0, <1>3, <1>4, <2>2, <2>3 DEF TellsApart, Live
  <2>4. ASSUME objs'[c.id].live
       PROVE objs'[c.id].at # Temp /\ (others' = 0 => objs'[c.id].at = c.dest)
    <3>1. CASE o = c.id
      BY <1>0, <1>2, <2>1, <3>1
    <3>2. CASE o # c.id
      BY <1>0, <1>2, <2>1, <2>3, <2>4, <3>2 DEF Within, Live
    <3>3. QED
      BY <3>1, <3>2
  <2>5. QED
    BY <1>1, <1>5, <1>7, <2>4 DEF Within, Ends, Live
<1>8. QED
  BY <1>1, <1>5, <1>6, <1>7

(* A request fails: what holds then where the file is.                      *)
AfterFailure(c) ==
    /\ Step(c) = "aside" => Within(c, {c.seenAt, Temp})
    /\ Step(c) = "home" => Within(c, {Temp, c.dest})
    /\ Step(c) \in {"tempFree", "targetFree"} =>
         /\ Live(c.id) => objs[c.id].at # Temp
         /\ Within(c, {c.seenAt})

(* A failed request ends the call, restarts it, or has it look around.      *)
LEMMA FailsRenames ==
    ASSUME DOMAIN calls = Task, provider \in Provider, NEW t \in Task, NEW c, NEW kind,
           DOMAIN c = CallFields, Good(c), Careful(c), Renaming(c), c.phase \in Active,
           kind # "ok", c.caseOnly => About(c)' /\ AfterFailure(c)',
           Fails(t, c, kind)
    PROVE  Renames(t, c.op)
<1>0. Placed(c)
  BY DEF Placed, Renaming
<1>1. CASE ~c.caseOnly
  <2>1. GiveUp(t, c, kind)
    BY <1>1, PlainStep DEF Fails, RenamingCase
  <2>2. QED
    BY <1>0, <1>1, <2>1, GiveUpRenames
<1>2. CASE c.caseOnly
  <2>0. /\ About(c)' /\ AfterFailure(c)' /\ c.op = "move" /\ c.plan \in CaseOnlyPlans
        /\ Step(c) = "back" => c.saved # "ok"
    BY <1>2, CaseStep DEF About, Between
  <2>1. CASE ~RenamingCase(c)
    <3>1. Step(c) \in {"tempFree", "targetFree"}
      BY <2>0, <2>1, CaseOnlyStep DEF RenamingCase, Step
    <3>2. Ends(c, kind)'
      BY <2>0, <3>1 DEF AfterFailure, Ends, Within
    <3>3. QED
      BY <1>0, <2>0, <2>1, <3>2, GiveUpRenames DEF Fails
  <2>2. CASE Step(c) = "aside"
    <3>1. LookAround(t, c, "aside", kind)
      BY <2>2 DEF Fails, RenamingCase, CaseRenameFails
    <3>2. QED
      BY <1>0, <1>2, <2>0, <2>2, <3>1, LookAroundRenames DEF AfterFailure
  <2>3. CASE Step(c) = "home"
    <3>1. LookAround(t, c, "home", kind)
      BY <2>3 DEF Fails, RenamingCase, CaseRenameFails
    <3>2. QED
      BY <1>0, <1>2, <2>0, <2>3, <3>1, LookAroundRenames DEF AfterFailure
  <2>4. CASE Step(c) = "back"
    <3>1. LookAround(t, c, "back", c.saved)
      BY <2>4 DEF Fails, RenamingCase, CaseRenameFails
    <3>2. QED
      BY <1>0, <1>2, <2>0, <2>4, <3>1, LookAroundRenames
  <2>5. CASE RenamingCase(c) /\ Step(c) \notin {"aside", "home", "back"}
    <3>1. PICK e : e = [c EXCEPT !.blind = TRUE]
      OBVIOUS
    <3>2. Finish(t, e, kind)
      BY <2>5, <3>1 DEF Fails, CaseRenameFails
    <3>3. /\ Placed(e) /\ e.blind /\ e.id = c.id /\ e.op = c.op /\ e.seenAt = c.seenAt
          /\ e.dest = c.dest
      BY <1>0, <3>1 DEF Placed, CallFields
    <3>4. About(e)' /\ Ends(e, kind)'
      BY <2>0, <3>3 DEF About, Ends
    <3>5. QED
      BY <3>2, <3>3, <3>4, FinishRenames
  <2>6. QED
    BY <2>1, <2>2, <2>3, <2>4, <2>5
<1>3. QED
  BY <1>1, <1>2

(* Where the file is found decides how the rename goes on and ends.         *)
LEMMA ConcludeRenames ==
    ASSUME DOMAIN calls = Task, NEW t \in Task, NEW c, NEW place, Placed(c), c.caseOnly,
           UNCHANGED <<objs, provider, others>>,
           About(c), Between(c),
           c.plan \in {<<"atOld", "atNew", "atTemp">>, <<"atNew", "atTemp">>, <<"atTemp">>},
           c.dest # c.seenAt, c.dest # Temp, c.seenAt # Temp,
           \/ place = "atOld" /\ objs[c.id].at = c.seenAt
           \/ place = "atNew" /\ objs[c.id].at = c.dest
           \/ place = "atTemp" /\ Live(c.id) /\ objs[c.id].at = Temp
           \/ /\ place = "nowhere" /\ c.plan = <<"atTemp">>
              /\ ~ (Live(c.id) /\ objs[c.id].at = Temp),
           Conclude(t, c, place)
    PROVE  Renames(t, c.op)
<1>0. /\ About(c)' /\ c.saved # "ok" /\ c.op = "move"
      /\ c.stage \in {"aside", "home", "back", "verify"}
  BY DEF About, Between
<1>f. ASSUME NEW outcome, Ends(c, outcome), Finish(t, c, outcome) PROVE Renames(t, c.op)
  <2>1. Ends(c, outcome)'
    BY <1>f DEF Ends, Live
  <2>2. QED
    BY <1>0, <1>f, <2>1, FinishRenames
<1>g. ASSUME NEW plan \in {<<"home">>, <<"back">>}, Within(c, {Temp}), GoOn(t, c, plan)
      PROVE  Renames(t, c.op)
  <2>1. PICK d : d = [c EXCEPT !.plan = plan, !.phase = "ready", !.resent = FALSE, !.waits = 0]
    OBVIOUS
  <2>2. d.plan = plan /\ d.id = c.id /\ d.saved = c.saved /\ d.caseOnly
    BY <2>1 DEF Placed, CallFields
  <2>3. StructuralPlan(d)
    BY <2>2 DEF StructuralPlan, CaseOnlyPlans
  <2>4. Between(d)'
    BY <1>0, <1>g, <2>2 DEF Between, Within, Live
  <2>5. QED
    BY <1>0, <1>g, <2>1, <2>3, <2>4, GoOnRenames
<1>1. CASE place = "atOld"
  <2>1. objs[c.id].at = c.seenAt
    BY <1>1
  <2>2. Ends(c, c.saved) /\ Ends(c, "rollback_failed") /\ Ends(c, "unverified")
    BY <1>0, <2>1 DEF Ends, Inconclusive
  <2>3. Finish(t, c, c.saved)
    BY <1>1 DEF Conclude
  <2>4. QED
    BY <1>f, <2>2, <2>3
<1>2. CASE place = "atNew"
  <2>1. objs[c.id].at = c.dest
    BY <1>2
  <2>2. Ends(c, "ok") /\ Ends(c, "rollback_failed") /\ Ends(c, "unverified")
    BY <1>0, <2>1 DEF Ends, Inconclusive
  <2>3. Finish(t, c, "ok") \/ Finish(t, c, "rollback_failed") \/ Finish(t, c, "unverified")
    BY <1>0, <1>2 DEF Conclude
  <2>4. QED
    BY <1>f, <2>2, <2>3
<1>3. CASE place = "atTemp"
  <2>1. Within(c, {Temp}) /\ Ends(c, "rollback_failed") /\ Ends(c, "unverified")
    BY <1>3 DEF Within, Ends, Inconclusive
  <2>2. \/ Finish(t, c, "rollback_failed") \/ Finish(t, c, "unverified")
        \/ GoOn(t, c, <<"home">>) \/ GoOn(t, c, <<"back">>)
    BY <1>0, <1>3 DEF Conclude
  <2>3. QED
    BY <1>f, <1>g, <2>1, <2>2
<1>4. CASE place = "nowhere"
  <2>1. Ends(c, "indeterminate") /\ Ends(c, "rollback_failed") /\ Ends(c, "unverified")
    BY DEF Ends, Inconclusive
  <2>2. CASE c.stage = "aside"
    <3>1. Within(c, {Temp})
      BY <1>4, <2>2 DEF Between
    <3>2. Ends(c, c.saved)
      BY <1>4, <3>1 DEF Ends, Within
    <3>3. Finish(t, c, c.saved)
      BY <1>4, <2>2 DEF Conclude
    <3>4. QED
      BY <1>f, <3>2, <3>3
  <2>3. CASE c.stage # "aside"
    <3>1. \/ Finish(t, c, "indeterminate")
          \/ Finish(t, c, "rollback_failed")
          \/ Finish(t, c, "unverified")
      BY <1>0, <1>4, <2>3 DEF Conclude
    <3>2. QED
      BY <1>f, <2>1, <3>1
  <2>4. QED
    BY <2>2, <2>3
<1>5. QED
  BY <1>1, <1>2, <1>3, <1>4

(* What failed is still within reach: nothing has moved.                    *)
LEMMA NothingMoved ==
    ASSUME UNCHANGED <<objs, provider, others>>, NEW c, Renaming(c), c.phase \in Active,
           c.caseOnly
    PROVE  About(c)' /\ AfterFailure(c)'
<1>1. About(c) /\ Between(c)
  BY CaseStep
<1>2. AfterFailure(c)
  BY <1>1, CaseStep DEF Between, AfterFailure, Within
<1>3. QED
  BY <1>1, <1>2 DEF About, AfterFailure, Within, Live, Step

(* A lookup of a rename in case.                                            *)
LEMMA CaseLooks ==
    ASSUME DOMAIN calls = Task, provider \in Provider, NEW t \in Task, NEW c,
           UNCHANGED <<objs, provider, others>>, DOMAIN c = CallFields, Good(c), Careful(c),
           Renaming(c), c.phase \in Active, c.caseOnly,
           LooksUp(t, c) \/ LooksForEndpoint(t, c)
    PROVE  Renames(t, c.op)
<1>0. /\ About(c) /\ Between(c) /\ c.seenAt # Temp /\ c.dest # Temp /\ c.dest # c.seenAt
      /\ Placed(c) /\ c.op = "move" /\ About(c)' /\ AfterFailure(c)'
      /\ c.plan \in CaseOnlyPlans
  BY CaseStep, NothingMoved DEF About, Placed, Renaming
<1>g. ASSUME NEW plan \in CaseOnlyPlans, NEW d,
             d = [c EXCEPT !.plan = plan, !.phase = "ready", !.resent = FALSE, !.waits = 0],
             Between(d), GoOn(t, c, plan)
      PROVE  Renames(t, c.op)
  <2>1. d.plan = plan /\ d.caseOnly
    BY <1>0, <1>g DEF Placed, CallFields
  <2>2. StructuralPlan(d) /\ Between(d)'
    BY <1>g, <2>1 DEF StructuralPlan, Between, Within, Live
  <2>3. QED
    BY <1>0, <1>g, <2>2, GoOnRenames
<1>d. ASSUME NEW plan, NEW d,
             d = [c EXCEPT !.plan = plan, !.phase = "ready", !.resent = FALSE, !.waits = 0]
      PROVE  /\ d.plan = plan /\ d.id = c.id /\ d.seenAt = c.seenAt /\ d.dest = c.dest
             /\ d.saved = c.saved /\ d.stage = c.stage
  BY <1>0, <1>d DEF Placed, CallFields
<1>1. CASE LooksUp(t, c)
  <2>1. Step(c) \in {"tempFree", "targetFree"}
    BY <1>0, <1>1, CaseOnlyStep DEF LooksUp, Step, Mutations
  <2>2. CASE Verdict(c) = "next"
    <3>1. Proceed(t, c)
      BY <1>1, <2>2 DEF LooksUp
    <3>2. Learn(c) = c /\ NextPlan(c) = Tail(c.plan)
      BY <2>1 DEF Learn, NextPlan
    <3>3. /\ Tail(c.plan) \in {<<"targetFree", "aside", "home">>, <<"aside", "home">>}
          /\ Len(Tail(c.plan)) # 0
      <4>1. \/ c.plan = <<"tempFree", "targetFree", "aside", "home">>
            \/ c.plan = <<"targetFree", "aside", "home">>
        BY <2>1, CaseStep
      <4>2. CASE c.plan = <<"tempFree", "targetFree", "aside", "home">>
        <5>1. Tail(c.plan) = <<"targetFree", "aside", "home">>
          BY <4>2
        <5>2. Len(<<"targetFree", "aside", "home">>) # 0
          OBVIOUS
        <5>3. QED
          BY <5>1, <5>2, Zenon
      <4>3. CASE c.plan = <<"targetFree", "aside", "home">>
        <5>1. Tail(c.plan) = <<"aside", "home">>
          BY <4>3
        <5>2. Len(<<"aside", "home">>) # 0
          OBVIOUS
        <5>3. QED
          BY <5>1, <5>2, Zenon
      <4>4. QED
        BY <4>1, <4>2, <4>3
    <3>4. GoOn(t, c, Tail(c.plan))
      BY <2>1, <3>1, <3>2, <3>3 DEF Proceed
    <3>5. PICK d : d = [c EXCEPT !.plan = Tail(c.plan), !.phase = "ready",
                                 !.resent = FALSE, !.waits = 0]
      OBVIOUS
    <3>6. Within(c, {c.seenAt}) /\ (Live(c.id) => objs[c.id].at # Temp)
      BY <1>0, <2>1, CaseStep DEF Between
    <3>7. Between(d)
      <4>1. Tail(c.plan) \notin {<<"home">>, <<"back">>, <<"atOld", "atNew", "atTemp">>,
                               <<"atNew", "atTemp">>, <<"atTemp">>}
        BY <3>3
      <4>2. QED
        BY <1>d, <3>5, <3>6, <4>1, ZenonT(60) DEF Between, Within
    <3>8. Tail(c.plan) \in CaseOnlyPlans
      BY <3>3 DEF CaseOnlyPlans
    <3>9. QED
      BY <1>g, <3>4, <3>5, <3>7, <3>8
  <2>3. CASE Verdict(c) # "next"
    <3>1. Verdict(c) = "target_changed"
      BY <2>1, <2>3 DEF Verdict, TempFreeVerdict, TargetFreeVerdict
    <3>2. Fails(t, c, "target_changed")
      BY <1>1, <3>1 DEF LooksUp
    <3>3. QED
      BY <1>0, <3>2, FailsRenames
  <2>4. QED
    BY <2>2, <2>3
<1>2. CASE LooksForEndpoint(t, c)
  <2>1. Step(c) \in {"atOld", "atNew", "atTemp"}
    BY <1>2 DEF LooksForEndpoint
  <2>2. c.plan \in {<<"atOld", "atNew", "atTemp">>, <<"atNew", "atTemp">>, <<"atTemp">>}
    BY <2>1, CaseStep
  <2>3. CASE FoundThere(c)
    <3>1. Conclude(t, c, Step(c))
      BY <1>2, <2>3 DEF LooksForEndpoint
    <3>2. /\ Live(c.id)
          /\ Step(c) = "atOld" => objs[c.id].at = c.seenAt
          /\ Step(c) = "atNew" => objs[c.id].at = c.dest
          /\ Step(c) = "atTemp" => objs[c.id].at = Temp
      BY <2>1, <2>3 DEF FoundThere, EndpointPlace
    <3>3. QED
      BY <1>0, <2>1, <2>2, <3>1, <3>2, ConcludeRenames
  <2>4. CASE ~FoundThere(c) /\ Len(c.plan) > 1
    <3>1. GoOn(t, c, Tail(c.plan))
      BY <1>2, <2>4 DEF LooksForEndpoint
    <3>2. PICK d : d = [c EXCEPT !.plan = Tail(c.plan), !.phase = "ready",
                                 !.resent = FALSE, !.waits = 0]
      OBVIOUS
    <3>3. \/ /\ c.plan = <<"atOld", "atNew", "atTemp">> /\ Tail(c.plan) = <<"atNew", "atTemp">>
             /\ ~ (Live(c.id) /\ objs[c.id].at = c.seenAt)
          \/ /\ c.plan = <<"atNew", "atTemp">> /\ Tail(c.plan) = <<"atTemp">>
      <4>1. CASE Step(c) = "atOld"
        <5>1. c.plan = <<"atOld", "atNew", "atTemp">>
          BY <4>1, CaseStep
        <5>2. Tail(c.plan) = <<"atNew", "atTemp">>
          BY <5>1
        <5>3. QED
          BY <2>4, <4>1, <5>1, <5>2 DEF FoundThere, EndpointPlace
      <4>2. CASE Step(c) = "atNew"
        <5>1. c.plan = <<"atNew", "atTemp">>
          BY <4>2, CaseStep
        <5>2. QED
          BY <5>1
      <4>3. CASE Step(c) = "atTemp"
        <5>1. c.plan = <<"atTemp">>
          BY <4>3, CaseStep
        <5>2. QED
          BY <2>4, <5>1
      <4>4. QED
        BY <2>1, <4>1, <4>2, <4>3
    <3>4. /\ c.saved # "ok" /\ c.stage \in {"aside", "home", "back", "verify"}
          /\ c.stage = "aside" => Within(c, {Temp})
          /\ c.stage = "home" => Within(c, {Temp, c.dest})
      <4>1. /\ c.saved # "ok" /\ c.stage \in {"aside", "home", "back", "verify"}
            /\ c.stage = "aside" =>
                  Within(c, IF c.plan = <<"atOld", "atNew", "atTemp">>
                              THEN {c.seenAt, Temp} ELSE {Temp})
            /\ c.stage = "home" => Within(c, {Temp, c.dest})
        BY <1>0, <2>2 DEF Between
      <4>2. <<"atNew", "atTemp">> # <<"atOld", "atNew", "atTemp">>
        OBVIOUS
      <4>3. QED
        BY <3>3, <4>1, <4>2 DEF Within
    <3>5. Tail(c.plan) \in {<<"atNew", "atTemp">>, <<"atTemp">>}
      BY <3>3
    <3>6. Between(d)
      <4>1. Tail(c.plan) \notin {<<"tempFree", "targetFree", "aside", "home">>,
                   <<"targetFree", "aside", "home">>, <<"aside", "home">>, <<"home">>,
                   <<"back">>,
                   <<"atOld", "atNew", "atTemp">>}
        BY <3>5
      <4>2. QED
        BY <1>d, <3>2, <3>4, <4>1, ZenonT(60) DEF Between, Within
    <3>7. Tail(c.plan) \in CaseOnlyPlans
      BY <3>5 DEF CaseOnlyPlans
    <3>8. QED
      BY <1>g, <3>1, <3>2, <3>6, <3>7
  <2>5. CASE ~FoundThere(c) /\ ~ Len(c.plan) > 1
    <3>1. Conclude(t, c, "nowhere")
      BY <1>2, <2>5 DEF LooksForEndpoint
    <3>2. c.plan = <<"atTemp">>
      BY <2>2, <2>5
    <3>3. ~ (Live(c.id) /\ objs[c.id].at = Temp)
      BY <2>5, <3>2, CaseStep DEF FoundThere, EndpointPlace
    <3>4. QED
      BY <1>0, <2>2, <3>1, <3>2, <3>3, ConcludeRenames
  <2>6. QED
    BY <2>3, <2>4, <2>5
<1>3. QED
  BY <1>1, <1>2

(* A move of a rename in case, answered.                                    *)
LEMMA CaseMoves ==
    ASSUME DOMAIN calls = Task, ServiceInv, Places, NEW t \in Task, NEW c,
           UNCHANGED <<provider, others>>, DOMAIN c = CallFields, Good(c), Careful(c),
           Renaming(c), c.phase \in Active, c.caseOnly, Changes(t, c)
    PROVE  Renames(t, c.op) /\ Places'
<1>0. /\ About(c) /\ Between(c) /\ Placed(c) /\ c.op = "move" /\ c.plan \in CaseOnlyPlans
      /\ provider \in Provider
  BY CaseStep DEF About, Placed, Renaming, ServiceInv
<1>1. Step(c) \in {"aside", "home", "back"} /\ Moves(c)
  BY <1>0, CaseOnlyStep DEF Changes, Step, Mutations, Moves
<1>2. CASE Answer(c) = "ok"
  <2>1. Effect(c) /\ Proceed(t, c)
    BY <1>2 DEF Changes
  <2>2. /\ Places' /\ About(c)'
        /\ Step(c) = "aside" => Within(c, {Temp})'
        /\ Step(c) = "home" => Ends(c, "ok")'
    BY <1>1, <1>2, <2>1, MovesCase
  <2>3. Learn(c) = c /\ NextPlan(c) = Tail(c.plan)
    BY <1>1 DEF Learn, NextPlan
  <2>4. CASE Step(c) = "aside"
    <3>1. Tail(c.plan) = <<"home">>
      <4>1. c.plan = <<"aside", "home">>
        BY <2>4, CaseStep
      <4>2. QED
        BY <4>1
    <3>2. GoOn(t, c, <<"home">>)
      <4>1. Len(<<"home">>) # 0
        OBVIOUS
      <4>2. Len(NextPlan(c)) # 0
        BY <2>3, <3>1, <4>1, Zenon
      <4>3. GoOn(t, Learn(c), NextPlan(c))
        BY <2>1, <2>4, <4>2 DEF Proceed
      <4>4. QED
        BY <2>3, <3>1, <4>3, Zenon
    <3>3. PICK d : d = [c EXCEPT !.plan = <<"home">>, !.phase = "ready",
                                 !.resent = FALSE, !.waits = 0]
      OBVIOUS
    <3>4. d.plan = <<"home">> /\ d.id = c.id /\ d.caseOnly
      BY <1>0, <3>3 DEF Placed, CallFields
    <3>5. StructuralPlan(d)
      BY <3>4 DEF StructuralPlan, CaseOnlyPlans
    <3>6. Between(d)'
      BY <2>2, <2>4, <3>4 DEF Between, Within
    <3>7. QED
      BY <1>0, <2>2, <3>2, <3>3, <3>5, <3>6, GoOnRenames
  <2>5. CASE Step(c) = "home"
    <3>1. Len(Tail(c.plan)) = 0
      <4>1. c.plan = <<"home">>
        BY <2>5, CaseStep
      <4>2. QED
        BY <4>1
    <3>2. Finish(t, c, "ok")
      BY <2>1, <2>3, <2>5, <3>1 DEF Proceed
    <3>3. QED
      BY <1>0, <2>2, <2>5, <3>2, FinishRenames
  <2>6. CASE Step(c) = "back"
    <3>1. LookAround(t, c, "verify", c.saved)
      BY <2>1, <2>6 DEF Proceed
    <3>2. c.saved # "ok"
      BY <1>0, <2>6, CaseStep DEF Between
    <3>3. QED
      BY <1>0, <2>2, <3>1, <3>2, LookAroundRenames
  <2>7. QED
    BY <1>1, <2>4, <2>5, <2>6
<1>3. CASE Answer(c) # "ok"
  <2>1. UNCHANGED <<objs, content>> /\ Fails(t, c, Answer(c))
    BY <1>3 DEF Changes
  <2>2. About(c)' /\ AfterFailure(c)'
    BY <2>1, NothingMoved
  <2>3. Places'
    BY <2>1 DEF Places, TellsApart
  <2>4. QED
    BY <1>0, <1>3, <2>1, <2>2, <2>3, FailsRenames
<1>4. QED
  BY <1>2, <1>3

(* What a call has learned stays what it was about.                         *)
LEMMA PlainLearns ==
    ASSUME NEW c, Placed(c), ~c.caseOnly, NEW e, e = Learn(c),
           Step(c) = "fetch" => ~CaseOnly(c),
           Step(c) = "put" /\ c.op = "create" => NextId \in Id
    PROVE  Placed(e) /\ ~e.caseOnly /\ e.op = c.op
BY DEF Placed, Learn, CallFields

(* No answer to a read ends a call as a success: only a change does.        *)
LEMMA VerdictIsNoSuccess ==
    ASSUME provider \in Provider, NEW c
    PROVE  Verdict(c) # "ok"
<1>1. ReadFails # "ok" /\ Missing(c) # "ok" /\ Compared(c) # "ok"
  BY DEF ReadFails, Missing, Compared
<1>2. provider \in Provider => FetchVerdict(c) # "ok"
  BY <1>1 DEF FetchVerdict, DropboxFetch, OneDriveFetch, OneDriveGuard, DriveFetch, Provider
<1>3. QED
  BY <1>1, <1>2
     DEF Verdict, ObserveVerdict, UrlVerdict, RefetchVerdict, TempFreeVerdict, TargetFreeVerdict

(* A request of any other call, answered.                                   *)
LEMMA PlainRequest ==
    ASSUME DOMAIN calls = Task, ServiceInv, Places, NEW t \in Task, NEW c,
           UNCHANGED <<provider, others>>, DOMAIN c = CallFields, Good(c), Careful(c),
           Renaming(c), c.phase \in Active, ~c.caseOnly,
           LooksUp(t, c) \/ LooksForEndpoint(t, c) \/ Changes(t, c)
    PROVE  /\ Renames(t, c.op) /\ Places'
           /\ c.op # "move" => \A o \in Id : Stays(o)
<1>0. Placed(c) /\ provider \in Provider
  BY DEF Placed, Renaming, ServiceInv
<1>1. /\ Step(c) \notin {"tempFree", "targetFree", "aside", "home", "back",
                         "atOld", "atNew", "atTemp"}
      /\ Step(c) = "rename" => c.op = "move"
  BY <1>0, PlainStep
<1>2. ASSUME NEW kind, kind # "ok", Fails(t, c, kind) PROVE Renames(t, c.op)
  BY <1>0, <1>2, FailsRenames
<1>3. ASSUME ~ (Step(c) = "fetch" /\ CaseOnly(c)), Proceed(t, c),
             Step(c) = "put" /\ c.op = "create" => NextId \in Id
      PROVE  Renames(t, c.op)
  <2>1. PICK e : e = Learn(c)
    OBVIOUS
  <2>2. Placed(e) /\ ~e.caseOnly /\ e.op = c.op
    BY <1>0, <1>3, <2>1, PlainLearns
  <2>3. NextPlan(c) = Tail(c.plan)
    BY <1>3 DEF NextPlan
  <2>4. CASE Finish(t, e, "ok")
    BY <1>0, <2>2, <2>4, FinishRenames
  <2>5. CASE Len(Tail(c.plan)) # 0 /\ GoOn(t, e, Tail(c.plan))
    <3>1. PICK d : d = [e EXCEPT !.plan = Tail(c.plan), !.phase = "ready",
                                 !.resent = FALSE, !.waits = 0]
      OBVIOUS
    <3>2. d.plan = Tail(c.plan) /\ ~d.caseOnly /\ d.op = c.op
      BY <2>2, <3>1 DEF Placed, CallFields
    <3>3. c.op \in Structural => StructuralPlan(d)
      <4>1. SUFFICES ASSUME c.op \in Structural PROVE StructuralPlan(d)
        OBVIOUS
      <4>2. StructuralPlan(c)
        BY <4>1 DEF Renaming
      <4>3. CASE c.plan \in {<<"rename">>, <<"remove">>}
        <5>1. Len(Tail(c.plan)) = 0
          BY <4>3
        <5>2. QED
          BY <2>5, <5>1
      <4>4. CASE c.op = "move" /\ c.plan = <<"fetch", "rename">>
        <5>1. Tail(c.plan) = <<"rename">>
          BY <4>4
        <5>2. QED
          BY <3>2, <4>4, <5>1 DEF StructuralPlan
      <4>5. CASE c.op # "move" /\ c.plan = <<"fetch", "remove">>
        <5>1. Tail(c.plan) = <<"remove">>
          BY <4>5
        <5>2. QED
          BY <3>2, <4>5, <5>1 DEF StructuralPlan
      <4>6. QED
        BY <4>2, <4>3, <4>4, <4>5 DEF StructuralPlan
    <3>4. QED
      BY <2>2, <2>5, <3>1, <3>3, GoOnRenames
  <2>6. QED
    BY <1>1, <1>3, <2>1, <2>3, <2>4, <2>5 DEF Proceed
<1>4. CASE LooksUp(t, c)
  <2>1. Places' /\ \A o \in Id : Stays(o)
    BY <1>4 DEF LooksUp, Places, TellsApart, Stays
  <2>2. CASE Verdict(c) = "next" /\ ~ (Step(c) = "fetch" /\ CaseOnly(c))
    <3>1. Proceed(t, c) /\ Step(c) # "put"
      BY <1>4, <2>2 DEF LooksUp, Mutations
    <3>2. QED
      BY <1>3, <2>1, <2>2, <3>1
  <2>3. CASE Verdict(c) = "next" /\ Step(c) = "fetch" /\ CaseOnly(c)
    <3>1. Proceed(t, c) /\ FetchVerdict(c) = "next"
      BY <1>4, <2>3 DEF LooksUp, Verdict
    <3>2. PICK e : e = Learn(c)
      OBVIOUS
    <3>3. e = [c EXCEPT !.seen = objs[c.id].ver, !.seenAt = objs[c.id].at,
                        !.caseOnly = CaseOnly(c)]
      BY <2>3, <3>2 DEF Learn
    <3>4. /\ Placed(e) /\ e.caseOnly /\ e.op = c.op /\ e.id = c.id /\ e.dest = c.dest
          /\ e.seenAt = objs[c.id].at
      BY <1>0, <2>3, <3>3 DEF Placed, CallFields
    <3>5. Live(c.id)
      BY <3>1, <1>0, <2>3 DEF FetchVerdict, DropboxFetch, Gone, Missing, ReadFails, CaseOnly
    <3>6. About(e)
      BY <1>0, <2>3, <3>4, <3>5 DEF About, CaseOnly, Placed, ServiceInv, Places, SameUpToCase
    <3>7. objs[c.id].at # Temp
      BY <1>0, <3>4, <3>6, TempAssumption DEF About, SameUpToCase, Placed
    <3>8. About(e)'
      BY <1>4, <3>6 DEF About, LooksUp
    <3>9. PICK d : d = [e EXCEPT !.plan = CaseOnlySteps, !.phase = "ready",
                                 !.resent = FALSE, !.waits = 0]
      OBVIOUS
    <3>10. /\ d.plan = CaseOnlySteps /\ d.caseOnly /\ d.id = c.id /\ d.seenAt = objs[c.id].at
      BY <3>4, <3>9 DEF Placed, CallFields
    <3>11. StructuralPlan(d)
      BY <3>10 DEF StructuralPlan, CaseOnlySteps, CaseOnlyPlans
    <3>12. Between(d)'
      BY <1>4, <3>7, <3>10 DEF Between, Within, CaseOnlySteps, LooksUp, Live
    <3>13. GoOn(t, e, CaseOnlySteps)
      <4>1. NextPlan(c) = CaseOnlySteps
        BY <2>3 DEF NextPlan
      <4>2. Len(CaseOnlySteps) # 0
        BY DEF CaseOnlySteps
      <4>3. QED
        BY <2>3, <3>1, <3>2, <4>1, <4>2 DEF Proceed
    <3>14. QED
      BY <2>1, <3>4, <3>8, <3>9, <3>11, <3>12, <3>13, GoOnRenames
  <2>4. CASE Verdict(c) = "done"
    <3>1. Finish(t, c, "ok")
      BY <1>4, <2>4 DEF LooksUp
    <3>2. QED
      BY <1>0, <2>1, <3>1, FinishRenames
  <2>5. CASE Verdict(c) \notin {"next", "done"}
    <3>1. Fails(t, c, Verdict(c))
      BY <1>4, <2>5 DEF LooksUp
    <3>2. QED
      BY <1>0, <1>2, <2>1, <3>1, VerdictIsNoSuccess
  <2>6. QED
    BY <2>2, <2>3, <2>4, <2>5
<1>5. CASE Changes(t, c)
  <2>1. Step(c) \in Mutations \union {"open"} /\ Step(c) # "fetch"
    BY <1>5 DEF Changes, Mutations
  <2>2. CASE Answer(c) = "ok"
    <3>1. Effect(c) /\ Proceed(t, c)
      BY <1>5, <2>2 DEF Changes
    <3>2. Step(c) = "put" /\ c.op = "create" => NextId \in Id
      BY <3>1, NextIdUnborn DEF Effect, Creates, CreateAt
    <3>3. /\ Places'
          /\ ~Moves(c) => \A o \in Id : Stays(o)
      BY <1>0, <1>1, <2>1, <2>2, <3>1, EffectPlaces DEF Placed
    <3>4. c.op # "move" => ~Moves(c)
      BY <1>1 DEF Moves
    <3>5. QED
      BY <1>3, <2>1, <3>1, <3>2, <3>3, <3>4
  <2>3. CASE Answer(c) # "ok"
    <3>1. UNCHANGED <<objs, content>> /\ Fails(t, c, Answer(c))
      BY <1>5, <2>3 DEF Changes
    <3>2. Places' /\ \A o \in Id : Stays(o)
      BY <3>1 DEF Places, TellsApart, Stays
    <3>3. QED
      BY <1>2, <2>3, <3>1, <3>2
  <2>4. QED
    BY <2>2, <2>3
<1>6. QED
  BY <1>1, <1>4, <1>5 DEF LooksForEndpoint

(* A plan with one move.                                                    *)
LoneMove == \A s, t \in Task : calls[s].op = "move" /\ calls[t].op = "move" => s = t

CaseInv ==
    /\ Places
    /\ \A t \in Task : Renaming(calls[t])
    /\ LoneMove

(* A call in another phase.                                                 *)
LEMMA PhaseRenames ==
    ASSUME DOMAIN calls = Task, NEW t \in Task, NEW c, c = calls[t], DOMAIN c = CallFields,
           Renaming(c), UNCHANGED <<objs, provider, others>>, NEW phase, NEW resent, NEW waits,
           calls' = [calls EXCEPT ![t] = Moved(c, phase, resent, waits)],
           \/ c.phase \in Active /\ phase \in Active
           \/ c.phase = "new" /\ phase = "waiting"
    PROVE  Renames(t, c.op)
<1>1. PICK d : d = Moved(c, phase, resent, waits)
  OBVIOUS
<1>2. /\ d.id = c.id /\ d.op = c.op /\ d.dest = c.dest /\ d.denial = c.denial
      /\ d.caseOnly = c.caseOnly /\ d.plan = c.plan /\ d.seenAt = c.seenAt /\ d.stage = c.stage
      /\ d.saved = c.saved /\ d.phase = phase
  BY <1>1 DEF Moved, CallFields
<1>3. Renaming(d)
  BY <1>2 DEF Renaming, About, Between, Within, StructuralPlan, Active
<1>4. \A o \in Id : Stays(o)
  BY DEF Stays
<1>5. Renaming(d)'
  BY <1>3, <1>4, RenamingKept DEF Renaming
<1>6. calls' = [calls EXCEPT ![t] = d]
  BY <1>1
<1>7. QED
  BY <1>2, <1>5, <1>6 DEF Renames

(* A request that is answered.                                              *)
LEMMA DeliverRenames ==
    ASSUME DOMAIN calls = Task, ServiceInv, Places, NEW t \in Task, NEW c,
           UNCHANGED <<provider, others>>, DOMAIN c = CallFields, Good(c), Careful(c),
           Renaming(c), c.phase \in Active,
           LooksUp(t, c) \/ LooksForEndpoint(t, c) \/ Changes(t, c)
    PROVE  /\ Renames(t, c.op) /\ Places'
           /\ c.op # "move" => \A o \in Id : Stays(o)
<1>0. provider \in Provider
  BY DEF ServiceInv
<1>1. CASE ~c.caseOnly
  BY <1>1, PlainRequest
<1>2. CASE c.caseOnly
  <2>1. c.op = "move"
    BY <1>2 DEF Renaming, About
  <2>2. CASE Changes(t, c)
    BY <1>2, <2>1, <2>2, CaseMoves
  <2>3. CASE LooksUp(t, c) \/ LooksForEndpoint(t, c)
    <3>1. UNCHANGED objs
      BY <2>3 DEF LooksUp, LooksForEndpoint
    <3>2. Places'
      BY <3>1 DEF Places, TellsApart
    <3>3. QED
      BY <1>0, <1>2, <2>1, <2>3, <3>1, <3>2, CaseLooks
  <2>4. QED
    BY <2>2, <2>3
<1>3. QED
  BY <1>1, <1>2

(* One whose answer is lost.                                                *)
LEMMA LostRenames ==
    ASSUME DOMAIN calls = Task, ServiceInv, Places, NEW t \in Task, NEW c,
           UNCHANGED <<provider, others>>, DOMAIN c = CallFields, Good(c), Careful(c),
           Renaming(c), c.phase \in Active, Step(c) \in Mutations, Answer(c) = "ok",
           Effect(c), Fails(t, c, "transient")
    PROVE  /\ Renames(t, c.op) /\ Places'
           /\ c.op # "move" => \A o \in Id : Stays(o)
<1>0. provider \in Provider /\ c.id \in Id /\ c.dest \in Name
  BY DEF ServiceInv, Renaming
<1>1. CASE ~c.caseOnly
  <2>1. Step(c) # "back" /\ (c.op # "move" => ~Moves(c))
    BY <1>0, <1>1, PlainStep DEF Moves
  <2>2. Places' /\ (~Moves(c) => \A o \in Id : Stays(o))
    BY <1>0, <2>1, EffectPlaces
  <2>3. Renames(t, c.op)
    BY <1>0, <1>1, FailsRenames
  <2>4. QED
    BY <2>1, <2>2, <2>3
<1>2. CASE c.caseOnly
  <2>1. c.op = "move" /\ c.plan \in CaseOnlyPlans
    BY <1>2, CaseStep DEF About
  <2>2. Step(c) \in {"aside", "home", "back"} /\ Moves(c)
    BY <2>1, CaseOnlyStep DEF Step, Mutations, Moves
  <2>3. /\ Places' /\ About(c)'
        /\ Step(c) = "aside" => Within(c, {Temp})'
        /\ Step(c) = "home" => Within(c, {Temp, c.dest})'
    BY <1>2, <2>2, MovesCase
  <2>4. AfterFailure(c)'
    BY <2>2, <2>3 DEF AfterFailure, Within, Step
  <2>5. QED
    BY <1>0, <1>2, <2>1, <2>3, <2>4, FailsRenames
<1>3. QED
  BY <1>1, <1>2

(* Handing on the outcome of a refresh.                                     *)
LEMMA HandRenames ==
    ASSUME DOMAIN calls = Task,
           \A t \in Task : DOMAIN calls[t] = CallFields /\ Renaming(calls[t]),
           UNCHANGED <<objs, provider, others>>, NEW phase \in Active, NEW kind, kind # "ok",
           Hand(phase, kind), NEW t \in Task
    PROVE  Renaming(calls[t])' /\ calls'[t].op = calls[t].op
<1>0. \A o \in Id : Stays(o)
  BY DEF Stays
<1>1. PICK c : c = calls[t]
  OBVIOUS
<1>2. CASE t \notin Waiters
  <2>1. calls'[t] = c
    BY <1>1, <1>2 DEF Hand
  <2>2. Renaming(c)'
    BY <1>0, <1>1, RenamingKept DEF Renaming
  <2>3. QED
    BY <1>1, <2>1, <2>2
<1>3. CASE t \in Waiters
  <2>1. PICK d : d = [c EXCEPT !.phase = phase, !.denial = kind]
    OBVIOUS
  <2>2. calls'[t] = d /\ c.phase \in Active
    BY <1>1, <1>3, <2>1 DEF Hand, Waiters, Active
  <2>3. /\ d.id = c.id /\ d.op = c.op /\ d.dest = c.dest /\ d.denial = kind
        /\ d.caseOnly = c.caseOnly /\ d.plan = c.plan
        /\ d.seenAt = c.seenAt /\ d.stage = c.stage
        /\ d.saved = c.saved /\ d.phase = phase
    BY <1>1, <2>1 DEF CallFields
  <2>4. Renaming(d)
    BY <1>1, <2>2, <2>3 DEF Renaming, About, Between, Within, StructuralPlan, Active
  <2>5. Renaming(d)'
    BY <1>0, <2>4, RenamingKept DEF Renaming
  <2>6. QED
    BY <1>1, <2>2, <2>3, <2>5
<1>4. QED
  BY <1>2, <1>3

(* Every step keeps it.                                                     *)
LEMMA CaseInvStep ==
    ASSUME ReadInv, CarefulInv, CaseInv, [Next]_vars
    PROVE  CaseInv'
<1>0. /\ DOMAIN calls = Task /\ provider \in Provider /\ ServiceInv /\ Places
      /\ \A t \in Task : /\ Good(calls[t]) /\ Careful(calls[t]) /\ DOMAIN calls[t] = CallFields
                         /\ Renaming(calls[t])
  BY DEF ReadInv, ServiceInv, CallsInv, Good, CarefulInv, CaseInv
<1>p. ASSUME UNCHANGED <<objs, provider, others>> PROVE Places' /\ \A o \in Id : Stays(o)
  BY <1>0, <1>p DEF Places, TellsApart, Stays
<1>r. ASSUME NEW t \in Task, Renames(t, calls[t].op), Places', UNCHANGED <<provider, others>>,
             calls[t].op # "move" => \A o \in Id : Stays(o)
      PROVE  CaseInv'
  <2>1. ASSUME NEW s \in Task PROVE Renaming(calls[s])' /\ calls'[s].op = calls[s].op
    <3>1. CASE s = t
      BY <1>r, <3>1 DEF Renames
    <3>2. CASE s # t
      <4>1. PICK e : e = calls[s]
        OBVIOUS
      <4>2. calls'[s] = e
        BY <1>r, <3>2, <4>1 DEF Renames
      <4>3. e.caseOnly => Stays(e.id)
        BY <1>0, <1>r, <3>2, <4>1 DEF CaseInv, LoneMove, Renaming, About
      <4>4. Renaming(e)'
        BY <1>0, <1>r, <4>1, <4>3, RenamingKept
      <4>5. QED
        BY <4>1, <4>2, <4>4
    <3>3. QED
      BY <3>1, <3>2
  <2>2. QED
    BY <1>r, <2>1 DEF CaseInv, LoneMove
<1>q. ASSUME UNCHANGED <<objs, provider, others>>, NEW t \in Task, Renames(t, calls[t].op)
      PROVE  CaseInv'
  BY <1>p, <1>q, <1>r
<1>s. ASSUME UNCHANGED calls, provider' = provider, Places', others' = 0 => others = 0,
             \A o \in Id : Stays(o)
      PROVE  CaseInv'
  <2>1. ASSUME NEW t \in Task PROVE Renaming(calls[t])'
    <3>1. PICK c : c = calls[t]
      OBVIOUS
    <3>2. Renaming(c)'
      BY <1>0, <1>s, <3>1, RenamingKept DEF Renaming
    <3>3. QED
      BY <1>s, <3>1, <3>2
  <2>2. QED
    BY <1>s, <2>1 DEF CaseInv, LoneMove
<1>f. ASSUME UNCHANGED <<objs, provider, others>>, NEW t \in Task, NEW kind, kind # "ok",
             calls[t].phase \in Active, Fails(t, calls[t], kind)
      PROVE  CaseInv'
  <2>1. PICK c : c = calls[t]
    OBVIOUS
  <2>2. c.caseOnly => About(c)' /\ AfterFailure(c)'
    BY <1>0, <1>f, <2>1, NothingMoved
  <2>3. Renames(t, c.op)
    BY <1>0, <1>f, <2>1, <2>2, FailsRenames
  <2>4. QED
    BY <1>f, <1>q, <2>1, <2>3
<1>m. ASSUME UNCHANGED <<objs, provider, others>>, NEW t \in Task,
             NEW phase, NEW resent, NEW waits,
             calls' = [calls EXCEPT ![t] = Moved(calls[t], phase, resent, waits)],
             \/ calls[t].phase \in Active /\ phase \in Active
             \/ calls[t].phase = "new" /\ phase = "waiting"
      PROVE  CaseInv'
  <2>1. PICK c : c = calls[t]
    OBVIOUS
  <2>2. Renames(t, c.op)
    BY <1>0, <1>m, <2>1, PhaseRenames
  <2>3. QED
    BY <1>m, <1>q, <2>1, <2>2
<1>1. ASSUME NEW t \in Task, Enter(t) PROVE CaseInv'
  <2>1. calls' = [calls EXCEPT ![t] =
                    Moved(calls[t], "waiting", calls[t].resent, calls[t].waits)]
    BY <1>0, <1>1 DEF Enter, CallFields, Moved
  <2>2. UNCHANGED service /\ calls[t].phase = "new"
    BY <1>1 DEF Enter
  <2>3. QED
    BY <1>m, <2>1, <2>2 DEF service
<1>2. ASSUME NEW t \in Task, Start(t) \/ StartStructural(t) PROVE CaseInv'
  <2>1. PICK c : c = calls[t]
    OBVIOUS
  <2>2. PICK d : d = Fresh(c)
    OBVIOUS
  <2>3. calls' = [calls EXCEPT ![t] = d] /\ UNCHANGED service
    BY <1>2, <2>1, <2>2 DEF Start, StartStructural
  <2>4. c.phase \in {"waiting", "new"}
    BY <1>2, <2>1 DEF Start, StartStructural, Admitted
  <2>5. Placed(c) /\ ~c.caseOnly
    BY <1>0, <2>1, <2>4 DEF Placed, Renaming, Active
  <2>6. Renaming(d)'
    BY <2>2, <2>5, FreshRenames
  <2>7. d.op = c.op
    BY <2>2, <2>5 DEF Placed, CallFields, Fresh
  <2>8. Renames(t, c.op)
    BY <1>0, <2>3, <2>6, <2>7 DEF Renames
  <2>9. QED
    BY <1>q, <2>1, <2>3, <2>8 DEF service
<1>3. ASSUME NEW t \in Task, Deliver(t) PROVE CaseInv'
  <2>1. PICK c : c = calls[t]
    OBVIOUS
  <2>2. /\ UNCHANGED <<provider, others>> /\ c.phase \in Active
        /\ LooksUp(t, c) \/ LooksForEndpoint(t, c) \/ Changes(t, c)
    BY <1>3, <2>1 DEF Deliver, Quiet, CanSend, Active
  <2>3. /\ Renames(t, c.op) /\ Places'
        /\ c.op # "move" => \A o \in Id : Stays(o)
    BY <1>0, <2>1, <2>2, DeliverRenames
  <2>4. QED
    BY <1>r, <2>1, <2>2, <2>3
<1>4. ASSUME NEW t \in Task, AnswerLost(t) PROVE CaseInv'
  <2>1. PICK c : c = calls[t]
    OBVIOUS
  <2>2. /\ UNCHANGED <<provider, others>> /\ c.phase \in Active
        /\ Step(c) \in Mutations /\ Answer(c) = "ok" /\ Effect(c) /\ Fails(t, c, "transient")
    BY <1>4, <2>1 DEF AnswerLost, Quiet, CanSend, Active
  <2>3. /\ Renames(t, c.op) /\ Places'
        /\ c.op # "move" => \A o \in Id : Stays(o)
    BY <1>0, <2>1, <2>2, LostRenames
  <2>4. QED
    BY <1>r, <2>1, <2>2, <2>3
<1>5. ASSUME NEW t \in Task, Refused(t) PROVE CaseInv'
  <2>1. calls[t].phase \in Active /\ UNCHANGED <<objs, provider, others>>
    BY <1>5 DEF Refused, CanSend, Active, Quiet
  <2>2. CASE Fails(t, calls[t], "auth")
    BY <1>f, <2>1, <2>2
  <2>3. CASE calls' = [calls EXCEPT ![t].resent = TRUE, ![t].phase = "ready"]
    <3>1. calls' = [calls EXCEPT ![t] = Moved(calls[t], "ready", TRUE, calls[t].waits)]
      BY <1>0, <2>3 DEF CallFields, Moved
    <3>2. QED
      BY <1>m, <2>1, <3>1 DEF Active
  <2>4. QED
    BY <1>5, <2>2, <2>3 DEF Refused
<1>6. ASSUME NEW t \in Task, Throttled(t) PROVE CaseInv'
  <2>1. calls[t].phase \in Active /\ UNCHANGED <<objs, provider, others>>
    BY <1>6 DEF Throttled, CanSend, Active, Quiet
  <2>2. CASE Fails(t, calls[t], "rate_limit")
    BY <1>f, <2>1, <2>2
  <2>3. CASE calls' = [calls EXCEPT ![t].waits = @ + 1, ![t].phase = "ready"]
    <3>1. calls' = [calls EXCEPT ![t] =
                      Moved(calls[t], "ready", calls[t].resent, calls[t].waits + 1)]
      BY <1>0, <2>3 DEF CallFields, Moved
    <3>2. QED
      BY <1>m, <2>1, <3>1 DEF Active
  <2>4. QED
    BY <1>6, <2>2, <2>3 DEF Throttled
<1>7. ASSUME NEW t \in Task, Unreachable(t) \/ Forbidden(t) PROVE CaseInv'
  <2>1. calls[t].phase \in Active /\ UNCHANGED <<objs, provider, others>>
    BY <1>7 DEF Unreachable, Forbidden, CanSend, Active, Quiet
  <2>2. Fails(t, calls[t], "transient") \/ Fails(t, calls[t], "permission")
    BY <1>7 DEF Unreachable, Forbidden
  <2>3. QED
    BY <1>f, <2>1, <2>2
<1>8. ASSUME NEW t \in Task, TakeToken(t) PROVE CaseInv'
  <2>1. calls[t].phase \in Active /\ UNCHANGED <<objs, provider, others>>
    BY <1>8 DEF TakeToken, Active, service
  <2>2. CASE Fails(t, calls[t], "auth")
    BY <1>f, <2>1, <2>2
  <2>3. CASE calls' = [calls EXCEPT ![t].phase = "token"]
    <3>1. calls' = [calls EXCEPT ![t] =
                      Moved(calls[t], "token", calls[t].resent, calls[t].waits)]
      BY <1>0, <2>3 DEF CallFields, Moved
    <3>2. QED
      BY <1>m, <2>1, <3>1 DEF Active
  <2>4. QED
    BY <1>8, <2>2, <2>3 DEF TakeToken
<1>9. ASSUME NEW t \in Task, Denied(t) PROVE CaseInv'
  <2>1. calls[t].phase \in Active /\ UNCHANGED <<objs, provider, others>>
    BY <1>9 DEF Denied, Active, service
  <2>2. Fails(t, calls[t], calls[t].denial) /\ calls[t].denial # "ok"
    BY <1>0, <1>9 DEF Denied, Renaming
  <2>3. QED
    BY <1>f, <2>1, <2>2
<1>10. ASSUME NEW t \in Task, RefreshWorks(t) \/ RefreshFails(t) PROVE CaseInv'
  <2>1. /\ UNCHANGED <<objs, provider, others>>
        /\ Hand("holding", "none") \/ Hand("denied", "auth") \/ Hand("denied", "transient")
    BY <1>10 DEF RefreshWorks, RefreshFails, service
  <2>2. ASSUME NEW s \in Task PROVE Renaming(calls[s])' /\ calls'[s].op = calls[s].op
    BY <1>0, <2>1, HandRenames DEF Active
  <2>3. QED
    BY <1>p, <2>1, <2>2 DEF CaseInv, LoneMove
<1>11. CASE OthersAct
  <2>1. /\ OtherDevice /\ UNCHANGED calls /\ provider' = provider
    BY <1>11 DEF OthersAct, OtherDevice
  <2>2. Places' /\ others' # 0 /\ \A o \in Id : Stays(o)
    BY <1>0, <2>1, OthersPlaces
  <2>3. QED
    BY <1>s, <2>1, <2>2
<1>12. CASE \/ \E t \in Task : RefreshRotates(t)
            \/ TokenEnds \/ Done \/ UNCHANGED vars
  <2>1. UNCHANGED <<objs, provider, others>> /\ UNCHANGED calls
    BY <1>12 DEF RefreshRotates, TokenEnds, Done, vars, service
  <2>2. QED
    BY <1>p, <1>s, <2>1
<1>13. QED
  BY <1>1, <1>2, <1>3, <1>4, <1>5, <1>6, <1>7, <1>8, <1>9, <1>10, <1>11, <1>12 DEF Next

(* A plan has one move at most.  Dropbox moves a path, not a file: two case *)
(* renames of one plan with paths from before could each take the other's   *)
(* file aside.                                                              *)
LoneMoves ==
    \A b \in Batches : \A s, t \in Task :
        b.calls[s].op = "move" /\ b.calls[t].op = "move" => s = t

(* Invariant: a rename of a file to another spelling of its own name, which *)
(* Dropbox carries out as two moves by way of a temporary name (adapter.ts, *)
(* the case-only rename), never leaves the file under the temporary name    *)
(* when its outcome is known; and while no other device acts, the file is   *)
(* then at the new spelling if the call succeeded, at the old one otherwise,*)
(* whichever request fails, before or after its effect, and however often   *)
(* it is sent again.                                                        *)
THEOREM BatchCaseRenameSettles ==
    ASSUME LoneMoves
    PROVE  Spec => []CaseRenameSettles
<1>1. Init => ReadInv /\ CarefulInv
  <2>1. Init => ReadInv
    BY BatchStarts
  <2>2. Init => CarefulInv
    BY BatchesAssumption DEF Init, CarefulInv, Careful, Unmade, Active
  <2>3. QED
    BY <2>1, <2>2
<1>2. Init => CaseInv
  <2>1. SUFFICES ASSUME Init PROVE CaseInv
    OBVIOUS
  <2>2. PICK b \in Batches : /\ provider = b.provider /\ objs = b.objs /\ content = b.content
                             /\ calls = b.calls /\ others = b.others
    BY <2>1 DEF Init
  <2>3. Places
    BY <2>2, BatchesAssumption DEF Places
  <2>4. ASSUME NEW t \in Task PROVE Renaming(calls[t])
    BY <2>2, BatchesAssumption DEF Renaming, Unmade, Active
  <2>5. QED
    BY <2>2, <2>3, <2>4 DEF CaseInv, LoneMove, LoneMoves
<1>3. ReadInv /\ CarefulInv /\ CaseInv /\ [Next]_vars => ReadInv' /\ CarefulInv' /\ CaseInv'
  BY ReadInvStep, CarefulStep, CaseInvStep
<1>4. CaseInv => CaseRenameSettles
  BY DEF CaseInv, Renaming, Ends, CaseRenameSettles, Settled
<1>5. QED
  BY <1>1, <1>2, <1>3, <1>4, PTL DEF Spec
=============================================================================

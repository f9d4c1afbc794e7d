------------------------ MODULE PriorityPull_proofs ------------------------
(***************************************************************************)
(* First the coordinator by itself, for any workers and paths and any      *)
(* number of finalizers.  The three parts of its inductive invariant lean  *)
(* on each other: a worker is kept waiting only behind the drain or a      *)
(* queue, a queue only behind a permit or the drain, and the drain runs    *)
(* nothing while a permit is out.                                          *)
(*                                                                         *)
(* The cycle and the pull of an opened file use the coordinator as its     *)
(* specification says, so what is shown of every client holds of them:     *)
(* for any number of files, edits, opens and faults.                       *)
(*                                                                         *)
(* Then type correctness of the composition, and that a pull which has     *)
(* reached its effect still owns the batch action it replaces. Ownership   *)
(* leans on the rest of the invariant: a pull runs only while no permit is *)
(* out (IInv, of the coordinator), so no action begins beside it; a batch  *)
(* in its transfer phase belongs to a cycle that has not closed            *)
(* (BatchOpen), so the plan is not dropped under the pull; and the action  *)
(* a pull found pending when it started stays so until the pull commits    *)
(* its record (PullOwns).                                                  *)
(*                                                                         *)
(* Last what the pulls and the cycle may lose between them, which is       *)
(* nothing: remote changes, local changes and edits (SyncInv).             *)
(***************************************************************************)
EXTENDS PriorityPull, TLAPS

IInv == CoordinatorTypeOK /\ SafePoint /\ NobodyWaitsForNothing

-----------------------------------------------------------------------------
(* The queue stays a sequence of different paths.                           *)

LEMMA AppendKeepsDistinct ==
    ASSUME NEW S, NEW q \in Seq(S), IsInjective(q), NEW p \in S, p \notin Range(q)
    PROVE  Append(q, p) \in Seq(S) /\ IsInjective(Append(q, p))
<1>1. /\ Append(q, p) \in Seq(S)
      /\ Len(Append(q, p)) = Len(q) + 1
      /\ \A i \in 1..Len(q) : Append(q, p)[i] = q[i] /\ Append(q, p)[i] # p
      /\ Append(q, p)[Len(q) + 1] = p
  BY DEF Range
<1>2. SUFFICES ASSUME NEW i \in 1..Len(q) + 1, NEW j \in 1..Len(q) + 1,
                      Append(q, p)[i] = Append(q, p)[j]
               PROVE  i = j
  BY <1>1 DEF IsInjective
<1>3. Len(q) \in Nat
  OBVIOUS
<1>4. CASE i \in 1..Len(q) /\ j \in 1..Len(q)
  BY <1>1, <1>2, <1>4 DEF IsInjective
<1>5. CASE i = Len(q) + 1 \/ j = Len(q) + 1
  BY <1>1, <1>2, <1>3, <1>5
<1> QED BY <1>3, <1>4, <1>5

LEMMA TailKeepsDistinct ==
    ASSUME NEW S, NEW q \in Seq(S), IsInjective(q), q # <<>>
    PROVE  Head(q) \in S /\ Tail(q) \in Seq(S) /\ IsInjective(Tail(q))
<1>1. /\ Head(q) \in S /\ Tail(q) \in Seq(S)
      /\ Len(Tail(q)) = Len(q) - 1
      /\ \A i \in 1..Len(q) - 1 : Tail(q)[i] = q[i + 1]
      /\ Len(q) \in Nat
  OBVIOUS
<1> QED BY <1>1 DEF IsInjective

-----------------------------------------------------------------------------
(* What a drain does to fields that a call leaves well formed.              *)

LEMMA DrainStep ==
    ASSUME NEW holders, holders \subseteq Worker,
           NEW waiters, waiters \subseteq Worker \ holders,
           NEW queue \in Seq(Path), IsInjective(queue),
           NEW closers \in Nat,
           current # None => holders = {},
           Drain(holders, waiters, queue, closers)
    PROVE  IInv'
<1>1. CASE holders = {} /\ queue # <<>>
  <2>1. /\ Head(queue) \in Path /\ Tail(queue) \in Seq(Path)
        /\ IsInjective(Tail(queue))
    BY <1>1, TailKeepsDistinct
  <2> QED BY <1>1, <2>1, CurrentAssumption
          DEF Drain, IInv, CoordinatorTypeOK, SafePoint, NobodyWaitsForNothing
<1>2. CASE holders = {} /\ queue = <<>> /\ closers > 0
  <2>1. closers - 1 \in Nat
    BY <1>2
  <2>2. /\ current' = Finalizer /\ finalizers' = closers - 1
        /\ queued' = queue /\ active' = holders /\ waiting' = waiters
    BY <1>2 DEF Drain
  <2> QED BY <1>2, <2>1, <2>2, CurrentAssumption
          DEF IInv, CoordinatorTypeOK, SafePoint, NobodyWaitsForNothing
<1>3. CASE queue = <<>> /\ closers = 0
  BY <1>3 DEF Drain, IInv, CoordinatorTypeOK, SafePoint, NobodyWaitsForNothing
<1>4. CASE holders # {} /\ (queue # <<>> \/ closers > 0)
  BY <1>4 DEF Drain, IInv, CoordinatorTypeOK, SafePoint, NobodyWaitsForNothing
<1> QED BY <1>1, <1>2, <1>3, <1>4

LEMMA RequestDrainStep ==
    ASSUME NEW holders, holders \subseteq Worker,
           NEW waiters, waiters \subseteq Worker \ holders,
           NEW queue \in Seq(Path), IsInjective(queue),
           NEW closers \in Nat,
           current \in Path \cup {Finalizer, None},
           current # None => holders = {},
           RequestDrain(holders, waiters, queue, closers)
    PROVE  IInv'
<1>1. CASE current # None \/ holders # {}
  BY <1>1 DEF RequestDrain, IInv, CoordinatorTypeOK, SafePoint,
              NobodyWaitsForNothing
<1>2. CASE ~(current # None \/ holders # {})
  BY <1>2, DrainStep DEF RequestDrain
<1> QED BY <1>1, <1>2

LEMMA InvariantStep == IInv /\ [CoordinatorNext]_coordinator => IInv'
<1> SUFFICES ASSUME IInv, [CoordinatorNext]_coordinator PROVE IInv'
  OBVIOUS
<1> USE DEF IInv
<1>1. ASSUME NEW w \in Worker, AcquireNormalPermit(w)
      PROVE  IInv'
  BY <1>1 DEF AcquireNormalPermit, CanAdmitNormal, CoordinatorTypeOK,
              SafePoint, NobodyWaitsForNothing
<1>2. ASSUME NEW w \in Worker, Release(w)
      PROVE  IInv'
  <2>1. /\ active \ {w} \subseteq Worker
        /\ waiting \subseteq Worker \ (active \ {w})
        /\ current # None => active \ {w} = {}
    BY DEF CoordinatorTypeOK, SafePoint
  <2>2. RequestDrain(active \ {w}, waiting, queued, finalizers)
    BY <1>2 DEF Release
  <2> QED BY <2>1, <2>2, RequestDrainStep DEF CoordinatorTypeOK
<1>3. ASSUME NEW p \in Path, Enqueue(p)
      PROVE  IInv'
  <2>1. CASE p \in Range(queued)
    BY <1>3, <2>1 DEF Enqueue, coordinator, CoordinatorTypeOK, SafePoint,
                      NobodyWaitsForNothing
  <2>2. CASE p \notin Range(queued)
    <3>1. /\ Append(queued, p) \in Seq(Path)
          /\ IsInjective(Append(queued, p))
      BY <2>2, AppendKeepsDistinct DEF CoordinatorTypeOK
    <3>2. RequestDrain(active, waiting, Append(queued, p), finalizers)
      BY <1>3, <2>2 DEF Enqueue
    <3> QED BY <3>1, <3>2, RequestDrainStep DEF CoordinatorTypeOK, SafePoint
  <2> QED BY <2>1, <2>2
<1>4. CASE Finalize
  <2>1. finalizers + 1 \in Nat
    BY DEF CoordinatorTypeOK
  <2> QED BY <1>4, <2>1, RequestDrainStep DEF Finalize, CoordinatorTypeOK, SafePoint
<1>5. CASE Settle
  BY <1>5, DrainStep DEF Settle, CoordinatorTypeOK, SafePoint
<1>6. CASE UNCHANGED coordinator
  BY <1>6 DEF coordinator, CoordinatorTypeOK, SafePoint, NobodyWaitsForNothing
<1> QED BY <1>1, <1>2, <1>3, <1>4, <1>5, <1>6 DEF CoordinatorNext

LEMMA InvariantInit == CoordinatorInit => IInv
<1>1. IsInjective(<< >>) /\ << >> \in Seq(Path)
  BY DEF IsInjective
<1> QED BY <1>1 DEF CoordinatorInit, IInv, CoordinatorTypeOK, SafePoint,
                    NobodyWaitsForNothing

-----------------------------------------------------------------------------
(* The theorems.                                                            *)

(* Every reachable state of the coordinator is well formed, and no path is  *)
(* queued twice.                                                            *)
THEOREM CoordinatorTypeCorrect == CoordinatorSpec => []CoordinatorTypeOK
<1>1. IInv => CoordinatorTypeOK
  BY DEF IInv
<1> QED BY <1>1, InvariantInit, InvariantStep, PTL DEF CoordinatorSpec

(* Whoever asks for permits, pulls and finalizers, in any order and number: *)
(* a pull or a finalizer never runs beside a normal action.                 *)
THEOREM SafePointHolds == CoordinatorSpec => []SafePoint
<1>1. IInv => SafePoint
  BY DEF IInv
<1> QED BY <1>1, InvariantInit, InvariantStep, PTL DEF CoordinatorSpec

(* No interleaving leaves a request waiting behind nobody.                  *)
THEOREM NoLostWakeup == CoordinatorSpec => []NobodyWaitsForNothing
<1>1. IInv => NobodyWaitsForNothing
  BY DEF IInv
<1> QED BY <1>1, InvariantInit, InvariantStep, PTL DEF CoordinatorSpec

(* A step that grants a permit leaves no pull or finalizer unserved.        *)
THEOREM PriorityOrder == CoordinatorSpec => PriorityFirst
<1> DEFINE Granted == ~(active' \subseteq active) =>
                        queued' = <<>> /\ finalizers' = 0 /\ current' = None
<1>1. ASSUME NEW holders \in SUBSET active, NEW waiters, NEW queue, NEW closers,
             Drain(holders, waiters, queue, closers)
      PROVE  Granted
  BY <1>1 DEF Drain
<1>2. ASSUME NEW holders \in SUBSET active, NEW waiters, NEW queue, NEW closers,
             RequestDrain(holders, waiters, queue, closers)
      PROVE  Granted
  BY <1>1, <1>2 DEF RequestDrain
<1>3. CoordinatorNext => Granted
  <2>1. ASSUME NEW w \in Worker, AcquireNormalPermit(w)
        PROVE  Granted
    BY <2>1 DEF AcquireNormalPermit, CanAdmitNormal
  <2>2. ASSUME NEW w \in Worker, Release(w)
        PROVE  Granted
    <3>1. active \ {w} \in SUBSET active
      OBVIOUS
    <3> QED BY <2>2, <3>1, <1>2 DEF Release
  <2>3. ASSUME NEW p \in Path, Enqueue(p)
        PROVE  Granted
    BY <2>3, <1>2 DEF Enqueue, coordinator
  <2>4. Finalize => Granted
    BY <1>2 DEF Finalize
  <2>5. Settle => Granted
    BY <1>1 DEF Settle
  <2> QED BY <2>1, <2>2, <2>3, <2>4, <2>5 DEF CoordinatorNext
<1>4. [CoordinatorNext]_coordinator => [Granted]_coordinator
  BY <1>3
<1> QED BY <1>4, PTL DEF CoordinatorSpec, PriorityFirst

-----------------------------------------------------------------------------
(* The cycle and the pulls as clients of the coordinator.                   *)

LEMMA HoldersAreWorkers ==
    /\ Preparation \in Worker /\ Serial \in Worker
    /\ \A p \in Path : p \in Worker
  BY WorkerAssumption

(* A pull's last step, whatever it leaves behind, is one end of a run.      *)
LEMMA SettledSettles == Settled => CoordinatorNext
  BY DEF Settled, CoordinatorNext

LEMMA InvalidateSettles == Invalidate => CoordinatorNext
  BY SettledSettles DEF Invalidate

LEMMA DeferSettles == Defer => CoordinatorNext
  BY SettledSettles DEF Defer

LEMMA PullStepDrains ==
    ASSUME PullStep \/ PullThrows
    PROVE  CoordinatorNext \/ UNCHANGED coordinator
  <1>1. CASE GetRecord
    BY <1>1, SettledSettles, DeferSettles DEF GetRecord
  <1>2. CASE Observe
    BY <1>2, SettledSettles, InvalidateSettles DEF Observe
  <1>3. CASE Read
    BY <1>3, InvalidateSettles DEF Read, Continue
  <1>4. CASE Recheck
    BY <1>4, InvalidateSettles DEF Recheck, Continue
  <1>5. CASE Write
    BY <1>5 DEF Write, Continue
  <1>6. CASE CommitRecord
    BY <1>6, SettledSettles DEF CommitRecord
  <1>7. CASE Confirm
    BY <1>7 DEF Confirm
  <1>8. CASE AcknowledgePath
    BY <1>8, SettledSettles DEF AcknowledgePath
  <1>9. CASE PullThrows
    BY <1>9, SettledSettles DEF PullThrows
  <1> QED
    BY <1>1, <1>2, <1>3, <1>4, <1>5, <1>6, <1>7, <1>8, <1>9 DEF PullStep

LEMMA ActionStepHoldsPermit ==
    ASSUME NEW p \in Path, ActionStep(p) \/ Fails(p)
    PROVE  CoordinatorNext \/ UNCHANGED coordinator
  <1>1. p \in Worker
    BY HoldersAreWorkers
  <1>2. CASE StartAction(p)
    BY <1>1, <1>2 DEF StartAction, CoordinatorNext
  <1>3. CASE BeginAction(p)
    BY <1>1, <1>3 DEF BeginAction, End, CoordinatorNext
  <1>4. CASE Effect(p)
    BY <1>1, <1>4 DEF Effect, End, CoordinatorNext
  <1>5. CASE Publish(p)
    BY <1>1, <1>5 DEF Publish, End, CoordinatorNext
  <1>6. CASE Resolve(p)
    BY <1>6 DEF Resolve
  <1>7. CASE Fails(p)
    BY <1>1, <1>7 DEF Fails, End, CoordinatorNext
  <1> QED
    BY <1>2, <1>3, <1>4, <1>5, <1>6, <1>7 DEF ActionStep

LEMMA CycleStepHoldsPermit ==
    ASSUME CycleStep \/ CollectFails
    PROVE  CoordinatorNext \/ UNCHANGED coordinator
  <1>1. CASE LoopHead
    BY <1>1 DEF LoopHead
  <1>2. CASE Prepare
    BY <1>2, HoldersAreWorkers DEF Prepare, CoordinatorNext
  <1>3. CASE Collect
    BY <1>3, HoldersAreWorkers DEF Collect, CoordinatorNext
  <1>4. CASE LeaveTransfer
    BY <1>4, HoldersAreWorkers DEF LeaveTransfer, CoordinatorNext
  <1>5. CASE LeaveSerial
    BY <1>5, HoldersAreWorkers DEF LeaveSerial, CoordinatorNext
  <1>6. CASE Close
    BY <1>6 DEF Close, CoordinatorNext
  <1>7. CASE CloseOut
    BY <1>7, SettledSettles DEF CloseOut
  <1>8. CASE Acknowledge
    BY <1>8 DEF Acknowledge
  <1>9. CASE CollectFails
    BY <1>9, HoldersAreWorkers DEF CollectFails, CoordinatorNext
  <1> QED
    BY <1>1, <1>2, <1>3, <1>4, <1>5, <1>6, <1>7, <1>8, <1>9 DEF CycleStep

LEMMA StepIsCoordinatorStep == [Next]_vars => [CoordinatorNext]_coordinator
  <1> SUFFICES ASSUME [Next]_vars
               PROVE  CoordinatorNext \/ UNCHANGED coordinator
    OBVIOUS
  <1>1. CASE UNCHANGED vars
    BY <1>1 DEF vars
  <1>2. ASSUME NEW p \in Path, LocalEdit(p) \/ RemoteEdit(p) \/ Deliver(p)
        PROVE  UNCHANGED coordinator
    BY <1>2 DEF LocalEdit, RemoteEdit, Deliver
  <1>3. ASSUME NEW p \in Path, PullSingle(p)
        PROVE  CoordinatorNext
    BY <1>3 DEF PullSingle, CoordinatorNext
  <1>4. CASE RunSync \/ TriggerSync
    BY <1>4 DEF RunSync, TriggerSync
  <1> QED
    BY <1>1, <1>2, <1>3, <1>4, PullStepDrains, ActionStepHoldsPermit,
       CycleStepHoldsPermit DEF Next

(* Every step of the cycle, of the pulls and of the users is one operation  *)
(* of the coordinator or leaves it alone: permits are returned by whoever   *)
(* holds one, pulls and closeouts run only from the drain                   *)
(* (orchestrator.ts, plan-executor.ts as clients of                         *)
(* priority-coordinator.ts).                                                *)
THEOREM ImplementsCoordinator == Spec => CoordinatorSpec
  <1>1. Init => CoordinatorInit
    BY DEF Init
  <1>2. [Next]_vars => [CoordinatorNext]_coordinator
    BY StepIsCoordinatorStep
  <1> QED
    BY <1>1, <1>2, PTL DEF Spec, CoordinatorSpec

(* While a pull or the close of a cycle runs, no action of the cycle is     *)
(* between its effect and its publication, and the cycle is not collecting. *)
THEOREM PullsRunAtSafePoints == Spec => []SafePoint
  BY ImplementsCoordinator, SafePointHolds, PTL

(* No opened file, action or closeout waits with nobody left to wake it.    *)
THEOREM NoLostWakeupInCycle == Spec => []NobodyWaitsForNothing
  BY ImplementsCoordinator, NoLostWakeup, PTL

(* An opened file overtakes every action of the cycle that has not begun.   *)
THEOREM OpenedFilesOvertake == Spec => PriorityFirst
  BY ImplementsCoordinator, PriorityOrder, PTL

-----------------------------------------------------------------------------
(* Ownership.                                                               *)

Committed == {"confirm", "acknowledge"}
Open == {"transfer", "serial", "settled", "closing"}

BatchOpen == batch = "transfer" => ctl \in {"transfer", "settled", "closing"}

PullOwns ==
    op # None =>
        /\ op.path = current
        /\ Superseding /\ op.step \notin Committed =>
              /\ plan[op.path] # None /\ plan[op.path].step = "pending"
              /\ ctl \in Open

StateOK == FilesOK /\ RunOK /\ PlanOK /\ CountOK /\ BatchOpen
PullInv == IInv /\ StateOK /\ OpOK /\ PullOwns

-----------------------------------------------------------------------------
(* Values.                                                                  *)

LEMMA VersionFacts ==
    /\ 0 \in Version /\ 1 \in Version
    /\ \A n \in 0 .. MaxEdits :
          n < MaxEdits => n + 2 \in Version /\ n + 1 \in 0 .. MaxEdits
  BY BoundAssumption DEF Version

LEMMA FaultCounted ==
    ASSUME CountOK, UNCHANGED budget \/ Edit \/ Fault
    PROVE  CountOK'
  BY BoundAssumption DEF CountOK, Edit, Fault, WithinBudget, budget

LEMMA StepTyped ==
    ASSUME NEW a \in Action, NEW s \in Progress
    PROVE  [a EXCEPT !.step = s] \in Action
  BY DEF Action

LEMMA PlanTyped ==
    ASSUME PlanOK, NEW p \in Path, plan[p] # None,
           NEW s \in Progress, plan' = [plan EXCEPT ![p].step = s]
    PROVE  PlanOK'
  <1>1. plan[p] \in Action
    BY DEF PlanOK
  <1>2. [plan[p] EXCEPT !.step = s] \in Action
    BY <1>1, StepTyped
  <1> QED
    BY <1>2 DEF PlanOK

LEMMA OpFacts ==
    ASSUME PullInv, op # None
    PROVE  /\ op \in Pull /\ op.path = current /\ current \in Path
           /\ op.record \in Version /\ op.observed \in Version
  BY DEF PullInv, OpOK, PullOwns, Pull

-----------------------------------------------------------------------------
(* Types of the files, the run, the plan and the counters: the pull.        *)

LEMMA RequestStep ==
    ASSUME RunOK, BatchOpen, RequestNormalLifecycle
    PROVE  /\ syncPending' \in BOOLEAN
           /\ ctl' \in {"idle", "again", "snapped", "preparing", "transfer",
                        "serial", "settled", "closing", "closed"}
           /\ ctl \in Open => ctl' = ctl
  BY DEF RunOK, BatchOpen, Open, RequestNormalLifecycle, Unlocked

LEMMA TakeStep ==
    ASSUME PullInv, op # None, op.step \notin Committed,
           NEW s \in Progress, Take(op.path, s)
    PROVE  PlanOK'
  <1>1. PlanOK /\ op.path \in Path
    BY OpFacts DEF PullInv, StateOK
  <1>2. CASE Superseding /\ plan[op.path].step = "pending"
    <2>1. plan[op.path] # None
      BY <1>2 DEF PullInv, PullOwns
    <2>2. plan' = [plan EXCEPT ![op.path].step = s]
      BY <1>2 DEF Take
    <2> QED
      BY <1>1, <2>1, <2>2, PlanTyped
  <1>3. CASE ~(Superseding /\ plan[op.path].step = "pending")
    BY <1>1, <1>3 DEF Take, PlanOK
  <1> QED
    BY <1>2, <1>3

LEMMA InvalidatedStep ==
    ASSUME PullInv, op # None, op.step \notin Committed, Invalidated,
           UNCHANGED debounced
    PROVE  RunOK' /\ PlanOK' /\ BatchOpen'
  <1>1. PlanOK'
    <2>1. "invalidated" \in Progress
      BY DEF Progress
    <2> QED
      BY <2>1, TakeStep DEF Invalidated
  <1>2. blocked' \in BOOLEAN
    BY Zenon DEF Invalidated
  <1>3. RunOK' /\ BatchOpen'
    BY <1>2, RequestStep DEF PullInv, Invalidated, StateOK, RunOK, BatchOpen, Open
  <1> QED
    BY <1>1, <1>3

LEMMA InvalidateStep ==
    ASSUME PullInv, op # None, op.step \notin Committed, Invalidate
    PROVE  StateOK'
  <1>1. RunOK' /\ PlanOK' /\ BatchOpen'
    BY InvalidatedStep DEF Invalidate, tracker
  <1>2. CountOK'
    BY FaultCounted DEF PullInv, StateOK, Invalidate
  <1>3. FilesOK'
    BY DEF PullInv, StateOK, Invalidate, Invalidated, FilesOK, sides, far, tracker
  <1> QED
    BY <1>1, <1>2, <1>3 DEF StateOK

LEMMA DeferStep ==
    ASSUME PullInv, Defer
    PROVE  StateOK'
  <1>1. RunOK' /\ BatchOpen'
    BY RequestStep DEF PullInv, Defer, StateOK, RunOK, BatchOpen, Open, tracker, cycle
  <1> QED
    BY <1>1 DEF PullInv, Defer, StateOK, FilesOK, PlanOK, CountOK,
       sides, far, tracker, cycle, budget

LEMMA QuietStep ==
    ASSUME PullInv, UNCHANGED <<sides, far, tracker, run, cycle, budget>>
    PROVE  StateOK'
  BY DEF PullInv, StateOK, FilesOK, RunOK, PlanOK, CountOK, BatchOpen,
     sides, far, tracker, run, cycle, budget

LEMMA GetRecordTyped ==
    ASSUME PullInv, GetRecord
    PROVE  StateOK'
  <1>1. ASSUME debounced' = TRUE,
               UNCHANGED <<sides, far, dirty, remarked, run, cycle, budget>>
        PROVE  StateOK'
    BY <1>1 DEF PullInv, StateOK, FilesOK, RunOK, PlanOK, CountOK, BatchOpen,
       sides, far, run, cycle, budget
  <1> QED
    BY <1>1, DeferStep, QuietStep DEF GetRecord

LEMMA ObserveTyped ==
    ASSUME PullInv, Observe
    PROVE  StateOK'
  <1>1. op # None /\ op.step \notin Committed
    BY DEF Observe, Pulling, Committed
  <1>2. ASSUME Take(op.path, "superseded"),
               UNCHANGED <<sides, far, tracker, run, view, batch, blocked,
                           completion, budget>>
        PROVE  StateOK'
    <2>1. PlanOK'
      BY <1>1, <1>2, TakeStep DEF Progress
    <2> QED
      BY <1>2, <2>1 DEF PullInv, StateOK, FilesOK, RunOK, CountOK, BatchOpen,
         sides, far, tracker, run, budget
  <1> QED
    BY <1>1, <1>2, InvalidateStep, QuietStep DEF Observe

LEMMA ReadTyped ==
    ASSUME PullInv, Read
    PROVE  StateOK'
  <1>1. op # None /\ op.step \notin Committed
    BY DEF Read, Pulling, Committed
  <1> QED
    BY <1>1, InvalidateStep, QuietStep DEF Read

LEMMA RecheckTyped ==
    ASSUME PullInv, Recheck
    PROVE  StateOK'
  <1>1. op # None /\ op.step \notin Committed
    BY DEF Recheck, Pulling, Committed
  <1> QED
    BY <1>1, InvalidateStep, QuietStep DEF Recheck

LEMMA WriteTyped ==
    ASSUME PullInv, Write
    PROVE  StateOK'
  <1>1. op.path \in Path /\ op.observed \in Version
    BY OpFacts DEF Write, Pulling
  <1> QED
    BY <1>1 DEF PullInv, Write, StateOK, FilesOK, RunOK, PlanOK, CountOK,
       BatchOpen, far, tracker, run, cycle, budget

(* The lost comparison with the batch action cannot happen: the pull owns   *)
(* it.                                                                      *)
LEMMA ActionStillPending ==
    ASSUME PullInv, Pulling("commit"), Superseding
    PROVE  plan[op.path].step = "pending"
  BY DEF PullInv, PullOwns, Pulling, Committed

LEMMA CommitRecordTyped ==
    ASSUME PullInv, CommitRecord
    PROVE  StateOK'
  <1>1. Pulling("commit") /\ op # None /\ op.step \notin Committed
        /\ op.path \in Path /\ op.observed \in Version
    BY OpFacts DEF CommitRecord, Pulling, Committed
  <1>2. ASSUME record' = [record EXCEPT ![op.path] = op.observed],
               Take(op.path, "superseded"),
               UNCHANGED <<sides, remote, seen, tracker, run, view, batch, blocked,
                           completion, budget>>
        PROVE  StateOK'
    <2>1. PlanOK'
      BY <1>1, <1>2, TakeStep DEF Progress
    <2> QED
      BY <1>1, <1>2, <2>1 DEF PullInv, StateOK, FilesOK, RunOK, CountOK,
         BatchOpen, sides, tracker, run, budget
  <1>3. ASSUME UNCHANGED budget \/ Fault, Marked(op.path),
               UNCHANGED <<debounced, sides, far>>, Invalidated
        PROVE  StateOK'
    <2>1. RunOK' /\ PlanOK' /\ BatchOpen'
      BY <1>1, <1>3, InvalidatedStep
    <2>2. CountOK'
      BY <1>3, FaultCounted DEF PullInv, StateOK
    <2>3. dirty \cup {op.path} \subseteq Path /\ remarked \cup {op.path} \subseteq Path
      BY <1>1 DEF PullInv, StateOK, FilesOK
    <2>4. FilesOK'
      BY <1>3, <2>3 DEF PullInv, Invalidated, StateOK, FilesOK, Marked, sides, far
    <2> QED
      BY <2>1, <2>2, <2>4 DEF StateOK
  <1> QED
    BY <1>1, <1>2, <1>3, ActionStillPending DEF CommitRecord

LEMMA AcknowledgePathTyped ==
    ASSUME PullInv, AcknowledgePath
    PROVE  StateOK'
  BY DEF PullInv, AcknowledgePath, StateOK, FilesOK, RunOK, PlanOK, CountOK,
     BatchOpen, sides, far, run, cycle, budget

LEMMA PullThrowsTyped ==
    ASSUME PullInv, PullThrows
    PROVE  StateOK'
  <1>1. CountOK'
    BY FaultCounted DEF PullThrows, PullInv, StateOK
  <1>2. RunOK' /\ BatchOpen'
    BY RequestStep DEF PullInv, PullThrows, StateOK, RunOK, BatchOpen, Open,
       tracker, run, cycle
  <1> QED
    BY <1>1, <1>2 DEF PullInv, PullThrows, StateOK, FilesOK, PlanOK,
       sides, far, tracker, cycle

LEMMA PullTyped ==
    ASSUME PullInv, PullStep \/ PullThrows
    PROVE  StateOK'
  <1>1. CASE Confirm
    BY <1>1, QuietStep DEF Confirm
  <1> QED
    BY <1>1, GetRecordTyped, ObserveTyped, ReadTyped, RecheckTyped, WriteTyped,
       CommitRecordTyped, AcknowledgePathTyped, PullThrowsTyped DEF PullStep

-----------------------------------------------------------------------------
(* The users and the cycle.                                                 *)

LEMMA UserTyped ==
    ASSUME PullInv, NEW p \in Path,
           LocalEdit(p) \/ RemoteEdit(p) \/ Deliver(p) \/ PullSingle(p)
    PROVE  StateOK'
  <1> USE VersionFacts DEF PullInv, StateOK, FilesOK, RunOK, PlanOK, CountOK,
          BatchOpen, sides, far, tracker, run, cycle, budget
  <1>1. CASE LocalEdit(p)
    BY <1>1 DEF LocalEdit, Edit
  <1>2. CASE RemoteEdit(p)
    BY <1>2 DEF RemoteEdit, Edit
  <1>3. CASE Deliver(p)
    BY <1>3 DEF Deliver, Marked
  <1>4. CASE PullSingle(p)
    BY <1>4, BoundAssumption DEF PullSingle
  <1> QED
    BY <1>1, <1>2, <1>3, <1>4

LEMMA TriggerTyped ==
    ASSUME PullInv, RunSync \/ TriggerSync
    PROVE  StateOK'
  <1> USE DEF PullInv, StateOK, FilesOK, RunOK, PlanOK, CountOK, BatchOpen, sides,
          far, tracker, cycle, budget
  <1>1. CASE RunSync
    BY <1>1 DEF RunSync, Unlocked
  <1>2. CASE TriggerSync
    BY <1>2 DEF TriggerSync, Unlocked
  <1> QED
    BY <1>1, <1>2

(* An action holds its permit: the plan is there and a step is taken in it. *)
LEMMA ActionTyped ==
    ASSUME PullInv, NEW p \in Path, ActionStep(p) \/ Fails(p)
    PROVE  StateOK'
  <1> USE DEF PullInv, StateOK, FilesOK, RunOK, CountOK, BatchOpen, sides, far,
          tracker, run, cycle, budget
  <1>1. CASE StartAction(p)
    BY <1>1 DEF StartAction, PlanOK
  <1>2. CASE BeginAction(p)
    <2>1. PlanOK'
      BY <1>2, PlanTyped DEF BeginAction, Working, End, Progress
    <2> QED
      BY <1>2, <2>1 DEF BeginAction
  <1>3. CASE Effect(p)
    <2>1. PlanOK'
      BY <1>3, PlanTyped DEF Effect, Working, End, Progress
    <2> QED
      BY <1>3, <2>1 DEF Effect
  <1>4. CASE Publish(p)
    <2>1. PlanOK'
      BY <1>4, PlanTyped DEF Publish, Working, End, Progress
    <2>2. plan[p].local \in Version /\ plan[p].remote \in Version
      BY <1>4 DEF Publish, Working, PlanOK, Action
    <2> QED
      BY <1>4, <2>1, <2>2 DEF Publish
  <1>5. CASE Fails(p)
    <2>1. PlanOK'
      BY <1>5, PlanTyped DEF Fails, Working, End, Progress
    <2>2. CountOK'
      BY <1>5, FaultCounted DEF Fails
    <2> QED
      BY <1>5, <2>1, <2>2 DEF Fails
  <1>6. CASE Resolve(p)
    <2>1. plan[p] # None /\ Newer(p) \in Version
      BY <1>6 DEF Resolve, Conflicts, Newer
    <2>2. PlanOK'
      BY <1>6, <2>1, PlanTyped DEF Resolve, Progress
    <2> QED
      BY <1>6, <2>1, <2>2 DEF Resolve
  <1> QED
    BY <1>1, <1>2, <1>3, <1>4, <1>5, <1>6 DEF ActionStep

LEMMA CycleTyped ==
    ASSUME PullInv, CycleStep \/ CollectFails
    PROVE  StateOK'
  <1> USE DEF PullInv, StateOK, FilesOK, RunOK, PlanOK, CountOK, BatchOpen, sides,
          far, tracker, run, cycle, budget
  <1>1. CASE LoopHead
    BY <1>1 DEF LoopHead
  <1>2. CASE Prepare
    BY <1>2 DEF Prepare
  <1>3. CASE Collect
    <2>1. \A p \in Path : Admitted(p) \in Action \cup {None}
      BY DEF Admitted, Decided, Action, Progress
    <2> QED
      BY <1>3, <2>1 DEF Collect
  <1>4. CASE LeaveTransfer
    BY <1>4 DEF LeaveTransfer
  <1>5. CASE LeaveSerial
    BY <1>5 DEF LeaveSerial
  <1>6. CASE Close
    BY <1>6 DEF Close
  <1>7. CASE CloseOut
    <2>1. CountOK'
      BY <1>7, FaultCounted DEF CloseOut
    <2> QED
      BY <1>7, <2>1 DEF CloseOut, CompletionOf
  <1>8. CASE Acknowledge
    BY <1>8, VersionFacts DEF Acknowledge
  <1>9. CASE CollectFails
    <2>1. CountOK'
      BY <1>9, FaultCounted DEF CollectFails
    <2> QED
      BY <1>9, <2>1 DEF CollectFails
  <1> QED
    BY <1>1, <1>2, <1>3, <1>4, <1>5, <1>6, <1>7, <1>8, <1>9 DEF CycleStep

-----------------------------------------------------------------------------
(* The pull and the action it replaces.                                     *)

LEMMA OpeningOwns ==
    ASSUME NEW p \in Path, op' = Opening(p), current' = p, BatchOpen'
    PROVE  OpOK' /\ PullOwns'
  <1>1. PriorityTarget(p, ctl', batch', plan') \in Target
    BY DEF PriorityTarget, Target
  <1>2. Opening(p) \in Pull /\ Opening(p).path = p
        /\ Opening(p).target = PriorityTarget(p, ctl', batch', plan')
    BY <1>1, VersionFacts DEF Opening, Pull, PullStage
  <1>3. PriorityTarget(p, ctl', batch', plan') = "superseding" =>
          batch' = "transfer" /\ plan'[p] # None /\ plan'[p].step = "pending"
    BY DEF PriorityTarget
  <1> QED
    BY <1>2, <1>3, NoneAssumption
       DEF OpOK, PullOwns, Superseding, BatchOpen, Open

LEMMA SettledOwns ==
    ASSUME Settled, BatchOpen'
    PROVE  OpOK' /\ PullOwns'
  <1>1. CASE current' \in Path
    BY <1>1, OpeningOwns DEF Settled
  <1>2. CASE current' \notin Path
    BY <1>2 DEF Settled, OpOK, PullOwns
  <1> QED
    BY <1>1, <1>2

(* A step beside a pull leaves the plan of an open cycle alone.             *)
LEMMA BesideOwns ==
    ASSUME PullInv, UNCHANGED <<op, current>>,
           op # None /\ ctl \in Open => plan' = plan /\ ctl' \in Open
    PROVE  OpOK' /\ PullOwns'
  BY DEF PullInv, OpOK, PullOwns, Superseding

LEMMA DispatchOwns ==
    ASSUME PullInv, Dispatch, BatchOpen', current # None => current' = current,
           op # None /\ ctl \in Open => plan' = plan /\ ctl' \in Open
    PROVE  OpOK' /\ PullOwns'
  <1>1. CASE current = None /\ current' \in Path
    BY <1>1, OpeningOwns DEF Dispatch
  <1>2. CASE current = None /\ current' \notin Path
    <2>1. op = None /\ op' = None
      BY <1>2, CurrentAssumption DEF Dispatch, PullInv, OpOK
    <2> QED
      BY <1>2, <2>1 DEF OpOK, PullOwns
  <1>3. CASE current # None
    BY <1>3, BesideOwns DEF Dispatch
  <1> QED
    BY <1>1, <1>2, <1>3

(* A step of the pull itself, up to its commit under the action it owns.    *)
LEMMA AdvanceOwns ==
    ASSUME PullInv, op # None, op' \in Pull, op'.path = op.path,
           op'.target = op.target, UNCHANGED current,
           \/ op'.step \in Committed
           \/ op.step \notin Committed /\ UNCHANGED <<plan, ctl>>
    PROVE  OpOK' /\ PullOwns'
  BY NoneAssumption DEF PullInv, OpOK, PullOwns, Superseding

(* No permit is out while a pull runs.                                      *)
LEMMA AloneAtSafePoint ==
    ASSUME PullInv, NEW w \in active
    PROVE  op = None /\ current = None
  BY CurrentAssumption DEF PullInv, IInv, SafePoint, OpOK

LEMMA UserOwns ==
    ASSUME PullInv, StateOK', NEW p \in Path,
           LocalEdit(p) \/ RemoteEdit(p) \/ Deliver(p) \/ PullSingle(p)
    PROVE  OpOK' /\ PullOwns'
  <1>1. CASE LocalEdit(p) \/ RemoteEdit(p)
    BY <1>1, BesideOwns DEF LocalEdit, RemoteEdit, run, cycle, coordinator
  <1>2. CASE Deliver(p)
    <2>1. CASE op # None /\ op.path = p
      <3>1. op' = [op EXCEPT !.marked = TRUE] /\ UNCHANGED <<current, plan, ctl>>
        BY <1>2, <2>1 DEF Deliver, run, cycle, coordinator
      <3>2. op' \in Pull /\ op'.path = op.path /\ op'.target = op.target
            /\ op'.step = op.step
        BY <2>1, <3>1, OpFacts DEF Pull
      <3> QED
        BY <2>1, <3>1, <3>2, AdvanceOwns
    <2>2. CASE ~(op # None /\ op.path = p)
      BY <1>2, <2>2, BesideOwns DEF Deliver, run, cycle, coordinator
    <2> QED
      BY <2>1, <2>2
  <1>3. CASE PullSingle(p)
    <2>1. current # None => current' = current
      BY <1>3 DEF PullSingle, Enqueue, RequestDrain, coordinator
    <2> QED
      BY <1>3, <2>1, DispatchOwns DEF PullSingle, StateOK, run, cycle
  <1> QED
    BY <1>1, <1>2, <1>3

LEMMA ActionOwns ==
    ASSUME PullInv, StateOK', NEW p \in Path, ActionStep(p) \/ Fails(p)
    PROVE  OpOK' /\ PullOwns'
  <1>1. CASE StartAction(p)
    BY <1>1, BesideOwns DEF StartAction, AcquireNormalPermit, run, cycle
  <1>2. CASE Resolve(p)
    BY <1>2, BesideOwns, AloneAtSafePoint DEF Resolve, coordinator
  <1>3. CASE BeginAction(p) \/ Effect(p) \/ Publish(p) \/ Fails(p)
    <2>1. p \in active /\ Dispatch
      BY <1>3 DEF BeginAction, Effect, Publish, Fails, Working
    <2> QED
      BY <2>1, AloneAtSafePoint, DispatchOwns DEF StateOK
  <1> QED
    BY <1>1, <1>2, <1>3 DEF ActionStep

LEMMA CycleOwns ==
    ASSUME PullInv, StateOK', CycleStep \/ CollectFails
    PROVE  OpOK' /\ PullOwns'
  <1>1. CASE LoopHead \/ Prepare \/ LeaveTransfer \/ Acknowledge
    BY <1>1, BesideOwns DEF LoopHead, Prepare, LeaveTransfer, Acknowledge, Open,
       AcquireNormalPermit, cycle, coordinator
  <1>2. CASE Collect \/ CollectFails \/ LeaveSerial
    <2>1. Dispatch /\ (Preparation \in active \/ Serial \in active)
      BY <1>2 DEF Collect, CollectFails, LeaveSerial
    <2> QED
      BY <2>1, AloneAtSafePoint, DispatchOwns DEF StateOK
  <1>3. CASE Close
    <2>1. current # None => current' = current
      BY <1>3 DEF Close, Finalize, RequestDrain
    <2> QED
      BY <1>3, <2>1, DispatchOwns DEF Close, StateOK, Open, cycle
  <1>4. CASE CloseOut
    BY <1>4, SettledOwns DEF CloseOut, StateOK
  <1> QED
    BY <1>1, <1>2, <1>3, <1>4 DEF CycleStep

LEMMA PullOwnsOn ==
    ASSUME PullInv, StateOK', PullStep \/ PullThrows
    PROVE  OpOK' /\ PullOwns'
  <1>1. CASE Settled
    BY <1>1, SettledOwns DEF StateOK
  <1>2. ASSUME NEW s \in PullStage, op # None, Continue(s), op.step \notin Committed,
               UNCHANGED <<plan, ctl>>
        PROVE  OpOK' /\ PullOwns'
    <2>1. op' \in Pull /\ op'.path = op.path /\ op'.target = op.target
      BY <1>2, OpFacts DEF Continue, Pull
    <2> QED
      BY <1>2, <2>1, AdvanceOwns DEF Continue, coordinator
  <1>3. CASE GetRecord /\ ~Settled
    <2>1. /\ op # None /\ op.step \notin Committed /\ op.path \in Path
          /\ record[op.path] \in Version
      BY <1>3, OpFacts DEF GetRecord, Pulling, Committed, PullInv, StateOK, FilesOK
    <2>2. op' = [op EXCEPT !.step = "observe", !.record = record[op.path],
                           !.marked = FALSE]
          /\ UNCHANGED <<current, plan, ctl>>
      BY <1>3 DEF GetRecord, Defer, coordinator, cycle, run
    <2>3. op' \in Pull /\ op'.path = op.path /\ op'.target = op.target
      BY <2>1, <2>2, OpFacts DEF Pull, PullStage
    <2> QED
      BY <2>1, <2>2, <2>3, AdvanceOwns
  <1>4. CASE Observe /\ ~Settled
    <2>1. /\ op # None /\ op.step \notin Committed /\ op.path \in Path
          /\ remote[op.path] \in Version
      BY <1>4, OpFacts DEF Observe, Pulling, Committed, PullInv, StateOK, FilesOK
    <2>2. op' = [op EXCEPT !.step = "read", !.observed = remote[op.path]]
          /\ UNCHANGED <<current, plan, ctl>>
      BY <1>4 DEF Observe, Invalidate, coordinator, cycle, run
    <2>3. op' \in Pull /\ op'.path = op.path /\ op'.target = op.target
      BY <2>1, <2>2, OpFacts DEF Pull, PullStage
    <2> QED
      BY <2>1, <2>2, <2>3, AdvanceOwns
  <1>5. CASE Read /\ ~Settled
    BY <1>2, <1>5 DEF Read, Pulling, Invalidate, Committed, PullStage, run, cycle
  <1>6. CASE Recheck /\ ~Settled
    BY <1>2, <1>6 DEF Recheck, Pulling, Invalidate, Committed, PullStage, run, cycle
  <1>7. CASE Write /\ ~Settled
    BY <1>2, <1>7 DEF Write, Pulling, Committed, PullStage, run, cycle
  <1>8. CASE CommitRecord /\ ~Settled
    <2>1. op # None
      BY <1>8 DEF CommitRecord, Pulling
    <2>2. op' = [op EXCEPT !.step = "confirm", !.marked = FALSE] /\ UNCHANGED current
      BY <1>8 DEF CommitRecord, coordinator
    <2>3. op' \in Pull /\ op'.path = op.path /\ op'.target = op.target
          /\ op'.step \in Committed
      BY <2>1, <2>2, OpFacts DEF Pull, PullStage, Committed
    <2> QED
      BY <2>1, <2>2, <2>3, AdvanceOwns
  <1>9. CASE Confirm
    <2>1. op # None /\ op.path \in Path /\ local[op.path] \in Version
      BY <1>9, OpFacts DEF Confirm, Pulling, PullInv, StateOK, FilesOK
    <2>2. op' = [op EXCEPT !.step = "acknowledge", !.after = local[op.path]]
          /\ UNCHANGED current
      BY <1>9 DEF Confirm, coordinator
    <2>3. op' \in Pull /\ op'.path = op.path /\ op'.target = op.target
          /\ op'.step \in Committed
      BY <2>1, <2>2, OpFacts DEF Pull, PullStage, Committed
    <2> QED
      BY <2>1, <2>2, <2>3, AdvanceOwns
  <1> QED
    BY <1>1, <1>3, <1>4, <1>5, <1>6, <1>7, <1>8, <1>9
       DEF PullStep, AcknowledgePath, PullThrows

-----------------------------------------------------------------------------
(* The invariant.                                                           *)

LEMMA PullInvInit == Init => PullInv
  <1> SUFFICES ASSUME Init
               PROVE  PullInv
    OBVIOUS
  <1>1. IInv
    BY InvariantInit DEF Init
  <1>2. FilesOK
    BY VersionFacts DEF Init, FilesOK
  <1>3. RunOK /\ PlanOK /\ CountOK /\ BatchOpen
    <2>1. debounced \in BOOLEAN
      BY Zenon DEF Init
    <2>2. RunOK
      BY <2>1 DEF Init, RunOK
    <2>3. CountOK
      BY BoundAssumption DEF Init, CountOK
    <2> QED
      BY <2>2, <2>3 DEF Init, PlanOK, BatchOpen
  <1>4. OpOK /\ PullOwns
    BY CurrentAssumption DEF Init, CoordinatorInit, OpOK, PullOwns
  <1> QED
    BY <1>1, <1>2, <1>3, <1>4 DEF PullInv, StateOK

LEMMA PullInvStep == PullInv /\ [Next]_vars => PullInv'
  <1> SUFFICES ASSUME PullInv, [Next]_vars
               PROVE  PullInv'
    OBVIOUS
  <1>1. IInv'
    BY StepIsCoordinatorStep, InvariantStep DEF PullInv
  <1>2. CASE UNCHANGED vars
    <2>1. StateOK'
      BY <1>2, QuietStep DEF vars
    <2>2. OpOK' /\ PullOwns'
      BY <1>2, BesideOwns DEF vars, run, cycle, coordinator
    <2> QED
      BY <1>1, <2>1, <2>2 DEF PullInv
  <1>3. ASSUME NEW p \in Path,
               LocalEdit(p) \/ RemoteEdit(p) \/ Deliver(p) \/ PullSingle(p)
        PROVE  PullInv'
    BY <1>1, <1>3, UserTyped, UserOwns DEF PullInv
  <1>4. ASSUME NEW p \in Path, ActionStep(p) \/ Fails(p)
        PROVE  PullInv'
    BY <1>1, <1>4, ActionTyped, ActionOwns DEF PullInv
  <1>5. CASE CycleStep \/ CollectFails
    BY <1>1, <1>5, CycleTyped, CycleOwns DEF PullInv
  <1>6. CASE PullStep \/ PullThrows
    BY <1>1, <1>6, PullTyped, PullOwnsOn DEF PullInv
  <1>7. CASE RunSync \/ TriggerSync
    <2>1. StateOK'
      BY <1>7, TriggerTyped
    <2>2. OpOK' /\ PullOwns'
      BY <1>7, BesideOwns DEF RunSync, TriggerSync, Unlocked, Open, cycle, coordinator
    <2> QED
      BY <1>1, <2>1, <2>2 DEF PullInv
  <1> QED
    BY <1>2, <1>3, <1>4, <1>5, <1>6, <1>7 DEF Next

LEMMA PullInvHolds == Spec => []PullInv
  BY PullInvInit, PullInvStep, PTL DEF Spec

(* Every variable of the cycle and its pulls keeps its type, the pull under *)
(* way and its path included, whatever the bounds.                          *)
THEOREM PriorityPullTypes == Spec => []TypeOK
  <1>1. PullInv => TypeOK
    BY DEF PullInv, IInv, StateOK, TypeOK
  <1> QED
    BY <1>1, PullInvHolds, PTL

(* A pull that replaces a batch action writes the file and its record only  *)
(* while that action is still pending: no file is transferred by both       *)
(* (PriorityBatchState.getTarget and supersede, opened-file-priority.ts).   *)
THEOREM PullOwnsItsAction == Spec => []ReplacedActionIsHeld
  <1>1. PullInv => ReplacedActionIsHeld
    BY DEF PullInv, PullOwns, ReplacedActionIsHeld, Committed
  <1> QED
    BY <1>1, PullInvHolds, PTL

-----------------------------------------------------------------------------
(* Files, records, marks and the committed cursor.                          *)
(*                                                                          *)
(* SyncInv adds to PullInv who is at work in which phase (FlowInv), what a  *)
(* pull relies on from one step to the next (PullFollows), and at every     *)
(* file how its two sides, its record, its marks, its action and the        *)
(* attempt's view fit together (FilesInv).  The lemmas take the three in    *)
(* turn: a step preserves FlowInv, then PullFollows from what is left       *)
(* beside the pull, then the files, where all but one stay as they were.    *)

(* The paths at work or waiting for their permit are those of pooled        *)
(* actions of the transfer phase that are not final.                        *)
Holders ==
    \A p \in Path : p \in active \cup waiting =>
        ctl = "transfer" /\ Pooled(p) /\ plan[p].step \notin Final

(* A finalizer is the close of a cycle, and there is one at most.           *)
Closers ==
    /\ finalizers > 0 => finalizers = 1 /\ ctl = "closing"
    /\ current = Finalizer => finalizers = 0 /\ ctl = "closing"

(* The attempt has a plan and has not thrown.                               *)
Collected ==
    \/ ctl \in {"transfer", "serial"}
    \/ ctl \in {"settled", "closing", "closed"} /\ completion # "thrown"

(* Before collection there is no plan and no batch.                         *)
Before == {"idle", "again", "snapped", "preparing"}
Phased ==
    /\ ctl \in Before => batch = "none" /\ \A p \in Path : plan[p] = None
    /\ ctl = "closed" => batch # "transfer"
    /\ ctl # "closed" => completion \in {"none", "thrown"}
    /\ \A p \in Path :
          plan[p] # None /\ plan[p].step \in {"run", "publish"} => p \in active
    /\ ctl = "closed" /\ completion = "clean" => EveryActionFinished

(* Versions only grow: a record is never ahead of either side, and no side  *)
(* ahead of the edits made.                                                 *)
Grown(p) ==
    /\ record[p] <= local[p] /\ record[p] <= remote[p]
    /\ local[p] <= edits + 1 /\ remote[p] <= edits + 1
    /\ seen[p] <= record[p]

(* What an action will have published.                                      *)
Term(a) == IF a.kind = "push" THEN a.local ELSE a.remote

(* The next attempt will hear of p.                                         *)
Heard(p) == p \in event \cup remarked

(* What an action stands for until it is final: the view shows what it was  *)
(* planned from, then what it will record.                                  *)
PlanFollows(p) ==
    LET a == plan[p] IN
    a # None =>
       /\ a.remote <= remote[p]
       /\ a.kind = "match" => a.local = a.remote
       /\ a.kind = "push" => a.remote <= a.local
       /\ a.step \in {"pending", "run"} => view[p] = a.remote
       /\ a.step \in {"pending", "run"} /\ a.kind = "pull" => record[p] = a.local
       /\ a.step = "publish" =>
             /\ a.kind # "conflict"
             /\ view[p] = Term(a) /\ record[p] <= Term(a)
             /\ Term(a) <= remote[p] /\ Term(a) <= local[p]
             /\ local[p] # Term(a) => p \in event \cup dirty
             /\ a.kind = "pull" => Heard(p)
       /\ a.step \in {"superseded", "replaced", "done"} => view[p] <= record[p]

(* What a pull holds from one step to the next.                             *)
PullFollows ==
    op # None =>
       LET p == op.path IN
       /\ op.target = "defer" => op.step = "record"
       /\ op.target # "defer" => ctl # "closed"
       /\ op.target = "independent" => plan[p] = None
       /\ op.step \in {"observe", "read", "recheck", "write", "commit"} => record[p] = op.record
       /\ op.step \in {"read", "recheck", "write", "commit"} =>
             /\ op.record <= op.observed /\ op.observed <= remote[p]
             /\ Superseding => plan[p].remote <= op.observed
       /\ op.step = "write" => local[p] = op.record \/ p \in late
       /\ op.step = "commit" =>
             /\ op.observed <= local[p] /\ p \in event \cup dirty
             /\ ctl \in Open => Heard(p)
       /\ op.step \in {"confirm", "acknowledge"} => record[p] = op.observed
       /\ op.step = "acknowledge" /\ ~op.marked /\ op.after = op.observed
             => local[p] = op.after \/ p \in event

(* A file of the snapshot nobody was heard of since is as it was collected. *)
StillRead(p) ==
    p \in snap /\ ~Heard(p) =>
       /\ plan[p] = None => local[p] = record[p]
       /\ plan[p] # None =>
             /\ plan[p].step \in {"pending", "run", "publish"} => local[p] = plan[p].local
             /\ plan[p].step \in {"superseded", "replaced", "done"} => local[p] = record[p]

(* Files, action and attempt fit together at q.                             *)
Good(q) ==
    /\ Grown(q) /\ PlanFollows(q)
    /\ local[q] # record[q] => q \in event \cup dirty
    /\ Collected => StillRead(q) /\ (plan[q] = None => view[q] <= record[q])

FilesInv == \A q \in Path : Good(q)
FlowInv == Holders /\ Closers /\ Phased
SyncInv == PullInv /\ FlowInv /\ FilesInv /\ PullFollows

(* A step leaves the file q alone: its marks may only grow.                 *)
Kept(q) ==
    /\ local'[q] = local[q] /\ remote'[q] = remote[q] /\ record'[q] = record[q]
    /\ seen'[q] = seen[q] /\ view'[q] = view[q]
    /\ q \in event \cup dirty => q \in event' \cup dirty'
    /\ ctl \notin Before /\ Heard(q) => q \in event' \cup remarked'
    /\ edits <= edits'

(* It leaves the action of q alone as well.                                 *)
Stays(q) == Kept(q) /\ plan'[q] = plan[q]

(* It leaves the attempt alone.                                             *)
SameAttempt == Collected' => Collected /\ snap' = snap

(* The action of p comes to a step, the others stay.                        *)
PlanStep(p, s) ==
    /\ plan[p] # None /\ plan'[p] # None /\ plan'[p].step = s
    /\ plan'[p].kind = plan[p].kind
    /\ plan'[p].local = plan[p].local /\ plan'[p].remote = plan[p].remote
    /\ \A q \in Path \ {p} : plan'[q] = plan[q]

(* Who has a permit or waits for one.                                       *)
Held == active \cup waiting

-----------------------------------------------------------------------------
(* The versions are numbers.                                                *)
LEMMA Numbers ==
    ASSUME StateOK, NEW q \in Path
    PROVE  /\ local[q] \in Nat /\ remote[q] \in Nat /\ record[q] \in Nat
           /\ seen[q] \in Nat /\ view[q] \in Nat /\ edits \in Nat
           /\ plan[q] # None =>
                 plan[q] \in Action /\ plan[q].local \in Nat /\ plan[q].remote \in Nat
  <1>1. Version \subseteq Nat
    BY BoundAssumption DEF Version
  <1>2. plan[q] # None => plan[q] \in Action
    BY DEF StateOK, PlanOK
  <1>3. plan[q] \in Action => plan[q].local \in Version /\ plan[q].remote \in Version
    BY DEF Action
  <1>4. /\ local[q] \in Version /\ remote[q] \in Version /\ record[q] \in Version
        /\ seen[q] \in Version /\ view[q] \in Version
    BY DEF StateOK, FilesOK
  <1>5. edits \in Nat
    BY BoundAssumption DEF StateOK, CountOK
  <1> QED
    BY <1>1, <1>2, <1>3, <1>4, <1>5

(* A file a step leaves alone stays as it should be.                        *)
LEMMA StaysGood ==
    ASSUME StateOK, StateOK', Phased, NEW q \in Path, Good(q), Stays(q), SameAttempt
    PROVE  Good(q)'
  <1>1. edits' \in Nat /\ edits <= edits'
    BY Numbers DEF Stays, Kept, StateOK, CountOK
  <1>2. Grown(q)'
    BY <1>1, Numbers DEF Good, Grown, Stays, Kept
  <1>3. plan[q] # None => ctl \notin Before
    BY DEF Phased
  <1>4. PlanFollows(q)'
    BY <1>3 DEF Good, PlanFollows, Stays, Kept, Heard, Term
  <1>5. Collected => ctl \notin Before
    BY DEF Collected, Before
  <1>6. Collected' => StillRead(q)'
    BY <1>5 DEF Good, StillRead, Stays, Kept, SameAttempt, Heard
  <1> QED
    BY <1>2, <1>4, <1>6 DEF Good, Stays, Kept, SameAttempt

(* A step of an action leaves what it was planned from.                     *)
LEMMA StepFields ==
    ASSUME NEW a \in Action, NEW s \in Progress
    PROVE  LET b == [a EXCEPT !.step = s] IN
           b # None /\ b.step = s /\ b.kind = a.kind /\ b.local = a.local /\ b.remote = a.remote
  <1>1. [a EXCEPT !.step = s] \in Action
    BY StepTyped
  <1> QED
    BY <1>1, NoneAssumption DEF Action

LEMMA Stepped ==
    ASSUME StateOK, NEW p \in Path, plan[p] # None, NEW s \in Progress,
           plan' = [plan EXCEPT ![p].step = s]
    PROVE  PlanStep(p, s)
  <1>1. plan[p] \in Action /\ plan \in [Path -> Action \cup {None}]
    BY DEF StateOK, PlanOK
  <1>2. plan'[p] = [plan[p] EXCEPT !.step = s] /\ \A q \in Path \ {p} : plan'[q] = plan[q]
    BY <1>1
  <1> QED
    BY <1>1, <1>2, StepFields DEF PlanStep

(* A pull that takes its action out of the pending set found it there.      *)
LEMMA Taken ==
    ASSUME PullInv, op # None, op.step \notin Committed, NEW s \in Progress, Take(op.path, s)
    PROVE  /\ op.path \in Path
           /\ Superseding => PlanStep(op.path, s) /\ plan[op.path].step = "pending" /\ ctl \in Open
           /\ ~Superseding => plan' = plan
  <1>1. op.path \in Path
    BY OpFacts
  <1>2. Superseding => plan[op.path] # None /\ plan[op.path].step = "pending" /\ ctl \in Open
    BY DEF PullInv, PullOwns
  <1> QED
    BY <1>1, <1>2, Stepped DEF Take, PullInv

-----------------------------------------------------------------------------
(* The coordinator.                                                         *)

(* How the finalizers waiting (c with the one to come) and the one that     *)
(* runs change.                                                             *)
Turn(c) ==
    \/ finalizers' = c /\ (current' = Finalizer => current = Finalizer)
    \/ current' = Finalizer /\ c > 0 /\ finalizers' = c - 1

(* What a run of the drain does to permits and finalizers.                  *)
LEMMA DrainFrame ==
    ASSUME NEW h, NEW w, NEW q \in Seq(Path), NEW c \in Nat, Drain(h, w, q, c)
    PROVE  /\ active' \cup waiting' = h \cup w /\ h \subseteq active'
           /\ \/ finalizers' = c /\ current' # Finalizer
              \/ current' = Finalizer /\ c > 0 /\ finalizers' = c - 1
  <1>1. q # <<>> => Head(q) \in Path
    OBVIOUS
  <1> QED
    BY <1>1, CurrentAssumption DEF Drain

LEMMA RequestFrame ==
    ASSUME NEW h, NEW w, NEW q \in Seq(Path), NEW c \in Nat, RequestDrain(h, w, q, c)
    PROVE  active' \cup waiting' = h \cup w /\ h \subseteq active' /\ Turn(c)
  <1>1. CASE current # None \/ h # {}
    BY <1>1 DEF RequestDrain, Turn
  <1>2. CASE ~(current # None \/ h # {})
    <2>1. Drain(h, w, q, c)
      BY <1>2 DEF RequestDrain
    <2> QED
      BY <2>1, DrainFrame DEF Turn
  <1> QED
    BY <1>1, <1>2

LEMMA Fields ==
    ASSUME PullInv
    PROVE  /\ queued \in Seq(Path) /\ finalizers \in Nat /\ waiting \cap active = {}
           /\ active \cup waiting \subseteq Worker
           /\ current \in Path \cup {Finalizer, None}
  BY DEF PullInv, IInv, CoordinatorTypeOK

(* The same of each operation of the coordinator.                           *)
LEMMA ReleaseFrame ==
    ASSUME PullInv, NEW w, Release(w)
    PROVE  /\ Held' = Held \ {w} /\ active \ {w} \subseteq active' /\ Turn(finalizers)
           /\ op = None /\ current = None
  <1>1. active' \cup waiting' = (active \ {w}) \cup waiting /\ active \ {w} \subseteq active'
        /\ Turn(finalizers)
    BY Fields, RequestFrame DEF Release
  <1>2. w \in active
    BY DEF Release
  <1> QED
    BY <1>1, <1>2, Fields, AloneAtSafePoint DEF Held

LEMMA AcquireFrame ==
    ASSUME NEW w, AcquireNormalPermit(w)
    PROVE  Held' = Held \cup {w} /\ active \subseteq active' /\ UNCHANGED <<finalizers, current>>
  BY DEF AcquireNormalPermit, Held

LEMMA EnqueueFrame ==
    ASSUME PullInv, NEW p \in Path, Enqueue(p)
    PROVE  Held' = Held /\ active \subseteq active' /\ Turn(finalizers)
           /\ (current # None => current' = current)
  <1>1. CASE p \in Range(queued)
    BY <1>1 DEF Enqueue, coordinator, Held, Turn
  <1>2. CASE p \notin Range(queued)
    <2>1. RequestDrain(active, waiting, Append(queued, p), finalizers)
      BY <1>2 DEF Enqueue
    <2>2. Append(queued, p) \in Seq(Path)
      BY Fields
    <2> QED
      BY <2>1, <2>2, Fields, RequestFrame DEF Held, RequestDrain
  <1> QED
    BY <1>1, <1>2

LEMMA FinalizeFrame ==
    ASSUME PullInv, Finalize
    PROVE  Held' = Held /\ active \subseteq active' /\ Turn(finalizers + 1)
           /\ (current # None => current' = current)
  <1>1. finalizers + 1 \in Nat
    BY Fields
  <1> QED
    BY <1>1, Fields, RequestFrame DEF Finalize, Held, RequestDrain

LEMMA SettleFrame ==
    ASSUME PullInv, Settle
    PROVE  /\ Held' = Held /\ active \subseteq active' /\ current # None
           /\ \/ finalizers' = finalizers /\ current' # Finalizer
              \/ current' = Finalizer /\ finalizers > 0 /\ finalizers' = finalizers - 1
  <1>1. Drain(active, waiting, queued, finalizers) /\ current # None
    BY DEF Settle
  <1> QED
    BY <1>1, Fields, DrainFrame DEF Held

(* Finalizers that take their turn stay those of a closing cycle.           *)
LEMMA ClosersKept ==
    ASSUME PullInv, Closers, Turn(finalizers), ctl = "closing" => ctl' = "closing"
    PROVE  Closers'
  BY Fields DEF Closers, Turn

-----------------------------------------------------------------------------
(* Who holds a permit, and where the cycle is.                              *)

LEMMA HoldersKept ==
    ASSUME Holders, Held' \cap Path \subseteq Held, ctl = "transfer" => ctl' = "transfer",
           \A q \in Path :
              \/ plan'[q] = plan[q]
              \/ /\ plan[q] # None /\ plan'[q] # None /\ plan'[q].kind = plan[q].kind
                 /\ plan'[q].step \notin Final \/ q \notin Held'
    PROVE  Holders'
  BY DEF Holders, Held, Pooled

(* Outside of it no action is at work.                                      *)
LEMMA NobodyHolds ==
    ASSUME Holders, ctl # "transfer", NEW p \in Path
    PROVE  p \notin active /\ p \notin Held
  BY DEF Holders, Held

LEMMA PhasedKept ==
    ASSUME Phased, active \subseteq active',
           UNCHANGED <<plan, batch, completion>>,
           ctl' = ctl \/ (ctl \in Before /\ ctl' \in Before)
    PROVE  Phased'
  BY DEF Phased, Before, EveryActionFinished

(* A request for a cycle.                                                   *)
LEMMA RequestFlow ==
    ASSUME RequestNormalLifecycle \/ UNCHANGED <<ctl, syncPending>>
    PROVE  ctl' = ctl \/ (ctl = "idle" /\ ctl' = "again")
  BY DEF RequestNormalLifecycle, Unlocked

(* Steps that leave the attempt where it is: triggers, users, actions,      *)
(* pulls.                                                                   *)
LEMMA RunFlow ==
    ASSUME PullInv, FlowInv, RunSync \/ TriggerSync
    PROVE  FlowInv'
  <1>1. /\ UNCHANGED <<coordinator, cycle>> /\ Held' = Held /\ Turn(finalizers)
        /\ (ctl' = ctl \/ (ctl = "idle" /\ ctl' = "again"))
    BY DEF RunSync, TriggerSync, Unlocked, coordinator, Held, Turn
  <1>2. UNCHANGED <<plan, batch, completion>> /\ active \subseteq active'
    BY <1>1 DEF cycle, coordinator
  <1>3. Holders'
    BY <1>1, <1>2, HoldersKept DEF FlowInv
  <1>4. Closers'
    BY <1>1, ClosersKept DEF FlowInv
  <1>5. Phased'
    BY <1>1, <1>2, PhasedKept DEF FlowInv, Before
  <1> QED
    BY <1>3, <1>4, <1>5 DEF FlowInv

LEMMA UserFlow ==
    ASSUME PullInv, FlowInv, NEW p \in Path,
           LocalEdit(p) \/ RemoteEdit(p) \/ Deliver(p) \/ PullSingle(p)
    PROVE  FlowInv'
  <1>1. UNCHANGED <<run, cycle>>
    BY DEF LocalEdit, RemoteEdit, Deliver, PullSingle
  <1>2. Held' = Held /\ active \subseteq active' /\ Turn(finalizers)
    <2>1. CASE PullSingle(p)
      BY <2>1, EnqueueFrame DEF PullSingle
    <2>2. CASE ~PullSingle(p)
      BY <2>2 DEF LocalEdit, RemoteEdit, Deliver, coordinator, Held, Turn
    <2> QED
      BY <2>1, <2>2
  <1>3. UNCHANGED <<ctl, plan, batch, completion>>
    BY <1>1 DEF run, cycle
  <1>4. Holders'
    BY <1>2, <1>3, HoldersKept DEF FlowInv
  <1>5. Closers'
    BY <1>2, <1>3, ClosersKept DEF FlowInv
  <1>6. Phased'
    BY <1>2, <1>3, PhasedKept DEF FlowInv
  <1> QED
    BY <1>4, <1>5, <1>6 DEF FlowInv

LEMMA ActionFlow ==
    ASSUME PullInv, FlowInv, NEW p \in Path, ActionStep(p) \/ Fails(p)
    PROVE  FlowInv'
  <1>0. UNCHANGED <<ctl, completion>> /\ StateOK
    BY DEF ActionStep, StartAction, BeginAction, Effect, Publish, Resolve, Fails, run, cycle,
       PullInv
  <1>1. CASE StartAction(p)
    <2>1. UNCHANGED <<plan, batch>> /\ Held' = Held \cup {p} /\ active \subseteq active'
          /\ Turn(finalizers)
      BY <1>1, AcquireFrame DEF StartAction, cycle, Turn
    <2>2. Holders'
      BY <1>0, <1>1, <2>1 DEF FlowInv, Holders, Held, StartAction, Pooled, Final
    <2> QED
      BY <1>0, <2>1, <2>2, ClosersKept, PhasedKept DEF FlowInv
  <1>2. ASSUME NEW s \in Progress \ {"done", "replaced", "blocked", "failed", "publish"},
               plan' = [plan EXCEPT ![p].step = s], UNCHANGED <<coordinator, batch>>,
               plan[p] # None, p \in active
        PROVE  FlowInv'
    <2>1. PlanStep(p, s)
      BY <1>0, <1>2, Stepped
    <2>2. Holders'
      BY <1>0, <1>2, <2>1 DEF FlowInv, Holders, PlanStep, Pooled, Final, coordinator
    <2>3. Closers'
      BY <1>0, <1>2 DEF FlowInv, Closers, coordinator
    <2>4. Phased'
      BY <1>0, <1>2, <2>1 DEF FlowInv, Phased, Holders, PlanStep, coordinator, Before
    <2> QED
      BY <2>2, <2>3, <2>4 DEF FlowInv
  <1>3. ASSUME NEW s \in Final, End(p, s), plan[p] # None, batch' \in {batch, "aborting"}
        PROVE  FlowInv'
    <2>1. PlanStep(p, s) /\ s \notin {"run", "publish"}
      BY <1>0, <1>3, Stepped DEF End, Final, Progress
    <2>2. Held' = Held \ {p} /\ active \ {p} \subseteq active' /\ Turn(finalizers) /\ p \in active
      BY <1>3, ReleaseFrame DEF End, Release
    <2>3. Holders'
      BY <1>0, <2>1, <2>2 DEF FlowInv, Holders, Held, PlanStep, Pooled
    <2>4. Closers'
      BY <1>0, <2>2, ClosersKept DEF FlowInv
    <2>5. Phased'
      BY <1>0, <1>3, <2>1, <2>2 DEF FlowInv, Phased, Holders, PlanStep, Before
    <2> QED
      BY <2>3, <2>4, <2>5 DEF FlowInv
  <1>4. CASE BeginAction(p)
    BY <1>2, <1>3, <1>4 DEF BeginAction, Working, Progress, Final
  <1>5. CASE Effect(p)
    <2>1. CASE Unmoved(p)
      <3>1. plan' = [plan EXCEPT ![p].step = "publish"] /\ UNCHANGED <<coordinator, batch>>
            /\ plan[p] # None /\ p \in active /\ "publish" \in Progress
        BY <1>5, <2>1 DEF Effect, Working, Progress
      <3>2. PlanStep(p, "publish")
        BY <1>0, <3>1, Stepped
      <3>3. Holders'
        BY <1>0, <3>1, <3>2 DEF FlowInv, Holders, PlanStep, Pooled, Final, coordinator
      <3>4. Closers'
        BY <1>0, <3>1 DEF FlowInv, Closers, coordinator
      <3>5. Phased'
        BY <1>0, <3>1, <3>2 DEF FlowInv, Phased, Holders, PlanStep, coordinator, Before
      <3> QED
        BY <3>3, <3>4, <3>5 DEF FlowInv
    <2>2. CASE ~Unmoved(p)
      BY <1>3, <1>5, <2>2 DEF Effect, Working, Final
    <2> QED
      BY <2>1, <2>2
  <1>6. CASE Publish(p)
    BY <1>3, <1>6 DEF Publish, Working, Final
  <1>7. CASE Fails(p)
    BY <1>3, <1>7 DEF Fails, Working, Final
  <1>8. CASE Resolve(p)
    <2>1. ctl = "serial" /\ plan[p] # None /\ UNCHANGED <<coordinator, batch>>
          /\ \E s \in Final : plan' = [plan EXCEPT ![p].step = s]
      BY <1>8 DEF Resolve, Final, Conflicts
    <2>2. PICK s \in Final : plan' = [plan EXCEPT ![p].step = s]
      BY <2>1
    <2>3. PlanStep(p, s) /\ s \notin {"run", "publish"}
      BY <1>0, <2>1, <2>2, Stepped DEF Final, Progress
    <2>4. Holders'
      BY <1>0, <2>1, <2>3, NobodyHolds DEF FlowInv, Holders, coordinator, Held
    <2>5. Closers'
      BY <1>0, <2>1 DEF FlowInv, Closers, coordinator
    <2>6. Phased'
      BY <1>0, <2>1, <2>3 DEF FlowInv, Phased, PlanStep, coordinator, Before
    <2> QED
      BY <2>4, <2>5, <2>6 DEF FlowInv
  <1> QED
    BY <1>1, <1>4, <1>5, <1>6, <1>7, <1>8 DEF ActionStep

LEMMA PullFlow ==
    ASSUME PullInv, FlowInv, PullFollows, PullStep \/ PullThrows
    PROVE  FlowInv'
  <1>1. op # None /\ current \in Path
    BY OpFacts DEF PullStep, PullThrows, GetRecord, Observe, Read, Recheck, Write, CommitRecord,
       Confirm, AcknowledgePath, Pulling
  <1>2. Settled \/ UNCHANGED coordinator
    BY Zenon DEF PullStep, PullThrows, GetRecord, Observe, Read, Recheck, Write, CommitRecord,
       Confirm, AcknowledgePath, Defer, Invalidate, Continue
  <1>3. Held' = Held /\ active \subseteq active' /\ Turn(finalizers)
    <2>1. CASE Settled
      BY <1>1, <2>1, SettleFrame DEF Settled, Turn
    <2>2. CASE UNCHANGED coordinator
      BY <2>2 DEF coordinator, Held, Turn
    <2> QED
      BY <1>2, <2>1, <2>2
  <1>4. /\ UNCHANGED <<batch, completion>>
        /\ ctl' = ctl \/ (ctl = "idle" /\ ctl' = "again")
        /\ \/ UNCHANGED plan
           \/ op.step \notin Committed /\ \E s \in {"invalidated", "superseded"} : Take(op.path, s)
    <2> USE RequestFlow DEF run, cycle
    <2>1. CASE GetRecord
      BY <2>1 DEF GetRecord, Defer
    <2>2. CASE Observe \/ Read \/ Recheck \/ Write \/ Confirm \/ AcknowledgePath
      BY <2>2 DEF Observe, Read, Recheck, Write, Confirm, AcknowledgePath, Invalidate,
         Invalidated, Pulling, Committed
    <2>3. CASE CommitRecord
      BY <2>3 DEF CommitRecord, Invalidated, Pulling, Committed
    <2>4. CASE PullThrows
      BY <2>4 DEF PullThrows
    <2> QED
      BY <2>1, <2>2, <2>3, <2>4 DEF PullStep
  <1>5. Closers'
    BY <1>3, <1>4, ClosersKept DEF FlowInv
  <1>6. CASE UNCHANGED plan
    <2>1. Holders'
      BY <1>3, <1>4, <1>6, HoldersKept DEF FlowInv
    <2>2. Phased'
      BY <1>3, <1>4, <1>6, PhasedKept DEF FlowInv, Before
    <2> QED
      BY <1>5, <2>1, <2>2 DEF FlowInv
  <1>7. CASE plan' # plan
    <2>1. PICK s \in {"invalidated", "superseded"} : Take(op.path, s)
      BY <1>4, <1>7
    <2>2. s \in Progress /\ s \notin Final /\ s \notin {"run", "publish"}
      BY DEF Progress, Final
    <2>3. PlanStep(op.path, s) /\ ctl \in Open /\ op.path \in Path /\ op.target # "defer"
      BY <1>1, <1>4, <1>7, <2>1, <2>2, Taken DEF Superseding
    <2>4. ctl' = ctl /\ ctl # "closed" /\ ctl \notin Before
      BY <1>4, <2>3 DEF Open, Before
    <2>5. Holders'
      BY <1>3, <2>2, <2>3, <2>4, HoldersKept DEF FlowInv, PlanStep
    <2>6. Phased'
      BY <1>3, <1>4, <2>2, <2>3, <2>4 DEF FlowInv, Phased, PlanStep
    <2> QED
      BY <1>5, <2>5, <2>6 DEF FlowInv
  <1> QED
    BY <1>6, <1>7

(* The attempt goes on: its permits are all returned before each phase      *)
(* ends.                                                                    *)
LEMMA CycleFlow ==
    ASSUME PullInv, FlowInv, CycleStep \/ CollectFails
    PROVE  FlowInv'
  <1>0. Preparation \notin Path /\ Serial \notin Path
    BY WorkerAssumption
  <1>1. CASE LoopHead
    BY <1>1 DEF LoopHead, FlowInv, Holders, Closers, Phased, Before, EveryActionFinished,
       coordinator, cycle
  <1>2. CASE Prepare
    <2>1. Held' = Held \cup {Preparation} /\ active \subseteq active'
          /\ UNCHANGED <<finalizers, current, cycle>> /\ ctl = "snapped" /\ ctl' = "preparing"
      BY <1>2, AcquireFrame DEF Prepare
    <2> QED
      BY <1>0, <2>1, NobodyHolds DEF FlowInv, Holders, Closers, Phased, Before,
         EveryActionFinished, cycle, Held
  <1>3. CASE Collect
    <2>1. Held' = Held \ {Preparation} /\ Turn(finalizers) /\ ctl = "preparing"
          /\ ctl' = "transfer"
      BY <1>3, ReleaseFrame DEF Collect
    <2>2. Holders'
      BY <2>1, NobodyHolds DEF FlowInv, Holders, Held
    <2>3. Closers'
      BY <2>1, ClosersKept DEF FlowInv
    <2>4. plan' = [p \in Path |-> Admitted(p)] /\ completion' = "none"
          /\ \A p \in Path : Admitted(p) # None => Admitted(p).step = "pending"
      BY <1>3 DEF Collect, Admitted
    <2>5. Phased'
      BY <2>1, <2>4 DEF Phased, Before
    <2> QED
      BY <2>2, <2>3, <2>5 DEF FlowInv
  <1>4. CASE CollectFails
    <2>1. Held' = Held \ {Preparation} /\ Turn(finalizers) /\ ctl = "preparing"
          /\ ctl' = "settled" /\ UNCHANGED plan /\ completion' = "thrown"
      BY <1>4, ReleaseFrame DEF CollectFails
    <2>2. Holders'
      BY <2>1, NobodyHolds DEF FlowInv, Holders, Held
    <2>3. Closers'
      BY <2>1, ClosersKept DEF FlowInv
    <2>4. Phased'
      BY <2>1 DEF FlowInv, Phased, Before
    <2> QED
      BY <2>2, <2>3, <2>4 DEF FlowInv
  <1>5. CASE LeaveTransfer
    <2>1. /\ ctl = "transfer" /\ ctl' \in {"settled", "serial"} /\ PoolSettled
          /\ active \subseteq active' /\ Held' \subseteq Held \cup {Serial}
          /\ UNCHANGED <<finalizers, current, plan>> /\ completion' \in {completion, "thrown"}
      BY <1>5, AcquireFrame DEF LeaveTransfer, coordinator, Held
    <2>2. \A p \in Path : p \notin Held
      BY <2>1 DEF FlowInv, Holders, PoolSettled, Held
    <2>3. Holders'
      BY <1>0, <2>1, <2>2 DEF Holders, Held
    <2>4. Closers'
      BY <2>1 DEF FlowInv, Closers
    <2>5. Phased'
      BY <2>1 DEF FlowInv, Phased, Before
    <2> QED
      BY <2>3, <2>4, <2>5 DEF FlowInv
  <1>6. CASE LeaveSerial
    <2>1. /\ Held' = Held \ {Serial} /\ active \ {Serial} \subseteq active' /\ Turn(finalizers)
          /\ ctl = "serial" /\ ctl' = "settled" /\ UNCHANGED <<plan, completion>>
      BY <1>6, ReleaseFrame DEF LeaveSerial, cycle
    <2>2. Holders'
      BY <2>1, NobodyHolds DEF FlowInv, Holders, Held
    <2>3. Closers'
      BY <2>1, ClosersKept DEF FlowInv
    <2>4. Phased'
      BY <1>0, <2>1 DEF FlowInv, Phased, Before
    <2> QED
      BY <2>2, <2>3, <2>4 DEF FlowInv
  <1>7. CASE Close
    <2>1. /\ Held' = Held /\ active \subseteq active' /\ Turn(finalizers + 1)
          /\ ctl = "settled" /\ ctl' = "closing" /\ UNCHANGED <<plan, completion>>
      BY <1>7, FinalizeFrame DEF Close, cycle
    <2>2. Holders'
      BY <2>1, NobodyHolds DEF FlowInv, Holders, Held
    <2>3. finalizers = 0 /\ current # Finalizer
      BY <2>1, Fields DEF FlowInv, Closers
    <2>4. Closers'
      BY <2>1, <2>3 DEF Closers, Turn
    <2>5. Phased'
      BY <2>1 DEF FlowInv, Phased, Before
    <2> QED
      BY <2>2, <2>4, <2>5 DEF FlowInv
  <1>8. CASE CloseOut
    <2>1. /\ Held' = Held /\ active \subseteq active' /\ finalizers = 0 /\ ctl = "closing"
          /\ ctl' = "closed" /\ UNCHANGED plan /\ finalizers' = 0 /\ current' # Finalizer
      BY <1>8, SettleFrame DEF CloseOut, Settled, FlowInv, Closers
    <2>2. Holders'
      BY <2>1, NobodyHolds DEF FlowInv, Holders, Held
    <2>3. Closers'
      BY <2>1 DEF Closers
    <2>4. /\ batch' # "transfer"
          /\ completion' = "clean" => completion = "clean" \/ EveryActionFinished
      BY <1>8 DEF CloseOut, CompletionOf
    <2>5. completion # "clean"
      BY <2>1 DEF FlowInv, Phased
    <2>6. Phased'
      BY <2>1, <2>4, <2>5 DEF FlowInv, Phased, Before, EveryActionFinished
    <2> QED
      BY <2>2, <2>3, <2>6 DEF FlowInv
  <1>9. CASE Acknowledge
    <2>1. /\ ctl = "closed" /\ ctl' \in Before /\ UNCHANGED coordinator
          /\ batch' = "none" /\ plan' = [p \in Path |-> None] /\ completion' = "none"
      BY <1>9 DEF Acknowledge, Before
    <2> QED
      BY <2>1, NobodyHolds DEF FlowInv, Holders, Closers, Phased, Before, coordinator, Held
  <1> QED
    BY <1>1, <1>2, <1>3, <1>4, <1>5, <1>6, <1>7, <1>8, <1>9 DEF CycleStep

-----------------------------------------------------------------------------
(* What the pull under way holds.                                           *)

(* A step leaves what the pull op holds alone.                              *)
Beside ==
    op # None =>
       LET p == op.path IN
       /\ plan'[p] = plan[p] /\ record'[p] = record[p] /\ remote[p] <= remote'[p]
       /\ local'[p] = local[p]
       /\ p \in event => p \in event'
       /\ p \in dirty => p \in event' \cup dirty'
       /\ p \in late => p \in late'
       /\ ctl \in Open /\ Heard(p) => p \in event' \cup remarked'
       /\ ctl' = "closed" => ctl = "closed"
       /\ ctl' \in Open => ctl \in Open

(* Such a step leaves what is known of the pull as it is.                   *)
LEMMA BesideFollows ==
    ASSUME StateOK, StateOK', OpOK, PullFollows, op' = op, Beside
    PROVE  PullFollows'
  <1> SUFFICES ASSUME op # None PROVE PullFollows'
    BY DEF PullFollows
  <1> DEFINE p == op.path
  <1>1. op \in Pull /\ p \in Path
    BY DEF OpOK, Pull
  <1>2. op.observed \in Nat /\ remote[p] \in Nat /\ remote'[p] \in Nat
    BY <1>1, Numbers, BoundAssumption DEF Pull, Version, StateOK, FilesOK
  <1>3. op.step \in {"read", "recheck", "write", "commit"} =>
             /\ op.record <= op.observed /\ op.observed <= remote'[p]
             /\ Superseding => plan'[p].remote <= op.observed
    BY <1>1, <1>2 DEF PullFollows, Beside
  <1>4. op.step = "write" => local'[p] = op.record \/ p \in late'
    BY DEF PullFollows, Beside
  <1>5. op.step = "commit" =>
             /\ op.observed <= local'[p] /\ p \in event' \cup dirty'
             /\ ctl' \in Open => p \in event' \cup remarked'
    BY DEF PullFollows, Beside, Heard
  <1>6. op.step = "acknowledge" /\ ~op.marked /\ op.after = op.observed
             => local'[p] = op.after \/ p \in event'
    BY DEF PullFollows, Beside
  <1>7. /\ op.target = "defer" => op.step = "record"
        /\ op.target # "defer" => ctl' # "closed"
        /\ op.target = "independent" => plan'[p] = None
        /\ op.step \in {"observe", "read", "recheck", "write", "commit"} => record'[p] = op.record
        /\ op.step \in {"confirm", "acknowledge"} => record'[p] = op.observed
    BY DEF PullFollows, Beside
  <1>8. Superseding' <=> Superseding
    BY DEF Superseding
  <1> HIDE DEF p
  <1>9. op'.path = p
    BY DEF p
  <1> QED
    BY <1>3, <1>4, <1>5, <1>6, <1>7, <1>8, <1>9 DEF PullFollows, Heard

(* A pull knows nothing yet when it begins.                                 *)
LEMMA OpeningFollows ==
    ASSUME NEW p \in Path, op' = Opening(p), BatchOpen', Phased'
    PROVE  PullFollows'
  <1> DEFINE t == PriorityTarget(p, ctl', batch', plan')
  <1>1. t = "defer" \/ t = "superseding" \/ t = "independent"
    BY DEF PriorityTarget
  <1>2. op'.path = p /\ op'.target = t /\ op'.step = "record"
    BY DEF Opening
  <1>3. t # "defer" => ctl' # "closed"
    BY DEF PriorityTarget, BatchOpen
  <1>4. t = "independent" => plan'[p] = None
    BY DEF PriorityTarget, Phased, Before
  <1> QED
    BY <1>2, <1>3, <1>4 DEF PullFollows

LEMMA SettledFollows ==
    ASSUME Settled, BatchOpen', Phased'
    PROVE  PullFollows'
  <1>1. CASE current' \in Path
    BY <1>1, OpeningFollows DEF Settled
  <1>2. CASE current' \notin Path
    BY <1>2 DEF Settled, PullFollows
  <1> QED
    BY <1>1, <1>2

LEMMA DispatchFollows ==
    ASSUME StateOK, StateOK', OpOK, PullFollows, Phased', Dispatch, Beside
    PROVE  PullFollows'
  <1>1. CASE current = None /\ current' \in Path
    BY <1>1, OpeningFollows DEF Dispatch, StateOK
  <1>2. CASE ~(current = None /\ current' \in Path)
    BY <1>2, BesideFollows DEF Dispatch
  <1> QED
    BY <1>1, <1>2

(* An edit of the pulled file leaves an event, and its delivery the mark.   *)
LEMMA UserFollows ==
    ASSUME SyncInv, StateOK', OpOK', FlowInv', NEW p \in Path,
           LocalEdit(p) \/ RemoteEdit(p) \/ Deliver(p) \/ PullSingle(p)
    PROVE  PullFollows'
  <1>0. StateOK /\ OpOK /\ PullFollows /\ FlowInv /\ \A q \in Path : Grown(q)
    BY DEF SyncInv, PullInv, FilesInv, Good
  <1>1. op # None => op \in Pull /\ op.path \in Path /\ op.observed \in Nat /\ op.after \in Nat
    BY <1>0, BoundAssumption DEF OpOK, Pull, Version
  <1>2. /\ edits \in Nat
        /\ op # None => local[op.path] \in Nat /\ remote[op.path] \in Nat
             /\ local[op.path] <= edits + 1 /\ remote[op.path] <= edits + 1
    BY <1>0, <1>1, Numbers DEF Grown, StateOK, CountOK
  <1>3. CASE LocalEdit(p)
    <2>1. UNCHANGED <<remote, record, plan, dirty, remarked, ctl, op>> /\ event' = event \cup {p}
          /\ late \subseteq late'
      BY <1>3 DEF LocalEdit, far, cycle, tracker, run
    <2>2. CASE op # None /\ op.path = p
      <3>1. local'[p] = edits + 2 /\ (op.step = "write" => p \in late') /\ p \in event'
        BY <1>0, <1>3, <2>2 DEF LocalEdit, StateOK, FilesOK
      <3> QED
        BY <1>0, <1>1, <1>2, <2>1, <2>2, <3>1 DEF PullFollows, Heard, Superseding
    <2>3. CASE ~(op # None /\ op.path = p)
      <3>1. Beside
        BY <1>0, <1>1, <1>2, <1>3, <2>1, <2>3 DEF Beside, LocalEdit, StateOK, FilesOK, Heard
      <3> QED
        BY <1>0, <2>1, <3>1, BesideFollows
    <2> QED
      BY <2>2, <2>3
  <1>4. CASE RemoteEdit(p)
    <2>1. UNCHANGED <<local, late, event, record, plan, dirty, remarked, ctl, op>>
          /\ remote' = [remote EXCEPT ![p] = edits + 2]
      BY <1>4 DEF RemoteEdit, sides, cycle, tracker, run
    <2>2. Beside
      BY <1>0, <1>1, <1>2, <2>1 DEF Beside, StateOK, FilesOK, Heard
    <2> QED
      BY <1>0, <2>1, <2>2, BesideFollows
  <1>5. CASE Deliver(p)
    <2>1. /\ UNCHANGED <<local, late, remote, record, plan, ctl>> /\ event' = event \ {p}
          /\ dirty' = dirty \cup {p} /\ remarked \subseteq remarked'
          /\ ctl \in Open => p \in remarked'
      BY <1>5 DEF Deliver, far, cycle, run, Marked, Open
    <2>2. CASE op # None /\ op.path = p
      <3>1. op' = [op EXCEPT !.marked = TRUE]
        BY <1>5, <2>2 DEF Deliver
      <3>2. /\ op'.path = p /\ op'.target = op.target /\ op'.step = op.step /\ op'.marked
            /\ op'.record = op.record /\ op'.observed = op.observed
        BY <1>1, <2>2, <3>1 DEF Pull
      <3> QED
        BY <1>0, <2>1, <2>2, <3>2 DEF PullFollows, Heard, Superseding
    <2>3. CASE ~(op # None /\ op.path = p)
      <3>1. Beside /\ op' = op
        BY <1>0, <1>1, <1>2, <1>5, <2>1, <2>3 DEF Beside, Deliver, Heard
      <3> QED
        BY <1>0, <3>1, BesideFollows
    <2> QED
      BY <2>2, <2>3
  <1>6. CASE PullSingle(p)
    <2>1. UNCHANGED <<local, event, late, remote, record, plan, dirty, remarked, ctl>> /\ Dispatch
      BY <1>6 DEF PullSingle, sides, far, cycle, tracker, run
    <2>2. Beside
      BY <1>1, <1>2, <2>1 DEF Beside, Heard
    <2> QED
      BY <1>0, <2>1, <2>2, DispatchFollows DEF FlowInv
  <1> QED
    BY <1>3, <1>4, <1>5, <1>6

LEMMA RunFollows ==
    ASSUME SyncInv, StateOK', RunSync \/ TriggerSync
    PROVE  PullFollows'
  <1>0. StateOK /\ OpOK /\ PullFollows
    BY DEF SyncInv, PullInv
  <1>1. UNCHANGED <<local, event, late, remote, record, plan, dirty, remarked, op>>
        /\ (ctl' = ctl \/ (ctl = "idle" /\ ctl' = "again"))
    BY DEF RunSync, TriggerSync, Unlocked, sides, far, cycle, tracker
  <1>2. op # None => remote[op.path] \in Nat
    BY <1>0, Numbers DEF OpOK, Pull
  <1>3. Beside
    BY <1>1, <1>2 DEF Beside, Heard, Open
  <1> QED
    BY <1>0, <1>1, <1>3, BesideFollows

(* Actions work while no pull runs.                                         *)
LEMMA ActionFollows ==
    ASSUME SyncInv, StateOK', OpOK', FlowInv', NEW p \in Path, ActionStep(p) \/ Fails(p)
    PROVE  PullFollows'
  <1>0. StateOK /\ OpOK /\ PullFollows /\ PullInv
    BY DEF SyncInv, PullInv
  <1>1. CASE StartAction(p)
    <2>1. UNCHANGED <<local, event, late, remote, record, plan, dirty, remarked, op, ctl>>
      BY <1>1 DEF StartAction, sides, far, cycle, tracker, run
    <2>2. op # None => remote[op.path] \in Nat
      BY <1>0, Numbers DEF OpOK, Pull
    <2>3. Beside
      BY <2>1, <2>2 DEF Beside, Heard
    <2> QED
      BY <1>0, <2>1, <2>3, BesideFollows
  <1>2. CASE ~StartAction(p)
    <2>1. op = None
      BY <1>0, <1>2, AloneAtSafePoint DEF ActionStep, BeginAction, Effect, Publish, Resolve, Fails,
         Working
    <2>2. op' = op \/ Dispatch
      BY <1>2 DEF ActionStep, BeginAction, Effect, Publish, Resolve, Fails
    <2>3. Beside
      BY <2>1 DEF Beside
    <2> QED
      BY <1>0, <2>1, <2>2, <2>3, BesideFollows, DispatchFollows DEF FlowInv
  <1> QED
    BY <1>1, <1>2

(* The attempt does not close while a pull of it runs.                      *)
LEMMA CycleFollows ==
    ASSUME SyncInv, StateOK', OpOK', FlowInv', CycleStep \/ CollectFails
    PROVE  PullFollows'
  <1>0. StateOK /\ OpOK /\ PullFollows /\ PullInv /\ FlowInv
    BY DEF SyncInv, PullInv
  <1>1. op # None => /\ remote[op.path] \in Nat /\ op.path \in Path /\ op.target \in Target
                     /\ current \in Path
    BY <1>0, Numbers DEF OpOK, Pull
  <1>2. CASE CloseOut
    BY <1>2, SettledFollows DEF CloseOut, StateOK, FlowInv
  <1>3. CASE Collect \/ CollectFails \/ LeaveSerial
    <2>1. op = None /\ Dispatch
      BY <1>0, <1>3, AloneAtSafePoint DEF Collect, CollectFails, LeaveSerial
    <2> QED
      BY <1>0, <2>1, DispatchFollows DEF FlowInv, Beside
  <1>4. CASE Close
    <2>1. /\ UNCHANGED <<local, event, late, remote, record, plan, dirty, remarked>> /\ Dispatch
          /\ ctl = "settled" /\ ctl' = "closing"
      BY <1>4 DEF Close, sides, far, cycle, tracker
    <2>2. Beside
      BY <1>1, <2>1 DEF Beside, Heard, Open
    <2> QED
      BY <1>0, <2>1, <2>2, DispatchFollows DEF FlowInv
  <1>5. CASE LoopHead \/ Prepare \/ LeaveTransfer
    <2>1. /\ UNCHANGED <<local, event, late, remote, record, plan, dirty, op>>
          /\ ctl' # "closed" /\ (ctl \in Open => remarked' = remarked)
          /\ ctl' \in Open => ctl \in Open
      BY <1>5 DEF LoopHead, Prepare, LeaveTransfer, sides, far, cycle, tracker, Open
    <2>2. Beside
      BY <1>1, <2>1 DEF Beside, Heard
    <2> QED
      BY <1>0, <2>1, <2>2, BesideFollows
  <1>6. CASE Acknowledge
    <2>1. ctl = "closed" /\ op' = op
      BY <1>6 DEF Acknowledge
    <2>2. op # None => op.target = "defer" /\ op.step = "record"
      BY <1>0, <2>1 DEF PullFollows
    <2> QED
      BY <2>1, <2>2 DEF PullFollows
  <1> QED
    BY <1>2, <1>3, <1>4, <1>5, <1>6 DEF CycleStep

(* A step of the pull to its next one.                                      *)
LEMMA AdvanceFollows ==
    ASSUME SyncInv, StateOK', NEW s \in PullStage, op # None, op.target # "defer",
           op'.path = op.path, op'.target = op.target, op'.step = s, UNCHANGED ctl,
           op.target = "independent" => plan' = plan,
           s \in {"observe", "read", "recheck", "write", "commit"} =>
              op'.record = record'[op.path],
           s \in {"read", "recheck", "write", "commit"} =>
              /\ op'.record <= op'.observed /\ op'.observed <= remote'[op.path]
              /\ Superseding => plan'[op.path].remote <= op'.observed,
           s = "write" => local'[op.path] = op'.record,
           s = "commit" => local'[op.path] = op'.observed /\ op.path \in event',
           s \in {"confirm", "acknowledge"} => record'[op.path] = op'.observed,
           s = "acknowledge" => local'[op.path] = op'.after
    PROVE  PullFollows'
  <1>1. op.path \in Path /\ op.target \in Target
    BY OpFacts DEF SyncInv, Pull
  <1>2. local'[op.path] \in Nat
    BY <1>1, BoundAssumption DEF StateOK, FilesOK, Version
  <1>3. ctl' # "closed" /\ (op.target = "independent" => plan'[op.path] = None)
    BY DEF SyncInv, PullFollows
  <1>4. Superseding' <=> Superseding
    BY DEF Superseding
  <1>5. s = "commit" => op'.observed <= local'[op.path]
    BY <1>2
  <1> QED
    BY <1>3, <1>4, <1>5 DEF PullFollows, Heard

(* Each step of the pull leaves what the next one relies on.                *)
LEMMA PullFollowsOn ==
    ASSUME SyncInv, StateOK', FlowInv', PullStep \/ PullThrows
    PROVE  PullFollows'
  <1> DEFINE p == op.path
  <1>0. PullInv /\ PullFollows
    BY DEF SyncInv
  <1>1. CASE Settled
    BY <1>1, SettledFollows DEF StateOK, FlowInv
  <1> SUFFICES ASSUME ~Settled PROVE PullFollows'
    BY <1>1
  <1>2. /\ op # None /\ op \in Pull /\ p \in Path /\ op.record \in Nat /\ op.observed \in Nat
        /\ op.step # "record" => op.target # "defer"
    <2>1. op # None
      BY DEF PullStep, PullThrows, GetRecord, Observe, Read, Recheck, Write, CommitRecord,
         Confirm, AcknowledgePath, Pulling
    <2>2. op \in Pull /\ p \in Path /\ op.record \in Nat /\ op.observed \in Nat
      BY <1>0, <2>1, OpFacts, BoundAssumption DEF Version
    <2> QED
      BY <1>0, <2>1, <2>2 DEF PullFollows
  <1>3. /\ record[p] \in Nat /\ remote[p] \in Nat /\ local[p] \in Nat
        /\ record[p] <= remote[p]
        /\ Superseding /\ op.step \notin Committed => plan[p].remote <= remote[p]
    BY <1>0, <1>2, Numbers DEF SyncInv, FilesInv, Good, Grown, PlanFollows, PullInv, PullOwns
  <1>4. ASSUME NEW s \in PullStage, op' = [op EXCEPT !.step = s]
        PROVE  /\ op'.path = p /\ op'.target = op.target /\ op'.step = s
               /\ op'.record = op.record /\ op'.observed = op.observed
    BY <1>2, <1>4 DEF Pull
  <1>5. CASE GetRecord
    <2>1. /\ op' = [op EXCEPT !.step = "observe", !.record = record[p], !.marked = FALSE]
          /\ UNCHANGED <<record, ctl, plan>> /\ op.target # "defer"
      BY <1>5 DEF GetRecord, Defer, far, run, cycle
    <2>2. op'.path = p /\ op'.target = op.target /\ op'.step = "observe" /\ op'.record = record[p]
      BY <1>2, <2>1 DEF Pull
    <2> QED
      BY <1>2, <2>1, <2>2, AdvanceFollows DEF PullStage
  <1>6. CASE Observe
    <2>1. /\ op' = [op EXCEPT !.step = "read", !.observed = remote[p]] /\ op.step = "observe"
          /\ UNCHANGED <<record, remote, ctl, plan>>
      BY <1>6 DEF Observe, Invalidate, Pulling, far, run, cycle
    <2>2. op'.path = p /\ op'.target = op.target /\ op'.step = "read" /\ op'.record = op.record
          /\ op'.observed = remote[p]
      BY <1>2, <2>1 DEF Pull
    <2>3. op.record = record[p]
      BY <1>0, <1>2, <2>1 DEF PullFollows
    <2>4. Superseding => plan[p].remote <= remote[p]
      BY <1>3, <2>1 DEF Committed
    <2> QED
      BY <1>2, <1>3, <2>1, <2>2, <2>3, <2>4, AdvanceFollows DEF PullStage
  <1>7. CASE Read
    <2>1. /\ op' = [op EXCEPT !.step = "recheck"] /\ op.step = "read"
          /\ UNCHANGED <<record, remote, ctl, plan>>
      BY <1>7 DEF Read, Continue, Invalidate, Pulling, far, run, cycle
    <2>2. /\ op.record = record[p] /\ op.record <= op.observed /\ op.observed <= remote[p]
          /\ Superseding => plan[p].remote <= op.observed
      BY <1>0, <1>2, <2>1 DEF PullFollows
    <2> QED
      BY <1>2, <1>4, <2>1, <2>2, AdvanceFollows DEF PullStage
  <1>8. CASE Recheck
    <2>1. /\ op' = [op EXCEPT !.step = "write"] /\ op.step = "recheck"
          /\ UNCHANGED <<local, record, remote, ctl, plan>> /\ local[p] = op.record
      BY <1>8 DEF Recheck, Continue, Invalidate, Pulling, sides, far, run, cycle
    <2>2. /\ op.record = record[p] /\ op.record <= op.observed /\ op.observed <= remote[p]
          /\ Superseding => plan[p].remote <= op.observed
      BY <1>0, <1>2, <2>1 DEF PullFollows
    <2> QED
      BY <1>2, <1>4, <2>1, <2>2, AdvanceFollows DEF PullStage
  <1>9. CASE Write
    <2>1. /\ op' = [op EXCEPT !.step = "commit"] /\ op.step = "write"
          /\ UNCHANGED <<record, remote, ctl, plan>>
          /\ local' = [local EXCEPT ![p] = op.observed] /\ p \in event'
      BY <1>9 DEF Write, Continue, Pulling, far, run, cycle
    <2>2. /\ op.record = record[p] /\ op.record <= op.observed /\ op.observed <= remote[p]
          /\ Superseding => plan[p].remote <= op.observed
      BY <1>0, <1>2, <2>1 DEF PullFollows
    <2>3. local'[p] = op.observed
      BY <1>0, <1>2, <2>1 DEF PullInv, StateOK, FilesOK
    <2> QED
      BY <1>2, <1>4, <2>1, <2>2, <2>3, AdvanceFollows DEF PullStage
  <1>10. CASE CommitRecord
    <2>1. /\ op' = [op EXCEPT !.step = "confirm", !.marked = FALSE] /\ op.step = "commit"
          /\ record' = [record EXCEPT ![p] = op.observed] /\ UNCHANGED ctl
          /\ Take(p, "superseded")
      BY <1>10 DEF CommitRecord, Pulling, run
    <2>2. op'.path = p /\ op'.target = op.target /\ op'.step = "confirm"
          /\ op'.observed = op.observed
      BY <1>2, <2>1 DEF Pull
    <2>3. record'[p] = op.observed
      BY <1>0, <1>2, <2>1 DEF PullInv, StateOK, FilesOK
    <2>4. op.target = "independent" => plan' = plan
      BY <2>1 DEF Take, Superseding
    <2> QED
      BY <1>2, <2>1, <2>2, <2>3, <2>4, AdvanceFollows DEF PullStage
  <1>11. CASE Confirm
    <2>1. /\ op' = [op EXCEPT !.step = "acknowledge", !.after = local[p]] /\ op.step = "confirm"
          /\ UNCHANGED <<local, record, ctl, plan>>
      BY <1>11 DEF Confirm, Pulling, sides, far, run, cycle
    <2>2. op'.path = p /\ op'.target = op.target /\ op'.step = "acknowledge"
          /\ op'.observed = op.observed /\ op'.after = local[p]
      BY <1>2, <2>1 DEF Pull
    <2>3. record[p] = op.observed
      BY <1>0, <1>2, <2>1 DEF PullFollows
    <2> QED
      BY <1>2, <2>1, <2>2, <2>3, AdvanceFollows DEF PullStage
  <1> QED
    BY <1>5, <1>6, <1>7, <1>8, <1>9, <1>10, <1>11 DEF PullStep, AcknowledgePath, PullThrows

-----------------------------------------------------------------------------
(* The files.                                                               *)

LEMMA Parts ==
    ASSUME SyncInv
    PROVE  /\ PullInv /\ StateOK /\ OpOK /\ FlowInv /\ Phased /\ Holders /\ PullFollows
           /\ edits \in Nat
           /\ \A q \in Path : Good(q) /\ Grown(q) /\ PlanFollows(q)
  BY BoundAssumption DEF SyncInv, PullInv, FlowInv, FilesInv, Good, StateOK, CountOK

(* Steps that touch no file.                                                *)
LEMMA AllStay ==
    ASSUME SyncInv, StateOK', SameAttempt, \A q \in Path : Stays(q)
    PROVE  FilesInv'
  BY Parts, StaysGood DEF FilesInv

(* What happens to p leaves the others alone.                               *)
LEMMA OneMoves ==
    ASSUME SyncInv, StateOK', SameAttempt, NEW p \in Path,
           \A q \in Path \ {p} : Stays(q), Good(p)'
    PROVE  FilesInv'
  BY Parts, StaysGood DEF FilesInv

(* An action comes to a step that says no more of its file than the one     *)
(* before.                                                                  *)
LEMMA StepGood ==
    ASSUME SyncInv, StateOK', SameAttempt, NEW p \in Path, NEW s, PlanStep(p, s), Kept(p),
           \/ s \in {"invalidated", "blocked", "failed"}
           \/ s = "run" /\ plan[p].step = "pending"
           \/ s = "replaced" /\ plan[p].step = "superseded"
           \/ s = "superseded" /\ view[p] <= record[p] /\ local[p] = record[p]
    PROVE  Good(p)'
  <1>1. edits' \in Nat /\ edits <= edits'
    BY BoundAssumption DEF Kept, StateOK, CountOK
  <1>2. Grown(p)'
    BY <1>1, Parts, Numbers DEF Grown, Kept
  <1>3. PlanFollows(p)'
    BY Parts DEF PlanFollows, PlanStep, Kept
  <1>4. Collected' => StillRead(p)'
    <2>1. Collected => ctl \notin Before
      BY DEF Collected, Before
    <2> QED
      BY <2>1, Parts DEF Good, StillRead, PlanStep, Kept, SameAttempt, Heard
  <1> QED
    BY <1>2, <1>3, <1>4, Parts DEF Good, PlanStep, Kept, SameAttempt

(* An edit leaves an event, and its delivery a mark.                        *)
LEMMA UserFiles ==
    ASSUME SyncInv, StateOK', NEW p \in Path,
           LocalEdit(p) \/ RemoteEdit(p) \/ Deliver(p) \/ PullSingle(p)
    PROVE  FilesInv'
  <1>1. SameAttempt
    BY DEF LocalEdit, RemoteEdit, Deliver, PullSingle, run, cycle, SameAttempt, Collected
  <1>2. StateOK /\ edits \in Nat /\ Good(p) /\ Grown(p) /\ PlanFollows(p)
    BY Parts
  <1>3. CASE LocalEdit(p)
    <2>1. /\ UNCHANGED <<remote, record, seen, view, plan, dirty, remarked, ctl, snap>>
          /\ local' = [local EXCEPT ![p] = edits + 2] /\ event' = event \cup {p}
          /\ edits' = edits + 1
      BY <1>3 DEF LocalEdit, Edit, far, cycle, tracker, run
    <2>2. \A q \in Path \ {p} : Stays(q)
      BY <1>2, <2>1 DEF Stays, Kept, Heard, StateOK, FilesOK
    <2>3. local'[p] = edits + 2 /\ p \in event'
      BY <1>2, <2>1 DEF StateOK, FilesOK
    <2>4. Grown(p)'
      BY <1>2, <2>1, <2>3, Numbers DEF Grown
    <2>5. PlanFollows(p)'
      <3>1. plan[p] # None => plan[p].local \in Nat /\ plan[p].remote \in Nat
        BY <1>2, Numbers
      <3>2. plan[p] # None /\ Term(plan[p]) <= local[p] => Term(plan[p]) <= edits + 2
        BY <1>2, <3>1, Numbers DEF Grown, Term
      <3> QED
        BY <1>2, <2>1, <2>3, <3>2 DEF PlanFollows, Heard, Term
    <2>6. Good(p)'
      BY <1>1, <1>2, <2>1, <2>3, <2>4, <2>5 DEF Good, StillRead, Heard, SameAttempt
    <2> QED
      BY <1>1, <2>2, <2>6, OneMoves
  <1>4. CASE RemoteEdit(p)
    <2>1. /\ UNCHANGED <<local, event, record, seen, view, plan, dirty, remarked, ctl, snap>>
          /\ remote' = [remote EXCEPT ![p] = edits + 2] /\ edits' = edits + 1
      BY <1>4 DEF RemoteEdit, Edit, sides, cycle, tracker, run
    <2>2. \A q \in Path \ {p} : Stays(q)
      BY <1>2, <2>1 DEF Stays, Kept, Heard, StateOK, FilesOK
    <2>3. remote'[p] = edits + 2
      BY <1>2, <2>1 DEF StateOK, FilesOK
    <2>4. Grown(p)'
      BY <1>2, <2>1, <2>3, Numbers DEF Grown
    <2>5. PlanFollows(p)'
      <3>1. remote[p] <= edits + 2 /\ remote[p] \in Nat
        BY <1>2, Numbers DEF Grown
      <3>2. plan[p] # None => plan[p].local \in Nat /\ plan[p].remote \in Nat
        BY <1>2, Numbers
      <3>3. plan[p] # None /\ Term(plan[p]) <= remote[p] => Term(plan[p]) <= edits + 2
        BY <1>2, <3>1, <3>2 DEF Term
      <3>4. plan[p] # None => plan[p].remote <= edits + 2
        BY <1>2, <3>1, <3>2 DEF PlanFollows
      <3> QED
        BY <1>2, <2>1, <2>3, <3>3, <3>4 DEF PlanFollows, Heard, Term
    <2>6. Good(p)'
      BY <1>1, <1>2, <2>1, <2>3, <2>4, <2>5 DEF Good, StillRead, Heard, SameAttempt
    <2> QED
      BY <1>1, <2>2, <2>6, OneMoves
  <1>5. CASE Deliver(p)
    <2>1. /\ UNCHANGED <<local, remote, record, seen, view, plan, edits>>
          /\ event' = event \ {p} /\ dirty' = dirty \cup {p} /\ remarked \subseteq remarked'
          /\ ctl \notin Before => p \in remarked'
      BY <1>5 DEF Deliver, Marked, Before, far, cycle, budget
    <2>2. \A q \in Path : Stays(q)
      BY <1>2, <2>1 DEF Stays, Kept, Heard
    <2> QED
      BY <1>1, <2>2, AllStay
  <1>6. CASE PullSingle(p)
    <2>1. UNCHANGED <<local, event, remote, record, seen, view, plan, dirty, remarked, edits>>
      BY <1>6 DEF PullSingle, sides, far, cycle, tracker
    <2>2. \A q \in Path : Stays(q)
      BY <1>2, <2>1 DEF Stays, Kept, Heard
    <2> QED
      BY <1>1, <2>2, AllStay
  <1> QED
    BY <1>3, <1>4, <1>5, <1>6

LEMMA RunFiles ==
    ASSUME SyncInv, StateOK', RunSync \/ TriggerSync
    PROVE  FilesInv'
  <1>1. SameAttempt
    BY DEF RunSync, TriggerSync, Unlocked, cycle, SameAttempt, Collected
  <1>2. UNCHANGED <<local, event, remote, record, seen, view, plan, dirty, remarked, edits>>
    BY DEF RunSync, TriggerSync, sides, far, cycle, tracker, budget
  <1>3. \A q \in Path : Stays(q)
    BY <1>2, Parts DEF Stays, Kept, Heard
  <1> QED
    BY <1>1, <1>3, AllStay

(* A request for a cycle does not disturb the attempt.                      *)
LEMMA PullAttempt ==
    ASSUME PullStep \/ PullThrows
    PROVE  SameAttempt /\ (ctl' = ctl \/ (ctl = "idle" /\ ctl' = "again"))
           /\ UNCHANGED <<seen, view, batch, completion, snap>>
  <1> USE RequestFlow DEF run, cycle, far, Collected, SameAttempt
  <1>1. CASE GetRecord
    BY <1>1 DEF GetRecord, Defer
  <1>2. CASE Observe \/ Read \/ Recheck \/ Write \/ Confirm \/ AcknowledgePath
    BY <1>2 DEF Observe, Read, Recheck, Write, Confirm, AcknowledgePath, Invalidate, Invalidated
  <1>3. CASE CommitRecord
    BY <1>3 DEF CommitRecord, Invalidated
  <1>4. CASE PullThrows
    BY <1>4 DEF PullThrows
  <1> QED
    BY <1>1, <1>2, <1>3, <1>4 DEF PullStep

(* A pull that found something else leaves the files alone and takes the    *)
(* action out.                                                              *)
LEMMA InvalidatedFiles ==
    ASSUME SyncInv, StateOK', SameAttempt, op # None, op.step \notin Committed, Invalidated,
           \A q \in Path : Kept(q)
    PROVE  FilesInv'
  <1>0. PICK p \in Path : p = op.path
    BY Parts, OpFacts
  <1>1. p = op.path /\ p \in Path /\ Take(p, "invalidated") /\ PullInv
    BY <1>0, Parts, OpFacts DEF Invalidated
  <1>2. CASE Superseding
    <2>1. PlanStep(p, "invalidated")
      BY <1>1, <1>2, Taken DEF Progress
    <2>2. Good(p)'
      BY <1>1, <2>1, StepGood
    <2>3. \A q \in Path \ {p} : Stays(q)
      BY <2>1 DEF Stays, PlanStep
    <2> QED
      BY <1>1, <2>2, <2>3, OneMoves
  <1>3. CASE ~Superseding
    <2>1. plan' = plan
      BY <1>1, <1>3 DEF Take
    <2> QED
      BY <2>1, AllStay DEF Stays
  <1> QED
    BY <1>2, <1>3

LEMMA InvalidateFiles ==
    ASSUME SyncInv, StateOK', SameAttempt, op # None, op.step \notin Committed, Invalidate
    PROVE  FilesInv'
  <1>1. UNCHANGED <<local, event, remote, record, seen, view, dirty, remarked, edits>>
    BY DEF Invalidate, Invalidated, sides, far, tracker, budget
  <1>2. \A q \in Path : Kept(q)
    BY <1>1, Parts DEF Kept, Heard
  <1> QED
    BY <1>2, InvalidatedFiles DEF Invalidate

LEMMA QuietFiles ==
    ASSUME SyncInv, StateOK', SameAttempt,
           UNCHANGED <<local, event, remote, record, seen, view, plan, dirty, remarked, edits>>
    PROVE  FilesInv'
  <1>1. \A q \in Path : Stays(q)
    BY Parts DEF Stays, Kept, Heard
  <1> QED
    BY <1>1, AllStay

(* A pull that finds its file current replaces an action that would find    *)
(* the same.                                                                *)
LEMMA ObserveFiles ==
    ASSUME SyncInv, StateOK', Observe
    PROVE  FilesInv'
  <1>0. PICK p \in Path : p = op.path
    BY Parts, OpFacts DEF Observe, Pulling
  <1>1. op # None /\ op.step = "observe" /\ op.step \notin Committed /\ p = op.path /\ PullInv
        /\ SameAttempt
    BY <1>0, Parts, OpFacts, PullAttempt DEF Observe, Pulling, Committed, PullStep
  <1>2. CASE Invalidate
    BY <1>1, <1>2, InvalidateFiles
  <1>3. CASE /\ local[p] = op.record /\ remote[p] = op.record /\ record[p] = op.record
             /\ Take(p, "superseded")
             /\ UNCHANGED <<sides, far, tracker, view, budget>>
    <2>1. \A q \in Path : Kept(q)
      BY <1>3, Parts DEF Kept, Heard, sides, far, tracker, budget
    <2>2. CASE Superseding
      <3>1. PlanStep(p, "superseded") /\ plan[p].step = "pending" /\ plan[p] # None
        BY <1>1, <1>3, <2>2, Taken DEF Progress, PlanStep
      <3>2. view[p] <= record[p]
        BY <1>1, <1>3, <3>1, Parts DEF PlanFollows
      <3>3. Good(p)'
        BY <1>1, <1>3, <2>1, <3>1, <3>2, StepGood
      <3>4. \A q \in Path \ {p} : Stays(q)
        BY <2>1, <3>1 DEF Stays, PlanStep
      <3> QED
        BY <1>1, <3>3, <3>4, OneMoves
    <2>3. CASE ~Superseding
      BY <1>1, <1>3, <2>1, <2>3, AllStay DEF Take, Stays
    <2> QED
      BY <2>2, <2>3
  <1>4. CASE UNCHANGED <<coordinator, sides, far, tracker, run, cycle, budget>>
    BY <1>1, <1>4, QuietFiles DEF sides, far, tracker, cycle, budget
  <1> QED
    <2>1. Invalidate \/ local[p] = op.record
      BY <1>1 DEF Observe
    <2>2. CASE ~Invalidate /\ remote[p] = op.record
      BY <1>1, <1>3, <2>1, <2>2 DEF Observe
    <2>3. CASE ~Invalidate /\ remote[p] # op.record
      BY <1>1, <1>4, <2>1, <2>3 DEF Observe
    <2> QED
      BY <1>2, <2>2, <2>3

(* What the pull writes leaves an event, and no action is at work on the    *)
(* file.                                                                    *)
LEMMA WriteFiles ==
    ASSUME SyncInv, StateOK', Write
    PROVE  FilesInv'
  <1>0. PICK p \in Path : p = op.path
    BY Parts, OpFacts DEF Write, Pulling
  <1>1. op # None /\ op.step = "write" /\ p = op.path /\ PullInv /\ SameAttempt
        /\ op.observed \in Nat
    BY <1>0, Parts, OpFacts, PullAttempt, BoundAssumption DEF Write, Pulling, PullStep, Version
  <1>2. /\ UNCHANGED <<remote, record, seen, view, plan, dirty, remarked, edits, snap>>
        /\ local' = [local EXCEPT ![p] = op.observed] /\ event' = event \cup {p}
    BY <1>1, PullAttempt DEF Write, PullStep, far, cycle, tracker, budget
  <1>3. \A q \in Path \ {p} : Stays(q)
    BY <1>1, <1>2, Parts DEF Stays, Kept, Heard, StateOK, FilesOK
  <1>4. local'[p] = op.observed /\ p \in event'
    BY <1>1, <1>2, Parts DEF StateOK, FilesOK
  <1>5. record[p] = op.record /\ op.record <= op.observed /\ op.observed <= remote[p]
    BY <1>1, Parts DEF PullFollows
  <1>6. Grown(p)'
    BY <1>1, <1>2, <1>4, <1>5, Parts, Numbers DEF Grown
  <1>7. plan[p] # None => plan[p].step \notin {"run", "publish"}
    BY <1>1, Parts, AloneAtSafePoint DEF Phased
  <1>8. PlanFollows(p)'
    BY <1>1, <1>2, <1>7, Parts DEF PlanFollows
  <1>9. Good(p)'
    BY <1>1, <1>2, <1>4, <1>6, <1>8, Parts DEF Good, StillRead, Heard, SameAttempt
  <1> QED
    BY <1>1, <1>3, <1>9, OneMoves

(* The record never overtakes either side, and what the attempt saw is      *)
(* behind it.                                                               *)
LEMMA CommitFiles ==
    ASSUME SyncInv, StateOK', CommitRecord
    PROVE  FilesInv'
  <1>0. PICK p \in Path : p = op.path
    BY Parts, OpFacts DEF CommitRecord, Pulling
  <1>1. /\ op # None /\ op.step = "commit" /\ op.step \notin Committed /\ p = op.path /\ PullInv
        /\ SameAttempt /\ op.observed \in Nat /\ Pulling("commit") /\ op.target \in Target
        /\ UNCHANGED <<seen, view, snap>>
    <2>1. Pulling("commit") /\ op # None /\ op.step = "commit" /\ op.step \notin Committed
      BY DEF CommitRecord, Pulling, Committed
    <2>2. SameAttempt /\ UNCHANGED <<seen, view, snap>>
      BY PullAttempt DEF PullStep
    <2>3. op.observed \in Nat /\ op.target \in Target
      BY <2>1, Parts, OpFacts, BoundAssumption DEF Version, Pull
    <2> QED
      BY <1>0, <2>1, <2>2, <2>3, Parts
  <1>2. CASE /\ UNCHANGED <<budget, sides, remote, seen, tracker, run>>
             /\ record' = [record EXCEPT ![p] = op.observed]
             /\ Take(p, "superseded")
    <2>1. UNCHANGED <<local, event, remote, dirty, remarked, edits, ctl>>
          /\ record'[p] = op.observed
      BY <1>1, <1>2, Parts DEF StateOK, FilesOK, sides, tracker, run, budget
    <2>2. Superseding => PlanStep(p, "superseded") /\ plan[p].step = "pending" /\ plan[p] # None
      BY <1>1, <1>2, Taken DEF Progress, PlanStep
    <2>3. ~Superseding => plan' = plan
      BY <1>2 DEF Take
    <2>4. \A q \in Path \ {p} : Stays(q)
      BY <1>1, <1>2, <2>1, <2>2, <2>3, Parts DEF Stays, Kept, Heard, StateOK, FilesOK, PlanStep
    <2>5. /\ record[p] = op.record /\ op.record <= op.observed /\ op.observed <= remote[p]
          /\ op.observed <= local[p] /\ p \in event \cup dirty
          /\ Superseding => plan[p].remote <= op.observed
          /\ op.target # "defer" /\ ctl # "closed" /\ (ctl \in Open => Heard(p))
          /\ op.target = "independent" => plan[p] = None
      BY <1>1, Parts DEF PullFollows
    <2>6. Grown(p)'
      BY <1>1, <2>1, <2>5, Parts, Numbers DEF Grown
    <2>7. PlanFollows(p)'
      <3>1. CASE Superseding
        <4>1. plan'[p] # None /\ plan'[p].step = "superseded" /\ plan'[p].kind = plan[p].kind
              /\ plan'[p].local = plan[p].local /\ plan'[p].remote = plan[p].remote
          BY <2>2, <3>1 DEF PlanStep
        <4>2. view[p] <= op.observed
          BY <2>2, <2>5, <3>1, Parts, <1>1 DEF PlanFollows
        <4> QED
          BY <1>1, <2>1, <2>2, <3>1, <4>1, <4>2, Parts DEF PlanFollows
      <3>2. CASE ~Superseding
        <4>1. plan'[p] = None
          BY <1>1, <2>3, <2>5, <3>2 DEF Superseding, Target
        <4> QED
          BY <4>1 DEF PlanFollows
      <3> QED
        BY <3>1, <3>2
    <2>8. Collected => ctl \in Open \/ ctl = "closed"
      BY DEF Collected, Open
    <2>9. Collected' => StillRead(p)'
      BY <1>1, <2>1, <2>5, <2>8 DEF StillRead, Heard, SameAttempt
    <2>10. Collected' /\ plan'[p] = None => view'[p] <= record'[p]
      <3>1. plan'[p] = None => plan[p] = None
        BY <2>2, <2>3 DEF PlanStep
      <3>2. Collected /\ plan[p] = None => view[p] <= record[p]
        BY <1>1, Parts DEF Good
      <3>3. view[p] \in Nat /\ record[p] \in Nat
        BY <1>1, Parts, Numbers
      <3> QED
        BY <1>1, <2>1, <2>5, <3>1, <3>2, <3>3 DEF SameAttempt
    <2>11. Good(p)'
      BY <2>1, <2>5, <2>6, <2>7, <2>9, <2>10 DEF Good
    <2> QED
      BY <1>1, <2>4, <2>11, OneMoves
  <1>3. CASE Marked(p) /\ UNCHANGED <<sides, far>> /\ Invalidated /\ edits' = edits
    <2>1. UNCHANGED <<local, event, remote, record, seen, view>> /\ dirty \subseteq dirty'
          /\ remarked \subseteq remarked'
      BY <1>1, <1>3 DEF sides, far, Marked, Invalidated
    <2>2. \A q \in Path : Kept(q)
      BY <1>3, <2>1, Parts DEF Kept, Heard
    <2> QED
      BY <1>1, <1>3, <2>2, InvalidatedFiles
  <1> QED
    BY <1>1, <1>2, <1>3, ActionStillPending DEF CommitRecord, Fault, budget

(* The pull takes a mark back only if the file is what the record says or   *)
(* an event is due.                                                         *)
LEMMA AcknowledgedFiles ==
    ASSUME SyncInv, StateOK', AcknowledgePath
    PROVE  FilesInv'
  <1>0. PICK p \in Path : p = op.path
    BY Parts, OpFacts DEF AcknowledgePath, Pulling
  <1>1. op # None /\ op.step = "acknowledge" /\ p = op.path /\ SameAttempt
    BY <1>0, Parts, OpFacts, PullAttempt DEF AcknowledgePath, Pulling, PullStep
  <1>2. /\ UNCHANGED <<local, remote, record, seen, view, plan, event, remarked, edits>>
        /\ dirty' = IF op.after = op.observed /\ ~op.marked THEN dirty \ {p} ELSE dirty
    BY <1>1 DEF AcknowledgePath, sides, far, cycle, budget
  <1>3. op.after = op.observed /\ ~op.marked => local[p] = record[p] \/ p \in event
    BY <1>1, Parts DEF PullFollows
  <1>4. \A q \in Path : Good(q)'
    <2> SUFFICES ASSUME NEW q \in Path PROVE Good(q)'
      OBVIOUS
    <2>1. local'[q] # record'[q] => q \in event' \cup dirty'
      BY <1>2, <1>3, Parts DEF Good
    <2>2. PlanFollows(q)'
      <3>1. plan[q] # None => plan[q].step # "publish"
        BY <1>1, Parts, AloneAtSafePoint DEF Phased
      <3> QED
        BY <1>2, <3>1, Parts DEF PlanFollows
    <2>3. Grown(q)' /\ (Collected' => StillRead(q)')
      BY <1>1, <1>2, Parts DEF Good, Grown, StillRead, Heard, SameAttempt
    <2> QED
      BY <1>1, <1>2, <2>1, <2>2, <2>3, Parts DEF Good, SameAttempt
  <1> QED
    BY <1>4 DEF FilesInv

(* No other step of the pull touches a file.                                *)
LEMMA PullFiles ==
    ASSUME SyncInv, StateOK', PullStep \/ PullThrows
    PROVE  FilesInv'
  <1>0. SameAttempt
    BY PullAttempt
  <1>1. CASE GetRecord \/ Confirm \/ PullThrows
    <2>1. UNCHANGED <<local, event, remote, record, seen, view, plan, dirty, remarked, edits>>
      BY <1>1 DEF GetRecord, Defer, Confirm, PullThrows, Fault, sides, far, tracker, cycle, budget
    <2> QED
      BY <1>0, <2>1, QuietFiles
  <1>2. CASE Read \/ Recheck
    <2>1. op # None /\ op.step \notin Committed
      BY <1>2 DEF Read, Recheck, Pulling, Committed
    <2>2. CASE Invalidate
      BY <1>0, <2>1, <2>2, InvalidateFiles
    <2>3. CASE ~Invalidate
      <3>1. UNCHANGED <<local, event, remote, record, seen, view, plan, dirty, remarked, edits>>
        BY <1>2, <2>3 DEF Read, Recheck, sides, far, tracker, cycle, budget
      <3> QED
        BY <1>0, <3>1, QuietFiles
    <2> QED
      BY <2>2, <2>3
  <1> QED
    BY <1>1, <1>2, ObserveFiles, WriteFiles, CommitFiles, AcknowledgedFiles DEF PullStep

(* An action does not disturb the attempt.                                  *)
LEMMA ActionAttempt ==
    ASSUME NEW p \in Path, ActionStep(p) \/ Fails(p)
    PROVE  SameAttempt /\ UNCHANGED <<seen, dirty, remarked, ctl, snap>> /\ edits' = edits
  BY DEF ActionStep, StartAction, BeginAction, Effect, Publish, Resolve, Fails, Fault, SameAttempt,
     Collected, run, cycle, far, tracker, budget

LEMMA BeginFiles ==
    ASSUME SyncInv, StateOK', NEW p \in Path, BeginAction(p) \/ Fails(p)
    PROVE  FilesInv'
  <1>1. /\ plan[p] # None /\ SameAttempt
        /\ UNCHANGED <<local, event, remote, record, seen, view, dirty, remarked, edits>>
    BY ActionAttempt DEF ActionStep, BeginAction, Fails, Working, sides, far, tracker, budget, Fault
  <1>2. \A q \in Path : Kept(q)
    BY <1>1, Parts DEF Kept, Heard
  <1>3. ASSUME NEW s \in Progress, plan' = [plan EXCEPT ![p].step = s],
               \/ s \in {"blocked", "failed"}
               \/ s = "run" /\ plan[p].step = "pending"
               \/ s = "replaced" /\ plan[p].step = "superseded"
        PROVE  FilesInv'
    <2>1. PlanStep(p, s)
      BY <1>1, <1>3, Stepped, Parts
    <2>2. Good(p)'
      BY <1>1, <1>2, <1>3, <2>1, StepGood
    <2>3. \A q \in Path \ {p} : Stays(q)
      BY <1>2, <2>1 DEF Stays, PlanStep
    <2> QED
      BY <1>1, <2>2, <2>3, OneMoves
  <1> QED
    BY <1>3 DEF BeginAction, Fails, End, Progress

(* The effect leaves the planned version on both sides and in the view, and *)
(* an event of what it wrote here.                                          *)
LEMMA EffectFiles ==
    ASSUME SyncInv, StateOK', NEW p \in Path, Effect(p)
    PROVE  FilesInv'
  <1>1. /\ plan[p] # None /\ p \in active /\ plan[p].step = "run" /\ SameAttempt
        /\ UNCHANGED <<record, seen, dirty, remarked, edits, ctl, snap>>
    BY ActionAttempt DEF ActionStep, Effect, Working, budget
  <1>2. plan[p].kind \in {"push", "pull", "match"}
    <2>1. plan[p] \in Action /\ Pooled(p)
      BY <1>1, Parts DEF StateOK, PlanOK, Holders
    <2> QED
      BY <2>1 DEF Action, Pooled
  <1>3. /\ plan[p].local \in Nat /\ plan[p].remote \in Nat /\ local[p] \in Nat /\ remote[p] \in Nat
        /\ record[p] \in Nat /\ seen[p] \in Nat /\ edits \in Nat
    BY <1>1, Parts, Numbers
  <1>4. CASE ~Unmoved(p)
    <2>1. UNCHANGED <<local, event, remote, view>> /\ plan' = [plan EXCEPT ![p].step = "failed"]
      BY <1>4 DEF Effect, End
    <2>2. \A q \in Path : Kept(q)
      BY <1>1, <2>1, Parts DEF Kept, Heard
    <2>3. PlanStep(p, "failed")
      BY <1>1, <2>1, Stepped, Parts DEF Progress
    <2>4. Good(p)'
      BY <1>1, <2>2, <2>3, StepGood
    <2>5. \A q \in Path \ {p} : Stays(q)
      BY <2>2, <2>3 DEF Stays, PlanStep
    <2> QED
      BY <1>1, <2>4, <2>5, OneMoves
  <1>5. CASE Unmoved(p)
    <2>1. PlanStep(p, "publish")
      BY <1>1, <1>5, Stepped, Parts DEF Effect, Progress
    <2>2. local[p] = plan[p].local /\ remote[p] = plan[p].remote
      BY <1>5 DEF Unmoved
    <2>3. /\ view[p] = plan[p].remote /\ (plan[p].kind = "match" => local[p] = remote[p])
          /\ (plan[p].kind = "push" => remote[p] <= local[p])
          /\ (plan[p].kind = "pull" => record[p] = local[p])
      BY <1>1, <2>2, Parts DEF PlanFollows
    <2>4. /\ \A q \in Path \ {p} : /\ local'[q] = local[q] /\ remote'[q] = remote[q]
                                   /\ view'[q] = view[q]
          /\ event \subseteq event'
          /\ local'[p] = (IF plan[p].kind = "pull" THEN remote[p] ELSE local[p])
          /\ remote'[p] = (IF plan[p].kind = "push" THEN local[p] ELSE remote[p])
          /\ view'[p] = (IF plan[p].kind = "push" THEN local[p] ELSE view[p])
          /\ plan[p].kind = "pull" => p \in event'
      BY <1>5, Parts DEF Effect, StateOK, FilesOK
    <2>5. \A q \in Path \ {p} : Stays(q)
      BY <1>1, <1>3, <2>1, <2>4 DEF Stays, Kept, PlanStep, Heard
    <2>6. plan'[p] # None /\ plan'[p].step = "publish" /\ plan'[p].kind = plan[p].kind
          /\ plan'[p].local = plan[p].local /\ plan'[p].remote = plan[p].remote
      BY <2>1 DEF PlanStep
    <2>7. Grown(p)'
      BY <1>1, <1>2, <1>3, <2>4, Parts DEF Grown
    <2>8. Term(plan'[p]) = remote'[p] /\ Term(plan'[p]) = local'[p] /\ view'[p] = remote'[p]
      BY <1>2, <2>2, <2>3, <2>4, <2>6, <1>3, Parts DEF Term
    <2>9. remote'[p] \in Nat /\ plan[p].remote <= remote'[p]
      BY <1>3, <2>2, <2>3, <2>4
    <2>10. PlanFollows(p)'
      <3>1. record'[p] <= remote'[p]
        BY <2>7 DEF Grown
      <3>2. plan[p].kind # "conflict" /\ (plan[p].kind = "match" => plan[p].local = plan[p].remote)
            /\ (plan[p].kind = "push" => plan[p].remote <= plan[p].local)
        BY <1>1, <1>2, Parts DEF PlanFollows
      <3>3. plan[p].kind = "pull" => p \in event'
        BY <2>4
      <3> QED
        BY <2>6, <2>8, <2>9, <3>1, <3>2, <3>3 DEF PlanFollows, Heard, Term
    <2>11. StillRead(p)'
      BY <2>2, <2>4, <2>6 DEF StillRead, Heard
    <2>12. local'[p] # record'[p] => p \in event' \cup dirty'
      BY <1>1, <2>4, Parts DEF Good
    <2> QED
      BY <1>1, <2>5, <2>6, <2>7, <2>10, <2>11, <2>12, OneMoves DEF Good
  <1> QED
    BY <1>4, <1>5

(* The record becomes what both sides were given.                           *)
LEMMA PublishFiles ==
    ASSUME SyncInv, StateOK', NEW p \in Path, Publish(p)
    PROVE  FilesInv'
  <1>1. /\ plan[p] # None /\ p \in active /\ plan[p].step = "publish" /\ SameAttempt
        /\ UNCHANGED <<local, event, remote, view, seen, dirty, remarked, edits, ctl, snap>>
    BY ActionAttempt DEF ActionStep, Publish, Working, sides, budget
  <1>2. plan[p].kind \in {"push", "pull", "match"}
    <2>1. plan[p] \in Action /\ Pooled(p)
      BY <1>1, Parts DEF StateOK, PlanOK, Holders
    <2> QED
      BY <2>1 DEF Action, Pooled
  <1>3. /\ record' = [record EXCEPT ![p] = Term(plan[p])] /\ PlanStep(p, "done")
    BY <1>1, Stepped, Parts DEF Publish, End, Term, Progress
  <1>4. record'[p] = Term(plan[p]) /\ \A q \in Path \ {p} : Stays(q)
    BY <1>1, <1>3, Parts DEF Stays, Kept, PlanStep, Heard, StateOK, FilesOK
  <1>5. /\ view[p] = Term(plan[p]) /\ record[p] <= Term(plan[p])
        /\ Term(plan[p]) <= remote[p] /\ Term(plan[p]) <= local[p]
        /\ local[p] # Term(plan[p]) => p \in event \cup dirty
        /\ plan[p].kind = "pull" => Heard(p)
        /\ plan[p].kind = "match" => plan[p].local = plan[p].remote
    BY <1>1, Parts DEF PlanFollows
  <1>6. Term(plan[p]) \in Nat /\ record[p] \in Nat /\ seen[p] \in Nat
    BY <1>1, Parts, Numbers DEF Term
  <1>7. Grown(p)'
    BY <1>1, <1>4, <1>5, <1>6, Parts DEF Grown
  <1>8. plan'[p] # None /\ plan'[p].step = "done" /\ plan'[p].kind = plan[p].kind
        /\ plan'[p].local = plan[p].local /\ plan'[p].remote = plan[p].remote
    BY <1>3 DEF PlanStep
  <1>9. PlanFollows(p)'
    BY <1>1, <1>4, <1>5, <1>6, <1>8, Parts DEF PlanFollows
  <1>10. Collected' => StillRead(p)'
    <2>1. plan[p].kind # "pull" => Term(plan[p]) = plan[p].local
      BY <1>2, <1>5 DEF Term
    <2>2. Collected' => StillRead(p) /\ snap' = snap
      BY <1>1, Parts DEF Good, SameAttempt
    <2> QED
      BY <1>1, <1>4, <1>5, <1>8, <2>1, <2>2 DEF StillRead, Heard
  <1>11. Good(p)'
    BY <1>1, <1>4, <1>5, <1>7, <1>8, <1>9, <1>10 DEF Good
  <1> QED
    BY <1>1, <1>4, <1>11, OneMoves

(* A conflict is resolved alone: both sides, the record and the view move   *)
(* together.                                                                *)
LEMMA ResolveFiles ==
    ASSUME SyncInv, StateOK', NEW p \in Path, Resolve(p)
    PROVE  FilesInv'
  <1>1. /\ plan[p] # None /\ plan[p].kind = "conflict" /\ plan[p].step = "pending" /\ SameAttempt
        /\ UNCHANGED <<seen, dirty, remarked, edits, ctl, snap>>
    BY ActionAttempt DEF ActionStep, Resolve, Conflicts
  <1>2. CASE ~Unmoved(p)
    <2>1. UNCHANGED <<local, event, remote, record, view>>
          /\ plan' = [plan EXCEPT ![p].step = "failed"]
      BY <1>2 DEF Resolve
    <2>2. \A q \in Path : Kept(q)
      BY <1>1, <2>1, Parts DEF Kept, Heard
    <2>3. PlanStep(p, "failed")
      BY <1>1, <2>1, Stepped, Parts DEF Progress
    <2>4. Good(p)'
      BY <1>1, <2>2, <2>3, StepGood
    <2>5. \A q \in Path \ {p} : Stays(q)
      BY <2>2, <2>3 DEF Stays, PlanStep
    <2> QED
      BY <1>1, <2>4, <2>5, OneMoves
  <1>3. CASE Unmoved(p)
    <2> DEFINE n == Newer(p)
    <2>1. /\ local' = [local EXCEPT ![p] = n] /\ remote' = [remote EXCEPT ![p] = n]
          /\ record' = [record EXCEPT ![p] = n] /\ view' = [view EXCEPT ![p] = n]
          /\ event' = event \cup {p}
      BY <1>3 DEF Resolve
    <2>2. PlanStep(p, "done")
      BY <1>1, <1>3, Stepped, Parts DEF Resolve, Progress
    <2>3. /\ n \in Nat /\ local[p] <= n /\ remote[p] <= n /\ n \in {local[p], remote[p]}
          /\ edits \in Nat /\ record[p] \in Nat /\ seen[p] \in Nat /\ remote[p] \in Nat
      BY Parts, Numbers DEF Newer
    <2> HIDE DEF n
    <2>4. /\ local'[p] = n /\ remote'[p] = n /\ record'[p] = n /\ view'[p] = n /\ p \in event'
          /\ \A q \in Path \ {p} : Stays(q)
      BY <1>1, <2>1, <2>2, Parts DEF Stays, Kept, PlanStep, Heard, StateOK, FilesOK
    <2>5. Grown(p)'
      BY <1>1, <2>3, <2>4, Parts DEF Grown
    <2>6. plan'[p] # None /\ plan'[p].step = "done" /\ plan'[p].kind = "conflict"
          /\ plan'[p].local = plan[p].local /\ plan'[p].remote = plan[p].remote
      BY <1>1, <2>2 DEF PlanStep
    <2>7. plan[p].remote <= n
      BY <1>3, <2>3 DEF Unmoved
    <2>8. PlanFollows(p)'
      BY <2>3, <2>4, <2>6, <2>7 DEF PlanFollows
    <2>9. Good(p)'
      BY <2>4, <2>5, <2>6, <2>8 DEF Good, StillRead, Heard
    <2> QED
      BY <1>1, <2>4, <2>9, OneMoves
  <1> QED
    BY <1>2, <1>3

LEMMA ActionFiles ==
    ASSUME SyncInv, StateOK', NEW p \in Path, ActionStep(p) \/ Fails(p)
    PROVE  FilesInv'
  <1>1. CASE StartAction(p)
    <2>1. UNCHANGED <<local, event, remote, record, seen, view, plan, dirty, remarked, edits>>
      BY <1>1 DEF StartAction, sides, far, tracker, cycle, budget
    <2> QED
      BY <2>1, QuietFiles, ActionAttempt
  <1> QED
    BY <1>1, BeginFiles, EffectFiles, PublishFiles, ResolveFiles DEF ActionStep

(* What collection plans is what it saw, and what it does not plan is as    *)
(* recorded.                                                                *)
LEMMA CollectFiles ==
    ASSUME SyncInv, StateOK', Collect
    PROVE  FilesInv'
  <1>1. /\ UNCHANGED <<local, event, remote, record, seen, dirty, remarked, edits, snap>>
        /\ view' = remote /\ plan' = [q \in Path |-> Admitted(q)]
    BY DEF Collect, sides, far, tracker, budget
  <1> SUFFICES ASSUME NEW q \in Path PROVE Good(q)'
    BY DEF FilesInv
  <1>2. /\ local[q] \in Nat /\ remote[q] \in Nat /\ record[q] \in Nat /\ seen[q] \in Nat
        /\ record[q] <= local[q] /\ record[q] <= remote[q] /\ seen[q] <= record[q]
    BY Parts, Numbers DEF Grown
  <1>3. Grown(q)' /\ (local'[q] # record'[q] => q \in event' \cup dirty')
    BY <1>1, Parts DEF Grown, Good
  <1>4. CASE plan'[q] = None
    <2>1. Admitted(q) = None
      BY <1>1, <1>4
    <2>2. [kind |-> Decided(q), step |-> "pending", local |-> local[q], remote |-> remote[q]] # None
      BY Parts, NoneAssumption DEF Action, Decided, Progress, StateOK, FilesOK
    <2>3. q \notin Entries \/ (local[q] = record[q] /\ remote[q] = record[q])
      BY <2>1, <2>2 DEF Admitted
    <2>4. q \notin Entries => q \notin snap /\ remote[q] = seen[q]
      BY DEF Entries, Told
    <2>5. remote[q] <= record[q]
      BY <1>2, <2>3, <2>4
    <2> QED
      BY <1>1, <1>3, <1>4, <2>3, <2>4, <2>5 DEF Good, PlanFollows, StillRead
  <1>5. CASE plan'[q] # None
    <2>1. Admitted(q) # None /\ plan'[q] = Admitted(q)
      BY <1>1, <1>5
    <2>2. /\ plan'[q].kind = Decided(q) /\ plan'[q].step = "pending"
          /\ plan'[q].local = local[q] /\ plan'[q].remote = remote[q]
      BY <2>1 DEF Admitted
    <2>3. PlanFollows(q)'
      <3>1. /\ Decided(q) = "match" => local[q] = remote[q]
            /\ Decided(q) = "push" => remote[q] <= local[q]
            /\ Decided(q) = "pull" => record[q] = local[q]
        BY <1>2 DEF Decided
      <3> QED
        BY <1>1, <1>2, <2>2, <3>1 DEF PlanFollows
    <2>4. StillRead(q)'
      BY <1>1, <1>5, <2>2 DEF StillRead
    <2> QED
      BY <1>3, <1>5, <2>3, <2>4 DEF Good
  <1> QED
    BY <1>4, <1>5

(* A clean close commits a view that is nowhere ahead of the records.       *)
LEMMA CloseOutFiles ==
    ASSUME SyncInv, StateOK', CloseOut
    PROVE  FilesInv'
  <1>1. /\ UNCHANGED <<local, event, remote, record, view, plan, dirty, remarked, edits, snap>>
        /\ ctl = "closing" /\ ctl' = "closed"
    BY Parts DEF CloseOut, sides, tracker, FlowInv, Closers, budget, Fault
  <1>2. completion' # "thrown" => completion # "thrown"
    BY DEF CloseOut
  <1>3. SameAttempt
    BY <1>1, <1>2 DEF SameAttempt, Collected
  <1>4. CASE seen' = seen
    BY <1>1, <1>3, <1>4, QuietFiles
  <1>5. CASE seen' # seen
    <2>1. seen' = view /\ EveryActionFinished /\ Collected
      BY <1>1, <1>5 DEF CloseOut, CompletionOf, Collected
    <2> SUFFICES ASSUME NEW q \in Path PROVE Good(q)'
      BY DEF FilesInv
    <2>2. view[q] <= record[q]
      BY <2>1, Parts DEF EveryActionFinished, Good, PlanFollows
    <2>3. Grown(q)'
      BY <1>1, <2>1, <2>2, Parts DEF Grown
    <2>4. PlanFollows(q)'
      BY <1>1, Parts DEF PlanFollows, Heard
    <2>5. StillRead(q)'
      BY <1>1, <2>1, Parts DEF Good, StillRead, Heard
    <2> QED
      BY <1>1, <2>1, <2>3, <2>4, <2>5, Parts DEF Good
  <1> QED
    BY <1>4, <1>5

(* A clean attempt takes back the marks it read: what they told is recorded.*)
LEMMA AcknowledgeFiles ==
    ASSUME SyncInv, StateOK', Acknowledge
    PROVE  FilesInv'
  <1>1. /\ UNCHANGED <<local, event, remote, record, seen, edits>> /\ ctl = "closed"
        /\ plan' = [q \in Path |-> None] /\ ctl' \in Before
        /\ dirty' = dirty \/ (completion = "clean" /\ dirty' = dirty \ (snap \ remarked))
    BY DEF Acknowledge, Before, sides, far, budget
  <1> SUFFICES ASSUME NEW q \in Path PROVE Good(q)'
    BY DEF FilesInv
  <1>2. Grown(q)'
    BY <1>1, Parts DEF Grown
  <1>3. local'[q] # record'[q] => q \in event' \cup dirty'
    <2>1. CASE q \in event \/ dirty' = dirty
      BY <1>1, <2>1, Parts DEF Good
    <2>2. CASE completion = "clean" /\ dirty' = dirty \ (snap \ remarked) /\ q \notin event
      <3>1. EveryActionFinished /\ Collected
        BY <1>1, <2>2, Parts DEF Phased, Collected
      <3>2. q \in snap \ remarked => local[q] = record[q]
        BY <2>2, <3>1, Parts DEF Good, StillRead, EveryActionFinished, Heard
      <3> QED
        BY <1>1, <2>2, <3>2, Parts DEF Good
    <2> QED
      BY <1>1, <2>1, <2>2
  <1>4. ~Collected'
    BY <1>1 DEF Before, Collected
  <1> QED
    BY <1>1, <1>2, <1>3, <1>4 DEF Good, PlanFollows

(* The rest of the cycle touches no file.                                   *)
LEMMA CycleFiles ==
    ASSUME SyncInv, StateOK', CycleStep \/ CollectFails
    PROVE  FilesInv'
  <1>1. CASE LoopHead
    <2>1. /\ UNCHANGED <<local, event, remote, record, seen, view, plan, dirty, edits>>
          /\ ctl \in Before /\ ctl' = "snapped"
      BY <1>1 DEF LoopHead, Before, sides, far, cycle, budget
    <2>2. \A q \in Path : Stays(q)
      BY <2>1, Parts DEF Stays, Kept
    <2> QED
      BY <2>1, <2>2, AllStay DEF SameAttempt, Collected
  <1>2. CASE Prepare \/ CollectFails \/ LeaveTransfer \/ LeaveSerial \/ Close
    <2>1. UNCHANGED <<local, event, remote, record, seen, view, plan, dirty, remarked, edits, snap>>
      BY <1>2 DEF Prepare, CollectFails, LeaveTransfer, LeaveSerial, Close, sides, far, tracker,
         cycle, budget, Fault
    <2>2. SameAttempt
      BY <1>2 DEF SameAttempt, Collected, Prepare, CollectFails, LeaveTransfer, LeaveSerial, Close,
         cycle
    <2> QED
      BY <2>1, <2>2, QuietFiles
  <1> QED
    BY <1>1, <1>2, CollectFiles, CloseOutFiles, AcknowledgeFiles DEF CycleStep

-----------------------------------------------------------------------------
LEMMA SyncInvInit == Init => SyncInv
  <1> SUFFICES ASSUME Init PROVE SyncInv
    OBVIOUS
  <1>1. PullInv /\ StateOK
    BY PullInvInit DEF PullInv
  <1>2. /\ active = {} /\ waiting = {} /\ finalizers = 0 /\ current # Finalizer
        /\ ctl = "idle" /\ batch = "none" /\ completion = "none" /\ op = None
        /\ plan = [p \in Path |-> None]
    BY CurrentAssumption DEF Init, CoordinatorInit
  <1>3. FlowInv
    BY <1>2 DEF FlowInv, Holders, Closers, Phased, Before
  <1>4. PullFollows
    BY <1>2 DEF PullFollows
  <1> SUFFICES ASSUME NEW q \in Path PROVE Good(q)
    BY <1>1, <1>3, <1>4 DEF SyncInv, FilesInv
  <1>5. /\ local[q] = 1 /\ remote[q] \in {0, 1} /\ record[q] = remote[q] /\ seen[q] = remote[q]
        /\ edits = 0 /\ (record[q] = 0 => q \in dirty)
    BY DEF Init
  <1>6. Grown(q)
    BY <1>5 DEF Grown
  <1>7. ~Collected
    BY <1>2 DEF Collected
  <1> QED
    BY <1>2, <1>5, <1>6, <1>7 DEF Good, PlanFollows

LEMMA SyncInvStep == SyncInv /\ [Next]_vars => SyncInv'
  <1> SUFFICES ASSUME SyncInv, [Next]_vars PROVE SyncInv'
    OBVIOUS
  <1>0. PullInv' /\ StateOK' /\ OpOK' /\ PullInv /\ FlowInv /\ PullFollows
    BY PullInvStep, Parts DEF PullInv
  <1>1. CASE UNCHANGED vars
    <2>1. FlowInv'
      BY <1>0, <1>1 DEF vars, coordinator, run, cycle, FlowInv, Holders, Closers, Phased, Pooled,
         EveryActionFinished
    <2>2. UNCHANGED <<local, event, late, remote, record, seen, view, plan, dirty, remarked, edits,
                      snap, ctl, completion, op>>
      BY <1>1 DEF vars, sides, far, tracker, run, cycle, budget
    <2>3. FilesInv'
      BY <1>0, <2>2, QuietFiles DEF SameAttempt, Collected
    <2>4. op # None => remote[op.path] \in Nat
      BY <1>0, Numbers, Parts DEF OpOK, Pull
    <2>5. Beside
      BY <2>2, <2>4 DEF Beside, Heard
    <2>6. PullFollows'
      BY <1>0, <2>2, <2>5, Parts, BesideFollows
    <2> QED
      BY <1>0, <2>1, <2>3, <2>6 DEF SyncInv
  <1>2. ASSUME NEW p \in Path, LocalEdit(p) \/ RemoteEdit(p) \/ Deliver(p) \/ PullSingle(p)
        PROVE  SyncInv'
    BY <1>0, <1>2, UserFlow, UserFollows, UserFiles DEF SyncInv
  <1>3. ASSUME NEW p \in Path, ActionStep(p) \/ Fails(p)
        PROVE  SyncInv'
    BY <1>0, <1>3, ActionFlow, ActionFollows, ActionFiles DEF SyncInv
  <1>4. CASE RunSync \/ TriggerSync
    BY <1>0, <1>4, RunFlow, RunFollows, RunFiles DEF SyncInv
  <1>5. CASE PullStep \/ PullThrows
    BY <1>0, <1>5, PullFlow, PullFollowsOn, PullFiles DEF SyncInv
  <1>6. CASE CycleStep \/ CollectFails
    BY <1>0, <1>6, CycleFlow, CycleFollows, CycleFiles DEF SyncInv
  <1> QED
    BY <1>1, <1>2, <1>3, <1>4, <1>5, <1>6 DEF Next

LEMMA SyncInvHolds == Spec => []SyncInv
  BY SyncInvInit, SyncInvStep, PTL DEF Spec

(* With pulls at the side, replacing actions, invalidating them and         *)
(* recording what they wrote, the committed cursor never covers a remote    *)
(* version newer than the record: whatever the number of files, edits,      *)
(* opens and faults, no pull hides a change from later cycles (opened-file- *)
(* priority.ts beside orchestrator.ts).                                     *)
THEOREM PullsKeepRemoteChangesVisible == Spec => []RemoteChangesStayVisible
  <1>1. SyncInv => RemoteChangesStayVisible
    BY Parts DEF Grown, RemoteChangesStayVisible
  <1> QED
    BY <1>1, SyncInvHolds, PTL

(* A local file that is not what its record says has an event or a dirty    *)
(* mark: neither the cycle's acknowledgement of its snapshot nor the pull's *)
(* of its path takes the mark of an edit it did not read (local-tracker.ts  *)
(* acknowledge and acknowledgePath).                                        *)
THEOREM PullsKeepLocalChangesVisible == Spec => []LocalChangesStayVisible
  <1>1. SyncInv => LocalChangesStayVisible
    BY Parts DEF Good, LocalChangesStayVisible
  <1> QED
    BY <1>1, SyncInvHolds, PTL

(* Neither a pull nor an action writes over an edit: what it replaces is    *)
(* the recorded version, a version the conflict keeps as a copy, or one     *)
(* written between the pull's last check and its write.                     *)
THEOREM PullsOverwriteNoEdit == Spec => NoEditOverwritten
  <1> DEFINE Overwrites == edits' = edits =>
                \A p \in Path : local'[p] # local[p] =>
                   local[p] = record[p] \/ p \in late \/ ctl = "serial"
  <1>1. SyncInv /\ [Next]_vars => [Overwrites]_vars
    <2> SUFFICES ASSUME SyncInv, Next, edits' = edits, NEW q \in Path, local'[q] # local[q]
                 PROVE  local[q] = record[q] \/ q \in late \/ ctl = "serial"
      BY DEF vars
    <2>0. edits \in Nat /\ StateOK /\ PullFollows
      BY Parts
    <2>1. ASSUME NEW p \in Path, LocalEdit(p) \/ RemoteEdit(p) \/ Deliver(p) \/ PullSingle(p)
          PROVE  FALSE
      BY <2>0, <2>1 DEF LocalEdit, RemoteEdit, Deliver, PullSingle, Edit, sides
    <2>2. CASE Write
      <3>1. op # None /\ op.step = "write" /\ local' = [local EXCEPT ![op.path] = op.observed]
        BY <2>2 DEF Write, Pulling
      <3>2. q = op.path
        BY <2>0, <3>1 DEF StateOK, FilesOK
      <3> QED
        BY <2>0, <3>1, <3>2 DEF PullFollows
    <2>3. ASSUME NEW p \in Path, Effect(p)
          PROVE  local[q] = record[q]
      <3>1. Unmoved(p) /\ plan[p].kind = "pull" /\ local' = [local EXCEPT ![p] = remote[p]]
            /\ plan[p] # None /\ plan[p].step = "run"
        BY <2>3 DEF Effect, Working
      <3>2. q = p
        BY <2>0, <3>1 DEF StateOK, FilesOK
      <3> QED
        BY <3>1, <3>2, Parts DEF PlanFollows, Unmoved
    <2>4. ASSUME NEW p \in Path, Resolve(p)
          PROVE  ctl = "serial"
      BY <2>4 DEF Resolve
    <2>5. UNCHANGED local
            \/ Write \/ (\E p \in Path : Effect(p) \/ Resolve(p) \/ LocalEdit(p))
      BY DEF Next, PullStep, PullThrows, CycleStep, CollectFails, RunSync, TriggerSync, ActionStep,
         LocalEdit, RemoteEdit, Deliver, PullSingle, StartAction, BeginAction, Publish, Fails,
         GetRecord, Observe, Read, Recheck, CommitRecord, Confirm, AcknowledgePath, Defer,
         Invalidate, LoopHead, Prepare, Collect, LeaveTransfer, LeaveSerial, Close, CloseOut,
         Acknowledge, sides
    <2> QED
      BY <2>1, <2>2, <2>3, <2>4, <2>5
  <1> QED
    BY <1>1, SyncInvHolds, PTL DEF Spec, NoEditOverwritten

=============================================================================

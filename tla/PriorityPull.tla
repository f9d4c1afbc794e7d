---------------------------- MODULE PriorityPull ----------------------------
(***************************************************************************)
(* The pull of an opened file (src/src/sync/opened-file-priority.ts) beside *)
(* the sync cycle: the run lock and its one pending request, the batch      *)
(* state a pull consults, the admitted actions and the close of the cycle,  *)
(* joined by the priority coordinator.                                      *)
(*                                                                          *)
(* Files exist on both sides; deletions, failures inside one action and the *)
(* content checks of the executor are SyncCycle's.  A version is the number *)
(* of the edit that made it, so comparisons of content, mtime or checksum   *)
(* are comparisons of numbers.  A record stands for the version both sides  *)
(* had, 0 for no record.  The generation of a path is kept as whether it    *)
(* was marked since it was last captured.                                   *)
(***************************************************************************)
EXTENDS PriorityCoordinator

CONSTANTS
    Preparation, Serial,    \* the two holders of permits besides actions
    MaxEdits,               \* bound: edits on both sides together
    MaxOpens,               \* bound: files opened
    MaxFaults,              \* bound: calls that fail
    MaxBudget               \* bound: edits, opens and faults together

ASSUME WorkerAssumption ==
    Worker = Path \cup {Preparation, Serial} /\ Preparation \notin Path /\ Serial \notin Path
ASSUME BoundAssumption ==
    MaxEdits \in Nat /\ MaxOpens \in Nat /\ MaxFaults \in Nat /\ MaxBudget \in Nat

VARIABLES
    local,        \* version in the vault
    remote,       \* version at the provider, 0 if there is none
    record,       \* version of the SyncRecord, 0 if there is none
    seen,         \* remote versions the committed cursor covers
    view,         \* remote versions of the attempt's working view
    event,        \* vault events not yet delivered
    dirty,        \* LocalChangeTracker.dirtyPaths
    remarked,     \* paths marked since the cycle's snapshot
    debounced,    \* the scheduler's debounced run is due
    ctl,          \* where the orchestrator is
    syncPending,  \* another cycle was asked for while one runs
    snap,         \* dirty paths of the cycle's snapshot
    batch,        \* PriorityBatchState.phase, "none" without an active batch
    blocked,      \* PriorityBatchState.checkpointBlocked
    plan,         \* the admitted action of each path, or None
    completion,   \* how the attempt ends
    op,           \* the priority pull under way, or None
    owed,         \* history: a pull was left to a cycle that has not begun
    aborted,      \* history: the last run ended in an error
    late,         \* history: paths edited between a pull's last check and write
    edits, opens, faults   \* counters under the bounds

sides == <<local, event, late>>
far == <<remote, record, seen>>
tracker == <<dirty, remarked, debounced>>
run == <<ctl, syncPending, snap, owed, aborted>>
cycle == <<view, batch, blocked, plan, completion>>
budget == <<edits, opens, faults>>
vars == <<coordinator, sides, far, tracker, run, cycle, op, budget>>

Version == 0 .. MaxEdits + 1
Progress == {"pending", "superseded", "invalidated", "run", "publish",
             "done", "replaced", "blocked", "failed"}
Action == [kind : {"push", "pull", "match", "conflict"}, step : Progress,
           local : Version, remote : Version]
Target == {"independent", "superseding", "defer"}
PullStage == {"record", "observe", "read", "recheck", "write", "commit",
              "confirm", "acknowledge"}
Pull == [path : Path, target : Target, step : PullStage,
         record : Version, observed : Version, after : Version,
         marked : BOOLEAN]

ASSUME NoneAssumption == None \notin Action /\ None \notin Pull

FilesOK ==
    /\ local \in [Path -> Version] /\ remote \in [Path -> Version]
    /\ record \in [Path -> Version]
    /\ seen \in [Path -> Version] /\ view \in [Path -> Version]
    /\ event \subseteq Path /\ dirty \subseteq Path /\ remarked \subseteq Path
    /\ late \subseteq Path
RunOK ==
    /\ debounced \in BOOLEAN /\ syncPending \in BOOLEAN /\ blocked \in BOOLEAN
    /\ ctl \in {"idle", "again", "snapped", "preparing", "transfer", "serial",
                "settled", "closing", "closed"}
    /\ snap \subseteq Path
    /\ batch \in {"none", "transfer", "structural", "finalizing", "aborting"}
    /\ completion \in {"none", "clean", "follow_up", "incomplete", "thrown"}
    /\ owed \in BOOLEAN /\ aborted \in BOOLEAN
PlanOK == plan \in [Path -> Action \cup {None}]
OpOK == op \in Pull \cup {None} /\ (op # None <=> current \in Path)
CountOK ==
    /\ edits \in 0 .. MaxEdits /\ opens \in 0 .. MaxOpens
    /\ faults \in 0 .. MaxFaults

TypeOK == CoordinatorTypeOK /\ FilesOK /\ RunOK /\ PlanOK /\ OpOK /\ CountOK

(* Every file is synchronised, or new in the vault and not yet seen. *)
Init ==
    /\ CoordinatorInit
    /\ local = [p \in Path |-> 1]
    /\ remote \in [Path -> {0, 1}] /\ record = remote
    /\ seen = remote /\ view = [p \in Path |-> 0]
    /\ event = {} /\ dirty = {p \in Path : remote[p] = 0} /\ remarked = {}
    /\ debounced = (dirty # {}) /\ ctl = "idle" /\ syncPending = FALSE
    /\ snap = {} /\ batch = "none" /\ blocked = FALSE
    /\ plan = [p \in Path |-> None] /\ completion = "none"
    /\ op = None /\ owed = FALSE /\ aborted = FALSE /\ late = {}
    /\ edits = 0 /\ opens = 0 /\ faults = 0

-----------------------------------------------------------------------------
(* Users, events and triggers.                                              *)

WithinBudget == edits + opens + faults < MaxBudget
Edit ==
    /\ WithinBudget /\ edits < MaxEdits
    /\ edits' = edits + 1 /\ UNCHANGED <<opens, faults>>
Fault ==
    /\ WithinBudget /\ faults < MaxFaults
    /\ faults' = faults + 1 /\ UNCHANGED <<edits, opens>>

LocalEdit(p) ==
    /\ Edit
    /\ local' = [local EXCEPT ![p] = edits + 2]
    /\ event' = event \cup {p}
    /\ late' = IF op # None /\ op.path = p /\ op.step = "write"
               THEN late \cup {p} ELSE late
    /\ UNCHANGED <<coordinator, far, tracker, run, cycle, op>>

RemoteEdit(p) ==
    /\ Edit /\ remote[p] # 0
    /\ remote' = [remote EXCEPT ![p] = edits + 2]
    /\ UNCHANGED <<coordinator, sides, record, seen, tracker, run, cycle, op>>

(* markDirty: a new generation of p, which matters to whoever captured the  *)
(* last one.                                                                *)
Marked(p) ==
    /\ dirty' = dirty \cup {p}
    /\ remarked' = IF ctl \in {"idle", "again"} THEN remarked
                   ELSE remarked \cup {p}

Deliver(p) ==
    /\ p \in event /\ event' = event \ {p}
    /\ Marked(p) /\ debounced' = TRUE
    /\ op' = IF op # None /\ op.path = p THEN [op EXCEPT !.marked = TRUE] ELSE op
    /\ UNCHANGED <<coordinator, local, late, far, run, cycle, budget>>

Unlocked == ctl = "idle"

(* The debounced run: a cycle, or one more after the one that runs. *)
RunSync ==
    /\ debounced /\ debounced' = FALSE
    /\ IF Unlocked THEN ctl' = "again" /\ UNCHANGED syncPending
                   ELSE syncPending' = TRUE /\ UNCHANGED ctl
    /\ UNCHANGED <<coordinator, sides, far, dirty, remarked, snap, owed,
                   aborted, cycle, op, budget>>

(* A foreground or network signal, dropped while a cycle runs. *)
TriggerSync ==
    /\ Unlocked /\ ctl' = "again"
    /\ UNCHANGED <<coordinator, sides, far, tracker, syncPending, snap, owed,
                   aborted, cycle, op, budget>>

(* Mutant: a request that meets a running cycle is taken for served by it.  *)
RequestWhenIdle ==
    /\ IF Unlocked THEN ctl' = "again" ELSE UNCHANGED ctl
    /\ UNCHANGED syncPending

RequestNormalLifecycle ==
    IF Unlocked THEN ctl' = "again" /\ UNCHANGED syncPending
                ELSE syncPending' = TRUE /\ UNCHANGED ctl

-----------------------------------------------------------------------------
(* The batch state, and the pull the coordinator starts.                    *)

(* Mutant: any pull of the batch may be replaced, begun or not. *)
TargetAnyPull(p, control, phase, actions) ==
    CASE phase = "none" -> IF control = "idle" THEN "independent" ELSE "defer"
      [] phase \notin {"none", "transfer"} -> "defer"
      [] OTHER -> IF actions[p] = None THEN "independent"
                  ELSE IF actions[p].kind = "pull" THEN "superseding"
                  ELSE "defer"

(* Without a batch the lock decides; with one, only a pull that has not     *)
(* begun may be replaced, and only during the transfer phase.               *)
PriorityTarget(p, control, phase, actions) ==
    CASE phase = "none" -> IF control = "idle" THEN "independent" ELSE "defer"
      [] phase \notin {"none", "transfer"} -> "defer"
      [] OTHER -> IF actions[p] = None THEN "independent"
                  ELSE IF actions[p].kind = "pull" /\ actions[p].step = "pending"
                  THEN "superseding" ELSE "defer"

(* The run starts in the call that starts the drain, and its target is what *)
(* that call leaves behind.                                                 *)
Opening(p) ==
    [path |-> p, target |-> PriorityTarget(p, ctl', batch', plan'),
     step |-> "record", record |-> 0, observed |-> 0, after |-> 0,
     marked |-> FALSE]
Dispatch ==
    op' = IF current = None /\ current' \in Path THEN Opening(current') ELSE op
Settled ==
    /\ Settle
    /\ op' = IF current' \in Path THEN Opening(current') ELSE None

PullSingle(p) ==
    /\ WithinBudget /\ opens < MaxOpens /\ opens' = opens + 1
    /\ Enqueue(p)
    /\ UNCHANGED <<sides, far, tracker, run, cycle, edits, faults>>
    /\ Dispatch

-----------------------------------------------------------------------------
(* The pull.                                                                *)

Pulling(step) == op # None /\ op.step = step
Continue(step) == op' = [op EXCEPT !.step = step] /\ UNCHANGED coordinator

(* deferToBatch: the pull leaves the file to a normal cycle. *)
Defer ==
    /\ RequestNormalLifecycle /\ owed' = TRUE
    /\ UNCHANGED <<snap, aborted>>
    /\ UNCHANGED <<cycle, sides, far, tracker, budget>>
    /\ Settled

(* Invalidate and supersede take the action out of the pending set. *)
Superseding == op.target = "superseding"
Take(p, step) ==
    plan' = IF Superseding /\ plan[p].step = "pending"
            THEN [plan EXCEPT ![p].step = step] ELSE plan

(* invalidateTarget, of a pull that found something else than it expected. *)
Invalidated ==
    /\ Take(op.path, "invalidated")
    /\ blocked' = (blocked \/ batch # "none")
    /\ RequestNormalLifecycle /\ owed' = TRUE
    /\ UNCHANGED <<snap, aborted, view, batch, completion>>

Invalidate ==
    /\ Invalidated /\ UNCHANGED <<sides, far, tracker, budget>>
    /\ Settled

(* An untracked file joins the vault debounce. *)
GetRecord ==
    /\ Pulling("record")
    /\ LET p == op.path IN
       \/ /\ record[p] = 0
          /\ debounced' = TRUE
          /\ UNCHANGED <<sides, far, dirty, remarked, run, cycle, budget>>
          /\ Settled
       \/ record[p] # 0 /\ op.target = "defer" /\ Defer
       \/ /\ record[p] # 0 /\ op.target # "defer"
          /\ op' = [op EXCEPT !.step = "observe", !.record = record[p],
                              !.marked = FALSE]
          /\ UNCHANGED <<coordinator, sides, far, tracker, run, cycle, budget>>

(* Without a remote change the record is rewritten as it is and the file    *)
(* counts as current.                                                       *)
Observe ==
    /\ Pulling("observe")
    /\ LET p == op.path IN
       \/ local[p] # op.record /\ Invalidate
       \/ /\ local[p] = op.record /\ remote[p] = op.record
          /\ record[p] = op.record
          /\ Take(p, "superseded")
          /\ UNCHANGED <<sides, far, tracker, run, view, batch, blocked,
                         completion, budget>>
          /\ Settled
       \/ /\ local[p] = op.record /\ remote[p] = op.record
          /\ record[p] # op.record
          /\ Invalidate
       \/ /\ local[p] = op.record /\ remote[p] # op.record
          /\ op' = [op EXCEPT !.step = "read", !.observed = remote[p]]
          /\ UNCHANGED <<coordinator, sides, far, tracker, run, cycle, budget>>

(* The download is bound to the version observed. *)
Read ==
    /\ Pulling("read")
    /\ IF remote[op.path] = op.observed
       THEN /\ Continue("recheck")
            /\ UNCHANGED <<sides, far, tracker, run, cycle, budget>>
       ELSE Invalidate

(* Mutant: the file is not looked at again after the download. *)
RecheckRecordOnly ==
    /\ Pulling("recheck")
    /\ IF record[op.path] = op.record
       THEN /\ Continue("write")
            /\ UNCHANGED <<sides, far, tracker, run, cycle, budget>>
       ELSE Invalidate

(* Under the local mutation barrier: record, generation and file are still  *)
(* those the pull began with.                                               *)
Recheck ==
    /\ Pulling("recheck")
    /\ IF record[op.path] = op.record /\ ~op.marked /\ local[op.path] = op.record
       THEN /\ Continue("write")
            /\ UNCHANGED <<sides, far, tracker, run, cycle, budget>>
       ELSE Invalidate

Write ==
    /\ Pulling("write")
    /\ LET p == op.path IN
       /\ local' = [local EXCEPT ![p] = op.observed]
       /\ event' = event \cup {p} /\ late' = late \ {p}
    /\ Continue("commit")
    /\ UNCHANGED <<far, tracker, run, cycle, budget>>

(* The record is compared and published, and the batch action it replaces   *)
(* is marked.  A lost comparison or a failed write of the record leaves the *)
(* file dirty and the cycle invalidated.                                    *)
CommitRecord ==
    /\ Pulling("commit")
    /\ LET p == op.path IN
       \/ /\ record[p] = op.record /\ UNCHANGED budget
          /\ record' = [record EXCEPT ![p] = op.observed]
          /\ IF Superseding /\ plan[p].step # "pending"
             THEN /\ Marked(p) /\ UNCHANGED debounced
                  /\ blocked' = (blocked \/ batch # "none")
                  /\ RequestNormalLifecycle /\ owed' = TRUE
                  /\ UNCHANGED <<sides, remote, seen, snap, aborted, view,
                                 batch, plan, completion>>
                  /\ Settled
             ELSE /\ Take(p, "superseded")
                  /\ op' = [op EXCEPT !.step = "confirm", !.marked = FALSE]
                  /\ UNCHANGED <<coordinator, sides, remote, seen, tracker,
                                 run, view, batch, blocked, completion>>
       \/ /\ \/ record[p] # op.record /\ UNCHANGED budget
             \/ Fault
          /\ Marked(p) /\ UNCHANGED <<debounced, sides, far>>
          /\ Invalidated
          /\ Settled

Confirm ==
    /\ Pulling("confirm")
    /\ op' = [op EXCEPT !.step = "acknowledge", !.after = local[op.path]]
    /\ UNCHANGED <<coordinator, sides, far, tracker, run, cycle, budget>>

(* Mutant: the mark is consumed without asking for its generation. *)
AcknowledgeAnyGeneration ==
    /\ Pulling("acknowledge")
    /\ dirty' = IF op.after = op.observed THEN dirty \ {op.path} ELSE dirty
    /\ UNCHANGED <<sides, far, remarked, debounced, run, cycle, budget>>
    /\ Settled

(* acknowledgePath with the generation read when the record was published. *)
AcknowledgePath ==
    /\ Pulling("acknowledge")
    /\ dirty' = IF op.after = op.observed /\ ~op.marked
                THEN dirty \ {op.path} ELSE dirty
    /\ UNCHANGED <<sides, far, remarked, debounced, run, cycle, budget>>
    /\ Settled

(* A call throws.  Up to the read the failure is caught and a normal cycle  *)
(* requested; what the barrier runs is returned unawaited, so its failure   *)
(* goes past the handler to the caller.                                     *)
PullThrows ==
    /\ op # None /\ Fault
    /\ \/ /\ op.step \in {"record", "observe", "read"}
          /\ RequestNormalLifecycle /\ owed' = TRUE /\ UNCHANGED <<snap, aborted>>
       \/ /\ op.step \in {"recheck", "write", "confirm"}
          /\ UNCHANGED run
    /\ UNCHANGED <<sides, far, tracker, cycle>>
    /\ Settled

PullStep ==
    GetRecord \/ Observe \/ Read \/ Recheck \/ Write \/ CommitRecord
    \/ Confirm \/ AcknowledgePath

-----------------------------------------------------------------------------
(* The cycle.                                                               *)

LoopHead ==
    /\ ctl = "again" /\ ctl' = "snapped"
    /\ snap' = dirty /\ remarked' = {}
    /\ syncPending' = FALSE /\ owed' = FALSE /\ aborted' = FALSE
    /\ UNCHANGED <<coordinator, sides, far, dirty, debounced, cycle, op, budget>>

Prepare ==
    /\ ctl = "snapped" /\ ctl' = "preparing"
    /\ AcquireNormalPermit(Preparation)
    /\ UNCHANGED <<sides, far, tracker, syncPending, snap, owed, aborted, cycle,
                   op, budget>>

(* What a HOT cycle looks at, broadened when it meets an unknown address. *)
Told == snap \cup {p \in Path : remote[p] # seen[p]}
Entries ==
    IF snap = {} \/ \E p \in Told : record[p] = 0
    THEN Path ELSE Told

Decided(p) ==
    CASE local[p] = remote[p] -> "match"
      [] local[p] # remote[p] /\ remote[p] = record[p] -> "push"
      [] local[p] # remote[p] /\ local[p] = record[p] -> "pull"
      [] OTHER -> "conflict"
Admitted(p) ==
    IF p \in Entries /\ ~(local[p] = record[p] /\ remote[p] = record[p])
    THEN [kind |-> Decided(p), step |-> "pending",
          local |-> local[p], remote |-> remote[p]]
    ELSE None

(* Collection and admission hold the preparation permit; the batch is set   *)
(* before it is released.                                                   *)
Collect ==
    /\ ctl = "preparing" /\ Preparation \in active
    /\ ctl' = "transfer" /\ view' = remote
    /\ plan' = [p \in Path |-> Admitted(p)]
    /\ batch' = "transfer" /\ blocked' = FALSE /\ completion' = "none"
    /\ Release(Preparation)
    /\ UNCHANGED <<sides, far, tracker, syncPending, snap, owed, aborted, budget>>
    /\ Dispatch

CollectFails ==
    /\ ctl = "preparing" /\ Preparation \in active /\ Fault
    /\ ctl' = "settled" /\ completion' = "thrown"
    /\ Release(Preparation)
    /\ UNCHANGED <<sides, far, tracker, syncPending, snap, owed, aborted, view,
                   batch, blocked, plan>>
    /\ Dispatch

Final == {"done", "replaced", "blocked", "failed"}
Pooled(p) == plan[p] # None /\ plan[p].kind # "conflict"

StartAction(p) ==
    /\ ctl = "transfer" /\ Pooled(p)
    /\ plan[p].step \in {"pending", "superseded", "invalidated"}
    /\ AcquireNormalPermit(p)
    /\ UNCHANGED <<sides, far, tracker, run, cycle, op, budget>>

(* p is at work on its action, under its permit. *)
Working(p) == p \in active /\ plan[p] # None

End(p, step) ==
    /\ plan' = [plan EXCEPT ![p].step = step]
    /\ Release(p)

(* beginAction, first thing under the permit. *)
BeginAction(p) ==
    /\ Working(p)
    /\ \/ /\ batch # "aborting" /\ plan[p].step = "pending"
          /\ plan' = [plan EXCEPT ![p].step = "run"]
          /\ UNCHANGED coordinator
       \/ batch # "aborting" /\ plan[p].step = "superseded" /\ End(p, "replaced")
       \/ /\ \/ plan[p].step = "invalidated"
             \/ batch = "aborting" /\ plan[p].step \in {"pending", "superseded"}
          /\ End(p, "blocked")
    /\ UNCHANGED <<sides, far, tracker, run, view, batch, blocked, completion,
                   budget>>
    /\ Dispatch

(* The effect, if both sides still are what admission saw. *)
Unmoved(p) == local[p] = plan[p].local /\ remote[p] = plan[p].remote
Effect(p) ==
    /\ Working(p) /\ plan[p].step = "run"
    /\ IF Unmoved(p) THEN plan' = [plan EXCEPT ![p].step = "publish"]
                          /\ UNCHANGED coordinator
                     ELSE End(p, "failed")
    /\ IF Unmoved(p) /\ plan[p].kind = "pull"
       THEN /\ local' = [local EXCEPT ![p] = remote[p]]
            /\ event' = event \cup {p}
       ELSE UNCHANGED <<local, event>>
    /\ IF Unmoved(p) /\ plan[p].kind = "push"
       THEN /\ remote' = [remote EXCEPT ![p] = local[p]]
            /\ view' = [view EXCEPT ![p] = local[p]]
       ELSE UNCHANGED <<remote, view>>
    /\ UNCHANGED <<late, record, seen, tracker, run, batch, blocked, completion,
                   budget>>
    /\ Dispatch

Publish(p) ==
    /\ Working(p) /\ plan[p].step = "publish"
    /\ record' = [record EXCEPT ![p] = IF plan[p].kind = "push"
                                       THEN plan[p].local ELSE plan[p].remote]
    /\ End(p, "done")
    /\ UNCHANGED <<sides, remote, seen, tracker, run, view, batch, blocked,
                   completion, budget>>
    /\ Dispatch

(* A failed call fails the action; a rejected credential aborts the batch. *)
Fails(p) ==
    /\ Working(p) /\ plan[p].step \in {"run", "publish"} /\ Fault
    /\ batch' \in {batch, "aborting"}
    /\ End(p, "failed")
    /\ UNCHANGED <<sides, far, tracker, run, view, blocked, completion>>
    /\ Dispatch

PoolSettled == \A p \in Path : Pooled(p) => plan[p].step \in Final /\ p \notin active
Conflicts == {p \in Path : plan[p] # None /\ plan[p].kind = "conflict"}

(* The pool has settled: the batch was aborted, or nothing is left, or the  *)
(* structural phase begins by closing priority and asking for its permit.   *)
LeaveTransfer ==
    /\ ctl = "transfer" /\ PoolSettled
    /\ \/ /\ batch = "aborting" /\ completion' = "thrown" /\ ctl' = "settled"
          /\ UNCHANGED <<coordinator, batch>>
       \/ /\ batch # "aborting" /\ Conflicts = {} /\ ctl' = "settled"
          /\ UNCHANGED <<coordinator, batch, completion>>
       \/ /\ batch # "aborting" /\ Conflicts # {} /\ ctl' = "serial"
          /\ batch' = "structural" /\ AcquireNormalPermit(Serial)
          /\ UNCHANGED completion
    /\ UNCHANGED <<sides, far, tracker, syncPending, snap, owed, aborted, view,
                   blocked, plan, op, budget>>

(* Conflicts, one at a time; the newer version is written to both sides and *)
(* the older one kept as a copy.                                            *)
Newer(p) == IF local[p] < remote[p] THEN remote[p] ELSE local[p]
Resolve(p) ==
    /\ ctl = "serial" /\ Serial \in active
    /\ p \in Conflicts /\ plan[p].step = "pending"
    /\ IF Unmoved(p)
       THEN /\ local' = [local EXCEPT ![p] = Newer(p)]
            /\ remote' = [remote EXCEPT ![p] = Newer(p)]
            /\ record' = [record EXCEPT ![p] = Newer(p)]
            /\ view' = [view EXCEPT ![p] = Newer(p)]
            /\ event' = event \cup {p}
            /\ plan' = [plan EXCEPT ![p].step = "done"]
       ELSE /\ plan' = [plan EXCEPT ![p].step = "failed"]
            /\ UNCHANGED <<local, remote, record, view, event>>
    /\ UNCHANGED <<coordinator, late, seen, tracker, run, batch, blocked,
                   completion, op, budget>>

LeaveSerial ==
    /\ ctl = "serial" /\ Serial \in active
    /\ \A p \in Conflicts : plan[p].step \in Final
    /\ ctl' = "settled" /\ Release(Serial)
    /\ UNCHANGED <<sides, far, tracker, syncPending, snap, owed, aborted, cycle,
                   budget>>
    /\ Dispatch

Close ==
    /\ ctl = "settled" /\ ctl' = "closing"
    /\ Finalize
    /\ UNCHANGED <<sides, far, tracker, syncPending, snap, owed, aborted, cycle,
                   budget>>
    /\ Dispatch

(* Mutant: an action that was blocked or failed counts as finished. *)
CompletionOfSettled == IF blocked THEN "follow_up" ELSE "clean"

EveryActionFinished ==
    \A p \in Path : plan[p] # None => plan[p].step \in {"done", "replaced"}
CompletionOf ==
    IF ~EveryActionFinished THEN "incomplete"
    ELSE IF blocked THEN "follow_up" ELSE "clean"

(* The finalizer: the checkpoint is committed by a clean attempt only. *)
CloseOut ==
    /\ current = Finalizer /\ ctl' = "closed"
    /\ batch' = IF batch \in {"none", "aborting"} THEN batch ELSE "finalizing"
    /\ \/ /\ completion = "thrown" /\ UNCHANGED <<completion, seen, budget>>
       \/ /\ completion # "thrown" /\ UNCHANGED budget
          /\ completion' = CompletionOf
          /\ seen' = IF CompletionOf = "clean" THEN view ELSE seen
       \/ /\ completion # "thrown" /\ CompletionOf = "clean" /\ Fault
          /\ completion' = "thrown" /\ UNCHANGED seen
    /\ UNCHANGED <<sides, remote, record, tracker, syncPending, snap, owed,
                   aborted, view, blocked, plan>>
    /\ Settled

(* The batch is dropped.  A thrown attempt is repeated with its snapshot or *)
(* ends the run where it is; otherwise the loop goes on if it was asked to. *)
Acknowledge ==
    /\ ctl = "closed"
    /\ batch' = "none" /\ blocked' = FALSE /\ completion' = "none"
    /\ plan' = [p \in Path |-> None] /\ view' = [p \in Path |-> 0]
    /\ \/ /\ completion = "thrown"
          /\ UNCHANGED <<dirty, remarked, syncPending>>
          /\ \/ ctl' = "snapped" /\ UNCHANGED <<snap, aborted>>
             \/ ctl' = "idle" /\ aborted' = TRUE /\ snap' = {}
       \/ /\ completion # "thrown"
          /\ dirty' = IF completion = "clean" THEN dirty \ (snap \ remarked)
                      ELSE dirty
          /\ remarked' = {} /\ snap' = {}
          /\ ctl' = IF syncPending \/ completion = "follow_up" THEN "again"
                    ELSE "idle"
          /\ UNCHANGED <<syncPending, aborted>>
    /\ UNCHANGED <<coordinator, sides, far, debounced, owed, op, budget>>

ActionStep(p) ==
    StartAction(p) \/ BeginAction(p) \/ Effect(p) \/ Publish(p) \/ Resolve(p)
CycleStep ==
    LoopHead \/ Prepare \/ Collect \/ LeaveTransfer \/ LeaveSerial \/ Close
    \/ CloseOut \/ Acknowledge

Next ==
    \/ \E p \in Path : LocalEdit(p) \/ RemoteEdit(p) \/ Deliver(p)
                       \/ PullSingle(p) \/ ActionStep(p) \/ Fails(p)
    \/ RunSync \/ TriggerSync
    \/ PullStep \/ PullThrows
    \/ CycleStep \/ CollectFails

Spec == Init /\ [][Next]_vars

(* Every call returns or fails, events are delivered and the debounce ends. *)
FairSpec ==
    /\ Spec
    /\ WF_vars(PullStep) /\ WF_vars(CycleStep) /\ WF_vars(RunSync)
    /\ \A p \in Path : WF_vars(ActionStep(p)) /\ WF_vars(Deliver(p))

-----------------------------------------------------------------------------
(* Properties.                                                              *)

(* Committed last, with pulls at the side: the cursor never covers a remote *)
(* version newer than the record, so no invalidated, superseded or          *)
(* independent pull hides a change from later cycles (ADR 0001).            *)
RemoteChangesStayVisible == \A p \in Path : seen[p] <= record[p]

(* A local file that is not what its record says has an event or a dirty    *)
(* mark, whichever of the cycle and the pull consumed a mark last: a HOT    *)
(* cycle looks at nothing else.                                             *)
LocalChangesStayVisible ==
    \A p \in Path : local[p] # record[p] => p \in event \cup dirty

(* A pull that has reached its effect owns the batch action it replaces:    *)
(* the same file is never transferred by both.                              *)
ReplacedActionIsHeld ==
    op # None /\ Superseding /\ op.step \in {"write", "commit"} =>
        plan[op.path].step = "pending"

(* Neither the pull nor the batch writes over a local edit: what they       *)
(* replace is the recorded version, a version a conflict keeps as a copy,   *)
(* or one written between the last check and the write.                     *)
NoEditOverwritten ==
    [][edits' = edits =>
          \A p \in Path : local'[p] # local[p] =>
             local[p] = record[p] \/ p \in late \/ ctl = "serial"]_vars

(* A pull left to the normal lifecycle gets a cycle that begins after it,   *)
(* without a further trigger, unless a run ends in an error.                *)
DeferredPullsAreFollowedUp == owed ~> ~owed \/ aborted

(* Every opened file gets its turn. *)
OpenedFilesAreServed == \A p \in Path : p \in Range(queued) ~> current = p

=============================================================================

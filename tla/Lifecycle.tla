------------------------------- MODULE Lifecycle -------------------------------
(***************************************************************************)
(* Which remote folder the vault is synced with, and when                  *)
(* (fs/backend-manager.ts, fs/backend-auth-folder-pick.ts,                 *)
(* fs/modules/backend-module-provider.ts, main.ts), beside the cycles that *)
(* sync it (sync/orchestrator.ts, sync/scheduler.ts).  Connecting, binding *)
(* and disconnecting are sequences of awaited calls; a flag keeps cycles   *)
(* from starting meanwhile, but one may be running already.                *)
(*                                                                         *)
(* Every folder has a checkpoint store of its own; the records of the      *)
(* vault are one set, whatever the folder.  Here a record is the folder    *)
(* whose object it names, files have no versions and are never deleted     *)
(* (SyncCycle has both), and a checkpoint is the set of the objects that   *)
(* changed since its cursor.  Optional values are sets of at most one.     *)
(***************************************************************************)
EXTENDS Naturals, FiniteSets

CONSTANTS
  Target,            \* remote folders
  Object,            \* sync paths
  None,
  Keeps,             \* whether a disconnection keeps the bound folder's id
  MaxEdits, MaxOps, MaxFaults

ASSUME LifecycleAssumption ==
  /\ None \notin Target
  /\ Keeps \in BOOLEAN
  /\ {MaxEdits, MaxOps, MaxFaults} \subseteq Nat

VARIABLES
  local,     \* objects the vault has
  remote,    \* objects every folder has
  records,   \* baseline: for every object the folder it was synced with
  durable,   \* committed checkpoint of every folder
  settings,  \* [folder, creds, stored]: bound folder, whether authorized,
             \* lastSyncedIdentity
  live,      \* the filesystem exposed to the engine: [target, view]
  layout,    \* whether the vault index is loaded
  departed,  \* whether the app left the foreground
  tracker,   \* [dirty, initialized]
  debounced, \* whether a debounced run is due
  manager,   \* the operation that holds `connecting`: [kind, step, to, reset]
  phase,     \* of the sync mutex and the cycle that holds it
  pending,   \* syncPending
  run,       \* the cycle, see NoRun
  begun,     \* history: a cycle began on the folder bound now
  owed,      \* history: a return to the foreground no cycle began after
  unanswered, \* history: an operation gave up beside a bound folder and asked for
              \* no cycle, and none began since
  mixed,     \* history: a folder was taken over in the records and the identity, its
             \* filesystem could not be opened, and the folder before is synced on
  suspect,   \* history: folders whose checkpoint was left beside cleared records or
             \* cleared beside a running cycle, until one starts from a listing
  edits, ops, faults

disk     == <<local, remote>>
stored   == <<records, durable, settings>>
session  == <<layout, departed, tracker, debounced>>
begins   == <<begun, owed, unanswered>>
lapses   == <<mixed, suspect>>
history  == <<begins, lapses>>
cycle    == <<phase, pending, run>>
budget   == <<edits, ops, faults>>
vars     == <<disk, stored, live, session, manager, cycle, history, budget>>

Idle == [kind |-> "none", step |-> "none", to |-> None, reset |-> FALSE]
connecting == manager # Idle

\* Whether a folder has a checkpoint to start from.
HasCheckpoint(t) == durable[t] # {}

\* The folder whose checkpoint decides about a full scan, the tracker's
\* snapshot, what was marked since, the filesystem of the attempt once it is no
\* longer the exposed one, what is left to do and whether all of it succeeded,
\* and whether its first cycle was asked for twice.
NoRun == [target |-> None, again |-> FALSE, force |-> FALSE, snap |-> {}, hot |-> FALSE,
          remarked |-> {}, old |-> {}, plan |-> [o \in Object |-> "none"],
          complete |-> TRUE]

Filesystem(t) == [target |-> t, view |-> {}]
Used == IF run.old # {} THEN run.old ELSE live

\* A change of the folder is new to every view and checkpoint but the one that
\* made it.
Logged(views, o) == {u \cup {o} : u \in views}
LoggedIn(filesystems, t, o) ==
  {IF f.target = t THEN [f EXCEPT !.view = Logged(@, o)] ELSE f : f \in filesystems}

Fault == faults < MaxFaults /\ faults' = faults + 1 /\ UNCHANGED <<edits, ops>>
UserOp == ops < MaxOps /\ ops' = ops + 1 /\ UNCHANGED <<edits, faults>>
NoBudget == UNCHANGED budget

-----------------------------------------------------------------------------
(* Requests for a cycle.                                                    *)

Start(f, again) ==
  phase' = "begin" /\ run' = [NoRun EXCEPT !.target = f.target, !.again = again]

\* runSync, once no operation holds `connecting`: skipped without a filesystem or
\* before the layout is ready, remembered while another cycle runs.
RunSync(exposed) ==
  \/ (exposed = {} \/ ~ layout) /\ UNCHANGED cycle
  \/ /\ exposed # {} /\ layout /\ phase # "idle"
     /\ pending' = TRUE /\ UNCHANGED <<phase, run>>
  \/ /\ exposed # {} /\ layout /\ phase = "idle"
     /\ \E f \in exposed : Start(f, FALSE)
     /\ UNCHANGED pending

RunSyncUnlessConnecting ==
  \/ connecting /\ UNCHANGED cycle
  \/ ~ connecting /\ RunSync(live)

\* The plugin's own runSync drops the request while a cycle runs.
Request(exposed) == IF phase # "idle" THEN UNCHANGED cycle ELSE RunSync(exposed)

\* Without a filesystem it connects first, which starts a cycle of its own, and
\* then asks for the one it was called for.
InitThenRun == [Idle EXCEPT !.kind = "sync", !.step = "init"]

RequestOrInit ==
  \/ /\ phase = "idle" /\ live = {} /\ ~ connecting
     /\ manager' = InitThenRun
     /\ UNCHANGED cycle
  \/ /\ ~ (phase = "idle" /\ live = {} /\ ~ connecting)
     /\ IF connecting THEN UNCHANGED cycle ELSE Request(live)
     /\ UNCHANGED manager

SyncNow ==
  /\ UserOp /\ RequestOrInit
  /\ UNCHANGED <<disk, stored, live, session, history>>

LayoutReady ==
  /\ ~ layout /\ layout' = TRUE
  /\ \/ /\ live = {} /\ ~ connecting
        /\ manager' = InitThenRun
        /\ UNCHANGED cycle
     \/ /\ live # {} /\ ~ connecting
        /\ \E f \in live : Start(f, FALSE)
        /\ UNCHANGED <<manager, pending>>
     \/ connecting /\ UNCHANGED <<manager, cycle>>
  /\ NoBudget
  /\ UNCHANGED <<disk, stored, live, departed, tracker, debounced, history>>

Debounced ==
  /\ debounced /\ debounced' = FALSE
  /\ RunSyncUnlessConnecting
  /\ NoBudget
  /\ UNCHANGED <<disk, stored, live, layout, departed, tracker, manager, history>>

Depart ==
  /\ layout /\ ~ departed /\ UserOp /\ departed' = TRUE
  /\ UNCHANGED <<disk, stored, live, layout, tracker, debounced, manager, cycle, history>>

\* Mutant: a signal during a cycle counts as answered.
ForegroundAnswered ==
  /\ layout /\ live # {} /\ departed
  /\ departed' = FALSE /\ owed' = TRUE
  /\ IF phase # "idle" THEN UNCHANGED cycle ELSE RunSyncUnlessConnecting
  /\ NoBudget
  /\ UNCHANGED <<disk, stored, live, layout, tracker, debounced, manager, begun, unanswered,
                 lapses>>

\* triggerForegroundSync: only a genuine return, and only when nothing runs.
Foreground ==
  /\ layout /\ live # {} /\ phase = "idle" /\ departed
  /\ departed' = FALSE /\ owed' = TRUE
  /\ RunSyncUnlessConnecting
  /\ NoBudget
  /\ UNCHANGED <<disk, stored, live, layout, tracker, debounced, manager, begun, unanswered,
                 lapses>>

-----------------------------------------------------------------------------
(* The vault and the folders change.                                        *)

LocalEdit(o) ==
  /\ edits < MaxEdits /\ edits' = edits + 1
  /\ local' = local \cup {o}
  /\ IF layout THEN /\ tracker' = [tracker EXCEPT !.dirty = @ \cup {o}]
                    /\ run' = [run EXCEPT !.remarked = @ \cup {o}]
                    /\ debounced' = TRUE
               ELSE UNCHANGED <<tracker, run, debounced>>
  /\ UNCHANGED <<remote, stored, live, layout, departed, manager, phase, pending,
                 history, ops, faults>>

RemoteEdit(t, o) ==
  /\ edits < MaxEdits /\ edits' = edits + 1
  /\ remote' = [remote EXCEPT ![t] = @ \cup {o}]
  /\ durable' = [durable EXCEPT ![t] = Logged(@, o)]
  /\ live' = LoggedIn(live, t, o)
  /\ run' = [run EXCEPT !.old = LoggedIn(@, t, o)]
  /\ UNCHANGED <<local, records, settings, session, manager, phase, pending,
                 history, ops, faults>>

-----------------------------------------------------------------------------
(* The cycle.                                                               *)

Targets(filesystems) == {f.target : f \in filesystems}

\* History: folders with a checkpoint, or with a view of one.
Standing ==
  {t \in Target : durable[t] # {} \/ \E f \in live : f.target = t /\ f.view # {}}

\* One snapshot, and one look at the checkpoint, for all attempts of the cycle.
Begin ==
  /\ phase = "begin" /\ phase' = "attempt"
  /\ pending' = run.again
  /\ run' = [NoRun EXCEPT !.target = run.target, !.force = ~ HasCheckpoint(run.target),
                          !.snap = tracker.dirty, !.hot = tracker.initialized]
  /\ begun' = TRUE /\ owed' = FALSE /\ unanswered' = FALSE
  /\ suspect' = suspect \ IF mixed THEN {} ELSE {run.target} \ Standing
  /\ NoBudget
  /\ UNCHANGED <<disk, stored, live, session, manager, mixed>>

\* The working view: the one in memory, the checkpoint, or a scan of the folder.
ViewOf(f) ==
  IF f.view # {} THEN f.view
  ELSE IF durable[f.target] # {} THEN durable[f.target] ELSE {{}}

NoRecords == \A o \in Object : records[o] = None
Hot == ~ run.force /\ run.hot /\ run.snap # {}
Cold == run.force \/ (~ Hot /\ NoRecords)

\* A hot probe that meets an address without a record on one side only also
\* lists the vault.
Promoted(f, seen) ==
  \E o \in seen : records[o] = None /\ (o \in local) # (o \in remote[f.target])

Diverging == {o \in local : records[o] = None} \cup {o \in Object \ local : records[o] # None}

Visited(f, unseen) ==
  CASE Cold -> Object
    [] ~ Cold /\ Hot /\ ~ Promoted(f, run.snap \cup unseen) -> run.snap \cup unseen
    [] OTHER -> Diverging \cup unseen \cup (IF Hot THEN run.snap ELSE {})

Decision(f, o) ==
  CASE o \in local /\ o \notin remote[f.target] -> IF records[o] = None THEN "push" ELSE "refused"
    [] o \notin local /\ o \in remote[f.target] -> IF records[o] = None THEN "pull" ELSE "refused"
    [] o \in local /\ o \in remote[f.target] /\ records[o] # f.target -> "match"
    [] OTHER -> "none"

\* The attempt takes the filesystem exposed now, which need not be the one whose
\* checkpoint was looked at.
Attempt ==
  /\ phase = "attempt"
  /\ \E f \in live : \E unseen \in ViewOf(f) :
       /\ live' = {[f EXCEPT !.view = {{}}]}
       /\ run' = [run EXCEPT !.complete = TRUE, !.old = {},
                    !.plan = [o \in Object |->
                       IF o \in Visited(f, unseen) THEN Decision(f, o) ELSE "none"]]
  /\ phase' = "execute"
  /\ NoBudget
  /\ UNCHANGED <<disk, stored, session, manager, pending, history>>

\* The attempt's filesystem moves on: in the exposed one, or in the one it kept.
Use(f, done) ==
  IF run.old # {} THEN run' = [done EXCEPT !.old = {f}] /\ UNCHANGED live
  ELSE live' = {f} /\ run' = done

Settled(o, ok) == [run EXCEPT !.plan[o] = "none", !.complete = @ /\ ok]

Executing(o, kind) == phase = "execute" /\ run.plan[o] = kind

Push(o) ==
  /\ Executing(o, "push")
  /\ \E f \in Used :
       /\ o \notin remote[f.target]
       /\ remote' = [remote EXCEPT ![f.target] = @ \cup {o}]
       /\ records' = [records EXCEPT ![o] = f.target]
       /\ durable' = [durable EXCEPT ![f.target] = Logged(@, o)]
       /\ IF run.old # {}
            THEN /\ live' = LoggedIn(live, f.target, o)
                 /\ run' = [Settled(o, TRUE) EXCEPT !.old = {[f EXCEPT !.view = ViewOf(f)]}]
            ELSE /\ live' = {[f EXCEPT !.view = ViewOf(f)]}
                 /\ run' = Settled(o, TRUE)
  /\ NoBudget
  /\ UNCHANGED <<local, settings, session, manager, phase, pending, history>>

\* The file the pull writes raises an event of its own.
Pull(o) ==
  /\ Executing(o, "pull")
  /\ \E f \in Used :
       /\ o \notin local
       /\ records' = [records EXCEPT ![o] = f.target]
       /\ Use([f EXCEPT !.view = ViewOf(f)], Settled(o, TRUE))
  /\ local' = local \cup {o}
  /\ NoBudget
  /\ UNCHANGED <<remote, durable, settings, session, manager, phase, pending, history>>

Match(o) ==
  /\ Executing(o, "match")
  /\ \E f \in Used : records' = [records EXCEPT ![o] = f.target]
  /\ run' = Settled(o, TRUE)
  /\ NoBudget
  /\ UNCHANGED <<disk, durable, settings, live, session, manager, phase, pending, history>>

\* The other side got the file meanwhile, the plan had refused, or the call fails.
ActionFails(o) ==
  /\ phase = "execute" /\ run.plan[o] # "none"
  /\ \/ /\ \/ run.plan[o] = "refused"
           \/ run.plan[o] = "pull" /\ o \in local
           \/ run.plan[o] = "push" /\ \E f \in Used : o \in remote[f.target]
        /\ NoBudget
     \/ run.plan[o] # "refused" /\ Fault
  /\ run' = Settled(o, FALSE)
  /\ UNCHANGED <<disk, stored, live, session, manager, phase, pending, history>>

AllSettled == phase = "execute" /\ \A o \in Object : run.plan[o] = "none"

Next1(p) == IF p THEN "begin" ELSE "idle"

\* A clean attempt saves its view, as it is now, and consumes the snapshot.
CloseClean ==
  /\ AllSettled /\ run.complete
  /\ \E f \in Used : durable' = [durable EXCEPT ![f.target] = f.view]
  /\ tracker' = [dirty |-> tracker.dirty \ (run.snap \ run.remarked), initialized |-> TRUE]
  /\ phase' = Next1(pending) /\ run' = [NoRun EXCEPT !.target = run.target]
  /\ suspect' = suspect \cup IF mixed THEN Targets(Used) ELSE {}
  /\ NoBudget
  /\ UNCHANGED <<disk, records, settings, live, layout, departed, debounced, manager,
                 pending, begins, mixed>>

\* Mutant: an incomplete attempt saves what it has as well.
CloseSaving ==
  /\ AllSettled /\ ~ run.complete
  /\ \E f \in Used : durable' = [durable EXCEPT ![f.target] = f.view]
  /\ phase' = Next1(pending) /\ run' = [NoRun EXCEPT !.target = run.target]
  /\ NoBudget
  /\ UNCHANGED <<disk, records, settings, live, session, manager, pending, history>>

Discarded(filesystems) == {[f EXCEPT !.view = {}] : f \in filesystems}

CloseIncomplete ==
  /\ AllSettled /\ ~ run.complete
  /\ live' = IF run.old # {} THEN live ELSE Discarded(live)
  /\ phase' = Next1(pending) /\ run' = [NoRun EXCEPT !.target = run.target]
  /\ NoBudget
  /\ UNCHANGED <<disk, stored, session, manager, pending, history>>

\* The attempt throws, as it does without a filesystem: it is repeated, or the
\* run ends whatever is pending.
Unbound == phase = "attempt" /\ live = {}

AttemptThrows ==
  /\ phase \in {"attempt", "execute"}
  /\ live' = IF run.old # {} THEN live ELSE Discarded(live)
  /\ \/ phase' = "attempt"
     \/ phase' = "idle"
  /\ run' = [run EXCEPT !.old = {}, !.plan = NoRun.plan]
  /\ IF Unbound THEN NoBudget ELSE Fault
  /\ UNCHANGED <<disk, stored, session, manager, pending, history>>

Cycle ==
  \/ Begin \/ Attempt \/ CloseClean \/ CloseIncomplete \/ AttemptThrows
  \/ \E o \in Object : Push(o) \/ Pull(o) \/ Match(o) \/ ActionFails(o)

-----------------------------------------------------------------------------
(* The backend manager.                                                     *)

At(step) == manager.step = step
Goto(step) == manager' = [manager EXCEPT !.step = step]

\* The exposed filesystem is replaced; a running attempt keeps the one it has.
Expose(filesystems) ==
  /\ live' = filesystems
  /\ begun' = (begun /\ Targets(filesystems) = Targets(live))
  /\ mixed' = (mixed /\ ~ (phase = "idle" /\ NoRecords))

Kept == IF phase = "execute" /\ run.old = {} THEN [run EXCEPT !.old = live] ELSE run

\* Mutant: the signal comes while `connecting` is still set.
FinishEarly(exposed) == manager' = Idle /\ run' = Kept /\ UNCHANGED <<phase, pending>>

\* The operation ends and what is exposed gets a cycle; one that runs goes on.
Ends(exposed, going) ==
  /\ manager' = Idle
  /\ IF phase # "idle" \/ exposed = {} \/ ~ layout
       THEN run' = going /\ UNCHANGED <<phase, pending>>
       ELSE (\E f \in exposed : Start(f, manager.kind = "sync")) /\ UNCHANGED pending

Finish(exposed) == Ends(exposed, Kept)

\* A failed call leaves the filesystem as it is, and asks for a cycle all the same.
FinishUnchanged == Fault /\ Ends(live, run)

\* The operation ends and asks for nothing, whatever is exposed.
GiveUp ==
  /\ Fault /\ manager' = Idle
  /\ unanswered' = (unanswered \/ live # {})
  /\ UNCHANGED <<cycle, begun, owed, lapses>>

Open(kind, step, to) ==
  /\ ~ connecting /\ UserOp
  /\ manager' = [kind |-> kind, step |-> step, to |-> to, reset |-> FALSE]
  /\ UNCHANGED <<disk, stored, live, session, cycle, history>>

\* bindDefaultRemoteVault, completeBackendFolderPick.
BindFolder(t) == settings.creds /\ Open("bind", "resolve", t)
StartConnect == Open("connect", "auth", None)
StartAuthPick(t) == Open("authpick", "auth", t)
StartDisconnect == Open("disconnect", "forget", None)
StartSwitch == Open("switch", "leave", None)

Bound(t) == settings' = [settings EXCEPT !.folder = t]

Resolve ==
  /\ At("resolve")
  /\ \/ Bound(manager.to) /\ Goto("init") /\ NoBudget /\ UNCHANGED <<cycle, history>>
     \/ GiveUp /\ UNCHANGED settings
  /\ UNCHANGED <<disk, records, durable, live, session>>

\* A failed authorization leaves what was there; connect, unlike the combined
\* callback, still asks for a cycle.
Authorize ==
  /\ At("auth")
  /\ \/ /\ settings' = [settings EXCEPT !.creds = TRUE]
        /\ Goto("forget") /\ NoBudget /\ UNCHANGED <<cycle, history>>
     \/ manager.kind = "connect" /\ FinishUnchanged /\ UNCHANGED <<settings, history>>
     \/ manager.kind = "authpick" /\ GiveUp /\ UNCHANGED settings
  /\ UNCHANGED <<disk, records, durable, live, session>>

\* The parameters a module keeps through a disconnection may include the folder.
LeftFolder == IF Keeps THEN settings.folder ELSE None

\* The provider's own disconnection: tokens gone, parameters reduced.
ProviderLeft == [settings EXCEPT !.creds = FALSE, !.folder = LeftFolder]

\* switchBackend revokes before it discards: the provider forgets the folder.
Leave ==
  /\ At("leave")
  /\ settings' = IF settings.creds THEN ProviderLeft ELSE settings
  /\ Goto("forget") /\ NoBudget
  /\ UNCHANGED <<disk, records, durable, live, session, cycle, history>>

\* Without an exposed filesystem the store is found by the bound folder.
StoresOf(filesystems) ==
  IF filesystems = {} THEN {settings.folder} ELSE Targets(filesystems)

\* resetAll, first half: the checkpoint of the exposed filesystem, or by its key.
Forget ==
  /\ At("forget")
  /\ \/ /\ durable' = [t \in Target |-> IF t \in StoresOf(live) THEN {} ELSE durable[t]]
        /\ live' = Discarded(live) /\ NoBudget
        /\ suspect' = suspect \cup IF phase = "idle" THEN {} ELSE Targets(live)
     \/ Fault /\ UNCHANGED <<durable, live, suspect>>
  /\ Goto("clear")
  /\ UNCHANGED <<disk, records, settings, session, cycle, begins, mixed>>

\* clearSyncState takes the mutex.
Clears == phase = "idle"

NoBaseline ==
  /\ records' = [o \in Object |-> None] /\ pending' = FALSE
  /\ suspect' = suspect \cup Standing

AfterClear ==
  CASE manager.kind = "connect"  -> "build"
    [] manager.kind = "authpick" -> "pick"
    [] OTHER                     -> "drop"

ClearBaseline ==
  /\ At("clear") /\ Clears /\ NoBaseline
  /\ Goto(AfterClear) /\ NoBudget
  /\ UNCHANGED <<disk, durable, settings, live, session, phase, run, begins, mixed>>

ClearFails ==
  /\ At("clear")
  /\ \/ manager.kind = "connect" /\ FinishUnchanged /\ UNCHANGED history
     \/ manager.kind # "connect" /\ GiveUp
  /\ UNCHANGED <<disk, stored, live, session>>

Pick ==
  /\ At("pick")
  /\ \/ Bound(manager.to) /\ Goto("init") /\ NoBudget /\ UNCHANGED <<cycle, history>>
     \/ GiveUp /\ UNCHANGED settings
  /\ UNCHANGED <<disk, records, durable, live, session>>

\* completeBackendConnect rebuilds in place, without a folder to nothing.
Build ==
  /\ At("build")
  /\ \/ /\ settings.folder = None /\ Expose({}) /\ Finish({}) /\ NoBudget
     \/ /\ settings.folder # None
        /\ Expose({Filesystem(settings.folder)})
        /\ run' = Kept /\ Goto("validate") /\ NoBudget /\ UNCHANGED <<phase, pending>>
     \/ FinishUnchanged /\ UNCHANGED <<live, begun, mixed>>
  /\ UNCHANGED <<disk, stored, session, owed, unanswered, suspect>>

Disconnected == settings' = [ProviderLeft EXCEPT !.stored = None]

\* Only the provider's own verdict that the folder is unusable rejects a binding;
\* a provider that cannot be reached lets it pass.
RootRejected == Fault

Validate ==
  /\ At("validate")
  /\ \/ /\ settings' = [settings EXCEPT !.stored = settings.folder]
        /\ Finish(live) /\ NoBudget /\ UNCHANGED <<live, begun, mixed>>
     \/ /\ RootRejected /\ Disconnected /\ Expose({}) /\ Finish({})
  /\ UNCHANGED <<disk, records, durable, session, owed, unanswered, suspect>>

\* teardownActiveBackend; a switch wipes every parameter.
Drop ==
  /\ At("drop")
  /\ IF manager.kind = "switch"
       THEN settings' = [folder |-> None, creds |-> FALSE, stored |-> None]
       ELSE Disconnected
  /\ Expose({}) /\ Finish({}) /\ NoBudget
  /\ UNCHANGED <<disk, records, durable, session, owed, unanswered, suspect>>

\* Mutant: the folder bound last is not compared.
SameFolder == FALSE

\* initBackend: another folder than the last synced one has no use for its records.
FolderChanged ==
  settings.folder # None /\ settings.stored # None /\ settings.folder # settings.stored

Recorded ==
  settings' = [settings EXCEPT !.stored = IF settings.folder = None THEN @ ELSE settings.folder]

Init1 ==
  /\ At("init")
  /\ \/ /\ FolderChanged /\ Clears /\ NoBaseline /\ Recorded
        /\ manager' = [manager EXCEPT !.step = "open", !.reset = TRUE]
        /\ NoBudget /\ UNCHANGED <<phase, run>>
     \/ /\ ~ FolderChanged /\ Recorded /\ Goto("open")
        /\ NoBudget /\ UNCHANGED <<records, cycle, suspect>>
     \/ /\ FolderChanged /\ FinishUnchanged
        /\ UNCHANGED <<records, settings, suspect>>
  /\ UNCHANGED <<disk, durable, live, session, begins, mixed>>

Connected == settings.folder # None /\ settings.creds

OpenFs ==
  /\ At("open")
  /\ \/ /\ ~ Connected /\ Expose({}) /\ Finish({}) /\ NoBudget
     \/ /\ Connected /\ Expose({Filesystem(settings.folder)})
        /\ IF manager.reset
             THEN run' = Kept /\ Goto("reset") /\ UNCHANGED <<phase, pending>>
             ELSE Finish({Filesystem(settings.folder)})
        /\ NoBudget
     \/ /\ Connected /\ FinishUnchanged /\ UNCHANGED <<live, begun>>
        /\ mixed' = (mixed \/ (manager.reset /\ live # {}))
  /\ UNCHANGED <<disk, stored, session, owed, unanswered, suspect>>

ResetCheckpoint ==
  /\ At("reset")
  /\ \/ /\ durable' = [durable EXCEPT ![settings.folder] = {}]
        /\ live' = Discarded(live) /\ NoBudget
     \/ Fault /\ UNCHANGED <<durable, live>>
  /\ Finish(live)
  /\ UNCHANGED <<disk, records, settings, session, history>>

Rescan ==
  /\ UserOp /\ phase = "idle" /\ live # {}
  /\ durable' = [t \in Target |-> IF t \in Targets(live) THEN {} ELSE durable[t]]
  /\ live' = Discarded(live)
  /\ RunSyncUnlessConnecting
  /\ UNCHANGED <<disk, records, settings, session, manager, history>>

\* The application is killed and started again.
Restart ==
  /\ UserOp
  /\ live' = {} /\ layout' = FALSE /\ departed' = FALSE /\ debounced' = FALSE
  /\ tracker' = [dirty |-> {}, initialized |-> FALSE]
  /\ manager' = [Idle EXCEPT !.kind = "init", !.step = "init"]
  /\ phase' = "idle" /\ pending' = FALSE /\ run' = NoRun
  /\ begun' = FALSE /\ owed' = FALSE /\ unanswered' = FALSE
  /\ UNCHANGED <<disk, stored, lapses>>

Manager ==
  \/ \E t \in Target : BindFolder(t) \/ StartAuthPick(t)
  \/ StartConnect \/ StartDisconnect \/ StartSwitch
  \/ Resolve \/ Authorize \/ Leave \/ Forget \/ ClearBaseline \/ ClearFails \/ Pick
  \/ Build \/ Validate \/ Drop
  \/ Init1 \/ OpenFs \/ ResetCheckpoint

Requests == SyncNow \/ LayoutReady \/ Debounced \/ Depart \/ Foreground

Edits == (\E o \in Object : LocalEdit(o)) \/ (\E t \in Target, o \in Object : RemoteEdit(t, o))

Init ==
  /\ local = {} /\ remote = [t \in Target |-> {}]
  /\ records = [o \in Object |-> None] /\ durable = [t \in Target |-> {}]
  /\ settings = [folder |-> None, creds |-> TRUE, stored |-> None]
  /\ live = {} /\ layout = TRUE /\ departed = FALSE
  /\ tracker = [dirty |-> {}, initialized |-> FALSE] /\ debounced = FALSE
  /\ manager = Idle /\ phase = "idle" /\ pending = FALSE /\ run = NoRun
  /\ begun = FALSE /\ owed = FALSE /\ unanswered = FALSE
  /\ mixed = FALSE /\ suspect = {}
  /\ edits = 0 /\ ops = 0 /\ faults = 0

Next == Requests \/ Edits \/ Cycle \/ Manager \/ Rescan \/ Restart

Spec == Init /\ [][Next]_vars

-----------------------------------------------------------------------------
(* Properties.                                                              *)

Phases == {"idle", "begin", "attempt", "execute"}
Steps == {"none", "resolve", "auth", "leave", "forget", "clear", "pick", "build",
          "validate", "drop", "init", "open", "reset"}

TypeOK ==
  /\ local \subseteq Object /\ remote \in [Target -> SUBSET Object]
  /\ records \in [Object -> Target \cup {None}]
  /\ durable \in [Target -> SUBSET SUBSET Object]
  /\ settings.folder \in Target \cup {None} /\ settings.stored \in Target \cup {None}
  /\ Cardinality(live) <= 1 /\ Cardinality(run.old) <= 1
  /\ \A f \in live \cup run.old : f.target \in Target /\ f.view \subseteq SUBSET Object
  /\ manager.step \in Steps /\ phase \in Phases
  /\ run.old # {} => phase = "execute"
  /\ phase # "idle" => run.target \in Target

\* No cycle meets a record of another folder: it would take files of the one for
\* files of the other that were deleted there.  Except once the filesystem of a
\* folder just taken over could not be opened.
BaselineOfBoundFolder ==
  phase = "execute" /\ ~ mixed =>
    \A o \in Object, f \in Used : records[o] \in {None, f.target}

\* A checkpoint stands for the records: what it has not noticed was synced, so
\* nothing in the folder stays out of the vault; whenever the app is killed, for
\* every folder but those whose checkpoint and records were cleared apart.
CheckpointVouches ==
  \A t \in Target \ suspect : \A unseen \in durable[t] :
    \A o \in remote[t] \ unseen : records[o] = t

\* A folder that is exposed gets its first cycle without another signal, however
\* binding, start-up and running cycles interleave, unless an operation gave up.
EveryBindingIsSynced ==
  phase = "idle" /\ ~ connecting /\ layout /\ live # {} => begun \/ unanswered \/ mixed

\* A return to the foreground whose signal was consumed is followed by a cycle,
\* unless it came during an operation that gave up.
ReturnIsRechecked ==
  phase = "idle" /\ ~ connecting /\ live # {} => ~ owed \/ unanswered
=============================================================================

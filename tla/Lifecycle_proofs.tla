--------------------------- MODULE Lifecycle_proofs ---------------------------
(***************************************************************************)
(* Proofs about Lifecycle for every set of folders and objects and any     *)
(* number of edits, operations and failures.                               *)
(*                                                                         *)
(* The invariants build on each other: Typed; Single and Holding, which    *)
(* say what the `connecting` flag and the mutex exclude; BoundHere, whose  *)
(* records are where; Served, what a request still has to be answered by;  *)
(* and Vouched, what the checkpoints and views are worth.  Most steps are  *)
(* reasoned about through lemmas that state the effect of an action on the *)
(* parts the invariants mention.                                           *)
(***************************************************************************)
EXTENDS Lifecycle, FiniteSetTheorems, TLAPS

\* The values the variables take.
Kinds == {"none", "sync", "init", "bind", "connect", "authpick", "disconnect", "switch"}
Actions == {"none", "push", "pull", "match", "refused"}
MaybeTarget == Target \cup {None}
Files == [target : Target, view : SUBSET SUBSET Object]
Runs ==
  [target : MaybeTarget, again : BOOLEAN, force : BOOLEAN, snap : SUBSET Object,
   hot : BOOLEAN, remarked : SUBSET Object, old : SUBSET Files,
   plan : [Object -> Actions], complete : BOOLEAN]

Operations == [kind : Kinds, step : Steps, to : MaybeTarget, reset : BOOLEAN]

Bindings == [folder : MaybeTarget, creds : BOOLEAN, stored : MaybeTarget]

Typed ==
  /\ local \in SUBSET Object
  /\ remote \in [Target -> SUBSET Object]
  /\ records \in [Object -> MaybeTarget]
  /\ durable \in [Target -> SUBSET SUBSET Object]
  /\ settings \in Bindings
  /\ live \in SUBSET Files
  /\ layout \in BOOLEAN
  /\ tracker \in [dirty : SUBSET Object, initialized : BOOLEAN]
  /\ manager \in Operations
  /\ phase \in Phases
  /\ pending \in BOOLEAN
  /\ run \in Runs
  /\ begun \in BOOLEAN /\ owed \in BOOLEAN /\ unanswered \in BOOLEAN
  /\ mixed \in BOOLEAN /\ suspect \in SUBSET Target

\* A run that has not begun is a run.
LEMMA NoRunTyped == NoRun \in Runs
  BY DEF NoRun, Runs, Actions, MaybeTarget

\* A cycle starts on a filesystem of X.
StartedOn(X) ==
  /\ phase = "idle" /\ layout /\ phase' = "begin"
  /\ run' \in Runs /\ run'.old = {}
  /\ \E f \in X : run'.target = f.target

\* What starting a cycle on a filesystem sets.
LEMMA StartEffect ==
    ASSUME NEW f \in Files, NEW again \in BOOLEAN, Start(f, again)
    PROVE  phase' = "begin" /\ run' \in Runs /\ run'.old = {} /\ run'.target = f.target
  <1>1. run' = [NoRun EXCEPT !.target = f.target, !.again = again] /\ phase' = "begin"
    BY DEF Start
  <1>2. NoRun.old = {}
    BY DEF NoRun
  <1> QED
    BY <1>1, <1>2, NoRunTyped DEF Runs, Files, MaybeTarget

\* runSync leaves the cycle alone or starts one on what is exposed.
LEMMA RunSyncEffect ==
    ASSUME NEW X \in SUBSET Files, RunSync(X), pending \in BOOLEAN
    PROVE  /\ pending' \in BOOLEAN
           /\ UNCHANGED <<phase, run>> \/ StartedOn(X)
  BY StartEffect DEF RunSync, StartedOn, cycle

\* The same of the requests the plugin and the scheduler make.
LEMMA RequestEffect ==
    ASSUME Typed, RunSyncUnlessConnecting \/ (~ connecting /\ Request(live))
    PROVE  /\ pending' \in BOOLEAN
           /\ UNCHANGED <<phase, run>> \/ (~ connecting /\ StartedOn(live))
  BY RunSyncEffect DEF Typed, RunSyncUnlessConnecting, Request, cycle

\* The cycle goes on; an attempt under way holds on to its filesystem.
KeptRun ==
  /\ run' \in Runs /\ UNCHANGED phase
  /\ run'.target = run.target /\ run'.force = run.force
  /\ run'.plan = run.plan /\ run'.complete = run.complete
  /\ run'.old = IF phase = "execute" /\ run.old = {} THEN live ELSE run.old

\* Keeping the run changes nothing of it but the filesystem it holds.
LEMMA KeptEffect ==
    ASSUME Typed, run' = Kept, UNCHANGED phase PROVE KeptRun
  BY DEF Typed, Kept, KeptRun, Runs

\* An operation that ends keeps the cycle or starts the first one of what it exposed.
LEMMA EndsEffect ==
    ASSUME Typed, NEW X \in SUBSET Files, NEW going \in Runs, Ends(X, going)
    PROVE  /\ manager' = Idle /\ pending' \in BOOLEAN /\ run' \in Runs /\ phase' \in Phases
           /\ \/ /\ phase # "idle" \/ X = {} \/ ~ layout
                 /\ UNCHANGED phase /\ run' = going
              \/ StartedOn(X)
  <1>1. (manager.kind = "sync") \in BOOLEAN
    OBVIOUS
  <1>2. CASE phase # "idle" \/ X = {} \/ ~ layout
    BY <1>2 DEF Ends, Typed
  <1>3. CASE ~ (phase # "idle" \/ X = {} \/ ~ layout)
    <2>1. PICK f \in X : Start(f, manager.kind = "sync")
      BY <1>3 DEF Ends
    <2>2. UNCHANGED pending /\ manager' = Idle
      BY <1>3 DEF Ends
    <2> QED
      BY <1>1, <1>3, <2>1, <2>2, StartEffect DEF StartedOn, Typed, Phases
  <1> QED
    BY <1>2, <1>3

\* An operation that replaced what is exposed, and one whose call failed.
LEMMA FinishEffect ==
    ASSUME Typed, NEW X \in SUBSET Files, Finish(X)
    PROVE  /\ manager' = Idle /\ pending' \in BOOLEAN /\ run' \in Runs /\ phase' \in Phases
           /\ \/ (phase # "idle" \/ X = {} \/ ~ layout) /\ KeptRun
              \/ StartedOn(X)
  <1>1. Kept \in Runs
    BY DEF Typed, Kept, Runs
  <1>2. Ends(X, Kept)
    BY DEF Finish
  <1> QED
    BY <1>1, <1>2, EndsEffect, KeptEffect

LEMMA FinishUnchangedEffect ==
    ASSUME Typed, FinishUnchanged
    PROVE  /\ manager' = Idle /\ pending' \in BOOLEAN /\ run' \in Runs /\ phase' \in Phases
           /\ \/ (phase # "idle" \/ live = {} \/ ~ layout) /\ UNCHANGED <<phase, run>>
              \/ StartedOn(live)
  BY EndsEffect DEF FinishUnchanged, Typed

\* Noting a change in the views of filesystems leaves filesystems.
LEMMA LoggedInTyped ==
    ASSUME NEW X \in SUBSET Files, NEW t \in Target, NEW o \in Object
    PROVE  LoggedIn(X, t, o) \in SUBSET Files
  <1>1. ASSUME NEW views \in SUBSET SUBSET Object
        PROVE Logged(views, o) \in SUBSET SUBSET Object
    BY DEF Logged
  <1> QED
    BY <1>1 DEF LoggedIn, Files

\* So does discarding their views.
LEMMA DiscardedTyped ==
    ASSUME NEW X \in SUBSET Files PROVE Discarded(X) \in SUBSET Files
  BY DEF Discarded, Files

\* The working view is a set of unseen changes.
LEMMA ViewOfTyped ==
    ASSUME Typed, NEW f \in Files PROVE ViewOf(f) \in SUBSET SUBSET Object
  BY DEF Typed, ViewOf, Files

\* The operations that begin without a request of the user.
LEMMA OperationsTyped ==
    /\ Idle \in Operations /\ InitThenRun \in Operations
    /\ [Idle EXCEPT !.kind = "init", !.step = "init"] \in Operations
  <1>1. Idle \in Operations
    BY DEF Idle, Operations, Kinds, Steps, MaybeTarget
  <1> QED
    BY <1>1 DEF InitThenRun, Operations, Kinds, Steps

\* Going to the next step leaves an operation.
LEMMA GotoTyped ==
    ASSUME Typed, NEW step \in Steps, Goto(step)
    PROVE  manager' \in Operations
  BY DEF Typed, Goto, Operations

\* Types are kept by requests, edits, cycles and the manager.
LEMMA RequestsTyped == ASSUME Typed, Requests PROVE Typed'
  <1>1. CASE SyncNow
    BY <1>1, RequestEffect, OperationsTyped
    DEF SyncNow, RequestOrInit, StartedOn, Typed, Phases, disk, stored, session, history,
        begins, lapses, cycle
  <1>2. CASE LayoutReady
    BY <1>2, StartEffect, OperationsTyped
    DEF LayoutReady, Typed, Phases, disk, stored, history, begins, lapses, cycle
  <1>3. CASE Debounced
    BY <1>3, RequestEffect DEF Debounced, StartedOn, Typed, Phases, disk, stored, history,
        begins, lapses, cycle
  <1>4. CASE Depart
    BY <1>4 DEF Depart, Typed, disk, stored, history, begins, lapses, cycle
  <1>5. CASE Foreground
    BY <1>5, RequestEffect DEF Foreground, StartedOn, Typed, Phases, disk, stored, history,
        begins, lapses,
         cycle
  <1> QED
    BY <1>1, <1>2, <1>3, <1>4, <1>5 DEF Requests

LEMMA EditsTyped == ASSUME Typed, Edits PROVE Typed'
  <1>1. ASSUME NEW o \in Object, LocalEdit(o) PROVE Typed'
    BY <1>1 DEF LocalEdit, Typed, stored, history, begins, lapses, Runs
  <1>2. ASSUME NEW t \in Target, NEW o \in Object, RemoteEdit(t, o) PROVE Typed'
    <2>1. live' \in SUBSET Files
      BY <1>2, LoggedInTyped DEF RemoteEdit, Typed
    <2>2. run' \in Runs
      BY <1>2, LoggedInTyped DEF RemoteEdit, Typed, Runs
    <2>3. durable' \in [Target -> SUBSET SUBSET Object]
      BY <1>2 DEF RemoteEdit, Typed, Logged
    <2> QED
      BY <1>2, <2>1, <2>2, <2>3 DEF RemoteEdit, Typed, session, history, begins, lapses
  <1> QED
    BY <1>1, <1>2 DEF Edits

\* The folders of filesystems, and those with a checkpoint or a view of one, are folders.
LEMMA TargetsTyped ==
    /\ \A X \in SUBSET Files : Targets(X) \in SUBSET Target
    /\ Standing \in SUBSET Target
  BY DEF Targets, Files, Standing

\* What the running attempt uses is a filesystem.
LEMMA UsedTyped == ASSUME Typed PROVE Used \in SUBSET Files
  BY DEF Typed, Used, Runs

\* A decision is one of the actions.
LEMMA DecisionTyped ==
    ASSUME NEW f, NEW o PROVE Decision(f, o) \in Actions
  BY DEF Decision, Actions

\* Settling an action leaves a run.
LEMMA SettledTyped ==
    ASSUME Typed, NEW o \in Object, NEW ok \in BOOLEAN
    PROVE  Settled(o, ok) \in Runs
  BY DEF Typed, Settled, Runs, Actions

\* A filesystem with another view.
LEMMA Viewed ==
    ASSUME NEW f \in Files, NEW view \in SUBSET SUBSET Object
    PROVE  \E g \in Files :
             g = [f EXCEPT !.view = view] /\ g.target = f.target /\ g.view = view
  <1>1. [f EXCEPT !.view = view] \in Files
    BY DEF Files
  <1>2. [f EXCEPT !.view = view].target = f.target /\ [f EXCEPT !.view = view].view = view
    BY DEF Files
  <1> QED
    BY <1>1, <1>2

\* Settling an action changes the plan at that object and the outcome, no more.
LEMMA SettledKeeps ==
    ASSUME Typed, NEW o \in Object, NEW ok \in BOOLEAN, NEW done, done = Settled(o, ok)
    PROVE  /\ done \in Runs
           /\ done.target = run.target /\ done.force = run.force /\ done.old = run.old
           /\ done.plan = [run.plan EXCEPT ![o] = "none"]
           /\ done.complete = (run.complete /\ ok)
  BY DEF Typed, Settled, Runs, Actions

\* After a success the outcome is what it was.
LEMMA SettledWell ==
    ASSUME Typed, NEW o \in Object, NEW done, done = Settled(o, TRUE)
    PROVE  /\ done.target = run.target /\ done.force = run.force /\ done.old = run.old
           /\ done.plan = [run.plan EXCEPT ![o] = "none"] /\ done.complete = run.complete
  <1>1. /\ done.target = run.target /\ done.force = run.force /\ done.old = run.old
        /\ done.plan = [run.plan EXCEPT ![o] = "none"]
        /\ done.complete = (run.complete /\ TRUE)
    BY SettledKeeps
  <1>2. run.complete \in BOOLEAN
    BY DEF Typed, Runs
  <1> QED
    BY <1>1, <1>2

\* An attempt exposes its filesystem with a fresh view and decides about all it visits.
LEMMA AttemptEffect ==
    ASSUME Typed, Attempt
    PROVE  \E f \in live, g \in Files : \E unseen \in ViewOf(f) :
             /\ live' = {g} /\ g.target = f.target /\ g.view = {{}}
             /\ run' \in Runs /\ run'.old = {} /\ run'.complete = TRUE
             /\ run'.target = run.target /\ run'.force = run.force
             /\ \A o \in Visited(f, unseen) \cap Object : run'.plan[o] = Decision(f, o)
  <1>1. PICK f \in live : \E unseen \in ViewOf(f) :
          /\ live' = {[f EXCEPT !.view = {{}}]}
          /\ run' = [run EXCEPT !.complete = TRUE, !.old = {},
                       !.plan = [o \in Object |->
                          IF o \in Visited(f, unseen) THEN Decision(f, o) ELSE "none"]]
    BY DEF Attempt
  <1>2. PICK unseen \in ViewOf(f) :
          /\ live' = {[f EXCEPT !.view = {{}}]}
          /\ run' = [run EXCEPT !.complete = TRUE, !.old = {},
                       !.plan = [o \in Object |->
                          IF o \in Visited(f, unseen) THEN Decision(f, o) ELSE "none"]]
    BY <1>1
  <1>3. f \in Files /\ {{}} \in SUBSET SUBSET Object
    BY DEF Typed
  <1>4. PICK g \in Files :
          g = [f EXCEPT !.view = {{}}] /\ g.target = f.target /\ g.view = {{}}
    BY <1>3, Viewed
  <1>5. PICK plan : plan = [o \in Object |->
                              IF o \in Visited(f, unseen) THEN Decision(f, o) ELSE "none"]
    OBVIOUS
  <1>6. plan \in [Object -> Actions]
    BY <1>5, DecisionTyped DEF Actions
  <1>7. run' = [run EXCEPT !.complete = TRUE, !.old = {}, !.plan = plan]
    BY <1>2, <1>5
  <1>8. /\ run' \in Runs /\ run'.old = {} /\ run'.complete = TRUE
        /\ run'.target = run.target /\ run'.force = run.force /\ run'.plan = plan
    BY <1>6, <1>7 DEF Typed, Runs
  <1>9. \A o \in Visited(f, unseen) \cap Object : run'.plan[o] = Decision(f, o)
    BY <1>5, <1>8
  <1> QED
    BY <1>2, <1>4, <1>8, <1>9, ZenonT(60)

\* What a push and a pull of o do to the filesystem f, which becomes g.
Pushed(o, f, g) ==
  /\ g.target = f.target /\ g.view = ViewOf(f) /\ f.target \in Target
  /\ o \notin remote[f.target]
  /\ remote' = [remote EXCEPT ![f.target] = @ \cup {o}]
  /\ records' = [records EXCEPT ![o] = f.target]
  /\ durable' = [durable EXCEPT ![f.target] = Logged(@, o)]
  /\ run' \in Runs
  /\ run'.target = run.target /\ run'.force = run.force
  /\ run'.plan = [run.plan EXCEPT ![o] = "none"]
  /\ run'.complete = run.complete
  /\ IF run.old # {} THEN live' = LoggedIn(live, f.target, o) /\ run'.old = {g}
                     ELSE live' = {g} /\ run'.old = {}

Pulled(o, f, g) ==
  /\ g.target = f.target /\ g.view = ViewOf(f) /\ f.target \in Target
  /\ records' = [records EXCEPT ![o] = f.target]
  /\ run' \in Runs
  /\ run'.target = run.target /\ run'.force = run.force
  /\ run'.plan = [run.plan EXCEPT ![o] = "none"]
  /\ run'.complete = run.complete
  /\ IF run.old # {} THEN live' = live /\ run'.old = {g}
                     ELSE live' = {g} /\ run'.old = {}

\* Push and Pull in those terms.
LEMMA PushEffect ==
    ASSUME Typed, NEW o \in Object, Push(o)
    PROVE  \E f \in Used, g \in Files : Pushed(o, f, g)
  <1>1. PICK f \in Used :
          /\ o \notin remote[f.target]
          /\ remote' = [remote EXCEPT ![f.target] = @ \cup {o}]
          /\ records' = [records EXCEPT ![o] = f.target]
          /\ durable' = [durable EXCEPT ![f.target] = Logged(@, o)]
          /\ IF run.old # {}
               THEN /\ live' = LoggedIn(live, f.target, o)
                    /\ run' = [Settled(o, TRUE) EXCEPT !.old = {[f EXCEPT !.view = ViewOf(f)]}]
               ELSE /\ live' = {[f EXCEPT !.view = ViewOf(f)]}
                    /\ run' = Settled(o, TRUE)
    BY DEF Push
  <1>2. f \in Files /\ f.target \in Target /\ ViewOf(f) \in SUBSET SUBSET Object
    BY UsedTyped, ViewOfTyped DEF Files
  <1>3. PICK g \in Files :
          g = [f EXCEPT !.view = ViewOf(f)] /\ g.target = f.target /\ g.view = ViewOf(f)
    BY <1>2, Viewed
  <1>4. PICK done \in Runs : done = Settled(o, TRUE)
    BY SettledTyped
  <1>5. /\ done.target = run.target /\ done.force = run.force /\ done.old = run.old
        /\ done.plan = [run.plan EXCEPT ![o] = "none"] /\ done.complete = run.complete
    BY <1>4, SettledWell
  <1>6. CASE run.old # {}
    <2>1. run' = [done EXCEPT !.old = {g}] /\ live' = LoggedIn(live, f.target, o)
      BY <1>1, <1>3, <1>4, <1>6
    <2>2. /\ run' \in Runs /\ run'.old = {g}
          /\ run'.target = done.target /\ run'.force = done.force
          /\ run'.plan = done.plan /\ run'.complete = done.complete
      BY <2>1 DEF Runs
    <2>3. /\ o \notin remote[f.target]
          /\ remote' = [remote EXCEPT ![f.target] = @ \cup {o}]
          /\ records' = [records EXCEPT ![o] = f.target]
          /\ durable' = [durable EXCEPT ![f.target] = Logged(@, o)]
      BY <1>1
    <2> QED
      BY <1>2, <1>3, <1>5, <1>6, <2>1, <2>2, <2>3, ZenonT(60) DEF Pushed
  <1>7. CASE run.old = {}
    <2>1. run' = done /\ live' = {g}
      BY <1>1, <1>3, <1>4, <1>7
    <2> QED
      BY <1>1, <1>2, <1>3, <1>5, <1>7, <2>1 DEF Pushed
  <1> QED
    BY <1>6, <1>7

LEMMA PullEffect ==
    ASSUME Typed, NEW o \in Object, Pull(o)
    PROVE  \E f \in Used, g \in Files : Pulled(o, f, g)
  <1>1. PICK f \in Used :
          /\ records' = [records EXCEPT ![o] = f.target]
          /\ Use([f EXCEPT !.view = ViewOf(f)], Settled(o, TRUE))
    BY DEF Pull
  <1>2. f \in Files /\ f.target \in Target /\ ViewOf(f) \in SUBSET SUBSET Object
    BY UsedTyped, ViewOfTyped DEF Files
  <1>3. PICK g \in Files :
          g = [f EXCEPT !.view = ViewOf(f)] /\ g.target = f.target /\ g.view = ViewOf(f)
    BY <1>2, Viewed
  <1>4. PICK done \in Runs : done = Settled(o, TRUE)
    BY SettledTyped
  <1>5. /\ done.target = run.target /\ done.force = run.force /\ done.old = run.old
        /\ done.plan = [run.plan EXCEPT ![o] = "none"] /\ done.complete = run.complete
    BY <1>4, SettledWell
  <1>6. Use(g, done)
    BY <1>1, <1>3, <1>4
  <1>7. CASE run.old # {}
    <2>1. run' = [done EXCEPT !.old = {g}] /\ live' = live
      BY <1>6, <1>7 DEF Use
    <2>2. /\ run' \in Runs /\ run'.old = {g}
          /\ run'.target = done.target /\ run'.force = done.force
          /\ run'.plan = done.plan /\ run'.complete = done.complete
      BY <2>1 DEF Runs
    <2> QED
      BY <1>1, <1>2, <1>3, <1>5, <1>7, <2>1, <2>2, ZenonT(60) DEF Pulled
  <1>8. CASE run.old = {}
    <2>1. run' = done /\ live' = {g}
      BY <1>6, <1>8 DEF Use
    <2> QED
      BY <1>1, <1>2, <1>3, <1>5, <1>8, <2>1 DEF Pulled
  <1> QED
    BY <1>7, <1>8

LEMMA CycleTyped == ASSUME Typed, Cycle PROVE Typed'
  <1>1. CASE Begin
    BY <1>1, NoRunTyped, ZenonT(60)
    DEF Begin, Typed, disk, stored, session, Runs, HasCheckpoint, Phases
  <1>2. CASE Attempt
    BY <1>2, AttemptEffect, ZenonT(60)
    DEF Attempt, Typed, disk, stored, session, history, begins, lapses, Phases
  <1>3. CASE CloseClean
    <2>1. durable' \in [Target -> SUBSET SUBSET Object]
      BY <1>3, UsedTyped DEF CloseClean, Typed, Files
    <2>2. run' \in Runs
      BY <1>3, NoRunTyped DEF CloseClean, Typed, Runs
    <2>3. phase' \in Phases
      BY <1>3 DEF CloseClean, Next1, Phases
    <2>4. tracker' \in [dirty : SUBSET Object, initialized : BOOLEAN]
      BY <1>3 DEF CloseClean, Typed
    <2>5. suspect' \in SUBSET Target
      BY <1>3, UsedTyped, TargetsTyped DEF CloseClean, Typed
    <2> QED
      BY <1>3, <2>1, <2>2, <2>3, <2>4, <2>5 DEF CloseClean, Typed, disk, begins
  <1>4. CASE CloseIncomplete
    <2>1. run' \in Runs
      BY <1>4, NoRunTyped DEF CloseIncomplete, Typed, Runs
    <2>2. phase' \in Phases /\ live' \in SUBSET Files
      BY <1>4, DiscardedTyped DEF CloseIncomplete, Typed, Next1, Phases
    <2> QED
      BY <1>4, <2>1, <2>2 DEF CloseIncomplete, Typed, disk, stored, session, history, begins,
          lapses
  <1>5. CASE AttemptThrows
    <2>1. run' \in Runs
      BY <1>5, NoRunTyped DEF AttemptThrows, Typed, Runs
    <2>2. phase' \in Phases /\ live' \in SUBSET Files
      BY <1>5, DiscardedTyped DEF AttemptThrows, Typed, Phases
    <2> QED
      BY <1>5, <2>1, <2>2 DEF AttemptThrows, Typed, disk, stored, session, history, begins,
          lapses
  <1>6. ASSUME NEW o \in Object, Push(o) PROVE Typed'
    <2>1. PICK f \in Used, g \in Files : Pushed(o, f, g)
      BY <1>6, PushEffect
    <2>2. live' \in SUBSET Files
      BY <2>1, LoggedInTyped DEF Typed, Pushed
    <2>3. durable' \in [Target -> SUBSET SUBSET Object]
      BY <2>1 DEF Typed, Logged, Pushed
    <2> QED
      BY <1>6, <2>1, <2>2, <2>3 DEF Push, Pushed, Typed, session, history, begins, lapses,
          MaybeTarget
  <1>7. ASSUME NEW o \in Object, Pull(o) PROVE Typed'
    <2>1. PICK f \in Used, g \in Files : Pulled(o, f, g)
      BY <1>7, PullEffect
    <2> QED
      BY <1>7, <2>1 DEF Pull, Pulled, Typed, session, history, begins, lapses, MaybeTarget
  <1>8. ASSUME NEW o \in Object, Match(o) PROVE Typed'
    <2>1. records' \in [Object -> MaybeTarget] /\ run' \in Runs
      BY <1>8, UsedTyped, SettledTyped DEF Match, Typed, Files, MaybeTarget
    <2> QED
      BY <1>8, <2>1 DEF Match, Typed, disk, session, history, begins, lapses
  <1>9. ASSUME NEW o \in Object, ActionFails(o) PROVE Typed'
    BY <1>9, SettledTyped DEF ActionFails, Typed, disk, stored, session, history, begins, lapses
  <1> QED
    BY <1>1, <1>2, <1>3, <1>4, <1>5, <1>6, <1>7, <1>8, <1>9 DEF Cycle

\* A filesystem opened for a folder is of that folder and has no view.
LEMMA FilesystemTyped ==
    ASSUME NEW t \in Target
    PROVE  /\ Filesystem(t) \in Files /\ Filesystem(t).target = t /\ Filesystem(t).view = {}
  BY DEF Filesystem, Files

\* Exposing filesystems.
LEMMA ExposeTyped ==
    ASSUME Typed, NEW X \in SUBSET Files, Expose(X)
    PROVE  live' = X /\ begun' \in BOOLEAN /\ mixed' \in BOOLEAN
  BY DEF Expose, Typed

\* The provider's disconnection takes the credentials and may take the folder.
LEMMA LeftEffect ==
    ASSUME Typed
    PROVE  /\ ProviderLeft \in Bindings /\ ProviderLeft.folder = LeftFolder
           /\ ProviderLeft.creds = FALSE /\ ProviderLeft.stored = settings.stored
  <1>1. LeftFolder \in MaybeTarget
    BY DEF LeftFolder, Typed, Bindings, MaybeTarget
  <1> QED
    BY <1>1 DEF ProviderLeft, Typed, Bindings

\* A disconnection forgets the folder synced last as well.
LEMMA DisconnectedEffect ==
    ASSUME Typed, Disconnected
    PROVE  /\ settings' \in Bindings /\ settings'.folder = LeftFolder
           /\ settings'.creds = FALSE /\ settings'.stored = None
  BY LeftEffect DEF Disconnected, Bindings, MaybeTarget

\* Both ways of tearing a backend down do.
LEMMA DropEffect ==
    ASSUME Typed, Drop
    PROVE  /\ settings' \in Bindings /\ settings'.folder \in {LeftFolder, None}
           /\ settings'.creds = FALSE /\ settings'.stored = None
  <1>1. CASE manager.kind = "switch"
    <2>1. settings' = [folder |-> None, creds |-> FALSE, stored |-> None]
      BY <1>1 DEF Drop
    <2> QED
      BY <2>1 DEF Bindings, MaybeTarget
  <1>2. CASE manager.kind # "switch"
    BY <1>2, DisconnectedEffect DEF Drop
  <1> QED
    BY <1>1, <1>2

\* An operation that ends with nothing exposed.
LEMMA GaveUp ==
    ASSUME Typed, Expose({}), Finish({})
    PROVE  /\ live' = {} /\ begun' \in BOOLEAN /\ mixed' \in BOOLEAN /\ manager' = Idle
           /\ pending' \in BOOLEAN /\ KeptRun /\ run' \in Runs /\ phase' \in Phases
  BY ExposeTyped, FinishEffect DEF StartedOn

LEMMA ManagerTyped == ASSUME Typed, Manager PROVE Typed'
  <1>1. ASSUME NEW kind \in Kinds, NEW step \in Steps, NEW to \in MaybeTarget,
               Open(kind, step, to)
        PROVE  Typed'
    BY <1>1 DEF Open, Typed, Operations, disk, stored, session, cycle, history, begins, lapses
  <1>2. ASSUME NEW t \in Target, BindFolder(t) \/ StartAuthPick(t) PROVE Typed'
    BY <1>1, <1>2 DEF BindFolder, StartAuthPick, Kinds, Steps, MaybeTarget
  <1>3. CASE StartConnect \/ StartDisconnect \/ StartSwitch
    BY <1>1, <1>3 DEF StartConnect, StartDisconnect, StartSwitch, Kinds, Steps, MaybeTarget
  <1>4. CASE Resolve \/ Pick
    BY <1>4, OperationsTyped, ZenonT(60)
    DEF GiveUp, Resolve, Pick, Bound, Goto, Typed, Bindings, Operations, Steps, disk, session,
        cycle, history, begins, lapses
  <1>5. CASE Authorize
    BY <1>5, OperationsTyped, FinishUnchangedEffect, ZenonT(60)
    DEF Authorize, GiveUp, Goto, Typed, Bindings, Operations, Steps, disk, session, cycle,
        history, begins, lapses
  <1>6. CASE Leave
    BY <1>6, LeftEffect, GotoTyped DEF Leave, Typed, Steps, disk, session, cycle, history,
        begins, lapses
  <1>7. CASE Forget
    <2>1. suspect' \in SUBSET Target
      BY <1>7, TargetsTyped DEF Forget, Typed
    <2> QED
      BY <1>7, <2>1, DiscardedTyped
      DEF Forget, Goto, Typed, Operations, Steps, disk, session, cycle, begins
  <1>8. CASE ClearBaseline
    <2>1. AfterClear \in Steps
      BY DEF AfterClear, Steps
    <2>2. manager' \in Operations
      BY <1>8, <2>1, GotoTyped DEF ClearBaseline
    <2>3. suspect' \in SUBSET Target
      BY <1>8, TargetsTyped DEF ClearBaseline, NoBaseline, Typed
    <2> QED
      BY <1>8, <2>2, <2>3 DEF ClearBaseline, NoBaseline, Typed, MaybeTarget, disk, session,
          begins
  <1>9. CASE ClearFails
    BY <1>9, OperationsTyped, FinishUnchangedEffect
    DEF ClearFails, GiveUp, Typed, disk, stored, session, cycle, history, begins, lapses
  <1>10. CASE Build
    <2>1. CASE settings.folder = None /\ Expose({}) /\ Finish({})
      BY <1>10, <2>1, OperationsTyped, GaveUp DEF Build, Typed, disk, stored, session
    <2>2. CASE /\ settings.folder # None /\ Expose({Filesystem(settings.folder)})
               /\ run' = Kept /\ Goto("validate") /\ UNCHANGED <<phase, pending>>
      <3>1. {Filesystem(settings.folder)} \in SUBSET Files
        BY <2>2, FilesystemTyped DEF Typed, Bindings, MaybeTarget
      <3>2. manager' \in Operations
        BY <2>2, GotoTyped DEF Steps
      <3> QED
        BY <1>10, <2>2, <3>1, <3>2, KeptEffect, ExposeTyped
        DEF Build, KeptRun, Typed, disk, stored, session
    <2>3. CASE FinishUnchanged /\ UNCHANGED <<live, begun, mixed>>
      BY <1>10, <2>3, OperationsTyped, FinishUnchangedEffect DEF Build, Typed, disk, stored,
          session
    <2> QED
      BY <1>10, <2>1, <2>2, <2>3 DEF Build
  <1>11. CASE Validate
    <2>1. CASE /\ settings' = [settings EXCEPT !.stored = settings.folder]
               /\ Finish(live)
               /\ UNCHANGED <<live, begun, mixed>>
      BY <1>11, <2>1, OperationsTyped, FinishEffect DEF Validate, Typed, Bindings, disk, session
    <2>2. CASE Disconnected /\ Expose({}) /\ Finish({})
      BY <1>11, <2>2, OperationsTyped, GaveUp, DisconnectedEffect DEF Validate, Typed, disk,
           session
    <2> QED
      BY <1>11, <2>1, <2>2 DEF Validate
  <1>12. CASE Drop
    <2>1. /\ Expose({}) /\ Finish({})
          /\ UNCHANGED <<disk, records, durable, session, owed, unanswered, suspect>>
      BY <1>12 DEF Drop
    <2> QED
      BY <1>12, <2>1, DropEffect, OperationsTyped, GaveUp DEF Typed, disk, session
  <1>13. CASE Init1
    <2>1. settings' \in Bindings
      BY <1>13 DEF Init1, Recorded, Typed, Bindings, MaybeTarget
    <2>2. CASE /\ NoBaseline /\ manager' = [manager EXCEPT !.step = "open", !.reset = TRUE]
               /\ UNCHANGED <<phase, run>>
      <3>1. suspect' \in SUBSET Target
        BY <2>2, TargetsTyped DEF NoBaseline, Typed
      <3> QED
        BY <1>13, <2>1, <2>2, <3>1
        DEF Init1, NoBaseline, Typed, Operations, Steps, MaybeTarget, disk, session, begins
    <2>3. CASE Goto("open") /\ UNCHANGED <<records, cycle, suspect>>
      BY <1>13, <2>1, <2>3, GotoTyped DEF Init1, Typed, Steps, disk, session, cycle, history,
          begins, lapses
    <2>4. CASE FinishUnchanged /\ UNCHANGED <<records, settings, suspect>>
      BY <1>13, <2>4, OperationsTyped, FinishUnchangedEffect DEF Init1, Typed, disk, session,
          history, begins, lapses
    <2> QED
      BY <1>13, <2>2, <2>3, <2>4 DEF Init1
  <1>14. CASE OpenFs
    <2> UNCHANGED <<disk, stored, session, owed, unanswered, suspect>>
      BY <1>14 DEF OpenFs
    <2>1. CASE Expose({}) /\ Finish({})
      BY <2>1, OperationsTyped, GaveUp DEF Typed, disk, stored, session
    <2>2. CASE /\ Connected /\ Expose({Filesystem(settings.folder)})
               /\ \/ run' = Kept /\ Goto("reset") /\ UNCHANGED <<phase, pending>>
                  \/ Finish({Filesystem(settings.folder)})
      <3>1. {Filesystem(settings.folder)} \in SUBSET Files
        BY <2>2, FilesystemTyped DEF Connected, Typed, Bindings, MaybeTarget
      <3>2. CASE run' = Kept /\ Goto("reset") /\ UNCHANGED <<phase, pending>>
        BY <2>2, <3>1, <3>2, GotoTyped, KeptEffect, ExposeTyped
        DEF KeptRun, Steps, Typed, disk, stored, session
      <3>3. CASE Finish({Filesystem(settings.folder)})
        BY <2>2, <3>1, <3>3, OperationsTyped, FinishEffect, ExposeTyped
        DEF Typed, disk, stored, session
      <3> QED
        BY <2>2, <3>2, <3>3
    <2>3. CASE /\ FinishUnchanged /\ UNCHANGED <<live, begun>>
               /\ mixed' = (mixed \/ (manager.reset /\ live # {}))
      BY <1>14, <2>3, OperationsTyped, FinishUnchangedEffect DEF OpenFs, Typed, disk, stored,
          session
    <2> QED
      BY <1>14, <2>1, <2>2, <2>3 DEF OpenFs
  <1>15. CASE ResetCheckpoint
    BY <1>15, OperationsTyped, FinishEffect, DiscardedTyped
    DEF ResetCheckpoint, Typed, disk, session, history, begins, lapses
  <1> QED
    BY <1>2, <1>3, <1>4, <1>5, <1>6, <1>7, <1>8, <1>9, <1>10, <1>11, <1>12, <1>13, <1>14, <1>15
    DEF Manager

\* Typed is inductive.
LEMMA TypedStep == ASSUME Typed, [Next]_vars PROVE Typed'
  <1>1. CASE Rescan
    <2>1. live' \in SUBSET Files
      BY <1>1, DiscardedTyped DEF Rescan, Typed
    <2>2. durable' \in [Target -> SUBSET SUBSET Object]
      BY <1>1 DEF Rescan, Typed
    <2>3. run' \in Runs /\ phase' \in Phases /\ pending' \in BOOLEAN
      BY <1>1, RequestEffect DEF Rescan, Typed, StartedOn, Phases
    <2> QED
      BY <1>1, <2>1, <2>2, <2>3 DEF Rescan, Typed, disk, session, history, begins, lapses
  <1>2. CASE Restart
    BY <1>2, NoRunTyped, OperationsTyped DEF Restart, Typed, Phases, disk, stored, lapses
  <1>3. CASE UNCHANGED vars
    BY <1>3 DEF vars, Typed, disk, stored, session, history, begins, lapses, cycle
  <1> QED
    BY <1>1, <1>2, <1>3, RequestsTyped, EditsTyped, CycleTyped, ManagerTyped DEF Next

-----------------------------------------------------------------------------
\* Optional values are sets of at most one element.
AtMostOne(X) == \A f, g \in X : f = g

\* At most one filesystem is exposed and at most one kept, the latter by an attempt under
\* way; a cycle knows its folder.
Single ==
  /\ AtMostOne(live) /\ AtMostOne(run.old)
  /\ run.old # {} => phase = "execute"
  /\ phase # "idle" => run.target \in Target

\* Noting a change neither adds filesystems nor rebinds them.
LEMMA TargetsOfLogged ==
    ASSUME NEW X \in SUBSET Files, NEW t \in Target, NEW o \in Object
    PROVE  /\ Targets(LoggedIn(X, t, o)) = Targets(X)
           /\ AtMostOne(X) => AtMostOne(LoggedIn(X, t, o))
  <1>1. ASSUME NEW f \in Files
        PROVE  (IF f.target = t THEN [f EXCEPT !.view = Logged(@, o)] ELSE f).target = f.target
    BY DEF Files
  <1> QED
    BY <1>1 DEF Targets, LoggedIn, AtMostOne

\* Nor does discarding views, which leaves them empty.
LEMMA TargetsOfDiscarded ==
    ASSUME NEW X \in SUBSET Files
    PROVE  /\ Targets(Discarded(X)) = Targets(X)
           /\ \A f \in Discarded(X) : f.view = {}
           /\ AtMostOne(X) => AtMostOne(Discarded(X))
  <1>1. ASSUME NEW f \in Files
        PROVE  [f EXCEPT !.view = {}].target = f.target /\ [f EXCEPT !.view = {}].view = {}
    BY DEF Files
  <1> QED
    BY <1>1 DEF Targets, Discarded, AtMostOne

\* Replacing the only filesystem by one of its folder.
LEMMA SingleTarget ==
    ASSUME NEW X, AtMostOne(X), NEW f \in X, NEW g, g.target = f.target
    PROVE  Targets({g}) = Targets(X) /\ AtMostOne({g}) /\ Targets(X) = {f.target}
  BY DEF Targets, AtMostOne

\* Edits of the vault and the folders leave cycle, bindings and operation alone.
LEMMA EditEffect ==
    ASSUME Typed, Single, Edits
    PROVE  /\ Targets(live') = Targets(live) /\ Targets(run'.old) = Targets(run.old)
           /\ AtMostOne(live') /\ AtMostOne(run'.old)
           /\ run'.target = run.target /\ run'.force = run.force
           /\ run'.plan = run.plan /\ run'.complete = run.complete
           /\ UNCHANGED <<settings, records, manager, phase, pending, layout, begun, history>>
  <1>1. ASSUME NEW o \in Object, LocalEdit(o)
        PROVE  /\ UNCHANGED <<settings, records, manager, phase, pending, layout, begun, history>>
               /\ live' = live /\ run'.old = run.old
               /\ run'.target = run.target /\ run'.force = run.force
               /\ run'.plan = run.plan /\ run'.complete = run.complete
    BY <1>1 DEF LocalEdit, Typed, Runs, stored, history, begins, lapses
  <1>2. ASSUME NEW t \in Target, NEW o \in Object, RemoteEdit(t, o)
        PROVE  /\ UNCHANGED <<settings, records, manager, phase, pending, layout, begun, history>>
               /\ live' = LoggedIn(live, t, o) /\ run'.old = LoggedIn(run.old, t, o)
               /\ run'.target = run.target /\ run'.force = run.force
               /\ run'.plan = run.plan /\ run'.complete = run.complete
    BY <1>2 DEF RemoteEdit, Typed, Runs, session, history, begins, lapses
  <1>3. live \in SUBSET Files /\ run.old \in SUBSET Files
    BY DEF Typed, Runs
  <1> QED
    BY <1>1, <1>2, <1>3, TargetsOfLogged DEF Edits, Single

\* A cycle rebinds nothing and never moves to another folder; once begun it has answered
\* every return to the foreground.
LEMMA CycleEffect ==
    ASSUME Typed, Single, Cycle
    PROVE  /\ phase # "idle" /\ UNCHANGED <<settings, manager, layout, mixed>>
           /\ \/ begun' /\ ~ owed'
              \/ phase \in {"attempt", "execute"} /\ UNCHANGED <<begun, owed, unanswered>>
           /\ Targets(live') = Targets(live) /\ run'.target = run.target
           /\ AtMostOne(live') /\ AtMostOne(run'.old)
           /\ run'.old # {} => phase' = "execute"
           /\ phase' = "execute" => Targets(Used') \subseteq Targets(Used)
  <1>1. live \in SUBSET Files /\ run.old \in SUBSET Files /\ NoRun.old = {}
    BY DEF Typed, Runs, NoRun
  <1>2. run.old = {} => Used = live
    BY DEF Used
  <1>3. ASSUME run' = [NoRun EXCEPT !.target = run.target]
        PROVE  run'.target = run.target /\ run'.old = {}
    BY <1>3, <1>1, NoRunTyped DEF Runs, Typed
  <1>4. AtMostOne({}) /\ AtMostOne(Used) /\ Used \in SUBSET Files
    BY UsedTyped DEF AtMostOne, Used, Single
  <1>5. CASE Begin
    <2>1. run'.target = run.target /\ run'.old = {}
      BY <1>1, <1>5, NoRunTyped DEF Begin, Runs, Typed
    <2> QED
      BY <1>4, <1>5, <2>1 DEF Begin, Single, disk, stored, session
  <1>6. CASE Attempt
    <2>1. PICK f \in live, g \in Files :
            live' = {g} /\ g.target = f.target /\ run'.old = {} /\ run'.target = run.target
      BY <1>6, AttemptEffect
    <2>2. /\ phase = "attempt"
          /\ UNCHANGED <<settings, manager, layout, mixed, begun, owed, unanswered>>
      BY <1>6 DEF Attempt, stored, session, history, begins, lapses
    <2>3. Targets(live') = Targets(live) /\ AtMostOne(live')
      BY <2>1, SingleTarget DEF Single
    <2>4. Used' = live' /\ Used = live
      BY <1>2, <2>1, <2>2 DEF Used, Single
    <2> QED
      BY <1>4, <2>1, <2>2, <2>3, <2>4
  <1>7. CASE CloseClean
    <2>1. /\ phase = "execute"
          /\ UNCHANGED <<live, settings, manager, layout, mixed, begun, owed, unanswered>>
      BY <1>7 DEF CloseClean, AllSettled, disk, history, begins, lapses
    <2>2. phase' # "execute" /\ run'.target = run.target /\ run'.old = {}
      BY <1>3, <1>7 DEF CloseClean, Next1
    <2> QED
      BY <1>4, <2>1, <2>2 DEF Single
  <1>8. CASE CloseIncomplete
    <2>1. /\ phase = "execute"
          /\ UNCHANGED <<settings, manager, layout, mixed, begun, owed, unanswered>>
      BY <1>8 DEF CloseIncomplete, AllSettled, stored, session, history, begins, lapses
    <2>2. phase' # "execute" /\ run'.target = run.target /\ run'.old = {}
      BY <1>3, <1>8 DEF CloseIncomplete, Next1
    <2>3. Targets(live') = Targets(live) /\ AtMostOne(live')
      BY <1>1, <1>8, TargetsOfDiscarded DEF CloseIncomplete, Single
    <2> QED
      BY <1>4, <2>1, <2>2, <2>3
  <1>9. CASE AttemptThrows
    <2>1. /\ phase \in {"attempt", "execute"} /\ phase' \in {"attempt", "idle"}
          /\ UNCHANGED <<settings, manager, layout, mixed, begun, owed, unanswered>>
      BY <1>9 DEF AttemptThrows, stored, session, history, begins, lapses, Fault
    <2>2. run'.target = run.target /\ run'.old = {}
      BY <1>9 DEF AttemptThrows, Typed, Runs
    <2>3. Targets(live') = Targets(live) /\ AtMostOne(live')
      BY <1>1, <1>9, TargetsOfDiscarded DEF AttemptThrows, Single
    <2> QED
      BY <1>4, <2>1, <2>2, <2>3
  <1>10. ASSUME NEW f \in Used, NEW g \in Files, g.target = f.target,
                UNCHANGED phase, phase = "execute", run'.target = run.target,
                \/ run.old = {} /\ live' = {g} /\ run'.old = {}
                \/ run.old # {} /\ live' = live /\ run'.old = {g}
                \/ run.old # {} /\ run'.old = {g}
                   /\ \E o \in Object : live' = LoggedIn(live, f.target, o)
         PROVE  /\ Targets(live') = Targets(live) /\ AtMostOne(live') /\ AtMostOne(run'.old)
                /\ run'.old # {} => phase' = "execute"
                /\ Targets(Used') \subseteq Targets(Used)
    <2>1. Targets({g}) = Targets(Used) /\ AtMostOne({g})
      BY <1>4, <1>10, SingleTarget
    <2>2. Used' = {g}
      BY <1>10 DEF Used
    <2>3. f.target \in Target
      BY <1>4 DEF Files
    <2>4. Targets(live') = Targets(live) /\ AtMostOne(live')
      <3>1. CASE run.old = {}
        BY <1>2, <1>10, <2>1, <3>1
      <3>2. CASE live' = live
        BY <3>2 DEF Single
      <3>3. ASSUME NEW o \in Object, live' = LoggedIn(live, f.target, o)
            PROVE  Targets(live') = Targets(live) /\ AtMostOne(live')
        BY <1>1, <2>3, <3>3, TargetsOfLogged DEF Single
      <3> QED
        BY <1>10, <3>1, <3>2, <3>3
    <2> QED
      BY <1>4, <1>10, <2>1, <2>2, <2>4
  <1>11. ASSUME NEW o \in Object, Push(o) \/ Pull(o) \/ Match(o) \/ ActionFails(o)
         PROVE  phase = "execute"
                  /\ UNCHANGED <<phase, settings, manager, layout, mixed, begun, owed, unanswered>>
    BY <1>11
    DEF Push, Pull, Match, ActionFails, Executing, disk, stored, session, history, begins,
        lapses, Fault
  <1>12. ASSUME NEW o \in Object, Push(o) \/ Pull(o) PROVE
           /\ Targets(live') = Targets(live) /\ AtMostOne(live') /\ AtMostOne(run'.old)
           /\ run'.target = run.target /\ Targets(Used') \subseteq Targets(Used)
    <2>1. CASE Push(o)
      <3>1. PICK f \in Used, g \in Files : Pushed(o, f, g)
        BY <2>1, PushEffect
      <3> QED
        BY <1>10, <1>11, <2>1, <3>1 DEF Pushed
    <2>2. CASE Pull(o)
      <3>1. PICK f \in Used, g \in Files : Pulled(o, f, g)
        BY <2>2, PullEffect
      <3> QED
        BY <1>10, <1>11, <2>2, <3>1 DEF Pulled
    <2> QED
      BY <1>12, <2>1, <2>2
  <1>13. ASSUME NEW o \in Object, Match(o) \/ ActionFails(o) PROVE
           /\ live' = live /\ run'.old = run.old /\ run'.target = run.target
    BY <1>13, SettledKeeps DEF Match, ActionFails
  <1> QED
    BY <1>1, <1>4, <1>5, <1>6, <1>7, <1>8, <1>9, <1>11, <1>12, <1>13 DEF Cycle, Single, Used

-----------------------------------------------------------------------------
\* Steps that only happen between cycles: those after the baseline was cleared.
Steady == {"pick", "build", "validate", "drop", "reset"}

\* What holding `connecting` guarantees: a step that follows the clearing of the baseline
\* or carries a pending reset has no cycle beside it, a cycle has a filesystem, and an
\* operation at a folder step has its folder.
Holding ==
  /\ manager = Idle \/ manager.step # "none"
  /\ manager.step \in Steady => phase = "idle"
  /\ manager.reset => phase = "idle" /\ manager.step \in {"open", "reset"}
  /\ manager.step = "reset" => manager.reset
  /\ ~ layout => phase = "idle"
  /\ phase # "idle" => live # {}
  /\ manager.step = "resolve" => settings.creds
  /\ manager.step \in {"resolve", "pick"} \/ manager.kind = "authpick" => manager.to \in Target
  /\ manager.step \in {"init", "open"} => phase = "idle" \/ Connected

\* No operation.
LEMMA IdleFields == Idle.kind = "none" /\ Idle.step = "none" /\ Idle.to = None
  /\ Idle.reset = FALSE
  BY DEF Idle

\* What a request can do: start a cycle between operations, or begin the start-up bind.
LEMMA RequestsEffect ==
    ASSUME Typed, Requests
    PROVE  /\ UNCHANGED <<live, settings, records, durable, remote, begun, unanswered, lapses>>
           /\ \/ UNCHANGED manager
              \/ /\ phase = "idle" \/ ~ layout
                 /\ live = {} /\ ~ connecting /\ manager' = InitThenRun
                      /\ UNCHANGED <<phase, run>>
           /\ \/ UNCHANGED <<phase, run>>
              \/ /\ ~ connecting /\ layout' /\ phase' = "begin" /\ (phase = "idle" \/ ~ layout)
                 /\ run' \in Runs /\ run'.old = {} /\ \E f \in live : run'.target = f.target
           /\ UNCHANGED layout \/ (layout' /\ (live = {} \/ connecting \/ phase' = "begin"))
           /\ UNCHANGED owed \/ (owed' /\ layout /\ phase = "idle"
                /\ (connecting \/ phase' = "begin"))
  <1>1. CASE SyncNow
    BY <1>1, RequestEffect
    DEF SyncNow, RequestOrInit, StartedOn, Typed, disk, stored, session, history, begins,
        lapses, cycle, UserOp
  <1>2. CASE LayoutReady
    BY <1>2, StartEffect DEF LayoutReady, Typed, disk, stored, history, begins, lapses, cycle
  <1>3. CASE Debounced
    BY <1>3, RequestEffect DEF Debounced, StartedOn, Typed, disk, stored, history, begins,
        lapses
  <1>4. CASE Depart
    BY <1>4 DEF Depart, Typed, disk, stored, history, begins, lapses, cycle, UserOp
  <1>5. CASE Foreground
    BY <1>5, RequestEffect
    DEF Foreground, StartedOn, RunSyncUnlessConnecting, RunSync, Start, Typed, disk, stored
  <1> QED
    BY <1>1, <1>2, <1>3, <1>4, <1>5 DEF Requests

\* What an operation of the manager does to the cycle: nothing but the
\* filesystem it captured, or it starts one.
LeftRunning ==
  /\ UNCHANGED phase /\ run' \in Runs
  /\ run'.target = run.target /\ run'.force = run.force
  /\ run'.plan = run.plan /\ run'.complete = run.complete
  /\ AtMostOne(run'.old) /\ (run'.old # {} => phase = "execute")
  /\ phase = "execute" => /\ Targets(Used') = Targets(Used)
                          /\ Used' = Used \/ At("forget")

\* Keeping the run does so.
LEMMA KeptLeavesRunning ==
    ASSUME Typed, Single, Holding, KeptRun PROVE LeftRunning
  BY DEF KeptRun, LeftRunning, Single, Holding, Used

\* So does leaving it and the exposed filesystem alone.
LEMMA UnchangedLeavesRunning ==
    ASSUME Typed, Single, UNCHANGED <<phase, run>>, Targets(live') = Targets(live),
           UNCHANGED live \/ At("forget")
    PROVE  LeftRunning
  BY DEF LeftRunning, Single, Typed, Used

\* Every operation of the manager does so, or ends with the first cycle of what it
\* exposed; none leaves a running cycle without a filesystem.
LEMMA ManagerEffect ==
    ASSUME Typed, Single, Holding, Manager
    PROVE  /\ AtMostOne(live') /\ UNCHANGED <<layout, remote>>
           /\ LeftRunning \/ (StartedOn(live') /\ manager' = Idle)
           /\ phase # "idle" => live' # {}
           /\ UNCHANGED owed
  <1> USE DEF Single
  <1>1. ASSUME NEW kind \in Kinds, NEW step \in Steps, NEW to \in MaybeTarget,
               Open(kind, step, to)
        PROVE  UNCHANGED <<live, layout, remote, phase, run, owed>>
    BY <1>1 DEF Open, disk, session, cycle, history, begins, lapses, UserOp
  <1>2. CASE \E t \in Target : BindFolder(t) \/ StartAuthPick(t)
    BY <1>1, <1>2, UnchangedLeavesRunning
    DEF BindFolder, StartAuthPick, Kinds, Steps, MaybeTarget, Holding
  <1>3. CASE StartConnect \/ StartDisconnect \/ StartSwitch
    BY <1>1, <1>3, UnchangedLeavesRunning
    DEF StartConnect, StartDisconnect, StartSwitch, Kinds, Steps, MaybeTarget, Holding
  <1>4. ASSUME \/ Resolve \/ Pick \/ Leave \/ ClearBaseline
        PROVE  UNCHANGED <<live, layout, remote, phase, run, owed>>
    BY <1>4
    DEF GiveUp, Resolve, Pick, Leave, ClearBaseline, disk, session,
        cycle, history, begins, lapses
  <1>5. CASE Resolve \/ Pick \/ Leave \/ ClearBaseline
    BY <1>4, <1>5, UnchangedLeavesRunning DEF Holding
  <1>6. ASSUME Authorize \/ ClearFails
        PROVE  /\ UNCHANGED <<live, layout, remote, owed>>
               /\ UNCHANGED <<phase, run>> \/ FinishUnchanged
    BY <1>6
    DEF Authorize, ClearFails, GiveUp, disk, session, cycle, history, begins, lapses
  <1>7. CASE Authorize \/ ClearFails
    BY <1>6, <1>7, FinishUnchangedEffect, UnchangedLeavesRunning
    DEF Holding, StartedOn
  <1>8. CASE Forget
    <2>1. UNCHANGED <<layout, remote, phase, run, owed>>
            /\ live' \in {live, Discarded(live)}
      BY <1>8 DEF Forget, disk, session, cycle, history, begins, lapses
    <2>2. Targets(live') = Targets(live) /\ AtMostOne(live')
      BY <2>1, TargetsOfDiscarded DEF Typed
    <2> QED
      BY <1>8, <2>1, <2>2, UnchangedLeavesRunning DEF Forget, Holding, Targets
  <1>9. AtMostOne({})
    BY DEF AtMostOne
  <1>10. ASSUME Build \/ Validate \/ Drop \/ OpenFs
         PROVE  UNCHANGED <<layout, remote, owed>>
    BY <1>10
    DEF Build, Validate, Drop, OpenFs, disk,
        session
  <1>11. ASSUME Expose({}), Finish({}), phase = "idle"
         PROVE  AtMostOne(live') /\ LeftRunning
    BY <1>9, <1>11, GaveUp, KeptLeavesRunning
  <1>12. ASSUME Finish(live) \/ FinishUnchanged, UNCHANGED live
         PROVE  AtMostOne(live') /\ (LeftRunning \/ (StartedOn(live') /\ manager' = Idle))
    BY <1>12, FinishEffect, FinishUnchangedEffect, KeptLeavesRunning, UnchangedLeavesRunning
    DEF Typed
  <1>13. ASSUME NEW t \in Target, Expose({Filesystem(t)})
         PROVE  AtMostOne(live') /\ live' # {} /\ live' \in SUBSET Files
    BY <1>13, FilesystemTyped DEF Expose, AtMostOne
  <1>14. CASE Build
    <2>1. phase = "idle"
      BY <1>14 DEF Build, Holding, At, Steady
    <2>2. CASE Expose({}) /\ Finish({})
      BY <1>10, <1>11, <1>14, <2>1, <2>2
    <2>3. CASE /\ settings.folder # None
               /\ Expose({Filesystem(settings.folder)})
               /\ run' = Kept
               /\ UNCHANGED phase
      BY <1>10, <1>13, <1>14, <2>1, <2>3, KeptEffect, KeptLeavesRunning
      DEF Typed, Bindings, MaybeTarget
    <2>4. CASE FinishUnchanged /\ UNCHANGED live
      BY <1>10, <1>12, <1>14, <2>1, <2>4
    <2> QED
      BY <1>14, <2>2, <2>3, <2>4 DEF Build
  <1>15. CASE Validate
    <2>1. phase = "idle"
      BY <1>15 DEF Validate, Holding, At, Steady
    <2> QED
      BY <1>10, <1>11, <1>12, <1>15, <2>1 DEF Validate
  <1>16. CASE Drop
    BY <1>10, <1>11, <1>16 DEF Drop, Holding, At, Steady
  <1>17. CASE Init1
    <2>1. UNCHANGED <<live, layout, remote, owed>>
      BY <1>17 DEF Init1, disk, session, history, begins, lapses
    <2>2. UNCHANGED <<phase, run>> \/ FinishUnchanged
      BY <1>17 DEF Init1, cycle
    <2> QED
      BY <1>12, <2>1, <2>2, UnchangedLeavesRunning DEF Holding
  <1>18. CASE OpenFs
    <2>1. CASE ~ Connected /\ Expose({}) /\ Finish({})
      BY <1>10, <1>11, <1>18, <2>1 DEF OpenFs, Holding, At
    <2>2. CASE /\ Connected /\ Expose({Filesystem(settings.folder)})
               /\ (run' = Kept /\ UNCHANGED phase) \/ Finish({Filesystem(settings.folder)})
      <3>1. settings.folder \in Target
        BY <2>2 DEF Connected, Typed, Bindings, MaybeTarget
      <3>2. live' = {Filesystem(settings.folder)}
        BY <2>2 DEF Expose
      <3>3. LeftRunning \/ (StartedOn(live') /\ manager' = Idle)
        BY <1>13, <2>2, <3>1, <3>2, KeptEffect, FinishEffect, KeptLeavesRunning
      <3> QED
        BY <1>10, <1>13, <1>18, <2>2, <3>1, <3>3
    <2>3. CASE FinishUnchanged /\ UNCHANGED live
      BY <1>10, <1>12, <1>18, <2>3 DEF Holding
    <2> QED
      BY <1>18, <2>1, <2>2, <2>3 DEF OpenFs
  <1>19. CASE ResetCheckpoint
    <2>1. /\ UNCHANGED <<layout, remote, owed>>
          /\ Finish(live)
          /\ live' \in {live, Discarded(live)}
      BY <1>19 DEF ResetCheckpoint, disk, session, history, begins, lapses
    <2>2. Targets(live') = Targets(live) /\ AtMostOne(live') /\ phase = "idle"
      BY <1>19, <2>1, TargetsOfDiscarded DEF Typed, ResetCheckpoint, Holding, At, Steady
    <2>3. KeptRun \/ (StartedOn(live) /\ manager' = Idle)
      BY <2>1, FinishEffect DEF Typed
    <2>4. StartedOn(live) => StartedOn(live')
      BY <2>2 DEF StartedOn, Targets
    <2> QED
      BY <2>1, <2>2, <2>3, <2>4, KeptLeavesRunning
  <1> QED
    BY <1>2, <1>3, <1>5, <1>7, <1>8, <1>14, <1>15, <1>16, <1>17, <1>18, <1>19 DEF Manager

\* Single is inductive.
LEMMA SingleStep == ASSUME Typed, Single, Holding, [Next]_vars PROVE Single'
  <1>1. ASSUME NEW X \in SUBSET Files, StartedOn(X) PROVE run'.target \in Target
    BY <1>1 DEF StartedOn, Files
  <1>2. live \in SUBSET Files /\ live' \in SUBSET Files
    BY TypedStep DEF Typed
  <1>3. CASE Requests
    BY <1>2, <1>3, RequestsEffect DEF Single, Holding, AtMostOne, Files
  <1>4. CASE Edits
    BY <1>4, EditEffect DEF Single, Targets
  <1>5. CASE Cycle
    BY <1>5, CycleEffect DEF Single
  <1>6. CASE Manager
    BY <1>1, <1>2, <1>6, ManagerEffect DEF Single, LeftRunning, StartedOn, AtMostOne
  <1>7. CASE Rescan
    <2>1. live' = Discarded(live)
      BY <1>7 DEF Rescan
    <2>2. AtMostOne(live')
      BY <2>1, TargetsOfDiscarded DEF Typed, Single
    <2>3. UNCHANGED <<phase, run>> \/ StartedOn(live)
      BY <1>7, RequestEffect DEF Rescan
    <2>4. run'.old = {} /\ (UNCHANGED <<phase, run>> \/ run'.target \in Target)
      BY <1>1, <1>2, <1>7, <2>3 DEF Rescan, Single, StartedOn
    <2> QED
      BY <2>2, <2>4 DEF Single, AtMostOne
  <1>8. CASE Restart
    BY <1>8 DEF Restart, Single, AtMostOne, NoRun
  <1>9. CASE UNCHANGED vars
    BY <1>9 DEF vars, cycle, Single
  <1> QED
    BY <1>3, <1>4, <1>5, <1>6, <1>7, <1>8, <1>9 DEF Next

\* Holding is inductive: clearing takes the mutex, and no request starts a cycle while
\* connecting.
LEMMA ManagerHolds == ASSUME Typed, Single, Holding, Manager PROVE Holding'
  <1> USE IdleFields, ManagerEffect DEF At, Steady, Holding
  <1>1. /\ ~ layout' => phase' = "idle"
        /\ phase' # "idle" => live' # {}
        /\ UNCHANGED phase \/ manager' = Idle
    BY DEF LeftRunning, StartedOn
  <1>2. CASE manager' = Idle
    BY <1>1, <1>2
  <1>3. ASSUME NEW step \in Steps, Goto(step)
        PROVE  /\ manager'.step = step /\ manager'.kind = manager.kind
               /\ manager'.to = manager.to /\ manager'.reset = manager.reset
    BY <1>3 DEF Goto, Typed, Operations
  <1>4. ASSUME NEW kind \in Kinds, NEW step \in Steps, NEW to \in MaybeTarget,
               Open(kind, step, to),
               step \notin {"none", "init", "open", "pick", "build", "validate", "drop",
                 "reset"},
               step = "resolve" => settings.creds /\ to \in Target,
               kind = "authpick" => to \in Target
        PROVE  Holding'
    BY <1>1, <1>4 DEF Open, stored
  <1>5. CASE \E t \in Target : BindFolder(t) \/ StartAuthPick(t)
    BY <1>4, <1>5 DEF BindFolder, StartAuthPick, Kinds, Steps, MaybeTarget
  <1>6. CASE StartConnect \/ StartDisconnect \/ StartSwitch
    BY <1>4, <1>6 DEF StartConnect, StartDisconnect, StartSwitch, Kinds, Steps, MaybeTarget
  <1>7. CASE Resolve \/ Pick
    <2>1. CASE Bound(manager.to) /\ Goto("init")
      <3>1. manager.to \in Target
        BY <1>7 DEF Resolve, Pick
      <3>2. settings'.folder = manager.to /\ settings'.creds = settings.creds
        BY <2>1 DEF Bound, Typed, Bindings
      <3>3. CASE Resolve
        BY <1>1, <1>3, <2>1, <3>1, <3>2, <3>3, LifecycleAssumption DEF Resolve, Connected, Steps
      <3>4. CASE Pick
        BY <1>1, <1>3, <2>1, <3>1, <3>2, <3>4 DEF Pick, Steps, cycle
      <3> QED
        BY <1>7, <3>3, <3>4
    <2> QED
      BY <1>2, <1>7, <2>1 DEF Resolve, Pick, GiveUp
  <1>8. CASE Authorize
    <2>1. CASE Goto("forget")
      BY <1>1, <1>3, <1>8, <2>1 DEF Authorize, Steps
    <2> QED
      BY <1>2, <1>8, <2>1, FinishUnchangedEffect DEF Authorize, GiveUp
  <1>9. CASE Leave
    BY <1>1, <1>3, <1>9 DEF Leave, Steps
  <1>10. CASE Forget
    BY <1>1, <1>3, <1>10 DEF Forget, Steps
  <1>11. CASE ClearBaseline
    <2>1. AfterClear \in {"build", "pick", "drop"}
            /\ (AfterClear = "pick" => manager.kind = "authpick")
      BY DEF AfterClear
    <2>2. phase' = "idle" /\ Goto(AfterClear) /\ manager.step = "clear"
      BY <1>11 DEF ClearBaseline, Clears
    <2> QED
      BY <1>1, <1>3, <2>1, <2>2 DEF Steps
  <1>12. CASE ClearFails
    BY <1>2, <1>12, FinishUnchangedEffect DEF ClearFails, GiveUp
  <1>13. CASE Build
    <2>1. CASE Goto("validate")
      BY <1>1, <1>3, <1>13, <2>1 DEF Build, Steps
    <2> QED
      BY <1>2, <1>13, <2>1, FinishUnchangedEffect, GaveUp DEF Build
  <1>14. CASE Validate \/ Drop
    BY <1>2, <1>14, FinishEffect, GaveUp DEF Validate, Drop, Typed
  <1>15. CASE Init1
    <2>1. CASE /\ FolderChanged /\ Clears /\ Recorded /\ UNCHANGED phase
               /\ manager' = [manager EXCEPT !.step = "open", !.reset = TRUE]
      BY <1>1, <1>15, <2>1 DEF Init1, Clears, Typed, Operations
    <2>2. CASE Goto("open") /\ Recorded
      <3>1. Connected' = Connected
        BY <2>2 DEF Connected, Recorded, Typed, Bindings
      <3> QED
        BY <1>1, <1>3, <1>15, <2>2, <3>1 DEF Init1, Steps, cycle
    <2> QED
      BY <1>2, <1>15, <2>1, <2>2, FinishUnchangedEffect DEF Init1
  <1>16. CASE OpenFs
    <2>1. CASE Goto("reset") /\ manager.reset
      BY <1>1, <1>3, <1>16, <2>1 DEF OpenFs, Steps
    <2>2. CASE Connected /\ Finish({Filesystem(settings.folder)})
      BY <1>2, <2>2, FinishEffect, FilesystemTyped DEF Connected, Typed, Bindings, MaybeTarget
    <2> QED
      BY <1>2, <1>16, <2>1, <2>2, FinishUnchangedEffect, GaveUp DEF OpenFs
  <1>17. CASE ResetCheckpoint
    BY <1>2, <1>17, FinishEffect DEF ResetCheckpoint, Typed
  <1> QED
    BY <1>5, <1>6, <1>7, <1>8, <1>9, <1>10, <1>11, <1>12, <1>13, <1>14, <1>15, <1>16, <1>17
    DEF Manager

LEMMA HoldingStep == ASSUME Typed, Single, Holding, [Next]_vars PROVE Holding'
  <1>1. CASE Requests
    <2>1. InitThenRun.step = "init" /\ InitThenRun.kind = "sync" /\ InitThenRun.reset = FALSE
      BY OperationsTyped DEF InitThenRun, Idle
    <2> QED
      BY <1>1, <2>1, RequestsEffect, IdleFields DEF Holding, Steady, connecting, Connected
  <1>2. CASE Edits
    <2>1. /\ UNCHANGED <<settings, manager, phase, layout>>
          /\ Targets(live') = Targets(live)
      BY <1>2, EditEffect
    <2>2. live' = {} <=> live = {}
      BY <2>1 DEF Targets
    <2> QED
      BY <2>1, <2>2 DEF Holding, Steady, Connected
  <1>3. CASE Cycle
    <2>1. /\ phase # "idle" /\ UNCHANGED <<settings, manager, layout>>
          /\ Targets(live') = Targets(live)
      BY <1>3, CycleEffect
    <2>2. live' = {} <=> live = {}
      BY <2>1 DEF Targets
    <2> QED
      BY <2>1, <2>2 DEF Holding, Steady, Connected
  <1>4. CASE Rescan
    <2>1. live' # {} /\ UNCHANGED <<settings, manager, layout>>
      BY <1>4 DEF Rescan, Discarded, session
    <2>2. phase = "idle" /\ (UNCHANGED phase \/ (~ connecting /\ layout))
      BY <1>4, RequestEffect DEF Rescan, StartedOn
    <2> QED
      BY <2>1, <2>2, IdleFields DEF Holding, Steady, Connected, connecting
  <1>5. CASE Restart
    <2>1. /\ manager'.step = "init" /\ manager'.kind = "init" /\ manager'.reset = FALSE
      BY <1>5, OperationsTyped DEF Restart, Idle
    <2> QED
      BY <1>5, <2>1 DEF Restart, Holding, Steady
  <1>6. CASE UNCHANGED vars
    BY <1>6 DEF vars, cycle, session, Holding, Steady, Connected, stored
  <1> QED
    BY <1>1, <1>2, <1>3, <1>4, <1>5, <1>6, ManagerHolds DEF Next

\* All of this holds when the plugin starts.
LEMMA Started ==
    Init => Typed /\ Single /\ Holding
  <1> SUFFICES ASSUME Init PROVE Typed /\ Single /\ Holding
    OBVIOUS
  <1> USE DEF Init
  <1>1. Typed
    BY NoRunTyped, OperationsTyped DEF Typed, Bindings, MaybeTarget, Phases
  <1>2. Single
    BY DEF Single, AtMostOne, NoRun
  <1>3. Holding
    BY IdleFields, LifecycleAssumption DEF Holding, Steady
  <1> QED
    BY <1>1, <1>2, <1>3

\* All filesystems of X are of folder t.
BoundTo(X, t) == \A f \in X : f.target = t

\* As long as nothing was mixed, the records are of the folder synced last, and so are the
\* filesystems exposed or in use, but for a moment while they are replaced.
OneFolder ==
  /\ \A o \in Object : records[o] \in {None, settings.stored}
  /\ (manager.reset => manager.step = "reset") /\ manager.step # "validate"
       => BoundTo(live, settings.stored)
  /\ phase = "execute" => BoundTo(Used, settings.stored)
  /\ phase # "idle" => run.target = settings.stored

\* What holds at the steps of an operation: between the clearing of the baseline and the end
\* there are no records, and what initBackend opens is what it stored.
BoundHere ==
  /\ manager.step \in {"pick", "build", "validate", "drop"} => NoRecords
  /\ manager.step \in {"open", "reset"} /\ settings.folder # None
       => settings.folder = settings.stored
  /\ manager.step = "reset" => settings.folder # None
  /\ manager.step = "validate" => settings.folder # None /\ BoundTo(live, settings.folder)
  /\ ~ mixed => OneFolder

\* Being of one folder depends on the folders only.
LEMMA BoundTargets ==
    ASSUME NEW X, NEW Y, Targets(Y) \subseteq Targets(X), NEW t, BoundTo(X, t)
    PROVE BoundTo(Y, t)
  BY DEF Targets, BoundTo

\* BoundHere is inductive: only an operation that opens a folder after it has cleared the
\* records of another can mix them.
LEMMA RequestsBound ==
    ASSUME Typed, Single, Holding, BoundHere, Requests PROVE BoundHere'
  <1>1. InitThenRun.step = "init" /\ InitThenRun.reset = FALSE
    BY OperationsTyped DEF InitThenRun, Idle
  <1> QED
    BY <1>1, RequestsEffect, IdleFields DEF BoundHere, OneFolder, Holding, BoundTo, NoRecords,
         Used, connecting, lapses

\* A cycle writes records of the folder it uses only.
LEMMA CycleRecords ==
    ASSUME Typed, Cycle, NEW o \in Object
    PROVE  records'[o] = records[o]
             \/ (phase = "execute" /\ \E f \in Used : records'[o] = f.target)
  <1>1. CASE UNCHANGED records
    BY <1>1
  <1>2. ASSUME NEW p \in Object, Push(p) \/ Pull(p) \/ Match(p)
        PROVE  /\ phase = "execute"
               /\ \E f \in Used : records' = [records EXCEPT ![p] = f.target]
    BY <1>2 DEF Push, Pull, Match, Executing
  <1>3. ASSUME NEW p \in Object, NEW f \in Used, records' = [records EXCEPT ![p] = f.target]
        PROVE  records'[o] = records[o] \/ records'[o] = f.target
    BY <1>3 DEF Typed
  <1>4. ASSUME ~ UNCHANGED records
        PROVE  \E p \in Object : Push(p) \/ Pull(p) \/ Match(p)
    BY <1>4
    DEF Cycle, Begin, Attempt, CloseClean, CloseIncomplete, AttemptThrows, ActionFails, stored
  <1> QED
    BY <1>1, <1>2, <1>3, <1>4

LEMMA CycleBound ==
    ASSUME Typed, Single, Holding, BoundHere, Cycle PROVE BoundHere'
  <1>1. /\ phase # "idle" /\ UNCHANGED <<settings, manager, mixed>> /\ run'.target = run.target
        /\ Targets(live') = Targets(live)
        /\ phase' = "execute" => Targets(Used') \subseteq Targets(Used)
    BY CycleEffect
  <1>2. manager.step \notin Steady /\ ~ manager.reset
    BY <1>1 DEF Holding
  <1>3. CASE ~ mixed
    <2>1. BoundTo(live, settings.stored) /\ BoundTo(Used, settings.stored)
      <3>1. BoundTo(live, settings.stored)
        BY <1>2, <1>3 DEF BoundHere, OneFolder, Steady
      <3>2. phase # "execute" => Used = live
        BY DEF Used, Single
      <3> QED
        BY <1>3, <3>1, <3>2 DEF BoundHere, OneFolder
    <2>2. BoundTo(live', settings.stored)
            /\ (phase' = "execute" => BoundTo(Used', settings.stored))
      BY <1>1, <2>1, BoundTargets
    <2>3. \A o \in Object : records'[o] \in {None, settings.stored}
      BY <1>3, <2>1, CycleRecords DEF BoundTo, BoundHere, OneFolder
    <2> QED
      BY <1>1, <1>2, <1>3, <2>2, <2>3 DEF BoundHere, OneFolder, Steady
  <1> QED
    BY <1>1, <1>2, <1>3 DEF BoundHere, Steady

LEMMA ManagerBound ==
    ASSUME Typed, Single, Holding, BoundHere, Manager PROVE BoundHere'
  <1>1. /\ LeftRunning \/ (StartedOn(live') /\ manager' = Idle)
        /\ phase # "idle" => live' # {}
    BY ManagerEffect
  <1>2. ASSUME NEW step \in Steps, Goto(step)
        PROVE  /\ manager'.step = step /\ manager'.kind = manager.kind
               /\ manager'.to = manager.to /\ manager'.reset = manager.reset
    BY <1>2 DEF Goto, Typed, Operations
  <1>3. ASSUME UNCHANGED <<records, mixed>>, Targets(live') = Targets(live),
               settings'.stored = settings.stored,
               manager.step # "validate", ~ manager.reset,
               \/ manager' = Idle
               \/ manager'.step \notin Steady \cup {"open"}
        PROVE  BoundHere'
    <2>1. ASSUME ~ mixed PROVE OneFolder'
      <3>1. BoundTo(live, settings.stored) /\ BoundTo(live', settings.stored)
        BY <1>3, <2>1, BoundTargets DEF BoundHere, OneFolder
      <3>2. phase' = "execute" => BoundTo(Used', settings.stored)
        BY <1>1, <1>3, <2>1, BoundTargets DEF LeftRunning, StartedOn, BoundHere, OneFolder
      <3>3. phase' # "idle" => run'.target = settings.stored
        BY <1>1, <2>1, <3>1 DEF LeftRunning, StartedOn, BoundHere, OneFolder, BoundTo
      <3> QED
        BY <1>3, <2>1, <3>1, <3>2, <3>3 DEF BoundHere, OneFolder
    <2> QED
      BY <1>3, <2>1, IdleFields DEF BoundHere, Steady
  <1>4. manager.reset => manager.step \in {"open", "reset"}
    BY DEF Holding
  <1>5. ASSUME NEW kind \in Kinds, NEW step \in Steps, NEW to \in MaybeTarget,
               Open(kind, step, to),
               step \notin Steady \cup {"open"}
        PROVE  BoundHere'
    <2>1. /\ UNCHANGED <<records, mixed, live, settings>>
          /\ manager.step = "none"
          /\ ~ manager.reset
          /\ manager'.step = step
      BY <1>5, IdleFields DEF Open, connecting, stored, history, lapses
    <2> QED
      BY <1>3, <1>5, <2>1
  <1>6. CASE \E t \in Target : BindFolder(t) \/ StartAuthPick(t)
    BY <1>5, <1>6 DEF BindFolder, StartAuthPick, Kinds, Steps, MaybeTarget, Steady
  <1>7. CASE StartConnect \/ StartDisconnect \/ StartSwitch
    BY <1>5, <1>7 DEF StartConnect, StartDisconnect, StartSwitch, Kinds, Steps, MaybeTarget,
         Steady
  <1>8. CASE Resolve \/ Pick
    <2>1. UNCHANGED <<records, mixed, live>> /\ manager.step \in {"resolve", "pick"}
      BY <1>8 DEF Resolve, Pick, At, GiveUp, history, lapses
    <2>2. settings'.stored = settings.stored
      BY <1>8 DEF Resolve, Pick, Bound, Typed, Bindings
    <2>3. manager'.step = "init" \/ manager' = Idle
      BY <1>2, <1>8 DEF Resolve, Pick, GiveUp, Steps
    <2> QED
      BY <1>3, <1>4, <2>1, <2>2, <2>3 DEF Steady
  <1>9. CASE Authorize
    <2>1. UNCHANGED <<records, mixed, live>> /\ manager.step = "auth"
      BY <1>9 DEF Authorize, At, GiveUp, history, lapses
    <2>2. settings'.stored = settings.stored
      BY <1>9 DEF Authorize, Typed, Bindings
    <2>3. manager'.step = "forget" \/ manager' = Idle
      BY <1>2, <1>9, FinishUnchangedEffect DEF Authorize, GiveUp, Steps
    <2> QED
      BY <1>3, <1>4, <2>1, <2>2, <2>3 DEF Steady
  <1>10. CASE Leave
    <2>1. UNCHANGED <<records, mixed, live>> /\ manager.step = "leave"
      BY <1>10 DEF Leave, At, history, lapses
    <2>2. settings'.stored = settings.stored
      BY <1>10, LeftEffect DEF Leave
    <2>3. manager'.step = "forget"
      BY <1>2, <1>10 DEF Leave, Steps
    <2> QED
      BY <1>3, <1>4, <2>1, <2>2, <2>3 DEF Steady
  <1>11. CASE Forget
    <2>1. /\ UNCHANGED <<records, mixed, settings>>
          /\ manager.step = "forget"
          /\ live' \in {live, Discarded(live)}
      BY <1>11 DEF Forget, At
    <2>2. Targets(live') = Targets(live)
      BY <2>1, TargetsOfDiscarded DEF Typed
    <2>3. manager'.step = "clear"
      BY <1>2, <1>11 DEF Forget, Steps
    <2> QED
      BY <1>3, <1>4, <2>1, <2>2, <2>3 DEF Steady
  <1>12. CASE ClearFails
    <2>1. UNCHANGED <<records, mixed, live, settings>> /\ manager.step = "clear"
      BY <1>12 DEF ClearFails, At, GiveUp, stored, history, lapses
    <2>2. manager' = Idle
      BY <1>12, FinishUnchangedEffect DEF ClearFails, GiveUp
    <2> QED
      BY <1>3, <1>4, <2>1, <2>2
  <1>13. CASE ClearBaseline
    <2>1. /\ NoRecords' /\ UNCHANGED <<live, settings, phase, mixed>> /\ phase = "idle"
          /\ manager.step = "clear" /\ Goto(AfterClear)
      BY <1>13 DEF ClearBaseline, NoBaseline, NoRecords, At, Clears
    <2>2. AfterClear \in {"build", "pick", "drop"}
      BY DEF AfterClear
    <2>3. manager'.step \in {"build", "pick", "drop"} /\ ~ manager'.reset
      BY <1>2, <1>4, <2>1, <2>2 DEF Steps
    <2>4. ~ mixed => BoundTo(live', settings.stored)
      BY <1>4, <2>1 DEF BoundHere, OneFolder
    <2> QED
      BY <2>1, <2>3, <2>4 DEF BoundHere, OneFolder, NoRecords
  <1>14. ASSUME Expose({}), Finish({}), phase = "idle", UNCHANGED records,
                NoRecords \/ UNCHANGED settings
         PROVE  BoundHere'
    <2>1. manager' = Idle /\ live' = {} /\ phase' = "idle"
      BY <1>14, GaveUp DEF KeptRun
    <2>2. ~ mixed' => NoRecords \/ (~ mixed /\ UNCHANGED settings)
      BY <1>14 DEF Expose
    <2>3. ~ mixed' => \A o \in Object : records'[o] \in {None, settings'.stored}
      BY <1>14, <2>2 DEF BoundHere, OneFolder, NoRecords
    <2> QED
      BY <2>1, <2>3, IdleFields DEF BoundHere, OneFolder, BoundTo
  <1>15. CASE Build
    <2>1. /\ phase = "idle" /\ NoRecords
          /\ UNCHANGED <<records, settings>>
          /\ manager.step = "build"
          /\ ~ manager.reset
      BY <1>4, <1>15 DEF Build, At, Holding, Steady, BoundHere, stored
    <2>2. CASE Expose({}) /\ Finish({})
      BY <1>14, <2>1, <2>2
    <2>3. CASE /\ settings.folder # None /\ Expose({Filesystem(settings.folder)})
               /\ Goto("validate") /\ UNCHANGED phase
      <3>1. BoundTo(live', settings.folder)
        BY <2>3, FilesystemTyped DEF Expose, BoundTo, Typed, Bindings, MaybeTarget
      <3>2. manager'.step = "validate"
        BY <1>2, <2>3 DEF Steps
      <3> QED
        BY <2>1, <2>3, <3>1, <3>2 DEF BoundHere, OneFolder, NoRecords
    <2>4. CASE FinishUnchanged /\ UNCHANGED <<live, mixed>>
      BY <1>3, <2>1, <2>4, FinishUnchangedEffect
    <2> QED
      BY <1>15, <2>2, <2>3, <2>4 DEF Build
  <1>16. CASE Validate
    <2>1. phase = "idle" /\ UNCHANGED records /\ NoRecords /\ BoundTo(live, settings.folder)
      BY <1>16 DEF Validate, At, Holding, Steady, BoundHere
    <2>2. CASE /\ settings' = [settings EXCEPT !.stored = settings.folder]
               /\ Finish(live)
               /\ UNCHANGED live
      <3>1. settings'.stored = settings.folder /\ manager' = Idle
        BY <2>2, FinishEffect DEF Typed, Bindings
      <3>2. phase' # "idle" => phase' = "begin" /\ run'.target = settings.folder
        BY <2>1, <2>2, FinishEffect DEF Typed, KeptRun, StartedOn, BoundTo
      <3> QED
        BY <2>1, <2>2, <3>1, <3>2, IdleFields DEF BoundHere, OneFolder, NoRecords
    <2>3. CASE Disconnected /\ Expose({}) /\ Finish({})
      BY <1>14, <2>1, <2>3
    <2> QED
      BY <1>16, <2>2, <2>3 DEF Validate
  <1>17. CASE Drop
    <2>1. phase = "idle" /\ UNCHANGED records /\ NoRecords
      BY <1>17 DEF Drop, At, Holding, Steady, BoundHere
    <2> QED
      BY <1>14, <1>17, <2>1 DEF Drop
  <1>18. CASE Init1
    <2>1. UNCHANGED <<live, mixed>> /\ manager.step = "init" /\ ~ manager.reset
      BY <1>4, <1>18 DEF Init1, At
    <2>2. Recorded => /\ settings'.folder = settings.folder
                      /\ settings'.stored = IF settings.folder = None THEN settings.stored
                           ELSE settings.folder
      BY DEF Recorded, Typed, Bindings
    <2>3. CASE /\ FolderChanged /\ Clears /\ NoBaseline /\ Recorded /\ UNCHANGED phase
               /\ manager' = [manager EXCEPT !.step = "open", !.reset = TRUE]
      <3>1. manager'.step = "open" /\ manager'.reset
        BY <2>3 DEF Typed, Operations
      <3> QED
        BY <2>2, <2>3, <3>1 DEF BoundHere, OneFolder, FolderChanged, NoBaseline, Clears
    <2>4. CASE ~ FolderChanged /\ Recorded /\ Goto("open") /\ UNCHANGED <<records, phase, run>>
      <3>1. manager'.step = "open" /\ ~ manager'.reset
        BY <1>2, <2>1, <2>4 DEF Steps
      <3>2. ASSUME ~ mixed PROVE OneFolder'
        <4>1. BoundTo(live, settings.stored)
          BY <2>1, <3>2 DEF BoundHere, OneFolder
        <4>2. CASE settings'.stored = settings.stored
          BY <2>1, <2>4, <3>1, <3>2, <4>1, <4>2 DEF BoundHere, OneFolder, Used
        <4>3. CASE settings.stored = None
          <5>1. live = {}
            BY <4>1, <4>3, LifecycleAssumption DEF BoundTo, Typed, Files
          <5>2. phase = "idle"
            BY <5>1 DEF Holding
          <5> QED
            BY <2>1, <2>4, <3>1, <3>2, <4>3, <5>1, <5>2 DEF BoundHere, OneFolder, BoundTo
        <4> QED
          BY <2>2, <2>4, <4>2, <4>3 DEF FolderChanged
      <3> QED
        BY <2>1, <2>2, <2>4, <3>1, <3>2 DEF BoundHere
    <2>5. CASE FinishUnchanged /\ UNCHANGED <<records, settings>>
      BY <1>3, <2>1, <2>5, FinishUnchangedEffect
    <2> QED
      BY <1>18, <2>3, <2>4, <2>5 DEF Init1, cycle
  <1>19. CASE OpenFs
    <2>1. /\ UNCHANGED <<records, settings>> /\ manager.step = "open"
          /\ settings.folder # None => settings.folder = settings.stored
      BY <1>19 DEF OpenFs, At, BoundHere, stored
    <2>2. CASE ~ Connected /\ Expose({}) /\ Finish({})
      BY <1>14, <2>1, <2>2 DEF Holding
    <2>3. CASE Connected /\ Expose({Filesystem(settings.folder)})
      <3>1. /\ live' = {Filesystem(settings.folder)}
            /\ settings.folder \in Target
            /\ settings.folder = settings.stored
        BY <2>1, <2>3 DEF Expose, Connected, Typed, Bindings, MaybeTarget
      <3>2. BoundTo(live', settings.stored)
        BY <3>1, FilesystemTyped DEF BoundTo
      <3>3. manager' = Idle \/ manager'.step = "reset"
        BY <1>2, <1>19, <2>3, <3>1, FinishEffect, FinishUnchangedEffect, FilesystemTyped
        DEF OpenFs, Steps
      <3>4. ASSUME ~ mixed PROVE OneFolder'
        <4>1. phase' = "execute" => BoundTo(Used', settings.stored)
          BY <1>1, <2>1, <3>4, BoundTargets DEF LeftRunning, StartedOn, BoundHere, OneFolder, At
        <4>2. phase' # "idle" => run'.target = settings.stored
          BY <1>1, <3>2, <3>4 DEF LeftRunning, StartedOn, BoundHere, OneFolder, BoundTo
        <4> QED
          BY <2>1, <3>2, <3>4, <4>1, <4>2 DEF BoundHere, OneFolder
      <3>5. ASSUME phase = "idle", NoRecords PROVE OneFolder'
        <4>1. phase' # "idle" => phase' = "begin" /\ run'.target = settings.stored
          BY <1>1, <3>2, <3>5 DEF LeftRunning, StartedOn, BoundTo
        <4> QED
          BY <2>1, <3>2, <3>5, <4>1 DEF OneFolder, NoRecords
      <3>6. ~ mixed' => OneFolder'
        BY <2>3, <3>4, <3>5 DEF Expose
      <3> QED
        BY <2>1, <3>1, <3>3, <3>6, IdleFields, LifecycleAssumption DEF BoundHere
    <2>4. CASE /\ FinishUnchanged /\ UNCHANGED live
               /\ mixed' = (mixed \/ (manager.reset /\ live # {}))
      <3>1. manager' = Idle
        BY <2>4, FinishUnchangedEffect
      <3>2. CASE ~ manager.reset
        <4>1. UNCHANGED mixed
          BY <2>4, <3>2 DEF Typed
        <4> QED
          BY <1>3, <2>1, <2>4, <3>1, <3>2, <4>1
      <3>3. CASE manager.reset /\ live # {}
        BY <2>4, <3>1, <3>3, IdleFields DEF BoundHere
      <3>4. CASE manager.reset /\ live = {}
        <4>1. phase = "idle" /\ phase' = "idle" /\ live' = {}
          BY <2>4, <3>4, FinishUnchangedEffect DEF Holding, StartedOn
        <4>2. mixed' = mixed
          BY <2>4, <3>4 DEF Typed
        <4> QED
          BY <2>1, <3>1, <4>1, <4>2, IdleFields DEF BoundHere, OneFolder, BoundTo
      <3> QED
        BY <3>2, <3>3, <3>4
    <2> QED
      BY <1>19, <2>2, <2>3, <2>4 DEF OpenFs
  <1>20. CASE ResetCheckpoint
    <2>1. /\ phase = "idle" /\ UNCHANGED <<records, settings, mixed>> /\ manager.step = "reset"
          /\ Finish(live) /\ live' \in {live, Discarded(live)}
      BY <1>20 DEF ResetCheckpoint, At, Holding, Steady, history, lapses
    <2>2. manager' = Idle /\ (phase' # "idle" => phase' = "begin" /\ StartedOn(live))
      BY <2>1, FinishEffect DEF Typed, KeptRun, StartedOn
    <2>3. ASSUME ~ mixed PROVE OneFolder'
      <3>1. BoundTo(live, settings.stored)
        BY <2>1, <2>3 DEF BoundHere, OneFolder
      <3>2. BoundTo(live', settings.stored)
        BY <2>1, <3>1, TargetsOfDiscarded, BoundTargets DEF Typed
      <3> QED
        BY <2>1, <2>2, <2>3, <3>1, <3>2 DEF BoundHere, OneFolder, StartedOn, BoundTo
    <2> QED
      BY <2>1, <2>2, <2>3, IdleFields DEF BoundHere
  <1> QED
    BY <1>6, <1>7, <1>8, <1>9, <1>10, <1>11, <1>12, <1>13, <1>15, <1>16, <1>17, <1>18, <1>19,
       <1>20
    DEF Manager

LEMMA BoundStep ==
    ASSUME Typed, Single, Holding, BoundHere, [Next]_vars PROVE BoundHere'
  <1>1. CASE Edits
    <2>1. /\ UNCHANGED <<settings, records, manager, phase, mixed>> /\ run'.target = run.target
          /\ Targets(live') = Targets(live) /\ Targets(run'.old) = Targets(run.old)
      BY <1>1, EditEffect DEF history, lapses
    <2>2. Targets(Used') \subseteq Targets(Used)
      BY <2>1 DEF Used, Targets
    <2>3. \A t : BoundTo(live, t) => BoundTo(live', t)
      BY <2>1, BoundTargets
    <2>4. BoundTo(Used, settings.stored) => BoundTo(Used', settings.stored)
      BY <2>2, BoundTargets
    <2> QED
      BY <2>1, <2>3, <2>4 DEF BoundHere, OneFolder, NoRecords
  <1>2. CASE Rescan
    <2>1. /\ phase = "idle" /\ live' = Discarded(live)
          /\ UNCHANGED <<settings, records, manager, mixed>>
      BY <1>2 DEF Rescan, history, lapses
    <2>2. \A t : BoundTo(live, t) => BoundTo(live', t)
      BY <2>1, TargetsOfDiscarded, BoundTargets DEF Typed
    <2>3. UNCHANGED phase \/ (~ connecting /\ StartedOn(live))
      BY <1>2, RequestEffect DEF Rescan
    <2> QED
      BY <2>1, <2>2, <2>3, IdleFields
      DEF BoundHere, OneFolder, NoRecords, StartedOn, BoundTo, connecting
  <1>3. CASE Restart
    <2>1. /\ manager'.step = "init" /\ ~ manager'.reset /\ live' = {} /\ phase' = "idle"
          /\ UNCHANGED <<records, settings, mixed>>
      BY <1>3 DEF Restart, Idle, stored, lapses
    <2> QED
      BY <2>1 DEF BoundHere, OneFolder, BoundTo
  <1>4. CASE UNCHANGED vars
    BY <1>4 DEF vars, stored, cycle, history, lapses, BoundHere, OneFolder, BoundTo, NoRecords,
        Used
  <1> QED
    BY <1>1, <1>2, <1>3, <1>4, RequestsBound, CycleBound, ManagerBound DEF Next

-----------------------------------------------------------------------------
\* Begun cycles have served the binding and the last return to the foreground.
Served ==
  /\ phase \in {"attempt", "execute"} => ~ owed /\ (begun \/ mixed)
  /\ EveryBindingIsSynced
  /\ owed => layout
  /\ owed /\ phase = "idle" => connecting \/ live = {} \/ unanswered

\* An operation that ends without starting a cycle exposes nothing, or has given up, or the
\* layout, whose readiness starts one, is still to come.
LEMMA EndsServed ==
    ASSUME Typed, Single, Holding, Manager, manager' = Idle, phase' = "idle"
    PROVE  live' = {} \/ ~ layout \/ unanswered'
  <1>1. ASSUME NEW X \in SUBSET Files, Finish(X) PROVE X = {} \/ ~ layout
    <2>1. UNCHANGED phase \/ phase' = "begin"
      BY <1>1, FinishEffect DEF KeptRun, StartedOn
    <2>2. phase = "idle" \/ X = {} \/ ~ layout \/ StartedOn(X)
      BY <1>1, <2>1, FinishEffect
    <2> QED
      BY <1>1, <2>1, <2>2, FinishEffect DEF StartedOn
  <1>2. ASSUME NEW step \in Steps \ {"none"}, Goto(step) PROVE FALSE
    BY <1>2, IdleFields DEF Goto, Typed, Operations
  <1>3. ASSUME NEW kind, NEW step \in Steps \ {"none"}, NEW to, Open(kind, step, to) PROVE FALSE
    BY <1>3, IdleFields DEF Open
  <1>4. ASSUME FinishUnchanged PROVE live = {} \/ ~ layout
    BY <1>4, FinishUnchangedEffect DEF StartedOn
  <1>5. CASE \/ \E t \in Target : BindFolder(t) \/ StartAuthPick(t)
             \/ StartConnect \/ StartDisconnect \/ StartSwitch
    BY <1>3, <1>5 DEF BindFolder, StartAuthPick, StartConnect, StartDisconnect, StartSwitch,
         Steps
  <1>6. ASSUME GiveUp, UNCHANGED live PROVE live' = {} \/ unanswered'
    BY <1>6 DEF GiveUp
  <1>7. CASE Resolve \/ Pick \/ Leave \/ Forget
    BY <1>2, <1>6, <1>7 DEF Resolve, Pick, Leave, Forget, Steps
  <1>8. CASE Authorize \/ ClearFails
    BY <1>2, <1>4, <1>6, <1>8 DEF Authorize, ClearFails, Steps
  <1>9. CASE ClearBaseline
    <2>1. AfterClear \in Steps \ {"none"}
      BY DEF AfterClear, Steps
    <2> QED
      BY <1>2, <1>9, <2>1 DEF ClearBaseline
  <1>10. CASE Build
    BY <1>2, <1>4, <1>10, GaveUp DEF Build, Steps
  <1>11. CASE Validate \/ Drop
    BY <1>1, <1>11, GaveUp DEF Validate, Drop, Typed
  <1>12. CASE Init1
    <2>1. manager' # [manager EXCEPT !.step = "open", !.reset = TRUE]
      BY IdleFields DEF Typed, Operations
    <2> QED
      BY <1>2, <1>4, <1>12, <2>1 DEF Init1, Steps
  <1>13. CASE OpenFs
    <2>1. CASE /\ Connected
               /\ Expose({Filesystem(settings.folder)})
               /\ Finish({Filesystem(settings.folder)})
      <3>1. {Filesystem(settings.folder)} \in SUBSET Files
        BY <2>1, FilesystemTyped DEF Connected, Typed, Bindings, MaybeTarget
      <3> QED
        BY <1>1, <2>1, <3>1
    <2> QED
      BY <1>2, <1>4, <1>13, <2>1, GaveUp DEF OpenFs, Steps
  <1>14. CASE ResetCheckpoint
    BY <1>1, <1>14 DEF ResetCheckpoint, Typed, Discarded
  <1> QED
    BY <1>5, <1>7, <1>8, <1>9, <1>10, <1>11, <1>12, <1>13, <1>14 DEF Manager

\* A cycle that has begun keeps the folder it began on.
LEMMA ManagerKeepsBegun ==
    ASSUME Typed, Single, Holding, BoundHere, Manager, phase # "idle"
    PROVE  /\ mixed => mixed'
           /\ begun /\ ~ mixed => begun'
  <1>1. manager.step \notin Steady /\ ~ manager.reset
    BY DEF Holding
  <1>2. CASE OpenFs /\ Expose({}) /\ ~ Connected
    BY <1>2 DEF OpenFs, At, Holding
  <1>3. CASE OpenFs /\ Connected /\ Expose({Filesystem(settings.folder)})
    <2>1. mixed => mixed'
      BY <1>3 DEF Expose
    <2>2. ASSUME ~ mixed PROVE Targets(live) = {settings.folder}
      <3>1. BoundTo(live, settings.stored) /\ live # {} /\ settings.folder = settings.stored
        BY <1>1, <1>3, <2>2 DEF OpenFs, At, BoundHere, OneFolder, Holding, Connected, Steady
      <3> QED
        BY <3>1 DEF Targets, BoundTo
    <2>3. Targets({Filesystem(settings.folder)}) = {settings.folder}
      BY <1>3, FilesystemTyped DEF Targets, Connected, Typed, Bindings, MaybeTarget
    <2> QED
      BY <1>3, <2>1, <2>2, <2>3 DEF Expose
  <1>4. CASE UNCHANGED begun /\ mixed' = (mixed \/ (manager.reset /\ live # {}))
    BY <1>4 DEF Typed
  <1>5. ~ Build /\ ~ Validate /\ ~ Drop
    BY <1>1 DEF Build, Validate, Drop, At, Steady
  <1>6. UNCHANGED <<begun, mixed>> \/ OpenFs
    BY <1>5
    DEF Manager, BindFolder, StartAuthPick, StartConnect, StartDisconnect, StartSwitch, Open,
       Resolve, Authorize, Leave, Forget, ClearBaseline, ClearFails, Pick, Init1, GiveUp,
         ResetCheckpoint, history, begins, lapses
  <1> QED
    BY <1>2, <1>3, <1>4, <1>6 DEF OpenFs

\* Served is inductive.
LEMMA ServedStep ==
    ASSUME Typed, Single, Holding, BoundHere, Served, [Next]_vars
    PROVE  Served'
  <1> USE DEF Served, EveryBindingIsSynced, connecting
  <1>1. CASE Requests
    <2>1. InitThenRun # Idle /\ InitThenRun.step = "init"
      BY OperationsTyped DEF InitThenRun, Idle
    <2>2. (~ layout => phase = "idle") /\ (manager = Idle \/ manager.step # "none")
      BY DEF Holding
    <2> QED
      BY <1>1, <2>1, <2>2, RequestsEffect DEF lapses
  <1>2. CASE Edits
    <2>1. live' = {} <=> live = {}
      BY <1>2, EditEffect DEF Targets
    <2> QED
      BY <1>2, <2>1, EditEffect DEF history, begins, lapses
  <1>3. CASE Cycle
    <2>1. live' = {} <=> live = {}
      BY <1>3, CycleEffect DEF Targets
    <2> QED
      BY <1>3, <2>1, CycleEffect DEF Holding
  <1>4. CASE Manager
    <2>1. UNCHANGED <<owed, layout>> /\ (UNCHANGED phase \/ phase' = "begin" )
      BY <1>4, ManagerEffect DEF LeftRunning, StartedOn
    <2> QED
      BY <1>4, <2>1, EndsServed, ManagerKeepsBegun
  <1>5. CASE Rescan
    <2>1. /\ phase = "idle"
          /\ live' = Discarded(live)
          /\ UNCHANGED <<manager, layout, begun, owed, unanswered, mixed>>
          /\ live # {}
      BY <1>5 DEF Rescan, session, history, begins, lapses
    <2>2. UNCHANGED phase \/ phase' = "begin"
      BY <1>5, RequestEffect DEF Rescan, StartedOn
    <2> QED
      BY <2>1, <2>2
  <1>6. CASE Restart
    BY <1>6 DEF Restart
  <1>7. CASE UNCHANGED vars
    BY <1>7 DEF vars, session, cycle, history, begins, lapses
  <1> QED
    BY <1>1, <1>2, <1>3, <1>4, <1>5, <1>6, <1>7 DEF Next

-----------------------------------------------------------------------------
\* Of the objects there, those no view reports as unseen are in S.
Covers(there, views, S) == \A unseen \in views : there \ unseen \subseteq S

\* The objects synced with folder t.
SyncedWith(baseline, t) == {o \in Object : baseline[o] = t}

\* What the running attempt has synced or will still look at; everything, once
\* it cannot end clean any more.
Handled(baseline, plan, complete, t) ==
  {o \in Object : baseline[o] = t \/ plan[o] # "none" \/ ~ complete}

\* Checkpoints and views stand for the records: what they do not report as new was synced, but
\* in folders under suspicion.
CheckpointsCover ==
  \A t \in Target \ suspect : Covers(remote[t], durable[t], SyncedWith(records, t))

ViewsCover ==
  phase # "execute" =>
    \A f \in live : f.target \notin suspect
      => Covers(remote[f.target], f.view, SyncedWith(records, f.target))

\* Of the view of a running attempt this holds up to what is still in its plan, and a cycle
\* that found no checkpoint compares everything.
AttemptCovers ==
  /\ phase \in {"attempt", "execute"} /\ settings.stored \notin suspect
       => durable[settings.stored] # {} \/ run.force
  /\ phase = "execute" =>
       \A f \in Used : f.target \notin suspect
         => /\ f.view # {}
            /\ Covers(remote[f.target], f.view,
                      Handled(records, run.plan, run.complete, f.target))

\* While records are mixed, or about to be, no checkpoint is above suspicion; what replaced
\* the filesystem of a running attempt has no view of its own.
Vouched ==
  /\ CheckpointsCover
  /\ mixed \/ manager.reset => \A t \in Target : durable[t] # {} => t \in suspect
  /\ run.old # {} => \A f \in live : f.view = {}
  /\ ~ mixed => ViewsCover /\ AttemptCovers

\* A filesystem in which a change was noted comes from one in which it was not.
LEMMA ViewsOfLogged ==
    ASSUME NEW X \in SUBSET Files, NEW t, NEW o \in Object, NEW g \in LoggedIn(X, t, o)
    PROVE  \E f \in X : /\ g.target = f.target
                         /\ g.view = IF f.target = t THEN Logged(f.view, o) ELSE f.view
  <1>1. PICK f \in X : g = IF f.target = t THEN [f EXCEPT !.view = Logged(@, o)] ELSE f
    BY DEF LoggedIn
  <1>2. /\ [f EXCEPT !.view = Logged(@, o)].target = f.target
        /\ [f EXCEPT !.view = Logged(@, o)].view = Logged(f.view, o)
    BY DEF Files
  <1> QED
    BY <1>1, <1>2

\* No view vouches for nothing.
LEMMA CoversNothing == \A there, S : Covers(there, {}, S)
  BY DEF Covers

\* Covers is monotone.
LEMMA CoversMore ==
    ASSUME NEW there, NEW views, NEW S, NEW T, S \subseteq T, Covers(there, views, S)
    PROVE  Covers(there, views, T)
  BY DEF Covers

\* A change that is noted in every view stays covered.
LEMMA CoversLogged ==
    ASSUME NEW there, NEW views, NEW S, NEW o, Covers(there, views, S)
    PROVE  Covers(there \cup {o}, Logged(views, o), S)
  BY DEF Covers, Logged

\* Noting a change makes no view and loses none.
LEMMA LoggedEmpty ==
    ASSUME NEW views, NEW o PROVE Logged(views, o) = {} <=> views = {}
  BY DEF Logged

\* Nor a filesystem.
LEMMA LoggedInEmpty ==
    ASSUME NEW X, NEW t, NEW o PROVE LoggedIn(X, t, o) = {} <=> X = {}
  BY DEF LoggedIn

\* Filesystems without a view stay without one.
LEMMA EmptyViewsLogged ==
    ASSUME NEW X \in SUBSET Files, NEW t \in Target, NEW o \in Object, \A f \in X : f.view = {}
    PROVE  \A f \in LoggedIn(X, t, o) : f.view = {}
  BY ViewsOfLogged, LoggedEmpty

\* The folder of a running cycle is bound, and its records are of no other.
LEMMA RunningIsBound ==
    ASSUME Typed, Single, Holding, BoundHere, ~ mixed, phase # "idle"
    PROVE  /\ settings.stored \in Target /\ ~ manager.reset /\ live # {}
           /\ BoundTo(live, settings.stored) /\ BoundTo(Used, settings.stored)
           /\ run.target = settings.stored
           /\ \A o \in Object : records[o] \in {None, settings.stored}
  <1>1. ~ manager.reset /\ live # {} /\ manager.step \notin Steady
    BY DEF Holding
  <1>2. BoundTo(live, settings.stored) /\ run.target = settings.stored
    BY <1>1 DEF BoundHere, OneFolder, Steady
  <1>3. settings.stored \in Target
    BY <1>1, <1>2 DEF BoundTo, Typed, Files
  <1>4. phase # "execute" => Used = live
    BY DEF Used, Single
  <1> QED
    BY <1>1, <1>2, <1>3, <1>4 DEF BoundHere, OneFolder

\* Vouched is inductive.
LEMMA RequestsVouched ==
    ASSUME Typed, Single, Holding, Vouched, Requests PROVE Vouched'
  <1>1. InitThenRun.reset = FALSE
    BY OperationsTyped DEF InitThenRun, Idle
  <1>2. /\ UNCHANGED <<live, settings, records, durable, remote, mixed, suspect>>
        /\ manager'.reset = manager.reset
    BY <1>1, RequestsEffect, IdleFields DEF connecting, lapses
  <1>3. UNCHANGED <<phase, run>> \/ (phase' = "begin" /\ phase = "idle" /\ run'.old = {})
    BY RequestsEffect DEF Holding
  <1> QED
    BY <1>2, <1>3 DEF Vouched, CheckpointsCover, ViewsCover, AttemptCovers, Used

LEMMA EditsVouched ==
    ASSUME Typed, Single, Vouched, Edits PROVE Vouched'
  <1> USE DEF Vouched, CheckpointsCover, ViewsCover, AttemptCovers
  <1>1. /\ UNCHANGED <<settings, records, manager, phase, mixed, suspect>>
        /\ run'.force = run.force /\ run'.plan = run.plan /\ run'.complete = run.complete
    BY EditEffect DEF history, lapses
  <1>2. ASSUME NEW o \in Object, LocalEdit(o) PROVE Vouched'
    <2>1. UNCHANGED <<live, remote, durable>> /\ run'.old = run.old
      BY <1>2 DEF LocalEdit, Typed, Runs, stored
    <2> QED
      BY <1>1, <2>1 DEF Used
  <1>3. ASSUME NEW t \in Target, NEW o \in Object, RemoteEdit(t, o) PROVE Vouched'
    <2>1. /\ remote' = [remote EXCEPT ![t] = @ \cup {o}]
          /\ durable' = [durable EXCEPT ![t] = Logged(@, o)]
          /\ live' = LoggedIn(live, t, o) /\ run'.old = LoggedIn(run.old, t, o)
      BY <1>3 DEF RemoteEdit, Typed, Runs
    <2>2. live \in SUBSET Files /\ run.old \in SUBSET Files /\ Used \in SUBSET Files
      BY UsedTyped DEF Typed, Runs
    <2>3. run'.old = {} <=> run.old = {}
      BY <2>1, LoggedInEmpty
    <2>4. Used' = LoggedIn(Used, t, o)
      BY <2>1, <2>3 DEF Used
    <2>5. ASSUME NEW u \in Target
          PROVE  /\ remote'[u] = IF u = t THEN remote[u] \cup {o} ELSE remote[u]
                 /\ durable'[u] = IF u = t THEN Logged(durable[u], o) ELSE durable[u]
                 /\ durable'[u] = {} <=> durable[u] = {}
      <3>1. /\ remote'[u] = IF u = t THEN remote[u] \cup {o} ELSE remote[u]
            /\ durable'[u] = IF u = t THEN Logged(durable[u], o) ELSE durable[u]
        BY <2>1 DEF Typed
      <3> QED
        BY <3>1, LoggedEmpty
    <2>6. ASSUME NEW X \in SUBSET Files, NEW g \in LoggedIn(X, t, o), NEW S,
                 \A f \in X : f.target = g.target => Covers(remote[f.target], f.view, S)
          PROVE  Covers(remote'[g.target], g.view, S)
      <3>1. PICK f \in X : /\ g.target = f.target
                           /\ g.view = IF f.target = t THEN Logged(f.view, o) ELSE f.view
        BY <2>6, ViewsOfLogged
      <3>2. f.target \in Target /\ Covers(remote[f.target], f.view, S)
        BY <2>6, <3>1 DEF Files
      <3>3. CASE g.target = t
        <4>1. Covers(remote[f.target] \cup {o}, Logged(f.view, o), S)
          BY <3>2, CoversLogged
        <4> QED
          BY <2>5, <3>1, <3>2, <3>3, <4>1
      <3>4. CASE g.target # t
        BY <2>5, <3>1, <3>2, <3>4
      <3> QED
        BY <3>3, <3>4
    <2>7. CheckpointsCover'
      <3> SUFFICES ASSUME NEW u \in Target \ suspect
                   PROVE  Covers(remote'[u], durable'[u], SyncedWith(records, u))
        BY <1>1
      <3>1. Covers(remote[u], durable[u], SyncedWith(records, u))
        OBVIOUS
      <3>2. Covers(remote[u] \cup {o}, Logged(durable[u], o), SyncedWith(records, u))
        BY <3>1, CoversLogged
      <3> QED
        BY <2>5, <3>1, <3>2
    <2>8. ~ mixed => ViewsCover'
      <3> SUFFICES ASSUME ~ mixed, phase # "execute", NEW g \in LoggedIn(live, t, o),
                          g.target \notin suspect
                   PROVE  Covers(remote'[g.target], g.view, SyncedWith(records, g.target))
        BY <1>1, <2>1
      <3>1. \A f \in live : f.target = g.target
              => Covers(remote[f.target], f.view, SyncedWith(records, g.target))
        OBVIOUS
      <3> QED
        BY <2>2, <2>6, <3>1
    <2>9. run'.old # {} => \A f \in live' : f.view = {}
      BY <2>1, <2>2, <2>3, EmptyViewsLogged
    <2>10. ASSUME ~ mixed, phase \in {"attempt", "execute"}, settings.stored \notin suspect
           PROVE  durable'[settings.stored] # {} \/ run.force
      <3>1. CASE settings.stored \in Target
        BY <2>5, <2>10, <3>1
      <3>2. CASE settings.stored \notin Target
        <4>1. durable'[settings.stored] = durable[settings.stored]
          BY <2>1, <3>2 DEF Typed
        <4> QED
          BY <2>10, <4>1
      <3> QED
        BY <3>1, <3>2
    <2>11. ASSUME ~ mixed, phase = "execute", NEW g \in Used', g.target \notin suspect
           PROVE  /\ g.view # {}
                  /\ Covers(remote'[g.target], g.view,
                            Handled(records, run.plan, run.complete, g.target))
      <3>1. PICK f \in Used : /\ g.target = f.target
                              /\ g.view = IF f.target = t THEN Logged(f.view, o) ELSE f.view
        BY <2>2, <2>4, ViewsOfLogged
      <3>2. f.view # {}
        BY <2>11, <3>1
      <3>3. \A h \in Used : h.target = g.target
              => Covers(remote[h.target], h.view,
                        Handled(records, run.plan, run.complete, g.target))
        BY <2>11
      <3>4. Covers(remote'[g.target], g.view,
                   Handled(records, run.plan, run.complete, g.target))
        BY <2>2, <2>4, <2>6, <2>11, <3>3
      <3> QED
        BY <3>1, <3>2, <3>4, LoggedEmpty
    <2>12. ~ mixed => AttemptCovers'
      BY <1>1, <2>10, <2>11
    <2> QED
      BY <1>1, <2>5, <2>7, <2>8, <2>9, <2>12
  <1> QED
    BY <1>2, <1>3 DEF Edits

\* What an attempt does not visit is synced, or unseen and visited.
LEMMA AttemptVouched ==
    ASSUME Typed, Single, Holding, BoundHere, Vouched, Attempt PROVE Vouched'
  <1>1. /\ phase = "attempt" /\ phase' = "execute"
        /\ UNCHANGED <<remote, records, durable, settings, manager, mixed, suspect>>
    BY DEF Attempt, disk, stored, session, history, lapses
  <1>2. PICK f \in live, g \in Files : \E unseen \in ViewOf(f) :
          /\ live' = {g} /\ g.target = f.target /\ g.view = {{}}
          /\ run' \in Runs /\ run'.old = {} /\ run'.complete = TRUE
          /\ run'.target = run.target /\ run'.force = run.force
          /\ \A o \in Visited(f, unseen) \cap Object : run'.plan[o] = Decision(f, o)
    BY AttemptEffect
  <1>3. PICK unseen \in ViewOf(f) :
          \A o \in Visited(f, unseen) \cap Object : run'.plan[o] = Decision(f, o)
    BY <1>2
  <1>4. Used' = {g}
    BY <1>2 DEF Used
  <1>5. ASSUME ~ mixed PROVE AttemptCovers'
    <2>1. settings.stored \in Target /\ f.target = settings.stored
      BY <1>1, <1>5, RunningIsBound DEF BoundTo
    <2>2. ASSUME f.target \notin suspect, NEW o \in remote[f.target]
          PROVE  o \in Handled(records, run'.plan, run'.complete, f.target)
      <3>1. o \in Object
        BY <2>1, <2>2 DEF Typed
      <3>2. CASE o \in Visited(f, unseen)
        <4>1. run'.plan[o] = Decision(f, o)
          BY <1>3, <3>1, <3>2
        <4>2. records[o] = f.target \/ Decision(f, o) # "none"
          BY <2>2, <3>1 DEF Decision
        <4> QED
          BY <3>1, <4>1, <4>2 DEF Handled
      <3>3. CASE o \notin Visited(f, unseen)
        <4>1. ~ Cold /\ o \notin unseen
          BY <3>1, <3>3 DEF Visited
        <4>2. durable[f.target] # {}
          BY <1>1, <1>5, <2>1, <2>2, <4>1 DEF Vouched, AttemptCovers, Cold
        <4>3. unseen \in f.view \/ unseen \in durable[f.target]
          BY <1>3, <4>2 DEF ViewOf
        <4>4. /\ Covers(remote[f.target], f.view, SyncedWith(records, f.target))
              /\ Covers(remote[f.target], durable[f.target], SyncedWith(records, f.target))
          BY <1>1, <1>5, <2>1, <2>2 DEF Vouched, ViewsCover, CheckpointsCover
        <4>5. records[o] = f.target
          BY <2>2, <4>1, <4>3, <4>4 DEF Covers, SyncedWith
        <4> QED
          BY <3>1, <4>5 DEF Handled
      <3> QED
        BY <3>2, <3>3
    <2>3. f.target \notin suspect
            => Covers(remote[f.target], g.view,
                      Handled(records, run'.plan, run'.complete, f.target))
      BY <1>2, <2>2 DEF Covers
    <2>4. run'.force = run.force /\ g.view # {} /\ g.target = f.target
      BY <1>2
    <2> QED
      BY <1>1, <1>4, <1>5, <2>3, <2>4 DEF Vouched, AttemptCovers
  <1>6. run'.old = {}
    BY <1>2
  <1> QED
    BY <1>1, <1>5, <1>6 DEF Vouched, CheckpointsCover, ViewsCover

\* One more object synced.
LEMMA OneMoreSynced ==
    ASSUME Typed, NEW o \in Object, NEW t \in Target,
           records' = [records EXCEPT ![o] = t],
           run'.plan = [run.plan EXCEPT ![o] = "none"], run'.complete = run.complete
    PROVE  /\ SyncedWith(records, t) \cup {o} \subseteq SyncedWith(records', t)
           /\ Handled(records, run.plan, run.complete, t) \cup {o}
                \subseteq Handled(records', run'.plan, run'.complete, t)
  <1>1. ASSUME NEW p \in Object, p # o
        PROVE  records'[p] = records[p] /\ run'.plan[p] = run.plan[p]
    BY <1>1 DEF Typed, Runs
  <1>2. records'[o] = t
    BY DEF Typed
  <1> QED
    BY <1>1, <1>2 DEF SyncedWith, Handled

\* A transfer of o with the filesystem f, as far as checkpoints and views are concerned.
Transferred(o, f, view) ==
  /\ f \in Files
  /\ records' = [records EXCEPT ![o] = f.target]
  /\ run'.plan = [run.plan EXCEPT ![o] = "none"] /\ run'.complete = run.complete
  /\ run'.force = run.force /\ (run'.old # {} => run.old # {})
  /\ \/ UNCHANGED <<remote, durable>>
     \/ /\ remote' = [remote EXCEPT ![f.target] = @ \cup {o}]
        /\ durable' = [durable EXCEPT ![f.target] = Logged(@, o)]
  /\ run.old # {} => live' = live \/ live' = LoggedIn(live, f.target, o)
  /\ \A g \in Used' : g.target = f.target /\ g.view = view

\* A transfer records what it synced before its view can pass it.
LEMMA TransferVouched ==
    ASSUME Typed, Single, Holding, BoundHere, Vouched,
           NEW o \in Object, Push(o) \/ Pull(o) \/ Match(o)
    PROVE  Vouched'
  <1> DEFINE s == settings.stored
             Rest == Handled(records, run.plan, run.complete, s)
             Rest1 == Handled(records', run'.plan, run'.complete, s)
  <1>1. phase = "execute" /\ UNCHANGED <<phase, settings, manager, mixed, suspect>>
    BY DEF Push, Pull, Match, Executing, disk, session, history, lapses
  <1>2. ~ manager.reset
    BY <1>1 DEF Holding
  <1>3. PICK f \in Used : \E view \in {f.view, ViewOf(f)} : Transferred(o, f, view)
    <2>1. Used \in SUBSET Files
      BY UsedTyped
    <2>2. CASE Push(o)
      <3>1. PICK f \in Used, g \in Files : Pushed(o, f, g)
        BY <2>2, PushEffect
      <3>2. \A h \in Used' : h.target = f.target /\ h.view = ViewOf(f)
        BY <3>1 DEF Pushed, Used
      <3> QED
        BY <2>1, <3>1, <3>2 DEF Pushed, Transferred
    <2>3. CASE Pull(o)
      <3>1. PICK f \in Used, g \in Files : Pulled(o, f, g)
        BY <2>3, PullEffect
      <3>2. \A h \in Used' : h.target = f.target /\ h.view = ViewOf(f)
        BY <3>1 DEF Pulled, Used
      <3>3. UNCHANGED <<remote, durable>>
        BY <2>3 DEF Pull
      <3> QED
        BY <2>1, <3>1, <3>2, <3>3 DEF Pulled, Transferred
    <2>4. CASE Match(o)
      <3>1. UNCHANGED <<remote, durable, live>> /\ run' = Settled(o, TRUE)
        BY <2>4 DEF Match, disk
      <3>2. /\ run'.force = run.force /\ run'.old = run.old
            /\ run'.plan = [run.plan EXCEPT ![o] = "none"] /\ run'.complete = run.complete
        BY <3>1, SettledWell
      <3>3. PICK f \in Used : records' = [records EXCEPT ![o] = f.target]
        BY <2>4 DEF Match
      <3>4. \A h \in Used' : h.target = f.target /\ h.view = f.view
        BY <3>1, <3>2, <3>3 DEF Used, Single, AtMostOne
      <3> QED
        BY <2>1, <3>1, <3>2, <3>3, <3>4 DEF Transferred
    <2> QED
      BY <2>2, <2>3, <2>4
  <1>4. PICK view \in {f.view, ViewOf(f)} : Transferred(o, f, view)
    BY <1>3
  <1>5. f.target \in Target /\ f \in Files
    BY <1>4 DEF Transferred, Files
  <1>6. ASSUME NEW t \in Target
        PROVE  /\ durable'[t] = {} <=> durable[t] = {}
               /\ t # f.target => remote'[t] = remote[t] /\ durable'[t] = durable[t]
               /\ \/ remote'[f.target] = remote[f.target] /\ durable'[f.target] = durable[f.target]
                  \/ /\ remote'[f.target] = remote[f.target] \cup {o}
                     /\ durable'[f.target] = Logged(durable[f.target], o)
    BY <1>4, <1>5, LoggedEmpty DEF Typed, Transferred
  <1>7. run'.old # {} => \A h \in live' : h.view = {}
    <2>1. run'.old # {} => run.old # {} /\ live' \in {live, LoggedIn(live, f.target, o)}
      BY <1>4 DEF Transferred
    <2>2. run.old # {} => \A h \in live : h.view = {}
      BY DEF Vouched
    <2>3. live \in SUBSET Files
      BY DEF Typed
    <2> QED
      BY <1>5, <2>1, <2>2, <2>3, EmptyViewsLogged
  <1>8. CASE mixed
    <2>1. \A t \in Target : durable'[t] # {} => t \in suspect
      BY <1>6, <1>8 DEF Vouched
    <2>2. CheckpointsCover'
      BY <1>1, <2>1, CoversNothing DEF CheckpointsCover
    <2> QED
      BY <1>1, <1>2, <1>7, <1>8, <2>1, <2>2 DEF Vouched
  <1>9. CASE ~ mixed
    <2>1. /\ s \in Target /\ f.target = s
          /\ \A p \in Object : records[p] \in {None, s}
      BY <1>1, <1>3, <1>9, RunningIsBound DEF BoundTo
    <2>2. /\ SyncedWith(records, s) \cup {o} \subseteq SyncedWith(records', s)
          /\ Rest \cup {o} \subseteq Rest1
      BY <1>4, <2>1, OneMoreSynced DEF Transferred
    <2>3. CheckpointsCover'
      <3> SUFFICES ASSUME NEW t \in Target \ suspect
                   PROVE  Covers(remote'[t], durable'[t], SyncedWith(records', t))
        BY <1>1 DEF CheckpointsCover
      <3>1. Covers(remote[t], durable[t], SyncedWith(records, t))
        BY DEF Vouched, CheckpointsCover
      <3>2. CASE t # s
        <4>1. SyncedWith(records, t) = {}
          BY <2>1, <3>2, LifecycleAssumption DEF SyncedWith
        <4> QED
          BY <1>6, <2>1, <3>1, <3>2, <4>1, CoversMore
      <3>3. CASE t = s
        <4>1. Covers(remote[s] \cup {o}, Logged(durable[s], o), SyncedWith(records, s))
          BY <3>1, <3>3, CoversLogged
        <4>2. Covers(remote'[s], durable'[s], SyncedWith(records, s))
          BY <1>6, <2>1, <3>1, <3>3, <4>1
        <4> QED
          BY <2>2, <3>3, <4>2, CoversMore
      <3> QED
        BY <3>2, <3>3
    <2>4. AttemptCovers'
      <3>1. s \notin suspect => durable'[s] # {} \/ run'.force
        BY <1>1, <1>4, <1>6, <1>9, <2>1 DEF Vouched, AttemptCovers, Transferred
      <3>2. ASSUME s \notin suspect
            PROVE  view # {} /\ Covers(remote'[s], view, Rest1)
        <4>1. f.view # {} /\ Covers(remote[s], f.view, Rest)
          BY <1>1, <1>3, <1>9, <2>1, <3>2 DEF Vouched, AttemptCovers
        <4>2. view = f.view
          BY <1>3, <4>1 DEF ViewOf
        <4>3. remote'[s] \subseteq remote[s] \cup {o}
          BY <1>6, <2>1
        <4> HIDE DEF Rest, Rest1
        <4> QED
          BY <2>2, <4>1, <4>2, <4>3 DEF Covers
      <3> QED
        BY <1>1, <1>4, <2>1, <3>1, <3>2 DEF AttemptCovers, Transferred
    <2>5. ViewsCover'
      BY <1>1 DEF ViewsCover
    <2> QED
      BY <1>1, <1>2, <1>7, <1>9, <2>3, <2>4, <2>5 DEF Vouched
  <1> QED
    BY <1>8, <1>9

\* Between cycles it is enough to look at checkpoints and views.
LEMMA VouchedBetweenCycles ==
    ASSUME phase' \notin {"attempt", "execute"}, run'.old = {}, CheckpointsCover',
           mixed' \/ manager'.reset
             => \A t \in Target : durable'[t] # {} => t \in suspect',
           ~ mixed' => ViewsCover'
    PROVE  Vouched'
  BY DEF Vouched, AttemptCovers

\* Losing checkpoints takes nothing from the others.
LEMMA FewerCheckpoints ==
    ASSUME Vouched, UNCHANGED <<remote, records>>, suspect \subseteq suspect',
           \A t \in Target : durable'[t] \in {durable[t], {}}
    PROVE  /\ CheckpointsCover'
           /\ mixed \/ manager.reset
                => \A t \in Target : durable'[t] # {} => t \in suspect'
  BY CoversNothing DEF Vouched, CheckpointsCover

\* Filesystems without a view vouch for nothing.
LEMMA EmptyViewsCover ==
    ASSUME \A f \in live' : f.view = {} PROVE ViewsCover'
  BY CoversNothing DEF ViewsCover

\* Nor do folders without one.
LEMMA NothingStanding ==
    ASSUME live' \in SUBSET Files,
           \A t \in Target \ suspect' :
             durable'[t] = {} /\ \A f \in live' : f.target = t => f.view = {}
    PROVE  CheckpointsCover' /\ ViewsCover'
  <1>1. CheckpointsCover'
    BY CoversNothing DEF CheckpointsCover
  <1>2. \A f \in live' : f.target \in Target
    BY DEF Files
  <1>3. ViewsCover'
    BY <1>2, CoversNothing DEF ViewsCover
  <1> QED
    BY <1>1, <1>3

\* A clean close saves a view all of whose objects are synced; any other close and a
\* failed attempt discard it.
LEMMA CycleVouched ==
    ASSUME Typed, Single, Holding, BoundHere, Vouched, Cycle PROVE Vouched'
  <1> DEFINE s == settings.stored
  <1>1. phase # "idle" /\ ~ manager.reset /\ UNCHANGED <<settings, manager, mixed>>
    BY CycleEffect DEF Holding
  <1>2. ~ mixed =>
          /\ s \in Target /\ BoundTo(live, s) /\ BoundTo(Used, s) /\ run.target = s
    BY <1>1, RunningIsBound
  <1>3. ASSUME run' = [NoRun EXCEPT !.target = run.target] PROVE run'.old = {}
    BY <1>3, NoRunTyped DEF Runs, Typed, NoRun
  <1>4. CASE Begin
    <2>1. run'.old = {} /\ run'.force = ~ HasCheckpoint(run.target)
      <3>1. HasCheckpoint(run.target) \in BOOLEAN /\ NoRun.old = {}
        BY DEF HasCheckpoint, NoRun
      <3> QED
        BY <1>4, <3>1, NoRunTyped DEF Begin, Runs, Typed
    <2>2. /\ UNCHANGED <<remote, records, durable, live>>
          /\ phase = "begin" /\ phase' = "attempt"
          /\ suspect' = suspect \ IF mixed THEN {} ELSE {run.target} \ Standing
      BY <1>4 DEF Begin, disk, stored
    <2>3. ASSUME NEW t \in Target \ suspect', t \in suspect
          PROVE  /\ ~ mixed /\ durable[t] = {}
                 /\ \A f \in live : f.target = t => f.view = {}
      BY <2>2, <2>3 DEF Standing
    <2>4. CheckpointsCover'
      <3> SUFFICES ASSUME NEW t \in Target \ suspect'
                   PROVE  Covers(remote[t], durable[t], SyncedWith(records, t))
        BY <2>2 DEF CheckpointsCover
      <3>1. CASE t \in suspect
        BY <2>3, <3>1, CoversNothing
      <3>2. CASE t \notin suspect
        BY <3>2 DEF Vouched, CheckpointsCover
      <3> QED
        BY <3>1, <3>2
    <2>5. ASSUME ~ mixed PROVE ViewsCover'
      <3> SUFFICES ASSUME NEW f \in live, f.target \notin suspect'
                   PROVE  Covers(remote[f.target], f.view, SyncedWith(records, f.target))
        BY <2>2 DEF ViewsCover
      <3>1. f.target \in Target
        BY DEF Typed, Files
      <3>2. CASE f.target \in suspect
        BY <2>3, <3>1, <3>2, CoversNothing
      <3>3. CASE f.target \notin suspect
        BY <2>2, <2>5, <3>3 DEF Vouched, ViewsCover
      <3> QED
        BY <3>2, <3>3
    <2>6. ASSUME ~ mixed PROVE AttemptCovers'
      BY <1>1, <1>2, <2>1, <2>2, <2>6 DEF AttemptCovers, HasCheckpoint
    <2>7. mixed => \A t \in Target : durable[t] # {} => t \in suspect'
      BY <2>2 DEF Vouched
    <2> QED
      BY <1>1, <2>1, <2>2, <2>4, <2>5, <2>6, <2>7 DEF Vouched
  <1>5. CASE CloseClean
    <2>1. /\ phase = "execute" /\ UNCHANGED <<remote, records, live>>
          /\ \A o \in Object : run.plan[o] = "none"
          /\ run.complete /\ phase' \notin {"attempt", "execute"} /\ run'.old = {}
          /\ suspect' = suspect \cup IF mixed THEN Targets(Used) ELSE {}
      BY <1>3, <1>5 DEF CloseClean, AllSettled, disk, Next1
    <2>2. \A t : Handled(records, run.plan, run.complete, t) = SyncedWith(records, t)
      BY <2>1 DEF Handled, SyncedWith
    <2>3. PICK f \in Used : durable' = [durable EXCEPT ![f.target] = f.view]
      BY <1>5 DEF CloseClean
    <2>4. ASSUME NEW t \in Target
          PROVE  durable'[t] = IF t = f.target THEN f.view ELSE durable[t]
      BY <2>3 DEF Typed
    <2>5. CASE mixed
      <3>1. \A t \in Target : durable'[t] # {} => t \in suspect'
        BY <2>1, <2>3, <2>4, <2>5 DEF Vouched, Targets
      <3>2. CheckpointsCover'
        BY <3>1, CoversNothing DEF CheckpointsCover
      <3> QED
        BY <1>1, <2>1, <2>5, <3>1, <3>2, VouchedBetweenCycles
    <2>6. CASE ~ mixed
      <3>1. /\ suspect' = suspect
            /\ \A g \in Used : g.target = s
                 /\ (s \notin suspect => Covers(remote[s], g.view, SyncedWith(records, s)))
        <4>1. \A g \in Used : g.target = s
          BY <1>2, <2>6 DEF BoundTo
        <4>2. \A g \in Used : s \notin suspect
                => Covers(remote[s], g.view,
                          Handled(records, run.plan, run.complete, s))
          BY <2>1, <2>6, <4>1 DEF Vouched, AttemptCovers
        <4> QED
          BY <2>1, <2>2, <2>6, <4>1, <4>2
      <3>2. CheckpointsCover'
        <4> SUFFICES ASSUME NEW t \in Target \ suspect
                     PROVE  Covers(remote[t], durable'[t], SyncedWith(records, t))
          BY <2>1, <3>1 DEF CheckpointsCover
        <4>1. Covers(remote[t], durable[t], SyncedWith(records, t))
          BY DEF Vouched, CheckpointsCover
        <4> QED
          BY <2>3, <2>4, <3>1, <4>1
      <3>3. ViewsCover'
        <4> SUFFICES ASSUME NEW g \in live, g.target \notin suspect
                     PROVE  Covers(remote[g.target], g.view, SyncedWith(records, g.target))
          BY <2>1, <3>1 DEF ViewsCover
        <4>1. CASE run.old = {}
          BY <3>1, <4>1 DEF Used
        <4>2. CASE run.old # {}
          BY <4>2, CoversNothing DEF Vouched
        <4> QED
          BY <4>1, <4>2
      <3> QED
        BY <1>1, <2>1, <2>6, <3>2, <3>3, VouchedBetweenCycles
    <2> QED
      BY <2>5, <2>6
  <1>6. ASSUME UNCHANGED <<remote, records, durable, suspect>>, \A f \in live' : f.view = {},
               run'.old = {},
               phase' \in {"attempt", "execute"}
                 => run'.force = run.force /\ phase \in {"attempt", "execute"},
               phase' # "execute"
        PROVE  Vouched'
    <2>1. ViewsCover'
      BY <1>6, EmptyViewsCover
    <2>2. ~ mixed => AttemptCovers'
      BY <1>1, <1>6 DEF Vouched, AttemptCovers
    <2> QED
      BY <1>1, <1>6, <2>1, <2>2 DEF Vouched, CheckpointsCover
  <1>7. live' = (IF run.old # {} THEN live ELSE Discarded(live)) => \A f \in live' : f.view = {}
    BY TargetsOfDiscarded DEF Vouched, Typed
  <1>8. CASE CloseIncomplete
    BY <1>3, <1>6, <1>7, <1>8 DEF CloseIncomplete, Next1, disk, stored, history, lapses
  <1>9. CASE AttemptThrows
    <2>1. run'.force = run.force /\ run'.old = {}
      BY <1>9 DEF AttemptThrows, Typed, Runs
    <2> QED
      BY <1>6, <1>7, <1>9, <2>1 DEF AttemptThrows, disk, stored, history, lapses
  <1>10. ASSUME NEW o \in Object, ActionFails(o) PROVE Vouched'
    <2>1. /\ phase = "execute"
          /\ UNCHANGED <<remote, records, durable, live, phase, suspect>>
          /\ run' = Settled(o, FALSE)
      BY <1>10 DEF ActionFails, disk, stored, history, lapses
    <2>2. run'.force = run.force /\ run'.old = run.old /\ ~ run'.complete
      BY <2>1, SettledKeeps
    <2>3. Used' = Used
      BY <2>1, <2>2 DEF Used
    <2>4. \A t \in Target : remote[t] \subseteq Handled(records, run'.plan, run'.complete, t)
      BY <2>2 DEF Handled, Typed
    <2>5. ASSUME ~ mixed PROVE AttemptCovers'
      <3>1. Used \in SUBSET Files
        BY UsedTyped
      <3>2. \A f \in Used :
              Covers(remote[f.target], f.view,
                     Handled(records, run'.plan, run'.complete, f.target))
        BY <2>4, <3>1 DEF Covers, Files
      <3> QED
        BY <1>1, <2>1, <2>2, <2>3, <2>5, <3>2 DEF Vouched, AttemptCovers
    <2> QED
      BY <1>1, <2>1, <2>2, <2>5 DEF Vouched, CheckpointsCover, ViewsCover
  <1> QED
    BY <1>4, <1>5, <1>8, <1>9, <1>10, AttemptVouched, TransferVouched DEF Cycle

\* A step that leaves records, checkpoints and filesystems alone.
LEMMA VouchedAlone ==
    ASSUME Single, Vouched,
           UNCHANGED <<remote, records, durable, live, mixed, suspect>>,
           mixed \/ settings'.stored = settings.stored,
           UNCHANGED <<phase, run>> \/ StartedOn(live),
           manager'.reset => manager.reset
    PROVE  Vouched'
  <1>1. CASE UNCHANGED <<phase, run>>
    <2>1. Used' = Used
      BY <1>1 DEF Used
    <2> QED
      BY <1>1, <2>1 DEF Vouched, CheckpointsCover, ViewsCover, AttemptCovers
  <1>2. CASE StartedOn(live)
    BY <1>2, VouchedBetweenCycles DEF StartedOn, Vouched, CheckpointsCover, ViewsCover
  <1> QED
    BY <1>1, <1>2

\* An operation leaves checkpoints that no record vouches for under suspicion, and a folder
\* bound for the first time or again starts without a view.
LEMMA ManagerVouched ==
    ASSUME Typed, Single, Holding, BoundHere, Vouched, Manager PROVE Vouched'
  <1>1. UNCHANGED remote /\ (LeftRunning \/ (StartedOn(live') /\ manager' = Idle))
    BY ManagerEffect
  <1>2. ASSUME NEW step \in Steps, Goto(step) PROVE manager'.reset = manager.reset
    BY <1>2 DEF Goto, Typed, Operations
  <1>3. manager.reset => manager.step \in {"open", "reset"}
    BY DEF Holding
  <1>4. manager' = Idle => ~ manager'.reset
    BY IdleFields
  <1>5. ASSUME phase = "idle" PROVE run'.old = {} /\ phase' \notin {"attempt", "execute"}
    BY <1>1, <1>5 DEF LeftRunning, StartedOn
  <1>6. live \in SUBSET Files /\ \A f \in Discarded(live) : f.view = {}
    BY TargetsOfDiscarded DEF Typed
  <1>7. ASSUME UNCHANGED <<records, durable, live, mixed, suspect>>,
               settings'.stored = settings.stored,
               \/ UNCHANGED <<phase, run>>
               \/ FinishUnchanged,
               manager' = Idle \/ manager'.reset = manager.reset \/ ~ manager'.reset
        PROVE  Vouched'
    BY <1>1, <1>4, <1>7, FinishUnchangedEffect, VouchedAlone
  <1>8. ASSUME UNCHANGED <<records, lapses>>, \A t \in Target : durable'[t] \in {durable[t], {}},
               \A f \in live' : f.view = {}, phase = "idle",
               manager' = Idle \/ manager'.reset = manager.reset
        PROVE  Vouched'
    BY <1>1, <1>4, <1>5, <1>8, FewerCheckpoints, EmptyViewsCover,
        VouchedBetweenCycles DEF lapses
  <1>9. ASSUME NEW X \in SUBSET Files, \A f \in X : f.view = {}, Expose(X),
               UNCHANGED <<records, durable, suspect>>, phase = "idle",
               manager' = Idle \/ manager'.reset = manager.reset
        PROVE  Vouched'
    <2>1. live' = X /\ (mixed' => mixed)
      BY <1>9 DEF Expose
    <2> QED
      BY <1>1, <1>4, <1>5, <1>9, <2>1, FewerCheckpoints, EmptyViewsCover, VouchedBetweenCycles
  <1>10. ASSUME NEW kind \in Kinds, NEW step \in Steps, NEW to \in MaybeTarget,
                Open(kind, step, to)
         PROVE  Vouched'
    <2>1. ~ manager'.reset
      BY <1>10 DEF Open
    <2> QED
      BY <1>7, <1>10, <2>1 DEF Open, stored, cycle, history, lapses
  <1>11. CASE \E t \in Target : BindFolder(t) \/ StartAuthPick(t)
    BY <1>10, <1>11 DEF BindFolder, StartAuthPick, Kinds, Steps, MaybeTarget
  <1>12. CASE StartConnect \/ StartDisconnect \/ StartSwitch
    BY <1>10, <1>12 DEF StartConnect, StartDisconnect, StartSwitch, Kinds, Steps, MaybeTarget
  <1>13. CASE Resolve \/ Pick
    <2>1. /\ UNCHANGED <<records, durable, live, mixed, suspect, phase, run>>
          /\ manager' = Idle \/ Goto("init")
      BY <1>13 DEF Resolve, Pick, GiveUp, cycle, history, lapses
    <2>2. settings'.stored = settings.stored
      BY <1>13 DEF Resolve, Pick, Bound, Typed, Bindings
    <2> QED
      BY <1>2, <1>7, <2>1, <2>2 DEF Steps
  <1>14. CASE Authorize
    <2>1. /\ UNCHANGED <<records, durable, live, mixed, suspect>>
          /\ UNCHANGED <<phase, run>> \/ FinishUnchanged
      BY <1>14 DEF Authorize, GiveUp, cycle, history, lapses
    <2>2. settings'.stored = settings.stored
      BY <1>14 DEF Authorize, Typed, Bindings
    <2>3. manager' = Idle \/ Goto("forget")
      BY <1>14, FinishUnchangedEffect DEF Authorize, GiveUp
    <2> QED
      BY <1>2, <1>7, <2>1, <2>2, <2>3 DEF Steps
  <1>15. CASE Leave
    <2>1. /\ UNCHANGED <<records, durable, live, mixed, suspect, phase, run>> /\ Goto("forget")
      BY <1>15 DEF Leave, cycle, history, lapses
    <2>2. settings'.stored = settings.stored
      BY <1>15, LeftEffect DEF Leave
    <2> QED
      BY <1>2, <1>7, <2>1, <2>2 DEF Steps
  <1>16. CASE Forget
    <2>1. /\ UNCHANGED <<records, settings, phase, run, mixed>> /\ ~ manager.reset
          /\ manager'.reset = manager.reset
      BY <1>2, <1>3, <1>16 DEF Forget, At, cycle, Steps
    <2>2. CASE UNCHANGED <<durable, live, suspect>>
      BY <1>7, <2>1, <2>2
    <2>3. CASE /\ durable' = [t \in Target |-> IF t \in StoresOf(live) THEN {} ELSE durable[t]]
               /\ live' = Discarded(live)
               /\ suspect' = suspect \cup IF phase = "idle" THEN {} ELSE Targets(live)
      <3>1. \A t \in Target : durable'[t] \in {durable[t], {}}
        BY <2>3
      <3>2. CASE phase = "idle"
        BY <1>6, <1>8, <2>1, <2>3, <3>1, <3>2 DEF lapses
      <3>3. CASE phase # "idle"
        <4>1. /\ CheckpointsCover'
              /\ mixed \/ manager.reset => \A t \in Target : durable'[t] # {} => t \in suspect'
          BY <1>1, <2>1, <2>3, <3>1, FewerCheckpoints
        <4>2. ViewsCover'
          BY <1>6, <2>3, EmptyViewsCover
        <4>3. ASSUME ~ mixed PROVE AttemptCovers'
          <5>1. /\ BoundTo(live, settings.stored) /\ live # {}
                /\ BoundTo(Used, settings.stored)
            BY <3>3, <4>3, RunningIsBound
          <5>2. settings.stored \in suspect'
            BY <2>3, <3>3, <5>1 DEF BoundTo, Targets
          <5>3. phase = "execute" => Targets(Used') = Targets(Used)
            BY <1>1, <3>3 DEF LeftRunning, StartedOn
          <5>4. phase = "execute" => BoundTo(Used', settings.stored)
            BY <5>1, <5>3, BoundTargets
          <5> QED
            BY <2>1, <5>2, <5>4 DEF AttemptCovers, BoundTo
        <4> QED
          BY <1>6, <2>1, <2>3, <4>1, <4>2, <4>3 DEF Vouched
      <3> QED
        BY <3>2, <3>3
    <2> QED
      BY <1>16, <2>2, <2>3 DEF Forget
  <1>17. CASE ClearBaseline
    <2>1. /\ UNCHANGED <<settings, durable, live, mixed>> /\ phase = "idle"
          /\ suspect' = suspect \cup Standing /\ Goto(AfterClear)
      BY <1>17 DEF ClearBaseline, Clears, NoBaseline
    <2>2. manager'.reset = manager.reset
      BY <1>2, <2>1 DEF AfterClear, Steps
    <2>3. \A t \in Target \ suspect' :
            durable'[t] = {} /\ \A f \in live' : f.target = t => f.view = {}
      BY <2>1 DEF Standing
    <2>4. CheckpointsCover' /\ ViewsCover'
      BY <1>6, <2>1, <2>3, NothingStanding
    <2> QED
      BY <1>5, <2>1, <2>2, <2>3, <2>4, VouchedBetweenCycles
  <1>18. CASE ClearFails
    <2>1. /\ UNCHANGED <<records, durable, settings, live, mixed, suspect>>
          /\ UNCHANGED <<phase, run>> \/ FinishUnchanged
      BY <1>18 DEF ClearFails, GiveUp, cycle, stored, history, lapses
    <2>2. manager' = Idle
      BY <1>18, FinishUnchangedEffect DEF ClearFails, GiveUp
    <2> QED
      BY <1>7, <2>1, <2>2
  <1>19. ASSUME Finish({}) PROVE manager' = Idle
    BY <1>19, FinishEffect
  <1>20. CASE Build
    <2>1. /\ UNCHANGED <<records, durable, settings, suspect>> /\ phase = "idle"
      BY <1>20 DEF Build, At, stored, Holding, Steady
    <2>2. CASE FinishUnchanged /\ UNCHANGED <<live, mixed>>
      BY <1>7, <2>1, <2>2, FinishUnchangedEffect
    <2>3. CASE settings.folder # None /\ Expose({Filesystem(settings.folder)}) /\ Goto("validate")
      <3>1. /\ {Filesystem(settings.folder)} \in SUBSET Files
            /\ \A f \in {Filesystem(settings.folder)} : f.view = {}
        BY <2>3, FilesystemTyped DEF Typed, Bindings, MaybeTarget
      <3>2. manager'.reset = manager.reset
        BY <1>2, <2>3 DEF Steps
      <3> QED
        BY <1>9, <2>1, <2>3, <3>1, <3>2
    <2>4. CASE Expose({}) /\ Finish({})
      BY <1>9, <1>19, <2>1, <2>4
    <2> QED
      BY <1>20, <2>2, <2>3, <2>4 DEF Build
  <1>21. CASE Validate
    <2>1. UNCHANGED <<records, durable, suspect>> /\ phase = "idle"
      BY <1>21 DEF Validate, At, Holding, Steady
    <2>2. CASE Finish(live) /\ UNCHANGED <<live, mixed>>
      <3>1. manager' = Idle
        BY <2>2, FinishEffect DEF Typed
      <3>2. ~ mixed => ViewsCover'
        BY <1>1, <2>1, <2>2 DEF Vouched, ViewsCover
      <3> QED
        BY <1>1, <1>4, <1>5, <2>1, <2>2, <3>1, <3>2, VouchedBetweenCycles
        DEF Vouched, CheckpointsCover
    <2>3. CASE Expose({}) /\ Finish({})
      BY <1>9, <1>19, <2>1, <2>3
    <2> QED
      BY <1>21, <2>2, <2>3 DEF Validate
  <1>22. CASE Drop
    <2>1. UNCHANGED <<records, durable, suspect>> /\ phase = "idle" /\ Expose({}) /\ Finish({})
      BY <1>22 DEF Drop, At, Holding, Steady
    <2> QED
      BY <1>9, <1>19, <2>1
  <1>23. CASE Init1
    <2>1. UNCHANGED <<durable, live, mixed>> /\ manager.step = "init" /\ ~ manager.reset
      BY <1>3, <1>23 DEF Init1, At
    <2>2. CASE FolderChanged /\ Clears /\ NoBaseline
      <3>1. phase = "idle" /\ suspect' = suspect \cup Standing
        BY <2>2 DEF Clears, NoBaseline
      <3>2. \A t \in Target \ suspect' :
              durable'[t] = {} /\ \A f \in live' : f.target = t => f.view = {}
        BY <2>1, <3>1 DEF Standing
      <3>3. CheckpointsCover' /\ ViewsCover'
        BY <1>6, <2>1, <3>2, NothingStanding
      <3> QED
        BY <1>5, <3>1, <3>2, <3>3, VouchedBetweenCycles
    <2>3. CASE /\ ~ FolderChanged /\ Recorded /\ Goto("open")
               /\ UNCHANGED <<records, suspect, phase, run>>
      <3>1. ~ manager'.reset
        BY <1>2, <2>1, <2>3 DEF Steps
      <3>2. settings'.stored = settings.stored \/ settings.stored = None
        BY <2>3 DEF Recorded, FolderChanged, Typed, Bindings
      <3>3. CASE mixed \/ settings'.stored = settings.stored
        BY <1>1, <2>1, <2>3, <3>1, <3>3, VouchedAlone
      <3>4. CASE ~ mixed /\ settings.stored = None
        <4>1. phase = "idle"
          BY <3>4, RunningIsBound, LifecycleAssumption
        <4>2. CheckpointsCover' /\ ViewsCover'
          BY <1>1, <2>1, <2>3, <3>4 DEF Vouched, CheckpointsCover, ViewsCover
        <4> QED
          BY <1>5, <2>1, <3>1, <3>4, <4>1, <4>2, VouchedBetweenCycles
      <3> QED
        BY <3>2, <3>3, <3>4
    <2>4. CASE FinishUnchanged /\ UNCHANGED <<records, settings, suspect>>
      BY <1>7, <2>1, <2>4, FinishUnchangedEffect
    <2> QED
      BY <1>23, <2>2, <2>3, <2>4 DEF Init1, cycle
  <1>24. CASE OpenFs
    <2>1. manager.step = "open" /\ UNCHANGED <<records, durable, settings, suspect>>
      BY <1>24 DEF OpenFs, At, stored
    <2>2. CASE ~ Connected /\ Expose({}) /\ Finish({})
      <3>1. phase = "idle"
        BY <2>1, <2>2 DEF Holding
      <3> QED
        BY <1>9, <1>19, <2>1, <2>2, <3>1
    <2>3. CASE /\ Connected /\ Expose({Filesystem(settings.folder)})
               /\ \/ Goto("reset")
                  \/ Finish({Filesystem(settings.folder)})
      <3>1. /\ {Filesystem(settings.folder)} \in SUBSET Files
            /\ \A f \in {Filesystem(settings.folder)} : f.view = {}
        BY <2>3, FilesystemTyped DEF Connected, Typed, Bindings, MaybeTarget
      <3>2. manager' = Idle \/ manager'.reset = manager.reset
        BY <1>2, <2>3, <3>1, FinishEffect DEF Steps
      <3>3. CASE phase = "idle"
        BY <1>9, <2>1, <2>3, <3>1, <3>2, <3>3
      <3>4. CASE phase # "idle"
        <4>1. /\ ~ manager.reset /\ UNCHANGED phase /\ mixed' = mixed
              /\ live' = {Filesystem(settings.folder)}
          BY <1>1, <2>3, <3>4 DEF LeftRunning, StartedOn, Expose, Holding, Typed
        <4>2. /\ run'.force = run.force /\ run'.plan = run.plan /\ run'.complete = run.complete
              /\ phase = "execute" => Used' = Used
          BY <1>1, <2>1, <3>4 DEF LeftRunning, StartedOn, At
        <4>3. ViewsCover'
          BY <3>1, <4>1, EmptyViewsCover
        <4>4. CheckpointsCover' /\ (~ mixed => AttemptCovers')
          BY <1>1, <2>1, <4>1, <4>2 DEF Vouched, CheckpointsCover, AttemptCovers
        <4> QED
          BY <1>4, <2>1, <3>1, <3>2, <4>1, <4>3, <4>4 DEF Vouched
      <3> QED
        BY <3>3, <3>4
    <2>4. CASE /\ FinishUnchanged /\ UNCHANGED live
               /\ mixed' = (mixed \/ (manager.reset /\ live # {}))
      <3>1. CASE ~ manager.reset
        BY <1>7, <2>1, <2>4, <3>1, FinishUnchangedEffect DEF Typed
      <3>2. CASE manager.reset
        <4>1. phase = "idle" /\ manager' = Idle
          BY <2>4, <3>2, FinishUnchangedEffect DEF Holding
        <4>2. \A t \in Target : durable'[t] # {} => t \in suspect'
          BY <2>1, <3>2 DEF Vouched
        <4>3. CheckpointsCover' /\ (~ mixed' => ViewsCover')
          BY <1>1, <2>1, <2>4, <4>1 DEF Vouched, CheckpointsCover, ViewsCover
        <4> QED
          BY <1>5, <4>1, <4>2, <4>3, VouchedBetweenCycles
      <3> QED
        BY <3>1, <3>2
    <2> QED
      BY <1>24, <2>2, <2>3, <2>4 DEF OpenFs
  <1>25. CASE ResetCheckpoint
    <2>1. /\ UNCHANGED <<records, settings, lapses>> /\ phase = "idle" /\ manager' = Idle
      BY <1>25, FinishEffect DEF ResetCheckpoint, At, Holding, Steady, Typed, history
    <2>2. CASE durable' = [durable EXCEPT ![settings.folder] = {}] /\ live' = Discarded(live)
      <3>1. \A t \in Target : durable'[t] \in {durable[t], {}}
        BY <2>2 DEF Typed
      <3> QED
        BY <1>6, <1>8, <2>1, <2>2, <3>1
    <2>3. CASE UNCHANGED <<durable, live>>
      <3>1. CheckpointsCover' /\ (~ mixed' => ViewsCover')
        BY <1>1, <2>1, <2>3 DEF Vouched, CheckpointsCover, ViewsCover, lapses
      <3> QED
        BY <1>4, <1>5, <2>1, <2>3, <3>1, VouchedBetweenCycles DEF Vouched, lapses
    <2> QED
      BY <1>25, <2>2, <2>3 DEF ResetCheckpoint
  <1> QED
    BY <1>11, <1>12, <1>13, <1>14, <1>15, <1>16, <1>17, <1>18, <1>20, <1>21, <1>22, <1>23,
       <1>24, <1>25
    DEF Manager

LEMMA VouchedStep ==
    ASSUME Typed, Single, Holding, BoundHere, Vouched, [Next]_vars PROVE Vouched'
  <1>1. CASE Rescan
    <2>1. /\ phase = "idle" /\ live' = Discarded(live)
          /\ UNCHANGED <<remote, records, manager, mixed, suspect>>
          /\ durable' = [t \in Target |-> IF t \in Targets(live) THEN {} ELSE durable[t]]
      BY <1>1 DEF Rescan, disk, history, lapses
    <2>2. ViewsCover'
      BY <2>1, TargetsOfDiscarded, EmptyViewsCover DEF Typed
    <2>3. \A t \in Target : durable'[t] \in {durable[t], {}}
      BY <2>1
    <2>4. run'.old = {} /\ phase' \notin {"attempt", "execute"}
      BY <1>1, <2>1, RequestEffect DEF Rescan, StartedOn, Single
    <2> QED
      BY <2>1, <2>2, <2>3, <2>4, FewerCheckpoints, VouchedBetweenCycles
  <1>2. CASE Restart
    <2>1. /\ live' = {} /\ phase' = "idle" /\ run' = NoRun
          /\ UNCHANGED <<remote, records, durable, mixed, suspect>>
      BY <1>2 DEF Restart, disk, stored, lapses
    <2>2. ~ manager'.reset /\ run'.old = {}
      BY <1>2, <2>1 DEF Restart, Idle, NoRun
    <2>3. CheckpointsCover' /\ ViewsCover'
      BY <2>1 DEF Vouched, CheckpointsCover, ViewsCover
    <2> QED
      BY <2>1, <2>2, <2>3, VouchedBetweenCycles DEF Vouched
  <1>3. CASE UNCHANGED vars
    <2>1. /\ UNCHANGED <<remote, records, durable, settings, live, mixed, suspect>>
          /\ UNCHANGED <<manager, phase, run>>
      BY <1>3 DEF vars, disk, stored, cycle, history, lapses
    <2> QED
      BY <2>1, VouchedAlone
  <1> QED
    BY <1>1, <1>2, <1>3, RequestsVouched, EditsVouched, CycleVouched, ManagerVouched DEF Next

-----------------------------------------------------------------------------
\* What holds of folders, requests and checkpoints.
SafelyBound == BoundHere /\ Served /\ Vouched

LEMMA SafelyBoundAtFirst == Init => SafelyBound
  <1> SUFFICES ASSUME Init PROVE SafelyBound
    OBVIOUS
  <1>1. /\ manager = Idle /\ live = {} /\ durable = [t \in Target |-> {}]
        /\ phase = "idle" /\ run.old = {} /\ mixed = FALSE /\ owed = FALSE
        /\ \A o \in Object : records[o] = None
    BY DEF Init, NoRun
  <1>2. BoundHere
    BY <1>1, IdleFields DEF BoundHere, OneFolder, BoundTo
  <1>3. Served
    BY <1>1 DEF Served, EveryBindingIsSynced
  <1>4. CheckpointsCover
    BY <1>1, CoversNothing DEF CheckpointsCover
  <1>5. Vouched
    BY <1>1, <1>4, IdleFields DEF Vouched, ViewsCover, AttemptCovers
  <1> QED
    BY <1>2, <1>3, <1>5 DEF SafelyBound

\* The cardinality of an optional value.
LEMMA OneAtMost ==
    ASSUME NEW X, AtMostOne(X) PROVE Cardinality(X) <= 1
  <1>1. X = {} \/ \E f \in X : X = {f}
    BY DEF AtMostOne
  <1> QED
    BY <1>1, FS_EmptySet, FS_Singleton

\* The invariant of the specification.
LEMMA SafelyBoundAlways == Spec => [](Typed /\ Single /\ Holding /\ SafelyBound)
  <1>1. Init => Typed /\ Single /\ Holding /\ SafelyBound
    BY Started, SafelyBoundAtFirst
  <1>2. Typed /\ Single /\ Holding /\ SafelyBound /\ [Next]_vars
          => (Typed /\ Single /\ Holding /\ SafelyBound)'
    BY TypedStep, SingleStep, HoldingStep, BoundStep, ServedStep, VouchedStep DEF SafelyBound
  <1> QED
    BY <1>1, <1>2, PTL DEF Spec

\* The variables keep their types, at most one filesystem is exposed or kept by an attempt,
\* and whenever a cycle holds the mutex it knows its folder.
THEOREM TypeCorrect == Spec => []TypeOK
  <1>1. Typed /\ Single => TypeOK
    BY OneAtMost
    DEF Typed, Single, TypeOK, Bindings, Operations, Files, Runs, MaybeTarget
  <1> QED
    BY SafelyBoundAlways, <1>1, PTL

\* No cycle meets records of another folder, for any folders, any number of operations,
\* restarts and failing calls, and however users reconnect; except after initBackend had
\* cleared the records and stored the identity of a new folder whose filesystem could not
\* be opened, while the filesystem of the folder before is still exposed (`mixed`).
THEOREM BaselineIsOfBoundFolder == Spec => []BaselineOfBoundFolder
  <1>1. SafelyBound => BaselineOfBoundFolder
    BY DEF SafelyBound, BoundHere, OneFolder, BoundTo, BaselineOfBoundFolder
  <1> QED
    BY SafelyBoundAlways, <1>1, PTL

\* A folder that is exposed gets its first cycle without a further signal, whatever cycle
\* ran while it was bound and whatever call failed; except when an operation gave up with
\* no request for a cycle (`unanswered`), or records are mixed.
THEOREM BindingsAreSynced == Spec => []EveryBindingIsSynced
  <1>1. SafelyBound => EveryBindingIsSynced
    BY DEF SafelyBound, Served
  <1> QED
    BY SafelyBoundAlways, <1>1, PTL

\* A return to the foreground whose signal was consumed was followed by a cycle, unless an
\* operation that held `connecting` meanwhile gave up with no request for one.
THEOREM ReturnsAreRechecked == Spec => []ReturnIsRechecked
  <1>1. SafelyBound => ReturnIsRechecked
    BY DEF SafelyBound, Served, ReturnIsRechecked
  <1> QED
    BY SafelyBoundAlways, <1>1, PTL

\* A checkpoint passes over nothing that was not synced: no interleaving of cycles, edits,
\* binding, rescans, restarts and failures leaves an object out of the vault for good, whenever
\* the app is killed; except for a folder whose checkpoint was cleared beside a running cycle,
\* or kept when the records were cleared or mixed (`suspect`), until a cycle begins on it
\* with no checkpoint.
THEOREM CheckpointsVouch == Spec => []CheckpointVouches
  <1>1. ASSUME Typed, CheckpointsCover PROVE CheckpointVouches
    BY <1>1 DEF CheckpointsCover, Covers, SyncedWith, CheckpointVouches, Typed
  <1>2. Typed /\ SafelyBound => CheckpointVouches
    BY <1>1 DEF SafelyBound, Vouched
  <1> QED
    BY SafelyBoundAlways, <1>2, PTL
=============================================================================

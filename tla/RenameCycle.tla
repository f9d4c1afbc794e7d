----------------------------- MODULE RenameCycle -----------------------------
(***************************************************************************)
(* Files that are renamed, replaced, edited and deleted on both sides      *)
(* while the engine synchronises them: the tracker's rename reports, what  *)
(* a cycle collects (hot, warm or cold), the components it makes of the    *)
(* facts, the actions IdentityDecision admits, their execution one after   *)
(* the other, and what closeout acknowledges.                              *)
(*                                                                         *)
(* An action runs in one step here, or stops after any of its effects; the *)
(* steps inside a transfer, and the remote changing during a cycle, are    *)
(* SyncCycle's.  Vault events are delivered with the change they report.   *)
(***************************************************************************)
EXTENDS IdentityDecision, FiniteSets

CONSTANTS
    MaxEdits,       \* bound: changes users make, on both sides together
    MaxFails,       \* bound: actions that stop half-way
    MaxCrashes      \* bound: ends of the process

ASSUME BoundAssumption ==
    /\ MaxEdits \in Nat /\ MaxFails \in Nat /\ MaxCrashes \in Nat

VARIABLES
    local,        \* the vault: the file at each address, or Nothing
    remote,       \* the provider: the object at each address, or Nothing
    rows,         \* the SyncRecord at each address, or Nothing
    copies,       \* versions kept under conflict names, on both sides
    checkpoint,   \* the committed view of the remote
    logged,       \* identities the provider's log names since that checkpoint
    echoes,       \* identities of the engine's own calls since the log was read
    dirty,        \* LocalChangeTracker.dirtyPaths, in the order they were added
    pairs,        \* LocalChangeTracker.renamePairs, as [new, old]
    remarked,     \* addresses marked since the snapshot (their generation)
    initialized,  \* LocalChangeTracker.initialized
    phase,        \* where the cycle is
    snap,         \* the snapshot of the tracker
    plan,         \* the components still to execute, each at its first address:
                  \* the actions left of it, and whether it is pooled
    incomplete,   \* a component was refused, failed or blocked
    touched,      \* history: a user changed something since the snapshot
    wanted,       \* history: the versions no user has replaced or deleted
    fresh,        \* the identity of the next object
    edits, fails, crashes   \* counters under the bounds

disk == <<local, remote, copies, fresh, echoes>>
tracker == <<dirty, pairs, remarked>>
vars == <<local, remote, rows, copies, checkpoint, logged, echoes, dirty, pairs, remarked,
          initialized, phase, snap, plan, incomplete, touched, wanted,
          fresh, edits, fails, crashes>>

Pair == [new : Path, old : Path]
Endpoints(reports) == {r.old : r \in reports} \cup {r.new : r \in reports}
NoSnapshot == [dirty |-> <<>>, pairs |-> {}, initialized |-> FALSE]
NoWork == [pooled |-> FALSE, actions |-> <<>>]
NoPlan == [p \in Path |-> NoWork]
Contents(side) == {side[p].content : p \in Path} \ {0}

TypeOK ==
    /\ \A side \in {local, remote, rows, checkpoint} :
         \A p \in Path : side[p] = Nothing \/ side[p].path = p
    /\ \A p \in Path : local[p].id = 0
    /\ IsInjective(dirty) /\ ToSet(dirty) \subseteq Path
    /\ remarked \subseteq ToSet(dirty) /\ pairs \subseteq Pair
    /\ phase \in {"idle", "snapped", "run"}
    /\ {initialized, incomplete, touched} \subseteq BOOLEAN

(* Every address but the last is synchronised. *)
Init ==
    /\ local = [p \in Path |-> IF p = N THEN Nothing ELSE Entity(p, 0, p)]
    /\ remote = [p \in Path |-> IF p = N THEN Nothing ELSE Entity(p, p, p)]
    /\ rows = remote /\ checkpoint = remote /\ copies = {}
    /\ logged = {} /\ echoes = {}
    /\ dirty = <<>> /\ pairs = {} /\ remarked = {} /\ initialized = TRUE
    /\ phase = "idle" /\ snap = NoSnapshot /\ plan = NoPlan /\ incomplete = FALSE
    /\ touched = FALSE
    /\ wanted = 1 .. N - 1 /\ fresh = N /\ edits = 0
    /\ fails = 0 /\ crashes = 0

-----------------------------------------------------------------------------
(* The tracker.                                                             *)

Tracker == [dirty |-> dirty, pairs |-> pairs, remarked |-> remarked]

\* A set that remembers the order of its additions.
Added(seq, p) == IF p \in ToSet(seq) THEN seq ELSE Append(seq, p)
Without(seq, set) == Selected(seq, {k \in DOMAIN seq : seq[k] \notin set})

Marked(t, p) == [t EXCEPT !.dirty = Added(@, p), !.remarked = @ \cup {p}]

\* markRenamed: chains collapse (A to B, B to C), returns cancel (A to B to A).
RenamedFrom(t, new, old, origin) ==
    [Marked(Marked(Marked(t, old), origin), new) EXCEPT
       !.pairs = {q \in @ : q.new # old /\ (q.new # new \/ origin = new)}
                   \cup (IF origin = new THEN {} ELSE {[new |-> new, old |-> origin]})]

MarkRenamed(t, new, old) ==
    RenamedFrom(t, new, old,
      IF \E q \in t.pairs : q.new = old
        THEN (CHOOSE q \in t.pairs : q.new = old).old ELSE old)

SetTracker(t) ==
    /\ dirty' = t.dirty /\ pairs' = t.pairs /\ remarked' = t.remarked

-----------------------------------------------------------------------------
(* Users.                                                                   *)

Version == N + edits + 1
Moved(entity, p) == IF entity = Nothing THEN Nothing ELSE [entity EXCEPT !.path = p]
MovedOn(side, from, to) == [side EXCEPT ![to] = Moved(side[from], to), ![from] = Nothing]

Touch ==
    /\ edits < MaxEdits /\ edits' = edits + 1
    /\ touched' = (phase # "idle")
    /\ UNCHANGED <<rows, copies, checkpoint, echoes, initialized, phase, snap, plan,
                   incomplete, fails, crashes>>

LocalEdit(p) ==
    /\ Touch
    /\ local' = [local EXCEPT ![p] = Entity(p, 0, Version)]
    /\ wanted' = (wanted \ {local[p].content}) \cup {Version}
    /\ SetTracker(Marked(Tracker, p))
    /\ UNCHANGED <<remote, fresh, logged>>

LocalDelete(p) ==
    /\ local[p] # Nothing /\ Touch
    /\ local' = [local EXCEPT ![p] = Nothing]
    /\ wanted' = wanted \ {local[p].content}
    /\ SetTracker(Marked(Tracker, p))
    /\ UNCHANGED <<remote, fresh, logged>>

LocalRename(old, new) ==
    /\ local[old] # Nothing /\ local[new] = Nothing /\ old # new /\ Touch
    /\ local' = MovedOn(local, old, new)
    /\ SetTracker(MarkRenamed(Tracker, new, old))
    /\ UNCHANGED <<remote, fresh, logged, wanted>>

\* Other devices; between cycles.
RemoteEdit(p) ==
    /\ phase = "idle" /\ Touch
    /\ remote' = [remote EXCEPT ![p] =
                    Entity(p, IF @ = Nothing THEN fresh ELSE @.id, Version)]
    /\ fresh' = IF remote[p] = Nothing THEN fresh + 1 ELSE fresh
    /\ logged' = logged \cup {remote'[p].id}
    /\ wanted' = (wanted \ {remote[p].content}) \cup {Version}
    /\ UNCHANGED <<local, tracker>>

RemoteDelete(p) ==
    /\ phase = "idle" /\ remote[p] # Nothing /\ Touch
    /\ remote' = [remote EXCEPT ![p] = Nothing]
    /\ logged' = logged \cup {remote[p].id}
    /\ wanted' = wanted \ {remote[p].content}
    /\ UNCHANGED <<local, tracker, fresh>>

RemoteRename(old, new) ==
    /\ phase = "idle" /\ remote[old] # Nothing /\ remote[new] = Nothing /\ old # new
    /\ Touch
    /\ remote' = MovedOn(remote, old, new)
    /\ logged' = logged \cup {remote[old].id}
    /\ UNCHANGED <<local, tracker, fresh, wanted>>

-----------------------------------------------------------------------------
(* Collection.                                                              *)

\* The delta since the checkpoint: where the objects the log names are now,
\* and the addresses they left.
DeltaPaths ==
    {p \in Path : remote[p].id \in logged \/
                 (checkpoint[p].id \in logged /\ remote[p].id # checkpoint[p].id)}
DeltaDeleted == {p \in DeltaPaths : remote[p] = Nothing}
DeltaRenamed ==
    {[side |-> "remote", old |-> q.old, new |-> q.new, id |-> remote[q.new].id] :
       q \in {pair \in Pair :
                /\ pair.old # pair.new
                /\ remote[pair.new].id \in logged
                /\ checkpoint[pair.old].id = remote[pair.new].id}}

LocalReports ==
    {[side |-> "local", old |-> q.old, new |-> q.new, id |-> 0] : q \in snap.pairs}

\* includeCommittedBaselines: the rows of the objects that were met, wherever
\* they were committed.
Included(met) ==
    {q \in Path \ met : rows[q] # Nothing /\ \E p \in met : remote[p].id = rows[q].id}

Connected(p, paths, edges) ==
    {q \in paths : \A set \in SUBSET paths :
       (p \in set /\ \A e \in edges : e \subseteq paths /\ e \cap set # {} => e \subseteq set)
         => q \in set}

Edges(reports) == {{r.old, r.new} : r \in reports}

Dirty == ToSet(snap.dirty)
Hot == snap.initialized /\ Dirty # {}
HotPaths == Dirty \cup DeltaPaths \cup Included(Dirty \cup DeltaPaths)

\* needsWarmComponentAcquisition: something is met of which no record is.
NeedsWarm(met, reports) ==
    \E p \in met :
      \E group \in {Connected(p, Path, Edges(reports)) \cap met} :
        /\ \E q \in group : local[q] # Nothing \/ remote[q] # Nothing \/ q \in Dirty
        /\ \A q \in group : rows[q] = Nothing

WarmPaths(hot) ==
    LET met == {p \in Path : local[p].content # rows[p].content}
                 \cup DeltaPaths \cup Endpoints(LocalReports)
    IN  met \cup Included(met) \cup hot

Temperature ==
    IF Hot THEN IF NeedsWarm(HotPaths, DeltaRenamed \cup LocalReports) THEN "promoted" ELSE "hot"
    ELSE IF \A p \in Path : rows[p] = Nothing THEN "cold" ELSE "warm"

\* What a cycle of that temperature meets, and reads of it.
Met(temperature) ==
    CASE temperature = "hot" -> HotPaths
      [] temperature = "promoted" -> WarmPaths(HotPaths)
      [] temperature = "warm" -> WarmPaths({})
      [] temperature = "cold" ->
           {p \in Path : local[p] # Nothing \/ remote[p] # Nothing \/ rows[p] # Nothing}

Reports(temperature) ==
    LocalReports \cup (IF temperature = "cold" THEN {} ELSE DeltaRenamed)

Unread(temperature, reports) ==
    IF temperature = "hot"
      THEN Included(Dirty \cup DeltaPaths) \ Endpoints(reports) ELSE {}

\* The order in which paths are met: a listing's order is anything.
Orders(temperature) ==
    IF temperature = "hot"
      THEN {snap.dirty \o InOrder(DeltaPaths \ Dirty) \o InOrder(Path \ (Dirty \cup DeltaPaths))}
      ELSE SetToSeqs(Path)

Facts(paths, met, unread, reports, deleted) ==
    [local   |-> [p \in paths |-> OnlyIf(p \notin unread, local[p])],
     remote  |-> [p \in paths |-> remote[p]],
     rows    |-> [p \in paths |-> OnlyIf(p \in met, rows[p])],
     unread  |-> unread,
     deleted |-> deleted,
     reports |-> {r \in reports : r.old \in paths}]

\* buildFactComponents: renames, and objects and records of one identity, join.
SharedIdentities(observed, met) ==
    {{pq[1], pq[2]} : pq \in
       {pq \in observed \X observed :
          \E i \in {remote[pq[1]].id, rows[pq[1]].id} \ {0} :
            /\ remote[pq[1]].id = i \/ (pq[1] \in met /\ rows[pq[1]].id = i)
            /\ remote[pq[2]].id = i \/ (pq[2] \in met /\ rows[pq[2]].id = i)}}

Components(observed, met, reports) ==
    {Connected(p, observed, Edges(reports) \cup SharedIdentities(observed, met)) : p \in observed}

\* Independent transfers and matches are pooled, and run first.
Pooled(paths, actions) ==
    /\ Cardinality(paths) = 1 /\ Len(actions) = 1
    /\ actions[1].kind \in {"push", "pull", "match"}
    /\ actions[1].source.path \in {0, actions[1].path}

\* The order in which reports came: of a chain of renames in the vault the last came
\* first, or the tracker would have made them one.  A circle is never bound.
Tellings(reports) ==
    LET chained == {told \in SetToSeqs(reports) :
                      \A j, k \in DOMAIN told :
                        told[j].side = "local" /\ told[k].side = "local"
                          /\ told[j].old = told[k].new => j < k}
    IN  IF chained = {} THEN SetToSeqs(reports) ELSE chained

\* A component is handed the facts and the reports of its own paths.
FactsOf(component, met, temperature, reports) ==
    Facts(component, met, Unread(temperature, reports), reports,
          IF temperature = "cold" THEN {} ELSE DeltaDeleted)

Decisions(components, met, temperature, reports, items) ==
    {[paths |-> c,
      decision |-> DecideIdentityComponent(FactsOf(c, met, temperature, reports), items)] :
       c \in components}

FirstOf(set) == CHOOSE p \in set : \A q \in set : p <= q

Component(d) == [pooled |-> Pooled(d.paths, d.decision.actions), actions |-> d.decision.actions]

Scheduled(decisions) ==
    [p \in Path |->
       LET mine == {d \in decisions : d.decision.actions # <<>> /\ FirstOf(d.paths) = p}
       IN  IF mine = {} THEN NoWork ELSE Component(CHOOSE d \in mine : TRUE)]

Snapshot ==
    /\ phase = "idle"
    /\ phase' = "snapped"
    /\ snap' = [dirty |-> dirty, pairs |-> pairs, initialized |-> initialized]
    /\ remarked' = {} /\ touched' = FALSE
    /\ UNCHANGED <<disk, rows, checkpoint, logged, dirty, pairs, initialized, plan,
                   incomplete, wanted, edits, fails, crashes>>

AdmitRegardless(decisions) == plan' = Scheduled(decisions) /\ UNCHANGED incomplete
Admit(decisions) ==
    /\ plan' = Scheduled(decisions)
    /\ incomplete' = \E d \in decisions : d.decision.failed

\* collectChanges and admission.
Collect ==
    /\ phase = "snapped"
    /\ \E temperature \in {Temperature} :
         \E met \in {Met(temperature)}, reports \in {Reports(temperature)},
            order \in Orders(temperature) :
           \E told \in Tellings(reports) :
             \E decisions \in {Decisions(Components(met \cup Endpoints(reports), met, reports),
                                         met, temperature, reports, Stages(order, told))} :
               Admit(decisions)
    /\ phase' = "run"
    /\ UNCHANGED <<disk, rows, checkpoint, logged, tracker, initialized, snap, touched,
                   wanted, edits, fails, crashes>>

-----------------------------------------------------------------------------
(* Execution.                                                               *)

World == [local |-> local, remote |-> remote, copies |-> copies, fresh |-> fresh,
          echoes |-> echoes, tracker |-> Tracker]

WriteLocal(p, c) == [do |-> "write local", at |-> p, from |-> 0, content |-> c]
WriteRemote(p, c) == [do |-> "write remote", at |-> p, from |-> 0, content |-> c]
MoveLocal(from, p) == [do |-> "move local", at |-> p, from |-> from, content |-> 0]
MoveRemote(from, p) == [do |-> "move remote", at |-> p, from |-> from, content |-> 0]
DeleteLocal(p) == [do |-> "delete local", at |-> p, from |-> 0, content |-> 0]
DeleteRemote(p) == [do |-> "delete remote", at |-> p, from |-> 0, content |-> 0]
Keep(c) == [do |-> "keep", at |-> 0, from |-> 0, content |-> c]

\* One effect; what the engine does to the vault raises events like any change.
Apply(w, op) ==
    LET p == op.at
    IN  CASE op.do = "write local" ->
               [w EXCEPT !.local[p] = Entity(p, 0, op.content), !.tracker = Marked(@, p)]
          [] op.do = "delete local" ->
               [w EXCEPT !.local[p] = Nothing, !.tracker = Marked(@, p)]
          [] op.do = "move local" ->
               [w EXCEPT !.local = MovedOn(@, op.from, p), !.tracker = MarkRenamed(@, p, op.from)]
          [] op.do = "write remote" ->
               [w EXCEPT !.remote[p] = Entity(p, IF @ = Nothing THEN w.fresh ELSE @.id, op.content),
                         !.fresh = IF w.remote[p] = Nothing THEN @ + 1 ELSE @,
                         !.echoes = @ \cup {IF w.remote[p] = Nothing THEN w.fresh
                                            ELSE w.remote[p].id}]
          [] op.do = "delete remote" ->
               [w EXCEPT !.remote[p] = Nothing, !.echoes = @ \cup {w.remote[p].id}]
          [] op.do = "move remote" ->
               [w EXCEPT !.remote = MovedOn(@, op.from, p),
                         !.echoes = @ \cup {w.remote[op.from].id}]
          [] op.do = "keep" -> [w EXCEPT !.copies = @ \cup {op.content}]
          [] op.do = "idle" -> w

\* The worlds that effects lead through, one after the other.
Worlds(w, ops) ==
    LET after[k \in 0 .. Len(ops)] == IF k = 0 THEN w ELSE Apply(after[k - 1], ops[k])
    IN  after

Rotates(a) == a.tracked # Nothing /\ a.tracked.path # a.path
Compound(a) ==
    \/ Rotates(a) \/ a.otherRemote # Nothing \/ a.otherLocal # Nothing
    \/ a.local.path \notin {0, a.path} \/ a.remote.path \notin {0, a.path}

Idle == [do |-> "idle", at |-> 0, from |-> 0, content |-> 0]
When(condition, op) == IF condition THEN op ELSE Idle

\* A conflict keeps what it cannot leave at the address: the remote version, what
\* else claims the address, and what a move would cover.
Copies(a) == a.remote # Nothing /\ (a.local # Nothing \/ Compound(a))

\* Mutant: only the version of the tracked object is kept.
ResolutionKeepingRemote(a, target) ==
    <<When(Copies(a), Keep(a.remote.content)),
      When(Rotates(a) /\ a.otherRemote # Nothing, DeleteRemote(a.path)),
      When(Rotates(a), MoveRemote(a.tracked.path, a.path)),
      When(a.local # Nothing /\ a.local.path # a.path, MoveLocal(a.local.path, a.path)),
      WriteLocal(a.path, target), WriteRemote(a.path, target)>>

\* The copies come first; then the tracked object and the file are brought to
\* the address, and both take the vault's version.
Resolution(a, target) ==
    <<When(Copies(a), Keep(a.remote.content)),
      When(Copies(a) /\ a.otherRemote # Nothing, Keep(a.otherRemote.content)),
      When(Copies(a) /\ a.otherLocal # Nothing, Keep(a.otherLocal.content)),
      When(Rotates(a) /\ a.otherRemote # Nothing, DeleteRemote(a.path)),
      When(Rotates(a), MoveRemote(a.tracked.path, a.path)),
      When(a.local # Nothing /\ a.local.path # a.path, MoveLocal(a.local.path, a.path)),
      WriteLocal(a.path, target), WriteRemote(a.path, target)>>

\* A rename, and the transfer of what was edited besides.
RenameEffects(a) ==
    <<IF a.kind = "rename_local" THEN MoveLocal(a.from, a.path) ELSE MoveRemote(a.from, a.path),
      CASE a.copy = "push" -> WriteRemote(a.path, a.local.content)
        [] a.copy = "pull" -> WriteLocal(a.path, a.remote.content)
        [] OTHER -> Idle>>

Effects(a) ==
    CASE a.kind = "push" -> <<WriteRemote(a.path, a.local.content)>>
      [] a.kind = "pull" -> <<WriteLocal(a.path, a.remote.content)>>
      [] a.kind = "delete_local" ->
           <<DeleteLocal(IF a.local # Nothing THEN a.local.path ELSE a.at)>>
      [] a.kind = "delete_remote" ->
           <<DeleteRemote(IF a.remote # Nothing THEN a.remote.path ELSE a.at)>>
      [] a.kind \in {"rename_local", "rename_remote"} -> RenameEffects(a)
      [] a.kind = "conflict" -> Resolution(a, Or(a.local, a.remote).content)
      [] OTHER -> <<>>

Unchanged(side, expected, at) ==
    IF expected # Nothing THEN side[expected.path] = expected ELSE side[at] = Nothing

\* checkPublicationInputs.
InputsHold(a) ==
    /\ rows[a.path] = a.destination
    /\ a.source.path \notin {0, a.path} => rows[a.source.path] = a.source
    /\ Unchanged(local, a.local, a.at) /\ Unchanged(remote, a.remote, a.at)

\* What an action checks of the places it is about to write.
RoomFor(a) ==
    CASE a.kind = "rename_local" -> local[a.path] = Nothing
      [] a.kind = "rename_remote" -> remote[a.path] = Nothing
      [] a.kind = "conflict" ->
           /\ Rotates(a) => a.tracked = a.remote
           /\ a.local.path \notin {0, a.path} => local[a.path] = Nothing
           /\ a.otherLocal # Nothing => local[a.otherLocal.path] = a.otherLocal
           /\ IF a.otherRemote # Nothing THEN remote[a.path] = a.otherRemote
              ELSE (Rotates(a) \/ a.remote = Nothing) => remote[a.path] = Nothing
      [] OTHER -> TRUE

\* proveAdmittedTerminal: where the action ends, both sides hold one version,
\* in the object the action was about.
Proved(a, w) ==
    a.kind \in {"cleanup", "delete_local", "delete_remote"} \/
      LET settles == a.kind \in {"rename_local", "rename_remote", "conflict"}
          here == w.local[IF settles \/ a.local = Nothing THEN a.path ELSE a.local.path]
          there == w.remote[a.path]
          id == Or(a.tracked, a.remote).id
      IN  /\ here # Nothing /\ there # Nothing
          /\ id # 0 => there.id = id
          /\ here.content = there.content

RowWith(i) == OfIdentity(rows, i)

\* compareAndPut and compareAndDelete of the store.
StoreAccepts(a, id) ==
    IF a.kind \in {"cleanup", "delete_local", "delete_remote"} THEN rows[a.path] = a.destination
    ELSE /\ IF a.source # Nothing /\ a.source.id # id
              THEN RowWith(id) = Nothing /\ RowWith(a.source.id) = a.source
              ELSE RowWith(id) = a.source
         /\ rows[a.path] = a.destination

PublishKeepingSource(a, entity) ==
    [rows EXCEPT ![a.path] =
       IF a.kind \in {"cleanup", "delete_local", "delete_remote"} THEN Nothing ELSE entity]
Publish(a, entity) ==
    [p \in Path |->
       IF p = a.path
         THEN IF a.kind \in {"cleanup", "delete_local", "delete_remote"} THEN Nothing ELSE entity
       ELSE IF p = a.source.path THEN Nothing ELSE rows[p]]

SetWorld(w) ==
    /\ local' = w.local /\ remote' = w.remote /\ copies' = w.copies
    /\ fresh' = w.fresh /\ echoes' = w.echoes
    /\ SetTracker(w.tracker)

\* Pooled components go first; otherwise in the order of their addresses.
Turn(p) ==
    /\ plan[p].actions # <<>>
    /\ \A q \in Path : plan[q].actions # <<>> =>
         IF plan[p].pooled = plan[q].pooled THEN p <= q ELSE plan[p].pooled

NextAction(p) == Head(plan[p].actions)
DropComponent(p) == plan' = [plan EXCEPT ![p] = NoWork]
AfterHead(work) == [work EXCEPT !.actions = Tail(@)]
DropAction(p) ==
    plan' = [plan EXCEPT ![p] = IF Len(@.actions) = 1 THEN NoWork ELSE AfterHead(@)]
Observes(p) == plan[p].pooled /\ NextAction(p).kind = "match"

\* An independent match publishes what was admitted and looks at nothing again.
Executable(a, observed) == observed \/ (InputsHold(a) /\ RoomFor(a))

Finish(p, a, w, observed) ==
    LET entity == IF observed THEN a.remote ELSE w.remote[a.path]
    IN  IF (observed \/ Proved(a, w)) /\ StoreAccepts(a, entity.id)
          THEN /\ rows' = Publish(a, entity)
               /\ DropAction(p) /\ UNCHANGED incomplete
          ELSE /\ DropComponent(p) /\ incomplete' = TRUE
               /\ UNCHANGED rows

Execute(p) ==
    /\ phase = "run" /\ Turn(p)
    /\ \E a \in {NextAction(p)} :
         /\ Executable(a, Observes(p))
         /\ \E ops \in {Effects(a)} : \E w \in {Worlds(World, ops)[Len(ops)]} :
              SetWorld(w) /\ Finish(p, a, w, Observes(p))
    /\ UNCHANGED <<checkpoint, logged, initialized, phase, snap, touched, wanted, edits,
                   fails, crashes>>

Block(p) ==
    /\ phase = "run" /\ Turn(p)
    /\ ~ Executable(NextAction(p), Observes(p))
    /\ DropComponent(p) /\ incomplete' = TRUE
    /\ UNCHANGED <<disk, rows, checkpoint, logged, tracker, initialized, phase, snap,
                   touched, wanted, edits, fails, crashes>>

\* A call of an action fails after some of its effects; nothing is published.
Fail(p) ==
    /\ phase = "run" /\ Turn(p) /\ fails < MaxFails /\ fails' = fails + 1
    /\ Executable(NextAction(p), Observes(p))
    /\ \E ops \in {Effects(NextAction(p))} :
         \E k \in 0 .. Len(ops) : SetWorld(Worlds(World, ops)[k])
    /\ DropComponent(p) /\ incomplete' = TRUE
    /\ UNCHANGED <<rows, checkpoint, logged, initialized, phase, snap, touched,
                   wanted, edits, crashes>>

-----------------------------------------------------------------------------
(* Closeout.                                                                *)

Settled(q) == {q.new, q.old} \cap remarked = {}

AcknowledgeWholeSnapshot ==
    /\ dirty' = Without(dirty, Dirty)
    /\ pairs' = pairs \ snap.pairs
    /\ initialized' = TRUE
Acknowledge ==
    /\ dirty' = Without(dirty, Dirty \ remarked)
    /\ pairs' = pairs \ {q \in snap.pairs : Settled(q)}
    /\ initialized' = TRUE

AcknowledgeRelations ==
    /\ pairs' = pairs \ {q \in snap.pairs : Settled(q)}
    /\ UNCHANGED <<dirty, initialized>>

Close ==
    /\ phase = "run" /\ plan = NoPlan
    /\ IF incomplete
         THEN AcknowledgeRelations /\ UNCHANGED checkpoint /\ logged' = logged \cup echoes
         ELSE Acknowledge /\ checkpoint' = remote /\ logged' = echoes
    /\ echoes' = {}
    /\ phase' = "idle" /\ snap' = NoSnapshot /\ incomplete' = FALSE
    /\ remarked' = {} /\ touched' = FALSE
    /\ UNCHANGED <<local, remote, copies, fresh, rows, plan, wanted, edits, fails, crashes>>

\* The process ends: the tracker and the cycle go with it.
Crash ==
    /\ crashes < MaxCrashes /\ crashes' = crashes + 1
    /\ dirty' = <<>> /\ pairs' = {} /\ remarked' = {} /\ initialized' = FALSE
    /\ phase' = "idle" /\ snap' = NoSnapshot /\ plan' = NoPlan /\ incomplete' = FALSE
    /\ touched' = FALSE /\ logged' = logged \cup echoes /\ echoes' = {}
    /\ UNCHANGED <<local, remote, copies, fresh, rows, checkpoint, wanted, edits, fails>>

Next ==
    \/ \E p \in Path : LocalEdit(p)
    \/ \E p \in Path : LocalDelete(p)
    \/ \E p, q \in Path : LocalRename(p, q)
    \/ \E p \in Path : RemoteEdit(p)
    \/ \E p \in Path : RemoteDelete(p)
    \/ \E p, q \in Path : RemoteRename(p, q)
    \/ \E p \in Path : Execute(p) \/ Block(p) \/ Fail(p)
    \/ Snapshot \/ Collect \/ Close \/ Crash

\* A cycle that began goes on, and another follows: nothing in the engine waits
\* for anything between these points, and a plan is finite.
Moves(from, to) == phase = from /\ phase' = to

Fairness ==
    /\ WF_phase(Moves("idle", "snapped"))
    /\ WF_phase(Moves("snapped", "run"))
    /\ WF_phase(Moves("run", "idle"))

Spec == Init /\ [][Next]_vars
FairSpec == Spec /\ Fairness

-----------------------------------------------------------------------------
(* Properties.                                                              *)

\* No version a user still wants disappears from both sides: whatever was
\* renamed, replaced or edited on either, it is in the vault, on the remote or
\* under a conflict name.
NothingLost == wanted \subseteq Contents(local) \cup Contents(remote) \cup copies

Recorded(c) == \E p \in Path : rows[p].content = c

\* Whatever the engine does to a side, in whatever state it finds it and wherever
\* a call fails, it takes no version from that side but one a record states, or
\* one it has kept under a conflict name before.
EngineKeepsUnsynced ==
    [][edits' = edits =>
         /\ \A c \in Contents(local) \ Contents(local)' : Recorded(c) \/ c \in copies'
         /\ \A c \in Contents(remote) \ Contents(remote)' : Recorded(c) \/ c \in copies']_vars

\* The object of a record was deleted while the checkpoint did not have it at
\* that address (a publication survived a cycle that did not end clean): the log
\* names another address, or none, and the record is not met.
WentUnnoticed(p) ==
    /\ rows[p] # Nothing /\ checkpoint[p].id # rows[p].id
    /\ \A q \in Path : remote[q].id # rows[p].id

Agree ==
    \A p \in Path :
      \/ local[p].content = remote[p].content /\ (remote[p] # Nothing => rows[p] = remote[p])
      \/ WentUnnoticed(p)

\* A cycle that ends clean with nothing changed under it leaves both sides and
\* the records alike.
CleanMeansSynced ==
    [][Close /\ ~ incomplete /\ ~ touched => Agree]_vars

\* Between cycles, what differs from its record, or has none, is met by the next
\* cycle however narrow that cycle is: a file because its address is dirty, or in
\* the delta, or every file is about to be compared; an object because its
\* address is in the delta, or dirty.
Pending(p) == p \in ToSet(dirty) \cup DeltaPaths

DifferencesStayVisible ==
    phase = "idle" =>
      \A p \in Path :
        /\ local[p] # Nothing /\ local[p].content # rows[p].content
             => ~ initialized \/ Pending(p)
        /\ remote[p] # Nothing /\ remote[p] # rows[p] => Pending(p)

\* An object took the address that another one, still there, left.
Shifted ==
    \E p, q, r \in Path :
      /\ p # q /\ r # p /\ rows[p] # Nothing /\ rows[q] # Nothing
      /\ remote[p].id = rows[q].id /\ remote[r].id = rows[p].id

\* Once the users and the failures stop, the engine runs out of work: no cycle
\* after some point has anything to execute (whether it agreed or refuses).
Quiesces == <>[](plan = NoPlan)

\* The same, unless objects stay exchanged.
QuiescesUnlessShifted == <>[](~ Shifted) => Quiesces
=============================================================================

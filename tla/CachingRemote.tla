---------------------------- MODULE CachingRemote ----------------------------
(***************************************************************************)
(* The remote filesystem of one device (fs/caching/remote-fs.ts,           *)
(* fs/managed/managed-remote-fs.ts) against a provider that addresses by   *)
(* parent and identity, as Google Drive does: any number of objects may    *)
(* carry one name, the log of changes names the changed object only, and   *)
(* nothing is atomic across requests.  The device keeps a working view in  *)
(* memory (cache and cursor) and a durable checkpoint of it.  A cycle      *)
(* acquires the view, completes it, repairs contended addresses on the     *)
(* provider, hands out a delta, mutates, and commits or discards.  Steps   *)
(* of other devices fall between any two requests.                         *)
(***************************************************************************)
EXTENDS RemoteDelta

CONSTANTS
  Names,          \* what other devices call objects; a name is a sequence
  Elsewhere,      \* a provider folder outside the bound root
  InitialDrives,  \* provider states to start from: [object, trash]
  Excluded,       \* addresses outside the user's sync scope
  MaxEdits,       \* changes made by other devices
  MaxMutations,   \* changes made by this device, repairs apart
  MaxFaults,      \* crashes, failed requests, expired cursors
  MaxEvents,      \* all of these together
  Expires,        \* whether the provider forgets cursors
  Inverts         \* whether folders may trade places between two looks

ASSUME DriveAssumption ==
  /\ Elsewhere \notin Id /\ Elsewhere # Root
  /\ {MaxEdits, MaxMutations, MaxFaults, MaxEvents} \subseteq Nat
  /\ Expires \in BOOLEAN /\ Inverts \in BOOLEAN

VARIABLES
  object,     \* provider: what it says of each identity; the version of an
              \* object is the position of its last change in the log
  trash,      \* provider: identities in the trash, or not created yet
  clock,      \* provider: length of the log
  cache,      \* working view
  cursor,     \* working view: position it replays from, -1 when none
  live,       \* whether the working view is initialized
  contended,  \* the contentions the working view was built with
  durable,    \* the committed checkpoint: at most one [cache, cursor]
  phase,      \* what the cycle does next
  task,       \* what the cycle carries from one request to the next
  delta,      \* what the sync engine was told: {} or one RemoteDelta
  edits, mutations, faults

provider == <<object, trash, clock>>
view     == <<cache, cursor, live, contended>>
budget   == <<edits, mutations, faults>>
vars     == <<provider, view, durable, phase, task, delta, budget>>

NoView == [i \in {} |-> 0]
NoTask == [baseline |-> NoView, observed |-> {}, fallback |-> FALSE, old |-> NoView,
           targets |-> {}, changed |-> {}, renamed |-> {}, token |-> 0,
           repairs |-> {}, hidden |-> {}]

-----------------------------------------------------------------------------
(* The provider.                                                            *)

Below(parents) ==
  Closure(LAMBDA S : {i \in Id \ trash : object[i].parent \in S \cup parents}, {})

Live == Below({Root})

\* In the trash, or in a folder that is: the provider marks both.
Trashed == Closure(LAMBDA S : {i \in Id : object[i].parent \in S}, trash)

\* What a full scan of the provider, undisturbed, would build.
Cold == BuildFromFiles(Restrict(object, Live))

Changed(o) == [o EXCEPT !.version = clock + 1]

\* The log since a cursor: every identity once, as it is now, in log order.
Since(from) ==
  LET ids == SetToSortSeq({i \in Id : object[i].version > from},
                          LAMBDA i, j : object[i].version < object[j].version)
  IN  [k \in DOMAIN ids |->
         Entry(ids[k], IF ids[k] \in Trashed THEN {} ELSE {object[ids[k]]})]

\* The walk of one folder, parents before children.
SubtreeEntries(folder) ==
  LET ids == Below({folder})
      order == SetToSortSeq(ids, LAMBDA i, j :
                 \/ j \in Below({i}) \/ (i \notin Below({j}) /\ i < j))
  IN  [k \in DOMAIN order |-> Entry(order[k], {object[order[k]]})]

Room == edits + mutations + faults < MaxEvents

Edit(i, o) ==
  /\ edits < MaxEdits /\ Room /\ edits' = edits + 1
  /\ object' = [object EXCEPT ![i] = Changed(o)] /\ clock' = clock + 1
  /\ UNCHANGED <<view, durable, phase, task, delta, mutations, faults>>

EditContent(i) == i \in Live \ Folders /\ Edit(i, object[i]) /\ UNCHANGED trash

EditName(i) ==
  /\ i \in Live
  /\ \E name \in Names \ {object[i].name} : Edit(i, [object[i] EXCEPT !.name = name])
  /\ UNCHANGED trash

\* A view the device still relies on has the folder below what moves into it.
SeenBelow(folder, i) ==
  \E c \in {cache, task.baseline, BuildFromFiles(task.old).cache} \cup {k.cache : k \in durable} :
     {folder, i} \subseteq DOMAIN c /\ IsPrefix(c[i].path, c[folder].path)

EditParent(i) ==
  /\ i \notin Trashed
  /\ \E parent \in ({Root, Elsewhere} \cup (Folders \ Trashed))
                     \ ({i, object[i].parent} \cup Below({i})) :
       /\ Inverts \/ ~ SeenBelow(parent, i)
       /\ Edit(i, [object[i] EXCEPT !.parent = parent])
  /\ UNCHANGED trash

EditTrash(i) == i \in Live /\ Edit(i, object[i]) /\ trash' = trash \cup {i}

\* Creation, and return from the trash with all that went there along with it.
EditRestore(i) == i \in trash /\ Edit(i, object[i]) /\ trash' = trash \ {i}

OtherDevices == \E i \in Id : EditContent(i) \/ EditName(i) \/ EditParent(i)
                                \/ EditTrash(i) \/ EditRestore(i)

-----------------------------------------------------------------------------
(* Acquiring the view.                                                      *)

Fault == faults < MaxFaults /\ Room /\ faults' = faults + 1
NoFault == UNCHANGED faults

\* A request of the cycle changes nothing on the provider.
Reads == UNCHANGED <<provider, durable, edits, mutations>>

NoMemory == /\ cache' = NoView /\ cursor' = -1 /\ live' = FALSE /\ contended' = {}

\* A view committed by the last cycle is still in memory; it is replayed.
Resume ==
  /\ phase = "idle" /\ live
  /\ phase' = "drain" /\ task' = NoTask /\ delta' = {}
  /\ NoFault /\ Reads /\ UNCHANGED view

Restore ==
  /\ phase = "idle" /\ ~ live
  /\ \E c \in durable : cache' = c.cache /\ cursor' = c.cursor
  /\ live' = TRUE /\ contended' = {}
  /\ phase' = "drain" /\ task' = NoTask /\ delta' = {}
  /\ NoFault /\ Reads

\* The cursor is captured before anything is listed.
ScanCursor == clock

BeginScan(baseline, observed, fallback) ==
  /\ cache' = NoView /\ cursor' = ScanCursor
  /\ phase' = "list"
  /\ task' = [NoTask EXCEPT !.baseline = baseline, !.observed = observed,
                            !.fallback = fallback, !.old = Restrict(object, Live)]

\* No checkpoint, or one that cannot be read.
Scan ==
  /\ phase = "idle" /\ ~ live
  /\ IF durable = {} THEN NoFault ELSE Fault
  /\ BeginScan(NoView, {}, FALSE)
  /\ contended' = {} /\ delta' = {}
  /\ Reads /\ UNCHANGED live

\* A listing is not a point in time: an object that changed since the scan began
\* is listed as it was, as it is, or missed.  What did not change is listed
\* wherever its parent is.
Listings ==
  LET Seen(i) == {object[i] : k \in {i} \ trash} \cup {task.old[k] : k \in {i} \cap DOMAIN task.old}
      Parents(S) == S \cup {Root}
      Stable == {i \in Id \ trash : object[i].version <= cursor}
      Options(S) == {l \in [S -> UNION {Seen(i) : i \in S}] : \A i \in S : l[i] \in Seen(i)}
      Rooted(l) == \* every chain of listed parents ends at the root
        Closure(LAMBDA S : {i \in DOMAIN l : l[i].parent \in Parents(S)}, {}) = DOMAIN l
      Complete(l) ==
        \A i \in Stable : object[i].parent \in Parents(DOMAIN l) =>
                            i \in DOMAIN l /\ l[i] = object[i]
  IN  {l \in UNION {Options(S) : S \in SUBSET {i \in Id : Seen(i) # {}}} :
         Rooted(l) /\ Complete(l)}

\* buildFromFiles; on the way out of an expired cursor, compared with the view
\* from before it.
List ==
  /\ phase = "list" /\ NoFault
  /\ \E built \in {BuildFromFiles(listing) : listing \in Listings} :
       /\ cache' = built.cache
       /\ contended' = built.losses
       /\ delta' = IF ~ task.fallback THEN {}
                   ELSE {[DiffById(task.baseline, built.cache, built.losses)
                            EXCEPT !.modified = @ \cup
                              (task.observed \cap AllPaths(built.cache))]}
  /\ live' = TRUE
  /\ phase' = "group" /\ task' = [NoTask EXCEPT !.fallback = task.fallback]
  /\ Reads /\ UNCHANGED cursor

Expired ==
  /\ phase = "drain" /\ Expires /\ Fault
  /\ BeginScan(cache, {}, TRUE)
  /\ Reads /\ UNCHANGED <<live, contended, delta>>

\* One drain of the log; the cursor moves once the delta is complete.
FinishDrain(working, changed, renamed, facts, token) ==
  /\ cursor' = token
  /\ contended' = facts
  /\ delta' = {ClassifyChanges(working, changed, renamed, facts)}
  /\ phase' = "group" /\ task' = NoTask

FetchChanges ==
  /\ phase = "drain" /\ NoFault
  /\ \E d \in {ApplyRemoteChanges(cache, Since(cursor))} :
     \E targets \in {RelistTargets(d.cache, d.entered)} :
       /\ cache' = d.cache
       /\ \/ targets = {} /\ FinishDrain(d.cache, d.changed, d.renamed, Contended(d), clock)
          \/ /\ targets # {}
             /\ phase' = "complete"
             /\ contended' = Contended(d)
             /\ task' = [NoTask EXCEPT !.targets = targets, !.changed = d.changed,
                                       !.renamed = d.renamed, !.token = clock,
                                       !.baseline = cache]
             /\ UNCHANGED <<cursor, delta>>
  /\ Reads /\ UNCHANGED live

\* completeDelta, one folder that entered the root.
ReadSubtree(i) ==
  /\ phase = "complete" /\ i \in task.targets /\ NoFault
  /\ \E d \in {ApplyRemoteChanges(cache, SubtreeEntries(i))} :
       /\ cache' = d.cache
       /\ \/ /\ task.targets = {i}
             /\ FinishDrain(d.cache, task.changed \cup d.changed, task.renamed \cup d.renamed,
                            contended \cup Contended(d), task.token)
          \/ /\ task.targets # {i}
             /\ contended' = contended \cup Contended(d)
             /\ task' = [task EXCEPT !.targets = @ \ {i}, !.changed = @ \cup d.changed,
                                     !.renamed = @ \cup d.renamed]
             /\ UNCHANGED <<cursor, delta, phase>>
  /\ Reads /\ UNCHANGED live

\* A completion read finds the cursor invalid: scan, but compare with the view
\* from before the drain, and keep what the drain observed.
ExpiredInCompletion ==
  /\ phase = "complete" /\ Expires /\ Fault
  /\ BeginScan(task.baseline, task.changed, TRUE)
  /\ Reads /\ UNCHANGED <<live, contended, delta>>

-----------------------------------------------------------------------------
(* Namespace reconciliation.                                                *)

\* Addresses in scope of which every claimant may be renamed, each with the
\* smallest losing identity as the one to settle in this cycle.
Repairable(facts) ==
  {[path |-> p, loser |-> Min({l.withheldId : l \in {m \in facts : m.path = p}})] :
     p \in {q \in {l.path : l \in facts} \ Excluded :
              \A l \in facts : l.path = q => l.owes}}

Group ==
  /\ phase = "group" /\ NoFault
  /\ contended' = {}
  /\ \E repairs \in {{[path |-> r.path, loser |-> r.loser,
                        admitted |-> The({l.admittedId : l \in
                          {m \in contended : m.path = r.path /\ m.withheldId = r.loser}})] :
                         r \in Repairable(contended)}} :
       /\ phase' = IF repairs = {} THEN "planned" ELSE "repair"
       /\ task' = [NoTask EXCEPT !.repairs = repairs, !.fallback = task.fallback,
                                 !.hidden = {l.withheldId : l \in contended}]
  /\ Reads /\ UNCHANGED <<cache, cursor, live, delta>>

ConflictName(name, id) == Append(name, id)

\* The cache's own update after a rename by identity: skipped where the target
\* is taken.
SeatRenamed(path, id, moved) ==
  LET target == Append(Front(path), moved.name)
  IN  IF At(cache, target) # {} THEN cache ELSE ApplyFileChange(cache, id, moved).cache

AddressedAt(i, path) == i \notin trash /\ ResolvePath(cache, object[i]) = {path}

\* The view is discarded after the repairs, whether they succeeded or not.
Repaired(r) ==
  /\ task' = [task EXCEPT !.repairs = @ \ {r}]
  /\ phase' = IF task.repairs = {r} THEN "abort" ELSE "repair"

\* Only the last segment changes; the object keeps its provider parent.
PreservingParent(i, name) == [object[i] EXCEPT !.name = name]

\* One identity keeps the plain name - the one with a sync record, else the one
\* that holds the address - and the other is renamed, if it is still there.
Rename(r, i) ==
  /\ AddressedAt(i, r.path)
  /\ LET moved == PreservingParent(i, ConflictName(Last(r.path), i))
     IN  /\ object' = [object EXCEPT ![i] = Changed(moved)]
         /\ cache' = SeatRenamed(r.path, i, Changed(moved))
  /\ clock' = clock + 1 /\ UNCHANGED trash

\* Either claimant may have the sync record, and so keep the plain name.
Yielding(r) == {r.loser, r.admitted}

\* The rename succeeds; or it fails because the object is not there any more, or
\* the request does.  An answer that is lost is one that came: the view is
\* discarded either way.
Repair(r) ==
  /\ phase = "repair" /\ r \in task.repairs /\ Repaired(r)
  /\ \E i \in Yielding(r) :
       \/ Rename(r, i) /\ NoFault
       \/ ~ AddressedAt(i, r.path) /\ NoFault /\ UNCHANGED <<provider, cache>>
       \/ Fault /\ UNCHANGED <<provider, cache>>
  /\ UNCHANGED <<cursor, live, contended, durable, delta, edits, mutations>>

-----------------------------------------------------------------------------
(* The cycle's own mutations, and its end.                                  *)

Mutating == /\ phase = "planned" /\ mutations < MaxMutations /\ Room
            /\ mutations' = mutations + 1
            /\ NoFault
            /\ UNCHANGED <<cursor, live, contended, durable, delta, edits, task>>

\* The provider still has the version the view expects.  The adapter compares
\* before it mutates; a mismatch fails the cycle.
Unchanged(i) == i \notin Trashed /\ object[i] = cache[i].object

Refused(ids) ==
  /\ \E i \in ids : ~ Unchanged(i)
  /\ phase' = "abort"
  /\ UNCHANGED <<provider, cache>>

\* applyWrite: the object the provider answered with is seated.
Written(i, written) == ApplyFileChange(cache, i, written).cache

WriteFile(i) ==
  /\ Mutating /\ i \in DOMAIN cache \ Folders
  /\ \/ Refused({i})
     \/ /\ Unchanged(i)
        /\ object' = [object EXCEPT ![i] = Changed(@)]
        /\ cache' = Written(i, Changed(object[i]))
        /\ clock' = clock + 1 /\ UNCHANGED <<trash, phase>>

\* A new object at a free path below a cached folder; the provider accepts it
\* whether or not the name is taken there.
CreateFile(i) ==
  /\ Mutating /\ i \in trash \ Folders /\ object[i].version = 0
  /\ \E parent \in {Root} \cup ((DOMAIN cache \cap Folders) \ Trashed), name \in Names :
       LET created == Changed([parent |-> parent, name |-> name, version |-> 0])
       IN  /\ At(cache, The(ResolvePath(cache, created))) = {}
           /\ object' = [object EXCEPT ![i] = created]
           /\ cache' = Written(i, created)
  /\ trash' = trash \ {i} /\ clock' = clock + 1 /\ UNCHANGED phase

\* A vault folder is every provider folder at its path: the merged ones are
\* deleted first, the representative last, and only then the view is updated.
\* A refusal leaves those before it deleted.
DeletePath(path) ==
  LET ids == At(cache, path)
      Gone(i) == i \in Trashed \/ Unchanged(i)
      Done(i) == \A j \in ids : j >= i => Gone(j)
      hit == {i \in Id \ trash : i \in ids /\ Done(i)}
  IN  /\ Mutating /\ ids # {}
      /\ trash' = trash \cup hit
      /\ object' = [i \in Id |-> IF i \in hit
                      THEN [object[i] EXCEPT !.version =
                              clock + Cardinality({j \in hit : j >= i})]
                      ELSE object[i]]
      /\ clock' = clock + Cardinality(hit)
      /\ IF \A i \in ids : Gone(i)
           THEN cache' = Detach(cache, Tree(cache, path)) /\ UNCHANGED phase
           ELSE phase' = "abort" /\ UNCHANGED cache

\* What lies below a renamed folder is spelled anew.
Respelled(entry, from, to) ==
  IF IsPrefix(from, entry.path)
    THEN [entry EXCEPT !.path = to \o SubSeq(@, Len(from) + 1, Len(@))]
    ELSE entry

\* applyRename: the old entry goes, the moved object is seated, its contents
\* follow.
Renamed(i, target, moved) ==
  [j \in DOMAIN cache |->
     IF j = i THEN [path |-> target, object |-> moved, authority |-> "actual_resolved"]
              ELSE Respelled(cache[j], cache[i].path, target)]

RenamePath(i) ==
  /\ Mutating /\ i \in DOMAIN cache /\ ~ Shared(cache, cache[i].path)
  /\ \/ Refused({i})
     \/ /\ Unchanged(i)
        /\ \E name \in Names :
             LET target == Append(Front(cache[i].path), name)
                 moved  == Changed(PreservingParent(i, name))
             IN  /\ At(cache, target) = {}
                 /\ object' = [object EXCEPT ![i] = moved]
                 /\ cache' = Renamed(i, target, moved)
        /\ clock' = clock + 1 /\ UNCHANGED <<trash, phase>>

\* saveAll: cache and cursor in one transaction.
Checkpointed == {[cache |-> cache, cursor |-> cursor]}

\* Mutant: a cycle that failed half way saves what it has.
CommitAnyway ==
  /\ phase \in {"planned", "abort"} /\ NoFault
  /\ durable' = Checkpointed
  /\ phase' = "idle" /\ task' = NoTask /\ delta' = {}
  /\ UNCHANGED <<provider, view, edits, mutations>>

Commit ==
  /\ phase = "planned" /\ NoFault
  /\ durable' = Checkpointed
  /\ phase' = "idle" /\ task' = NoTask /\ delta' = {}
  /\ UNCHANGED <<provider, view, edits, mutations>>

\* Something of the cycle failed: the view is discarded, the checkpoint stays.
\* A scan of an expired cursor may leave an initialized view half built.
Fail ==
  /\ phase \in {"list", "drain", "complete", "planned"} /\ Fault
  /\ phase' = "abort" /\ task' = NoTask /\ delta' = {}
  /\ Reads /\ UNCHANGED view

\* Mutant: the view a failed cycle was working on stays in memory.
AbortKeepingView ==
  /\ phase = "abort" /\ NoFault
  /\ phase' = "idle" /\ task' = NoTask /\ delta' = {}
  /\ Reads /\ UNCHANGED view

Abort ==
  /\ phase = "abort" /\ NoFault
  /\ NoMemory
  /\ phase' = "idle" /\ task' = NoTask /\ delta' = {}
  /\ Reads

\* The application is killed; only the store survives.
Crash ==
  /\ Fault /\ (live \/ phase # "idle")
  /\ NoMemory
  /\ phase' = "idle" /\ task' = NoTask /\ delta' = {}
  /\ Reads

\* Rescan.
Reset ==
  /\ phase = "idle" /\ durable # {} /\ Fault
  /\ durable' = {}
  /\ NoMemory /\ task' = NoTask
  /\ UNCHANGED <<provider, phase, delta, edits, mutations>>

Cycle ==
  \/ Resume \/ Restore \/ Scan \/ List \/ FetchChanges
  \/ \E i \in Folders : ReadSubtree(i)
  \/ Group \/ \E r \in task.repairs : Repair(r)
  \/ Commit \/ Abort

Mutations ==
  \/ \E i \in Id : WriteFile(i) \/ CreateFile(i) \/ RenamePath(i)
  \/ \E path \in AllPaths(cache) : DeletePath(path)

Faults == Expired \/ ExpiredInCompletion \/ Fail \/ Crash \/ Reset

Init ==
  /\ \E drive \in InitialDrives : object = drive.object /\ trash = drive.trash
  /\ clock = 0
  /\ cache = NoView /\ cursor = -1 /\ live = FALSE /\ contended = {}
  /\ durable = {} /\ phase = "idle" /\ task = NoTask /\ delta = {}
  /\ edits = 0 /\ mutations = 0 /\ faults = 0

Next == OtherDevices \/ Cycle \/ Mutations \/ Faults

Spec == Init /\ [][Next]_vars

-----------------------------------------------------------------------------
(* Properties.                                                              *)

TypeOK ==
  /\ DOMAIN object = Id /\ trash \subseteq Id /\ clock \in Nat
  /\ DOMAIN cache \subseteq Id /\ live \in BOOLEAN
  /\ cursor \in -1 .. clock
  /\ \A c \in durable : DOMAIN c.cache \subseteq Id /\ c.cursor \in 0 .. clock
  /\ phase \in {"idle", "list", "drain", "complete", "group", "repair", "planned", "abort"}
  /\ task.repairs # {} => phase = "repair"
  /\ Cardinality(durable) <= 1 /\ Cardinality(delta) <= 1

\* A whole replay of a checkpoint, undisturbed: the drain, then the subtrees.
Outlook(d, facts) ==
  [cache |-> d.cache, facts |-> facts \cup Contended(d), entered |-> d.entered]

Completed(e) ==
  FoldLeft(LAMBDA f, i :
             Outlook(ApplyRemoteChanges(f.cache, SubtreeEntries(i)), f.facts),
           e, SetToSeq(RelistTargets(e.cache, e.entered)))

Replay(c) == Completed(Outlook(ApplyRemoteChanges(c.cache, Since(c.cursor)), {}))

OutOfScope(path) == \E e \in Excluded : IsPrefix(e, path)
InScope(c) == Detach(c, {i \in DOMAIN c : OutOfScope(c[i].path)})
Known(facts) == {l \in facts : ~ OutOfScope(l.path)}

\* Whatever happened between two cycles, replaying the checkpoint shows exactly
\* what a scan from nothing would show, or names a contended address: a torn
\* listing, a partial drain or a repair leaves nothing behind for good.
CheckpointLosesNothing ==
  phase = "idle" => \A c \in durable : \A r \in {Replay(c)}, cold \in {Cold} :
    Known(r.facts) = {} => InScope(r.cache) = InScope(cold.cache) /\ Known(cold.losses) = {}

\* What the plan is made from is a tree: every cached object sits below where
\* its provider parent sits, however the moves of one delta were ordered.
PathsFollowParents ==
  phase = "planned" /\ mutations = 0 =>
    \A i \in DOMAIN cache : ResolvePath(cache, cache[i].object) = {cache[i].path}

\* At a path the working view shows another object than the committed one did,
\* or another state of it.
Differs(c, path) ==
  {c[i].object : i \in IdAt(c, path)} # {cache[i].object : i \in IdAt(cache, path)}

Told(d) == d.modified \cup d.deleted

\* What HOT reconciles is all there is: the delta names every path at which the
\* working view differs from the checkpoint the last cycle committed - but for
\* paths below what is now a file, an object that a scan after an expired cursor
\* finds where it was, and what lost a contended address out of scope that no
\* repair will settle (README, section 5).
DeltaCoversView ==
  phase = "planned" /\ mutations = 0 =>
    \A c \in durable, d \in delta : \A p \in AllPaths(c.cache) \cup AllPaths(cache) :
      Differs(c.cache, p) =>
        \/ p \in Told(d)
        \/ \E i \in DOMAIN cache \ Folders : IsStrictPrefix(cache[i].path, p)
        \/ task.fallback /\ IdAt(c.cache, p) = IdAt(cache, p)
        \/ \E i \in task.hidden \cap DOMAIN c.cache : IsPrefix(c.cache[i].path, p)

\* No vault file is deleted for an object that is where it was: what the
\* checkpoint showed at a path announced as deleted is seen elsewhere, or has left
\* that path, unless the provider has moved on since the view was taken.
DeletedMeansGone ==
  phase \in {"group", "planned"} /\ mutations = 0 =>
    \A c \in durable, d \in delta : \A p \in d.deleted : \A i \in At(c.cache, p) :
      \/ i \in DOMAIN cache \/ i \notin Live
      \/ ListedPath(Restrict(object, Live))[i] # p
      \/ \E j \in Id : object[j].version > cursor

Checkpoint == INSTANCE RemoteCheckpoint WITH
  working <- IF phase = "idle" /\ ~ live THEN {}
             ELSE {[view |-> cache, position |-> cursor,
                    whole |-> phase \in {"planned", "idle"}]},
  saved   <- {[view |-> c.cache, position |-> c.cursor] : c \in durable}

\* The checkpoint is written whole and from a whole view, and its position in the
\* log only moves forward until it is forgotten (RemoteCheckpoint).
CheckpointSpec == Checkpoint!Spec
=============================================================================

# Air Sync: specifications, model checking and proofs

Air Sync is an Obsidian plugin that keeps a vault and a cloud folder (Google
Drive, Dropbox, OneDrive) in step. This directory holds TLA+ specifications
translated from its TypeScript source (`src/src/`), TLC configurations that
check them on small instances, and TLAPS proofs for all instances.

The engine keeps no server side: all it knows is what it wrote down itself. So
its correctness is a matter of order. Which of two stores is written first, who
consumes a dirty mark, what is looked at again before a write, who may run while
an action is between its effect and its record. These specifications are about
that order. Contents are model values; formats, paths as strings, messages and
delays are left out.

## 1. The system

### Components, state, operations

| component (code) | state | operations | what makes it correct |
|---|---|---|---|
| sync state store (`sync/state.ts`, `store/idb-helper.ts`) | IndexedDB stores: records by remote identity with a unique path index, merge bases by the same key | compared put, compared delete, folder mapping, compared base write, clear; one transaction each, which may abort or be repeated | no two records at one path; no record overwritten that the publisher had not read; every base belongs to its record |
| state committer (`sync/state-committer.ts`) | none | builds the terminal record of an action, publishes it, refreshes the merge base | the record describes the revision transferred |
| local tracker (`sync/local-tracker.ts`) | dirty paths, generation per path, rename reports, `initialized` | mark, snapshot, acknowledge a snapshot or one path | a mark made after the snapshot outlives it |
| scheduler (`sync/scheduler.ts`) | debounce timer, `departed` | vault events mark and debounce; focus, visibility and network start a run; file-open pulls one file | no change without a later run; no signal storm |
| orchestrator (`sync/orchestrator.ts`, `sync/sync-cycle-finalization.ts`) | run lock, `syncPending`, the active batch | runSync, retries, closeout, pullSingle, rescan | checkpoint last and only after a clean attempt; a request during a run gets a run |
| change detection (`sync/change-*.ts`, `hot-*.ts`, `remote-change-source.ts`) | none | HOT (dirty paths and delta), WARM (listing and delta), COLD (two listings) collection | nothing that differs from its record is left out for good |
| admission (`sync/identity-component-*.ts`, `plan-admission*.ts`, `decision-engine.ts`) | none | joins observations and reports into components, decides and authorises actions | every effect has an authority; a deletion needs the provider's word |
| plan executor (`sync/plan-executor.ts`, `content-snapshot.ts`) | results, pools | check, capture, recheck, effect, proof, publication; pooled, then serial | nothing replaced that exists nowhere else |
| conflict resolution (`sync/conflict-*.ts`, `merge.ts`) | none | newer wins, duplicate, three-way merge | both versions survive, or the documented loss |
| priority coordinator (`sync/priority-coordinator.ts`) | permits, waiters, queued pulls, finalizers, drain flag | acquire, release, enqueue, finalize, drain | pulls and closeouts at safe points; no lost wakeup |
| opened-file pull (`sync/opened-file-priority.ts`, `priority-batch-state.ts`) | the batch's phase, pending, superseded and invalidated actions | observe, read, recheck, write, publish, supersede or invalidate | owns what it replaces; gives way to edits |
| caching remote filesystem (`fs/caching/*`) | committed cache with cursor, working view | delta, full scan, commit, abort, address arbitration, namespace repair | cursor and cache move together; paths and identities one to one |
| managed remote filesystem (`fs/managed/*`) | normalised metadata | completion of entered folders, conditional write, move, delete | a mutation replaces only the version that was seen |
| address arbitration, namespace reconciliation (`fs/caching/address-arbitration.ts`, `id-delta.ts`) | contentions of a drain | claim, withdraw, group, repair | one holder per address whatever the order; a claim withheld is told and settled |
| pools, mutex, barrier (`backend-api/async-queue.ts`, `sync/local-mutation-barrier.ts`) | ceiling, bytes in flight, queue | run, throttle, ramp | bounded, nobody who fits waits |
| backends (`backends/*`, `backend-api/remote-adapter.ts`) | upload sessions, in-place retries | create, update, move, delete, read; the provider behind them is external | a call changes at most what it claims to change |
| tokens (`backend-api/oauth-pkce.ts`) | access and refresh token, shared refresh, cooldown | get, refresh, rotate | a rotated refresh token is never dropped |
| connection (`fs/backend-manager.ts`, `fs/modules/*`) | settings, `connecting`, the exposed filesystem | bind, connect, disconnect, switch, start up | records and checkpoint are those of the folder synced |
| scope (`sync/scope-*.ts`) | fingerprint with the checkpoint | include, exclude, defer by size | what the cursor passed while excluded is seen once included |
| UI, logging, settings, module validation | | presentation | not part of the engine |

### How they interact

A vault event marks a path in the tracker and arms the debounce. A run takes the
run lock, takes a snapshot of the tracker, and asks the coordinator for the
preparation permit. Under it the remote filesystem brings its working view up to
date with the provider's log, change detection collects, admission plans, and the
batch state is created. The executor runs pooled actions (each under a permit
of its own: check, effect, publication of the record) and then the serial ones
under one permit. The closeout goes through the coordinator as a finalizer:
if everything finished, the working view and its cursor are committed, otherwise
the view is discarded. Then the tracker's snapshot is acknowledged. A file-open
event queues a pull with the coordinator; it may replace a pull of the batch that
has not begun, or make the batch give up its checkpoint.

Everything runs in one JavaScript thread, so code between two `await`s is one step. What is hard
is what happens at the awaits: the user edits, the provider changes, events are delivered late,
another action runs, a call fails, its answer is lost, the process ends. Three durable places
(records, checkpoint, the two file systems) are written in separate steps. The folder the vault
is bound to may be exchanged under a running cycle, and a plan's calls share one pool, one token
and one provider. PROJECT.json lists these hazards line by line with the properties that watch
them.

## 2. The modules

```
SyncStateStore            records and merge bases, transactions
  MCSyncStateStore          state_store
  SyncStateStore_proofs     TypeCorrect, PathUniqueness, MergeBaseBinding,
                            LosslessRewrite, NoLostPublication
SyncCycle                 vault, provider, checkpoint, tracker, scope and the cycle
  MCSyncCycle               sync_cycle, sync_cycle_pair, sync_cycle_liveness, lost_deletion
  SyncCycle_proofs          typing, visibility on both sides, no version lost, HOT marks
PriorityCoordinator       permits, queue, drain: what a client may rely on
PriorityPull              run lock, cycle, batch state and pull on the coordinator
  MCPriorityPull            priority, priority_liveness
  PriorityPull_proofs       the coordinator alone: typing, SafePoint, no lost wakeup,
                            order; Spec => CoordinatorSpec and what follows, typing
                            of the composition, the pull owns what it replaces,
                            visibility on both sides, no edit overwritten
AddressArbitration        who holds an address several objects claim
  MetadataCache             the cache: paths of identities, moves, merges, evictions
    RemoteDelta               a drain of the log: what the engine is told
      CachingRemote             acquisition, repair, mutation, commit, abort
        MCCachingRemote           caching_remote
        CachingRemote_proofs      the arbiter: independence of order, one holder;
                                  Spec => CheckpointSpec
RemoteCheckpoint          abstract: a view that is ahead of the one saved
  RemoteCheckpoint_proofs   never behind, never backwards
Lifecycle                 binding, connecting, start-up and departures beside cycles
  MCLifecycle               lifecycle
  Lifecycle_proofs          typing, records, bindings, returns, checkpoints
IdentityDecision          Admission of one component of facts
  RenameCycle               tracker, collection, execution around it
    MCRenameCycle             identity, identity_retry
    RenameCycle_proofs        typing, one address for each object, the engine takes only
                              what is recorded or kept
AdaptivePool              ceiling, byte budget, queue
TokenManager              access and refresh tokens
ProviderObjects           the provider's objects and what each service guards
  RemoteAdapters            the requests of a call, adapter by adapter
    TransferBatch             a plan's calls through pool, token and adapter
      MCTransferBatch           transfers
      TransferBatch_proofs      TransferBatch implements PoolSpec, its bounds;
                                tokens, bound reads, mutations
```

Operators marked `Mutant:` are not part of a specification: each is a plausible
bug of the definition after it and is used to show that a property can fail.

The cycle is modelled more than once, each time with what one question needs.
SyncCycle has versions, faults and the executor's steps but one identity per path;
RenameCycle has identities and addresses but whole actions; PriorityPull has the
permits; Lifecycle has the folders; CachingRemote has the provider's log and the
cache that SyncCycle takes as two views. The interfaces between them are small: a
view and what its delta names (CachingRemote towards the others, `DeltaCoversView`), a
record compared and put (SyncStateStore), a call that succeeds, fails or whose answer is
lost (TransferBatch).

### SyncStateStore

`rows` and `bases` are the two object stores (state.ts:69-92), `tx` the image of
the one read-write transaction, `held` what each client captured. An identity
has one row; the unique path index is `PathsUnique`. `CaptureExpectation` and
`CaptureRelocations` are the reads that precede a publication; no read runs beside
a read-write transaction, which is IndexedDB's rule and the guard `tx = None`.
`CompareAndPut`, `CompareAndRewritePaths`, `CompareAndDelete` and
`CompareAndPutContent` compare as the methods of those names do; a put or a
mapping becomes a transaction of one `PublishNext` per member and a `Complete`.
`ConnectionCloses` aborts it (idb-helper.ts repeats it on a new connection),
`Crash` also loses what clients held. After a single publication the client goes
on to the merge base: it reads the file (any hash: it may have been edited), and
writes the base only if it is that of the record it published
(state-committer.ts:65-89). Whatever a client captured is any pair of stored rows:
the specification does not trust callers to capture the right ones.

### SyncCycle

One vault, one provider, and the cycle as runSync, collectChanges, admission,
executePlan and the closeout make it, for files that no rename joins, so each file is
a component of its own. A version is a content and an mtime; an edit that keeps
mtime and size is the separate action `QuietEdit`. `record` is the store above
(the compare-and-put always holds here, since in this module only the cycle
publishes). `durable`/`unseen` are the committed cache and the paths the log
reports after its cursor; `view`/`unread`/`stale` are the attempt's working view,
what the log has since reported, and the entries whose cached version the provider
no longer accepts. `Begin` takes the snapshot, the strategy and the scope
fingerprint, which a retry (`Repeat`) keeps; `Collect` is acquisition, collection
and admission (HOT, WARM, COLD and the promotion to a listing, `Entries`;
which observation carries a hash, `Observed`; the decision, `Compared`; and the
authority a deletion needs, `DeletionAuthority`). Every action then takes the
executor's steps one by one, `Check`, `Capture`, `Recheck`, the writes, `Publish`,
and users, events and faults fall between any two. Pooled actions run side
by side, serial ones alone after them. `Commit` is a clean closeout, `Abandon`
and `Repeat` the others; `Acknowledge` consumes the marks of the snapshot whose
generation has not moved. A conflict reads both versions and has a copy of the remote one made
first (`Preserved` into `kept`; the local one stays where it is). `StillAdmitted` is the second
look: a conflict looks again only at a file it has read, so one admitted without a local file
takes the absence it found before the download for granted (`TrustsAbsence`).

A change of the provider is two steps. `Compare` is the adapter's own lookup, which fails if the
version is not the cached one; `MutateRemote` is the request after it. Where the request carries
the version, the provider refuses what changed in between (`RefuseRemote`); with `"blind"` in
`World` it need not, as with Google Drive, which takes no precondition, and Dropbox, which
deletes what is at the path (`Takes`, `Lands`). Every instance but that of `lost_deletion` has it.

The strategy is compiled into each action (`ConflictMode`): auto_merge lets the newer
win, prefer_local reads both sides of what looks like a change on both (`Enriched`), and
only with the whole proof (`LocalWinProof`) does the local version win; otherwise both are
preserved. The executor refuses a local win whose proof no longer holds (`ContractHolds`).

The scope is a set of excluded paths that settings may change at any time. It is
read for the fingerprint at `Begin`, again at `Collect`, and at the delivery of each
vault event; `Commit` saves the fingerprint of `Begin` (`vouched`), and another one than the
saved one makes the next cycle a full scan. Contents in `Large` are over the
mobile size limit; such files are withheld from the plan (`Deferred`). `missed` remembers
what a committed cursor has passed without planning it, while its fingerprint claims it
was in scope; a full scan clears it. `late` and `unheard` are history for the properties: files
edited after their action's last look at them (`LookedLast`), and files whose event of this cycle
was dropped as out of scope.

`World` names what the surroundings do in an instance, so that a run can ask about
one kind of trouble at a time: quiet edits, deletions, crashes, rescans, changes of
scope, a rejected credential that aborts the batch, a mutation whose answer is lost, a provider
without preconditions.

### PriorityCoordinator and PriorityPull

`PriorityCoordinator` is the class field by field: `active` (activeNormal, with
the holders named), `waiting` (normalWaiters, always admitted together), `queued`
(the map of pulls in insertion order), `finalizers`, and `current`, what the drain
awaits. A step is one synchronous stretch: the call and the drain it starts, up to
the first run. `Drain` is the loop with its `finally`.

`PriorityPull` is a client of it: `ctl` is where runSync and executeSyncOnce are,
`batch`, `blocked` and the `step` of each plan entry are PriorityBatchState
(pending, superseded, invalidated), `op` is the pull under way with what it has
read. `GetRecord` to `AcknowledgePath` are the stretches of
syncOpenedFilePriority between its awaits; each exit there (untracked, defer,
invalidate, already current, lost comparison, applied) is a disjunct here.
`PullThrows` is a failed call: up to the read it lands in the handler, inside the
mutation barrier it does not. The cycle side keeps what a pull can meet: the
snapshot and its generations, collection under the preparation permit, each action's
beginAction, effect and publication under a permit, the structural phase, the
closeout as a finalizer, `syncPending`. Files exist on both sides; versions are
numbers of edits; the executor's content checks, deletions and failures inside an
effect are SyncCycle's business. A signal (focus, network) may start a cycle at
any time, but nothing relies on it.

### AddressArbitration, MetadataCache, RemoteDelta, CachingRemote

A provider that addresses objects by parent and identity (Google Drive) may hold any
number of objects of one name in one folder; the vault has one file there.
`Precedes` and `Admitted` are the arbiter (address-arbitration.ts:127-158): an address the
provider resolved goes before one that was only echoed, then the smaller identity holds it;
two resolved folders merge, and of any other pair the loser is withheld and, if it was
resolved itself, owes a rename. `MetadataCache` keeps
`[path, object, authority]` per identity: `BuildFromFiles` assigns a whole listing,
`ApplyFileChange` seats one changed object with the eviction, inheritance and respelling
of what is below. A path is a sequence of names.

`RemoteDelta` folds a page of the log over the cache (`ApplyRemoteChanges`): folders first, by
the depth they are cached at, then files and tombstones in log order (`PageOrder`), each with
the losses it holds and the paths it reports; at the end of the page the contentions that no
longer stand are settled (`Settle`). `DiffById` is the comparison of two caches after an expired
cursor, `RelistTargets` the folders whose content has to be read because they entered the root.

`CachingRemote` is the protocol around it: `Resume`, `Restore`, `Scan`/`List` (cursor
before listing; a listing is not a point in time, `Listings`), `FetchChanges`,
`ReadSubtree` per entered folder, both ways to find the cursor expired, `Group` and
`Repair` (a claimant of a contended address in scope is renamed on the provider, and the
view then discarded), the device's own `WriteFile`, `CreateFile`, `RenamePath` and `DeletePath`
with the adapter's comparison and the cache's own update, `Commit`, `Fail`, `Abort`, `Crash`,
`Reset`. Other devices edit, rename, move, trash and restore between any two requests.

`RemoteCheckpoint` says in forty lines what a caller may rely on: a view is acquired
from the saved one or from nothing, advances, and is saved only when whole.
`CheckpointSpec` is the refinement, with `working` and `saved` computed from cache, cursor and phase.

### Lifecycle

One device, the folders it may be bound to, and the cycles of whichever is
exposed. `manager` is the operation that holds `connecting`, with its step: each call that
BackendManager awaits is a step (resolve, authorise, leave, forget, clear the baseline, pick,
build, validate, open, reset the checkpoint), each may fail, and cycles, departures,
signals and restarts fall between any two. Every folder has its checkpoint; the records are one set.
`RunSync` is the entry of a cycle with its early returns; `run` keeps the filesystem a
running cycle captured when the exposed one is replaced. `departed`, `debounced` and
`layout` are the scheduler's and the plugin's flags.

An operation ends in one of three ways, as its code does: it has replaced what is exposed and asks
for a cycle (`Finish`), a call failed and it asks for one all the same (`FinishUnchanged`), or it
returns from a `catch` and asks for nothing (`GiveUp`). Any call may fail, whatever is exposed
meanwhile.

Five variables are history. `begun`: the folder exposed now has had a cycle begin. `owed`: a
return to the foreground still waits for one. `unanswered`: an operation gave up beside an exposed
folder, and no cycle has begun since. `mixed`: the records were cleared and the identity stored
for a folder whose filesystem could then not be opened, while that of the folder before is
exposed. `suspect`: folders whose checkpoint was cleared beside a running cycle, or was left when
the records were cleared, until a cycle begins on them without one. The last three mark what the
code does not recover by itself (section 5), and they are all that the properties leave out.

### IdentityDecision and RenameCycle

Here files have identities, and both sides rename, replace, edit and delete them.
`IdentityDecision` is Admission of one component as operators: which rename reports
form a family and which are unambiguous (`SideConflicts`, `MisnamedReport`), the binding
of files, records and objects in the code's order of precedence (unrecorded
reports, rows with a moved side, remote relations, the rest), the action each
binding materialises as, whether every report is accounted for, and what is left when
the relation is abandoned. The loops of bindFiles are one recursive function
(`BindFiles`) over the items of all its stages (`Stages`), so that an order of paths and
an order of reports are all that is left open.

`RenameCycle` puts it into a cycle: the tracker with its rename pairs (chains,
returns), the change log since the checkpoint with the device's own echoes,
HOT, WARM and COLD collection, the graph that makes components of facts, the order in which reports are told
(`Tellings`: a Map keeps insertion order, and chains in the vault collapse), the actions'
effects in order (a rename with a copy of an occupant, a conflict with a rotation), the proof
after the effects and the publication, and the closeout. `Execute` runs an action
whole; `Fail` stops it after any prefix of its effects; `Block` is an action whose
inputs no longer hold; `Crash` loses the tracker and the plan. `plan` has the actions left of
each component at its first address; `Turn` takes the pooled ones first. Simplifications: files
only, no case aliases, everything in scope, contents always comparable, strategy
"duplicate", remote changes between cycles only.

### AdaptivePool, TokenManager, ProviderObjects, RemoteAdapters, TransferBatch

`AdaptivePool` is the class of async-queue.ts: admission in order of arrival while the
ceiling and the byte budget allow (a task over the whole budget alone), one halving per
throttle episode, a ramp after clean runs, `drain` after every change.
`TokenManager` is oauth-pkce.ts: a live access token is reused, a refresh is shared by all who ask
while it runs, a rotated refresh token is handed to the secret store before any field
is installed, a refused refresh starts the cooldown.

`ProviderObjects` is external: objects with a place, a version and content, for each
service what it compares. `RemoteAdapters` gives every call of an adapter as
its script of requests (`Script`), with what each looks up, compares and sends, for Drive,
Dropbox (rev preconditions, upload sessions, the case-only rename over a temporary
name with its verification and rollback) and OneDrive (eTags, upload sessions).
`TransferBatch` runs a plan: pooled transfers, then structural calls alone, each with
its requests, bearer, in-place retries after throttling, one more try
with a forced token after a 401, the action's retries, and the outcome the engine sees. One request is one
step: it is sent, takes effect and is answered; a lost answer is an effect without one. A
failed action resolves in the pool (only a rejected credential rejects), as
executeAction does.

Assumptions about the services: a rename leaves Dropbox's rev alone; an update of a
missing path with a rev conflicts; a rev stays readable; OneDrive applies its conflict
behaviour at the commit of a session, and commits a session opened by identity
unconditionally; Drive has no preconditions and serves trashed files. The
cooldown outlasts a batch.

## 3. What the runs check

| run | instance | question | distinct states |
|---|---|---|---|
| `state_store` | 2 identities, 2 paths, 2 hashes, 2 clients, mappings of 2 | can two publishers, a clear, aborts and crashes break the index, the bases, a mapping or a record? (two publishers are what the program has: an action and an action, or an action and a pull) | 0.28 million |
| `sync_cycle` | 1 file, 3 contents, 3 edits, 1 fault, 3 strategies, no preconditions | is a change hidden, is a version lost? | 3.2 million |
| `sync_cycle_pair` | 2 files, 3 contents of which one is large, 1 edit, 1 fault, a moving scope, quiet edits | the same with actions side by side, serial ones, a batch abort, a scope that changes; does a HOT cycle consume a mark it did not read? | 0.9 million |
| `sync_cycle_liveness` | 1 file, 2 edits, 2 faults, no remote deletion, fair | do the sides converge once trouble stops? | 0.6 million |
| `priority` | 2 files, 2 edits, 2 opens, 1 fault, 4 of them together | pulls beside a cycle: safe points, ownership, edits, visibility | 2.1 million |
| `priority_liveness` | 2 files, 1 edit, 2 opens, 1 fault, 3 together, fair | is every open served, is every deferral followed up? | 0.26 million |
| `caching_remote` | 2 files, 2 folders, 2 names, 4 drives to start from, 2 events | does a checkpoint replay to what a scan shows, is the delta complete, is a deletion true? | 0.27 million |
| `lifecycle` | 2 folders, 2 files, 2 edits, 3 operations, 2 faults | are records and checkpoint those of the folder synced, is every binding and return served? | 2.7 million |
| `identity` | 3 addresses, 2 files, 3 changes, 1 crash | renames, replacements and deletions on both sides: is anything lost or hidden, does the engine take what it never recorded? | 0.6 million |
| `identity_retry` | the same with 2 changes, 1 failing call, fair | does the engine run out of work? | 24 thousand |
| `transfers` | plans of up to 4 calls, 3 providers, 1 or 3 faults, another device | bounds of the pool, tokens, bound reads, mutations, the case-only rename | 1.3 million |
| `lost_deletion` | 1 file, 2 edits, 1 fault | the finding of section 5 | |

The properties, by what they protect:

* Nothing is hidden. `RemoteChangesStayVisible` (a remote version of the vouched scope which
  the log will not report again has its record), `LocalChangesStayVisible` (a local file that
  differs from its record has an event, a mark, or tell-tale metadata); both are stated in
  `SyncCycle` and again in `PriorityPull`, where a pull publishes records and consumes marks
  from the side. `HotConsumesWhatItRead` is the stronger claim for edits that leave no
  metadata trace; it exempts a file whose event came while the settings excluded it (`unheard`,
  section 5). `DifferencesStayVisible` is the counterpart under renames: between cycles
  whatever has no matching record is met by even the narrowest next cycle. One level
  down, `DeltaCoversView` says that the delta names every path at which the view changed, and
  `CheckpointLosesNothing` that a replay of the checkpoint is as good as a scan.
* Nothing is lost. `NoVersionLost` (a version replaced or removed by the program
  is recorded, on the other side, in a copy or in the trash; with auto_merge and no base only
  the older one may go, with prefer_local only a remote one whose proof is complete),
  `NoEditOverwritten` (its counterpart for pulls), `NoBlindWrite` (the same for records),
  `EngineKeepsUnsynced` (whatever the engine does to a side, and wherever a call fails, it takes
  no version from it but one a record states or one a conflict has kept before),
  `NothingLost` (every version no user replaced or deleted is on some side or in a
  copy, however files are renamed), `DeletedMeansGone` (a path is announced as deleted only
  when its object has left it), `MutatesOnlyWhatItMayClaim` (a request changes the
  version the caller admitted, as far as the adapter claims so, whatever other devices do in
  between).
* Two things stay in step. `PathIndexUnique`, `MergeBaseBound`, `EveryTerminalStored` in the
  store; `CleanMeansSynced` (after a clean, undisturbed cycle both sides and the records agree);
  `PathsFollowParents`; `CheckpointSpec`; `BaselineOfBoundFolder` and `CheckpointVouches`
  (records and checkpoint belong to the folder synced, and to each other); `ReadsAreBound`
  (the bytes read are those of the version they are recorded as); `RotatedTokenIsKept`;
  `CaseRenameSettles`.
* The safe point. `SafePoint`, `PriorityFirst`, `NobodyWaitsForNothing`,
  `ReplacedActionIsHeld`.
* Progress. `Converges`, `QuiescesUnlessShifted`, `DeferredPullsAreFollowedUp`,
  `OpenedFilesAreServed`, `EveryBindingIsSynced`, `ReturnIsRechecked`, `NobodyWaitsForRoom` and
  `AdmitsWithinBounds`.

Both `NoVersionLost` and `NoEditOverwritten` leave out edits that fall between the
last look at a file and the write that replaces it (`late`): neither the vault API
nor the code has a compare-and-write, so that window exists. It is one host call wide, with one
exception: a conflict admitted without a local file looks for one only before it downloads the
remote version (plan-executor.ts:482-489, :716), so its window is the whole download, and what is
created there meanwhile is lost (section 5). `NoVersionLost` also leaves out a change at the
provider between the adapter's comparison and a request without a precondition (`stale`, which
stops the action in `Compare` if it comes earlier; googledrive/adapter.ts:197-220, :248-255).

The properties of Lifecycle leave out what its history variables mark, no more: bindings and
returns beside an operation that gave up (`unanswered`), records after a failed opening (`mixed`),
checkpoints that were cleared apart from the records (`suspect`).
`TypeOK` of SyncCycle, PriorityPull, CachingRemote, RenameCycle, Lifecycle and TransferBatch is stated in the
modules, holds on these instances, and is left out of their cfgs.

**Bounds.** Edits, opens, operations and faults are counted against named bounds in the
guards; nothing else is bounded.

* SyncCycle: three edits let a file change, change back and change against a change; three
  contents let the recorded, the local and the remote version all differ, which a loss needs.
  One fault lets a cycle fail and its repetition succeed; with two, as in `sync_cycle_liveness`,
  the repetition fails as well. Two files are enough for one to fail while the other
  publishes, since files of different components share nothing but the checkpoint,
  the pool and the batch.
* PriorityPull: two opens queue behind one another and coalesce (`MaxBudget` bounds the sum).
* CachingRemote: every contention is between two objects, and every pair
  of kinds is in one of the four initial drives; `MaxEvents` = 2 of all
  kinds together gives one thing that goes wrong during the handling of another. Cursors
  expire; `Inverts` = FALSE keeps out folders that trade places (section 5).
* Lifecycle: two folders give one to leave and one to come to; three operations bind,
  disturb, and bind again; two faults let two calls of one operation fail, or one of an
  operation and one of a cycle.
* RenameCycle: three addresses, one of them free, are the smallest on which
  objects exchange, chain and replace; three changes interleave before, during and
  after a snapshot. `MaxFails` = 0 in `identity` and 1 in `identity_retry` for the reason in section 5.
* TransferBatch: a ceiling from one to three around two, a ramp after two clean runs, a budget
  of two against sizes of one and two, one retry in place (four in the code) and
  two of an action, one throttling and one withdrawn access token. A case-only rename alone
  gets three faults: the move, the lookup and the rollback may each fail.

Symmetry over contents, paths, folders and objects is used in safety runs only.

**Fairness.** `SyncCycle!FairSpec`: the cycle goes on (`Cycle`), each admitted
action goes on, raised events are delivered, a closed application is opened again.
Weak fairness of `Begin`, part of `Cycle`, says that some trigger
keeps coming; the code does not itself repeat an incomplete cycle, so without any
event, focus or open it would wait, and convergence is conditional on that.
`RenameCycle!FairSpec` asks the same in terms of phases: a cycle that is idle, has its
snapshot or has its plan comes to the next phase; nothing waits in between, and a plan is
finite. `PriorityPull!FairSpec` asks less: pulls and cycles go on, events are delivered
and the debounce ends; neither opens nor signals are fair, so
`DeferredPullsAreFollowedUp` shows that the pull's own request suffices. It
excepts runs that end in an error (`aborted`): there the loop returns with the
request unserved (orchestrator.ts:212), on purpose, and the next trigger takes over.
Edits, opens, crashes and faults are never fair.

Deadlock is checked in every run but `lifecycle`, where a bound device that has used up its
operations has nothing left to do. A finished batch of `transfers` is the explicit step `Done`.

## 4. What is proved

All by TLAPS, for all values of the constants under the named assumptions of the
modules (bounds are naturals; `None`, `NoHash`, `Finalizer` are not data values; the
permit holders are the paths and two more; identities are naturals).

*SyncStateStore_proofs.* The inductive invariant `IInv` joins typing, the uniqueness and binding
of the stores, and two facts about what is under way. `HeldOK`: a folder mapping a client holds
keeps every member's identity; merge-base content matches the record it was verified for.
`TxOK`: the transaction belongs to a client that still holds what it is publishing, its members
are pairwise compatible (no member ends another's row or takes its address: this is what the
refusal of cyclic mappings gives), the members not yet written still match the image, and those
written are stored. Uniqueness alone is not inductive: the second member of a mapping is written
without another comparison, so the invariant must carry the first comparison across the first
write. From `IInv` follow `PathUniqueness`, `MergeBaseBinding`, `LosslessRewrite`, and the
action property `NoLostPublication`.

*PriorityPull_proofs, first half: the coordinator under any client.* `CoordinatorTypeOK /\ SafePoint /\
NobodyWaitsForNothing` is inductive; the parts lean on each other: a worker waits
only behind the drain or a queue, a queue only behind a permit or the drain, the
drain runs nothing while a permit is out. `DrainStep` does the case analysis once
for all operations. `PriorityOrder` is the action property.

*Second half: the composition.* `ImplementsCoordinator`: every step of the composed
specification is one operation of the coordinator or leaves it alone, hence
`Spec => CoordinatorSpec` with the identity as mapping, and the coordinator's
theorems hold of the cycle and the pulls.
The same module proves `PriorityPullTypes` and `PullOwnsItsAction`. Ownership is
claimed at the write and the commit, but has to be carried from the moment the
pull starts: `PullOwns` says that a superseding pull that has not committed finds
its action pending, in a cycle that has not closed. It is kept by three facts of
different origin: the pull's own steps leave the plan alone until the commit; actions
change it under a permit only, and `SafePoint` (from the coordinator's
invariant) says that none is out while a pull runs; and the plan is dropped only
when the cycle has closed, which `BatchOpen` rules out while the batch is in its transfer
phase, the only phase in which a pull starts as superseding. So the branch of
`supersede` that finds its action taken (opened-file-priority.ts:111) is a defence: it
is never entered.

`PullsKeepRemoteChangesVisible`, `PullsKeepLocalChangesVisible` and `PullsOverwriteNoEdit` come
from one invariant, `SyncInv`: versions only grow and a record is behind both sides (`Grown`);
what each action stands for until it is final (`PlanFollows`), what a pull relies on from one
await to the next (`PullFollows`), and what a marked file of the snapshot that nobody touched
since is known to be (`StillRead`). A clean close may commit the view because a file without an
action is as recorded, a finished action has recorded what the view shows, and a pull records at
least that much: it observes the remote after the attempt's collection did. A mark is taken back
either with the snapshot, where `StillRead` says that the record states the file, or by a pull,
where the confirmed read says so or an event is still to come. Under this invariant the record a
pull began with is still there at its commit, since nobody else publishes while a pull runs: the
comparison that loses there (opened-file-priority.ts:97) is a defence too. The three rest on
`WorkerAssumption` (the two other permit holders are no paths) and need no bound on files,
edits, opens or faults.

*TransferBatch_proofs.* `PoolInv`, the pool's typing with `NobodyWaitsForRoom`, is inductive for
the pool alone: every release and every change of the ceiling ends in `drain`, which stops only
at a waiter that does not fit. `BatchUsesPool` shows that each step of a batch is a step of
`PoolSpec` or leaves the pool alone, for any plan, provider and adapter script, so
`BatchNobodyWaitsForRoom` and `BatchCeiling` (no admission over the ceiling, with throttling at
any moment) hold of every batch. So does `BatchWithinBounds`, the bytes too: a drain reserves
for each waiter what those before it take (`AheadAdds`), so the last one it admits was admitted
against all others (`DrainFits`), whatever their sizes and however many they are.
`BatchKeepsRotatedToken`: at most one refresh is under way (whoever is in an exchange is the one
`refreshPromise` names), so the token its answer brought is the newest there is until it is
stored, and in between nobody else can ask for another (`TokenInv`); each step of a batch is a
step of the token manager or leaves it alone. `BatchReadsAreBound` rests on two facts about the
service (`ServiceInv`: a version names one content, and an object never gets back a version it
has had) and on what each request of a call has looked up so far (`CallsInv`).
`BatchMutatesOnlyWhatItMay` rests on `CarefulInv`: from the requests still ahead of a call
follows what it has compared (`Prepared`), so a request that replaces content is only reached
when the version seen is the one admitted, and a move or deletion also when none was admitted,
except on OneDrive; what the provider checks itself (`Refuses`) does the rest. Both assume that
the plans are plans (`BatchesAssumption`) and that "no version" is none (`NoVersionAssumption`).
`BatchCaseRenameSettles` is about the two moves of a case-only rename on Dropbox, for any plan
with one move among any other calls. `Between` says, by the requests still ahead of the call,
where the file may be while no other device has acted: before the first move at its old
spelling, after a first move that failed at either place, and so on to the lookups that end the
call; `Ends` says what each outcome then claims. It needs `Places`, which is the provider's:
Dropbox has one file under all spellings of a name (`TellsApart`, kept by every creation and
rename), so a move by path takes the file that was looked up. `TempAssumption` says the
temporary name is nobody else's, up to spelling. The hypothesis `LoneMoves` is needed: a second
case-only rename under way, with a path from before, could take this file aside.

*SyncCycle_proofs.* For any set of paths and contents, any strategy and `World`, and any number
of edits and faults. `Typed` adds to the types the shape of a cycle (`SnapInv`) and what an
action holds at each of its steps: the sides it was admitted on and the version it has captured
(`ProperInv`). `ViewInv` ties the working view to the open actions: it still shows what an
action was admitted on, or what the action itself wrote and the log will report.

* `CycleKeepsRemoteChangesVisible`. A commit is sound because of facts established long before
  it: where the log is silent the cache is the provider (`CacheInv`), a cycle that does not scan
  has a cursor for its scope (`CursorInv`), and whatever the attempt does not plan, or has done,
  and the log will not report, agrees with its record (`CoveredInv`). Every failure either keeps
  the old cursor or keeps the file open, which is what makes "commit last" right.
* `CycleKeepsLocalChangesVisible` and `CycleLosesNoVersion`. Here a decision is taken by metadata, so
  the invariant must say that it can be: of one path, an mtime tells a content (`Stamped`, a
  map from times to contents that explains every version held anywhere). `BasedInv` is what each kind of
  action rests on (a deletion on an unchanged record, a preserved conflict on its copy, a local win on
  its proof), `HeldInv` that the file about to be written is the one its action saw last, unless it was
  edited since (`late`), `BehindInv` that what moved behind the view of an open action is newer than what
  the action read, so that a stale entry is never mistaken for the recorded version. Both theorems
  assume that no edit keeps mtime and size (`"quiet edit" \notin World`), and without that both are false:
  such an edit is invisible to a listing, which is the documented limit of the program. The runs
  that check the two have no quiet edits either.
* `HotCycleConsumesWhatItRead` has no such hypothesis: a cycle that reads what it was told
  about sees quiet edits as well. `ReadingInv` follows each marked file that was not marked again since the
  snapshot: while the cycle runs its record states it or an open action will make it so, and at
  the acknowledgment the record does.

`NothingAssumption` says that `None` is none of the values it stands beside.

*Lifecycle_proofs.* The invariants build on each other. `Single`: at most one filesystem is
exposed, at most one kept by an attempt. `Holding`: what `connecting` and the mutex exclude, so
that the steps after a cleared baseline have no cycle beside them. `BoundHere`: between the
clearing of the baseline and the end of an operation there are no records, and until something
is mixed (`OneFolder`) all records are of the folder synced last, and so is every filesystem in
use. `Served`: which requests are still to be answered. `Vouched`: the checkpoint and every view
report all that the records do not have, up to what the running attempt still has in its plan,
for every folder that is not `suspect`. From these follow `BaselineIsOfBoundFolder`,
`BindingsAreSynced`, `ReturnsAreRechecked` and `CheckpointsVouch`. None of them assumes anything
of the environment: any call of a binding may fail at any time, and users disconnect, reconnect
and restart beside running cycles. What the code does not recover from is in the properties, by
name.

*RenameCycle_proofs.* For any number of addresses, changes, failures and ends of the process.
The argument for `EngineTakesTheRecorded` has two halves which meet in the plan. What the
decision made of the facts is called `Sound`: an action that writes over or removes a file names
one that agrees with its record, or keeps it first (`Copies`); a transfer names the side it
takes the bytes from; an object that is rotated is the record's own. `DecisionGood` shows it of
every action of every component, through binding (`OneKeeps`, `AllBoundIsGood`), materialisation
(`MaterializeGood`, `ExactPathGood`) and abandonment (`AbandonmentGood`), in whatever order
paths are met and reports are told. That is a statement about facts which may be stale when the
action runs. The second half (`EffectsSpare`) is about the world it runs in: `InputsHold` and
`RoomFor` have looked again at what the action names, and effect by effect nothing is taken but
what was found recorded or was kept by an effect before; so it does not matter which of them is
the last (`Fail`). Nothing is assumed of what users do in between, nor does the theorem need the
components to be disjoint: every action stands alone.

The invariant `IInv` has five parts. `Sides`: every file and object is at the address it says,
files have no identity, and an object is at one address (`ObjectsStayApart`), since a rename
moves it and a creation takes the next number. `Views` the same of records and checkpoint.
`Marks`: what the tracker holds are addresses, each once. `Plans`: the work left is of sound
actions. `Flags` the rest of the typing (`RenameCycleTypes`). `Sides` is needed for `Sound`:
that the object found by a record's identity is the one at the address rests on there being one.
The induction along the loops of bindFiles and along the effects of an action is done by the
smallest counterexample (`SmallestNumber`), because a theorem with an operator for a parameter
cannot be used.

*CachingRemote_proofs.* First the arbiter. `Precedes` is total and transitive on claims of distinct
objects. Hence the decision between two does not depend on which was there first
(`ArbitrationIgnoresArrival`), three claims fold to the same holder in any order
(`ArbitrationFoldsAnyWay`), and any non-empty set has exactly one claim that is admitted
against all others (`HolderIsTheOne`; that there is a smallest identity is the
well-foundedness of the naturals, so the set need not be finite).

Then the refinement, `CachingRemoteKeepsCheckpoint`, for any number of objects and any drives, logs,
listings, failures and edits of other devices. The inductive invariant `CheckpointInv` does not look into
views at all: from the drain to the commit the view is initialized, and the positions are in
order, the saved cursor at most the working one, that at most the token a drain under completion will end
with, that at most the length of the log. What a drain or a listing computes is then left
open, and every action falls under one of a few lemmas (`ViewStarts`, `ViewAdvances`, `LogGrows`,
`ViewLost`, `CommitIsStep`), each a step of RemoteCheckpoint or a stutter.
`IdAssumption` says the identities are finitely many numbers, which deleting a path needs: the
log grows by the number of objects it hits.

*RemoteCheckpoint_proofs.* What the abstract checkpoint is worth: the view in memory is never behind the
one saved (`ViewNeverTrailsCheckpoint`) and a saved cursor never goes back
(`CheckpointNeverGoesBack`). The invariant also says that there is at most one of each, which both need.
Because CachingRemote implements RemoteCheckpoint, they hold of it too.

Only model-checked:

* `NothingLost`, `DifferencesStayVisible` and `CleanMeansSynced` of RenameCycle. The first is
  not a theorem: with more changes and failures than the run has it is false, because
  "unchanged" is decided by content (section 5), and `EngineKeepsUnsynced` is the part of it
  that holds always. The other two are about what a whole cycle met and did: their proofs would
  have to follow every difference from the tracker and the log through the components into
  records that other components write, the exchanged addresses of section 5 among them.
* The invariants of CachingRemote about what a view contains (`CheckpointLosesNothing`,
  `PathsFollowParents`, `DeltaCoversView`, `DeletedMeansGone`). They are about what folds
  compute over a page and a cache of any size, which is induction over data, and they hold with
  the exceptions of section 5 (`Inverts` = FALSE, the unannounced evictions), which are stated
  for pages of an instance and not for all.
* `DeletionsStayVisible`, which is a finding, and all liveness.

TLAPS 1.4.5 handles neither fairness nor ENABLED, and its provers cannot use an induction
principle with an operator for a parameter. Induction is therefore done where it is short, by a
smallest counterexample over one index.

## 5. Findings

With a run:

* `lost_deletion` (code). An attempt that is not clean discards its view but keeps
  the records it published. A file it created remotely is then in no committed
  cache; deleted remotely before the next attempt, its tombstone names an identity
  the restored cache never held and `applyEntry` drops it (id-delta.ts:158). The
  next clean commit passes it. The local file stays and no cycle is told. Needs a
  log that reports the latest state of an object, which is how the modelled
  providers answer.

Met while modelling; each is an exception the properties or the instances name, and where a
constant is given, setting it so makes TLC show it:

* Cycles. A cold reconcile has no delta, so it cannot
  authorise a local deletion and refuses the file
  (identity-component-decision.ts:684); a refusal is not clean, no checkpoint is
  committed and the next cycle is cold again, while ADR 0001 says losing the cursor
  converges anyway. A cold reconcile hashes only files without a record,
  so the missed edits of ADR 0005 do not heal in it, and the clean cycle consumes their mark.
* Scope. `mobileMaxFileSizeMB` is not in the fingerprint (scope-fingerprint.ts; ADR 0008:43), so
  files a phone deferred stay deferred after the limit is raised until they change. Settings
  that change and change back between the start and the planning of one cycle leave no trace in
  it. `missed` counts neither against `RemoteChangesStayVisible`. A file that the settings
  exclude when its event comes is not marked (scheduler.ts:159-168); if it was marked before the
  cycle and is in scope again at the planning, the acknowledgment consumes the old mark without
  the new edit. An ordinary edit is still found by its mtime; a quiet one is not (`unheard` in
  `HotConsumesWhatItRead`).
* Pulls. `return ctx.mutationBarrier.run(...)` inside `try` is not awaited
  (opened-file-priority.ts:78), so what fails inside it never reaches the handler that requests
  a normal cycle (docs/sync-pipeline.md:414). docs/error-handling.md:135 says a priority pull
  acknowledges its path on success or failure; the code does so only after a confirmed write.
* Cache. Entries of a page are ordered by their cached depth (id-delta.ts:129), not by the
  parenthood the page states, as the comment above it says; folders that trade places
  leave a child seated by where its parent was (`Inverts` = TRUE violates `PathsFollowParents`). An object
  evicted by an address it lost and then deleted in one page is not announced (id-delta.ts:154).
  After an expired cursor `diffById` does not see an edit in place (remote-fs.ts:624). A claim withheld
  out of scope is never repaired. These are the exceptions in `DeltaCoversView`.
* Conflicts. A conflict admitted without a local file downloads the remote version and writes it
  without looking for a local file again: the recheck is only done `if (action.local)`
  (plan-executor.ts:716-733) and the write is unconditional (:760). A file created at the path
  during the download is overwritten, without a copy. The remote side of the same situation is
  looked at again (:746). `TrustsAbsence` is this, `late` its exception in `NoVersionLost`; with
  the exception gone for such conflicts TLC shows the loss. On Google Drive every update and
  deletion has a window between the adapter's comparison and its request (`stale`), which the
  adapter declares in its capabilities (googledrive/adapter.ts:37-40); without that exception too
  TLC finds a loss.
* Binding. initBackend clears the baseline and saves the new identity (backend-manager.ts:84-88)
  before it builds the folder's filesystem (:104) and resets its checkpoint (:110). If building
  fails while the previous folder is exposed, that folder goes on being synced and its records
  stand under the identity of the new one; after a restart the new one meets them (`mixed`). If
  nothing was exposed, the reset is forgotten, and the next start binds the folder with the
  checkpoint the comment at :106-109 means to drop. A disconnection leaves the folder's checkpoint
  behind if its deletion fails, and a cycle that commits after the stores are cleared makes
  another; bound again, it vouches for records that are gone (managed-remote-fs.ts:50). Both are
  `suspect` in `CheckpointVouches`. A foreground return during a bind that fails is consumed
  without a cycle (scheduler.ts:137), as is any other request of that time (`unanswered`). Editing
  a setting while connecting changes the folder although initBackend returns early. A rotation
  that ends late writes a secret after the disconnection.
* Identities. Objects that exchange addresses for good (1 to 3, 2 to 1) are refused in every
  cycle, against identity-component-decision.ts:226-228, hence `QuiescesUnlessShifted`. With a
  failing record deletion `NothingLost` does not hold: a file is renamed 1 to 3 during the
  cycle, the push at 3 and the deletion at 1 happen, the record stays; renamed back, the next
  cycle deletes the file at 1 and the object at 3, and the content is gone from both sides
  (README.md:56 of the repository promises otherwise). So `identity` has no failing calls and
  `identity_retry`, which has one, asks only for rest. The same limit shows without a failing
  record: after a restart, which leaves no rename report, a user renames 1 to 3 and writes a new
  file at 1; the cycle writes it over the object at 1 and the call fails after that; the user
  deletes the new file and renames 3 back; now the file is what the record says, the object is
  not, and the next cycle pulls the deleted version over the wanted one. The engine took nothing
  that no record states (`EngineKeepsUnsynced`, which is why that is the theorem): the content a
  record states need not be on the other side any more. A local rename onto the address of a
  deleted object, with the object gone too, resolves without an action and leaves its row
  (`WentUnnoticed`).
* Transfers. A failed action resolves in the pool (executeAction returns it), so the ceiling
  rises with failures, while async-queue.ts:127-128 speaks of clean runs. The managed filesystem
  throws plain errors for a version that changed under a read, which error-bridge.ts takes for
  transient: the read is retried although it cannot succeed. A creation on Drive whose answer is
  lost makes a second object on retry. A case-only rename on Dropbox whose final lookup fails
  leaves the object at the temporary name and reports an ordinary error (`blind` in
  `CaseRenameSettles`).

## 6. Not modelled, and the plan

Left out for good: user interface, logging, settings screens, HTTP wire formats,
module validation: they keep no state that the engine reads.

What the present modules leave out of the code they do model: folders as things that are
renamed, created and pruned by the engine, and case aliases (all cycle modules); the three-way
merge; `withIoRetry`'s repetition of a single call, pagination and the failure of discarding a
view (SyncCycle); a missing or directory endpoint, the address checks of the detached
observation, the namespace-reconciled batch and the effect of a conflict step by step
(PriorityPull); the uncompared `put`, which no sync route calls (SyncStateStore); folder
creation, moves between folders by the device and path-keyed logs (CachingRemote); the
authorisation exchange and the folder picker (Lifecycle). A creation at an occupied address is
taken for refused by the provider in SyncCycle; TransferBatch has what each provider does.

Next, in this order:

1. `DifferencesStayVisible` for any number of addresses, on the lemmas about components and
   sound actions that are there.
2. `ThreeWayMerge`: the merge base read by identity, as operators against a
   reference merge over short sequences.
3. Folder relations in IdentityDecision and folder renames in RenameCycle; case
   aliases and the preservation cover; pruning of empty parents.
4. Listings and logs of Dropbox (paths) and OneDrive beside Drive's in CachingRemote.

------------------------------ MODULE SyncCycle ------------------------------
(***************************************************************************)
(* One vault synchronised with one remote: the local disk and the events    *)
(* Obsidian raises about it, the provider and its change log, the records   *)
(* of what was last synchronised, the durable remote checkpoint, the        *)
(* volatile tracker and working view, and the sync cycle that moves them:   *)
(* snapshot, collection and admission, execution of the admitted actions,   *)
(* closeout.  Every file is a component of its own (no renames, no folders, *)
(* no case aliases), which is what Admission makes of paths that no         *)
(* relation joins.  Which files the settings put in scope may change at any *)
(* time.                                                                    *)
(*                                                                          *)
(* A file version is its content and its mtime.  The size is not kept       *)
(* apart: an edit that keeps mtime and size is QuietEdit, every other edit  *)
(* takes a new mtime.  The change log is kept as the set of paths with an   *)
(* entry after a cursor: unseen after the durable cursor, unread after the  *)
(* working view's.                                                          *)
(***************************************************************************)
EXTENDS Naturals, FiniteSets

CONSTANTS
    Path,           \* file addresses
    Content,        \* file contents
    Large,          \* contents over a mobile device's size limit
    None,           \* no file, no record, no checkpoint, no action
    Strategies,     \* what settings.conflictStrategy may be
    SharedDigest,   \* the provider's checksum is the local hash algorithm
    World,          \* what the surroundings do: the names used below
    MaxEdits,       \* bound: changes users make, on both sides together
    MaxFaults       \* bound: failed calls, failed commits and crashes

ASSUME NoneAssumption == None \notin Content /\ Large \subseteq Content
ASSUME BoundAssumption == MaxEdits \in Nat /\ MaxFaults \in Nat
ASSUME StrategyAssumption ==
    /\ Strategies # {}
    /\ Strategies \subseteq {"duplicate", "auto_merge", "prefer_local"}
    /\ SharedDigest \in BOOLEAN
ASSUME WorldAssumption ==
    World \subseteq {"quiet edit", "local delete", "remote delete",
                     "crash", "rescan", "fatal", "lost response", "scope",
                     "blind"}

VARIABLES
    local,        \* the vault: version of each path, or None
    remote,       \* the provider: version and object identity, or None
    record,       \* SyncRecord of each path, or None
    kept,         \* contents that survive outside Path: copies and the trash
    durable,      \* cache committed with the cursor, or None
    vouched,      \* the scope whose fingerprint was committed with it
    unseen,       \* paths with a log entry after the durable cursor
    view,         \* working view: the cache of the attempt, or None
    unread,       \* paths with a log entry after the view's cursor
    stale,        \* paths that changed at the provider since the view was
                  \* read, other than by an answered request of the program
    scope,        \* paths the settings include
    event,        \* vault events raised and not yet delivered
    dirty,        \* LocalChangeTracker.dirtyPaths
    remarked,     \* paths marked dirty since the snapshot (their generation)
    initialized,  \* LocalChangeTracker.initialized
    unheard,      \* history: paths with an event of this cycle that the
                  \* settings of its moment excluded
    phase,        \* where the orchestrator is
    snap,         \* what the cycle fixed when it began, and the scope policy
                  \* it planned under, or None
    plan,         \* the admitted action of each path, or None
    fatal,        \* an action threw: the batch is aborted
    late,         \* history: paths changed between an action's last look at
                  \* the local file and its write
    missed,       \* history: paths the committed fingerprint stands for that
                  \* a cycle behind it did not plan
    edits, faults \* counters under MaxEdits and MaxFaults

disk == <<local, event, kept, late>>
provider == <<remote, unseen>>
checkpoint == <<durable, vouched, missed>>
tracker == <<dirty, remarked, initialized, unheard>>
working == <<view, unread, stale>>
budget == <<edits, faults>>
vars == <<local, remote, record, kept, durable, vouched, unseen, view, unread,
          stale, scope, event, dirty, remarked, initialized, unheard, phase,
          snap, plan, fatal, late, missed, edits, faults>>

Mtime == 1 .. MaxEdits + 1
Identity == 0 .. 5
Version == [content : Content, mtime : Mtime]
RemoteObject == [content : Content, mtime : Mtime, id : Identity]
Kind == {"push", "pull", "match", "conflict", "delete_local",
         "delete_remote", "cleanup", "refused"}
Step == {"check", "capture", "recheck", "write local", "delete local",
         "compare", "write remote", "delete remote", "publish", "done", "failed"}
Action ==
    [kind : Kind, step : Step,
     local : [content : Content \cup {None}, mtime : Mtime] \cup {None},
     remote : RemoteObject \cup {None},
     took : Version \cup {None}, mine : Content \cup {None},
     mode : {"preserve", "local_win", "auto_merge", None}]

Snapshot ==
    [dirty : SUBSET Path, initialized : BOOLEAN, force : BOOLEAN,
     fingerprint : SUBSET Path, strategy : Strategies, included : SUBSET Path]

(* Nothing is none of the values it stands beside.                          *)
ASSUME NothingAssumption ==
    /\ None \notin Version /\ None \notin RemoteObject
    /\ None \notin Action /\ None \notin Snapshot
    /\ None \notin [Path -> RemoteObject \cup {None}]
    /\ None \notin [content : Content \cup {None}, mtime : Mtime]
    /\ None \notin Kind \cup {"preserve", "local_win", "auto_merge"}

TypeOK ==
    /\ local \in [Path -> Version \cup {None}]
    /\ remote \in [Path -> RemoteObject \cup {None}]
    /\ record \in [Path -> RemoteObject \cup {None}]
    /\ kept \in [Path -> SUBSET Content]
    /\ durable \in [Path -> RemoteObject \cup {None}] \cup {None}
    /\ view \in [Path -> RemoteObject \cup {None}] \cup {None}
    /\ unseen \subseteq Path /\ unread \subseteq Path /\ stale \subseteq Path
    /\ event \subseteq Path /\ dirty \subseteq Path /\ remarked \subseteq dirty
    /\ unheard \subseteq Path
    /\ initialized \in BOOLEAN /\ fatal \in BOOLEAN
    /\ phase \in {"off", "idle", "snapped", "run", "ack"}
    /\ scope \subseteq Path
    /\ vouched \subseteq Path /\ missed \subseteq vouched
    /\ snap \in Snapshot \cup {None}
    /\ plan \in [Path -> Action \cup {None}]
    /\ late \subseteq Path
    /\ edits \in 0 .. MaxEdits /\ faults \in 0 .. MaxFaults

(***************************************************************************)
(* A fresh installation: the vault and the remote hold anything, nothing    *)
(* has been synchronised yet.                                               *)
(***************************************************************************)
Init ==
    /\ local \in [Path -> [content : Content, mtime : {1}] \cup {None}]
    /\ remote \in [Path -> [content : Content, mtime : {1}, id : {0}]
                           \cup {None}]
    /\ record = [p \in Path |-> None]
    /\ kept = [p \in Path |-> {}]
    /\ durable = None /\ unseen = {} /\ vouched = {} /\ missed = {}
    /\ scope \in IF "scope" \in World THEN SUBSET Path ELSE {Path}
    /\ view = None /\ unread = {} /\ stale = {}
    /\ event = {} /\ dirty = {} /\ remarked = {} /\ initialized = FALSE
    /\ unheard = {} /\ phase = "idle" /\ snap = None /\ fatal = FALSE
    /\ plan = [p \in Path |-> None]
    /\ late = {} /\ edits = 0 /\ faults = 0

-----------------------------------------------------------------------------
(* The surroundings: users on both sides, event delivery, the process.      *)

Now == edits + 2                       \* the mtime of the next edit
Budgeted == edits < MaxEdits /\ edits' = edits + 1 /\ UNCHANGED faults

(* A conflict admitted without a local file takes its absence for granted   *)
(* once it was checked.                                                     *)
TrustsAbsence(p) == plan[p].kind = "conflict" /\ plan[p].local = None

(* The action of p has looked at the local file for the last time.          *)
LookedLast(p) ==
    /\ plan[p] # None
    /\ \/ plan[p].step \in {"write local", "delete local"}
       \/ TrustsAbsence(p) /\ plan[p].step \in {"capture", "recheck"}

(* Obsidian raises an event only for a change made while it is running. *)
Raise(p) ==
    /\ event' = IF phase = "off" THEN event ELSE event \cup {p}
    /\ late' = IF LookedLast(p) THEN late \cup {p} ELSE late

LocalEdit(p, c) ==
    /\ Budgeted
    /\ local' = [local EXCEPT ![p] = [content |-> c, mtime |-> Now]]
    /\ Raise(p)
    /\ UNCHANGED <<scope, kept, provider, record, checkpoint, working,
                   tracker, phase, snap, plan, fatal>>

(* A write that leaves mtime and size as they were. *)
QuietEdit(p, c) ==
    /\ "quiet edit" \in World /\ Budgeted
    /\ local[p] # None /\ local[p].content # c
    /\ c \in Large <=> local[p].content \in Large
    /\ local' = [local EXCEPT ![p].content = c]
    /\ Raise(p)
    /\ UNCHANGED <<scope, kept, provider, record, checkpoint, working,
                   tracker, phase, snap, plan, fatal>>

LocalDelete(p) ==
    /\ "local delete" \in World /\ Budgeted
    /\ local[p] # None
    /\ local' = [local EXCEPT ![p] = None]
    /\ Raise(p)
    /\ UNCHANGED <<scope, kept, provider, record, checkpoint, working,
                   tracker, phase, snap, plan, fatal>>

(* The provider appends every change to the log behind every cursor.       *)
Logged(p) ==
    /\ unseen' = IF durable = None THEN unseen ELSE unseen \cup {p}
    /\ unread' = IF view = None THEN unread ELSE unread \cup {p}

(* The provider never gives the identity of an object to another one. *)
FreshIdentity(p) ==
    CHOOSE i \in Identity :
        \A o \in {remote[p], record[p]}
                 \cup (IF durable = None THEN {} ELSE {durable[p]})
                 \cup (IF view = None THEN {} ELSE {view[p]})
                 \cup (IF plan[p] = None THEN {} ELSE {plan[p].remote}) :
            o # None => o.id # i

IdentityAt(p, object) == IF object = None THEN FreshIdentity(p) ELSE object.id

RemoteEdit(p, c) ==
    /\ Budgeted /\ Logged(p)
    /\ remote' = [remote EXCEPT ![p] =
           [content |-> c, mtime |-> Now, id |-> IdentityAt(p, remote[p])]]
    /\ stale' = IF view = None THEN stale ELSE stale \cup {p}
    /\ UNCHANGED <<scope, disk, record, checkpoint, view, tracker, phase,
                   snap, plan, fatal>>

RemoteDelete(p) ==
    /\ "remote delete" \in World /\ Budgeted /\ Logged(p)
    /\ remote[p] # None
    /\ remote' = [remote EXCEPT ![p] = None]
    /\ stale' = IF view = None THEN stale ELSE stale \cup {p}
    /\ UNCHANGED <<scope, disk, record, checkpoint, view, tracker, phase,
                   snap, plan, fatal>>

(* What the settings of this moment include. *)
NotExcluded(paths) == paths \cap scope

(* The vault listener marks the path, whoever made the change, unless the   *)
(* settings of that moment exclude it.                                      *)
Deliver(p) ==
    /\ p \in event
    /\ event' = event \ {p}
    /\ dirty' = dirty \cup NotExcluded({p})
    /\ remarked' = IF snap = None THEN remarked
                   ELSE remarked \cup NotExcluded({p})
    /\ unheard' = IF snap = None THEN unheard
                  ELSE unheard \cup ({p} \ NotExcluded({p}))
    /\ UNCHANGED <<scope, local, kept, late, provider, record, checkpoint,
                   working, initialized, phase, snap, plan, fatal, budget>>

(* The user widens, narrows or exchanges what is synchronised. *)
ChangeScope ==
    /\ "scope" \in World /\ Budgeted
    /\ scope' \in SUBSET Path \ {scope}
    /\ UNCHANGED <<disk, provider, record, checkpoint, working, tracker, phase,
                   snap, plan, fatal>>

Crash ==
    /\ "crash" \in World /\ phase # "off" /\ faults < MaxFaults
    /\ faults' = faults + 1
    /\ phase' = "off" /\ snap' = None /\ fatal' = FALSE
    /\ plan' = [p \in Path |-> None]
    /\ view' = None /\ unread' = {} /\ stale' = {}
    /\ event' = {} /\ dirty' = {} /\ remarked' = {} /\ initialized' = FALSE
    /\ late' = {} /\ unheard' = {}
    /\ UNCHANGED <<scope, local, kept, provider, record, checkpoint, edits>>

Restart ==
    /\ phase = "off" /\ phase' = "idle"
    /\ UNCHANGED <<scope, disk, provider, record, checkpoint, working,
                   tracker, snap, plan, fatal, budget>>

(* Rescan discards the checkpoint while no cycle runs. *)
Rescan ==
    /\ "rescan" \in World /\ phase = "idle" /\ durable # None
    /\ faults < MaxFaults /\ faults' = faults + 1
    /\ durable' = None /\ unseen' = {} /\ vouched' = {} /\ missed' = {}
    /\ UNCHANGED <<scope, disk, remote, record, working, tracker, phase,
                   snap, plan, fatal, edits>>

-----------------------------------------------------------------------------
(* The cycle: runSync's snapshot, then collection and admission.            *)

(* Two policies with one fingerprint include the same paths. *)
ScopeFingerprint == scope

HasCheckpoint == durable # None

(* Mutant: only a missing checkpoint makes a cycle cold. *)
ForcesWithoutCheckpoint == ~HasCheckpoint

(* Another fingerprint than the committed one makes the cycle cold: what    *)
(* was out of scope when the cursor passed it is in no log any more.        *)
ForcesFullScan == ~HasCheckpoint \/ vouched # ScopeFingerprint

(* What is fixed when the cycle begins: the marks, the strategy and the     *)
(* fingerprint of the scope.                                                *)
Begin ==
    /\ phase = "idle"
    /\ phase' = "snapped"
    /\ \E strategy \in Strategies :
          snap' = [dirty |-> dirty, initialized |-> initialized,
                   force |-> ForcesFullScan,
                   fingerprint |-> ScopeFingerprint, strategy |-> strategy,
                   included |-> {}]
    /\ remarked' = {} /\ unheard' = {}
    /\ UNCHANGED <<scope, disk, provider, record, checkpoint, working, dirty,
                   initialized, plan, fatal, budget>>

(* The remote side: a full scan without a checkpoint, otherwise the cached  *)
(* map brought up to date by the log.  A tombstone names a path only if     *)
(* the cache still holds the object it is about.                            *)
Acquired == [p \in Path |-> IF durable = None \/ p \in unseen
                              THEN remote[p] ELSE durable[p]]
ReportedDeleted ==
    IF durable = None THEN {}
    ELSE {p \in unseen : durable[p] # None /\ remote[p] = None}
Reported ==
    IF durable = None THEN {}
    ELSE {p \in unseen : durable[p] # None \/ remote[p] # None}

NoRecords == \A p \in Path : record[p] = None
Hot == ~snap.force /\ snap.initialized /\ snap.dirty # {}
Cold == ~Hot /\ (snap.force \/ NoRecords)

(* What is read of a local file: its hash only where the file is read.      *)
Listed(p) == IF local[p] = None THEN None
             ELSE [content |-> None, mtime |-> local[p].mtime]
Stated(p) == local[p]

(* A hot probe that meets an address without a record adds the warm         *)
(* listing to it; the addresses it read keep their hashes.                  *)
Promoted ==
    /\ Hot
    /\ \E p \in snap.dirty \cup Reported :
        /\ record[p] = None
        /\ p \in snap.dirty \/ local[p] # None \/ Acquired[p] # None
Observed(p) == IF Hot /\ p \in snap.dirty \cup Reported THEN Stated(p)
               ELSE Listed(p)

(* Local and remote change since the record, and provable equality.         *)
LocalDiffers(l, b) == IF l.content # None THEN l.content # b.content
                      ELSE l.mtime # b.mtime
RemoteDiffers(r, b) == r.content # b.content
SameContent(p, l, r) ==
    IF l.content = None THEN record[p] = None /\ local[p].content = r.content
    ELSE SharedDigest /\ l.content = r.content

ListedPaths ==
    {p \in Path :
        \/ local[p] # None /\ record[p] = None
        \/ local[p] # None /\ record[p] # None
           /\ LocalDiffers(Listed(p), record[p])
        \/ local[p] = None /\ record[p] # None}
Entries ==
    CASE Cold -> {p \in Path : \/ local[p] # None \/ Acquired[p] # None
                               \/ record[p] # None}
      [] Hot /\ ~Promoted -> snap.dirty \cup Reported
      [] OTHER -> ListedPaths \cup Reported
                  \cup IF Hot THEN snap.dirty ELSE {}

(* compareContent over the two sides and the record; a record of another    *)
(* object than the one now at the address is no common base.                *)
NoBase(r, b) == b = None \/ b.id # r.id

ReadsConflicts == snap.strategy = "prefer_local"

(* Prefer local reads both sides of a file that seems changed on both, so   *)
(* that the decision rests on their hashes.                                 *)
Enriched(p) ==
    /\ ReadsConflicts
    /\ Observed(p) # None /\ Acquired[p] # None
    /\ ~NoBase(Acquired[p], record[p])
    /\ LocalDiffers(Observed(p), record[p])
    /\ RemoteDiffers(Acquired[p], record[p])
Known(p) == IF Enriched(p) THEN Stated(p) ELSE Observed(p)
Same(p) == IF Enriched(p) THEN local[p].content = Acquired[p].content
           ELSE SameContent(p, Observed(p), Acquired[p])

ComparedBoth(p, l, r, b) ==
    LET same == Same(p)
        localDiffers == NoBase(r, b) \/ LocalDiffers(l, b)
        remoteDiffers == NoBase(r, b) \/ RemoteDiffers(r, b)
    IN  CASE same /\ (localDiffers \/ remoteDiffers) -> "match"
          [] ~same /\ localDiffers /\ remoteDiffers -> "conflict"
          [] ~same /\ localDiffers /\ ~remoteDiffers -> "push"
          [] ~same /\ ~localDiffers /\ remoteDiffers -> "pull"
          [] OTHER -> None

Compared(p, l, r, b) ==
    CASE l # None /\ r # None -> ComparedBoth(p, l, r, b)
      [] l # None /\ r = None /\ b = None -> "push"
      [] l = None /\ r # None /\ b = None -> "pull"
      [] l # None /\ r = None /\ b # None ->
            IF LocalDiffers(l, b) THEN "conflict" ELSE "delete_local"
      [] l = None /\ r # None /\ b # None ->
            IF RemoteDiffers(r, b) THEN "conflict" ELSE "delete_remote"
      [] l = None /\ r = None -> IF b = None THEN None ELSE "cleanup"

(* A local file is deleted only on the log's word that the remote one was.  *)
DeletionAuthority(p) == ~Cold /\ p \in ReportedDeleted

Admitted(p) ==
    LET kind == Compared(p, Known(p), Acquired[p], record[p])
    IN  IF kind = "delete_local" /\ ~DeletionAuthority(p)
          THEN "refused" ELSE kind

FirstStep(kind) ==
    CASE kind = "match" -> "publish"
      [] kind = "refused" -> "failed"
      [] OTHER -> "check"

(* A match without a record was proved by reading the local file.           *)
AdmittedLocal(p) ==
    IF Admitted(p) = "match" THEN Stated(p) ELSE Known(p)

(* Mutant: the local version wins whatever is known of the object before. *)
LocalWinUnproved(l, r, b) == l # None /\ r # None

(* All three hashes are known, the record is of this object and both sides  *)
(* left it, each in its own way.                                            *)
LocalWinProof(l, r, b) ==
    /\ l # None /\ r # None /\ ~NoBase(r, b)
    /\ l.content \notin {None, b.content, r.content}
    /\ r.content # b.content

(* The strategy becomes a policy of the action; prefer_local without its    *)
(* proof preserves.                                                         *)
ConflictMode(p) ==
    CASE Admitted(p) # "conflict" -> None
      [] Admitted(p) = "conflict" /\ snap.strategy = "auto_merge" -> "auto_merge"
      [] OTHER -> IF /\ snap.strategy = "prefer_local"
                     /\ LocalWinProof(Known(p), Acquired[p], record[p])
                    THEN "local_win" ELSE "preserve"

AdmittedAction(p) ==
    [kind |-> Admitted(p), step |-> FirstStep(Admitted(p)),
     local |-> AdmittedLocal(p), remote |-> Acquired[p],
     took |-> None, mine |-> None, mode |-> ConflictMode(p)]

(* A file too large for this device on either side is left for later.       *)
Deferred(p) ==
    \E v \in {local[p], Acquired[p]} : v # None /\ v.content \in Large
Included == {p \in NotExcluded(Path) : ~Deferred(p)}
Planned(p) == p \in Entries \cap Included /\ Admitted(p) # None

(* The scope first, then what only prefer_local reads, then admission.      *)
Prepared == [p \in Path |-> IF Planned(p) THEN AdmittedAction(p) ELSE None]

(* Collection and admission read every side once and plan every path that   *)
(* the settings, read again for this, include.                              *)
Collect ==
    /\ phase = "snapped"
    /\ view' = Acquired /\ unread' = {} /\ stale' = {}
    /\ plan' = Prepared
    /\ phase' = "run" /\ snap' = [snap EXCEPT !.included = Included]
    /\ UNCHANGED <<scope, disk, provider, record, checkpoint, tracker, fatal,
                   budget>>

(* A failed attempt is repeated with the snapshot it had, or reported.      *)
CollectFails ==
    /\ phase = "snapped" /\ faults < MaxFaults
    /\ faults' = faults + 1
    /\ phase' = "idle" /\ snap' = None /\ remarked' = {} /\ unheard' = {}
    /\ UNCHANGED <<scope, disk, provider, record, checkpoint, working, dirty,
                   initialized, plan, fatal, edits>>

-----------------------------------------------------------------------------
(* Execution: independent actions run side by side, then the others one at  *)
(* a time.                                                                  *)

Finished(p) == plan[p] = None \/ plan[p].step \in {"done", "failed"}
Pooled(p) == plan[p].kind \in {"push", "pull", "match"}
Started(p) == ~Finished(p) /\ plan[p].step # FirstStep(plan[p].kind)
MayStart(p) ==
    /\ ~fatal
    /\ ~Pooled(p) => \A q \in Path \ {p} :
                        ~Finished(q) => ~Pooled(q) /\ ~Started(q)

(* The action of p is at this step, and may take it. *)
At(p, step) ==
    /\ phase = "run" /\ plan[p] # None /\ plan[p].step = step
    /\ ~Started(p) => MayStart(p)

Advance(p, step) == plan' = [plan EXCEPT ![p].step = step]

(* unchangedEndpoint on the disk.  The same check of the remote side reads  *)
(* the cache, where nothing but the action itself moves the path.           *)
LocalUnchanged(p) ==
    IF plan[p].local = None THEN local[p] = None
    ELSE local[p] # None /\ ~LocalDiffers(plan[p].local, local[p])

AfterCheck(kind) ==
    CASE kind \in {"push", "pull", "conflict"} -> "capture"
      [] kind = "delete_local" -> "delete local"
      [] kind = "delete_remote" -> "compare"
      [] OTHER -> "publish"

Check(p) ==
    /\ At(p, "check")
    /\ Advance(p, IF LocalUnchanged(p) THEN AfterCheck(plan[p].kind)
                  ELSE "failed")
    /\ late' = late \ {p}
    /\ UNCHANGED <<scope, local, event, kept, provider, record, checkpoint,
                   working, tracker, phase, snap, fatal, budget>>

(* Mutant: a listing without a hash proves nothing. *)
LocalReadableIfHashed(p) ==
    /\ local[p] # None
    /\ plan[p].local.content = local[p].content

(* What captureContentSnapshot proves of each source it reads.              *)
LocalReadable(p) ==
    /\ local[p] # None
    /\ plan[p].local.content \in {None, local[p].content}
RemoteReadable(p) ==
    /\ remote[p] # None
    /\ remote[p].id = plan[p].remote.id
    /\ remote[p].content = plan[p].remote.content
Readable(p) ==
    /\ plan[p].kind = "pull" \/ plan[p].local = None \/ LocalReadable(p)
    /\ plan[p].kind = "push" \/ plan[p].remote = None \/ RemoteReadable(p)

RemoteVersion(p) == [content |-> plan[p].remote.content,
                     mtime |-> plan[p].remote.mtime]

(* A local win without its proof is refused before anything is read.        *)
ContractHolds(p) ==
    plan[p].mode = "local_win" =>
        LocalWinProof(plan[p].local, plan[p].remote, record[p])

(* resolvePreparedWithPolicy: which version is written to both sides.       *)
KeepsRemote(p) ==
    \/ plan[p].local = None
    \/ /\ plan[p].remote # None /\ plan[p].mode = "auto_merge"
       /\ plan[p].local.mtime < plan[p].remote.mtime
Duplicates(p) ==
    /\ plan[p].remote # None /\ plan[p].local # None
    /\ \/ plan[p].mode = "preserve"
       \/ /\ plan[p].mode = "auto_merge"
          /\ plan[p].local.mtime = plan[p].remote.mtime
          /\ local[p].content # remote[p].content
Chosen(p) ==
    CASE plan[p].kind = "push" -> local[p]
      [] plan[p].kind = "pull" -> RemoteVersion(p)
      [] plan[p].kind = "conflict" ->
            IF KeepsRemote(p) THEN RemoteVersion(p)
            ELSE [content |-> local[p].content, mtime |-> plan[p].local.mtime]
(* The local version stays where it is, so only the remote one is copied.   *)
Preserved(p) ==
    IF plan[p].kind = "conflict" /\ Duplicates(p) THEN {remote[p].content} ELSE {}

(* Both sources are read; a conflict that keeps both has the remote version *)
(* copied to both sides before either original is touched.                  *)
Capture(p) ==
    /\ At(p, "capture")
    /\ IF ContractHolds(p) /\ Readable(p)
         THEN /\ plan' = [plan EXCEPT ![p].step = "recheck",
                          ![p].took = Chosen(p),
                          ![p].mine = IF plan[p].kind = "conflict" /\ plan[p].local # None
                                        THEN local[p].content ELSE None]
              /\ kept' = [kept EXCEPT ![p] = @ \cup Preserved(p)]
         ELSE Advance(p, "failed") /\ UNCHANGED kept
    /\ UNCHANGED <<scope, local, event, late, provider, record, checkpoint,
                   working, tracker, phase, snap, fatal, budget>>

(* The endpoints are looked at again after the reads, before any write; but *)
(* a conflict looks again only at a file it read.                           *)
SourceUnchanged(p) ==
    plan[p].mine # None => local[p] # None /\ local[p].content = plan[p].mine
StillAdmitted(p) ==
    TrustsAbsence(p) \/ (LocalUnchanged(p) /\ SourceUnchanged(p))

Recheck(p) ==
    /\ At(p, "recheck")
    /\ Advance(p, IF ~StillAdmitted(p) THEN "failed"
                  ELSE IF plan[p].kind = "push" THEN "compare"
                  ELSE "write local")
    /\ UNCHANGED <<scope, disk, provider, record, checkpoint, working,
                   tracker, phase, snap, fatal, budget>>

(* The program's own write raises a vault event like any other.             *)
WriteLocal(p) ==
    /\ At(p, "write local")
    /\ local' = [local EXCEPT ![p] = plan[p].took]
    /\ event' = event \cup {p} /\ late' = late \ {p}
    /\ Advance(p, IF plan[p].kind = "conflict" THEN "compare"
                  ELSE "publish")
    /\ UNCHANGED <<scope, kept, provider, record, checkpoint, working,
                   tracker, phase, snap, fatal, budget>>

(* The vault moves a deleted file to the trash.                             *)
DeleteLocal(p) ==
    /\ At(p, "delete local")
    /\ local' = [local EXCEPT ![p] = None]
    /\ kept' = [kept EXCEPT ![p] = @ \cup
                    (IF local[p] = None THEN {} ELSE {local[p].content})]
    /\ event' = event \cup {p} /\ late' = late \ {p}
    /\ Advance(p, "publish")
    /\ UNCHANGED <<scope, provider, record, checkpoint, working, tracker,
                   phase, snap, fatal, budget>>

(* The object the cache names is still at the path.                         *)
Addressed(p) == remote[p] # None /\ remote[p].id = view[p].id

(* The adapter fetches the object and compares it with the cached version.  *)
(* To delete what is gone succeeds without a request.                       *)
Compare(p) ==
    /\ At(p, "compare")
    /\ \/ /\ p \notin stale
          /\ Advance(p, IF plan[p].kind = "delete_remote" THEN "delete remote"
                        ELSE "write remote")
          /\ UNCHANGED view
       \/ /\ p \in stale /\ plan[p].kind = "delete_remote" /\ ~Addressed(p)
          /\ Advance(p, "publish")
          /\ view' = [view EXCEPT ![p] = None]
       \/ /\ p \in stale /\ (plan[p].kind = "delete_remote" => Addressed(p))
          /\ Advance(p, "failed")
          /\ UNCHANGED view
    /\ UNCHANGED <<scope, disk, provider, record, checkpoint, unread, stale,
                   tracker, phase, snap, fatal, budget>>

(* The request after it.  Where it carries the version as a precondition,   *)
(* the provider refuses what changed since; Google Drive takes no           *)
(* precondition, and a file of its trash takes the content like any other.  *)
(* Dropbox deletes whatever is at the path.                                 *)
Takes(p) == p \notin stale \/ ("blind" \in World /\ view[p] # None)
Lands(p) == p \notin stale \/ Addressed(p)

Uploaded(p) == [content |-> plan[p].took.content, mtime |-> plan[p].took.mtime,
               id |-> IdentityAt(p, view[p])]
Result(p) == IF plan[p].kind = "delete_remote" THEN None ELSE Uploaded(p)

Mutates(p) ==
    /\ At(p, "write remote") \/ At(p, "delete remote")
    /\ Takes(p) /\ Logged(p)
    /\ \/ /\ Lands(p) \/ plan[p].kind = "delete_remote"
          /\ remote' = [remote EXCEPT ![p] = Result(p)]
       \/ ~Lands(p) /\ UNCHANGED remote

(* The answer seats the result in the cache.                                *)
MutateRemote(p) ==
    /\ Mutates(p)
    /\ view' = [view EXCEPT ![p] = Result(p)] /\ UNCHANGED stale
    /\ Advance(p, "publish")
    /\ UNCHANGED <<scope, disk, record, checkpoint, tracker, phase, snap,
                   fatal, budget>>

(* The provider refuses, or the object is not there any more.               *)
RefuseRemote(p) ==
    /\ At(p, "write remote") \/ At(p, "delete remote")
    /\ p \in stale
    /\ Advance(p, "failed")
    /\ UNCHANGED <<scope, disk, provider, record, checkpoint, working, tracker,
                   phase, snap, fatal, budget>>

(* The mutation reaches the provider and its answer is lost.                *)
ResponseLost(p) ==
    /\ "lost response" \in World /\ faults < MaxFaults
    /\ Mutates(p) /\ stale' = stale \cup {p}
    /\ Advance(p, "failed")
    /\ faults' = faults + 1
    /\ UNCHANGED <<scope, disk, record, checkpoint, view, tracker, phase,
                   snap, fatal, edits>>

(* proveAdmittedTerminal and commitAction: what the record binds.           *)
Proved(p) ==
    plan[p].kind \in {"pull", "conflict"} =>
        local[p] # None /\ local[p].content = plan[p].took.content
(* Mutant: the pushed revision is described by the file as it is now.       *)
TerminalOfPresentFile(p) ==
    CASE plan[p].kind \in {"push", "pull", "conflict"} ->
            [content |-> plan[p].took.content,
             mtime |-> IF local[p] = None THEN plan[p].took.mtime ELSE local[p].mtime,
             id |-> view[p].id]
      [] plan[p].kind = "match" ->
            [content |-> plan[p].remote.content, mtime |-> plan[p].local.mtime,
             id |-> plan[p].remote.id]
      [] OTHER -> None
Terminal(p) ==
    CASE plan[p].kind = "push" ->
            [content |-> plan[p].took.content, mtime |-> plan[p].took.mtime,
             id |-> view[p].id]
      [] plan[p].kind = "match" ->
            [content |-> plan[p].remote.content, mtime |-> plan[p].local.mtime,
             id |-> plan[p].remote.id]
      [] plan[p].kind \in {"pull", "conflict"} ->
            [content |-> plan[p].took.content, mtime |-> local[p].mtime,
             id |-> view[p].id]
      [] OTHER -> None

Publish(p) ==
    /\ At(p, "publish")
    /\ IF Proved(p)
         THEN /\ record' = [record EXCEPT ![p] = Terminal(p)]
              /\ Advance(p, "done")
         ELSE Advance(p, "failed") /\ UNCHANGED record
    /\ UNCHANGED <<scope, disk, provider, checkpoint, working, tracker,
                   phase, snap, fatal, budget>>

(* A call fails for good.  A rejected credential aborts the whole batch:    *)
(* what runs settles, what has not begun does not begin.                    *)
Fails(p) ==
    /\ phase = "run" /\ plan[p] # None /\ ~Finished(p)
    /\ ~Started(p) => MayStart(p)
    /\ faults < MaxFaults /\ faults' = faults + 1
    /\ Advance(p, "failed")
    /\ fatal' \in IF "fatal" \in World THEN BOOLEAN ELSE {fatal}
    /\ fatal => fatal'
    /\ UNCHANGED <<scope, disk, provider, record, checkpoint, working,
                   tracker, phase, snap, edits>>

-----------------------------------------------------------------------------
(* Closeout: the checkpoint is committed last, and only by a clean attempt. *)

Settled == \A p \in Path : ~Finished(p) => fatal /\ ~Started(p)
(* Mutant: a failed action counts as finished. *)
CleanWhenSettled == ~fatal

Clean == ~fatal /\ \A p \in Path : plan[p] # None => plan[p].step = "done"

DiscardView ==
    /\ view' = None /\ unread' = {} /\ stale' = {}
    /\ plan' = [p \in Path |-> None] /\ fatal' = FALSE

(* The fingerprint saved is the one of the beginning.                       *)
Vouch ==
    /\ vouched' = snap.fingerprint
    /\ missed' = (IF snap.force THEN {} ELSE missed \cap snap.fingerprint)
                 \cup (snap.fingerprint \ snap.included)

(* After the commit the view equals the checkpoint, so it is not kept.      *)
Commit ==
    /\ phase = "run" /\ Settled /\ Clean
    /\ durable' = view /\ unseen' = unread /\ Vouch
    /\ DiscardView
    /\ phase' = "ack"
    /\ UNCHANGED <<scope, disk, remote, record, tracker, snap, budget>>

Abandon ==
    /\ DiscardView
    /\ phase' = "idle" /\ snap' = None /\ remarked' = {} /\ unheard' = {}
    /\ UNCHANGED <<scope, disk, provider, record, checkpoint, dirty,
                   initialized>>

(* An attempt that ended in an error is repeated with the snapshot it had.  *)
Repeat ==
    /\ DiscardView
    /\ phase' = "snapped"
    /\ UNCHANGED <<scope, disk, provider, record, checkpoint, tracker, snap>>

CloseIncomplete ==
    /\ phase = "run" /\ Settled /\ ~Clean
    /\ UNCHANGED budget
    /\ Abandon \/ (fatal /\ Repeat)

(* A failed commit is an error of the attempt.                              *)
CommitFails ==
    /\ phase = "run" /\ Settled /\ Clean
    /\ faults < MaxFaults /\ faults' = faults + 1 /\ UNCHANGED edits
    /\ Abandon \/ Repeat

(* Mutant: a mark made during the cycle is consumed with the snapshot.      *)
AcknowledgeWholeSnapshot ==
    /\ phase = "ack"
    /\ dirty' = dirty \ snap.dirty
    /\ initialized' = TRUE /\ remarked' = {} /\ unheard' = {}
    /\ phase' = "idle" /\ snap' = None
    /\ UNCHANGED <<scope, disk, provider, record, checkpoint, working, plan,
                   fatal, budget>>

(* Exactly what the snapshot held and nobody marked again is consumed.      *)
Acknowledge ==
    /\ phase = "ack"
    /\ dirty' = dirty \ (snap.dirty \ remarked)
    /\ initialized' = TRUE /\ remarked' = {} /\ unheard' = {}
    /\ phase' = "idle" /\ snap' = None
    /\ UNCHANGED <<scope, disk, provider, record, checkpoint, working, plan,
                   fatal, budget>>

Execute(p) ==
    \/ Check(p) \/ Capture(p) \/ Recheck(p)
    \/ WriteLocal(p) \/ DeleteLocal(p)
    \/ Compare(p) \/ MutateRemote(p) \/ RefuseRemote(p)
    \/ Publish(p)
Cycle ==
    \/ Begin \/ Collect \/ Commit \/ CloseIncomplete \/ Acknowledge
    \/ \E p \in Path : Execute(p)
Disturb ==
    \/ CollectFails \/ CommitFails \/ Crash \/ Rescan
    \/ \E p \in Path : Fails(p) \/ ResponseLost(p)
Users ==
    \E p \in Path :
        \/ LocalDelete(p) \/ RemoteDelete(p)
        \/ \E c \in Content : LocalEdit(p, c) \/ QuietEdit(p, c) \/ RemoteEdit(p, c)
Next ==
    \/ Cycle \/ Disturb \/ Users \/ ChangeScope \/ Restart
    \/ \E p \in Path : Deliver(p)

Spec == Init /\ [][Next]_vars

(* Every call returns or fails, events are delivered, the application is    *)
(* opened again and some trigger (a change, the focus, the foreground)      *)
(* starts another cycle.                                                    *)
FairSpec ==
    /\ Spec
    /\ WF_vars(Cycle) /\ WF_vars(Restart)
    /\ \A p \in Path : WF_vars(Deliver(p)) /\ WF_vars(Execute(p))

-----------------------------------------------------------------------------
(* Properties.                                                              *)

Agrees(p) == record[p] # None /\ record[p].content = remote[p].content
                              /\ record[p].id = remote[p].id

(* Whatever fails, crashes or is repeated, and however the scope moves: a   *)
(* remote file of the scope the checkpoint vouches for, which the log will  *)
(* not report again, is one whose record was published.  A checkpoint that  *)
(* covered an unpublished change would hide it from every later cycle       *)
(* (ADR 0001, commit last; ADR 0008, widened scope).                        *)
RemoteChangesStayVisible ==
    durable # None =>
        \A p \in vouched \ missed :
            remote[p] # None /\ p \notin unseen => Agrees(p)

(* While the application runs, a local file that is not what its record     *)
(* says is one a later cycle will still look at: an event or a dirty mark   *)
(* is waiting, or its metadata tells it apart in a listing.                 *)
LocalChangesStayVisible ==
    \A p \in Path :
        local[p] # None /\ record[p] # None /\ local[p].content # record[p].content
        => p \in event \cup dirty \/ local[p].mtime # record[p].mtime

(* What the program replaces or removes on one side is never the only copy: *)
(* it was the recorded base, is on the other side, in a conflict copy or    *)
(* the trash.  Out of reach are a local change after the action's last look *)
(* at the file, which for a conflict without a local file is the one before *)
(* the download (late), and a change at a provider without preconditions    *)
(* after the adapter compared (stale, when the request is sent).  Only      *)
(* auto_merge without a merge base gives a version up, and then only the    *)
(* older one (docs/conflict-resolution.md, newer wins), and prefer_local    *)
(* the remote edit of an object the user edited here since it was recorded. *)
Survives(p, v) ==
    \/ record[p] # None /\ record[p].content = v.content
    \/ local'[p] # None /\ local'[p].content = v.content
    \/ remote'[p] # None /\ remote'[p].content = v.content
    \/ v.content \in kept'[p]
    \/ /\ plan[p] # None /\ plan[p].mode = "auto_merge"
       /\ \/ v.mtime < plan[p].took.mtime
          \/ /\ v.content = plan[p].mine       \* rewritten, not edited, since
             /\ plan[p].local.mtime < plan[p].took.mtime
    \/ /\ plan[p] # None /\ plan[p].mode = "local_win"
       /\ v = remote[p] /\ record[p] # None
       /\ record[p].id = v.id /\ record[p].content # v.content
       /\ plan[p].took.content # record[p].content
Program == edits' = edits
NoVersionLost ==
    [][Program => \A p \in Path :
          /\ local[p] # None /\ local'[p] # local[p] /\ p \notin late
             => Survives(p, local[p])
          /\ remote[p] # None /\ remote'[p] # remote[p] /\ p \notin stale
             => Survives(p, remote[p])]_vars

(* A cycle that reads what it was told about consumes no mark of a file it  *)
(* planned for whose content it did not publish, even if the edit kept      *)
(* mtime and size (change-20260908-bounded-rename-tracking, C10); unless    *)
(* the settings excluded the file when its event came.                      *)
HotConsumesWhatItRead ==
    [][Acknowledge /\ snap.initialized /\ ~snap.force =>
          \A p \in dirty \ dirty' :
             \/ p \in event \cup unheard \/ p \notin snap.included
             \/ local[p] = None /\ record[p] = None
             \/ local[p] # None /\ record[p] # None
                /\ local[p].content = record[p].content]_vars

(* The log's word for a remote deletion is not lost while the file's record *)
(* stands.                                                                  *)
DeletionsStayVisible ==
    durable # None =>
        \A p \in Path : record[p] # None /\ remote[p] = None => p \in unseen

InSync(p) ==
    \/ local[p] = None /\ remote[p] = None /\ record[p] = None
    \/ /\ local[p] # None /\ remote[p] # None /\ record[p] # None
       /\ local[p].content = remote[p].content /\ Agrees(p)

(* Once the users and the faults stop, both sides and the records agree on  *)
(* every path in scope and a checkpoint says so, for good.                  *)
Converges ==
    <>[](/\ durable # None /\ vouched = scope
         /\ \A p \in scope \ missed : InSync(p))

=============================================================================

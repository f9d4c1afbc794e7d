----------------------------- MODULE RemoteDelta -----------------------------
(***************************************************************************)
(* How a delta of the provider's log is applied to a metadata cache and    *)
(* reported to the sync engine (fs/caching/id-delta.ts,                    *)
(* fs/managed/delta-projection.ts, and the classification in               *)
(* fs/caching/remote-fs.ts).  A drain is a record: the cache it works on,  *)
(* the paths and rename pairs it reports, the folders that entered the     *)
(* root, and the contentions that stand, in the order they were held.      *)
(***************************************************************************)
EXTENDS MetadataCache

Drain(cache) ==
  [cache |-> cache, changed |-> {}, renamed |-> {}, entered |-> {}, standing |-> <<>>]

\* An entry carries the object, or nothing when it is a tombstone.
Entry(id, object) == [id |-> id, object |-> object]

StandingFor(d, id) == {s \in ToSet(d.standing) : s.claim.withheldId = id}

Withdraw(d, id) ==
  [d EXCEPT !.standing = SelectSeq(@, LAMBDA s : s.claim.withheldId # id)]

\* hold: replaces what stood for that identity, in its place.
Hold(d, object, claim) ==
  LET s == [object |-> object, claim |-> claim]
  IN  [d EXCEPT !.standing =
         IF StandingFor(d, claim.withheldId) = {} THEN Append(@, s)
         ELSE [k \in DOMAIN @ |->
                 IF @[k].claim.withheldId = claim.withheldId THEN s ELSE @[k]]]

\* Holds in the order of the losing identities; none of them is another's.
HoldAll(d, held) ==
  FoldLeft(LAMBDA e, h : Hold(e, h.object, h.loss), d,
           SetToSortSeq(held, LAMBDA g, h : g.loss.withheldId < h.loss.withheldId))

ReportMove(d, old, new, isFolder, oldDescendants) ==
  [d EXCEPT
     !.changed = @ \cup {old} \cup oldDescendants \cup
       (IF isFolder THEN PathsOf(d.cache, Tree(d.cache, new) \ At(d.cache, new)) ELSE {}),
     !.renamed = @ \cup {[old |-> old, new |-> new, isFolder |-> isFolder,
                          identity |-> IdAt(d.cache, new)]}]

\* A move out of, or into, a path that folders share: its contents moved, file
\* by file; the folder paths have only changed.
ReportContentsMove(d, old, oldDescendants, relocated) ==
  [d EXCEPT
     !.changed = @ \cup {old} \cup oldDescendants \cup {r.new : r \in relocated},
     !.renamed = @ \cup {[old |-> r.old, new |-> r.new, isFolder |-> FALSE,
                          identity |-> IdAt(d.cache, r.new)] :
                           r \in {q \in relocated : q.id \notin Folders}}]

ApplyTombstone(d, id) ==
  LET gone == Subtree(d.cache, id)
  IN  [Withdraw(d, id) EXCEPT !.changed = @ \cup PathsOf(d.cache, gone),
                              !.cache   = Detach(@, gone)]

\* A claimant that was written no longer stands as a loser; where it reappears
\* elsewhere than the path it vacated, that is reported as the move it is.
Superseded(d, id, applied) ==
  LET moved == {s \in StandingFor(d, id) :
                  applied.old = {} /\ applied.new # {} /\
                  s.claim.vacated # {} /\ s.claim.vacated # applied.new}
      e == Withdraw(d, id)
  IN  IF moved = {} THEN e
      ELSE LET s == CHOOSE s \in moved : TRUE
           IN  ReportMove(e, The(s.claim.vacated), The(applied.new),
                          id \in Folders, s.claim.displaced)

\* What one written upsert reports of its own paths.
ReportPlacement(d, id, applied) ==
  LET old == applied.old
      new == applied.new
      e == [d EXCEPT !.changed = @ \cup new,
                     !.entered = @ \cup (IF old = {} /\ id \in Folders THEN {id} ELSE {})]
  IN  CASE new = {} /\ old = {} -> d
        [] new = {} /\ old # {} -> [d EXCEPT !.changed = @ \cup old \cup applied.descendants]
        [] new # {} /\ (old = {} \/ old = new) -> e
        [] OTHER ->
             IF applied.acrossShared
               THEN ReportContentsMove(e, The(old), applied.descendants, applied.relocated)
               ELSE ReportMove(e, The(old), The(new),
                               id \in Folders, applied.descendants)

\* applyEntry: a claim the cache refuses is held with its own metadata; an
\* occupant it evicts is held with the metadata the cache hands back; every
\* other loss is held without.
Applied(d, id, metadata, applied) ==
  IF applied.withheld # {} THEN Hold(d, metadata, The(applied.withheld))
  ELSE ReportPlacement(
         HoldAll(Superseded(d, id, applied),
                 {[object |-> {x.object}, loss |-> x.loss] : x \in applied.evicted}
                   \cup {[object |-> {}, loss |-> l] : l \in applied.losses}),
         id, applied)

ApplyUpsert(d, id, metadata, applied) ==
  Applied([d EXCEPT !.cache = applied.cache], id, metadata, applied)

ApplyEntry(d, entry) ==
  IF entry.object = {} THEN ApplyTombstone(d, entry.id)
  ELSE ApplyUpsert(d, entry.id, entry.object,
                   ApplyFileChange(d.cache, entry.id, The(entry.object)))

-----------------------------------------------------------------------------
(* Closing a page.                                                          *)

\* settleOnce, for one contention of the pass: tried again only when the address
\* is no longer held by the identity that won it.
Returned(d, claim, back) ==
  IF back # {} /\ claim.vacated # {} /\ claim.vacated # back
    THEN ReportMove(d, The(claim.vacated), The(back),
                    claim.withheldId \in Folders, claim.displaced)
    ELSE d

Retried(d, claim) == Returned(d, claim, PathById(d.cache, claim.withheldId))

Retest(d, s) ==
  IF s.object = {} \/ IdAt(d.cache, s.claim.path) = {s.claim.admittedId} THEN d
  ELSE Retried(ApplyEntry(Withdraw(d, s.claim.withheldId),
                          Entry(s.claim.withheldId, s.object)),
               s.claim)

SettleOnce(d) == FoldLeft(Retest, d, d.standing)

Settle(d) ==
  FoldLeft(LAMBDA e, pass : SettleOnce(e), d, [k \in 1 .. Len(d.standing) + 2 |-> k])

\* Folders first, shallow-first by the path they are cached at (an unknown one
\* counts as one level); tombstones go with the files; else in log order.
PageOrder(cache, entries) ==
  LET IsFolderEntry(e) == e.object # {} /\ e.id \in Folders
      Depth(e) == IF PathById(cache, e.id) = {} THEN 1
                  ELSE Len(The(PathById(cache, e.id)))
      Rank(e) == IF IsFolderEntry(e) THEN Depth(e) ELSE Cardinality(Id) + 2
      index   == [k \in DOMAIN entries |-> [at |-> k, rank |-> Rank(entries[k])]]
      sorted  == SortSeq(index, LAMBDA x, y :
                   x.rank < y.rank \/ (x.rank = y.rank /\ x.at < y.at))
  IN  [k \in DOMAIN entries |-> entries[sorted[k].at]]

\* applyRemoteChanges, for entries addressed by identity.
ApplyRemoteChanges(cache, entries) ==
  Settle(FoldLeft(ApplyEntry, Drain(cache), PageOrder(cache, entries)))

\* The address-level facts a page publishes.
Contended(d) == {s.claim : s \in ToSet(d.standing)}
DisplacedPaths(contended) == UNION {Absent(l) : l \in contended}

\* Mutant: the contents of a folder that entered are left to the log.
RelistNothing(cache, entered) == {}

\* relistTargets: topmost folders that entered, as they are addressed now.
RelistTargets(cache, entered) ==
  {i \in entered \cap DOMAIN cache :
     \A j \in entered \cap DOMAIN cache :
       ~ IsStrictPrefix(cache[j].path, cache[i].path)}

-----------------------------------------------------------------------------
(* What the sync engine is told.                                            *)

AllPaths(cache) == PathsOf(cache, DOMAIN cache)

\* Mutant: every absence is a deletion.
ClassifyIgnoringDisplacement(cache, changed, renamed, contended) ==
  [modified |-> changed \cap AllPaths(cache),
   deleted  |-> changed \ AllPaths(cache),
   renamed  |-> renamed]

\* PRODUCER 1: a path gone from the view is deleted unless a contention explains it.
ClassifyChanges(cache, changed, renamed, contended) ==
  [modified |-> changed \cap AllPaths(cache),
   deleted  |-> (changed \ AllPaths(cache)) \ DisplacedPaths(contended),
   renamed  |-> renamed]

\* PRODUCER 2: two views compared by identity (diffById); before is a cache too,
\* of which only the paths are read.
DiffById(before, after, contended) ==
  LET both   == DOMAIN before \cap DOMAIN after
      moved  == {i \in both : before[i].path # after[i].path}
      across == {i \in moved : i \in Folders /\
                   (Shared(before, before[i].path) \/ Shared(after, after[i].path))}
      gone   == {i \in DOMAIN before \ DOMAIN after :
                   /\ i \notin {l.withheldId : l \in contended}
                   /\ before[i].path \notin DisplacedPaths(contended)}
      left   == PathsOf(before, across) \cap AllPaths(after)
      kept   == {before[i].path : i \in {j \in gone : Shared(before, before[j].path)}}
                  \cap AllPaths(after)
  IN  [modified |-> PathsOf(after, (DOMAIN after \ DOMAIN before) \cup moved) \cup left \cup kept,
       deleted  |-> (PathsOf(before, moved \ across)
                       \cup (PathsOf(before, across) \ left)
                       \cup (PathsOf(before, gone) \ kept)),
       renamed  |-> {[old |-> before[i].path, new |-> after[i].path, isFolder |-> i \in Folders,
                      identity |-> IdAt(after, after[i].path)] : i \in moved \ across}]
=============================================================================

---------------------------- MODULE MetadataCache ----------------------------
(***************************************************************************)
(* The metadata cache of an id-addressed remote (fs/caching/metadata-      *)
(* cache.ts, claim-set-assignment.ts, path-authority.ts), as operators on  *)
(* a cache value: a partial function from identities to where the object   *)
(* sits, what the provider said of it, and how its path was produced.  The *)
(* code's path index, folder set, children index and table of merged       *)
(* folders are all functions of it.  Objects are [parent, name, version];  *)
(* a path is a sequence of names.  The reserved metadata file, which the   *)
(* cache never tracks, is left out.                                        *)
(***************************************************************************)
EXTENDS AddressArbitration, FiniteSets, Sequences, FiniteSetsExt, SequencesExt, TLC

CONSTANTS Id,        \* identities of provider objects, ordered
          Folders,   \* those that are folders; an object never changes kind
          Root       \* the bound sync root

ASSUME IdAssumption ==
  Id \subseteq Nat /\ IsFiniteSet(Id) /\ Folders \subseteq Id /\ Root \notin Id

\* An optional value is a set of at most one element.
The(option) == CHOOSE x \in option : TRUE

\* The least set with these members that Step adds nothing to.
Closure(Step(_), members) ==
  FoldLeft(LAMBDA S, k : S \cup Step(S), members, [k \in 1 .. Cardinality(Id) |-> k])

At(cache, path) == {i \in DOMAIN cache : cache[i].path = path}
Shared(cache, path) == Cardinality(At(cache, path)) > 1

\* Path-level readers see the smallest identity of a shared folder path.
IdAt(cache, path) == IF At(cache, path) = {} THEN {} ELSE {Min(At(cache, path))}

PathsOf(cache, ids) == {cache[i].path : i \in ids}
PathById(cache, id) == {cache[i].path : i \in {id} \cap DOMAIN cache}

\* Everything at or below a path, by spelling: what removeTree removes.
Tree(cache, path) == {i \in DOMAIN cache : IsPrefix(path, cache[i].path)}

\* What lies directly below the members: below a shared path a child belongs
\* to its provider parent, unless all who share the path are members.
Owned(cache, members) ==
  {j \in DOMAIN cache \ members :
     LET here   == At(cache, Front(cache[j].path))
         owners == here \cap members
     IN  /\ owners # {}
         /\ cache[j].object.parent \in owners \/ owners = here}

\* The object and its own contents, not those of a folder it shares a path with.
Subtree(cache, root) ==
  Closure(LAMBDA members : Owned(cache, members), {root} \cap DOMAIN cache)

Descendants(cache, id) == PathsOf(cache, Subtree(cache, id) \ {id})

Detach(cache, ids) == [i \in DOMAIN cache \ ids |-> cache[i]]
RemoveObject(cache, id) == Detach(cache, Subtree(cache, id))

Claim(cache, id) ==
  [id |-> id, authority |-> cache[id].authority, isFolder |-> id \in Folders]

\* Below the cached parent, or nowhere when the parent is not cached.
PathBelowParent(cache, object) ==
  {Append(cache[i].path, object.name) : i \in {object.parent} \cap DOMAIN cache}

\* Where an object belongs according to what is cached: an entry of the bound
\* root has no parent of its own and is called by its name.
ResolvePath(cache, object) ==
  IF object.parent = Root THEN {<<object.name>>} ELSE PathBelowParent(cache, object)

-----------------------------------------------------------------------------
(* One object lost an address: who has it, whose it is not, which paths are *)
(* absent from the cache for that reason.                                   *)

Loss(path, admitted, withheld, displaced, vacated, owes) ==
  [path |-> path, admittedId |-> admitted, withheldId |-> withheld,
   displaced |-> displaced, vacated |-> vacated, owes |-> owes]

Absent(loss) == loss.displaced \cup loss.vacated

Verdict(cache, path, claim) ==
  {ArbitrateAddress(Claim(cache, i), claim) : i \in IdAt(cache, path)}

\* displaceOccupant: the representative's loss, and one of its own for every
\* folder merged beside it.
RepresentativeLoss(cache, path, claimant, owes) ==
  LET merged == At(cache, path) \ IdAt(cache, path)
      theirs == UNION {Descendants(cache, i) : i \in merged}
  IN  {Loss(path, claimant, i,
            PathsOf(cache, Tree(cache, path) \ At(cache, path)) \ theirs,
            {path}, owes) : i \in IdAt(cache, path)}

MergedLosses(cache, path, claimant, owes) ==
  {Loss(path, claimant, i, Descendants(cache, i), {path}, owes) :
     i \in At(cache, path) \ IdAt(cache, path)}

\* setFile, once the address is decided.
Seated(cache, path, id, object, authority) ==
  [i \in DOMAIN cache \cup {id} |->
     IF i = id THEN [path |-> path, object |-> object, authority |-> authority]
               ELSE cache[i]]

\* seatArbitrated: an arrival is withheld, or evicts the occupant with all that
\* is below it, or takes a free or shared address.
SeatDecided(cache, path, id, object, authority, lost, evicts) ==
  [withheld |-> {Loss(path, v.admittedId, id, {}, {}, v.owesRemediation) : v \in lost},
   evicted  |-> UNION {RepresentativeLoss(cache, path, id, v.owesRemediation) : v \in evicts},
   merged   |-> UNION {MergedLosses(cache, path, id, v.owesRemediation) : v \in evicts},
   cache    |-> IF lost # {} THEN cache
                ELSE Seated(IF evicts = {} THEN cache ELSE Detach(cache, Tree(cache, path)),
                            path, id, object, authority)]

SeatGiven(cache, path, id, object, authority, verdict) ==
  SeatDecided(cache, path, id, object, authority,
              {v \in verdict : v.withheldId = {id}},
              {v \in verdict : v.withheldId # {} /\ v.admittedId = id})

SeatArbitrated(cache, path, id, object, authority) ==
  SeatGiven(cache, path, id, object, authority,
            Verdict(cache, path,
                    [id |-> id, authority |-> authority, isFolder |-> id \in Folders]))

\* Mutant: the contents of a moved folder keep their paths.
ReseatNothing(before, after, ids, from, to) ==
  [cache |-> after @@ Restrict(before, ids), withheld |-> {}, evicted |-> {}, relocated |-> {}]

\* What an object being carried lies under: below a shared path, its provider
\* parent if that one is carried too.
CarriedBy(object, owners) ==
  IF object.parent \in owners THEN object.parent ELSE Min(owners)

\* One object of a moved folder, seated where it lands.
Landed(s, i, entry, target, seat) ==
  IF seat.withheld # {}
    THEN [s EXCEPT !.under[i] = {i},
                   !.withheld = @ \cup {[l EXCEPT !.vacated = {entry.path}] :
                                          l \in seat.withheld}]
    ELSE [s EXCEPT !.cache = seat.cache,
                   !.evicted = @ \cup seat.evicted \cup seat.merged,
                   !.relocated = @ \cup {[id |-> i, old |-> entry.path, new |-> target]}]

\* One that lies under an object which lost its address goes with it.
Dragged(s, i, path, losses) ==
  [s EXCEPT !.under = [k \in Id |-> IF \E l \in losses : l.withheldId = k
                                      THEN @[k] \cup {i} ELSE @[k]],
            !.withheld = (@ \ losses) \cup
              {[l EXCEPT !.displaced = @ \cup {path}] : l \in losses}]

ReseatOne(s, i, entry, target, losses) ==
  IF losses # {} THEN Dragged(s, i, entry.path, losses)
  ELSE Landed(s, i, entry, target,
              SeatArbitrated(s.cache, target, i, entry.object, entry.authority))

\* reseat: the contents of a moved folder follow it shallow-first, each
\* arbitrated where it lands; one that loses takes what is under it along.
Reseat(before, after, ids, from, to) ==
  LET Under(i, moved) ==
        CarriedBy(before[i].object, At(before, Front(before[i].path)) \cap moved)
      Step(s, i) ==
        ReseatOne(s, i, before[i],
          to \o SubSeq(before[i].path, Len(from) + 1, Len(before[i].path)),
          {l \in s.withheld : Under(i, s.moved) \in s.under[l.withheldId]})
  IN  FoldLeft(Step,
        [cache |-> after, withheld |-> {}, evicted |-> {}, relocated |-> {},
         under |-> [i \in Id |-> {}],
         moved |-> Subtree(before, Min(At(before, from))) \cup ids \cup At(before, from)],
        SetToSortSeq(ids, LAMBDA i, j :
          \/ Len(before[i].path) < Len(before[j].path)
          \/ Len(before[i].path) = Len(before[j].path) /\ i < j))

\* applyFileChange and applyFileChangeDetectMove: an object that has no path
\* leaves the cache; one that is refused its path has left the one it had; the
\* contents of one that is seated follow it.
Unplaced(cache, id, old) ==
  [cache |-> RemoveObject(cache, id), old |-> old, new |-> {},
   descendants |-> Descendants(cache, id), evicted |-> {}, withheld |-> {},
   losses |-> {}, relocated |-> {}, acrossShared |-> FALSE]

RefusedAt(cache, id, old, moving, seat) ==
  [cache |-> Detach(cache, moving), old |-> old, new |-> {},
   descendants |-> Descendants(cache, id), evicted |-> {},
   withheld |-> {[l EXCEPT !.vacated = IF moving = {} THEN {} ELSE old,
                           !.displaced = PathsOf(cache, moving \ {id})] : l \in seat.withheld},
   losses |-> {}, relocated |-> {}, acrossShared |-> FALSE]

PlacedAt(cache, id, old, to, seat, rest) ==
  [cache |-> rest.cache, old |-> old, new |-> {to},
   descendants |-> Descendants(cache, id),
   evicted |-> {[loss |-> l, object |-> cache[l.withheldId].object] : l \in seat.evicted},
   withheld |-> {},
   losses |-> seat.merged \cup rest.withheld \cup rest.evicted,
   relocated |-> rest.relocated,
   acrossShared |->
     /\ id \in Folders /\ old # {} /\ old # {to}
     /\ \/ \E p \in old : Shared(cache, p)
        \/ Shared(rest.cache, to)]

PlaceSeat(cache, id, old, to, moving, seat) ==
  IF seat.withheld # {} THEN RefusedAt(cache, id, old, moving, seat)
  ELSE PlacedAt(cache, id, old, to, seat,
         IF moving = {} \/ id \notin Folders
           THEN [cache |-> seat.cache, withheld |-> {}, evicted |-> {}, relocated |-> {}]
           ELSE Reseat(cache, seat.cache, moving \ {id}, cache[id].path, to))

Place(cache, id, object, old, to, moving) ==
  PlaceSeat(cache, id, old, to, moving,
            SeatArbitrated(Detach(cache, moving), to, id, object, "actual_resolved"))

ApplyFileChange(cache, id, object) ==
  LET path == ResolvePath(cache, object)
      old  == PathById(cache, id)
  IN  IF path = {} THEN Unplaced(cache, id, old)
      ELSE Place(cache, id, object, old, The(path),
                 IF old # {} /\ old # path THEN Subtree(cache, id) ELSE {})

-----------------------------------------------------------------------------
(* A complete listing at once (buildFromFiles, assignClaimSet).             *)

\* Paths and authority along the parent chain; an unknown parent leaves the
\* bare name, which is only an echo.
ListedPath(listing) ==
  LET path[i \in DOMAIN listing] ==
        IF listing[i].parent \in DOMAIN listing
          THEN Append(path[listing[i].parent], listing[i].name)
          ELSE <<listing[i].name>>
  IN  path

ListedAuthority(listing) ==
  LET resolved[i \in DOMAIN listing] ==
        \/ listing[i].parent = Root
        \/ listing[i].parent \in DOMAIN listing /\ resolved[listing[i].parent]
  IN  [i \in DOMAIN listing |->
         IF resolved[i] THEN "actual_resolved" ELSE "requested_echo"]

\* What the parent chain of the resolver went through; nothing above the root or
\* above an object whose parent is not listed.
ResolvedParent(listing, i) == {listing[i].parent} \cap DOMAIN listing

\* What the listing claims: one address for every object listed.
ListedClaims(listing) ==
  [i \in DOMAIN listing |->
     [path |-> ListedPath(listing)[i], authority |-> ListedAuthority(listing)[i],
      parent |-> ResolvedParent(listing, i), object |-> listing[i]]]

\* The whole claim set at once: losers are withheld, with all that is below them
\* by provider topology.
AssignClaimSet(claim) ==
  LET Cl(i)  == [id |-> i, authority |-> claim[i].authority, isFolder |-> i \in Folders]
      Rival(i) ==
        Holder({Cl(j) : j \in {k \in DOMAIN claim : claim[k].path = claim[i].path}})
      withheld == {i \in DOMAIN claim : Contested(Rival(i), Cl(i))}
      \* Nearest withheld ancestor, itself included.
      cause[i \in DOMAIN claim] ==
        IF i \in withheld THEN {i} ELSE UNION {cause[j] : j \in claim[i].parent}
      Beneath(i) == {j \in DOMAIN claim \ withheld : cause[j] = {i}}
  IN  [cache |-> [i \in {k \in DOMAIN claim : cause[k] = {}} |->
                    [path |-> claim[i].path, object |-> claim[i].object,
                     authority |-> claim[i].authority]],
       losses |-> {Loss(claim[i].path, Rival(i).id, i, {claim[j].path : j \in Beneath(i)},
                        {}, claim[i].authority = "actual_resolved") : i \in withheld}]

BuildFromFiles(listing) == AssignClaimSet(ListedClaims(listing))
=============================================================================

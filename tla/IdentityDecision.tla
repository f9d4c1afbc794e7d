--------------------------- MODULE IdentityDecision ---------------------------
(***************************************************************************)
(* What Admission makes of one component of observed facts                 *)
(* (sync/identity-component-decision.ts, its report families and its       *)
(* content comparison): which current file, record and remote object       *)
(* belong together, and the actions that follow, in order.                 *)
(*                                                                         *)
(* Files only: no folders, no case aliases; every address is in scope, and *)
(* a content fact is always comparable, so equal contents are proved       *)
(* equal.  Conflicts keep both versions (strategy "duplicate").            *)
(*                                                                         *)
(* A file, a record and a remote object are one shape, an entity; its id   *)
(* is the provider's identity, 0 for a file of the vault, and its content  *)
(* is a version, 0 for none.  The facts of a component are local, remote   *)
(* and rows (from its paths to entities), the paths whose local side was   *)
(* never looked at (unread), the paths whose absence the checkpoint's      *)
(* delta reports (deleted), and the rename reports.                        *)
(***************************************************************************)
EXTENDS Naturals, Sequences, SequencesExt

CONSTANT N          \* addresses are 1 .. N

ASSUME AddressAssumption == N \in Nat \ {0}

Path == 1 .. N

Nothing == [path |-> 0, id |-> 0, content |-> 0]
Entity(p, i, c) == [path |-> p, id |-> i, content |-> c]

Held(f) == DOMAIN f.local
\* The members of a sequence at these positions.
Selected(seq, positions) ==
  LET selected[k \in 0 .. Len(seq)] ==
        IF k = 0 THEN <<>>
        ELSE IF k \in positions THEN Append(selected[k - 1], seq[k]) ELSE selected[k - 1]
  IN  selected[Len(seq)]

InOrder(paths) == Selected([p \in Path |-> p], paths)

Absent(f, side, p) ==
  IF side = "local" THEN f.local[p] = Nothing /\ p \notin f.unread ELSE f.remote[p] = Nothing

\* An absence the delta reports is no proof that the address is free to take.
Vacant(f, side, p) == Absent(f, side, p) /\ (side = "remote" => p \notin f.deleted)

\* The one entity of a side that has that identity, if any has.
OfIdentity(side, i) ==
  IF i # 0 /\ \E p \in DOMAIN side : side[p].id = i
    THEN side[CHOOSE p \in DOMAIN side : side[p].id = i] ELSE Nothing

Or(entity, otherwise) == IF entity # Nothing THEN entity ELSE otherwise
OnlyIf(condition, entity) == IF condition THEN entity ELSE Nothing
OneOf(entities) == IF entities = {} THEN Nothing ELSE CHOOSE e \in entities : TRUE

-----------------------------------------------------------------------------
(* Rename reports: [side, old, new, id], id 0 where a report carries none.  *)

\* isLocalChain: one unbranched chain of notifications of the vault.
IsLocalChain(claims) ==
  /\ \A r \in claims : r.side = "local"
  /\ \E start \in claims :
       /\ {r \in claims : r.old \notin {c.new : c \in claims}} = {start}
       /\ \A set \in SUBSET claims :
            (start \in set /\ \A r \in set : \A c \in claims : c.old = r.new => c \in set)
              => set = claims

SideConflicts(claims) ==
  \/ \E r, s \in claims : r # s /\ (r.old = s.old \/ r.new = s.new \/ (r.id # 0 /\ r.id = s.id))
  \/ \E r, s \in claims : r # s /\ ~ IsLocalChain(claims)

\* selectReportFamily: reports that cannot all be true of the same files.
Conflicting(reports) ==
  LET of(side) == {r \in reports : r.side = side}
  IN  \/ SideConflicts(of("local"))
      \/ SideConflicts(of("remote"))
      \/ of("local") # {} /\ of("remote") # {} /\ \E r, s \in reports : r.old # s.old

Aligned(f, p, row) ==
  /\ f.local[p] # Nothing /\ f.remote[p] # Nothing
  /\ f.remote[p].id = row.id /\ f.local[p].content = f.remote[p].content

\* The rename a report speaks of is already what the records say.
CommittedRelation(f, r) ==
  LET target == f.rows[r.new]
      source == f.rows[r.old]
  IN  /\ target # Nothing /\ Aligned(f, r.new, target)
      /\ IF source # Nothing
           THEN source.id # target.id /\ Aligned(f, r.old, source)
           ELSE \/ Absent(f, IF r.side = "local" THEN "remote" ELSE "local", r.old)
                \/ r.id # 0 /\ r.id = target.id
                \/ /\ f.local[r.old] # Nothing /\ f.remote[r.old] # Nothing
                   /\ f.remote[r.old].id # target.id
                   /\ f.local[r.old].content = f.remote[r.old].content

SettledRelation(f, r) ==
  \/ CommittedRelation(f, r)
  \/ /\ f.local[r.new] # Nothing /\ Absent(f, "local", r.old)
     /\ f.remote[r.new] # Nothing /\ Absent(f, "remote", r.old)

-----------------------------------------------------------------------------
(* Content.                                                                 *)

\* compareContent: what changed since the baseline.
CompareContent(local, remote, base) ==
  LET here == local # Nothing
      there == remote # Nothing
      same == local.content = remote.content
      localDiff == local.content # base.content
      remoteDiff == remote.content # base.content
  IN  CASE here /\ there /\ base = Nothing -> IF same THEN "match" ELSE "conflict"
        [] here /\ there /\ base # Nothing ->
             IF localDiff /\ same THEN "match"
             ELSE IF localDiff /\ remoteDiff THEN "conflict"
             ELSE IF localDiff THEN "push" ELSE IF remoteDiff THEN "pull" ELSE "none"
        [] here /\ ~ there ->
             IF base = Nothing THEN "push" ELSE IF localDiff THEN "conflict" ELSE "delete_local"
        [] ~ here /\ there ->
             IF base = Nothing THEN "pull" ELSE IF remoteDiff THEN "conflict" ELSE "delete_remote"
        [] OTHER -> IF base = Nothing THEN "none" ELSE "cleanup"

-----------------------------------------------------------------------------
(* A binding: the file, object and record that belong together at an        *)
(* address; source is the row its publication continues, destination the    *)
(* row at the address; the file of one side may have to move there.         *)

Bound(p, local, remote, base, source, destination) ==
  [exact |-> FALSE, path |-> p, local |-> local, remote |-> remote, base |-> base,
   source |-> source, destination |-> destination, moves |-> "none", from |-> 0,
   tracked |-> Nothing, otherRemote |-> Nothing, otherLocal |-> Nothing,
   replacement |-> FALSE, released |-> FALSE]

ExactPath(p) == [Bound(p, Nothing, Nothing, Nothing, Nothing, Nothing) EXCEPT !.exact = TRUE]

\* What has been bound so far, and the occurrences and addresses it used up.
NothingBound == [failed |-> FALSE, files |-> <<>>, local |-> {}, remote |-> {}, relocated |-> {}]
Refused(acc) == [acc EXCEPT !.failed = TRUE]

\* A binding takes the occurrences it names; left is an address it leaves.
Bind(acc, b, left) ==
  [acc EXCEPT !.files = Append(@, b),
              !.local = @ \cup ({b.local.path} \ {0}),
              !.remote = @ \cup ({b.remote.path, b.otherRemote.path} \ {0}),
              !.relocated = @ \cup left]

Claimed(acc, local, remote) == local.path \in acc.local \/ remote.path \in acc.remote

\* A reported rename in the vault of a file that has no record at its source.
BindUnrecordedReport(f, acc, r) ==
  LET local == f.local[r.new]
      remote == f.remote[r.old]
      occupant == f.remote[r.new]
  IN  IF f.rows[r.old] # Nothing \/ local = Nothing \/ remote = Nothing THEN acc
      ELSE IF occupant = Nothing /\ ~ Vacant(f, "remote", r.new) THEN Refused(acc)
      ELSE Bind(acc,
             [Bound(r.new, local, remote, Nothing, Nothing, f.rows[r.new])
                EXCEPT !.moves = "remote", !.from = r.old, !.tracked = remote,
                       !.otherRemote = occupant, !.replacement = occupant # Nothing],
             {r.old})

\* The address of a moved record, and what moves there.
BindMovedRow(f, acc, base, local, remote, tracked, path) ==
  LET recreated == path # base.path /\ f.remote[base.path] # Nothing
                     /\ f.remote[base.path].id # base.id
      here == IF recreated THEN f.local[path] ELSE local
      apart == ~ recreated /\ local # Nothing /\ remote # Nothing /\ local.path # remote.path
      moves == IF ~ apart THEN "none" ELSE IF path = local.path THEN "remote" ELSE "local"
      occupant == OnlyIf(moves = "remote", f.remote[path])
      clash == recreated /\ here # Nothing /\ remote # Nothing /\ here.content # remote.content
  IN  IF apart /\ occupant = Nothing /\ ~ Vacant(f, moves, path) THEN Refused(acc)
      ELSE Bind(acc,
             [Bound(path, here, remote, OnlyIf(~ recreated, base), base, f.rows[path])
                EXCEPT !.moves = moves,
                       !.from = CASE moves = "remote" -> remote.path
                                  [] moves = "local" -> local.path [] OTHER -> 0,
                       !.tracked = tracked, !.otherRemote = occupant,
                       !.otherLocal = OnlyIf(clash, here),
                       !.replacement = \/ recreated /\ here # Nothing
                                       \/ occupant # Nothing
                                       \/ remote # Nothing /\ remote.id # base.id],
             {base.path} \ {path})

\* What the record of an address describes now, once its object, the reports
\* about it and the file they carried along are known.
BindRowAs(f, acc, reports, base, told, tracked, remote, carried, local) ==
  LET p == base.path
      touched == \E r \in reports : r.old = p \/ r.new = p
      claimed == Claimed(acc, local, remote)
      moved == remote # Nothing /\ remote.path # p
      path == CASE told # Nothing /\ local # Nothing -> local.path
                [] ~ (told # Nothing /\ local # Nothing) /\
                     (moved \/ (carried # Nothing /\ remote # Nothing)) -> remote.path
                [] OTHER -> Or(local, Or(remote, base)).path
  IN  IF remote = Nothing /\ f.remote[p] # Nothing THEN acc
      ELSE IF ~ claimed /\ ~ touched /\ ~ moved /\ (local = Nothing \/ local.path = p)
        THEN [Bind(acc, ExactPath(p), {})
                EXCEPT !.local = @ \cup ({f.local[p].path} \ {0}),
                       !.remote = @ \cup ({f.remote[p].path} \ {0})]
      ELSE IF claimed THEN acc
      ELSE BindMovedRow(f, acc, base, local, remote, tracked, path)

\* told: the report of a rename in the vault from this address, as an entity
\* at its new one.
BindRowFrom(f, acc, reports, base, told, remote) ==
  LET from == {r.old : r \in {q \in reports : q.side = "remote" /\ q.new = remote.path
                                               /\ q.id \in {0, base.id}}}
      carried == OneOf({f.local[q] : q \in from} \ {Nothing})
      stayed == Or(f.local[base.path],
                   OnlyIf(remote # Nothing /\ Absent(f, "local", base.path),
                          IF remote = Nothing THEN Nothing ELSE f.local[remote.path]))
  IN  BindRowAs(f, acc, reports, base, told, OfIdentity(f.remote, base.id), remote, carried,
                IF told # Nothing THEN f.local[told.path] ELSE Or(carried, stayed))

BindRow(f, acc, reports, p) ==
  LET base == f.rows[p]
      told == OneOf({Entity(r.new, 0, 1) : r \in {q \in reports : q.side = "local" /\ q.old = p}})
      landed == IF told = Nothing THEN Nothing ELSE f.remote[told.path]
  IN  IF base = Nothing THEN acc
      ELSE BindRowFrom(f, acc, reports, base, told, Or(OfIdentity(f.remote, base.id), landed))

\* A rename on the remote that no record explains: the file left behind
\* travels with it, or two objects are kept apart.
BindRemoteReport(f, acc, r) ==
  LET remote == f.remote[r.new]
      left == f.local[r.old]
      here == f.local[r.new]
  IN  IF r.new \in acc.remote \/ remote = Nothing THEN acc
      ELSE IF f.remote[r.old] = Nothing
        THEN IF left # Nothing /\ Absent(f, "local", r.new) /\ r.old \notin acc.local
               THEN Bind(acc, [Bound(r.new, left, remote, Nothing, Nothing, f.rows[r.new])
                                 EXCEPT !.moves = "local", !.from = r.old], {})
               ELSE acc
      ELSE Bind(acc, [Bound(r.new, here, remote, Nothing, Nothing, f.rows[r.new])
                        EXCEPT !.replacement = here # Nothing,
                               !.otherLocal = OnlyIf(here.content # remote.content, here)], {})

\* What is left at an address when the bindings above took theirs.
BindRest(f, acc, p) ==
  LET local == OnlyIf(p \notin acc.local, f.local[p])
      remote == OnlyIf(p \notin acc.remote, f.remote[p])
      base == f.rows[p]
      relocated == p \in acc.relocated
      expected == OnlyIf(~ relocated, base)
      released == /\ remote = Nothing /\ p \in acc.remote
                  /\ \E k \in DOMAIN acc.files :
                       acc.files[k].moves = "remote" /\ acc.files[k].from = p
      replacement == relocated \/ (base # Nothing /\ remote # Nothing /\ base.id # remote.id)
  IN  IF local = Nothing /\ remote = Nothing THEN acc
      ELSE IF p \notin acc.local \cup acc.remote \cup acc.relocated
        THEN [acc EXCEPT !.files = Append(@, ExactPath(p))]
      ELSE [acc EXCEPT !.files = Append(@,
              [Bound(p, local, remote, OnlyIf(~ released, base),
                     OnlyIf(~ replacement, expected), expected)
                 EXCEPT !.released = released, !.replacement = replacement])]

\* A stage passes over every report that was told and every path that was met;
\* what is not of this component is none of its business.
BindOne(f, acc, reports, item) ==
  IF acc.failed THEN acc
  ELSE CASE item.do = "unrecorded report" /\ item.about \in reports /\ item.about.side = "local" ->
         BindUnrecordedReport(f, acc, item.about)
    [] item.do = "row" /\ item.at \in Held(f) -> BindRow(f, acc, reports, item.at)
    [] item.do = "remote report" /\ item.about \in reports /\ item.about.side = "remote" ->
         BindRemoteReport(f, acc, item.about)
    [] item.do = "rest of local" /\ item.at \in Held(f) /\ f.local[item.at] # Nothing ->
         BindRest(f, acc, item.at)
    [] item.do = "rest" /\ item.at \in Held(f) /\ f.local[item.at] = Nothing ->
         BindRest(f, acc, item.at)
    [] OTHER -> acc

\* The stages of bindFiles; order is the order in which collection met the paths,
\* told the one in which the reports came.
Stages(order, told) ==
  LET say(what) == [k \in DOMAIN told |-> [do |-> what, about |-> told[k], at |-> 0]]
      at(what) == [k \in DOMAIN order |-> [do |-> what, about |-> 0, at |-> order[k]]]
  IN  say("unrecorded report") \o at("row") \o say("remote report")
        \o at("rest of local") \o at("rest")

BindFiles(f, reports, items) ==
  LET bound[k \in 0 .. Len(items)] ==
        IF k = 0 THEN NothingBound ELSE BindOne(f, bound[k - 1], reports, items[k])
  IN  bound[Len(items)]

-----------------------------------------------------------------------------
(* From a binding to an action: its kind, the endpoints it expects and, for  *)
(* a rename, where from and which side's content is copied over.  path is    *)
(* the address of the record; a deletion acts on the one it was committed    *)
(* at, wherever (at) the file now is.                                        *)

Plan(kind, b) ==
  [kind |-> kind, path |-> b.path, at |-> b.path,
   local |-> b.local, remote |-> b.remote, base |-> b.base,
   source |-> b.source, destination |-> b.destination, from |-> b.from,
   tracked |-> b.tracked, otherRemote |-> b.otherRemote, otherLocal |-> b.otherLocal,
   copy |-> "none"]

Deletion(kind, b) ==
  [Plan(kind, b) EXCEPT !.path = b.base.path, !.source = b.base, !.destination = b.base]

NoAction == [Plan("none", ExactPath(0)) EXCEPT !.kind = "none"]
Unproven == [NoAction EXCEPT !.kind = "unproven"]

Move(b, compared) ==
  LET kind == IF b.moves = "local" THEN "rename_local" ELSE "rename_remote"
  IN  IF b.local = Nothing \/ b.remote = Nothing THEN Unproven
      ELSE IF compared = "conflict" THEN Plan("conflict", b)
      ELSE IF b.local.content = b.remote.content THEN Plan(kind, b)
      ELSE IF compared \in {"push", "pull"} THEN [Plan(kind, b) EXCEPT !.copy = compared]
      ELSE Unproven

\* materializeFile, once the contents are compared.
Materialize(f, b, compared) ==
  LET unseen == \/ b.local = Nothing /\ ~ Absent(f, "local", b.path)
                \/ b.remote = Nothing /\ ~ b.released /\ ~ Absent(f, "remote", b.path)
  IN  IF unseen THEN Unproven
      ELSE IF b.moves = "none" /\ compared = "delete_local" /\ b.path \notin f.deleted
        THEN Unproven
      ELSE IF compared \in {"delete_local", "delete_remote"} THEN Deletion(compared, b)
      ELSE IF b.moves # "none" THEN Move(b, compared)
      ELSE Plan(compared, b)

Compared(b) ==
  IF b.replacement /\ b.local # Nothing /\ b.remote # Nothing
    THEN IF b.otherRemote = Nothing /\ b.local.content = b.remote.content
           THEN "match" ELSE "conflict"
    ELSE CompareContent(b.local, b.remote, b.base)

MaterializeFile(f, b) == Materialize(f, b, Compared(b))

\* Endpoints that agree at an address their record is not at still publish it there.
Carried(b, row, action) ==
  IF action.kind = "none" /\ row.path # b.path /\ b.local # Nothing /\ b.remote # Nothing
    THEN IF b.local.content = b.remote.content
           THEN [Plan("match", b) EXCEPT !.base = row] ELSE Unproven
    ELSE action

MaterializeStandaloneFile(f, b) == Carried(b, b.base, MaterializeFile(f, b))

\* materializeExactPath; a kept side is never deleted for the other's absence.
ExactBinding(f, p, keep) ==
  LET local == f.local[p]
      remote == f.remote[p]
      here == f.rows[p]
      relocatedAway == OfIdentity(f.remote, here.id).path \notin {0, p}
      destination == OnlyIf(~ relocatedAway, here)
      expected == Or(destination, OfIdentity(f.rows, remote.id))
      replacement == destination # Nothing /\ remote # Nothing /\ destination.id # remote.id
  IN  [Bound(p, local, remote,
             OnlyIf(~ (keep /\ (local = Nothing \/ remote = Nothing)), expected),
             OnlyIf(~ replacement, expected), destination)
         EXCEPT !.replacement = replacement]

MaterializeExact(f, b) ==
  IF b.source = Nothing THEN MaterializeFile(f, b) ELSE Carried(b, b.source, MaterializeFile(f, b))

MaterializeExactPath(f, p, keep) == MaterializeExact(f, ExactBinding(f, p, keep))

-----------------------------------------------------------------------------
(* The decision on a component: a sequence of actions, or a refusal.         *)

Actions(made) ==
  [failed  |-> \E k \in DOMAIN made : made[k].kind = "unproven",
   actions |-> Selected(made, {k \in DOMAIN made : made[k].kind \notin {"none", "unproven"}})]
Refusal == [failed |-> TRUE, actions |-> <<>>]
Settle(decision) == IF decision.failed THEN Refusal ELSE decision

\* ordinaryActionsAfterRelationAbandonment: every address by itself, the ones
\* that carry a record away from elsewhere first.
Carries(f, p) ==
  f.remote[p] # Nothing /\ OfIdentity(f.rows, f.remote[p].id).path \notin {0, p}

AfterAbandonment(f) ==
  LET paths == {p \in Held(f) : f.local[p] # Nothing \/ f.remote[p] # Nothing}
      carrying == {p \in paths : Carries(f, p)}
      ItsTurn(set, p) == IF p \in set THEN MaterializeExactPath(f, p, TRUE) ELSE NoAction
  IN  Settle(Actions([k \in 1 .. 2 * N |-> IF k <= N THEN ItsTurn(carrying, k)
                                           ELSE ItsTurn(paths \ carrying, k - N)]))

AddressesDiffer(f, p, q) ==
  f.remote[p] # Nothing /\ f.remote[q] # Nothing /\ f.remote[p].id # f.remote[q].id

\* Whether a binding says where the file of a report went.
Accounts(f, r, b) ==
  IF b.exact
    THEN /\ b.path = r.new /\ f.rows[r.new] = Nothing
         /\ \/ Absent(f, "remote", r.old)
            \/ r.side = "remote" /\ AddressesDiffer(f, r.new, r.old)
    ELSE /\ b.path = r.new \/ (r.side = "remote" /\ b.remote.path = r.new)
         /\ \/ b.source.path = r.old \/ b.from = r.old
            \/ /\ b.base = Nothing
               /\ \/ Absent(f, "remote", r.old)
                  \/ /\ r.side = "remote" /\ b.remote # Nothing
                     /\ f.remote[r.old] # Nothing /\ b.remote.id # f.remote[r.old].id

\* An address of the vault that came and went without leaving anything.
Transient(f, r) ==
  /\ r.side = "local"
  /\ \A p \in {r.old, r.new} :
       f.rows[p] = Nothing /\ Absent(f, "local", p) /\ Absent(f, "remote", p)

Accounted(f, files) ==
  \A r \in f.reports :
    SettledRelation(f, r) \/ Transient(f, r) \/ \E k \in DOMAIN files : Accounts(f, r, files[k])

MaterializeAll(f, files) ==
  Actions([k \in DOMAIN files |->
             IF files[k].exact THEN MaterializeExactPath(f, files[k].path, FALSE)
             ELSE MaterializeStandaloneFile(f, files[k])])

DecideBound(f, bound, decision) ==
  IF bound.failed \/ decision.failed THEN Refusal
  ELSE IF Accounted(f, bound.files) THEN decision
  ELSE AfterAbandonment(f)

DecideBindings(f, bound) == DecideBound(f, bound, MaterializeAll(f, bound.files))

\* A remote report that names another object than the one at its address.
MisnamedReport(f) ==
  \E r \in f.reports : r.side = "remote" /\ r.id # 0 /\ f.remote[r.new].id # r.id

DecideIdentityComponent(f, items) ==
  IF Conflicting(f.reports)
    THEN IF \A p \in Held(f) : f.local[p] = Nothing /\ f.remote[p] = Nothing
           THEN Refusal ELSE AfterAbandonment(f)
  ELSE IF MisnamedReport(f) THEN Refusal
  ELSE DecideBindings(f,
         BindFiles(f, {r \in f.reports : ~ CommittedRelation(f, r)}, items))
=============================================================================

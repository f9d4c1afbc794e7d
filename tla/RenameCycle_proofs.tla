------------------------- MODULE RenameCycle_proofs -------------------------
(***************************************************************************)
(* What the engine does to files that are renamed, for any number of       *)
(* addresses, changes, failures and ends of the process: it takes no       *)
(* version from a side that is neither recorded nor kept, and two          *)
(* addresses never show one object.                                        *)
(*                                                                         *)
(* Nothing is assumed of what the users do between the decision and its    *)
(* execution.  What an admitted action says of itself (Sound) was true of  *)
(* the facts it was made from; what it rests on is checked again when it   *)
(* runs.                                                                   *)
(***************************************************************************)
EXTENDS RenameCycle, FiniteSetTheorems, SequenceTheorems, WellFoundedInduction, TLAPS

(* Every set of numbers that is not empty has a smallest one.               *)
LEMMA SmallestNumber ==
    ASSUME NEW S \in SUBSET Nat, S # {}
    PROVE  \E n \in S : \A k \in S : n <= k
<1> DEFINE Less == OpToRel(<, Nat)
<1>1. IsWellFoundedOn(Less, Nat)
  BY NatLessThanWellFounded
<1> HIDE DEF Less
<1>2. PICK n \in S : \A k \in S : ~ (<<k, n>> \in Less)
  BY <1>1, WFMin
<1>3. \A k \in S : ~ (k < n)
  BY <1>2 DEF Less, OpToRel
<1>4. QED
  BY <1>3

-----------------------------------------------------------------------------
(* The members of a sequence at some positions.                             *)

Selects(g, seq, positions, n) ==
    g = [k \in 0 .. n |->
           IF k = 0 THEN <<>>
           ELSE IF k \in positions THEN Append(g[k - 1], seq[k]) ELSE g[k - 1]]

(* What such a function is at each number.                                  *)
LEMMA SelectsAt ==
    ASSUME NEW seq, NEW positions, NEW n \in Nat, NEW g, Selects(g, seq, positions, n)
    PROVE  /\ g[0] = <<>>
           /\ \A k \in 1 .. n :
                g[k] = IF k \in positions THEN Append(g[k - 1], seq[k]) ELSE g[k - 1]
<1> DEFINE F(k) == IF k = 0 THEN <<>>
                   ELSE IF k \in positions THEN Append(g[k - 1], seq[k]) ELSE g[k - 1]
<1>1. g = [k \in 0 .. n |-> F(k)]
  BY Zenon DEF Selects
<1> HIDE DEF F
<1>2. \A k \in 0 .. n : g[k] = F(k)
  BY <1>1
<1>3. g[0] = <<>>
  BY <1>2 DEF F
<1>4. ASSUME NEW k \in 1 .. n
      PROVE  g[k] = IF k \in positions THEN Append(g[k - 1], seq[k]) ELSE g[k - 1]
  <2>1. k \in 0 .. n /\ k # 0
    OBVIOUS
  <2>2. g[k] = F(k)
    BY <1>2, <2>1
  <2>3. QED
    BY <2>1, <2>2 DEF F
<1>5. QED
  BY <1>3, <1>4

(* There is such a function.                                                *)
LEMMA SelectsExists ==
    ASSUME NEW seq, NEW positions, NEW n \in Nat
    PROVE  \E g : Selects(g, seq, positions, n)
<1> DEFINE T == {m \in Nat : ~ \E g : Selects(g, seq, positions, m)}
<1>1. SUFFICES ASSUME T # {} PROVE FALSE
  OBVIOUS
<1>2. PICK m \in T : \A k \in T : m <= k
  BY <1>1, SmallestNumber
<1>3. CASE m = 0
  <2>1. Selects([k \in 0 .. 0 |-> <<>>], seq, positions, 0)
    BY DEF Selects
  <2>2. QED
    BY <1>2, <1>3, <2>1
<1>4. CASE m # 0
  <2>1. m - 1 \in Nat /\ m - 1 < m
    BY <1>2, <1>4
  <2>2. PICK g : Selects(g, seq, positions, m - 1)
    BY <1>2, <2>1
  <2> DEFINE h == [k \in 0 .. m |->
                     IF k < m THEN g[k]
                     ELSE IF m \in positions THEN Append(g[m - 1], seq[m]) ELSE g[m - 1]]
  <2>3. ASSUME NEW k \in 0 .. m
        PROVE  h[k] = IF k = 0 THEN <<>>
                      ELSE IF k \in positions THEN Append(h[k - 1], seq[k]) ELSE h[k - 1]
    <3>1. CASE k = m
      BY <1>4, <2>1, <3>1
    <3>2. CASE k < m
      <4>1. g[k] = IF k = 0 THEN <<>>
                   ELSE IF k \in positions THEN Append(g[k - 1], seq[k]) ELSE g[k - 1]
        <5>1. k = 0 \/ k \in 1 .. m - 1
          BY <1>2, <3>2
        <5>2. CASE k = 0
          BY <2>1, <2>2, <5>2, SelectsAt
        <5>3. CASE k \in 1 .. m - 1
          <6>1. k # 0
            BY <5>3
          <6>2. QED
            BY <2>1, <2>2, <5>3, <6>1, SelectsAt
        <5>4. QED
          BY <5>1, <5>2, <5>3
      <4>2. h[k] = g[k] /\ (k # 0 => h[k - 1] = g[k - 1])
        BY <1>2, <3>2
      <4>3. QED
        BY <4>1, <4>2
    <3>3. QED
      BY <1>2, <3>1, <3>2
  <2>4. Selects(h, seq, positions, m)
    <3> HIDE DEF h
    <3>1. h = [k \in 0 .. m |-> h[k]]
      BY DEF h
    <3>2. QED
      BY <2>3, <3>1 DEF Selects
  <2>5. QED
    BY <1>2, <2>4
<1>5. QED
  BY <1>3, <1>4

(* What is selected is a sequence of what stands at the positions.          *)
LEMMA SelectedIn ==
    ASSUME NEW S, NEW seq, Len(seq) \in Nat, NEW positions,
           \A k \in 1 .. Len(seq) : k \in positions => seq[k] \in S
    PROVE  Selected(seq, positions) \in Seq(S)
<1> DEFINE n == Len(seq)
<1>1. PICK g : Selects(g, seq, positions, n) /\ Selected(seq, positions) = g[n]
  <2>1. \E g : Selects(g, seq, positions, n)
    BY SelectsExists
  <2>2. QED
    BY <2>1 DEF Selected, Selects
<1> DEFINE T == {k \in 0 .. n : g[k] \notin Seq(S)}
<1>2. SUFFICES ASSUME T # {} PROVE FALSE
  BY <1>1
<1>3. PICK k \in 0 .. n : g[k] \notin Seq(S) /\ \A j \in 0 .. n : g[j] \notin Seq(S) => k <= j
  <2>1. T \subseteq Nat
    OBVIOUS
  <2>2. PICK k \in T : \A j \in T : k <= j
    BY <1>2, <2>1, SmallestNumber
  <2>3. QED
    BY <2>2
<1> HIDE DEF T
<1>4. CASE k = 0
  <2>1. g[k] = <<>>
    BY <1>1, <1>4, SelectsAt
  <2>2. <<>> \in Seq(S)
    OBVIOUS
  <2>3. QED
    BY <1>3, <2>1, <2>2
<1>5. CASE k # 0
  <2>1. k \in 1 .. n /\ k - 1 \in 0 .. n /\ k - 1 < k
    BY <1>3, <1>5
  <2>2. g[k - 1] \in Seq(S)
    BY <1>3, <2>1
  <2>3. g[k] = IF k \in positions THEN Append(g[k - 1], seq[k]) ELSE g[k - 1]
    BY <1>1, <2>1, SelectsAt
  <2>4. CASE k \in positions
    <3>1. seq[k] \in S
      BY <2>1, <2>4
    <3>2. QED
      BY <1>3, <2>2, <2>3, <2>4, <3>1
  <2>5. CASE k \notin positions
    BY <1>3, <2>2, <2>3, <2>5
  <2>6. QED
    BY <2>4, <2>5
<1>6. QED
  BY <1>4, <1>5


-----------------------------------------------------------------------------
(* Files, records and objects.                                              *)

At(e, p) == e = Nothing \/ \E i, c : e = Entity(p, i, c)
IsEntity(e, C) == \E p \in C : At(e, p)

Placed(side, C) == DOMAIN side = C /\ \A p \in C : At(side[p], p)

OneOfEach(side, C) == \A p, q \in C : side[p] # Nothing /\ side[p].id = side[q].id => p = q

Proper(f, C) ==
    /\ C \in SUBSET Path /\ C # {}
    /\ Placed(f.local, C) /\ Placed(f.remote, C) /\ Placed(f.rows, C)
    /\ OneOfEach(f.remote, C)
    /\ \A r \in f.reports : r.old \in C /\ r.new \in C

(* What stands at an address of a component is nothing, or is there.        *)
LEMMA PlacedEntity ==
    ASSUME NEW C \in SUBSET Path, NEW side, Placed(side, C), NEW p \in C
    PROVE  /\ IsEntity(side[p], C)
           /\ side[p].path \in {0, p}
           /\ side[p] # Nothing => side[p].path = p
<1>1. p # 0
  BY DEF Path
<1>2. At(side[p], p)
  BY DEF Placed
<1>3. side[p].path \in {0, p} /\ (side[p] # Nothing => side[p].path = p)
  <2>1. CASE side[p] = Nothing
    BY <2>1 DEF Nothing
  <2>2. CASE side[p] # Nothing
    <3>1. PICK i, c : side[p] = Entity(p, i, c)
      BY <1>2, <2>2 DEF At
    <3>2. QED
      BY <3>1 DEF Entity
  <2>3. QED
    BY <2>1, <2>2
<1>4. QED
  BY <1>2, <1>3 DEF IsEntity

(* An entity is nothing exactly where it has no address.                    *)
LEMMA EntityPath ==
    ASSUME NEW C \in SUBSET Path, NEW e, IsEntity(e, C)
    PROVE  /\ e.path \in C \cup {0}
           /\ At(e, e.path)
           /\ e # Nothing <=> e.path # 0
           /\ e # Nothing <=> e.path \in C
<1>1. 0 \notin C
  BY DEF Path
<1>2. PICK p \in C : At(e, p)
  BY DEF IsEntity
<1>3. p # 0
  BY <1>1
<1>4. QED
  BY <1>1, <1>2, <1>3 DEF At, Entity, Nothing

(* Nothing is an entity of any component.                                   *)
LEMMA NothingIsEntity ==
    ASSUME NEW C, C # {}
    PROVE  IsEntity(Nothing, C)
BY DEF IsEntity, At

(* The entity found by its identity is one of the side.                     *)
LEMMA FoundByIdentity ==
    ASSUME NEW C \in SUBSET Path, C # {}, NEW side, Placed(side, C), NEW i
    PROVE  LET e == OfIdentity(side, i)
           IN  /\ IsEntity(e, C)
               /\ e # Nothing => e.path \in C /\ side[e.path] = e /\ e.id = i /\ i # 0
<1> DEFINE found == CHOOSE p \in DOMAIN side : side[p].id = i
<1>1. DOMAIN side = C
  BY DEF Placed
<1>2. CASE i # 0 /\ \E p \in DOMAIN side : side[p].id = i
  <2>1. found \in C /\ side[found].id = i
    BY <1>1, <1>2
  <2>2. OfIdentity(side, i) = side[found]
    BY <1>2 DEF OfIdentity
  <2> HIDE DEF found
  <2>3. IsEntity(side[found], C) /\ (side[found] # Nothing => side[found].path = found)
    BY <2>1, PlacedEntity
  <2>4. QED
    BY <1>2, <2>1, <2>2, <2>3
<1>3. CASE ~ (i # 0 /\ \E p \in DOMAIN side : side[p].id = i)
  BY <1>3 DEF OfIdentity, IsEntity, At
<1>4. QED
  BY <1>2, <1>3

-----------------------------------------------------------------------------
(* What has been bound belongs together.                                    *)

Usable(b) == b.base = b.destination \/ (b.base = b.source /\ b.source.path # b.path)

Together(b) ==
    /\ b.moves = "local" => b.from = b.local.path /\ b.remote.path = b.path
    /\ b.moves = "remote" => b.from = b.remote.path /\ b.local.path = b.path
    /\ ~ b.replacement /\ b.base # Nothing => Usable(b)
    /\ b.moves = "none" /\ ~ b.replacement /\ b.base # Nothing =>
         b.local.path = b.path /\ b.remote.path = b.path

Consistent(b, C) ==
    /\ b.path \in C
    /\ IsEntity(b.local, C) /\ IsEntity(b.remote, C) /\ IsEntity(b.base, C)
    /\ b.moves \in {"none", "local", "remote"}
    /\ b.remote.path \notin {0, b.path} => b.tracked = b.remote
    /\ b.otherRemote # Nothing => b.remote # Nothing
    /\ b.local # Nothing /\ b.remote # Nothing => Together(b)

GoodBinding(b, C) == b.path \in C /\ (~ b.exact => Consistent(b, C))

GoodFiles(files, C) ==
    \E S : files \in Seq(S) /\ \A b \in S : GoodBinding(b, C)

(* A good binding added to good ones leaves good ones.                      *)
LEMMA FilesGrow ==
    ASSUME NEW C, NEW files, GoodFiles(files, C), NEW b, GoodBinding(b, C)
    PROVE  GoodFiles(Append(files, b), C)
<1>1. PICK S : files \in Seq(S) /\ \A x \in S : GoodBinding(x, C)
  BY DEF GoodFiles
<1>2. files \in Seq(S \cup {b})
  BY <1>1
<1>3. Append(files, b) \in Seq(S \cup {b})
  BY <1>2
<1>4. \A x \in S \cup {b} : GoodBinding(x, C)
  BY <1>1
<1>5. QED
  BY <1>3, <1>4 DEF GoodFiles

GoodAcc(acc, C) == "files" \in DOMAIN acc /\ GoodFiles(acc.files, C)

(* Binding and refusing keep what was bound.                                *)
LEMMA BindKeeps ==
    ASSUME NEW C, NEW acc, GoodAcc(acc, C)
    PROVE  /\ GoodAcc(Refused(acc), C)
           /\ \A b, left : GoodBinding(b, C) => GoodAcc(Bind(acc, b, left), C)
           /\ \A b : GoodBinding(b, C) => GoodAcc([acc EXCEPT !.files = Append(@, b)], C)
<1>1. GoodAcc(Refused(acc), C)
  BY DEF GoodAcc, Refused
<1>2. ASSUME NEW b, GoodBinding(b, C) PROVE GoodFiles(Append(acc.files, b), C)
  BY <1>2, FilesGrow DEF GoodAcc
<1>3. ASSUME NEW b, NEW left, GoodBinding(b, C) PROVE GoodAcc(Bind(acc, b, left), C)
  <2>1. Bind(acc, b, left).files = Append(acc.files, b)
        /\ "files" \in DOMAIN Bind(acc, b, left)
    BY DEF GoodAcc, Bind
  <2>2. QED
    BY <1>2, <1>3, <2>1 DEF GoodAcc
<1>4. ASSUME NEW b, GoodBinding(b, C) PROVE GoodAcc([acc EXCEPT !.files = Append(@, b)], C)
  BY <1>2, <1>4 DEF GoodAcc
<1>5. QED
  BY <1>1, <1>3, <1>4

(* A reported rename of a file without a record.                            *)
LEMMA UnrecordedReportKeeps ==
    ASSUME NEW f, NEW C, Proper(f, C), NEW acc, GoodAcc(acc, C), NEW r \in f.reports
    PROVE  GoodAcc(BindUnrecordedReport(f, acc, r), C)
<1> DEFINE here == f.local[r.new]
           there == f.remote[r.old]
           occupant == f.remote[r.new]
           b == [Bound(r.new, here, there, Nothing, Nothing, f.rows[r.new])
                   EXCEPT !.moves = "remote", !.from = r.old, !.tracked = there,
                          !.otherRemote = occupant, !.replacement = occupant # Nothing]
<1>1. SUFFICES ASSUME here # Nothing, there # Nothing
               PROVE  GoodAcc(Bind(acc, b, {r.old}), C)
  BY BindKeeps DEF BindUnrecordedReport
<1>2. r.old \in C /\ r.new \in C /\ C \in SUBSET Path
  BY DEF Proper
<1>3. /\ IsEntity(here, C) /\ here.path = r.new
      /\ IsEntity(there, C) /\ there.path = r.old
  BY <1>1, <1>2, PlacedEntity DEF Proper
<1> HIDE DEF here, there, occupant
<1>4. /\ b.exact = FALSE /\ b.path = r.new /\ b.local = here /\ b.remote = there
      /\ b.base = Nothing /\ b.moves = "remote" /\ b.from = r.old /\ b.tracked = there
  BY DEF Bound
<1> HIDE DEF b
<1>5. GoodBinding(b, C)
  BY <1>1, <1>2, <1>3, <1>4 DEF GoodBinding, Consistent, Together, IsEntity, At
<1>6. QED
  BY <1>5, BindKeeps

(* A record, the file and the object that continue it, and their address.   *)
LEMMA MovedRowKeeps ==
    ASSUME NEW f, NEW C, Proper(f, C), NEW acc, GoodAcc(acc, C),
           NEW base, base # Nothing, IsEntity(base, C), f.rows[base.path] = base,
           NEW file, IsEntity(file, C), NEW object, IsEntity(object, C), NEW tracked,
           NEW path \in C,
           file # Nothing /\ object # Nothing => path \in {file.path, object.path},
           object.path \notin {0, path} => tracked = object
    PROVE  GoodAcc(BindMovedRow(f, acc, base, file, object, tracked, path), C)
<1> DEFINE recreated == path # base.path /\ f.remote[base.path] # Nothing
                          /\ f.remote[base.path].id # base.id
           here == IF recreated THEN f.local[path] ELSE file
           apart == ~ recreated /\ file # Nothing /\ object # Nothing /\ file.path # object.path
           moves == IF ~ apart THEN "none" ELSE IF path = file.path THEN "remote" ELSE "local"
           occupant == OnlyIf(moves = "remote", f.remote[path])
           clash == recreated /\ here # Nothing /\ object # Nothing
                      /\ here.content # object.content
           from == CASE moves = "remote" -> object.path
                     [] moves = "local" -> file.path [] OTHER -> 0
           replaced == \/ recreated /\ here # Nothing
                       \/ occupant # Nothing
                       \/ object # Nothing /\ object.id # base.id
           b == [Bound(path, here, object, OnlyIf(~ recreated, base), base, f.rows[path])
                   EXCEPT !.moves = moves, !.from = from, !.tracked = tracked,
                          !.otherRemote = occupant, !.otherLocal = OnlyIf(clash, here),
                          !.replacement = replaced]
<1>1. BindMovedRow(f, acc, base, file, object, tracked, path)
        \in {Refused(acc), Bind(acc, b, {base.path} \ {path})}
  BY DEF BindMovedRow
<1>2. /\ b.exact = FALSE /\ b.path = path /\ b.local = here /\ b.remote = object
      /\ b.base = OnlyIf(~ recreated, base) /\ b.source = base
      /\ b.destination = f.rows[path] /\ b.moves = moves /\ b.from = from
      /\ b.tracked = tracked /\ b.otherRemote = occupant /\ b.replacement = replaced
  BY DEF Bound
<1>3. C \in SUBSET Path /\ base.path \in C /\ base.path # 0
  BY EntityPath, SMTT(30) DEF Proper
<1>4. IsEntity(here, C) /\ IsEntity(b.base, C)
  <2>1. IsEntity(f.local[path], C)
    BY <1>3, PlacedEntity DEF Proper
  <2>2. IsEntity(OnlyIf(~ recreated, base), C)
    BY DEF OnlyIf, IsEntity, At
  <2>3. QED
    BY <1>2, <2>1, <2>2
<1>5. apart => path \in {file.path, object.path} /\ file.path # object.path
  OBVIOUS
<1>6. /\ moves \in {"none", "local", "remote"}
      /\ moves # "none" => apart
      /\ moves = "local" => from = file.path /\ object.path = path /\ here = file
      /\ moves = "remote" => from = object.path /\ file.path = path /\ here = file
  BY <1>5
<1>7. occupant # Nothing => object # Nothing
  BY <1>6, SMTT(30) DEF OnlyIf
<1>8. ~ replaced /\ b.base # Nothing => b.base = base /\ (recreated => here = Nothing)
  BY <1>2 DEF OnlyIf
<1>9. ~ recreated /\ moves = "none" /\ here # Nothing /\ object # Nothing =>
        here.path = path /\ object.path = path
  BY SMTT(30)
<1>10. Usable(b) \/ b.base # base
  BY <1>2, <1>3 DEF Usable
<1> HIDE DEF recreated, here, apart, moves, occupant, clash, from, replaced, b
<1>11. GoodBinding(b, C)
  BY <1>2, <1>3, <1>4, <1>6, <1>7, <1>8, <1>9, <1>10 DEF GoodBinding, Consistent, Together
<1>12. GoodAcc(Refused(acc), C) /\ GoodAcc(Bind(acc, b, {base.path} \ {path}), C)
  BY <1>11, BindKeeps
<1>13. QED
  BY <1>1, <1>12

(* What continues a record, once its address is settled.                    *)
LEMMA RowAsKeeps ==
    ASSUME NEW f, NEW C, Proper(f, C), NEW acc, GoodAcc(acc, C), NEW reports,
           NEW base, base # Nothing, IsEntity(base, C), f.rows[base.path] = base,
           NEW told, NEW tracked, NEW object, IsEntity(object, C),
           NEW carried, NEW file, IsEntity(file, C),
           tracked # object /\ object # Nothing => told # Nothing /\ object.path = told.path,
           told # Nothing /\ file # Nothing => file.path = told.path
    PROVE  GoodAcc(BindRowAs(f, acc, reports, base, told, tracked, object, carried, file), C)
<1> DEFINE p == base.path
           relabelled == told # Nothing /\ file # Nothing
           moved == object # Nothing /\ object.path # p
           path == CASE relabelled -> file.path
                     [] ~ relabelled /\ (moved \/ (carried # Nothing /\ object # Nothing))
                          -> object.path
                     [] OTHER -> Or(file, Or(object, base)).path
           met == [Bind(acc, ExactPath(p), {})
                     EXCEPT !.local = @ \cup ({f.local[p].path} \ {0}),
                            !.remote = @ \cup ({f.remote[p].path} \ {0})]
<1>1. BindRowAs(f, acc, reports, base, told, tracked, object, carried, file)
        \in {acc, met, BindMovedRow(f, acc, base, file, object, tracked, path)}
  BY DEF BindRowAs
<1>2. C \in SUBSET Path /\ p \in C /\ p # 0
  BY EntityPath DEF Proper
<1>3. /\ file # Nothing => file.path \in C /\ file.path # 0
      /\ object # Nothing => object.path \in C /\ object.path # 0
      /\ object = Nothing => object.path = 0
  BY <1>2, EntityPath
<1>4. path \in C
  BY <1>2, <1>3 DEF Or
<1>5. file # Nothing /\ object # Nothing => path \in {file.path, object.path}
  BY DEF Or
<1>6. object.path \notin {0, path} => tracked = object
  <2>1. SUFFICES ASSUME object # Nothing, tracked # object PROVE path = object.path
    BY <1>3
  <2>2. told # Nothing /\ object.path = told.path
    BY <2>1
  <2>3. CASE file # Nothing
    BY <2>2, <2>3
  <2>4. CASE file = Nothing
    BY <2>1, <2>4 DEF Or
  <2>5. QED
    BY <2>3, <2>4
<1>7. GoodAcc(met, C)
  <2>1. GoodBinding(ExactPath(p), C)
    BY <1>2 DEF GoodBinding, ExactPath, Bound
  <2>2. GoodAcc(Bind(acc, ExactPath(p), {}), C)
    BY <2>1, BindKeeps
  <2>3. QED
    BY <2>2 DEF GoodAcc
<1> HIDE DEF path, met
<1>8. GoodAcc(BindMovedRow(f, acc, base, file, object, tracked, path), C)
  BY <1>4, <1>5, <1>6, MovedRowKeeps
<1>9. QED
  BY <1>1, <1>7, <1>8

(* The record of an address.                                                *)
LEMMA RowKeeps ==
    ASSUME NEW f, NEW C, Proper(f, C), NEW acc, GoodAcc(acc, C),
           NEW reports \in SUBSET f.reports, NEW p \in C
    PROVE  GoodAcc(BindRow(f, acc, reports, p), C)
<1> DEFINE base == f.rows[p]
           news == {Entity(r.new, 0, 1) : r \in {q \in reports : q.side = "local" /\ q.old = p}}
           told == OneOf(news)
           landed == IF told = Nothing THEN Nothing ELSE f.remote[told.path]
           tracked == OfIdentity(f.remote, base.id)
           object == Or(tracked, landed)
           from == {r.old : r \in {q \in reports : q.side = "remote" /\ q.new = object.path
                                                   /\ q.id \in {0, base.id}}}
           left == {f.local[q] : q \in from} \ {Nothing}
           carried == OneOf(left)
           stayed == Or(f.local[base.path],
                        OnlyIf(object # Nothing /\ Absent(f, "local", base.path),
                               IF object = Nothing THEN Nothing ELSE f.local[object.path]))
           file == IF told # Nothing THEN f.local[told.path] ELSE Or(carried, stayed)
<1>1. SUFFICES ASSUME base # Nothing
               PROVE  GoodAcc(BindRowAs(f, acc, reports, base, told, tracked, object,
                                        carried, file), C)
  BY DEF BindRow, BindRowFrom
<1>2. C \in SUBSET Path /\ C # {} /\ 0 \notin C
  BY DEF Proper, Path
<1>3. IsEntity(base, C) /\ base.path = p
  BY <1>1, <1>2, PlacedEntity DEF Proper
<1>4. told # Nothing => told.path \in C
  <2>1. SUFFICES ASSUME told # Nothing PROVE told.path \in C
    OBVIOUS
  <2>2. told \in news
    BY <2>1 DEF OneOf
  <2>3. PICK r \in reports : told = Entity(r.new, 0, 1)
    BY <2>2
  <2>4. QED
    BY <2>3 DEF Proper, Entity
<1> HIDE DEF told
<1>5. /\ IsEntity(landed, C)
      /\ landed # Nothing => told # Nothing /\ landed.path = told.path
  <2>1. CASE told = Nothing
    BY <1>2, <2>1 DEF IsEntity, At
  <2>2. CASE told # Nothing
    BY <1>2, <1>4, <2>2, PlacedEntity DEF Proper
  <2>3. QED
    BY <2>1, <2>2
<1>6. IsEntity(tracked, C)
  BY <1>2, FoundByIdentity DEF Proper
<1> HIDE DEF landed, tracked
<1>7. /\ IsEntity(object, C)
      /\ tracked # object /\ object # Nothing => told # Nothing /\ object.path = told.path
  BY <1>5, <1>6 DEF Or
<1>8. IsEntity(carried, C)
  <2>1. CASE left = {}
    BY <1>2, <2>1 DEF OneOf, IsEntity, At
  <2>2. CASE left # {}
    <3>1. carried \in left
      BY <2>2 DEF OneOf
    <3>2. PICK q \in from : carried = f.local[q]
      BY <3>1
    <3>3. q \in C
      BY <3>2 DEF Proper
    <3>4. QED
      BY <1>2, <3>2, <3>3, PlacedEntity DEF Proper
  <2>3. QED
    BY <2>1, <2>2
<1> HIDE DEF carried, object
<1>9. IsEntity(stayed, C)
  <2>1. IsEntity(f.local[p], C)
    BY <1>2, PlacedEntity DEF Proper
  <2>2. object # Nothing => IsEntity(f.local[object.path], C)
    BY <1>2, <1>7, EntityPath, PlacedEntity DEF Proper
  <2>3. IsEntity(Nothing, C)
    BY <1>2 DEF IsEntity, At
  <2>4. QED
    BY <1>3, <2>1, <2>2, <2>3 DEF Or, OnlyIf
<1> HIDE DEF stayed
<1>10. IsEntity(file, C)
  <2>1. told # Nothing => IsEntity(f.local[told.path], C)
    BY <1>2, <1>4, PlacedEntity DEF Proper
  <2>2. QED
    BY <1>8, <1>9, <2>1 DEF Or
<1>11. told # Nothing /\ file # Nothing => file.path = told.path
  BY <1>2, <1>4, PlacedEntity DEF Proper
<1> HIDE DEF file, base
<1>12. f.rows[base.path] = base
  BY <1>3 DEF base
<1>13. QED
  BY <1>1, <1>3, <1>7, <1>10, <1>11, <1>12, RowAsKeeps

(* A rename on the remote that no record explains.                          *)
LEMMA RemoteReportKeeps ==
    ASSUME NEW f, NEW C, Proper(f, C), NEW acc, GoodAcc(acc, C), NEW r \in f.reports
    PROVE  GoodAcc(BindRemoteReport(f, acc, r), C)
<1> DEFINE object == f.remote[r.new]
           left == f.local[r.old]
           here == f.local[r.new]
           b == [Bound(r.new, left, object, Nothing, Nothing, f.rows[r.new])
                   EXCEPT !.moves = "local", !.from = r.old]
           c == [Bound(r.new, here, object, Nothing, Nothing, f.rows[r.new])
                   EXCEPT !.replacement = here # Nothing,
                          !.otherLocal = OnlyIf(here.content # object.content, here)]
<1>1. \/ BindRemoteReport(f, acc, r) = acc
      \/ object # Nothing /\ left # Nothing /\ BindRemoteReport(f, acc, r) = Bind(acc, b, {})
      \/ object # Nothing /\ BindRemoteReport(f, acc, r) = Bind(acc, c, {})
  BY DEF BindRemoteReport
<1>2. r.old \in C /\ r.new \in C /\ C \in SUBSET Path /\ C # {}
  BY DEF Proper
<1>3. /\ IsEntity(object, C) /\ (object # Nothing => object.path = r.new)
      /\ IsEntity(left, C) /\ (left # Nothing => left.path = r.old)
      /\ IsEntity(here, C) /\ IsEntity(Nothing, C)
  BY <1>2, PlacedEntity, NothingIsEntity DEF Proper
<1> HIDE DEF object, left, here
<1>4. /\ b.exact = FALSE /\ b.path = r.new /\ b.local = left /\ b.remote = object
      /\ b.base = Nothing /\ b.moves = "local" /\ b.from = r.old /\ b.otherRemote = Nothing
  BY DEF Bound
<1>5. /\ c.exact = FALSE /\ c.path = r.new /\ c.local = here /\ c.remote = object
      /\ c.base = Nothing /\ c.moves = "none" /\ c.otherRemote = Nothing
  BY DEF Bound
<1> HIDE DEF b, c
<1>6. object # Nothing /\ left # Nothing => GoodBinding(b, C)
  BY <1>2, <1>3, <1>4 DEF GoodBinding, Consistent, Together
<1>7. object # Nothing => GoodBinding(c, C)
  BY <1>2, <1>3, <1>5 DEF GoodBinding, Consistent, Together
<1>8. /\ object # Nothing /\ left # Nothing => GoodAcc(Bind(acc, b, {}), C)
      /\ object # Nothing => GoodAcc(Bind(acc, c, {}), C)
  BY <1>6, <1>7, BindKeeps
<1>9. QED
  BY <1>1, <1>8

(* What is left at an address.                                              *)
LEMMA RestKeeps ==
    ASSUME NEW f, NEW C, Proper(f, C), NEW acc, GoodAcc(acc, C), NEW p \in C
    PROVE  GoodAcc(BindRest(f, acc, p), C)
<1> DEFINE file == OnlyIf(p \notin acc.local, f.local[p])
           object == OnlyIf(p \notin acc.remote, f.remote[p])
           base == f.rows[p]
           relocated == p \in acc.relocated
           expected == OnlyIf(~ relocated, base)
           released == /\ object = Nothing /\ p \in acc.remote
                       /\ \E k \in DOMAIN acc.files :
                            acc.files[k].moves = "remote" /\ acc.files[k].from = p
           replaced == relocated \/ (base # Nothing /\ object # Nothing /\ base.id # object.id)
           b == [Bound(p, file, object, OnlyIf(~ released, base),
                       OnlyIf(~ replaced, expected), expected)
                   EXCEPT !.released = released, !.replacement = replaced]
<1>1. \/ BindRest(f, acc, p) = acc
      \/ BindRest(f, acc, p) = [acc EXCEPT !.files = Append(@, ExactPath(p))]
      \/ BindRest(f, acc, p) = [acc EXCEPT !.files = Append(@, b)]
  BY Zenon DEF BindRest
<1>2. C \in SUBSET Path /\ C # {}
  BY DEF Proper
<1>3. /\ IsEntity(f.local[p], C) /\ (f.local[p] # Nothing => f.local[p].path = p)
      /\ IsEntity(f.remote[p], C) /\ (f.remote[p] # Nothing => f.remote[p].path = p)
      /\ IsEntity(base, C) /\ IsEntity(Nothing, C)
  BY <1>2, PlacedEntity, NothingIsEntity DEF Proper
<1>4. /\ IsEntity(file, C) /\ (file # Nothing => file.path = p)
      /\ IsEntity(object, C) /\ (object # Nothing => object.path = p)
      /\ object = Nothing => object.path = 0
      /\ IsEntity(OnlyIf(~ released, base), C)
  BY <1>2, <1>3, EntityPath DEF OnlyIf
<1>5. /\ b.exact = FALSE /\ b.path = p /\ b.local = file /\ b.remote = object
      /\ b.base = OnlyIf(~ released, base) /\ b.moves = "none" /\ b.otherRemote = Nothing
      /\ b.destination = expected /\ b.replacement = replaced
  BY SMTT(30) DEF Bound
<1>6. ~ replaced /\ b.base # Nothing => b.base = b.destination
  BY <1>5 DEF OnlyIf
<1> HIDE DEF file, object, released, replaced, b
<1>7. GoodBinding(b, C)
  BY <1>4, <1>5, <1>6 DEF GoodBinding, Consistent, Together, Usable
<1>8. GoodBinding(ExactPath(p), C)
  BY DEF GoodBinding, ExactPath, Bound
<1>9. /\ GoodAcc([acc EXCEPT !.files = Append(@, b)], C)
      /\ GoodAcc([acc EXCEPT !.files = Append(@, ExactPath(p))], C)
  BY <1>7, <1>8, BindKeeps
<1>10. QED
  BY <1>1, <1>9

(* Whatever is bound next.                                                  *)
LEMMA OneKeeps ==
    ASSUME NEW f, NEW C, Proper(f, C), NEW acc, GoodAcc(acc, C),
           NEW reports \in SUBSET f.reports, NEW item
    PROVE  GoodAcc(BindOne(f, acc, reports, item), C)
<1>1. Held(f) = C
  BY DEF Held, Proper, Placed
<1>2. \/ BindOne(f, acc, reports, item) = acc
      \/ /\ item.about \in reports
         /\ BindOne(f, acc, reports, item) \in {BindUnrecordedReport(f, acc, item.about),
                                                BindRemoteReport(f, acc, item.about)}
      \/ /\ item.at \in C
         /\ BindOne(f, acc, reports, item) \in {BindRow(f, acc, reports, item.at),
                                                BindRest(f, acc, item.at)}
  BY <1>1 DEF BindOne
<1>3. ASSUME NEW r \in reports
      PROVE  GoodAcc(BindUnrecordedReport(f, acc, r), C) /\ GoodAcc(BindRemoteReport(f, acc, r), C)
  BY UnrecordedReportKeeps, RemoteReportKeeps
<1>4. ASSUME NEW p \in C
      PROVE  GoodAcc(BindRow(f, acc, reports, p), C) /\ GoodAcc(BindRest(f, acc, p), C)
  BY RowKeeps, RestKeeps
<1>5. QED
  BY <1>2, <1>3, <1>4

-----------------------------------------------------------------------------
(* The stages, one after the other.                                         *)

Binds(g, f, reports, items, n) ==
    g = [k \in 0 .. n |->
           IF k = 0 THEN NothingBound ELSE BindOne(f, g[k - 1], reports, items[k])]

(* What such a function is at each number.                                  *)
LEMMA BindsAt ==
    ASSUME NEW f, NEW reports, NEW items, NEW n \in Nat, NEW g, Binds(g, f, reports, items, n)
    PROVE  /\ g[0] = NothingBound
           /\ \A k \in 1 .. n : g[k] = BindOne(f, g[k - 1], reports, items[k])
<1> DEFINE F(k) == IF k = 0 THEN NothingBound ELSE BindOne(f, g[k - 1], reports, items[k])
<1>1. g = [k \in 0 .. n |-> F(k)]
  BY Zenon DEF Binds
<1> HIDE DEF F
<1>2. \A k \in 0 .. n : g[k] = F(k)
  BY <1>1
<1>3. g[0] = NothingBound
  BY <1>2 DEF F
<1>4. ASSUME NEW k \in 1 .. n PROVE g[k] = BindOne(f, g[k - 1], reports, items[k])
  <2>1. k \in 0 .. n /\ k # 0
    OBVIOUS
  <2>2. QED
    BY <1>2, <2>1 DEF F
<1>5. QED
  BY <1>3, <1>4

(* There is such a function.                                                *)
LEMMA BindsExists ==
    ASSUME NEW f, NEW reports, NEW items, NEW n \in Nat
    PROVE  \E g : Binds(g, f, reports, items, n)
<1> DEFINE T == {m \in Nat : ~ \E g : Binds(g, f, reports, items, m)}
<1>1. SUFFICES ASSUME T # {} PROVE FALSE
  OBVIOUS
<1>2. PICK m \in T : \A k \in T : m <= k
  BY <1>1, SmallestNumber
<1>3. CASE m = 0
  <2>1. Binds([k \in 0 .. 0 |-> NothingBound], f, reports, items, 0)
    BY DEF Binds
  <2>2. QED
    BY <1>2, <1>3, <2>1
<1>4. CASE m # 0
  <2>1. m - 1 \in Nat /\ m - 1 < m
    BY <1>2, <1>4
  <2>2. PICK g : Binds(g, f, reports, items, m - 1)
    BY <1>2, <2>1
  <2>3. g[0] = NothingBound
    <3>1. m - 1 \in Nat /\ Binds(g, f, reports, items, m - 1)
      BY <2>1, <2>2
    <3> HIDE DEF T
    <3>2. QED
      BY <3>1, BindsAt
  <2> DEFINE h == [k \in 0 .. m |->
                     IF k < m THEN g[k] ELSE BindOne(f, g[m - 1], reports, items[m])]
  <2>4. ASSUME NEW k \in 0 .. m
        PROVE  h[k] = IF k = 0 THEN NothingBound ELSE BindOne(f, h[k - 1], reports, items[k])
    <3>1. CASE k = m
      <4>1. h[k] = BindOne(f, g[m - 1], reports, items[m]) /\ h[k - 1] = g[m - 1]
        BY <2>1, <3>1
      <4>2. QED
        BY <1>4, <3>1, <4>1
    <3>2. CASE k < m
      <4>1. g[k] = IF k = 0 THEN NothingBound ELSE BindOne(f, g[k - 1], reports, items[k])
        <5>1. k = 0 \/ (k \in 1 .. m - 1 /\ k # 0)
          BY <1>2, <3>2
        <5>2. CASE k = 0
          BY <5>2, <2>3
        <5>3. CASE k \in 1 .. m - 1 /\ k # 0
          BY <2>1, <2>2, <5>3, BindsAt
        <5>4. QED
          BY <5>1, <5>2, <5>3
      <4>2. h[k] = g[k] /\ (k # 0 => h[k - 1] = g[k - 1])
        BY <1>2, <3>2
      <4>3. QED
        BY <4>1, <4>2
    <3>3. QED
      BY <1>2, <3>1, <3>2
  <2>5. Binds(h, f, reports, items, m)
    <3> HIDE DEF h
    <3>1. h = [k \in 0 .. m |-> h[k]]
      BY DEF h
    <3>2. QED
      BY <2>4, <3>1 DEF Binds
  <2>6. QED
    BY <1>2, <2>5
<1>5. QED
  BY <1>3, <1>4

(* All that is bound is good.                                               *)
LEMMA AllBoundIsGood ==
    ASSUME NEW f, NEW C, Proper(f, C), NEW reports \in SUBSET f.reports,
           NEW items, Len(items) \in Nat
    PROVE  GoodFiles(BindFiles(f, reports, items).files, C)
<1> DEFINE n == Len(items)
<1>1. PICK g : Binds(g, f, reports, items, n) /\ BindFiles(f, reports, items) = g[n]
  <2>1. \E g : Binds(g, f, reports, items, n)
    BY BindsExists
  <2>2. QED
    BY <2>1 DEF BindFiles, Binds
<1> DEFINE T == {k \in 0 .. n : ~ GoodAcc(g[k], C)}
<1>2. SUFFICES ASSUME T # {} PROVE FALSE
  BY <1>1 DEF GoodAcc
<1>3. PICK k \in 0 .. n : ~ GoodAcc(g[k], C) /\ \A j \in 0 .. n : ~ GoodAcc(g[j], C) => k <= j
  <2>1. T \subseteq Nat
    OBVIOUS
  <2>2. PICK k \in T : \A j \in T : k <= j
    BY <1>2, <2>1, SmallestNumber
  <2>3. QED
    BY <2>2
<1> HIDE DEF T
<1>4. CASE k = 0
  <2>1. g[k] = NothingBound
    BY <1>1, <1>4, BindsAt
  <2>2. GoodFiles(<<>>, C)
    <3>1. PICK S : S = {}
      OBVIOUS
    <3>2. <<>> \in Seq(S)
      OBVIOUS
    <3>3. \A b \in S : GoodBinding(b, C)
      BY <3>1
    <3>4. QED
      BY <3>2, <3>3, Zenon DEF GoodFiles
  <2>3. GoodAcc(NothingBound, C)
    BY <2>2 DEF GoodAcc, NothingBound
  <2>4. QED
    BY <1>3, <2>1, <2>3
<1>5. CASE k # 0
  <2>1. k \in 1 .. n /\ k - 1 \in 0 .. n /\ k - 1 < k
    BY <1>3, <1>5
  <2>2. GoodAcc(g[k - 1], C)
    BY <1>3, <2>1
  <2>3. g[k] = BindOne(f, g[k - 1], reports, items[k])
    BY <1>1, <2>1, BindsAt
  <2>4. GoodAcc(BindOne(f, g[k - 1], reports, items[k]), C)
    BY <2>2, OneKeeps
  <2>5. QED
    BY <1>3, <2>3, <2>4
<1>6. QED
  BY <1>4, <1>5

-----------------------------------------------------------------------------
(* What an admitted action says of the sides: what it will write over or     *)
(* delete is what its record states, or is kept by the conflict.             *)

Says(a, entity) ==
    entity # Nothing => a.base # Nothing /\ entity.content = a.base.content /\ Usable(a)

SoundPush(a) ==
    a.at = a.path /\ (a.remote # Nothing => a.remote.path = a.path) /\ Says(a, a.remote)
SoundPull(a) ==
    a.at = a.path /\ (a.local # Nothing => a.local.path = a.path) /\ Says(a, a.local)
SoundLocalDeletion(a) ==
    /\ a.local # Nothing /\ a.base # Nothing
    /\ a.path = a.base.path /\ a.destination = a.base /\ a.local.content = a.base.content
SoundRemoteDeletion(a) ==
    /\ a.remote # Nothing /\ a.base # Nothing
    /\ a.path = a.base.path /\ a.destination = a.base /\ a.remote.content = a.base.content
SoundCopy(a) ==
    /\ a.local # Nothing /\ a.remote # Nothing
    /\ a.copy = "push" => Says(a, a.remote)
    /\ a.copy = "pull" => Says(a, a.local)
SoundConflict(a) ==
    /\ a.at = a.path
    /\ a.remote.path \notin {0, a.path} => a.tracked = a.remote
    /\ a.otherRemote # Nothing => a.remote # Nothing

Sound(a) ==
    /\ a.kind = "push" => SoundPush(a)
    /\ a.kind = "pull" => SoundPull(a)
    /\ a.kind = "delete_local" => SoundLocalDeletion(a)
    /\ a.kind = "delete_remote" => SoundRemoteDeletion(a)
    /\ a.kind = "rename_local" => SoundCopy(a) /\ a.from = a.local.path /\ a.remote.path = a.path
    /\ a.kind = "rename_remote" => SoundCopy(a) /\ a.from = a.remote.path /\ a.local.path = a.path
    /\ a.kind = "conflict" => SoundConflict(a)

GoodAction(a, C) ==
    /\ a.path \in C /\ a.at \in C
    /\ IsEntity(a.local, C) /\ IsEntity(a.remote, C) /\ IsEntity(a.base, C)
    /\ Sound(a)

Made(a, C) == a.kind \in {"none", "unproven"} \/ GoodAction(a, C)

(* What a comparison says of the contents.                                  *)
LEMMA Comparison ==
    ASSUME NEW here, NEW there, NEW base
    PROVE  LET c == CompareContent(here, there, base)
           IN  /\ c \in {"match", "conflict", "push", "pull", "delete_local", "delete_remote",
                          "none", "cleanup"}
               /\ c = "push" => /\ here # Nothing
                                /\ there # Nothing =>
                                     base # Nothing /\ there.content = base.content
               /\ c = "pull" => /\ there # Nothing
                                /\ here # Nothing =>
                                     base # Nothing /\ here.content = base.content
               /\ c = "delete_local" => /\ here # Nothing /\ there = Nothing /\ base # Nothing
                                        /\ here.content = base.content
               /\ c = "delete_remote" => /\ here = Nothing /\ there # Nothing /\ base # Nothing
                                         /\ there.content = base.content
<1>1. CASE here # Nothing /\ there # Nothing /\ base = Nothing
  BY <1>1 DEF CompareContent
<1>2. CASE here # Nothing /\ there # Nothing /\ base # Nothing
  BY <1>2 DEF CompareContent
<1>3. CASE here # Nothing /\ there = Nothing
  BY <1>3 DEF CompareContent
<1>4. CASE here = Nothing /\ there # Nothing
  BY <1>4 DEF CompareContent
<1>5. CASE here = Nothing /\ there = Nothing
  BY <1>5 DEF CompareContent
<1>6. QED
  BY <1>1, <1>2, <1>3, <1>4, <1>5

(* The action of a binding, whatever the comparison said.                   *)
LEMMA PlanFields ==
    ASSUME NEW kind, NEW b
    PROVE  LET a == Plan(kind, b)
           IN  /\ a.kind = kind /\ a.path = b.path /\ a.at = b.path /\ a.local = b.local
               /\ a.remote = b.remote /\ a.base = b.base /\ a.source = b.source
               /\ a.destination = b.destination /\ a.from = b.from /\ a.tracked = b.tracked
               /\ a.otherRemote = b.otherRemote /\ a.otherLocal = b.otherLocal
               /\ a.copy = "none"
BY DEF Plan

(* A transfer, a match, a conflict or the end of a record, where nothing    *)
(* moves.                                                                   *)
LEMMA PlanGood ==
    ASSUME NEW C \in SUBSET Path, NEW b, Consistent(b, C), NEW kind,
           kind \in {"match", "conflict", "none", "cleanup"}
             \/ (b.moves = "none" /\ kind \in {"push", "pull"} /\ kind = Compared(b))
    PROVE  Made(Plan(kind, b), C)
<1> DEFINE a == Plan(kind, b)
<1> SUFFICES Made(a, C)
  OBVIOUS
<1>1. /\ a.kind = kind /\ a.path = b.path /\ a.at = b.path /\ a.local = b.local
      /\ a.remote = b.remote /\ a.base = b.base /\ a.source = b.source
      /\ a.destination = b.destination /\ a.tracked = b.tracked
      /\ a.otherRemote = b.otherRemote
  BY PlanFields
<1> HIDE DEF a
<1>2. CASE kind \in {"match", "none", "cleanup"}
  BY <1>1, <1>2 DEF Made, GoodAction, Consistent, Sound
<1>3. CASE kind = "conflict"
  BY <1>1, <1>3 DEF Made, GoodAction, Consistent, Sound, SoundConflict
<1>4. CASE b.moves = "none" /\ kind \in {"push", "pull"} /\ kind = Compared(b)
  <2>1. /\ kind = CompareContent(b.local, b.remote, b.base)
        /\ ~ (b.replacement /\ b.local # Nothing /\ b.remote # Nothing)
    BY <1>4 DEF Compared
  <2>2. /\ kind = "push" => /\ b.local # Nothing
                            /\ b.remote # Nothing =>
                                 b.base # Nothing /\ b.remote.content = b.base.content
        /\ kind = "pull" => /\ b.remote # Nothing
                            /\ b.local # Nothing =>
                                 b.base # Nothing /\ b.local.content = b.base.content
    BY <2>1, Comparison
  <2>3. b.local # Nothing /\ b.remote # Nothing =>
          Usable(b) /\ b.local.path = b.path /\ b.remote.path = b.path
    BY <1>4, <2>1, <2>2 DEF Consistent, Together
  <2>4. Usable(b) => Usable(a)
    BY <1>1 DEF Usable
  <2>5. CASE kind = "push"
    BY <1>1, <2>2, <2>3, <2>4, <2>5
       DEF Made, GoodAction, Consistent, Sound, SoundPush, Says
  <2>6. CASE kind = "pull"
    BY <1>1, <2>2, <2>3, <2>4, <2>6
       DEF Made, GoodAction, Consistent, Sound, SoundPull, Says
  <2>7. QED
    BY <1>4, <2>5, <2>6
<1>5. QED
  BY <1>2, <1>3, <1>4

(* A deletion states what it deletes.                                       *)
LEMMA DeletionGood ==
    ASSUME NEW C \in SUBSET Path, NEW b, Consistent(b, C),
           NEW kind \in {"delete_local", "delete_remote"}, kind = Compared(b)
    PROVE  Made(Deletion(kind, b), C)
<1> DEFINE a == Deletion(kind, b)
<1>1. kind = CompareContent(b.local, b.remote, b.base)
  BY DEF Compared
<1>2. /\ b.base # Nothing
      /\ kind = "delete_local" => b.local # Nothing /\ b.local.content = b.base.content
      /\ kind = "delete_remote" => b.remote # Nothing /\ b.remote.content = b.base.content
  BY <1>1, Comparison
<1>3. /\ a.kind = kind /\ a.path = b.base.path /\ a.at = b.path /\ a.local = b.local
      /\ a.remote = b.remote /\ a.base = b.base /\ a.destination = b.base
  BY DEF Deletion, Plan
<1>4. b.base.path \in C
  BY <1>2, EntityPath DEF Consistent
<1> HIDE DEF a
<1>5. GoodAction(a, C)
  BY <1>2, <1>3, <1>4
     DEF GoodAction, Consistent, Sound, SoundLocalDeletion, SoundRemoteDeletion
<1>6. QED
  BY <1>5 DEF Made, a

(* A rename moves the file of one side to where the other's is.             *)
LEMMA MoveGood ==
    ASSUME NEW C \in SUBSET Path, NEW b, Consistent(b, C), b.moves # "none"
    PROVE  Made(Move(b, Compared(b)), C)
<1> DEFINE kind == IF b.moves = "local" THEN "rename_local" ELSE "rename_remote"
           a == Plan(kind, b)
           e == [Plan(kind, b) EXCEPT !.copy = Compared(b)]
<1>1. /\ Unproven.kind = "unproven"
      /\ Made(Plan("conflict", b), C)
  BY PlanGood DEF Unproven, NoAction, Plan, ExactPath, Bound
<1>2. SUFFICES ASSUME b.local # Nothing, b.remote # Nothing
               PROVE  /\ GoodAction(a, C)
                      /\ Compared(b) \in {"push", "pull"} => GoodAction(e, C)
  BY <1>1 DEF Move, Made
<1>3. /\ a.kind = kind /\ a.path = b.path /\ a.at = b.path /\ a.local = b.local
      /\ a.remote = b.remote /\ a.base = b.base /\ a.source = b.source
      /\ a.destination = b.destination /\ a.from = b.from /\ a.copy = "none"
  BY PlanFields
<1>4. /\ e.kind = kind /\ e.path = b.path /\ e.at = b.path /\ e.local = b.local
      /\ e.remote = b.remote /\ e.base = b.base /\ e.source = b.source
      /\ e.destination = b.destination /\ e.from = b.from /\ e.copy = Compared(b)
  BY DEF Plan
<1> HIDE DEF a, e
<1>5. /\ kind = "rename_local" => b.from = b.local.path /\ b.remote.path = b.path
      /\ kind = "rename_remote" => b.from = b.remote.path /\ b.local.path = b.path
      /\ kind \in {"rename_local", "rename_remote"}
  BY <1>2 DEF Consistent, Together
<1> HIDE DEF kind
<1>6. GoodAction(a, C)
  BY <1>2, <1>3, <1>5 DEF GoodAction, Consistent, Sound, SoundCopy
<1>7. ASSUME Compared(b) \in {"push", "pull"} PROVE GoodAction(e, C)
  <2>1. Compared(b) = CompareContent(b.local, b.remote, b.base) /\ ~ b.replacement
    BY <1>2, <1>7 DEF Compared
  <2>2. /\ b.base # Nothing
        /\ Compared(b) = "push" => b.remote.content = b.base.content
        /\ Compared(b) = "pull" => b.local.content = b.base.content
    BY <1>2, <1>7, <2>1, Comparison
  <2>3. Usable(e)
    BY <1>2, <1>4, <2>1, <2>2 DEF Consistent, Together, Usable
  <2>4. SoundCopy(e)
    BY <1>2, <1>4, <2>2, <2>3 DEF SoundCopy, Says
  <2>5. QED
    BY <1>4, <1>5, <2>4 DEF GoodAction, Consistent, Sound
<1>8. QED
  BY <1>6, <1>7

(* What becomes of a binding.                                               *)
LEMMA MaterializeGood ==
    ASSUME NEW f, NEW C \in SUBSET Path, NEW b, Consistent(b, C)
    PROVE  Made(MaterializeFile(f, b), C)
<1> DEFINE c == Compared(b)
<1>1. Made(Unproven, C)
  BY DEF Made, Unproven, NoAction, Plan
<1>2. c \in {"match", "conflict", "push", "pull", "delete_local", "delete_remote",
             "none", "cleanup"}
  BY Comparison DEF Compared
<1>3. c \in {"delete_local", "delete_remote"} => Made(Deletion(c, b), C)
  BY DeletionGood
<1>4. b.moves # "none" => Made(Move(b, c), C)
  BY MoveGood
<1>5. c \notin {"delete_local", "delete_remote"} /\ b.moves = "none" => Made(Plan(c, b), C)
  BY <1>2, PlanGood
<1> HIDE DEF c
<1>6. Made(Materialize(f, b, c), C)
  BY <1>1, <1>3, <1>4, <1>5 DEF Materialize
<1>7. QED
  BY <1>6 DEF MaterializeFile, c

(* Endpoints that agree somewhere else are only recorded there.             *)
LEMMA CarriedGood ==
    ASSUME NEW f, NEW C \in SUBSET Path, NEW b, Consistent(b, C), NEW row, IsEntity(row, C)
    PROVE  Made(Carried(b, row, MaterializeFile(f, b)), C)
<1> DEFINE a == [Plan("match", b) EXCEPT !.base = row]
<1>1. Made(Unproven, C) /\ Made(MaterializeFile(f, b), C)
  BY MaterializeGood DEF Made, Unproven, NoAction, Plan
<1>2. /\ a.kind = "match" /\ a.path = b.path /\ a.at = b.path /\ a.local = b.local
      /\ a.remote = b.remote /\ a.base = row
  BY DEF Plan
<1> HIDE DEF a
<1>3. Made(a, C)
  BY <1>2 DEF Made, GoodAction, Consistent, Sound
<1>4. QED
  BY <1>1, <1>3 DEF Carried, a

(* An address by itself.                                                    *)
LEMMA ExactBindingGood ==
    ASSUME NEW f, NEW C, Proper(f, C), NEW p \in C, NEW keep
    PROVE  LET b == ExactBinding(f, p, keep)
           IN  Consistent(b, C) /\ IsEntity(b.source, C)
<1> DEFINE file == f.local[p]
           object == f.remote[p]
           here == f.rows[p]
           away == OfIdentity(f.remote, here.id)
           destination == OnlyIf(~ (away.path \notin {0, p}), here)
           same == OfIdentity(f.rows, object.id)
           expected == Or(destination, same)
           replaced == destination # Nothing /\ object # Nothing /\ destination.id # object.id
           base == OnlyIf(~ (keep /\ (file = Nothing \/ object = Nothing)), expected)
           source == OnlyIf(~ replaced, expected)
           b == [Bound(p, file, object, base, source, destination) EXCEPT !.replacement = replaced]
<1>1. ExactBinding(f, p, keep) = b
  BY DEF ExactBinding
<1>2. C \in SUBSET Path /\ C # {} /\ 0 \notin C
  BY DEF Proper, Path
<1>3. /\ IsEntity(file, C) /\ (file # Nothing => file.path = p)
      /\ IsEntity(object, C) /\ (object # Nothing => object.path = p)
      /\ IsEntity(here, C) /\ (here # Nothing => here.path = p)
      /\ IsEntity(Nothing, C)
  BY <1>2, PlacedEntity, NothingIsEntity DEF Proper
<1>4. /\ IsEntity(same, C)
      /\ same # Nothing => f.rows[same.path] = same /\ same.id = object.id /\ object.id # 0
  BY <1>2, FoundByIdentity DEF Proper
<1>5. away # Nothing => away.path \in C /\ f.remote[away.path] = away /\ away.id = here.id
  <2>1. Placed(f.remote, C)
    BY DEF Proper
  <2>2. QED
    BY <1>2, <2>1, FoundByIdentity
<1>6. away = Nothing => away.path = 0
  BY DEF Nothing
<1>7. object = Nothing => object.id = 0
  BY DEF Nothing
<1>8. destination = Nothing /\ same # Nothing => same.path # p
  <2>1. SUFFICES ASSUME destination = Nothing, same # Nothing, same.path = p PROVE FALSE
    OBVIOUS
  <2>2. here = same /\ here.id = object.id /\ object # Nothing
    BY <1>4, <1>7, <2>1
  <2>3. away.path \notin {0, p}
    BY <2>1, <2>2 DEF OnlyIf
  <2>4. away # Nothing /\ away.path \in C /\ f.remote[away.path] = away /\ away.id = object.id
    BY <1>5, <1>6, <2>2, <2>3
  <2>5. away.path = p
    BY <2>2, <2>4 DEF Proper, OneOfEach
  <2>6. QED
    BY <2>3, <2>5
<1>9. IsEntity(destination, C) /\ IsEntity(expected, C) /\ IsEntity(base, C) /\ IsEntity(source, C)
  BY <1>3, <1>4 DEF OnlyIf, Or
<1>10. /\ b.exact = FALSE /\ b.path = p /\ b.local = file /\ b.remote = object /\ b.base = base
       /\ b.source = source /\ b.destination = destination /\ b.moves = "none"
       /\ b.otherRemote = Nothing /\ b.replacement = replaced
  BY DEF Bound
<1>11. ~ replaced /\ base # Nothing =>
         base = destination \/ (base = source /\ destination = Nothing /\ base = same)
  BY SMTT(30) DEF OnlyIf, Or
<1>12. file # Nothing /\ object # Nothing => Together(b)
  BY <1>3, <1>8, <1>10, <1>11 DEF Together, Usable
<1> HIDE DEF file, object, base, source, destination, replaced, b
<1>13. Consistent(b, C)
  <2>1. object = Nothing => object.path = 0
    BY DEF Nothing
  <2>2. QED
    BY <1>3, <1>9, <1>10, <1>12, <2>1 DEF Consistent
<1>14. QED
  BY <1>1, <1>9, <1>10, <1>13

(* What is made of an address by itself is sound.                           *)
LEMMA ExactPathGood ==
    ASSUME NEW f, NEW C, Proper(f, C), NEW p \in C, NEW keep
    PROVE  Made(MaterializeExactPath(f, p, keep), C)
<1> DEFINE b == ExactBinding(f, p, keep)
<1>1. Consistent(b, C) /\ IsEntity(b.source, C) /\ C \in SUBSET Path
  BY ExactBindingGood DEF Proper
<1> HIDE DEF b
<1>2. Made(MaterializeExact(f, b), C)
  BY <1>1, MaterializeGood, CarriedGood DEF MaterializeExact
<1>3. QED
  BY <1>2 DEF MaterializeExactPath, b

-----------------------------------------------------------------------------
(* The decision on a component.                                             *)

GoodActions(actions, C) ==
    \E S : actions \in Seq(S) /\ \A a \in S : GoodAction(a, C)

(* No actions are good actions.                                             *)
LEMMA NoActionsGood ==
    ASSUME NEW C
    PROVE  GoodActions(<<>>, C)
<1>1. PICK S : S = {}
  OBVIOUS
<1>2. <<>> \in Seq(S)
  OBVIOUS
<1>3. \A a \in S : GoodAction(a, C)
  BY <1>1
<1>4. QED
  BY <1>2, <1>3, Zenon DEF GoodActions

(* What was made and is an action is admitted.                              *)
LEMMA ActionsGood ==
    ASSUME NEW C, NEW n \in Nat, NEW made, DOMAIN made = 1 .. n, Len(made) = n,
           \A k \in 1 .. n : Made(made[k], C)
    PROVE  GoodActions(Actions(made).actions, C)
<1> DEFINE positions == {k \in DOMAIN made : made[k].kind \notin {"none", "unproven"}}
           S == {made[k] : k \in positions}
<1>1. \A a \in S : GoodAction(a, C)
  BY DEF Made
<1>2. \A k \in 1 .. Len(made) : k \in positions => made[k] \in S
  OBVIOUS
<1>3. Actions(made).actions = Selected(made, positions)
  BY DEF Actions
<1> HIDE DEF positions, S
<1>4. Selected(made, positions) \in Seq(S)
  BY <1>2, SelectedIn
<1>5. QED
  BY <1>1, <1>3, <1>4 DEF GoodActions

(* Refusing keeps nothing of it.                                            *)
LEMMA SettleGood ==
    ASSUME NEW C, NEW d, GoodActions(d.actions, C)
    PROVE  GoodActions(Settle(d).actions, C) /\ GoodActions(Refusal.actions, C)
BY NoActionsGood DEF Settle, Refusal

(* Every address by itself.                                                 *)
LEMMA AbandonmentGood ==
    ASSUME NEW f, NEW C, Proper(f, C)
    PROVE  GoodActions(AfterAbandonment(f).actions, C)
<1> DEFINE paths == {p \in Held(f) : f.local[p] # Nothing \/ f.remote[p] # Nothing}
           carrying == {p \in paths : Carries(f, p)}
           ItsTurn(set, p) == IF p \in set THEN MaterializeExactPath(f, p, TRUE) ELSE NoAction
           made == [k \in 1 .. 2 * N |-> IF k <= N THEN ItsTurn(carrying, k)
                                          ELSE ItsTurn(paths \ carrying, k - N)]
<1>1. AfterAbandonment(f) = Settle(Actions(made))
  BY DEF AfterAbandonment
<1>2. paths \in SUBSET C
  BY DEF Held, Proper, Placed
<1>3. Made(NoAction, C)
  BY DEF Made, NoAction, Plan
<1>4. \A set \in SUBSET C : \A p : Made(ItsTurn(set, p), C)
  BY <1>3, ExactPathGood
<1>5. carrying \in SUBSET C /\ (paths \ carrying) \in SUBSET C
  BY <1>2
<1> HIDE DEF ItsTurn, paths, carrying
<1>6. 2 * N \in Nat
  BY AddressAssumption
<1>7. \A k \in 1 .. 2 * N : Made(made[k], C)
  BY <1>4, <1>5
<1>8. DOMAIN made = 1 .. 2 * N /\ Len(made) = 2 * N
  BY <1>6
<1> HIDE DEF made
<1>9. GoodActions(Actions(made).actions, C)
  BY <1>6, <1>7, <1>8, ActionsGood
<1>10. QED
  BY <1>1, <1>9, SettleGood

(* Every binding.                                                           *)
LEMMA AllMadeGood ==
    ASSUME NEW f, NEW C, Proper(f, C), NEW files, GoodFiles(files, C)
    PROVE  GoodActions(MaterializeAll(f, files).actions, C)
<1>1. PICK S : files \in Seq(S) /\ \A b \in S : GoodBinding(b, C)
  BY DEF GoodFiles
<1> DEFINE made == [k \in DOMAIN files |->
                      IF files[k].exact THEN MaterializeExactPath(f, files[k].path, FALSE)
                      ELSE MaterializeStandaloneFile(f, files[k])]
<1>2. DOMAIN files = 1 .. Len(files) /\ Len(files) \in Nat
  BY <1>1
<1>3. ASSUME NEW k \in 1 .. Len(files) PROVE Made(made[k], C)
  <2>1. GoodBinding(files[k], C)
    BY <1>1
  <2>2. CASE files[k].exact
    <3>1. made[k] = MaterializeExactPath(f, files[k].path, FALSE)
      BY <1>2, <2>2
    <3>2. QED
      BY <2>1, <3>1, ExactPathGood DEF GoodBinding
  <2>3. CASE ~ files[k].exact
    <3>1. made[k] = Carried(files[k], files[k].base, MaterializeFile(f, files[k]))
      BY <1>2, <2>3 DEF MaterializeStandaloneFile
    <3>2. Consistent(files[k], C) /\ IsEntity(files[k].base, C) /\ C \in SUBSET Path
      BY <2>1, <2>3 DEF GoodBinding, Consistent, Proper
    <3>3. QED
      BY <3>1, <3>2, CarriedGood
  <2>4. QED
    BY <2>2, <2>3
<1>4. DOMAIN made = 1 .. Len(files) /\ Len(made) = Len(files)
  BY <1>2
<1>5. MaterializeAll(f, files) = Actions(made)
  BY DEF MaterializeAll
<1> HIDE DEF made
<1>6. QED
  BY <1>2, <1>3, <1>4, <1>5, ActionsGood

(* Whatever the facts are, every action of the decision on them is sound.   *)
LEMMA DecisionGood ==
    ASSUME NEW f, NEW C, Proper(f, C), NEW items, Len(items) \in Nat
    PROVE  GoodActions(DecideIdentityComponent(f, items).actions, C)
<1> DEFINE reports == {r \in f.reports : ~ CommittedRelation(f, r)}
           bound == BindFiles(f, reports, items)
           made == MaterializeAll(f, bound.files)
<1>1. GoodFiles(bound.files, C)
  <2>1. reports \in SUBSET f.reports
    OBVIOUS
  <2> HIDE DEF reports
  <2>2. QED
    BY <2>1, AllBoundIsGood
<1> HIDE DEF bound
<1>2. GoodActions(made.actions, C)
  BY <1>1, AllMadeGood
<1> HIDE DEF made
<1>3. GoodActions(AfterAbandonment(f).actions, C)
  BY AbandonmentGood
<1>4. GoodActions(Refusal.actions, C)
  BY <1>2, SettleGood
<1>5. DecideIdentityComponent(f, items) \in {Refusal, AfterAbandonment(f), made}
  BY DEF DecideIdentityComponent, DecideBindings, DecideBound, made, bound
<1>6. QED
  BY <1>2, <1>3, <1>4, <1>5

-----------------------------------------------------------------------------
(* What is well formed in a state.                                          *)

\* Every file and object is at its address; no two objects have one identity,
\* and none has the next one.
WellPlaced(files, objects, next) ==
    /\ Placed(files, Path) /\ Placed(objects, Path)
    /\ \A p \in Path : files[p].id = 0
    /\ next \in Nat \ {0}
    /\ \A p \in Path : objects[p] # Nothing => objects[p].id \in 1 .. next - 1
    /\ OneOfEach(objects, Path)

IsTracker(t) ==
    /\ {"dirty", "pairs", "remarked"} \subseteq DOMAIN t
    /\ t.dirty \in Seq(Path) /\ IsInjective(t.dirty)
    /\ t.remarked \subseteq ToSet(t.dirty) /\ t.pairs \subseteq Pair

\* An independent match publishes the object it was admitted with: it is there.
Fits(work, a) ==
    /\ GoodAction(a, Path)
    /\ work.pooled /\ a.kind = "match" => a.remote.path \in {0, a.path}

GoodWork(work) ==
    /\ {"pooled", "actions"} \subseteq DOMAIN work
    /\ \E S : work.actions \in Seq(S) /\ \A a \in S : Fits(work, a)

Sides == WellPlaced(local, remote, fresh)
Views == Placed(rows, Path) /\ Placed(checkpoint, Path)
Marks == IsTracker(Tracker) /\ snap.dirty \in Seq(Path) /\ snap.pairs \subseteq Pair
Plans == DOMAIN plan = Path /\ \A p \in Path : GoodWork(plan[p])
Flags ==
    /\ phase \in {"idle", "snapped", "run"} /\ edits \in Nat
    /\ {initialized, incomplete, touched} \subseteq BOOLEAN

IInv == Sides /\ Views /\ Marks /\ Plans /\ Flags

-----------------------------------------------------------------------------
(* Collection.                                                              *)

(* A component has its path, and what an edge joins to one of its paths.    *)
LEMMA ConnectedClosed ==
    ASSUME NEW paths, NEW p \in paths, NEW edges
    PROVE  LET c == Connected(p, paths, edges)
           IN  /\ p \in c /\ c \subseteq paths
               /\ \A e \in edges : e \subseteq paths /\ e \cap c # {} => e \subseteq c
<1> DEFINE c == Connected(p, paths, edges)
           Closed(set) == /\ p \in set
                          /\ \A e \in edges : e \subseteq paths /\ e \cap set # {} =>
                               e \subseteq set
<1>1. c = {q \in paths : \A set \in SUBSET paths : Closed(set) => q \in set}
  BY DEF Connected
<1>2. p \in c /\ c \subseteq paths
  BY <1>1
<1>3. ASSUME NEW e \in edges, e \subseteq paths, e \cap c # {}, NEW x \in e
      PROVE  x \in c
  <2>1. PICK q \in e : q \in c
    BY <1>3
  <2>2. ASSUME NEW set \in SUBSET paths, Closed(set) PROVE x \in set
    <3>1. q \in set
      BY <1>1, <2>1, <2>2
    <3>2. QED
      BY <1>3, <2>1, <2>2, <3>1
  <2>3. QED
    BY <1>1, <1>3, <2>2
<1>4. QED
  BY <1>2, <1>3

(* The facts of a component are about its own paths.                        *)
LEMMA FactsProper ==
    ASSUME Sides, Views, NEW c \in SUBSET Path, c # {}, NEW met, NEW unread, NEW reports,
           NEW deleted, \A r \in reports : r.old \in c => r.new \in c
    PROVE  Proper(Facts(c, met, unread, reports, deleted), c)
<1> DEFINE f == Facts(c, met, unread, reports, deleted)
<1>1. /\ f.local = [p \in c |-> OnlyIf(p \notin unread, local[p])]
      /\ f.remote = [p \in c |-> remote[p]]
      /\ f.rows = [p \in c |-> OnlyIf(p \in met, rows[p])]
      /\ f.reports = {r \in reports : r.old \in c}
  BY DEF Facts
<1>2. \A p \in c : At(local[p], p) /\ At(remote[p], p) /\ At(rows[p], p) /\ At(Nothing, p)
  BY DEF Sides, Views, WellPlaced, Placed, At
<1> HIDE DEF f
<1>3. Placed(f.local, c)
  <2>1. DOMAIN f.local = c /\ \A p \in c : f.local[p] \in {Nothing, local[p]}
    BY <1>1 DEF OnlyIf
  <2>2. QED
    BY <1>2, <2>1 DEF Placed
<1>4. Placed(f.remote, c)
  BY <1>1, <1>2 DEF Placed
<1>5. Placed(f.rows, c)
  <2>1. DOMAIN f.rows = c /\ \A p \in c : f.rows[p] \in {Nothing, rows[p]}
    BY <1>1 DEF OnlyIf
  <2>2. QED
    BY <1>2, <2>1 DEF Placed
<1>6. OneOfEach(f.remote, c)
  BY <1>1 DEF Sides, WellPlaced, OneOfEach
<1>7. \A r \in f.reports : r.old \in c /\ r.new \in c
  BY <1>1
<1>8. QED
  BY <1>3, <1>4, <1>5, <1>6, <1>7 DEF Proper, f

(* There are finitely many addresses and pairs of addresses.                *)
LEMMA PathsFinite ==
    /\ IsFiniteSet(Path) /\ Cardinality(Path) = N
    /\ IsFiniteSet(Pair)
<1>1. IsFiniteSet(Path) /\ Cardinality(Path) = N
  BY AddressAssumption, FS_Interval DEF Path
<1> DEFINE h == [x \in Path \X Path |-> [new |-> x[1], old |-> x[2]]]
<1>2. IsFiniteSet(Path \X Path)
  BY <1>1, FS_Product
<1>3. h \in Surjection(Path \X Path, Pair)
  <2>1. h \in [Path \X Path -> Pair]
    BY DEF Pair
  <2>2. ASSUME NEW q \in Pair PROVE \E x \in Path \X Path : h[x] = q
    <3>1. q.new \in Path /\ q.old \in Path /\ q = [new |-> q.new, old |-> q.old]
      BY DEF Pair
    <3>2. <<q.new, q.old>> \in Path \X Path /\ h[<<q.new, q.old>>] = q
      BY <3>1
    <3>3. QED
      BY <3>2
  <2>3. QED
    BY <2>1, <2>2 DEF Surjection
<1>4. IsFiniteSet(Pair)
  BY <1>2, <1>3, FS_Surjection
<1>5. QED
  BY <1>1, <1>4

(* The image of finitely many pairs is finite.                              *)
LEMMA ImageFinite ==
    ASSUME NEW S, S \subseteq Pair, NEW g, DOMAIN g = S
    PROVE  IsFiniteSet({g[q] : q \in S})
<1> DEFINE h == [q \in S |-> g[q]]
           T == {g[q] : q \in S}
<1>1. IsFiniteSet(S)
  BY PathsFinite, FS_Subset
<1>2. h \in Surjection(S, T)
  BY DEF Surjection
<1>3. QED
  BY <1>1, <1>2, FS_Surjection

(* The reports of a cycle are about addresses, and finitely many.           *)
LEMMA ReportsFinite ==
    ASSUME Marks, NEW temperature
    PROVE  /\ IsFiniteSet(Reports(temperature))
           /\ \A r \in Reports(temperature) : r.old \in Path /\ r.new \in Path
<1> DEFINE g == [q \in snap.pairs |-> [side |-> "local", old |-> q.old, new |-> q.new, id |-> 0]]
           S == {pair \in Pair :
                   /\ pair.old # pair.new
                   /\ remote[pair.new].id \in logged
                   /\ checkpoint[pair.old].id = remote[pair.new].id}
           h == [q \in S |-> [side |-> "remote", old |-> q.old, new |-> q.new,
                              id |-> remote[q.new].id]]
<1>1. LocalReports = {g[q] : q \in snap.pairs}
  BY DEF LocalReports
<1>2. DeltaRenamed = {h[q] : q \in S}
  BY DEF DeltaRenamed
<1>3. snap.pairs \subseteq Pair /\ S \subseteq Pair
  BY DEF Marks
<1>4. \A r \in LocalReports \cup DeltaRenamed : r.old \in Path /\ r.new \in Path
  BY <1>3 DEF LocalReports, DeltaRenamed, Pair
<1>5. DOMAIN g = snap.pairs /\ DOMAIN h = S
  OBVIOUS
<1> HIDE DEF g, h, S
<1>6. IsFiniteSet(LocalReports) /\ IsFiniteSet(DeltaRenamed)
  BY <1>1, <1>2, <1>3, <1>5, ImageFinite
<1>7. IsFiniteSet(LocalReports \cup DeltaRenamed) /\ IsFiniteSet(LocalReports \cup {})
  BY <1>6, FS_Union, FS_EmptySet
<1>8. QED
  BY <1>4, <1>7 DEF Reports

(* Five sequences after each other are one.                                 *)
LEMMA FiveJoined ==
    ASSUME NEW A, NEW a \in Seq(A), NEW b \in Seq(A), NEW c \in Seq(A), NEW d \in Seq(A),
           NEW e \in Seq(A)
    PROVE  Len(a \o b \o c \o d \o e) \in Nat
<1>1. a \o b \in Seq(A)
  OBVIOUS
<1>2. a \o b \o c \in Seq(A)
  BY <1>1
<1>3. a \o b \o c \o d \in Seq(A)
  BY <1>2
<1>4. a \o b \o c \o d \o e \in Seq(A)
  BY <1>3
<1>5. QED
  BY <1>4

(* A function on the first numbers is a sequence.                           *)
LEMMA FunctionIsSequence ==
    ASSUME NEW A, NEW n \in Nat, NEW s, s = [k \in 1 .. n |-> s[k]],
           \A k \in 1 .. n : s[k] \in A
    PROVE  s \in Seq(A)
<1>1. s \in [1 .. n -> A]
  OBVIOUS
<1>2. DOMAIN s = 1 .. n /\ Len(s) = n
  BY <1>1
<1>3. QED
  BY <1>1, <1>2, SeqDef

(* The stages are a sequence.                                               *)
LEMMA StagesLength ==
    ASSUME NEW order, NEW told, NEW m \in Nat, NEW n \in Nat,
           DOMAIN order = 1 .. m, DOMAIN told = 1 .. n
    PROVE  Len(Stages(order, told)) \in Nat
<1> DEFINE say(what) == [k \in DOMAIN told |-> [do |-> what, about |-> told[k], at |-> 0]]
           at(what) == [k \in DOMAIN order |-> [do |-> what, about |-> 0, at |-> order[k]]]
           What == {"unrecorded report", "row", "remote report", "rest of local", "rest"}
           Items(what) == {say(what)[k] : k \in 1 .. n} \cup {at(what)[k] : k \in 1 .. m}
           A == UNION {Items(w) : w \in What}
<1>1. ASSUME NEW what \in What PROVE say(what) \in Seq(A) /\ at(what) \in Seq(A)
  <2>1. DOMAIN say(what) = 1 .. n /\ DOMAIN at(what) = 1 .. m
    OBVIOUS
  <2>2. /\ say(what) = [k \in 1 .. n |-> say(what)[k]]
        /\ at(what) = [k \in 1 .. m |-> at(what)[k]]
    OBVIOUS
  <2> HIDE DEF say, at, What
  <2>3. /\ \A k \in 1 .. n : say(what)[k] \in Items(what)
        /\ \A k \in 1 .. m : at(what)[k] \in Items(what)
    OBVIOUS
  <2> HIDE DEF Items
  <2>4. Items(what) \subseteq A
    OBVIOUS
  <2> HIDE DEF A
  <2>5. QED
    BY <2>1, <2>2, <2>3, <2>4, FunctionIsSequence
<1>2. Stages(order, told) = say("unrecorded report") \o at("row") \o say("remote report")
                              \o at("rest of local") \o at("rest")
  BY DEF Stages
<1>3. /\ say("unrecorded report") \in Seq(A) /\ at("row") \in Seq(A)
      /\ say("remote report") \in Seq(A) /\ at("rest of local") \in Seq(A)
      /\ at("rest") \in Seq(A)
  <2> HIDE DEF say, at, A
  <2>1. QED
    BY <1>1
<1> HIDE DEF say, at, A
<1>4. QED
  BY <1>2, <1>3, FiveJoined

(* A choice of an order is a sequence.                                      *)
LEMMA SequencesOfSet ==
    ASSUME NEW S, IsFiniteSet(S), NEW s \in SetToSeqs(S)
    PROVE  \E n \in Nat : s \in [1 .. n -> S]
<1>1. Cardinality(S) \in Nat
  BY FS_CardinalityType
<1>2. s \in [1 .. Cardinality(S) -> S]
  BY DEF SetToSeqs
<1>3. QED
  BY <1>1, <1>2

(* The reports are told one after the other.                                *)
LEMMA TellingsOrdered ==
    ASSUME NEW reports, IsFiniteSet(reports), NEW told \in Tellings(reports)
    PROVE  \E n \in Nat : DOMAIN told = 1 .. n
<1>1. told \in SetToSeqs(reports)
  BY DEF Tellings
<1>2. QED
  BY <1>1, SequencesOfSet

(* The paths are met one after the other.                                   *)
LEMMA OrdersOrdered ==
    ASSUME Marks, NEW temperature, NEW order \in Orders(temperature)
    PROVE  \E n \in Nat : DOMAIN order = 1 .. n
<1>1. ASSUME NEW paths PROVE InOrder(paths) \in Seq(Path)
  <2> DEFINE all == [p \in Path |-> p]
  <2>1. Len(all) = N /\ N \in Nat
    BY AddressAssumption DEF Path
  <2>2. \A k \in 1 .. Len(all) : k \in paths => all[k] \in Path
    BY <2>1 DEF Path
  <2>3. InOrder(paths) = Selected(all, paths)
    BY DEF InOrder
  <2> HIDE DEF all
  <2>4. QED
    BY <2>1, <2>2, <2>3, SelectedIn
<1>2. CASE temperature = "hot"
  <2>1. order = snap.dirty \o InOrder(DeltaPaths \ Dirty)
                  \o InOrder(Path \ (Dirty \cup DeltaPaths))
    BY <1>2 DEF Orders
  <2>2. snap.dirty \o InOrder(DeltaPaths \ Dirty) \in Seq(Path)
    BY <1>1 DEF Marks
  <2>3. order \in Seq(Path)
    BY <1>1, <2>1, <2>2
  <2>4. QED
    BY <2>3
<1>3. CASE temperature # "hot"
  <2>1. order \in SetToSeqs(Path)
    BY <1>3 DEF Orders
  <2>2. QED
    BY <2>1, SequencesOfSet, PathsFinite
<1>4. QED
  BY <1>2, <1>3

(* A cycle meets addresses.                                                 *)
LEMMA MetPaths ==
    ASSUME Marks, NEW temperature \in {"hot", "promoted", "warm", "cold"}
    PROVE  Met(temperature) \subseteq Path
<1>1. Dirty \subseteq Path
  BY DEF Dirty, ToSet, Marks
<1>2. DeltaPaths \subseteq Path /\ \A met : Included(met) \subseteq Path
  BY DEF DeltaPaths, Included
<1>3. HotPaths \subseteq Path
  BY <1>1, <1>2 DEF HotPaths
<1>4. Endpoints(LocalReports) \subseteq Path
  BY DEF Endpoints, LocalReports, Marks, Pair
<1>5. \A hot : hot \subseteq Path => WarmPaths(hot) \subseteq Path
  BY <1>2, <1>4 DEF WarmPaths
<1>6. QED
  BY <1>3, <1>5 DEF Met

(* The work of a component.                                                 *)
LEMMA WorkGood ==
    ASSUME NEW C \in SUBSET Path, NEW d, d.paths = C, GoodActions(d.decision.actions, C)
    PROVE  GoodWork(Component(d))
<1> DEFINE work == Component(d)
<1>1. /\ work.actions = d.decision.actions /\ work.pooled = Pooled(C, d.decision.actions)
      /\ {"pooled", "actions"} \subseteq DOMAIN work
  BY DEF Component
<1> HIDE DEF work
<1>2. PICK S : d.decision.actions \in Seq(S) /\ \A a \in S : GoodAction(a, C)
  BY DEF GoodActions
<1>3. ASSUME NEW a \in S, work.pooled PROVE a.remote.path \in {0, a.path}
  <2>1. IsFiniteSet(C)
    BY PathsFinite, FS_Subset
  <2>2. Cardinality(C) = 1
    BY <1>1, <1>3 DEF Pooled
  <2>3. PICK x : C = {x}
    BY <2>1, <2>2, FS_Singleton
  <2>4. a.path \in C /\ a.remote.path \in C \cup {0}
    BY <1>2, EntityPath DEF GoodAction
  <2>5. QED
    BY <2>3, <2>4
<1>4. ASSUME NEW a \in S PROVE GoodAction(a, Path)
  <2>1. GoodAction(a, C)
    BY <1>2
  <2>2. \A e : IsEntity(e, C) => IsEntity(e, Path)
    BY DEF IsEntity
  <2>3. QED
    BY <2>1, <2>2 DEF GoodAction
<1>5. GoodWork(work)
  BY <1>1, <1>2, <1>3, <1>4 DEF GoodWork, Fits
<1>6. QED
  BY <1>5 DEF work

(* No work is good work.                                                    *)
LEMMA NoWorkGood == GoodWork(NoWork)
<1>1. PICK S : S = {}
  OBVIOUS
<1>2. <<>> \in Seq(S)
  OBVIOUS
<1>3. \A a \in S : Fits(NoWork, a)
  BY <1>1
<1>4. NoWork.actions = <<>> /\ {"pooled", "actions"} \subseteq DOMAIN NoWork
  BY DEF NoWork
<1>5. NoWork.actions \in Seq(S)
  BY <1>2, <1>4
<1>6. QED
  BY <1>3, <1>4, <1>5, Zenon DEF GoodWork

(* What is scheduled is the work of components, or none.                    *)
LEMMA ScheduledGood ==
    ASSUME NEW decisions, \A d \in decisions : GoodWork(Component(d))
    PROVE  DOMAIN Scheduled(decisions) = Path /\ \A p \in Path : GoodWork(Scheduled(decisions)[p])
<1>1. DOMAIN Scheduled(decisions) = Path
  BY DEF Scheduled
<1>2. ASSUME NEW p \in Path PROVE GoodWork(Scheduled(decisions)[p])
  <2> DEFINE mine == {d \in decisions : d.decision.actions # <<>> /\ FirstOf(d.paths) = p}
             d == CHOOSE x \in mine : TRUE
  <2>1. Scheduled(decisions)[p] = IF mine = {} THEN NoWork ELSE Component(d)
    BY DEF Scheduled
  <2>2. mine # {} => d \in decisions
    OBVIOUS
  <2> HIDE DEF mine, d
  <2>3. QED
    BY <2>1, <2>2, NoWorkGood
<1>3. QED
  BY <1>1, <1>2

(* Whatever a cycle collects, the actions it admits are sound.              *)
LEMMA CollectedGood ==
    ASSUME Sides, Views, Marks, NEW temperature \in {"hot", "promoted", "warm", "cold"},
           NEW order \in Orders(temperature), NEW told \in Tellings(Reports(temperature)),
           NEW met, met = Met(temperature), NEW reports, reports = Reports(temperature),
           NEW d \in Decisions(Components(met \cup Endpoints(reports), met, reports),
                               met, temperature, reports, Stages(order, told))
    PROVE  GoodWork(Component(d))
<1> DEFINE observed == met \cup Endpoints(reports)
           edges == Edges(reports) \cup SharedIdentities(observed, met)
           items == Stages(order, told)
<1>1. IsFiniteSet(reports) /\ \A r \in reports : r.old \in Path /\ r.new \in Path
  BY ReportsFinite
<1>2. observed \subseteq Path
  BY <1>1, MetPaths DEF Endpoints
<1>3. Len(items) \in Nat
  <2>1. PICK n \in Nat : DOMAIN told = 1 .. n
    BY <1>1, TellingsOrdered
  <2>2. PICK m \in Nat : DOMAIN order = 1 .. m
    BY OrdersOrdered
  <2>3. QED
    BY <2>1, <2>2, StagesLength
<1>4. \A r \in reports : /\ {r.old, r.new} \in edges /\ {r.old, r.new} \subseteq observed
  BY DEF Edges, Endpoints
<1> HIDE DEF observed, edges, items
<1>5. PICK p \in observed :
        /\ d.paths = Connected(p, observed, edges)
        /\ d.decision = DecideIdentityComponent(FactsOf(d.paths, met, temperature, reports), items)
  BY DEF Decisions, Components, observed, edges, items
<1> DEFINE c == d.paths
<1>6. /\ p \in c /\ c \subseteq observed
      /\ \A e \in edges : e \subseteq observed /\ e \cap c # {} => e \subseteq c
  BY <1>5, ConnectedClosed
<1>7. ASSUME NEW r \in reports, r.old \in c PROVE r.new \in c
  <2> DEFINE e == {r.old, r.new}
  <2>1. e \in edges /\ e \subseteq observed /\ r.old \in e /\ r.new \in e
    BY <1>4
  <2> HIDE DEF e, c
  <2>2. e \subseteq c
    BY <1>6, <1>7, <2>1
  <2>3. QED
    BY <2>1, <2>2
<1>8. c \in SUBSET Path /\ c # {}
  BY <1>2, <1>6
<1> HIDE DEF c
<1>9. Proper(FactsOf(c, met, temperature, reports), c)
  BY <1>7, <1>8, FactsProper DEF FactsOf
<1>10. GoodActions(d.decision.actions, c)
  BY <1>3, <1>5, <1>9, DecisionGood DEF c
<1>11. QED
  BY <1>8, <1>10, WorkGood DEF c

-----------------------------------------------------------------------------
(* The tracker.                                                             *)

(* An address is remembered once.                                           *)
LEMMA AddedOnce ==
    ASSUME NEW seq \in Seq(Path), IsInjective(seq), NEW p \in Path
    PROVE  /\ Added(seq, p) \in Seq(Path) /\ IsInjective(Added(seq, p))
           /\ ToSet(Added(seq, p)) = ToSet(seq) \cup {p}
<1>1. CASE p \in ToSet(seq)
  BY <1>1 DEF Added
<1>2. CASE p \notin ToSet(seq)
  <2> DEFINE s == Append(seq, p)
  <2>1. Added(seq, p) = s /\ s \in Seq(Path) /\ Len(s) = Len(seq) + 1
    BY <1>2 DEF Added
  <2>2. /\ DOMAIN s = 1 .. Len(seq) + 1 /\ DOMAIN seq = 1 .. Len(seq) /\ Len(seq) \in Nat
        /\ s[Len(seq) + 1] = p /\ \A k \in 1 .. Len(seq) : s[k] = seq[k]
    OBVIOUS
  <2> HIDE DEF s
  <2>3. \A k \in 1 .. Len(seq) : seq[k] # p
    BY <1>2, <2>2 DEF ToSet
  <2>4. ASSUME NEW j \in DOMAIN s, NEW k \in DOMAIN s, s[j] = s[k] PROVE j = k
    <3>1. j \in 1 .. Len(seq) \/ j = Len(seq) + 1
      BY <2>2
    <3>2. k \in 1 .. Len(seq) \/ k = Len(seq) + 1
      BY <2>2
    <3>3. QED
      BY <2>2, <2>3, <2>4, <3>1, <3>2 DEF IsInjective
  <2>5. ToSet(s) = ToSet(seq) \cup {p}
    <3>1. ASSUME NEW x \in ToSet(s) PROVE x \in ToSet(seq) \cup {p}
      <4>1. PICK k \in DOMAIN s : x = s[k]
        BY DEF ToSet
      <4>2. k \in 1 .. Len(seq) \/ k = Len(seq) + 1
        BY <2>2
      <4>3. QED
        BY <2>2, <4>1, <4>2 DEF ToSet
    <3>2. ASSUME NEW x \in ToSet(seq) \cup {p} PROVE x \in ToSet(s)
      <4>1. CASE x = p
        BY <2>2, <4>1 DEF ToSet
      <4>2. CASE x # p
        <5>1. PICK k \in DOMAIN seq : x = seq[k]
          BY <4>2 DEF ToSet
        <5>2. k \in DOMAIN s /\ s[k] = x
          BY <2>2, <5>1
        <5>3. QED
          BY <5>2 DEF ToSet
      <4>3. QED
        BY <4>1, <4>2
    <3>3. QED
      BY <3>1, <3>2
  <2>6. QED
    BY <2>1, <2>4, <2>5 DEF IsInjective
<1>3. QED
  BY <1>1, <1>2

(* Marking an address leaves a tracker.                                     *)
LEMMA MarkedKeeps ==
    ASSUME NEW t, IsTracker(t), NEW p \in Path
    PROVE  IsTracker(Marked(t, p)) /\ Marked(t, p).pairs = t.pairs
<1> DEFINE m == Marked(t, p)
<1>1. /\ DOMAIN m = DOMAIN t /\ m.dirty = Added(t.dirty, p)
      /\ m.remarked = t.remarked \cup {p} /\ m.pairs = t.pairs
  BY DEF Marked, IsTracker
<1> HIDE DEF m
<1>2. IsTracker(m)
  BY <1>1, AddedOnce DEF IsTracker
<1>3. QED
  BY <1>1, <1>2 DEF m

(* So does noting a rename.                                                 *)
LEMMA MarkRenamedKeeps ==
    ASSUME NEW t, IsTracker(t), NEW new \in Path, NEW old \in Path
    PROVE  IsTracker(MarkRenamed(t, new, old))
<1> DEFINE origin == IF \E q \in t.pairs : q.new = old
                       THEN (CHOOSE q \in t.pairs : q.new = old).old ELSE old
           m == Marked(Marked(Marked(t, old), origin), new)
           r == RenamedFrom(t, new, old, origin)
<1>1. origin \in Path
  <2>1. CASE \E q \in t.pairs : q.new = old
    <3>1. (CHOOSE q \in t.pairs : q.new = old) \in Pair
      BY <2>1 DEF IsTracker
    <3>2. QED
      BY <2>1, <3>1 DEF Pair
  <2>2. CASE ~ \E q \in t.pairs : q.new = old
    BY <2>2
  <2>3. QED
    BY <2>1, <2>2
<1>2. MarkRenamed(t, new, old) = r
  BY DEF MarkRenamed
<1> HIDE DEF origin
<1>3. IsTracker(m) /\ m.pairs = t.pairs
  <2>1. IsTracker(Marked(t, old)) /\ Marked(t, old).pairs = t.pairs
    BY MarkedKeeps
  <2>2. /\ IsTracker(Marked(Marked(t, old), origin))
        /\ Marked(Marked(t, old), origin).pairs = t.pairs
    BY <1>1, <2>1, MarkedKeeps
  <2>3. QED
    BY <2>2, MarkedKeeps
<1>4. r = [m EXCEPT !.pairs = {q \in @ : q.new # old /\ (q.new # new \/ origin = new)}
             \cup (IF origin = new THEN {} ELSE {[new |-> new, old |-> origin]})]
  BY DEF RenamedFrom
<1> HIDE DEF m, r
<1>5. /\ DOMAIN r = DOMAIN m /\ r.dirty = m.dirty /\ r.remarked = m.remarked
      /\ r.pairs = {q \in m.pairs : q.new # old /\ (q.new # new \/ origin = new)}
                     \cup (IF origin = new THEN {} ELSE {[new |-> new, old |-> origin]})
  BY <1>3, <1>4 DEF IsTracker
<1>6. r.pairs \subseteq Pair
  <2>1. [new |-> new, old |-> origin] \in Pair
    BY <1>1 DEF Pair
  <2>2. QED
    BY <1>3, <1>5, <2>1 DEF IsTracker
<1>7. IsTracker(r)
  BY <1>3, <1>5, <1>6 DEF IsTracker
<1>8. QED
  BY <1>2, <1>7

-----------------------------------------------------------------------------
(* One change of a side.                                                    *)

(* Where a move leaves what.                                                *)
LEMMA MovedSide ==
    ASSUME NEW side, Placed(side, Path), NEW from \in Path, NEW to \in Path
    PROVE  LET moved == MovedOn(side, from, to)
           IN  /\ Placed(moved, Path)
               /\ moved[from] = Nothing
               /\ \A q \in Path \ {from, to} : moved[q] = side[q]
               /\ from # to => /\ moved[to] = Nothing <=> side[from] = Nothing
                               /\ moved[to].id = side[from].id
                               /\ moved[to].content = side[from].content
<1> DEFINE moved == MovedOn(side, from, to)
<1>1. /\ DOMAIN moved = Path /\ moved[from] = Nothing
      /\ \A q \in Path \ {from, to} : moved[q] = side[q]
      /\ from # to => moved[to] = Moved(side[from], to)
  BY DEF MovedOn, Placed
<1> HIDE DEF moved
<1>2. /\ At(Moved(side[from], to), to)
      /\ Moved(side[from], to) = Nothing <=> side[from] = Nothing
      /\ Moved(side[from], to).id = side[from].id
      /\ Moved(side[from], to).content = side[from].content
  <2>1. CASE side[from] = Nothing
    BY <2>1 DEF Moved, At
  <2>2. CASE side[from] # Nothing
    <3>1. PICK i, c : side[from] = Entity(from, i, c)
      BY <2>2 DEF Placed, At
    <3>2. Moved(side[from], to) = Entity(to, i, c)
      BY <2>2, <3>1 DEF Moved, Entity
    <3>3. to # 0
      BY DEF Path
    <3>4. At(Entity(to, i, c), to)
      BY DEF At
    <3>5. Entity(to, i, c) # Nothing
      BY <3>3 DEF Entity, Nothing
    <3>6. /\ Entity(to, i, c).id = Entity(from, i, c).id
          /\ Entity(to, i, c).content = Entity(from, i, c).content
      BY DEF Entity
    <3>7. QED
      BY <2>2, <3>1, <3>2, <3>4, <3>5, <3>6
  <2>3. QED
    BY <2>1, <2>2
<1>3. \A q \in Path : At(moved[q], q)
  <2>1. \A q \in Path : At(side[q], q) /\ At(Nothing, q)
    BY DEF Placed, At
  <2>2. QED
    BY <1>1, <1>2, <2>1
<1>4. QED
  BY <1>1, <1>2, <1>3 DEF Placed, moved

(* A change at one address of the vault, or of the remote.                  *)
LEMMA FilesStay ==
    ASSUME NEW files, NEW objects, NEW next, WellPlaced(files, objects, next),
           NEW p \in Path, NEW c
    PROVE  /\ WellPlaced([files EXCEPT ![p] = Entity(p, 0, c)], objects, next)
           /\ WellPlaced([files EXCEPT ![p] = Nothing], objects, next)
           /\ WellPlaced(files, [objects EXCEPT ![p] = Nothing], next)
<1>1. At(Entity(p, 0, c), p) /\ \A q : At(Nothing, q)
  BY DEF At
<1>2. DOMAIN files = Path /\ DOMAIN objects = Path
  BY DEF WellPlaced, Placed
<1>3. Entity(p, 0, c).id = 0 /\ Nothing.id = 0
  BY DEF Entity, Nothing
<1>4. Placed([files EXCEPT ![p] = Entity(p, 0, c)], Path)
  BY <1>1, <1>2 DEF WellPlaced, Placed
<1>5. Placed([files EXCEPT ![p] = Nothing], Path)
  BY <1>1, <1>2 DEF WellPlaced, Placed
<1>6. Placed([objects EXCEPT ![p] = Nothing], Path)
  BY <1>1, <1>2 DEF WellPlaced, Placed
<1>7. OneOfEach([objects EXCEPT ![p] = Nothing], Path)
  <2> DEFINE o == [objects EXCEPT ![p] = Nothing]
  <2>1. o[p] = Nothing /\ \A q \in Path \ {p} : o[q] = objects[q]
    BY <1>2
  <2> HIDE DEF o
  <2>2. ASSUME NEW q \in Path, NEW r \in Path, o[q] # Nothing, o[q].id = o[r].id PROVE q = r
    <3>1. q # p /\ o[q] = objects[q] /\ objects[q].id \in 1 .. next - 1
      BY <2>1, <2>2 DEF WellPlaced
    <3>2. r # p
      BY <1>3, <2>1, <2>2, <3>1
    <3>3. QED
      BY <2>1, <2>2, <3>1, <3>2 DEF WellPlaced, OneOfEach
  <2>3. QED
    BY <2>2 DEF OneOfEach, o
<1>8. WellPlaced([files EXCEPT ![p] = Entity(p, 0, c)], objects, next)
  BY <1>2, <1>3, <1>4 DEF WellPlaced
<1>9. WellPlaced([files EXCEPT ![p] = Nothing], objects, next)
  BY <1>2, <1>3, <1>5 DEF WellPlaced
<1>10. WellPlaced(files, [objects EXCEPT ![p] = Nothing], next)
  BY <1>2, <1>6, <1>7 DEF WellPlaced
<1>11. QED
  BY <1>8, <1>9, <1>10

(* A write keeps the object's identity, or takes the next one.              *)
LEMMA ObjectsStay ==
    ASSUME NEW files, NEW objects, NEW next, WellPlaced(files, objects, next),
           NEW p \in Path, NEW c
    PROVE  WellPlaced(files,
                      [objects EXCEPT ![p] =
                         Entity(p, IF objects[p] = Nothing THEN next ELSE objects[p].id, c)],
                      IF objects[p] = Nothing THEN next + 1 ELSE next)
<1> DEFINE i == IF objects[p] = Nothing THEN next ELSE objects[p].id
           o == [objects EXCEPT ![p] = Entity(p, i, c)]
           n == IF objects[p] = Nothing THEN next + 1 ELSE next
<1>1. DOMAIN objects = Path
  BY DEF WellPlaced, Placed
<1>2. /\ DOMAIN o = Path /\ o[p] = Entity(p, i, c)
      /\ \A q \in Path \ {p} : o[q] = objects[q]
  BY <1>1
<1>3. /\ n \in Nat \ {0} /\ i \in 1 .. n - 1
      /\ \A q \in Path \ {p} : objects[q] # Nothing => objects[q].id \in 1 .. n - 1
      /\ \A q \in Path \ {p} : objects[q].id # i
  <2>1. /\ next \in Nat \ {0}
        /\ \A q \in Path : objects[q] # Nothing => objects[q].id \in 1 .. next - 1
        /\ \A q \in Path : objects[q] = Nothing => objects[q].id = 0
        /\ \A q, r \in Path : objects[q] # Nothing /\ objects[q].id = objects[r].id => q = r
    BY DEF WellPlaced, OneOfEach, Nothing
  <2>2. CASE objects[p] = Nothing
    BY <2>1, <2>2
  <2>3. CASE objects[p] # Nothing
    BY <2>1, <2>3
  <2>4. QED
    BY <2>2, <2>3
<1> HIDE DEF i, o, n
<1>4. Entity(p, i, c).id = i /\ At(Entity(p, i, c), p)
  BY DEF Entity, At
<1>5. Placed(o, Path)
  BY <1>2, <1>4 DEF WellPlaced, Placed
<1>6. OneOfEach(o, Path)
  BY <1>2, <1>3, <1>4 DEF WellPlaced, OneOfEach
<1>7. \A q \in Path : o[q] # Nothing => o[q].id \in 1 .. n - 1
  BY <1>2, <1>3, <1>4
<1>8. WellPlaced(files, o, n)
  BY <1>3, <1>5, <1>6, <1>7 DEF WellPlaced
<1>9. QED
  BY <1>8 DEF i, o, n

(* A rename keeps everything that it does not cover.                        *)
LEMMA MovesStay ==
    ASSUME NEW files, NEW objects, NEW next, WellPlaced(files, objects, next),
           NEW from \in Path, NEW to \in Path
    PROVE  /\ WellPlaced(MovedOn(files, from, to), objects, next)
           /\ WellPlaced(files, MovedOn(objects, from, to), next)
<1>1. Placed(files, Path) /\ Placed(objects, Path) /\ Nothing.id = 0
  BY DEF WellPlaced, Nothing
<1> DEFINE f == MovedOn(files, from, to)
           o == MovedOn(objects, from, to)
<1>2. /\ Placed(f, Path) /\ f[from] = Nothing
      /\ \A q \in Path \ {from, to} : f[q] = files[q]
      /\ from # to => f[to].id = files[from].id
  BY <1>1, MovedSide, SMTT(30)
<1>3. /\ Placed(o, Path) /\ o[from] = Nothing
      /\ \A q \in Path \ {from, to} : o[q] = objects[q]
      /\ from # to => /\ o[to] = Nothing <=> objects[from] = Nothing
                      /\ o[to].id = objects[from].id
  BY <1>1, MovedSide, SMTT(30)
<1> HIDE DEF f, o
<1>4. \A q \in Path : f[q].id = 0
  BY <1>1, <1>2 DEF WellPlaced
<1>5. /\ next \in Nat \ {0}
      /\ \A q \in Path : objects[q] # Nothing => objects[q].id \in 1 .. next - 1
      /\ \A q, r \in Path : objects[q] # Nothing /\ objects[q].id = objects[r].id => q = r
  BY DEF WellPlaced, OneOfEach
<1>6. \A q \in Path : o[q] # Nothing => o[q].id \in 1 .. next - 1
  BY <1>3, <1>5
<1>7. OneOfEach(o, Path)
  <2>1. ASSUME NEW q \in Path, NEW r \in Path, o[q] # Nothing, o[q].id = o[r].id PROVE q = r
    <3>1. q # from /\ r # from
      BY <1>1, <1>3, <1>6, <2>1
    <3>2. CASE q = to \/ r = to
      BY <1>3, <1>5, <2>1, <3>1, <3>2
    <3>3. CASE q # to /\ r # to
      BY <1>3, <1>5, <2>1, <3>1, <3>3
    <3>4. QED
      BY <3>2, <3>3
  <2>2. QED
    BY <2>1 DEF OneOfEach
<1>8. WellPlaced(f, objects, next) /\ WellPlaced(files, o, next)
  BY <1>2, <1>3, <1>4, <1>6, <1>7 DEF WellPlaced
<1>9. QED
  BY <1>8 DEF f, o

-----------------------------------------------------------------------------
(* The effects of an action, one after the other.                           *)

IsWorld(w) ==
    /\ {"local", "remote", "copies", "fresh", "echoes", "tracker"} \subseteq DOMAIN w
    /\ WellPlaced(w.local, w.remote, w.fresh) /\ IsTracker(w.tracker)

Effect(op) ==
    \/ op.do \in {"write local", "write remote", "delete local", "delete remote"} /\ op.at \in Path
    \/ op.do \in {"move local", "move remote"} /\ op.at \in Path /\ op.from \in Path
    \/ op.do \in {"keep", "idle"}

(* What an effect does to the sides, and that the copies only grow.         *)
LEMMA ApplyFields ==
    ASSUME NEW w, IsWorld(w), NEW op, Effect(op)
    PROVE  LET v == Apply(w, op)
               p == op.at
           IN  /\ DOMAIN v = DOMAIN w
               /\ w.copies \subseteq v.copies
               /\ v.local = CASE op.do = "write local" ->
                                    [w.local EXCEPT ![p] = Entity(p, 0, op.content)]
                              [] op.do = "delete local" -> [w.local EXCEPT ![p] = Nothing]
                              [] op.do = "move local" -> MovedOn(w.local, op.from, p)
                              [] OTHER -> w.local
               /\ v.remote = CASE op.do = "write remote" ->
                                     [w.remote EXCEPT ![p] =
                                        Entity(p, IF w.remote[p] = Nothing THEN w.fresh
                                                  ELSE w.remote[p].id, op.content)]
                               [] op.do = "delete remote" -> [w.remote EXCEPT ![p] = Nothing]
                               [] op.do = "move remote" -> MovedOn(w.remote, op.from, p)
                               [] OTHER -> w.remote
               /\ v.fresh = IF op.do = "write remote" /\ w.remote[p] = Nothing
                              THEN w.fresh + 1 ELSE w.fresh
               /\ v.tracker = CASE op.do \in {"write local", "delete local"} -> Marked(w.tracker, p)
                                [] op.do = "move local" -> MarkRenamed(w.tracker, p, op.from)
                                [] OTHER -> w.tracker
               /\ op.do = "keep" => op.content \in v.copies
<1> USE DEF IsWorld
<1>1. CASE op.do = "write local"
  BY <1>1 DEF Apply
<1>2. CASE op.do = "delete local"
  BY <1>2 DEF Apply
<1>3. CASE op.do = "move local"
  BY <1>3 DEF Apply
<1>4. CASE op.do = "write remote"
  BY <1>4 DEF Apply
<1>5. CASE op.do = "delete remote"
  BY <1>5 DEF Apply
<1>6. CASE op.do = "move remote"
  BY <1>6 DEF Apply
<1>7. CASE op.do = "keep"
  BY <1>7 DEF Apply
<1>8. CASE op.do = "idle"
  BY <1>8 DEF Apply
<1>9. QED
  BY <1>1, <1>2, <1>3, <1>4, <1>5, <1>6, <1>7, <1>8 DEF Effect

(* An effect leads from a well-formed world to another.                     *)
LEMMA ApplyKeeps ==
    ASSUME NEW w, IsWorld(w), NEW op, Effect(op)
    PROVE  IsWorld(Apply(w, op))
<1> DEFINE v == Apply(w, op)
           p == op.at
<1>1. /\ DOMAIN v = DOMAIN w
      /\ v.local = CASE op.do = "write local" -> [w.local EXCEPT ![p] = Entity(p, 0, op.content)]
                     [] op.do = "delete local" -> [w.local EXCEPT ![p] = Nothing]
                     [] op.do = "move local" -> MovedOn(w.local, op.from, p)
                     [] OTHER -> w.local
      /\ v.remote = CASE op.do = "write remote" ->
                            [w.remote EXCEPT ![p] =
                               Entity(p, IF w.remote[p] = Nothing THEN w.fresh
                                         ELSE w.remote[p].id, op.content)]
                      [] op.do = "delete remote" -> [w.remote EXCEPT ![p] = Nothing]
                      [] op.do = "move remote" -> MovedOn(w.remote, op.from, p)
                      [] OTHER -> w.remote
      /\ v.fresh = IF op.do = "write remote" /\ w.remote[p] = Nothing
                     THEN w.fresh + 1 ELSE w.fresh
      /\ v.tracker = CASE op.do \in {"write local", "delete local"} -> Marked(w.tracker, p)
                       [] op.do = "move local" -> MarkRenamed(w.tracker, p, op.from)
                       [] OTHER -> w.tracker
  BY ApplyFields
<1> HIDE DEF v
<1>2. WellPlaced(w.local, w.remote, w.fresh) /\ IsTracker(w.tracker)
  BY DEF IsWorld
<1>3. IsTracker(v.tracker)
  <2>1. CASE op.do \in {"write local", "delete local"}
    <3>1. p \in Path
      BY <2>1 DEF Effect
    <3>2. v.tracker = Marked(w.tracker, p)
      BY <1>1, <2>1
    <3>3. QED
      BY <1>2, <3>1, <3>2, MarkedKeeps
  <2>2. CASE op.do = "move local"
    BY <1>1, <1>2, <2>2, MarkRenamedKeeps DEF Effect
  <2>3. CASE op.do \notin {"write local", "delete local", "move local"}
    BY <1>1, <1>2, <2>3
  <2>4. QED
    BY <2>1, <2>2, <2>3
<1>4. WellPlaced(v.local, v.remote, v.fresh)
  <2>1. CASE op.do = "write local"
    <3>1. p \in Path
      BY <2>1 DEF Effect
    <3>2. WellPlaced([w.local EXCEPT ![p] = Entity(p, 0, op.content)], w.remote, w.fresh)
      BY <1>2, <3>1, FilesStay
    <3>3. v.local = [w.local EXCEPT ![p] = Entity(p, 0, op.content)]
      BY <1>1, <2>1
    <3>4. v.remote = w.remote /\ v.fresh = w.fresh
      BY <1>1, <2>1
    <3>5. QED
      BY <3>2, <3>3, <3>4
  <2>2. CASE op.do = "delete local"
    <3>1. p \in Path
      BY <2>2 DEF Effect
    <3>2. WellPlaced([w.local EXCEPT ![p] = Nothing], w.remote, w.fresh)
      BY <1>2, <3>1, FilesStay
    <3>3. v.local = [w.local EXCEPT ![p] = Nothing]
      BY <1>1, <2>2
    <3>4. v.remote = w.remote /\ v.fresh = w.fresh
      BY <1>1, <2>2
    <3>5. QED
      BY <3>2, <3>3, <3>4
  <2>3. CASE op.do = "move local"
    BY <1>1, <1>2, <2>3, MovesStay DEF Effect
  <2>4. CASE op.do = "write remote"
    <3>1. WellPlaced(w.local,
                     [w.remote EXCEPT ![p] =
                        Entity(p, IF w.remote[p] = Nothing THEN w.fresh ELSE w.remote[p].id,
                               op.content)],
                     IF w.remote[p] = Nothing THEN w.fresh + 1 ELSE w.fresh)
      BY <1>2, <2>4, ObjectsStay DEF Effect
    <3>2. QED
      BY <1>1, <2>4, <3>1
  <2>5. CASE op.do = "delete remote"
    <3>1. p \in Path
      BY <2>5 DEF Effect
    <3>2. WellPlaced(w.local, [w.remote EXCEPT ![p] = Nothing], w.fresh)
      BY <1>2, <3>1, FilesStay
    <3>3. v.local = w.local
      BY <1>1, <2>5
    <3>4. v.remote = [w.remote EXCEPT ![p] = Nothing] /\ v.fresh = w.fresh
      BY <1>1, <2>5
    <3>5. QED
      BY <3>2, <3>3, <3>4
  <2>6. CASE op.do = "move remote"
    BY <1>1, <1>2, <2>6, MovesStay DEF Effect
  <2>7. CASE op.do \in {"keep", "idle"}
    BY <1>1, <1>2, <2>7
  <2>8. QED
    BY <2>1, <2>2, <2>3, <2>4, <2>5, <2>6, <2>7 DEF Effect
<1>5. QED
  BY <1>1, <1>3, <1>4 DEF IsWorld, v

LeadsThrough(g, w, ops, n) ==
    g = [k \in 0 .. n |-> IF k = 0 THEN w ELSE Apply(g[k - 1], ops[k])]

(* What such a function is at each number.                                  *)
LEMMA LeadsAt ==
    ASSUME NEW w, NEW ops, NEW n \in Nat, NEW g, LeadsThrough(g, w, ops, n)
    PROVE  g[0] = w /\ \A k \in 1 .. n : g[k] = Apply(g[k - 1], ops[k])
<1> DEFINE F(k) == IF k = 0 THEN w ELSE Apply(g[k - 1], ops[k])
<1>1. g = [k \in 0 .. n |-> F(k)]
  BY Zenon DEF LeadsThrough
<1> HIDE DEF F
<1>2. \A k \in 0 .. n : g[k] = F(k)
  BY <1>1
<1>3. g[0] = w
  BY <1>2 DEF F
<1>4. ASSUME NEW k \in 1 .. n PROVE g[k] = Apply(g[k - 1], ops[k])
  <2>1. k \in 0 .. n /\ k # 0
    OBVIOUS
  <2>2. QED
    BY <1>2, <2>1 DEF F
<1>5. QED
  BY <1>3, <1>4

(* There is such a function.                                                *)
LEMMA LeadsExists ==
    ASSUME NEW w, NEW ops, NEW n \in Nat
    PROVE  \E g : LeadsThrough(g, w, ops, n)
<1> DEFINE T == {m \in Nat : ~ \E g : LeadsThrough(g, w, ops, m)}
<1>1. SUFFICES ASSUME T # {} PROVE FALSE
  OBVIOUS
<1>2. PICK m \in T : \A k \in T : m <= k
  BY <1>1, SmallestNumber
<1>3. CASE m = 0
  <2>1. LeadsThrough([k \in 0 .. 0 |-> w], w, ops, 0)
    BY DEF LeadsThrough
  <2>2. QED
    BY <1>2, <1>3, <2>1
<1>4. CASE m # 0
  <2>1. m - 1 \in Nat /\ m - 1 < m
    BY <1>2, <1>4
  <2>2. PICK g : LeadsThrough(g, w, ops, m - 1)
    BY <1>2, <2>1
  <2>3. g[0] = w /\ \A k \in 1 .. m - 1 : g[k] = Apply(g[k - 1], ops[k])
    <3>1. m - 1 \in Nat /\ LeadsThrough(g, w, ops, m - 1)
      BY <2>1, <2>2
    <3> HIDE DEF T
    <3>2. QED
      BY <3>1, LeadsAt
  <2> DEFINE h == [k \in 0 .. m |-> IF k < m THEN g[k] ELSE Apply(g[m - 1], ops[m])]
  <2>4. ASSUME NEW k \in 0 .. m
        PROVE  h[k] = IF k = 0 THEN w ELSE Apply(h[k - 1], ops[k])
    <3>1. CASE k = m
      <4>1. h[k] = Apply(g[m - 1], ops[m]) /\ h[k - 1] = g[m - 1]
        BY <2>1, <3>1
      <4>2. QED
        BY <1>4, <3>1, <4>1
    <3>2. CASE k < m
      <4>1. g[k] = IF k = 0 THEN w ELSE Apply(g[k - 1], ops[k])
        <5>1. k = 0 \/ (k \in 1 .. m - 1 /\ k # 0)
          BY <1>2, <3>2
        <5>2. QED
          BY <2>3, <5>1
      <4>2. h[k] = g[k] /\ (k # 0 => h[k - 1] = g[k - 1])
        BY <1>2, <3>2
      <4>3. QED
        BY <4>1, <4>2
    <3>3. QED
      BY <1>2, <3>1, <3>2
  <2>5. LeadsThrough(h, w, ops, m)
    <3> HIDE DEF h
    <3>1. h = [k \in 0 .. m |-> h[k]]
      BY DEF h
    <3>2. QED
      BY <2>4, <3>1 DEF LeadsThrough
  <2>6. QED
    BY <1>2, <2>5
<1>5. QED
  BY <1>3, <1>4

(* The worlds a sequence of effects leads through.                          *)
LEMMA WorldsAt ==
    ASSUME NEW w, NEW ops, Len(ops) \in Nat
    PROVE  LET g == Worlds(w, ops)
           IN  g[0] = w /\ \A k \in 1 .. Len(ops) : g[k] = Apply(g[k - 1], ops[k])
<1>1. PICK g : LeadsThrough(g, w, ops, Len(ops)) /\ Worlds(w, ops) = g
  <2>1. \E g : LeadsThrough(g, w, ops, Len(ops))
    BY LeadsExists
  <2>2. QED
    BY <2>1 DEF Worlds, LeadsThrough
<1>2. QED
  BY <1>1, LeadsAt

(* Each of them is a world.                                                 *)
LEMMA WorldsKeep ==
    ASSUME NEW w, IsWorld(w), NEW ops, Len(ops) \in Nat, \A k \in 1 .. Len(ops) : Effect(ops[k])
    PROVE  \A k \in 0 .. Len(ops) : IsWorld(Worlds(w, ops)[k])
<1> DEFINE n == Len(ops)
           g == Worlds(w, ops)
           T == {k \in 0 .. n : ~ IsWorld(g[k])}
<1>1. g[0] = w /\ \A k \in 1 .. n : g[k] = Apply(g[k - 1], ops[k])
  BY WorldsAt
<1> HIDE DEF g
<1>2. SUFFICES ASSUME T # {} PROVE FALSE
  BY DEF g
<1>3. PICK k \in 0 .. n : ~ IsWorld(g[k]) /\ \A j \in 0 .. n : ~ IsWorld(g[j]) => k <= j
  <2>1. T \subseteq Nat
    OBVIOUS
  <2>2. PICK k \in T : \A j \in T : k <= j
    BY <1>2, <2>1, SmallestNumber
  <2>3. QED
    BY <2>2
<1> HIDE DEF T
<1>4. k # 0
  BY <1>1, <1>3
<1>5. k \in 1 .. n /\ k - 1 \in 0 .. n /\ k - 1 < k
  BY <1>3, <1>4
<1>6. IsWorld(g[k - 1])
  BY <1>3, <1>5
<1>7. IsWorld(Apply(g[k - 1], ops[k]))
  BY <1>5, <1>6, ApplyKeeps
<1>8. QED
  BY <1>1, <1>3, <1>5, <1>7

(* What each effect does to the sides.                                      *)
LEMMA OnWriteLocal ==
    ASSUME NEW w, IsWorld(w), NEW p, NEW c
    PROVE  LET v == Apply(w, WriteLocal(p, c))
           IN  /\ v.local = [w.local EXCEPT ![p] = Entity(p, 0, c)]
               /\ v.remote = w.remote /\ v.copies = w.copies
BY DEF Apply, WriteLocal, IsWorld

(* The same of a file that goes.                                            *)
LEMMA OnDeleteLocal ==
    ASSUME NEW w, IsWorld(w), NEW p
    PROVE  LET v == Apply(w, DeleteLocal(p))
           IN  /\ v.local = [w.local EXCEPT ![p] = Nothing]
               /\ v.remote = w.remote /\ v.copies = w.copies
BY DEF Apply, DeleteLocal, IsWorld

(* The same of a file that moves.                                           *)
LEMMA OnMoveLocal ==
    ASSUME NEW w, IsWorld(w), NEW from, NEW to
    PROVE  LET v == Apply(w, MoveLocal(from, to))
           IN  /\ v.local = MovedOn(w.local, from, to)
               /\ v.remote = w.remote /\ v.copies = w.copies
BY DEF Apply, MoveLocal, IsWorld

(* The same of an object that is written: of some identity.                 *)
LEMMA OnWriteRemote ==
    ASSUME NEW w, IsWorld(w), NEW p, NEW c
    PROVE  LET v == Apply(w, WriteRemote(p, c))
           IN  /\ \E i : v.remote = [w.remote EXCEPT ![p] = Entity(p, i, c)]
               /\ v.local = w.local /\ v.copies = w.copies
<1>1. LET v == Apply(w, WriteRemote(p, c))
      IN  /\ v.remote = [w.remote EXCEPT ![p] =
                           Entity(p, IF w.remote[p] = Nothing THEN w.fresh ELSE w.remote[p].id, c)]
          /\ v.local = w.local /\ v.copies = w.copies
  BY DEF Apply, WriteRemote, IsWorld
<1>2. QED
  BY <1>1

(* The same of an object that goes.                                         *)
LEMMA OnDeleteRemote ==
    ASSUME NEW w, IsWorld(w), NEW p
    PROVE  LET v == Apply(w, DeleteRemote(p))
           IN  /\ v.remote = [w.remote EXCEPT ![p] = Nothing]
               /\ v.local = w.local /\ v.copies = w.copies
BY DEF Apply, DeleteRemote, IsWorld

(* The same of an object that moves.                                        *)
LEMMA OnMoveRemote ==
    ASSUME NEW w, IsWorld(w), NEW from, NEW to
    PROVE  LET v == Apply(w, MoveRemote(from, to))
           IN  /\ v.remote = MovedOn(w.remote, from, to)
               /\ v.local = w.local /\ v.copies = w.copies
BY DEF Apply, MoveRemote, IsWorld

(* A copy adds a version, and nothing else does anything.                   *)
LEMMA OnKeep ==
    ASSUME NEW w, IsWorld(w), NEW c
    PROVE  LET v == Apply(w, Keep(c))
           IN  v.local = w.local /\ v.remote = w.remote /\ v.copies = w.copies \cup {c}
BY DEF Apply, Keep, IsWorld

(* An idle step does nothing.                                               *)
LEMMA OnIdle ==
    ASSUME NEW w
    PROVE  Apply(w, Idle) = w
BY DEF Apply, Idle

(* What writing at an address takes from a side.                            *)
LEMMA ContentsWritten ==
    ASSUME NEW side, DOMAIN side = Path, NEW p \in Path, NEW e
    PROVE  /\ Contents(side) \ Contents([side EXCEPT ![p] = e]) \subseteq {side[p].content} \ {0}
           /\ e.content # 0 => e.content \in Contents([side EXCEPT ![p] = e])
<1> DEFINE s == [side EXCEPT ![p] = e]
<1>1. s[p] = e /\ \A q \in Path \ {p} : s[q] = side[q]
  OBVIOUS
<1> HIDE DEF s
<1>2. ASSUME NEW c \in Contents(side), c \notin Contents(s) PROVE c = side[p].content /\ c # 0
  <2>1. PICK q \in Path : c = side[q].content
    BY DEF Contents
  <2>2. c # 0
    BY DEF Contents
  <2>3. q = p
    BY <1>1, <1>2, <2>1, <2>2 DEF Contents
  <2>4. QED
    BY <2>1, <2>2, <2>3
<1>3. e.content # 0 => e.content \in Contents(s)
  BY <1>1 DEF Contents
<1>4. QED
  BY <1>2, <1>3 DEF s

(* A move to an empty address takes nothing from it.                        *)
LEMMA ContentsMoved ==
    ASSUME NEW side, Placed(side, Path), NEW from \in Path, NEW to \in Path, from # to,
           side[to] = Nothing
    PROVE  Contents(side) \subseteq Contents(MovedOn(side, from, to))
<1> DEFINE s == MovedOn(side, from, to)
<1>1. /\ \A q \in Path \ {from, to} : s[q] = side[q]
      /\ s[to].content = side[from].content
  BY MovedSide
<1> HIDE DEF s
<1>2. ASSUME NEW c \in Contents(side) PROVE c \in Contents(s)
  <2>1. PICK q \in Path : c = side[q].content
    BY DEF Contents
  <2>2. c # 0
    BY DEF Contents
  <2>3. q # to
    BY <2>1, <2>2 DEF Nothing
  <2>4. c = s[q].content \/ c = s[to].content
    BY <1>1, <2>1, <2>3
  <2>5. QED
    BY <2>2, <2>4 DEF Contents
<1>3. QED
  BY <1>2 DEF s

-----------------------------------------------------------------------------
(* What an action takes from the sides is recorded, or kept.                *)

Kept(c, w) == Recorded(c) \/ c \in w.copies

\* What the sides had and have no more in a world.
Spared(w) ==
    /\ \A c \in Contents(local) \ Contents(w.local) : Kept(c, w)
    /\ \A c \in Contents(remote) \ Contents(w.remote) : Kept(c, w)

(* The state itself is a world, and it spares everything.                   *)
LEMMA WorldIsWorld ==
    ASSUME IInv
    PROVE  IsWorld(World) /\ Spared(World)
BY DEF IInv, Sides, Marks, IsWorld, World, Spared

(* A base that an admitted action may use is in the records when it runs.   *)
LEMMA BaseRecorded ==
    ASSUME NEW a, GoodAction(a, Path), InputsHold(a), a.base # Nothing, Usable(a)
    PROVE  Recorded(a.base.content)
<1>1. a.base.path \in Path /\ a.base.path # 0
  BY EntityPath DEF GoodAction
<1>2. CASE a.base = a.destination
  BY <1>2 DEF Recorded, InputsHold, GoodAction
<1>3. CASE a.base = a.source /\ a.source.path # a.path
  <2>1. rows[a.source.path] = a.source
    BY <1>1, <1>3 DEF InputsHold
  <2>2. QED
    BY <1>1, <1>3, <2>1 DEF Recorded
<1>4. QED
  BY <1>2, <1>3 DEF Usable

(* What stands at the address of an action is what the action expects.      *)
LEMMA ExpectedAt ==
    ASSUME NEW a, GoodAction(a, Path), InputsHold(a)
    PROVE  /\ a.local # Nothing => local[a.local.path] = a.local /\ a.local.path \in Path
           /\ a.local = Nothing => local[a.at] = Nothing
           /\ a.remote # Nothing => remote[a.remote.path] = a.remote /\ a.remote.path \in Path
           /\ a.remote = Nothing => remote[a.at] = Nothing
BY EntityPath DEF GoodAction, InputsHold, Unchanged

(* A write at an address whose content is recorded, kept, nothing, or       *)
(* written again, spares the side.                                          *)
LEMMA LocalWriteSpares ==
    ASSUME NEW w, IsWorld(w), Spared(w), NEW p \in Path, NEW v, NEW e,
           v.local = [w.local EXCEPT ![p] = e], v.remote = w.remote, w.copies \subseteq v.copies,
           \/ w.local[p] = Nothing \/ Kept(w.local[p].content, v)
           \/ w.local[p].content = e.content
    PROVE  Spared(v)
<1>1. DOMAIN w.local = Path
  BY DEF IsWorld, WellPlaced, Placed
<1>2. /\ Contents(w.local) \ Contents(v.local) \subseteq {w.local[p].content} \ {0}
      /\ e.content # 0 => e.content \in Contents(v.local)
  BY <1>1, ContentsWritten
<1>3. Nothing.content = 0
  BY DEF Nothing
<1>4. \A c \in Contents(local) \ Contents(v.local) : Kept(c, v)
  BY <1>2, <1>3 DEF Spared, Kept
<1>5. QED
  BY <1>4 DEF Spared, Kept

(* The same of the remote.                                                  *)
LEMMA RemoteWriteSpares ==
    ASSUME NEW w, IsWorld(w), Spared(w), NEW p \in Path, NEW v, NEW e,
           v.remote = [w.remote EXCEPT ![p] = e], v.local = w.local, w.copies \subseteq v.copies,
           \/ w.remote[p] = Nothing \/ Kept(w.remote[p].content, v)
           \/ w.remote[p].content = e.content
    PROVE  Spared(v)
<1>1. DOMAIN w.remote = Path
  BY DEF IsWorld, WellPlaced, Placed
<1>2. /\ Contents(w.remote) \ Contents(v.remote) \subseteq {w.remote[p].content} \ {0}
      /\ e.content # 0 => e.content \in Contents(v.remote)
  BY <1>1, ContentsWritten
<1>3. Nothing.content = 0
  BY DEF Nothing
<1>4. \A c \in Contents(remote) \ Contents(v.remote) : Kept(c, v)
  BY <1>2, <1>3 DEF Spared, Kept
<1>5. QED
  BY <1>4 DEF Spared, Kept

(* Written as effects of the engine.                                        *)
LEMMA LocalWritten ==
    ASSUME NEW w, IsWorld(w), Spared(w), NEW p \in Path, NEW c,
           NEW v, v = Apply(w, WriteLocal(p, c)),
           w.local[p] = Nothing \/ Kept(w.local[p].content, v) \/ w.local[p].content = c
    PROVE  Spared(v)
<1> DEFINE e == Entity(p, 0, c)
<1>1. v.local = [w.local EXCEPT ![p] = e] /\ v.remote = w.remote
  BY DEF Apply, WriteLocal, IsWorld
<1>2. w.copies \subseteq v.copies
  BY DEF Apply, WriteLocal, IsWorld
<1>3. e.content = c
  BY DEF Entity
<1> HIDE DEF e
<1>4. w.local[p] = Nothing \/ Kept(w.local[p].content, v) \/ w.local[p].content = e.content
  BY <1>3
<1>5. QED
  BY <1>1, <1>2, <1>4, LocalWriteSpares

LEMMA RemoteWritten ==
    ASSUME NEW w, IsWorld(w), Spared(w), NEW p \in Path, NEW c,
           NEW v, v = Apply(w, WriteRemote(p, c)),
           w.remote[p] = Nothing \/ Kept(w.remote[p].content, v) \/ w.remote[p].content = c
    PROVE  Spared(v)
<1>1. PICK i : v.remote = [w.remote EXCEPT ![p] = Entity(p, i, c)]
  BY OnWriteRemote
<1>2. v.local = w.local /\ w.copies \subseteq v.copies
  BY OnWriteRemote
<1> DEFINE e == Entity(p, i, c)
<1>3. e.content = c
  BY DEF Entity
<1>4. v.remote = [w.remote EXCEPT ![p] = e]
  BY <1>1
<1> HIDE DEF e
<1>5. w.remote[p] = Nothing \/ Kept(w.remote[p].content, v) \/ w.remote[p].content = e.content
  BY <1>3
<1>6. QED
  BY <1>2, <1>4, <1>5, RemoteWriteSpares

(* So does a move to an empty address.                                      *)
LEMMA MoveSpares ==
    ASSUME NEW w, IsWorld(w), Spared(w), NEW from \in Path, NEW to \in Path, from # to, NEW v,
           w.copies \subseteq v.copies,
           \/ w.local[to] = Nothing /\ v.local = MovedOn(w.local, from, to) /\ v.remote = w.remote
           \/ w.remote[to] = Nothing /\ v.remote = MovedOn(w.remote, from, to) /\ v.local = w.local
    PROVE  Spared(v)
<1>1. Placed(w.local, Path) /\ Placed(w.remote, Path)
  BY DEF IsWorld, WellPlaced
<1>2. /\ Contents(w.local) \subseteq Contents(v.local)
      /\ Contents(w.remote) \subseteq Contents(v.remote)
  BY <1>1, ContentsMoved
<1>3. QED
  BY <1>2 DEF Spared, Kept

(* One effect that spares.                                                  *)
LEMMA OneEffect ==
    ASSUME NEW w, Spared(w), NEW op, Spared(Apply(w, op))
    PROVE  \A k \in 0 .. Len(<<op>>) : Spared(Worlds(w, <<op>>)[k])
<1> DEFINE ops == <<op>>
           g == Worlds(w, ops)
<1>1. Len(ops) = 1 /\ ops[1] = op
  OBVIOUS
<1>2. Len(ops) \in Nat
  BY <1>1
<1> HIDE DEF ops
<1>3. g[0] = w /\ \A k \in 1 .. Len(ops) : g[k] = Apply(g[k - 1], ops[k])
  BY <1>2, WorldsAt
<1> HIDE DEF g
<1>4. g[1] = Apply(g[0], op)
  BY <1>1, <1>3
<1>5. \A k \in 0 .. Len(ops) : k = 0 \/ k = 1
  BY <1>1
<1>6. \A k \in 0 .. Len(ops) : Spared(g[k])
  BY <1>3, <1>4, <1>5
<1>7. QED
  BY <1>6 DEF g, ops

(* Two effects that spare, one after the other.                             *)
LEMMA TwoEffects ==
    ASSUME NEW w, Spared(w), NEW op, Spared(Apply(w, op)), NEW next,
           Spared(Apply(Apply(w, op), next))
    PROVE  \A k \in 0 .. Len(<<op, next>>) : Spared(Worlds(w, <<op, next>>)[k])
<1> DEFINE ops == <<op, next>>
           g == Worlds(w, ops)
<1>1. Len(ops) = 2 /\ ops[1] = op /\ ops[2] = next
  OBVIOUS
<1>2. Len(ops) \in Nat
  BY <1>1
<1> HIDE DEF ops
<1>3. g[0] = w /\ \A k \in 1 .. Len(ops) : g[k] = Apply(g[k - 1], ops[k])
  BY <1>2, WorldsAt
<1> HIDE DEF g
<1>4. g[1] = Apply(g[0], op) /\ g[2] = Apply(g[1], next)
  BY <1>1, <1>3
<1>5. \A k \in 0 .. Len(ops) : k = 0 \/ k = 1 \/ k = 2
  BY <1>1
<1>6. \A k \in 0 .. Len(ops) : Spared(g[k])
  BY <1>3, <1>4, <1>5
<1>7. QED
  BY <1>6 DEF g, ops

(* A push writes over nothing, or over what its base states.                *)
LEMMA PushSpares ==
    ASSUME IInv, NEW a, GoodAction(a, Path), InputsHold(a), a.kind = "push"
    PROVE  \A k \in 0 .. Len(Effects(a)) : Spared(Worlds(World, Effects(a))[k])
<1> DEFINE op == WriteRemote(a.path, a.local.content)
           v == Apply(World, op)
<1>1. Effects(a) = <<op>>
  BY DEF Effects
<1>2. IsWorld(World) /\ Spared(World) /\ World.remote = remote
  BY WorldIsWorld DEF World
<1>3. /\ \E i : v.remote = [World.remote EXCEPT ![a.path] = Entity(a.path, i, a.local.content)]
      /\ v.local = World.local /\ v.copies = World.copies
  BY <1>2, OnWriteRemote
<1>4. SoundPush(a) /\ a.path \in Path
  BY DEF GoodAction, Sound
<1>5. remote[a.path] = Nothing \/ Kept(remote[a.path].content, v)
  <2>1. CASE a.remote = Nothing
    BY <1>4, <2>1, ExpectedAt DEF SoundPush
  <2>2. CASE a.remote # Nothing
    <3>1. remote[a.path] = a.remote
      BY <1>4, <2>2, ExpectedAt DEF SoundPush
    <3>2. Recorded(a.remote.content)
      BY <1>4, <2>2, BaseRecorded DEF SoundPush, Says
    <3>3. QED
      BY <3>1, <3>2 DEF Kept
  <2>3. QED
    BY <2>1, <2>2
<1> HIDE DEF v
<1>6. Spared(v)
  BY <1>2, <1>3, <1>4, <1>5, RemoteWriteSpares
<1>7. QED
  BY <1>1, <1>2, <1>6, OneEffect DEF v

(* A pull does too.                                                         *)
LEMMA PullSpares ==
    ASSUME IInv, NEW a, GoodAction(a, Path), InputsHold(a), a.kind = "pull"
    PROVE  \A k \in 0 .. Len(Effects(a)) : Spared(Worlds(World, Effects(a))[k])
<1> DEFINE op == WriteLocal(a.path, a.remote.content)
           v == Apply(World, op)
<1>1. Effects(a) = <<op>>
  BY DEF Effects
<1>2. IsWorld(World) /\ Spared(World) /\ World.local = local
  BY WorldIsWorld DEF World
<1>3. /\ v.local = [World.local EXCEPT ![a.path] = Entity(a.path, 0, a.remote.content)]
      /\ v.remote = World.remote /\ v.copies = World.copies
  BY <1>2, OnWriteLocal
<1>4. SoundPull(a) /\ a.path \in Path
  BY DEF GoodAction, Sound
<1>5. local[a.path] = Nothing \/ Kept(local[a.path].content, v)
  <2>1. CASE a.local = Nothing
    BY <1>4, <2>1, ExpectedAt DEF SoundPull
  <2>2. CASE a.local # Nothing
    <3>1. local[a.path] = a.local
      BY <1>4, <2>2, ExpectedAt DEF SoundPull
    <3>2. Recorded(a.local.content)
      BY <1>4, <2>2, BaseRecorded DEF SoundPull, Says
    <3>3. QED
      BY <3>1, <3>2 DEF Kept
  <2>3. QED
    BY <2>1, <2>2
<1> HIDE DEF v
<1>6. Spared(v)
  BY <1>2, <1>3, <1>4, <1>5, LocalWriteSpares
<1>7. QED
  BY <1>1, <1>2, <1>6, OneEffect DEF v

(* A deletion takes what its base states.                                   *)
LEMMA DeletionSpares ==
    ASSUME IInv, NEW a, GoodAction(a, Path), InputsHold(a),
           a.kind \in {"delete_local", "delete_remote"}
    PROVE  \A k \in 0 .. Len(Effects(a)) : Spared(Worlds(World, Effects(a))[k])
<1>1. IsWorld(World) /\ Spared(World) /\ World.local = local /\ World.remote = remote
  BY WorldIsWorld DEF World
<1>2. CASE a.kind = "delete_local"
  <2> DEFINE op == DeleteLocal(a.local.path)
             v == Apply(World, op)
  <2>1. SoundLocalDeletion(a)
    BY <1>2 DEF GoodAction, Sound
  <2>2. Effects(a) = <<op>>
    BY <1>2, <2>1 DEF Effects, Or, SoundLocalDeletion
  <2>3. /\ v.local = [World.local EXCEPT ![a.local.path] = Nothing]
        /\ v.remote = World.remote /\ v.copies = World.copies
    BY <1>1, OnDeleteLocal
  <2>4. local[a.local.path] = a.local /\ a.local.path \in Path
    BY <2>1, ExpectedAt DEF SoundLocalDeletion
  <2>5. Kept(a.local.content, v)
    BY <2>1, BaseRecorded DEF SoundLocalDeletion, Usable, Kept
  <2> HIDE DEF v
  <2>6. Spared(v)
    BY <1>1, <2>3, <2>4, <2>5, LocalWriteSpares
  <2>7. QED
    BY <1>1, <2>2, <2>6, OneEffect DEF v
<1>3. CASE a.kind = "delete_remote"
  <2> DEFINE op == DeleteRemote(a.remote.path)
             v == Apply(World, op)
  <2>1. SoundRemoteDeletion(a)
    BY <1>3 DEF GoodAction, Sound
  <2>2. Effects(a) = <<op>>
    BY <1>3, <2>1 DEF Effects, Or, SoundRemoteDeletion
  <2>3. /\ v.remote = [World.remote EXCEPT ![a.remote.path] = Nothing]
        /\ v.local = World.local /\ v.copies = World.copies
    BY <1>1, OnDeleteRemote
  <2>4. remote[a.remote.path] = a.remote /\ a.remote.path \in Path
    BY <2>1, ExpectedAt DEF SoundRemoteDeletion
  <2>5. Kept(a.remote.content, v)
    BY <2>1, BaseRecorded DEF SoundRemoteDeletion, Usable, Kept
  <2> HIDE DEF v
  <2>6. Spared(v)
    BY <1>1, <2>3, <2>4, <2>5, RemoteWriteSpares
  <2>7. QED
    BY <1>1, <2>2, <2>6, OneEffect DEF v
<1>4. QED
  BY <1>2, <1>3

(* A rename, and the transfer after it.                                     *)
LEMMA RenameSpares ==
    ASSUME IInv, NEW a, GoodAction(a, Path), InputsHold(a), RoomFor(a),
           a.kind \in {"rename_local", "rename_remote"}
    PROVE  \A k \in 0 .. Len(Effects(a)) : Spared(Worlds(World, Effects(a))[k])
<1> DEFINE op == IF a.kind = "rename_local" THEN MoveLocal(a.from, a.path)
                 ELSE MoveRemote(a.from, a.path)
           next == CASE a.copy = "push" -> WriteRemote(a.path, a.local.content)
                     [] a.copy = "pull" -> WriteLocal(a.path, a.remote.content)
                     [] OTHER -> Idle
           v == Apply(World, op)
           u == Apply(v, next)
<1>1. Effects(a) = <<op, next>>
  BY DEF Effects, RenameEffects
<1>2. IsWorld(World) /\ Spared(World) /\ World.local = local /\ World.remote = remote
  BY WorldIsWorld DEF World
<1>3. SoundCopy(a) /\ a.path \in Path
  BY DEF GoodAction, Sound
<1>4. /\ local[a.local.path] = a.local /\ a.local.path \in Path
      /\ remote[a.remote.path] = a.remote /\ a.remote.path \in Path
  BY <1>3, ExpectedAt DEF SoundCopy
<1>5. /\ IsWorld(v) /\ Spared(v) /\ v.copies = World.copies
      /\ v.local[a.path].content = a.local.content
      /\ v.remote[a.path].content = a.remote.content
  <2>1. CASE a.kind = "rename_local"
    <3>1. a.from = a.local.path /\ a.remote.path = a.path /\ local[a.path] = Nothing
      BY <2>1 DEF GoodAction, Sound, RoomFor
    <3>2. a.from # a.path
      BY <1>3, <1>4, <3>1 DEF SoundCopy
    <3>3. op = MoveLocal(a.from, a.path)
      BY <2>1
    <3> HIDE DEF op
    <3>4. /\ v.local = MovedOn(local, a.from, a.path)
          /\ v.remote = remote /\ v.copies = World.copies
      BY <1>2, <3>3, OnMoveLocal DEF v
    <3>5. v.local[a.path].content = a.local.content
      <4>1. Placed(local, Path) /\ a.from \in Path /\ local[a.from] = a.local
        BY <1>2, <1>4, <3>1 DEF IsWorld, WellPlaced
      <4>2. MovedOn(local, a.from, a.path)[a.path].content = a.local.content
        BY <1>3, <3>2, <4>1, MovedSide
      <4>3. QED
        BY <3>4, <4>2
    <3>6. IsWorld(v)
      <4>1. Effect(op)
        BY <1>3, <1>4, <3>1, <3>3 DEF Effect, MoveLocal
      <4>2. QED
        BY <1>2, <4>1, ApplyKeeps
    <3> HIDE DEF v
    <3>7. Spared(v)
      BY <1>2, <1>3, <1>4, <3>1, <3>2, <3>4, MoveSpares
    <3>8. QED
      BY <1>4, <3>1, <3>4, <3>5, <3>6, <3>7
  <2>2. CASE a.kind = "rename_remote"
    <3>1. a.from = a.remote.path /\ a.local.path = a.path /\ remote[a.path] = Nothing
      BY <2>2 DEF GoodAction, Sound, RoomFor
    <3>2. a.from # a.path
      BY <1>3, <1>4, <3>1 DEF SoundCopy
    <3>3. op = MoveRemote(a.from, a.path)
      BY <2>2
    <3> HIDE DEF op
    <3>4. /\ v.remote = MovedOn(remote, a.from, a.path)
          /\ v.local = local /\ v.copies = World.copies
      BY <1>2, <3>3, OnMoveRemote DEF v
    <3>5. v.remote[a.path].content = a.remote.content
      <4>1. Placed(remote, Path) /\ a.from \in Path /\ remote[a.from] = a.remote
        BY <1>2, <1>4, <3>1 DEF IsWorld, WellPlaced
      <4>2. MovedOn(remote, a.from, a.path)[a.path].content = a.remote.content
        BY <1>3, <3>2, <4>1, MovedSide
      <4>3. QED
        BY <3>4, <4>2
    <3>6. IsWorld(v)
      <4>1. Effect(op)
        BY <1>3, <1>4, <3>1, <3>3 DEF Effect, MoveRemote
      <4>2. QED
        BY <1>2, <4>1, ApplyKeeps
    <3> HIDE DEF v
    <3>7. Spared(v)
      BY <1>2, <1>3, <1>4, <3>1, <3>2, <3>4, MoveSpares
    <3>8. QED
      BY <1>4, <3>1, <3>4, <3>5, <3>6, <3>7
  <2>3. QED
    BY <2>1, <2>2
<1> HIDE DEF v
<1>6. Spared(u)
  <2>1. CASE a.copy = "push"
    <3>1. /\ \E i : u.remote = [v.remote EXCEPT ![a.path] = Entity(a.path, i, a.local.content)]
          /\ u.local = v.local /\ u.copies = v.copies
      BY <1>5, <2>1, OnWriteRemote
    <3>2. Recorded(a.remote.content)
      BY <1>3, <2>1, BaseRecorded DEF SoundCopy, Says
    <3> HIDE DEF u
    <3>3. QED
      BY <1>3, <1>5, <3>1, <3>2, RemoteWriteSpares DEF Kept
  <2>2. CASE a.copy = "pull"
    <3>1. /\ u.local = [v.local EXCEPT ![a.path] = Entity(a.path, 0, a.remote.content)]
          /\ u.remote = v.remote /\ u.copies = v.copies
      BY <1>5, <2>2, OnWriteLocal, SMTT(30)
    <3>2. Recorded(a.local.content)
      BY <1>3, <2>2, BaseRecorded DEF SoundCopy, Says
    <3> HIDE DEF u
    <3>3. QED
      BY <1>3, <1>5, <3>1, <3>2, LocalWriteSpares DEF Kept
  <2>3. CASE a.copy \notin {"push", "pull"}
    BY <1>5, <2>3, OnIdle
  <2>4. QED
    BY <2>1, <2>2, <2>3
<1>7. QED
  <2> HIDE DEF op, next
  <2>1. Spared(Apply(World, op)) /\ Spared(Apply(Apply(World, op), next))
    BY <1>5, <1>6 DEF v, u
  <2>2. QED
    BY <1>1, <1>2, <2>1, TwoEffects

(* A copy that is made, or not, leaves the sides.                           *)
LEMMA KeepingSpares ==
    ASSUME NEW w, IsWorld(w), Spared(w), NEW needed, NEW c
    PROVE  LET v == Apply(w, When(needed, Keep(c)))
           IN  /\ IsWorld(v) /\ Spared(v) /\ w.copies \subseteq v.copies
               /\ v.local = w.local /\ v.remote = w.remote
               /\ needed => c \in v.copies
<1>1. CASE needed
  <2> DEFINE v == Apply(w, Keep(c))
  <2>1. v.local = w.local /\ v.remote = w.remote /\ v.copies = w.copies \cup {c}
    BY OnKeep
  <2>2. IsWorld(v)
    BY ApplyKeeps DEF Effect, Keep
  <2>3. When(needed, Keep(c)) = Keep(c)
    BY <1>1 DEF When
  <2> HIDE DEF v
  <2>4. Spared(v)
    BY <2>1 DEF Spared, Kept
  <2>5. QED
    BY <2>1, <2>2, <2>3, <2>4 DEF v
<1>2. CASE ~ needed
  BY <1>2, OnIdle DEF When
<1>3. QED
  BY <1>1, <1>2

(* The five effects of a conflict after its copies, one after the other.    *)
LEMMA ClearingSpares ==
    ASSUME IInv, NEW a, GoodAction(a, Path), InputsHold(a), RoomFor(a), a.kind = "conflict",
           NEW w, IsWorld(w), Spared(w), w.local = local, w.remote = remote,
           Copies(a) /\ a.otherRemote # Nothing => a.otherRemote.content \in w.copies
    PROVE  LET v == Apply(w, When(Rotates(a) /\ a.otherRemote # Nothing, DeleteRemote(a.path)))
           IN  /\ IsWorld(v) /\ Spared(v) /\ v.copies = w.copies /\ v.local = local
               /\ Rotates(a) => /\ v.remote[a.path] = Nothing
                                /\ \A q \in Path \ {a.path} : v.remote[q] = remote[q]
               /\ ~ Rotates(a) => v.remote = remote
<1>1. SoundConflict(a) /\ a.path \in Path
  BY DEF GoodAction, Sound
<1>2. /\ a.otherRemote # Nothing => remote[a.path] = a.otherRemote
      /\ a.otherRemote = Nothing /\ Rotates(a) => remote[a.path] = Nothing
  BY DEF RoomFor
<1>3. CASE Rotates(a) /\ a.otherRemote # Nothing
  <2> DEFINE v == Apply(w, DeleteRemote(a.path))
  <2>1. /\ v.remote = [w.remote EXCEPT ![a.path] = Nothing]
        /\ v.local = w.local /\ v.copies = w.copies
    BY OnDeleteRemote
  <2>2. IsWorld(v)
    BY <1>1, ApplyKeeps DEF Effect, DeleteRemote
  <2>3. When(Rotates(a) /\ a.otherRemote # Nothing, DeleteRemote(a.path)) = DeleteRemote(a.path)
    BY <1>3 DEF When
  <2>4. Copies(a)
    BY <1>1, <1>3 DEF SoundConflict, Copies, Compound
  <2> HIDE DEF v
  <2>5. Spared(v)
    <3>1. Kept(w.remote[a.path].content, v)
      BY <1>2, <1>3, <2>1, <2>4 DEF Kept
    <3>2. QED
      BY <1>1, <2>1, <3>1, RemoteWriteSpares
  <2>6. DOMAIN remote = Path
    BY DEF IInv, Sides, WellPlaced, Placed
  <2>7. QED
    BY <1>1, <1>3, <2>1, <2>2, <2>3, <2>5, <2>6 DEF v
<1>4. CASE ~ (Rotates(a) /\ a.otherRemote # Nothing)
  <2>1. Apply(w, When(Rotates(a) /\ a.otherRemote # Nothing, DeleteRemote(a.path))) = w
    BY <1>4, OnIdle DEF When
  <2>2. QED
    BY <1>2, <1>4, <2>1
<1>5. QED
  BY <1>3, <1>4

\* What a conflict finds at its address on the remote before it writes there.
MayBeWritten(w, p, target) ==
    w.remote[p] = Nothing \/ w.remote[p].content \in w.copies \/ w.remote[p].content = target

(* The tracked object is brought to the address.                            *)
LEMMA RotationSpares ==
    ASSUME IInv, NEW a, GoodAction(a, Path), InputsHold(a), RoomFor(a), a.kind = "conflict",
           NEW w, IsWorld(w), Spared(w), w.local = local,
           Copies(a) => a.remote.content \in w.copies,
           Copies(a) /\ a.otherRemote # Nothing => a.otherRemote.content \in w.copies,
           Rotates(a) => /\ w.remote[a.path] = Nothing
                         /\ \A q \in Path \ {a.path} : w.remote[q] = remote[q],
           ~ Rotates(a) => w.remote = remote
    PROVE  LET v == Apply(w, When(Rotates(a), MoveRemote(a.tracked.path, a.path)))
           IN  /\ IsWorld(v) /\ Spared(v) /\ v.copies = w.copies /\ v.local = local
               /\ MayBeWritten(v, a.path, Or(a.local, a.remote).content)
<1>1. SoundConflict(a) /\ a.path \in Path
  BY DEF GoodAction, Sound
<1>2. /\ a.remote # Nothing => remote[a.remote.path] = a.remote /\ a.remote.path \in Path
      /\ a.remote = Nothing => remote[a.at] = Nothing
  BY ExpectedAt
<1>3. CASE Rotates(a)
  <2> DEFINE v == Apply(w, MoveRemote(a.tracked.path, a.path))
  <2>1. a.tracked = a.remote /\ a.remote # Nothing /\ a.remote.path # a.path
    BY <1>3 DEF RoomFor, Rotates
  <2>2. /\ v.remote = MovedOn(w.remote, a.remote.path, a.path)
        /\ v.local = w.local /\ v.copies = w.copies
    BY <2>1, OnMoveRemote
  <2>3. IsWorld(v)
    <3>1. Effect(MoveRemote(a.tracked.path, a.path))
      BY <1>1, <1>2, <2>1 DEF Effect, MoveRemote
    <3>2. QED
      BY <3>1, ApplyKeeps
  <2>4. When(Rotates(a), MoveRemote(a.tracked.path, a.path)) = MoveRemote(a.tracked.path, a.path)
    BY <1>3 DEF When
  <2> HIDE DEF v
  <2>5. Spared(v)
    BY <1>1, <1>2, <1>3, <2>1, <2>2, MoveSpares
  <2>6. v.remote[a.path].content \in v.copies
    <3>1. Copies(a)
      BY <1>3, <2>1 DEF Copies, Compound
    <3>2. Placed(w.remote, Path) /\ a.remote.path \in Path /\ w.remote[a.remote.path] = a.remote
      BY <1>2, <1>3, <2>1 DEF IsWorld, WellPlaced
    <3>3. MovedOn(w.remote, a.remote.path, a.path)[a.path].content = a.remote.content
      BY <1>1, <2>1, <3>2, MovedSide, SMTT(30)
    <3>4. QED
      BY <2>2, <3>1, <3>3
  <2>7. QED
    BY <2>2, <2>3, <2>4, <2>5, <2>6 DEF v, MayBeWritten
<1>4. CASE ~ Rotates(a)
  <2>1. Apply(w, When(Rotates(a), MoveRemote(a.tracked.path, a.path))) = w
    BY <1>4, OnIdle DEF When
  <2>2. MayBeWritten(w, a.path, Or(a.local, a.remote).content)
    <3>1. CASE a.otherRemote # Nothing
      <4>1. remote[a.path] = a.otherRemote /\ Copies(a)
        BY <1>1, <3>1 DEF RoomFor, SoundConflict, Copies, Compound
      <4>2. QED
        BY <1>4, <3>1, <4>1 DEF MayBeWritten
    <3>2. CASE a.otherRemote = Nothing /\ a.remote = Nothing
      BY <1>4, <3>2 DEF RoomFor, MayBeWritten
    <3>3. CASE a.remote # Nothing /\ a.remote.path # a.path
      <4>1. a.remote.path # 0
        BY <1>2, <3>3 DEF Path
      <4>2. QED
        BY <1>1, <1>4, <3>3, <4>1 DEF SoundConflict, Rotates
    <3>4. CASE a.remote # Nothing /\ a.remote.path = a.path
      BY <1>2, <1>4, <3>4 DEF MayBeWritten, Copies, Or
    <3>5. QED
      BY <3>1, <3>2, <3>3, <3>4
  <2>3. QED
    BY <2>1, <2>2
<1>5. QED
  BY <1>3, <1>4

(* The file is brought to the address, and both sides take one version.     *)
LEMMA SettlingSpares ==
    ASSUME IInv, NEW a, GoodAction(a, Path), InputsHold(a), RoomFor(a), a.kind = "conflict",
           NEW target, target = Or(a.local, a.remote).content,
           NEW w, IsWorld(w), Spared(w), w.local = local, MayBeWritten(w, a.path, target),
           NEW v, v = Apply(w, When(a.local # Nothing /\ a.local.path # a.path,
                                    MoveLocal(a.local.path, a.path))),
           NEW u, u = Apply(v, WriteLocal(a.path, target)),
           NEW t, t = Apply(u, WriteRemote(a.path, target))
    PROVE  Spared(v) /\ Spared(u) /\ Spared(t)
<1>1. SoundConflict(a) /\ a.path \in Path
  BY DEF GoodAction, Sound
<1>2. /\ a.local # Nothing => local[a.local.path] = a.local /\ a.local.path \in Path
      /\ a.local = Nothing => local[a.at] = Nothing
  BY ExpectedAt, SMTT(30)
<1>3. /\ IsWorld(v) /\ Spared(v) /\ v.copies = w.copies /\ v.remote = w.remote
      /\ v.local[a.path] = Nothing \/ v.local[a.path].content = target
  <2>1. CASE a.local # Nothing /\ a.local.path # a.path
    <3>1. v = Apply(w, MoveLocal(a.local.path, a.path))
      BY <2>1 DEF When
    <3>2. /\ v.local = MovedOn(w.local, a.local.path, a.path)
          /\ v.remote = w.remote /\ v.copies = w.copies
      BY <3>1, OnMoveLocal
    <3>3. Effect(MoveLocal(a.local.path, a.path))
      BY <1>1, <1>2, <2>1 DEF Effect, MoveLocal
    <3>4. IsWorld(v)
      BY <3>1, <3>3, ApplyKeeps
    <3>5. local[a.path] = Nothing
      <4>1. a.local.path # 0
        BY <1>2, <2>1 DEF Path
      <4>2. QED
        BY <2>1, <4>1 DEF RoomFor
    <3>6. Spared(v)
      BY <1>1, <1>2, <2>1, <3>2, <3>5, MoveSpares
    <3>7. v.local[a.path].content = a.local.content
      <4>1. Placed(w.local, Path) /\ a.local.path \in Path /\ w.local[a.local.path] = a.local
        BY <1>2, <2>1 DEF IsWorld, WellPlaced
      <4>2. MovedOn(w.local, a.local.path, a.path)[a.path].content = a.local.content
        BY <1>1, <2>1, <4>1, MovedSide
      <4>3. QED
        BY <3>2, <4>2
    <3>8. QED
      BY <2>1, <3>2, <3>4, <3>6, <3>7 DEF Or
  <2>2. CASE ~ (a.local # Nothing /\ a.local.path # a.path)
    <3>1. v = w
      BY <2>2, OnIdle DEF When
    <3>2. local[a.path] = Nothing \/ local[a.path].content = target
      BY <1>1, <1>2, <2>2 DEF SoundConflict, Or
    <3>3. QED
      BY <3>1, <3>2
  <2>3. QED
    BY <2>1, <2>2
<1>4. /\ u.local = [v.local EXCEPT ![a.path] = Entity(a.path, 0, target)]
      /\ u.remote = v.remote /\ u.copies = v.copies
  BY <1>3, OnWriteLocal
<1>5. Spared(u)
  <2>1. a.path \in Path
    BY <1>1
  <2>2. IsWorld(v) /\ Spared(v)
    BY <1>3
  <2>3. v.local[a.path] = Nothing \/ v.local[a.path].content = target
    BY <1>3
  <2>4. QED
    BY <2>1, <2>2, <2>3, LocalWritten
<1>6. IsWorld(u)
  <2>1. Effect(WriteLocal(a.path, target))
    BY <1>1 DEF Effect, WriteLocal
  <2>2. QED
    BY <1>3, <2>1, ApplyKeeps
<1>7. t.copies = u.copies
  BY <1>6, OnWriteRemote, SMTT(30)
<1>8. Spared(t)
  <2>1. a.path \in Path
    BY <1>1
  <2>2. u.remote = w.remote /\ t.copies = w.copies
    BY <1>3, <1>4, <1>7
  <2>3. \/ w.remote[a.path] = Nothing \/ Kept(w.remote[a.path].content, w)
        \/ w.remote[a.path].content = target
    BY DEF MayBeWritten, Kept
  <2>4. Kept(w.remote[a.path].content, w) => Kept(w.remote[a.path].content, t)
    BY <2>2 DEF Kept
  <2>5. \/ u.remote[a.path] = Nothing \/ Kept(u.remote[a.path].content, t)
        \/ u.remote[a.path].content = target
    BY <2>2, <2>3, <2>4
  <2>6. QED
    BY <1>5, <1>6, <2>1, <2>5, RemoteWritten, SMTT(30)
<1>9. QED
  BY <1>3, <1>5, <1>8

(* A conflict, all eight of its effects.                                    *)
LEMMA ConflictSpares ==
    ASSUME IInv, NEW a, GoodAction(a, Path), InputsHold(a), RoomFor(a), a.kind = "conflict"
    PROVE  \A k \in 0 .. Len(Effects(a)) : Spared(Worlds(World, Effects(a))[k])
<1> DEFINE target == Or(a.local, a.remote).content
           ops == Resolution(a, target)
           g == Worlds(World, ops)
<1>1. Effects(a) = ops
  BY DEF Effects
<1>2. /\ Len(ops) = 8
      /\ ops[1] = When(Copies(a), Keep(a.remote.content))
      /\ ops[2] = When(Copies(a) /\ a.otherRemote # Nothing, Keep(a.otherRemote.content))
      /\ ops[3] = When(Copies(a) /\ a.otherLocal # Nothing, Keep(a.otherLocal.content))
      /\ ops[4] = When(Rotates(a) /\ a.otherRemote # Nothing, DeleteRemote(a.path))
      /\ ops[5] = When(Rotates(a), MoveRemote(a.tracked.path, a.path))
      /\ ops[6] = When(a.local # Nothing /\ a.local.path # a.path,
                       MoveLocal(a.local.path, a.path))
      /\ ops[7] = WriteLocal(a.path, target)
      /\ ops[8] = WriteRemote(a.path, target)
  BY DEF Resolution
<1> HIDE DEF ops
<1>3. g[0] = World /\ \A k \in 1 .. Len(ops) : g[k] = Apply(g[k - 1], ops[k])
  <2>1. Len(ops) \in Nat
    BY <1>2
  <2>2. QED
    BY <2>1, WorldsAt
<1> HIDE DEF g
<1>4. /\ g[1] = Apply(g[0], ops[1]) /\ g[2] = Apply(g[1], ops[2])
      /\ g[3] = Apply(g[2], ops[3]) /\ g[4] = Apply(g[3], ops[4])
      /\ g[5] = Apply(g[4], ops[5]) /\ g[6] = Apply(g[5], ops[6])
      /\ g[7] = Apply(g[6], ops[7]) /\ g[8] = Apply(g[7], ops[8])
  BY <1>2, <1>3
<1>5. IsWorld(g[0]) /\ Spared(g[0]) /\ g[0].local = local /\ g[0].remote = remote
  BY <1>3, WorldIsWorld DEF World
<1>6. /\ IsWorld(g[1]) /\ Spared(g[1]) /\ g[1].local = local /\ g[1].remote = remote
      /\ Copies(a) => a.remote.content \in g[1].copies
  BY <1>2, <1>4, <1>5, KeepingSpares, SMTT(30)
<1>7. /\ IsWorld(g[2]) /\ Spared(g[2]) /\ g[2].local = local /\ g[2].remote = remote
      /\ g[1].copies \subseteq g[2].copies
      /\ Copies(a) /\ a.otherRemote # Nothing => a.otherRemote.content \in g[2].copies
  <2> DEFINE needed == Copies(a) /\ a.otherRemote # Nothing
  <2>1. g[2] = Apply(g[1], When(needed, Keep(a.otherRemote.content)))
    BY <1>2, <1>4
  <2> HIDE DEF needed
  <2>2. /\ IsWorld(g[2]) /\ Spared(g[2]) /\ g[1].copies \subseteq g[2].copies
        /\ g[2].local = g[1].local /\ g[2].remote = g[1].remote
        /\ needed => a.otherRemote.content \in g[2].copies
    BY <1>6, <2>1, KeepingSpares
  <2>3. QED
    BY <1>6, <2>2 DEF needed
<1>8. /\ IsWorld(g[3]) /\ Spared(g[3]) /\ g[3].local = local /\ g[3].remote = remote
      /\ g[2].copies \subseteq g[3].copies
  BY <1>2, <1>4, <1>7, KeepingSpares, SMTT(30)
<1>9. /\ Copies(a) => a.remote.content \in g[3].copies
      /\ Copies(a) /\ a.otherRemote # Nothing => a.otherRemote.content \in g[3].copies
  BY <1>6, <1>7, <1>8
<1>10. /\ IsWorld(g[4]) /\ Spared(g[4]) /\ g[4].copies = g[3].copies /\ g[4].local = local
       /\ Rotates(a) => /\ g[4].remote[a.path] = Nothing
                        /\ \A q \in Path \ {a.path} : g[4].remote[q] = remote[q]
       /\ ~ Rotates(a) => g[4].remote = remote
  <2>1. g[4] = Apply(g[3], When(Rotates(a) /\ a.otherRemote # Nothing, DeleteRemote(a.path)))
    BY <1>2, <1>4
  <2>2. QED
    BY <1>8, <1>9, <2>1, ClearingSpares
<1>11. /\ IsWorld(g[5]) /\ Spared(g[5]) /\ g[5].local = local
       /\ MayBeWritten(g[5], a.path, target)
  <2>1. g[5] = Apply(g[4], When(Rotates(a), MoveRemote(a.tracked.path, a.path)))
    BY <1>2, <1>4
  <2>2. /\ Copies(a) => a.remote.content \in g[4].copies
        /\ Copies(a) /\ a.otherRemote # Nothing => a.otherRemote.content \in g[4].copies
    BY <1>9, <1>10
  <2>3. QED
    BY <1>10, <2>1, <2>2, RotationSpares
<1>12. Spared(g[6]) /\ Spared(g[7]) /\ Spared(g[8])
  BY <1>2, <1>4, <1>11, SettlingSpares
<1>13. \A k \in 0 .. Len(ops) : k \in {0, 1, 2, 3, 4, 5, 6, 7, 8}
  BY <1>2
<1>14. \A k \in 0 .. Len(ops) : Spared(g[k])
  BY <1>5, <1>6, <1>7, <1>8, <1>10, <1>11, <1>12, <1>13
<1>15. QED
  BY <1>1, <1>14 DEF g

(* Every effect of an action is one, at an address.                         *)
LEMMA EffectsAre ==
    ASSUME IInv, NEW a, GoodAction(a, Path), a.kind = "match" \/ (InputsHold(a) /\ RoomFor(a))
    PROVE  Len(Effects(a)) \in Nat /\ \A k \in 1 .. Len(Effects(a)) : Effect(Effects(a)[k])
<1>1. a.path \in Path /\ Sound(a)
  BY DEF GoodAction
<1>2. /\ a.local # Nothing => a.local.path \in Path
      /\ a.remote # Nothing => a.remote.path \in Path
  BY EntityPath DEF GoodAction
<1>3. CASE a.kind = "push"
  <2>1. Effects(a) = <<WriteRemote(a.path, a.local.content)>>
    BY <1>3 DEF Effects
  <2>2. Effect(WriteRemote(a.path, a.local.content))
    BY <1>1 DEF Effect, WriteRemote
  <2>3. QED
    BY <2>1, <2>2
<1>4. CASE a.kind = "pull"
  <2>1. Effects(a) = <<WriteLocal(a.path, a.remote.content)>>
    BY <1>4 DEF Effects
  <2>2. Effect(WriteLocal(a.path, a.remote.content))
    BY <1>1 DEF Effect, WriteLocal
  <2>3. QED
    BY <2>1, <2>2
<1>5. CASE a.kind = "delete_local"
  <2>1. a.local # Nothing
    BY <1>1, <1>5 DEF Sound, SoundLocalDeletion
  <2>2. Effects(a) = <<DeleteLocal(a.local.path)>>
    BY <1>5, <2>1 DEF Effects, Or
  <2>3. Effect(DeleteLocal(a.local.path))
    BY <1>2, <2>1 DEF Effect, DeleteLocal
  <2>4. QED
    BY <2>2, <2>3
<1>6. CASE a.kind = "delete_remote"
  <2>1. a.remote # Nothing
    BY <1>1, <1>6 DEF Sound, SoundRemoteDeletion
  <2>2. Effects(a) = <<DeleteRemote(a.remote.path)>>
    BY <1>6, <2>1 DEF Effects, Or
  <2>3. Effect(DeleteRemote(a.remote.path))
    BY <1>2, <2>1 DEF Effect, DeleteRemote
  <2>4. QED
    BY <2>2, <2>3
<1>7. CASE a.kind \in {"rename_local", "rename_remote"}
  <2> DEFINE op == IF a.kind = "rename_local" THEN MoveLocal(a.from, a.path)
                   ELSE MoveRemote(a.from, a.path)
             next == CASE a.copy = "push" -> WriteRemote(a.path, a.local.content)
                       [] a.copy = "pull" -> WriteLocal(a.path, a.remote.content)
                       [] OTHER -> Idle
  <2>1. Effects(a) = <<op, next>>
    BY <1>7 DEF Effects, RenameEffects
  <2>2. a.from \in Path
    BY <1>1, <1>2, <1>7 DEF Sound, SoundCopy
  <2>3. Effect(op)
    <3>1. CASE a.kind = "rename_local"
      BY <1>1, <2>2, <3>1 DEF Effect, MoveLocal
    <3>2. CASE a.kind # "rename_local"
      BY <1>1, <2>2, <3>2 DEF Effect, MoveRemote
    <3>3. QED
      BY <3>1, <3>2
  <2>4. Effect(next)
    <3>1. CASE a.copy = "push"
      BY <1>1, <3>1 DEF Effect, WriteRemote
    <3>2. CASE a.copy = "pull"
      BY <1>1, <3>2 DEF Effect, WriteLocal
    <3>3. CASE a.copy \notin {"push", "pull"}
      BY <3>3 DEF Effect, Idle
    <3>4. QED
      BY <3>1, <3>2, <3>3
  <2> HIDE DEF op, next
  <2>5. QED
    BY <2>1, <2>3, <2>4
<1>8. CASE a.kind = "conflict"
  <2> DEFINE target == Or(a.local, a.remote).content
             ops == Resolution(a, target)
  <2>1. Effects(a) = ops
    BY <1>8 DEF Effects
  <2>2. /\ Len(ops) = 8
        /\ ops[1] = When(Copies(a), Keep(a.remote.content))
        /\ ops[2] = When(Copies(a) /\ a.otherRemote # Nothing, Keep(a.otherRemote.content))
        /\ ops[3] = When(Copies(a) /\ a.otherLocal # Nothing, Keep(a.otherLocal.content))
        /\ ops[4] = When(Rotates(a) /\ a.otherRemote # Nothing, DeleteRemote(a.path))
        /\ ops[5] = When(Rotates(a), MoveRemote(a.tracked.path, a.path))
        /\ ops[6] = When(a.local # Nothing /\ a.local.path # a.path,
                         MoveLocal(a.local.path, a.path))
        /\ ops[7] = WriteLocal(a.path, target)
        /\ ops[8] = WriteRemote(a.path, target)
    BY DEF Resolution
  <2> HIDE DEF ops
  <2>3. \A needed, c : Effect(When(needed, Keep(c)))
    BY DEF Effect, When, Keep, Idle
  <2>4. \A needed : Effect(When(needed, DeleteRemote(a.path)))
    BY <1>1 DEF Effect, When, DeleteRemote, Idle
  <2>5. Effect(ops[5])
    <3>1. CASE Rotates(a)
      <4>1. a.tracked.path \in Path
        BY <1>2, <1>8, <3>1 DEF RoomFor, Rotates
      <4>2. Effect(MoveRemote(a.tracked.path, a.path))
        BY <1>1, <4>1 DEF Effect, MoveRemote
      <4>3. QED
        BY <2>2, <3>1, <4>2 DEF When
    <3>2. CASE ~ Rotates(a)
      BY <2>2, <3>2 DEF When, Effect, Idle
    <3>3. QED
      BY <3>1, <3>2
  <2>6. Effect(ops[6])
    <3>1. CASE a.local # Nothing /\ a.local.path # a.path
      <4>1. Effect(MoveLocal(a.local.path, a.path))
        BY <1>1, <1>2, <3>1 DEF Effect, MoveLocal
      <4>2. QED
        BY <2>2, <3>1, <4>1 DEF When
    <3>2. CASE ~ (a.local # Nothing /\ a.local.path # a.path)
      <4>1. ops[6] = Idle
        BY <2>2, <3>2 DEF When
      <4>2. QED
        BY <4>1 DEF Effect, Idle
    <3>3. QED
      BY <3>1, <3>2
  <2>7. Effect(ops[7]) /\ Effect(ops[8])
    <3>1. \A c : Effect(WriteLocal(a.path, c)) /\ Effect(WriteRemote(a.path, c))
      BY <1>1 DEF Effect, WriteLocal, WriteRemote
    <3> HIDE DEF target
    <3>2. QED
      BY <2>2, <3>1
  <2>8. Effect(ops[1]) /\ Effect(ops[2]) /\ Effect(ops[3])
    BY <2>2, <2>3
  <2>9. Effect(ops[4])
    BY <2>2, <2>4
  <2>10. \A k \in 1 .. Len(ops) : k \in {1, 2, 3, 4, 5, 6, 7, 8}
    BY <2>2
  <2>11. \A k \in 1 .. Len(ops) : Effect(ops[k])
    BY <2>5, <2>6, <2>7, <2>8, <2>9, <2>10
  <2>12. QED
    BY <2>1, <2>2, <2>11
<1>9. CASE a.kind \notin {"push", "pull", "delete_local", "delete_remote", "rename_local",
                         "rename_remote", "conflict"}
  BY <1>9 DEF Effects
<1>10. QED
  BY <1>3, <1>4, <1>5, <1>6, <1>7, <1>8, <1>9

(* Wherever an action stops, what it took is recorded, or kept.             *)
LEMMA EffectsSpare ==
    ASSUME IInv, NEW a, GoodAction(a, Path), a.kind = "match" \/ (InputsHold(a) /\ RoomFor(a))
    PROVE  \A k \in 0 .. Len(Effects(a)) :
             Spared(Worlds(World, Effects(a))[k]) /\ IsWorld(Worlds(World, Effects(a))[k])
<1>1. \A k \in 0 .. Len(Effects(a)) : IsWorld(Worlds(World, Effects(a))[k])
  <2>1. Len(Effects(a)) \in Nat /\ \A k \in 1 .. Len(Effects(a)) : Effect(Effects(a)[k])
    BY EffectsAre
  <2>2. IsWorld(World)
    BY WorldIsWorld
  <2>3. QED
    BY <2>1, <2>2, WorldsKeep
<1>2. \A k \in 0 .. Len(Effects(a)) : Spared(Worlds(World, Effects(a))[k])
  <2>1. CASE a.kind = "push"
    BY <2>1, PushSpares
  <2>2. CASE a.kind = "pull"
    BY <2>2, PullSpares
  <2>3. CASE a.kind \in {"delete_local", "delete_remote"}
    BY <2>3, DeletionSpares
  <2>4. CASE a.kind \in {"rename_local", "rename_remote"}
    BY <2>4, RenameSpares
  <2>5. CASE a.kind = "conflict"
    BY <2>5, ConflictSpares
  <2>6. CASE a.kind \notin {"push", "pull", "delete_local", "delete_remote", "rename_local",
                           "rename_remote", "conflict"}
    <3>1. Effects(a) = <<>>
      BY <2>6 DEF Effects
    <3>2. Len(Effects(a)) = 0
      BY <3>1
    <3>3. Worlds(World, Effects(a))[0] = World
      BY <3>2, WorldsAt
    <3>4. \A k \in 0 .. Len(Effects(a)) : k = 0
      BY <3>2
    <3>5. QED
      BY <3>3, <3>4, WorldIsWorld
  <2>7. QED
    BY <2>1, <2>2, <2>3, <2>4, <2>5, <2>6
<1>3. QED
  BY <1>1, <1>2

-----------------------------------------------------------------------------
(* The steps.                                                               *)

(* What is selected of a sequence without repetition has none.              *)
LEMMA SelectedOnce ==
    ASSUME NEW seq \in Seq(Path), IsInjective(seq), NEW positions
    PROVE  Selected(seq, positions) \in Seq(Path) /\ IsInjective(Selected(seq, positions))
<1> DEFINE n == Len(seq)
           Once(s, k) == /\ s \in Seq(Path) /\ IsInjective(s)
                         /\ \A x \in ToSet(s) : \E j \in 1 .. k : x = seq[j]
<1>1. n \in Nat /\ DOMAIN seq = 1 .. n /\ \A k \in 1 .. n : seq[k] \in Path
  OBVIOUS
<1>2. PICK g : Selects(g, seq, positions, n) /\ Selected(seq, positions) = g[n]
  <2>1. \E g : Selects(g, seq, positions, n)
    BY <1>1, SelectsExists
  <2>2. QED
    BY <2>1 DEF Selected, Selects
<1> HIDE DEF n
<1>3. /\ g[0] = <<>>
      /\ \A k \in 1 .. n : g[k] = IF k \in positions THEN Append(g[k - 1], seq[k]) ELSE g[k - 1]
  BY <1>1, <1>2, SelectsAt
<1> DEFINE T == {k \in 0 .. n : ~ Once(g[k], k)}
<1>4. SUFFICES ASSUME T # {} PROVE FALSE
  <2> HIDE DEF Once
  <2>1. T = {} => Once(g[n], n)
    <3>1. n \in 0 .. n
      BY <1>1
    <3>2. QED
      BY <3>1
  <2>2. QED
    BY <1>2, <2>1 DEF Once
<1>5. PICK k \in 0 .. n : ~ Once(g[k], k) /\ \A j \in 0 .. n : ~ Once(g[j], j) => k <= j
  <2>1. T \subseteq Nat
    OBVIOUS
  <2> HIDE DEF Once
  <2>2. PICK k \in T : \A j \in T : k <= j
    BY <1>4, <2>1, SmallestNumber
  <2>3. QED
    BY <2>2
<1> HIDE DEF T
<1>6. CASE k = 0
  <2>1. <<>> \in Seq(Path) /\ IsInjective(<<>>) /\ ToSet(<<>>) = {}
    BY DEF IsInjective, ToSet
  <2>2. QED
    BY <1>3, <1>5, <1>6, <2>1
<1>7. CASE k # 0
  <2>1. k \in 1 .. n /\ k - 1 \in 0 .. n /\ k - 1 < k
    BY <1>1, <1>5, <1>7
  <2>2. Once(g[k - 1], k - 1)
    <3> HIDE DEF Once
    <3>1. QED
      BY <1>5, <2>1
  <2>3. CASE k \in positions
    <3>1. seq[k] \notin ToSet(g[k - 1])
      <4>1. SUFFICES ASSUME seq[k] \in ToSet(g[k - 1]) PROVE FALSE
        OBVIOUS
      <4>2. PICK j \in 1 .. k - 1 : seq[k] = seq[j]
        BY <2>2, <4>1
      <4>3. j \in 1 .. n /\ j # k
        BY <1>1, <2>1
      <4>4. QED
        BY <1>1, <2>1, <4>2, <4>3 DEF IsInjective
    <3>2. g[k] = Added(g[k - 1], seq[k])
      BY <1>3, <2>1, <2>3, <3>1 DEF Added
    <3>3. /\ g[k] \in Seq(Path) /\ IsInjective(g[k])
          /\ ToSet(g[k]) = ToSet(g[k - 1]) \cup {seq[k]}
      BY <1>1, <2>1, <2>2, <3>2, AddedOnce
    <3>4. ASSUME NEW x \in ToSet(g[k]) PROVE \E j \in 1 .. k : x = seq[j]
      <4>1. CASE x = seq[k]
        BY <2>1, <4>1
      <4>2. CASE x \in ToSet(g[k - 1])
        <5>1. PICK j \in 1 .. k - 1 : x = seq[j]
          BY <2>2, <4>2
        <5>2. j \in 1 .. k
          BY <2>1
        <5>3. QED
          BY <5>1, <5>2
      <4>3. QED
        BY <3>3, <4>1, <4>2
    <3>5. QED
      BY <1>5, <3>3, <3>4
  <2>4. CASE k \notin positions
    <3>1. g[k] = g[k - 1]
      BY <1>3, <2>1, <2>4
    <3>2. 1 .. k - 1 \subseteq 1 .. k
      BY <2>1
    <3>3. QED
      BY <1>5, <2>2, <3>1, <3>2
  <2>5. QED
    BY <2>3, <2>4
<1>8. QED
  BY <1>6, <1>7

(* What the tracker is made is a tracker.                                   *)
LEMMA SetTrackerKeeps ==
    ASSUME NEW t, IsTracker(t), SetTracker(t)
    PROVE  IsTracker(Tracker)'
BY DEF IsTracker, SetTracker, Tracker

(* What the sides are made in a world.                                      *)
LEMMA SetWorldKeeps ==
    ASSUME NEW w, IsWorld(w), SetWorld(w)
    PROVE  Sides' /\ IsTracker(Tracker)'
<1>1. SetTracker(w.tracker) /\ IsTracker(w.tracker)
  BY DEF SetWorld, IsWorld
<1>2. IsTracker(Tracker)'
  BY <1>1, SetTrackerKeeps
<1>3. Sides'
  BY DEF Sides, IsWorld, SetWorld
<1>4. QED
  BY <1>2, <1>3

(* What a change of a user leaves.                                          *)
LEMMA TouchKeeps ==
    ASSUME IInv, Touch
    PROVE  /\ Views' /\ Plans' /\ Flags' /\ edits' # edits
           /\ snap' = snap
<1>1. /\ UNCHANGED <<rows, checkpoint, snap, plan, phase, initialized, incomplete>>
      /\ edits' = edits + 1 /\ touched' = (phase # "idle")
  BY DEF Touch
<1>2. touched' \in BOOLEAN
  BY <1>1, Zenon
<1>3. Flags' /\ edits' # edits
  BY <1>1, <1>2 DEF IInv, Flags
<1>4. Views' /\ Plans'
  BY <1>1 DEF IInv, Views, Plans
<1>5. QED
  BY <1>1, <1>3, <1>4

(* The initial state.                                                       *)
LEMMA InitGood ==
    ASSUME Init
    PROVE  IInv
<1>1. N \in Nat \ {0} /\ Path = 1 .. N
  BY AddressAssumption DEF Path
<1>2. \A p \in Path : At(Nothing, p) /\ At(Entity(p, 0, p), p) /\ At(Entity(p, p, p), p)
  BY DEF At
<1>3. Placed(local, Path) /\ Placed(remote, Path)
  BY <1>2 DEF Init, Placed
<1>4. Views
  BY <1>3 DEF Init, Views
<1>5. Sides
  <2>1. \A p \in Path : local[p].id = 0
    BY DEF Init, Entity, Nothing
  <2>2. \A p \in Path : remote[p] # Nothing => remote[p].id = p /\ p # N
    BY DEF Init, Entity
  <2>3. \A p \in Path : remote[p] # Nothing => remote[p].id \in 1 .. N - 1
    BY <1>1, <2>2
  <2>4. OneOfEach(remote, Path)
    <3>1. ASSUME NEW p \in Path, NEW q \in Path, remote[p] # Nothing, remote[p].id = remote[q].id
          PROVE  p = q
      <4>1. remote[p].id = p /\ p # 0
        BY <1>1, <2>2, <3>1
      <4>2. remote[q] # Nothing
        <5>1. Nothing.id = 0
          BY DEF Nothing
        <5>2. QED
          BY <3>1, <4>1, <5>1
      <4>3. QED
        BY <2>2, <3>1, <4>1, <4>2
    <3>2. QED
      BY <3>1 DEF OneOfEach
  <2>5. fresh = N
    BY DEF Init
  <2>6. QED
    BY <1>1, <1>3, <2>1, <2>3, <2>4, <2>5 DEF Sides, WellPlaced
<1>6. Marks
  BY DEF Init, Marks, IsTracker, Tracker, NoSnapshot, IsInjective, ToSet
<1>7. Plans
  BY NoWorkGood DEF Init, Plans, NoPlan
<1>8. Flags
  BY DEF Init, Flags
<1>9. QED
  BY <1>4, <1>5, <1>6, <1>7, <1>8 DEF IInv

(* A user edits, deletes or renames a file.                                 *)
LEMMA LocalStepsKeep ==
    ASSUME IInv, NEW p \in Path, NEW q \in Path,
           LocalEdit(p) \/ LocalDelete(p) \/ LocalRename(p, q)
    PROVE  IInv' /\ edits' # edits
<1>1. Touch /\ UNCHANGED <<remote, fresh>>
  BY DEF LocalEdit, LocalDelete, LocalRename
<1>2. Views' /\ Plans' /\ Flags' /\ edits' # edits /\ snap' = snap
  BY <1>1, TouchKeeps
<1>3. IsTracker(Tracker) /\ WellPlaced(local, remote, fresh)
  BY DEF IInv, Marks, Sides
<1>4. WellPlaced(local', remote, fresh) /\ IsTracker(Tracker)'
  <2>1. CASE LocalEdit(p)
    <3>1. SetTracker(Marked(Tracker, p)) /\ local' = [local EXCEPT ![p] = Entity(p, 0, Version)]
      BY <2>1 DEF LocalEdit
    <3>2. IsTracker(Marked(Tracker, p))
      BY <1>3, MarkedKeeps
    <3>3. QED
      BY <1>3, <3>1, <3>2, SetTrackerKeeps, FilesStay
  <2>2. CASE LocalDelete(p)
    <3>1. SetTracker(Marked(Tracker, p)) /\ local' = [local EXCEPT ![p] = Nothing]
      BY <2>2 DEF LocalDelete
    <3>2. IsTracker(Marked(Tracker, p))
      BY <1>3, MarkedKeeps
    <3>3. QED
      BY <1>3, <3>1, <3>2, SetTrackerKeeps, FilesStay
  <2>3. CASE LocalRename(p, q)
    <3>1. SetTracker(MarkRenamed(Tracker, q, p)) /\ local' = MovedOn(local, p, q)
      BY <2>3 DEF LocalRename
    <3>2. IsTracker(MarkRenamed(Tracker, q, p))
      BY <1>3, MarkRenamedKeeps
    <3>3. QED
      BY <1>3, <3>1, <3>2, SetTrackerKeeps, MovesStay
  <2>4. QED
    BY <2>1, <2>2, <2>3
<1>5. Sides'
  BY <1>1, <1>4 DEF Sides
<1>6. Marks'
  BY <1>2, <1>4 DEF IInv, Marks
<1>7. QED
  BY <1>2, <1>5, <1>6 DEF IInv

(* A user edits, deletes or renames an object.                              *)
LEMMA RemoteStepsKeep ==
    ASSUME IInv, NEW p \in Path, NEW q \in Path,
           RemoteEdit(p) \/ RemoteDelete(p) \/ RemoteRename(p, q)
    PROVE  IInv' /\ edits' # edits
<1>1. Touch /\ UNCHANGED <<local, dirty, pairs, remarked>>
  BY DEF RemoteEdit, RemoteDelete, RemoteRename, tracker
<1>2. Views' /\ Plans' /\ Flags' /\ edits' # edits /\ snap' = snap
  BY <1>1, TouchKeeps
<1>3. IsTracker(Tracker) /\ WellPlaced(local, remote, fresh)
  BY DEF IInv, Marks, Sides
<1>4. WellPlaced(local, remote', fresh')
  <2>1. CASE RemoteEdit(p)
    <3>1. /\ remote' = [remote EXCEPT ![p] =
                          Entity(p, IF remote[p] = Nothing THEN fresh ELSE remote[p].id, Version)]
          /\ fresh' = IF remote[p] = Nothing THEN fresh + 1 ELSE fresh
      BY <2>1 DEF RemoteEdit
    <3>2. QED
      BY <1>3, <3>1, ObjectsStay
  <2>2. CASE RemoteDelete(p)
    <3>1. remote' = [remote EXCEPT ![p] = Nothing] /\ fresh' = fresh
      BY <2>2 DEF RemoteDelete
    <3>2. QED
      BY <1>3, <3>1, FilesStay
  <2>3. CASE RemoteRename(p, q)
    <3>1. remote' = MovedOn(remote, p, q) /\ fresh' = fresh
      BY <2>3 DEF RemoteRename
    <3>2. QED
      BY <1>3, <3>1, MovesStay
  <2>4. QED
    BY <2>1, <2>2, <2>3
<1>5. Sides'
  BY <1>1, <1>4 DEF Sides
<1>6. Marks'
  BY <1>1, <1>2, <1>3 DEF IInv, Marks, Tracker, IsTracker
<1>7. QED
  BY <1>2, <1>5, <1>6 DEF IInv

(* The snapshot is of the tracker.                                          *)
LEMMA SnapshotKeeps ==
    ASSUME IInv, Snapshot
    PROVE  IInv' /\ local' = local /\ remote' = remote
<1>1. /\ UNCHANGED <<local, remote, fresh, rows, checkpoint, dirty, pairs, plan, initialized,
                     incomplete, edits>>
      /\ phase' = "snapped" /\ touched' = FALSE /\ remarked' = {}
      /\ snap' = [dirty |-> dirty, pairs |-> pairs, initialized |-> initialized]
  BY DEF Snapshot, disk
<1>2. Sides' /\ Views' /\ Plans'
  BY <1>1 DEF IInv, Sides, Views, Plans
<1>3. Marks'
  BY <1>1 DEF IInv, Marks, IsTracker, Tracker
<1>4. Flags'
  BY <1>1 DEF IInv, Flags
<1>5. QED
  BY <1>1, <1>2, <1>3, <1>4 DEF IInv

(* What is collected and admitted is a plan of sound actions.               *)
LEMMA CollectKeeps ==
    ASSUME IInv, Collect
    PROVE  IInv' /\ local' = local /\ remote' = remote
<1>1. /\ UNCHANGED <<local, remote, fresh, rows, checkpoint, dirty, pairs, remarked, snap,
                     initialized, touched, edits>>
      /\ phase' = "run"
  BY DEF Collect, disk, tracker
<1>2. Temperature \in {"hot", "promoted", "warm", "cold"}
  BY DEF Temperature
<1>3. PICK temperature \in {Temperature} :
        \E met \in {Met(temperature)}, reports \in {Reports(temperature)},
           order \in Orders(temperature) :
          \E told \in Tellings(reports) :
            \E decisions \in {Decisions(Components(met \cup Endpoints(reports), met, reports),
                                        met, temperature, reports, Stages(order, told))} :
              Admit(decisions)
  BY DEF Collect
<1>4. PICK met \in {Met(temperature)}, reports \in {Reports(temperature)},
           order \in Orders(temperature) :
        \E told \in Tellings(reports) :
          \E decisions \in {Decisions(Components(met \cup Endpoints(reports), met, reports),
                                      met, temperature, reports, Stages(order, told))} :
            Admit(decisions)
  BY <1>3
<1>5. PICK told \in Tellings(reports) :
        Admit(Decisions(Components(met \cup Endpoints(reports), met, reports),
                        met, temperature, reports, Stages(order, told)))
  BY <1>4
<1> DEFINE decisions == Decisions(Components(met \cup Endpoints(reports), met, reports),
                                  met, temperature, reports, Stages(order, told))
<1>6. \A d \in decisions : GoodWork(Component(d))
  <2>1. Sides /\ Views /\ Marks
    BY DEF IInv
  <2>2. temperature \in {"hot", "promoted", "warm", "cold"}
    BY <1>2
  <2>3. met = Met(temperature) /\ reports = Reports(temperature)
    OBVIOUS
  <2>4. QED
    BY <2>1, <2>2, <2>3, CollectedGood
<1> HIDE DEF decisions
<1>7. plan' = Scheduled(decisions) /\ incomplete' \in BOOLEAN
  <2>1. plan' = Scheduled(decisions) /\ incomplete' = \E d \in decisions : d.decision.failed
    BY <1>5 DEF Admit, decisions
  <2>2. QED
    BY <2>1, Zenon
<1>8. Plans'
  BY <1>6, <1>7, ScheduledGood DEF Plans
<1>9. Sides' /\ Views'
  BY <1>1 DEF IInv, Sides, Views
<1>10. Marks'
  BY <1>1 DEF IInv, Marks, Tracker
<1>11. Flags'
  BY <1>1, <1>7 DEF IInv, Flags
<1>12. QED
  BY <1>1, <1>8, <1>9, <1>10, <1>11 DEF IInv

(* The next action is sound, and so is what is left after it.               *)
LEMMA NextGood ==
    ASSUME NEW work, GoodWork(work), work.actions # <<>>
    PROVE  Fits(work, Head(work.actions)) /\ GoodWork(AfterHead(work))
<1>1. PICK S : work.actions \in Seq(S) /\ \A a \in S : Fits(work, a)
  BY DEF GoodWork
<1>2. Head(work.actions) \in S /\ Tail(work.actions) \in Seq(S)
  BY <1>1, HeadTailProperties
<1> DEFINE left == AfterHead(work)
<1>3. /\ DOMAIN left = DOMAIN work /\ left.pooled = work.pooled
      /\ left.actions = Tail(work.actions)
  BY DEF GoodWork, AfterHead
<1> HIDE DEF left
<1>4. GoodWork(left)
  <2>1. {"pooled", "actions"} \subseteq DOMAIN left
    BY <1>3 DEF GoodWork
  <2>2. QED
    BY <1>1, <1>2, <1>3, <2>1 DEF GoodWork, Fits
<1>5. QED
  BY <1>1, <1>2, <1>4 DEF left

(* The plan that is left.                                                   *)
LEMMA DropsKeep ==
    ASSUME Plans, NEW p \in Path, plan[p].actions # <<>>, DropComponent(p) \/ DropAction(p)
    PROVE  Plans'
<1>1. PICK work : plan' = [plan EXCEPT ![p] = work] /\ GoodWork(work)
  <2>1. CASE DropComponent(p)
    BY <2>1, NoWorkGood DEF DropComponent
  <2>2. CASE DropAction(p)
    <3> DEFINE left == AfterHead(plan[p])
               work == IF Len(plan[p].actions) = 1 THEN NoWork ELSE left
    <3>1. plan' = [plan EXCEPT ![p] = work]
      BY <2>2 DEF DropAction
    <3>2. GoodWork(plan[p])
      BY DEF Plans
    <3>3. GoodWork(left)
      BY <3>2, NextGood
    <3> HIDE DEF left
    <3>4. GoodWork(work)
      BY <3>3, NoWorkGood
    <3>5. QED
      BY <3>1, <3>4
  <2>3. QED
    BY <2>1, <2>2
<1>2. DOMAIN plan' = Path
  BY <1>1 DEF Plans
<1>3. ASSUME NEW q \in Path PROVE GoodWork(plan'[q])
  <2>1. CASE q = p
    BY <1>1, <2>1 DEF Plans
  <2>2. CASE q # p
    <3>1. plan'[q] = plan[q]
      BY <1>1, <2>2 DEF Plans
    <3>2. QED
      BY <3>1 DEF Plans
  <2>3. QED
    BY <2>1, <2>2
<1>4. QED
  BY <1>2, <1>3 DEF Plans

\* What a step of the engine may take from the sides.
EngineSpares ==
    /\ \A c \in Contents(local) \ Contents(local)' : Recorded(c) \/ c \in copies'
    /\ \A c \in Contents(remote) \ Contents(remote)' : Recorded(c) \/ c \in copies'

(* A step that ends in a world spares what that world spares.               *)
LEMMA SparedStep ==
    ASSUME NEW w, Spared(w), SetWorld(w)
    PROVE  EngineSpares
<1>1. local' = w.local /\ remote' = w.remote /\ copies' = w.copies
  BY DEF SetWorld
<1>2. Contents(local)' = Contents(w.local) /\ Contents(remote)' = Contents(w.remote)
  BY <1>1 DEF Contents
<1>3. QED
  BY <1>1, <1>2 DEF Spared, Kept, EngineSpares

(* A step that leaves the sides spares them.                                *)
LEMMA IdleStep ==
    ASSUME local' = local, remote' = remote
    PROVE  EngineSpares
<1>1. Contents(local)' = Contents(local) /\ Contents(remote)' = Contents(remote)
  BY DEF Contents
<1>2. QED
  BY <1>1 DEF EngineSpares

(* What the action whose turn it is promises.                               *)
LEMMA TurnGood ==
    ASSUME IInv, NEW p \in Path, Turn(p)
    PROVE  /\ plan[p].actions # <<>> /\ GoodAction(NextAction(p), Path)
           /\ Observes(p) => /\ NextAction(p).kind = "match"
                             /\ NextAction(p).remote.path \in {0, NextAction(p).path}
<1>1. plan[p].actions # <<>> /\ GoodWork(plan[p])
  BY DEF IInv, Plans, Turn
<1>2. Fits(plan[p], NextAction(p))
  BY <1>1, NextGood DEF NextAction
<1>3. QED
  BY <1>1, <1>2 DEF Fits, Observes

(* What a publication leaves is a record where it stands, or none.          *)
LEMMA PublishKeeps ==
    ASSUME Placed(rows, Path), NEW a, NEW entity, At(entity, a.path)
    PROVE  Placed(Publish(a, entity), Path)
<1> DEFINE published == Publish(a, entity)
<1>1. DOMAIN published = Path
  BY DEF Publish
<1>2. ASSUME NEW p \in Path PROVE At(published[p], p)
  <2>1. At(Nothing, p) /\ At(rows[p], p)
    BY DEF At, Placed
  <2>2. published[p] = Nothing \/ (published[p] = entity /\ p = a.path) \/ published[p] = rows[p]
    BY DEF Publish
  <2>3. QED
    BY <2>1, <2>2
<1> HIDE DEF published
<1>3. QED
  BY <1>1, <1>2 DEF Placed, published

(* What finishing an action makes of the records and the plan.              *)
LEMMA FinishKeeps ==
    ASSUME IInv, NEW p \in Path, Turn(p), NEW w, IsWorld(w),
           Finish(p, NextAction(p), w, Observes(p)), checkpoint' = checkpoint
    PROVE  Views' /\ Plans' /\ incomplete' \in BOOLEAN
<1> DEFINE a == NextAction(p)
           entity == IF Observes(p) THEN a.remote ELSE w.remote[a.path]
<1>1. /\ plan[p].actions # <<>> /\ GoodAction(a, Path)
      /\ Observes(p) => a.remote.path \in {0, a.path}
  BY TurnGood
<1> HIDE DEF a
<1>2. At(entity, a.path)
  <2>1. CASE Observes(p)
    <3>1. IsEntity(a.remote, Path)
      BY <1>1 DEF GoodAction
    <3>2. At(a.remote, a.remote.path) /\ (a.remote.path = 0 => a.remote = Nothing)
      BY <3>1, EntityPath
    <3>3. QED
      BY <1>1, <2>1, <3>2 DEF At
  <2>2. CASE ~ Observes(p)
    BY <1>1, <2>2 DEF IsWorld, WellPlaced, Placed, GoodAction
  <2>3. QED
    BY <2>1, <2>2
<1> HIDE DEF entity
<1>3. \/ rows' = Publish(a, entity) /\ DropAction(p) /\ UNCHANGED incomplete
      \/ rows' = rows /\ DropComponent(p) /\ incomplete' = TRUE
  BY DEF Finish, a, entity
<1>4. Placed(rows, Path) /\ Placed(checkpoint, Path) /\ Plans /\ incomplete \in BOOLEAN
  BY DEF IInv, Views, Flags
<1>5. Plans'
  BY <1>1, <1>3, <1>4, DropsKeep
<1>6. Views'
  <2>1. Placed(rows', Path)
    BY <1>2, <1>3, <1>4, PublishKeeps
  <2>2. QED
    BY <1>4, <2>1 DEF Views
<1>7. incomplete' \in BOOLEAN
  BY <1>3, <1>4
<1>8. QED
  BY <1>5, <1>6, <1>7

(* An action is executed, blocked, or fails.                                *)
LEMMA ExecuteKeeps ==
    ASSUME IInv, NEW p \in Path, Execute(p)
    PROVE  IInv' /\ EngineSpares
<1> DEFINE a == NextAction(p)
           ops == Effects(a)
           w == Worlds(World, ops)[Len(ops)]
<1>1. /\ Turn(p) /\ Executable(a, Observes(p))
      /\ SetWorld(w) /\ Finish(p, a, w, Observes(p))
      /\ UNCHANGED <<checkpoint, initialized, phase, snap, touched, edits>>
  BY DEF Execute
<1>2. GoodAction(a, Path) /\ (Observes(p) => a.kind = "match")
  BY <1>1, TurnGood
<1>3. a.kind = "match" \/ (InputsHold(a) /\ RoomFor(a))
  BY <1>1, <1>2 DEF Executable
<1>4. IsWorld(w) /\ Spared(w)
  <2> HIDE DEF a
  <2>1. Len(ops) \in Nat
    BY <1>2, <1>3, EffectsAre
  <2>2. Len(ops) \in 0 .. Len(ops)
    BY <2>1
  <2>3. QED
    BY <1>2, <1>3, <2>2, EffectsSpare
<1> HIDE DEF w
<1>5. Sides' /\ IsTracker(Tracker)'
  BY <1>1, <1>4, SetWorldKeeps
<1>6. Views' /\ Plans' /\ incomplete' \in BOOLEAN
  BY <1>1, <1>4, FinishKeeps
<1>7. EngineSpares
  BY <1>1, <1>4, SparedStep
<1>8. Marks'
  BY <1>1, <1>5 DEF IInv, Marks
<1>9. Flags'
  BY <1>1, <1>6 DEF IInv, Flags
<1>10. QED
  BY <1>5, <1>6, <1>7, <1>8, <1>9 DEF IInv

(* The same of a component that is dropped before its action ran.           *)
LEMMA BlockKeeps ==
    ASSUME IInv, NEW p \in Path, Block(p)
    PROVE  IInv' /\ EngineSpares
<1>1. /\ Turn(p) /\ DropComponent(p) /\ incomplete' = TRUE
      /\ UNCHANGED <<local, remote, fresh, rows, checkpoint, dirty, pairs, remarked,
                     initialized, phase, snap, touched, edits>>
  BY DEF Block, disk, tracker
<1>2. Plans'
  <2>1. Plans /\ plan[p].actions # <<>>
    BY <1>1 DEF IInv, Turn
  <2>2. QED
    BY <1>1, <2>1, DropsKeep
<1>3. EngineSpares
  BY <1>1, IdleStep
<1>4. Sides' /\ Views'
  BY <1>1 DEF IInv, Sides, Views
<1>5. Marks'
  BY <1>1 DEF IInv, Marks, Tracker
<1>6. Flags'
  BY <1>1 DEF IInv, Flags
<1>7. QED
  BY <1>2, <1>3, <1>4, <1>5, <1>6 DEF IInv

(* The same of an action that stops after some of its effects.              *)
LEMMA FailKeeps ==
    ASSUME IInv, NEW p \in Path, Fail(p)
    PROVE  IInv' /\ EngineSpares
<1> DEFINE a == NextAction(p)
           ops == Effects(a)
<1>1. /\ Turn(p) /\ Executable(a, Observes(p))
      /\ \E k \in 0 .. Len(ops) : SetWorld(Worlds(World, ops)[k])
      /\ DropComponent(p) /\ incomplete' = TRUE
      /\ UNCHANGED <<rows, checkpoint, initialized, phase, snap, touched, edits>>
  BY DEF Fail
<1>2. GoodAction(a, Path) /\ (Observes(p) => a.kind = "match")
  BY <1>1, TurnGood
<1>3. a.kind = "match" \/ (InputsHold(a) /\ RoomFor(a))
  BY <1>1, <1>2 DEF Executable
<1>4. PICK k \in 0 .. Len(ops) : SetWorld(Worlds(World, ops)[k])
  BY <1>1
<1> DEFINE w == Worlds(World, ops)[k]
<1>5. IsWorld(w) /\ Spared(w)
  <2> HIDE DEF a
  <2>1. QED
    BY <1>2, <1>3, EffectsSpare
<1>6. SetWorld(w)
  BY <1>4
<1> HIDE DEF w
<1>7. Sides' /\ IsTracker(Tracker)'
  BY <1>5, <1>6, SetWorldKeeps
<1>8. EngineSpares
  BY <1>5, <1>6, SparedStep
<1>9. Plans'
  <2>1. Plans /\ plan[p].actions # <<>>
    BY <1>1 DEF IInv, Turn
  <2>2. QED
    BY <1>1, <2>1, DropsKeep
<1>10. Marks'
  BY <1>1, <1>7 DEF IInv, Marks
<1>11. Flags'
  BY <1>1 DEF IInv, Flags
<1>12. Views'
  BY <1>1 DEF IInv, Views
<1>13. QED
  BY <1>7, <1>8, <1>9, <1>10, <1>11, <1>12 DEF IInv

(* A cycle ends.                                                            *)
LEMMA CloseKeeps ==
    ASSUME IInv, Close
    PROVE  IInv' /\ EngineSpares
<1>1. /\ UNCHANGED <<local, remote, fresh, rows, plan, edits>>
      /\ phase' = "idle" /\ snap' = NoSnapshot /\ incomplete' = FALSE
      /\ remarked' = {} /\ touched' = FALSE
  BY DEF Close
<1>2. checkpoint' \in {checkpoint, remote} /\ pairs' \subseteq pairs
      /\ initialized' \in {initialized, TRUE}
      /\ dirty' \in {dirty, Without(dirty, Dirty \ remarked)}
  BY DEF Close, Acknowledge, AcknowledgeRelations
<1>3. dirty \in Seq(Path) /\ IsInjective(dirty) /\ pairs \subseteq Pair
  BY DEF IInv, Marks, IsTracker, Tracker
<1>4. dirty' \in Seq(Path) /\ IsInjective(dirty')
  <2>1. Without(dirty, Dirty \ remarked) \in Seq(Path)
    BY <1>3, SelectedOnce DEF Without
  <2>2. IsInjective(Without(dirty, Dirty \ remarked))
    BY <1>3, SelectedOnce DEF Without
  <2>3. QED
    BY <1>2, <1>3, <2>1, <2>2
<1>5. Marks'
  BY <1>1, <1>2, <1>3, <1>4 DEF Marks, IsTracker, Tracker, NoSnapshot
<1>6. Sides' /\ Plans'
  BY <1>1 DEF IInv, Sides, Plans
<1>7. Views'
  BY <1>1, <1>2 DEF IInv, Views, Sides, WellPlaced
<1>8. Flags'
  BY <1>1, <1>2 DEF IInv, Flags
<1>9. EngineSpares
  BY <1>1, IdleStep
<1>10. QED
  BY <1>5, <1>6, <1>7, <1>8, <1>9 DEF IInv

(* The process ends.                                                        *)
LEMMA CrashKeeps ==
    ASSUME IInv, Crash
    PROVE  IInv' /\ EngineSpares
<1>1. /\ UNCHANGED <<local, remote, fresh, rows, checkpoint, edits>>
      /\ dirty' = <<>> /\ pairs' = {} /\ remarked' = {} /\ initialized' = FALSE
      /\ phase' = "idle" /\ snap' = NoSnapshot /\ plan' = NoPlan /\ incomplete' = FALSE
      /\ touched' = FALSE
  BY DEF Crash
<1>2. Marks'
  BY <1>1 DEF Marks, IsTracker, Tracker, NoSnapshot, IsInjective, ToSet
<1>3. Plans'
  BY <1>1, NoWorkGood DEF Plans, NoPlan
<1>4. Sides' /\ Views'
  BY <1>1 DEF IInv, Sides, Views
<1>5. Flags'
  BY <1>1 DEF IInv, Flags
<1>6. EngineSpares
  BY <1>1, IdleStep
<1>7. QED
  BY <1>2, <1>3, <1>4, <1>5, <1>6 DEF IInv

(* Every step keeps the invariant, and one that is no user's spares what is *)
(* recorded nowhere.                                                        *)
LEMMA StepKeeps ==
    ASSUME IInv, [Next]_vars
    PROVE  IInv' /\ (edits' = edits => EngineSpares)
<1>1. CASE \E p, q \in Path : LocalEdit(p) \/ LocalDelete(p) \/ LocalRename(p, q)
  BY <1>1, LocalStepsKeep
<1>2. CASE \E p, q \in Path : RemoteEdit(p) \/ RemoteDelete(p) \/ RemoteRename(p, q)
  BY <1>2, RemoteStepsKeep
<1>3. CASE \E p \in Path : Execute(p)
  BY <1>3, ExecuteKeeps
<1>4. CASE \E p \in Path : Block(p)
  BY <1>4, BlockKeeps
<1>5. CASE \E p \in Path : Fail(p)
  BY <1>5, FailKeeps
<1>6. CASE Snapshot
  BY <1>6, SnapshotKeeps, IdleStep
<1>7. CASE Collect
  BY <1>7, CollectKeeps, IdleStep
<1>8. CASE Close
  BY <1>8, CloseKeeps
<1>9. CASE Crash
  BY <1>9, CrashKeeps
<1>10. CASE UNCHANGED vars
  <2>1. /\ UNCHANGED <<local, remote, fresh, rows, checkpoint, dirty, pairs, remarked, plan,
                       initialized, incomplete, touched, snap, phase, edits>>
    BY <1>10 DEF vars
  <2>2. Sides' /\ Views' /\ Plans'
    BY <2>1 DEF IInv, Sides, Views, Plans
  <2>3. Marks'
    BY <2>1 DEF IInv, Marks, Tracker
  <2>4. Flags'
    BY <2>1 DEF IInv, Flags
  <2>5. EngineSpares
    BY <2>1, IdleStep
  <2>6. QED
    BY <2>2, <2>3, <2>4, <2>5 DEF IInv
<1>11. QED
  BY <1>1, <1>2, <1>3, <1>4, <1>5, <1>6, <1>7, <1>8, <1>9, <1>10 DEF Next

-----------------------------------------------------------------------------
(* The results.                                                             *)

(* The invariant holds in every reachable state.                            *)
LEMMA Invariant == Spec => []IInv
<1>1. Init => IInv
  BY InitGood
<1>2. IInv /\ [Next]_vars => IInv'
  BY StepKeeps
<1>3. QED
  BY <1>1, <1>2, PTL DEF Spec

(* The variables keep their types: what stands at an address of the vault,  *)
(* the remote, the records or the checkpoint is of that address, and the    *)
(* tracker remembers an address once and remarks only what it remembers.    *)
THEOREM RenameCycleTypes == Spec => []TypeOK
<1>1. IInv => TypeOK
  <2>1. SUFFICES ASSUME IInv PROVE TypeOK
    OBVIOUS
  <2>2. ASSUME NEW side, Placed(side, Path), NEW p \in Path
        PROVE  side[p] = Nothing \/ side[p].path = p
    BY <2>2, PlacedEntity
  <2>3. /\ Placed(local, Path) /\ Placed(remote, Path)
        /\ Placed(rows, Path) /\ Placed(checkpoint, Path)
    BY <2>1 DEF IInv, Sides, Views, WellPlaced
  <2>4. \A side \in {local, remote, rows, checkpoint} :
          \A p \in Path : side[p] = Nothing \/ side[p].path = p
    BY <2>2, <2>3
  <2>5. \A p \in Path : local[p].id = 0
    BY <2>1 DEF IInv, Sides, WellPlaced
  <2>6. /\ dirty \in Seq(Path) /\ IsInjective(dirty)
        /\ remarked \subseteq ToSet(dirty) /\ pairs \subseteq Pair
    BY <2>1 DEF IInv, Marks, IsTracker, Tracker
  <2>7. ToSet(dirty) \subseteq Path
    BY <2>6 DEF ToSet
  <2>8. /\ phase \in {"idle", "snapped", "run"}
        /\ {initialized, incomplete, touched} \subseteq BOOLEAN
    BY <2>1 DEF IInv, Flags
  <2>9. QED
    BY <2>4, <2>5, <2>6, <2>7, <2>8 DEF TypeOK
<1>2. QED
  BY <1>1, Invariant, PTL

(* Two addresses of the remote never show one object, whatever users and    *)
(* engine rename, replace, delete and write again, and wherever a call      *)
(* fails: what the decision takes a record's object for is that object.     *)
THEOREM ObjectsStayApart == Spec => []OneOfEach(remote, Path)
<1>1. IInv => OneOfEach(remote, Path)
  BY DEF IInv, Sides, WellPlaced
<1>2. QED
  BY <1>1, Invariant, PTL

(* Whatever the engine does to a side, in whatever state it finds it and    *)
(* wherever a call fails, it takes no version from that side but one a      *)
(* record states, or one it has kept under a conflict name before.          *)
THEOREM EngineTakesTheRecorded == Spec => EngineKeepsUnsynced
<1>1. IInv /\ [Next]_vars =>
        [edits' = edits =>
           /\ \A c \in Contents(local) \ Contents(local)' : Recorded(c) \/ c \in copies'
           /\ \A c \in Contents(remote) \ Contents(remote)' : Recorded(c) \/ c \in copies']_vars
  BY StepKeeps DEF EngineSpares
<1>2. QED
  BY <1>1, Invariant, PTL DEF Spec, EngineKeepsUnsynced
====

----------------------- MODULE SyncStateStore_proofs -----------------------
(***************************************************************************)
(* Proofs about SyncStateStore for every set of identities, paths, hashes  *)
(* and clients and for folder mappings of every length.                    *)
(*                                                                         *)
(* The inductive invariant says of the transaction under way that the      *)
(* members already published are stored, that those still to publish find  *)
(* what the comparison found, and that the image satisfies what the stores *)
(* satisfy.                                                                *)
(***************************************************************************)
EXTENDS SyncStateStore, TLAPS

Pending(db, item) == PutMatches(db, item.source, item.terminal, item.destination)

\* Two members of one transaction that cannot get in each other's way.
Compatible(a, b) ==
  /\ a.source # None /\ a.source.id = a.terminal.id
  /\ b.source # None /\ b.source.id = b.terminal.id
  /\ a.terminal.id # b.terminal.id
  /\ a.terminal.path # b.terminal.path
  /\ a.terminal.path # b.source.path
  /\ b.terminal.path # a.source.path

HeldOK ==
  \A c \in Client :
    /\ held[c].op = "relocate" =>
         \A k \in DOMAIN held[c].items :
           /\ held[c].items[k].source # None
           /\ held[c].items[k].source.id = held[c].items[k].terminal.id
    /\ held[c].op = "verified" =>
         /\ held[c].record.hash # NoHash
         /\ held[c].content = held[c].record.hash

TxOwned ==
  /\ held[tx.by].op \in {"expect", "relocate"}
  /\ \A k \in DOMAIN tx.items :
       {tx.items[k].source, tx.items[k].destination} \subseteq Captured(held[tx.by])

TxCompatible ==
  \A j, k \in DOMAIN tx.items : j # k => Compatible(tx.items[j], tx.items[k])

TxProgress ==
  \A k \in DOMAIN tx.items :
    IF k < tx.next THEN Stored(tx.rows, tx.items[k].terminal)
                   ELSE Pending(tx.rows, tx.items[k])

TxWrites ==
  \A i \in Identity :
    tx.rows[i] # rows[i] => rows[i] \in Captured(held[tx.by]) \cup {None}

TxOK ==
  tx # None =>
    /\ PathsUnique(tx.rows)
    /\ BasesBound(tx.rows, tx.bases)
    /\ TxOwned
    /\ TxCompatible
    /\ TxProgress
    /\ TxWrites

IInv ==
  /\ TypeOK
  /\ PathsUnique(rows)
  /\ BasesBound(rows, bases)
  /\ HeldOK
  /\ TxOK

-----------------------------------------------------------------------------
(* What publishRecord does to an image that passed the comparison.         *)

LEMMA PublishTyped ==
  ASSUME NEW db \in [Identity -> Row], NEW content \in [Identity -> Base],
         NEW item \in Relocation
  PROVE  /\ PublishRows(db, item) \in [Identity -> Row]
         /\ PublishBases(content, item) \in [Identity -> Base]
BY DEF PublishRows, PublishBases, Row, Base, Relocation

LEMMA PublishStores ==
  ASSUME NEW db, NEW item \in Relocation
  PROVE  Stored(PublishRows(db, item), item.terminal)
BY DEF PublishRows, Stored, Relocation, SyncRecord

LEMMA PublishUnique ==
  ASSUME NEW db \in [Identity -> Row], NEW item \in Relocation,
         PathsUnique(db), Pending(db, item)
  PROVE  PathsUnique(PublishRows(db, item))
<1> DEFINE r == item.terminal
           new == PublishRows(db, item)
<1>1. r \in SyncRecord /\ r # None /\ item.destination \in Row
  BY NoneAssumption DEF Relocation
<1>2. ASSUME NEW i \in Identity, i # r.id, new[i] # None, new[i].path = r.path
      PROVE  FALSE
  <2>1. i \notin Ended(item) /\ db[i] # None /\ db[i].path = r.path
    BY <1>2 DEF PublishRows
  <2>2. item.destination # None
    BY <2>1 DEF Pending, PutMatches, Occupies
  <2>3. /\ db[item.destination.id] = item.destination
        /\ item.destination.path = r.path
        /\ item.destination.id \in Identity
    BY <2>2, <1>1 DEF Pending, PutMatches, Occupies, Stored, Row, SyncRecord
  <2>4. i = item.destination.id
    BY <2>1, <2>2, <2>3 DEF PathsUnique
  <2> QED BY <2>1, <2>2, <2>4, <1>2 DEF Ended
<1>3. new[r.id] = r
  BY PublishStores DEF Stored
<1>4. ASSUME NEW i \in Identity, NEW j \in Identity,
             i # r.id, j # r.id, new[i] # None, new[j] # None,
             new[i].path = new[j].path
      PROVE  i = j
  <2>1. new[i] = db[i] /\ new[j] = db[j]
    BY <1>4 DEF PublishRows
  <2> QED BY <2>1, <1>4 DEF PathsUnique
<1> QED BY <1>2, <1>3, <1>4 DEF PathsUnique

LEMMA PublishBound ==
  ASSUME NEW db \in [Identity -> Row], NEW content \in [Identity -> Base],
         NEW item \in Relocation,
         BasesBound(db, content), Pending(db, item)
  PROVE  BasesBound(PublishRows(db, item), PublishBases(content, item))
<1> DEFINE r == item.terminal
           new == PublishRows(db, item)
           base == PublishBases(content, item)
<1> SUFFICES ASSUME NEW i \in Identity, base[i] # None
             PROVE  new[i] # None /\ new[i].hash = base[i]
  BY DEF BasesBound
<1>1. i \notin Ended(item) /\ base[i] = content[i]
  BY DEF PublishBases
<1>2. db[i] # None /\ db[i].hash = content[i]
  BY <1>1 DEF BasesBound
<1>3. CASE i = r.id
  <2>1. ~InvalidatesMergeBase(item.source, r)
    BY <1>3 DEF PublishBases
  <2>2. /\ item.source # None /\ item.source.hash = r.hash
        /\ db[r.id] = item.source
    BY <2>1, <1>3 DEF InvalidatesMergeBase, Pending, PutMatches
  <2>3. new[i] = r /\ r # None
    BY <1>3, PublishStores, NoneAssumption DEF Stored, Relocation
  <2> QED BY <1>1, <1>2, <1>3, <2>2, <2>3
<1>4. CASE i # r.id
  <2>1. new[i] = db[i]
    BY <1>1, <1>4 DEF PublishRows
  <2> QED BY <1>1, <1>2, <2>1
<1> QED BY <1>3, <1>4

LEMMA PublishPeer ==
  ASSUME NEW db \in [Identity -> Row],
         NEW a \in Relocation, NEW b \in Relocation,
         PathsUnique(db), Pending(db, a), Compatible(a, b)
  PROVE  /\ Stored(db, b.terminal) => Stored(PublishRows(db, a), b.terminal)
         /\ Pending(db, b) => Pending(PublishRows(db, a), b)
<1> DEFINE new == PublishRows(db, a)
<1>1. /\ a.terminal \in SyncRecord /\ b.terminal \in SyncRecord
      /\ a.destination \in Row /\ b.destination \in Row /\ b.source \in SyncRecord
      /\ b.terminal.id \in Identity /\ a.terminal.id \in Identity
      /\ b.source # None /\ a.terminal # None /\ b.terminal # None
  BY NoneAssumption DEF Relocation, Compatible, Row, SyncRecord
<1>2. a.destination # None =>
        /\ db[a.destination.id] = a.destination
        /\ a.destination.path = a.terminal.path
  BY DEF Pending, PutMatches, Occupies, Stored
<1>3. Ended(a) \subseteq {a.destination.id} /\ (Ended(a) # {} => a.destination # None)
  BY DEF Ended, Compatible
<1>4. ASSUME NEW x \in SyncRecord, Stored(db, x), x.path # a.terminal.path,
             x.id # a.terminal.id
      PROVE  Stored(new, x)
  BY <1>2, <1>3, <1>4 DEF Stored, PublishRows, SyncRecord
<1>5. Stored(db, b.terminal) => Stored(new, b.terminal)
  BY <1>1, <1>4 DEF Compatible
<1>6. ASSUME Pending(db, b)
      PROVE  Pending(new, b)
  <2>1. Stored(db, b.source) /\ Occupies(db, b.terminal.path, b.destination)
    BY <1>6 DEF Pending, PutMatches, Compatible, Stored
  <2>2. Stored(new, b.source)
    BY <1>1, <1>4, <2>1 DEF Compatible
  <2>3. Occupies(new, b.terminal.path, b.destination)
    <3>1. CASE b.destination = None
      <4> SUFFICES ASSUME NEW i \in Identity, new[i] # None
                   PROVE  new[i].path # b.terminal.path
        BY <3>1 DEF Occupies
      <4>1. CASE i = a.terminal.id
        BY <4>1, <1>1 DEF PublishRows, Compatible
      <4>2. CASE i # a.terminal.id
        <5>1. new[i] = db[i]
          BY <4>2 DEF PublishRows
        <5> QED BY <5>1, <2>1, <3>1 DEF Occupies
      <4> QED BY <4>1, <4>2
    <3>2. CASE b.destination # None
      <4>1. /\ Stored(db, b.destination) /\ b.destination.path = b.terminal.path
            /\ b.destination \in SyncRecord
        BY <3>2, <2>1, <1>1 DEF Occupies, Row
      <4>2. b.destination.id # a.terminal.id
        <5>1. db[a.terminal.id] = a.source
          BY DEF Pending, PutMatches, Compatible
        <5> QED BY <5>1, <4>1 DEF Stored, Compatible
      <4> QED BY <4>1, <4>2, <1>4, <3>2 DEF Occupies, Compatible
    <3> QED BY <3>1, <3>2
  <2> QED BY <2>2, <2>3, <1>1 DEF Pending, PutMatches, Stored, Compatible
<1> QED BY <1>5, <1>6

-----------------------------------------------------------------------------
(* The actions, one by one.                                                *)

LEMMA InitIInv == Init => IInv
BY DEF Init, IInv, TypeOK, HeldOK, TxOK, PathsUnique, BasesBound, Capture, Idle,
       Row, Base

\* Only `held` changes, and not at the client of a transaction under way.
LEMMA HeldStep ==
  ASSUME IInv, NEW c \in Client, NEW h \in Capture,
         held' = [held EXCEPT ![c] = h], UNCHANGED <<rows, bases, tx>>,
         tx # None => tx.by # c,
         h.op = "relocate" =>
           \A k \in DOMAIN h.items : /\ h.items[k].source # None
                                     /\ h.items[k].source.id = h.items[k].terminal.id,
         h.op = "verified" => h.record.hash # NoHash /\ h.content = h.record.hash
  PROVE  IInv'
<1>1. TypeOK'
  BY DEF IInv, TypeOK
<1>2. HeldOK'
  BY DEF IInv, TypeOK, HeldOK
<1>3. TxOK'
  <2> SUFFICES ASSUME tx # None
               PROVE  TxOwned' /\ TxWrites'
    BY DEF IInv, TxOK, TxCompatible, TxProgress
  <2>1. held'[tx.by] = held[tx.by]
    BY DEF IInv, TypeOK, Transaction
  <2>2. Captured(held'[tx.by]) = Captured(held[tx.by])
    BY <2>1
  <2> QED BY <2>1, <2>2 DEF IInv, TxOK, TxOwned, TxWrites
<1> QED BY <1>1, <1>2, <1>3 DEF IInv

LEMMA CaptureExpectationStep ==
  ASSUME IInv, NEW c \in Client, CaptureExpectation(c)
  PROVE  IInv'
<1>1. Known \subseteq Row
  BY DEF IInv, TypeOK, Known, Row
<1>2. PICK row \in Known, occupant \in Known :
        held' = [held EXCEPT ![c] =
                  [op |-> "expect", row |-> row, occupant |-> occupant]]
  BY DEF CaptureExpectation
<1>3. [op |-> "expect", row |-> row, occupant |-> occupant] \in Capture
  BY <1>1, <1>2 DEF Capture
<1> QED BY <1>2, <1>3, HeldStep DEF CaptureExpectation

LEMMA CaptureRelocationsStep ==
  ASSUME IInv, NEW c \in Client, CaptureRelocations(c)
  PROVE  IInv'
<1>1. Known \subseteq Row
  BY DEF IInv, TypeOK, Known, Row
<1>2. PICK n \in 1..MaxRelocations :
        \E ids \in [1..n -> {i \in Identity : rows[i] # None}],
           paths \in [1..n -> Path], dests \in [1..n -> Known] :
          held' = [held EXCEPT ![c] =
            [op |-> "relocate", items |-> Mapping(n, ids, paths, dests)]]
  BY DEF CaptureRelocations
<1>3. PICK ids \in [1..n -> {i \in Identity : rows[i] # None}],
           paths \in [1..n -> Path], dests \in [1..n -> Known] :
          held' = [held EXCEPT ![c] =
            [op |-> "relocate", items |-> Mapping(n, ids, paths, dests)]]
  BY <1>2
<1> DEFINE items == Mapping(n, ids, paths, dests)
<1>4. n \in Nat \ {0} /\ DOMAIN items = 1..n
  BY <1>2, MaxRelocationsAssumption DEF Mapping
<1>5. ASSUME NEW k \in 1..n
      PROVE  /\ items[k] \in Relocation
             /\ items[k].source # None
             /\ items[k].source.id = items[k].terminal.id
  <2>1. rows[ids[k]] \in SyncRecord
    BY <1>3 DEF IInv, TypeOK, Row
  <2>2. [rows[ids[k]] EXCEPT !.path = paths[k]] \in SyncRecord
    BY <2>1, <1>3 DEF SyncRecord
  <2>3. PICK t \in SyncRecord : /\ t = [rows[ids[k]] EXCEPT !.path = paths[k]]
                                /\ t.id = rows[ids[k]].id
    BY <2>1, <2>2 DEF SyncRecord
  <2>4. items[k] = [source |-> rows[ids[k]], destination |-> dests[k], terminal |-> t]
    BY <2>3 DEF Mapping
  <2>5. dests[k] \in Row /\ rows[ids[k]] \in Row /\ rows[ids[k]] # None
    BY <2>1, <1>1, NoneAssumption DEF Row
  <2>6. [source |-> rows[ids[k]], destination |-> dests[k], terminal |-> t]
          \in Relocation
    BY <2>5 DEF Relocation
  <2>7. t.id = rows[ids[k]].id
    BY <2>3
  <2> HIDE DEF items
  <2> QED BY <2>4, <2>5, <2>6, <2>7
<1> HIDE DEF items
<1>6. items \in Relocations
  <2>1. items \in [1..n -> Relocation]
    BY <1>5 DEF items, Mapping
  <2>2. items \in Seq(Relocation)
    BY <2>1, <1>4
  <2>3. items # <<>>
    BY <1>4
  <2> QED BY <2>2, <2>3 DEF Relocations
<1>7. [op |-> "relocate", items |-> items] \in Capture
  BY <1>6 DEF Capture
<1>8. held' = [held EXCEPT ![c] = [op |-> "relocate", items |-> items]]
  BY <1>3 DEF items
<1> QED BY <1>4, <1>5, <1>7, <1>8, HeldStep DEF CaptureRelocations

\* A transaction begins on the stores as they are, once every member has
\* passed the comparison.
LEMMA BeginStep ==
  ASSUME IInv, tx = None, NEW c \in Client, NEW items \in Relocations,
         Begin(c, items),
         held[c].op \in {"expect", "relocate"},
         \A k \in DOMAIN items :
           /\ {items[k].source, items[k].destination} \subseteq Captured(held[c])
           /\ Pending(rows, items[k]),
         \A j, k \in DOMAIN items : j # k => Compatible(items[j], items[k])
  PROVE  IInv'
<1> DEFINE t == [by |-> c, items |-> items, next |-> 1, rows |-> rows, bases |-> bases]
<1>1. tx' = t /\ UNCHANGED <<rows, bases, held>>
  BY DEF Begin
<1>2. t \in Transaction
  BY DEF Transaction, IInv, TypeOK
<1>3. /\ t.by = c /\ t.items = items /\ t.next = 1 /\ t.rows = rows /\ t.bases = bases
  OBVIOUS
<1>4. DOMAIN items \subseteq Nat \ {0}
  BY DEF Relocations
<1> HIDE DEF t
<1>5. TypeOK'
  BY <1>1, <1>2 DEF IInv, TypeOK
<1>6. TxOK'
  <2>1. TxOwned'
    BY <1>1, <1>3 DEF TxOwned
  <2>2. TxCompatible'
    BY <1>1, <1>3 DEF TxCompatible
  <2>3. TxProgress'
    BY <1>1, <1>3, <1>4 DEF TxProgress
  <2>4. TxWrites'
    BY <1>1, <1>3 DEF TxWrites
  <2> QED BY <2>1, <2>2, <2>3, <2>4, <1>1, <1>3 DEF TxOK, IInv
<1>7. HeldOK'
  BY <1>1 DEF IInv, HeldOK
<1> QED BY <1>1, <1>5, <1>6, <1>7 DEF IInv

LEMMA RefuseStep ==
  ASSUME IInv, tx = None, NEW c \in Client, Refuse(c)
  PROVE  IInv'
<1>1. Idle \in Capture
  BY DEF Idle, Capture
<1> QED BY <1>1, HeldStep DEF Refuse, Idle

LEMMA CompareAndPutStep ==
  ASSUME IInv, NEW c \in Client, NEW record \in SyncRecord, CompareAndPut(c, record)
  PROVE  IInv'
<1> DEFINE row == held[c].row
           occupant == held[c].occupant
           item == [source |-> row, destination |-> occupant, terminal |-> record]
<1>1. tx = None /\ held[c].op = "expect"
  BY DEF CompareAndPut
<1>2. row \in Row /\ occupant \in Row /\ {row, occupant} \subseteq Captured(held[c])
  BY <1>1 DEF IInv, TypeOK, Capture, Captured
<1>3. CASE PutMatches(rows, row, record, occupant)
  <2>1. Begin(c, <<item>>)
    BY <1>3 DEF CompareAndPut
  <2>2. item \in Relocation
    BY <1>2 DEF Relocation
  <2>3. /\ item.source = row /\ item.destination = occupant /\ item.terminal = record
    OBVIOUS
  <2> HIDE DEF item
  <2>4. <<item>> \in Relocations /\ DOMAIN <<item>> = {1} /\ <<item>>[1] = item
    BY <2>2 DEF Relocations
  <2>5. Pending(rows, item)
    BY <1>3, <2>3 DEF Pending
  <2>6. \A k \in DOMAIN <<item>> :
          /\ {<<item>>[k].source, <<item>>[k].destination} \subseteq Captured(held[c])
          /\ Pending(rows, <<item>>[k])
    BY <2>4, <2>5, <1>2, <2>3
  <2>7. \A j, k \in DOMAIN <<item>> : j # k => Compatible(<<item>>[j], <<item>>[k])
    BY <2>4
  <2> QED BY <1>1, <2>1, <2>4, <2>6, <2>7, BeginStep
<1>4. CASE ~PutMatches(rows, row, record, occupant)
  BY <1>1, <1>4, RefuseStep DEF CompareAndPut
<1> QED BY <1>3, <1>4

LEMMA CompareAndRewritePathsStep ==
  ASSUME IInv, NEW c \in Client, CompareAndRewritePaths(c)
  PROVE  IInv'
<1> DEFINE items == held[c].items
<1>1. tx = None /\ held[c].op = "relocate"
  BY DEF CompareAndRewritePaths
<1>2. items \in Relocations
  BY <1>1 DEF IInv, TypeOK, Capture
<1>3. \A k \in DOMAIN items : items[k] \in Relocation
  BY <1>2 DEF Relocations
<1>4. CASE /\ ~Refused(items)
           /\ \A k \in DOMAIN items :
                /\ Stored(rows, items[k].source)
                /\ Occupies(rows, items[k].terminal.path, items[k].destination)
  <2>1. Begin(c, items)
    BY <1>4 DEF CompareAndRewritePaths
  <2>2. \A k \in DOMAIN items : /\ items[k].source # None
                                /\ items[k].source.id = items[k].terminal.id
    BY <1>1 DEF IInv, HeldOK
  <2>3. \A k \in DOMAIN items :
          /\ {items[k].source, items[k].destination} \subseteq Captured(held[c])
          /\ Pending(rows, items[k])
    BY <1>1, <1>4, <2>2 DEF Captured, Pending, PutMatches, Stored
  <2>4. ASSUME NEW j \in DOMAIN items, NEW k \in DOMAIN items, j # k
        PROVE  Compatible(items[j], items[k])
    <3>1. /\ items[j].source.path # items[k].source.path
          /\ items[j].terminal.path # items[k].terminal.path
          /\ items[j].terminal.path # items[k].source.path
          /\ items[k].terminal.path # items[j].source.path
      BY <1>4, <2>4 DEF Refused
    <3>2. items[j].terminal.id # items[k].terminal.id
      BY <1>4, <2>2, <3>1 DEF Stored
    <3> QED BY <2>2, <3>1, <3>2 DEF Compatible
  <2> HIDE DEF items
  <2> QED BY <1>1, <1>2, <2>1, <2>3, <2>4, BeginStep
<1>5. CASE ~(/\ ~Refused(items)
             /\ \A k \in DOMAIN items :
                  /\ Stored(rows, items[k].source)
                  /\ Occupies(rows, items[k].terminal.path, items[k].destination))
  BY <1>1, <1>5, RefuseStep DEF CompareAndRewritePaths
<1> QED BY <1>4, <1>5

LEMMA PublishNextStep ==
  ASSUME IInv, PublishNext
  PROVE  IInv'
<1> DEFINE item == tx.items[tx.next]
<1>1. tx # None /\ tx \in Transaction /\ tx.next \in DOMAIN tx.items
  BY DEF PublishNext, IInv, TypeOK
<1>2. /\ tx.items \in Relocations /\ tx.next \in Nat \ {0} /\ item \in Relocation
      /\ tx.rows \in [Identity -> Row] /\ tx.bases \in [Identity -> Base]
      /\ \A k \in DOMAIN tx.items : tx.items[k] \in Relocation /\ k \in Nat
  BY <1>1 DEF Transaction, Relocations
<1>3. /\ tx'.by = tx.by /\ tx'.items = tx.items /\ tx'.next = tx.next + 1
      /\ tx'.rows = PublishRows(tx.rows, item)
      /\ tx'.bases = PublishBases(tx.bases, item)
      /\ tx' \in Transaction
  <2>1. /\ PublishRows(tx.rows, item) \in [Identity -> Row]
        /\ PublishBases(tx.bases, item) \in [Identity -> Base]
    BY <1>2, PublishTyped
  <2> HIDE DEF item
  <2>2. tx' = [by |-> tx.by, items |-> tx.items, next |-> tx.next + 1,
               rows |-> PublishRows(tx.rows, item),
               bases |-> PublishBases(tx.bases, item)]
    BY DEF PublishNext, item
  <2>3. tx.by \in Client /\ tx.items \in Relocations /\ tx.next + 1 \in Nat \ {0}
    BY <1>1, <1>2 DEF Transaction
  <2> QED BY <2>1, <2>2, <2>3 DEF Transaction
<1>4. UNCHANGED <<rows, bases, held>>
  BY DEF PublishNext
<1>5. TypeOK'
  BY <1>3, <1>4 DEF IInv, TypeOK
<1>7. Pending(tx.rows, item)
  BY <1>1, <1>2 DEF IInv, TxOK, TxProgress
<1>8. PathsUnique(tx.rows) /\ BasesBound(tx.rows, tx.bases)
  BY <1>1 DEF IInv, TxOK
<1>9. PathsUnique(tx'.rows) /\ BasesBound(tx'.rows, tx'.bases)
  BY <1>2, <1>3, <1>7, <1>8, PublishUnique, PublishBound
<1>10. TxProgress'
  <2> SUFFICES ASSUME NEW k \in DOMAIN tx.items
               PROVE  IF k < tx.next + 1
                      THEN Stored(tx'.rows, tx.items[k].terminal)
                      ELSE Pending(tx'.rows, tx.items[k])
    BY <1>3 DEF TxProgress
  <2>1. IF k < tx.next THEN Stored(tx.rows, tx.items[k].terminal)
                       ELSE Pending(tx.rows, tx.items[k])
    BY <1>1 DEF IInv, TxOK, TxProgress
  <2>2. CASE k = tx.next
    BY <2>2, <1>2, <1>3, PublishStores
  <2>3. CASE k # tx.next
    <3>1. Compatible(item, tx.items[k])
      BY <2>3, <1>1 DEF IInv, TxOK, TxCompatible
    <3>2. /\ Stored(tx.rows, tx.items[k].terminal) => Stored(tx'.rows, tx.items[k].terminal)
          /\ Pending(tx.rows, tx.items[k]) => Pending(tx'.rows, tx.items[k])
      BY <3>1, <1>2, <1>3, <1>7, <1>8, PublishPeer
    <3>3. k < tx.next + 1 <=> k < tx.next
      BY <2>3, <1>2
    <3> QED BY <2>1, <3>2, <3>3
  <2> QED BY <2>2, <2>3
<1>11. TxWrites'
  <2> SUFFICES ASSUME NEW i \in Identity, tx'.rows[i] # rows[i]
               PROVE  rows[i] \in Captured(held[tx.by]) \cup {None}
    BY <1>3, <1>4 DEF TxWrites
  <2>1. CASE tx.rows[i] # rows[i]
    BY <2>1, <1>1 DEF IInv, TxOK, TxWrites
  <2>2. CASE tx.rows[i] = rows[i]
    <3>1. i = item.terminal.id \/ i \in Ended(item)
      BY <2>2, <1>3 DEF PublishRows
    <3>2. tx.rows[i] \in {None, item.source, item.destination}
      BY <3>1, <1>7 DEF Ended, Pending, PutMatches, Occupies, Stored
    <3>3. {item.source, item.destination} \subseteq Captured(held[tx.by])
      BY <1>1 DEF IInv, TxOK, TxOwned
    <3> QED BY <2>2, <3>2, <3>3
  <2> QED BY <2>1, <2>2
<1>12. TxOwned' /\ TxCompatible'
  BY <1>1, <1>3, <1>4 DEF IInv, TxOK, TxOwned, TxCompatible
<1>13. HeldOK' /\ PathsUnique(rows)' /\ BasesBound(rows, bases)'
  BY <1>4 DEF IInv, HeldOK
<1> QED BY <1>5, <1>9, <1>10, <1>11, <1>12, <1>13 DEF IInv, TxOK

LEMMA CompleteStep ==
  ASSUME IInv, Complete
  PROVE  IInv'
<1>1. tx # None /\ tx \in Transaction
  BY DEF Complete, IInv, TypeOK
<1>2. /\ tx.by \in Client /\ tx.items \in Relocations
      /\ tx.rows \in [Identity -> Row] /\ tx.bases \in [Identity -> Base]
  BY <1>1 DEF Transaction
<1>3. tx.items[1] \in Relocation
  BY <1>2 DEF Relocations
<1>4. PICK h \in Capture : /\ held' = [held EXCEPT ![tx.by] = h]
                           /\ h.op \in {"base", "idle"}
  <2>1. [op |-> "base", record |-> tx.items[1].terminal, content |-> None] \in Capture
    BY <1>3 DEF Capture, Base, Relocation
  <2>2. Idle \in Capture /\ Idle.op = "idle"
    BY DEF Idle, Capture
  <2> QED BY <2>1, <2>2 DEF Complete
<1>5. /\ rows' = tx.rows /\ bases' = tx.bases /\ tx' = None
  BY DEF Complete
<1>6. TypeOK'
  BY <1>2, <1>4, <1>5 DEF IInv, TypeOK
<1>7. HeldOK'
  BY <1>2, <1>4 DEF IInv, HeldOK, TypeOK
<1>8. (PathsUnique(rows) /\ BasesBound(rows, bases))'
  BY <1>1, <1>5 DEF IInv, TxOK
<1> QED BY <1>5, <1>6, <1>7, <1>8 DEF IInv, TxOK

LEMMA CompareAndDeleteStep ==
  ASSUME IInv, NEW c \in Client, CompareAndDelete(c)
  PROVE  IInv'
<1>1. /\ rows' \in [Identity -> Row] /\ bases' \in [Identity -> Base]
      /\ \A i \in Identity : \/ rows'[i] = rows[i] /\ bases'[i] = bases[i]
                             \/ rows'[i] = None /\ bases'[i] = None
  BY DEF CompareAndDelete, IInv, TypeOK, Row, Base
<1>2. (PathsUnique(rows) /\ BasesBound(rows, bases))'
  BY <1>1 DEF IInv, PathsUnique, BasesBound
<1>3. Idle \in Capture /\ held' = [held EXCEPT ![c] = Idle] /\ tx' = None
  BY DEF CompareAndDelete, Idle, Capture
<1>4. TypeOK'
  BY <1>1, <1>3 DEF IInv, TypeOK
<1>5. HeldOK'
  BY <1>3 DEF IInv, TypeOK, HeldOK, Idle
<1> QED BY <1>2, <1>3, <1>4, <1>5 DEF IInv, TxOK

LEMMA VerifyMergeBaseStep ==
  ASSUME IInv, NEW c \in Client, NEW content \in Hash, VerifyMergeBase(c, content)
  PROVE  IInv'
<1> DEFINE ok == held[c].record.hash # NoHash /\ content = held[c].record.hash
<1>1. /\ held[c].op = "base"
      /\ held' = [held EXCEPT ![c] =
           IF ok THEN [op |-> "verified", record |-> held[c].record, content |-> content]
                 ELSE Idle]
      /\ UNCHANGED <<rows, bases, tx>>
  BY DEF VerifyMergeBase
<1>2. held[c] \in [op: {"base", "verified"}, record: SyncRecord, content: Base]
  BY <1>1 DEF IInv, TypeOK, Capture
<1>3. tx # None => tx.by # c
  BY <1>1 DEF IInv, TxOK, TxOwned
<1>4. CASE ok
  <2> DEFINE h == [op |-> "verified", record |-> held[c].record, content |-> content]
  <2>1. h.op = "verified" /\ h.content = content /\ h.record = held[c].record
    OBVIOUS
  <2>2. h \in Capture
    BY <1>2 DEF Capture, Base
  <2>3. held' = [held EXCEPT ![c] = h]
    BY <1>1, <1>4
  <2>4. h.record.hash # NoHash /\ h.content = h.record.hash
    BY <1>4, <2>1
  <2>5. h.op # "relocate"
    BY <2>1
  <2> HIDE DEF h, ok
  <2> QED BY <1>1, <1>3, <2>2, <2>3, <2>4, <2>5, HeldStep
<1>5. CASE ~ok
  <2>1. Idle \in Capture
    BY DEF Idle, Capture
  <2> QED BY <1>1, <1>3, <1>5, <2>1, HeldStep DEF Idle
<1> QED BY <1>4, <1>5

LEMMA CompareAndPutContentStep ==
  ASSUME IInv, NEW c \in Client, CompareAndPutContent(c)
  PROVE  IInv'
<1>1. tx = None /\ tx' = None /\ rows' = rows /\ held[c].op = "verified"
      /\ held' = [held EXCEPT ![c] = Idle] /\ Idle \in Capture
  BY DEF CompareAndPutContent, Idle, Capture
<1>2. /\ held[c].record \in SyncRecord /\ held[c].content \in Base
      /\ held[c].content = held[c].record.hash /\ held[c].record # None
  BY <1>1, NoneAssumption DEF IInv, TypeOK, Capture, HeldOK
<1>3. bases' \in [Identity -> Base]
  BY <1>2 DEF CompareAndPutContent, IInv, TypeOK
<1>4. BasesBound(rows, bases)'
  BY <1>1, <1>2 DEF CompareAndPutContent, IInv, TypeOK, BasesBound, Stored
<1>5. TypeOK'
  BY <1>1, <1>3 DEF IInv, TypeOK
<1>6. HeldOK'
  BY <1>1 DEF IInv, TypeOK, HeldOK, Idle
<1> QED BY <1>1, <1>4, <1>5, <1>6 DEF IInv, TxOK

LEMMA ClearStep ==
  ASSUME IInv, Clear
  PROVE  IInv'
BY DEF Clear, IInv, TypeOK, HeldOK, TxOK, PathsUnique, BasesBound, Row, Base

\* An aborted transaction leaves nothing of its image.
LEMMA ConnectionStep ==
  ASSUME IInv, ConnectionCloses
  PROVE  IInv'
BY DEF ConnectionCloses, IInv, TypeOK, HeldOK, TxOK

LEMMA CrashStep ==
  ASSUME IInv, Crash
  PROVE  IInv'
BY DEF Crash, IInv, TypeOK, HeldOK, TxOK, Idle, Capture

LEMMA NextIInv == IInv /\ [Next]_vars => IInv'
<1> SUFFICES ASSUME IInv, [Next]_vars PROVE IInv'
  OBVIOUS
<1>1. CASE UNCHANGED vars
  BY <1>1 DEF vars, IInv, TypeOK, HeldOK, TxOK, TxOwned, TxCompatible, TxProgress,
              TxWrites
<1>2. CASE Next
  BY <1>2, CaptureExpectationStep, CaptureRelocationsStep, CompareAndPutStep,
     CompareAndRewritePathsStep, PublishNextStep, CompleteStep,
     CompareAndDeleteStep, VerifyMergeBaseStep, CompareAndPutContentStep,
     ClearStep, ConnectionStep, CrashStep DEF Next
<1> QED BY <1>1, <1>2

LEMMA Inductive == Spec => []IInv
BY InitIInv, NextIInv, PTL DEF Spec

-----------------------------------------------------------------------------
(* The theorems.                                                           *)

(* Every state of the store and of its clients has the declared types.     *)
THEOREM TypeCorrect == Spec => []TypeOK
<1>1. IInv => TypeOK
  BY DEF IInv
<1> QED BY Inductive, <1>1, PTL

(* The unique path index is never violated by a compared publication.      *)
THEOREM PathUniqueness == Spec => []PathIndexUnique
<1>1. IInv => PathIndexUnique
  BY DEF IInv, TxOK, PathIndexUnique
<1> QED BY Inductive, <1>1, PTL

(* A stored merge base is always that of the record stored with it.        *)
THEOREM MergeBaseBinding == Spec => []MergeBaseBound
<1>1. IInv => MergeBaseBound
  BY DEF IInv, MergeBaseBound
<1> QED BY Inductive, <1>1, PTL

(* A folder mapping of any length is published whole: no member displaces  *)
(* another.                                                                *)
THEOREM LosslessRewrite == Spec => []EveryTerminalStored
<1>1. IInv => EveryTerminalStored
  <2> SUFFICES ASSUME IInv, tx # None, tx.next \notin DOMAIN tx.items,
                      NEW k \in DOMAIN tx.items
               PROVE  Stored(tx.rows, tx.items[k].terminal)
    BY DEF EveryTerminalStored
  <2>1. tx.items \in Seq(Relocation) /\ tx.next \in Nat \ {0}
    BY DEF IInv, TypeOK, Transaction, Relocations
  <2>2. k < tx.next
    BY <2>1
  <2> QED BY <2>2 DEF IInv, TxOK, TxProgress
<1> QED BY Inductive, <1>1, PTL

(* No record is overwritten or deleted by a client that had not captured   *)
(* it.                                                                     *)
THEOREM NoLostPublication == Spec => NoBlindWrite
<1> DEFINE Kept == Clear \/ \A i \in Identity :
                     rows'[i] # rows[i] =>
                       \/ rows[i] = None
                       \/ \E c \in Client : /\ rows[i] \in Captured(held[c])
                                            /\ held'[c] # held[c]
<1>1. ASSUME IInv, Next PROVE Kept
  <2>1. CASE UNCHANGED rows \/ Clear
    BY <2>1
  <2>2. CASE Complete
    <3> SUFFICES ASSUME NEW i \in Identity, rows'[i] # rows[i], rows[i] # None
                 PROVE  /\ rows[i] \in Captured(held[tx.by])
                        /\ held'[tx.by] # held[tx.by]
                        /\ tx.by \in Client
      OBVIOUS
    <3>1. tx # None /\ tx \in Transaction /\ rows' = tx.rows
      BY <1>1, <2>2 DEF Complete, IInv, TypeOK
    <3>2. tx.by \in Client /\ held[tx.by].op \in {"expect", "relocate"}
      BY <1>1, <3>1 DEF Transaction, IInv, TxOK, TxOwned
    <3>3. rows[i] \in Captured(held[tx.by])
      BY <1>1, <3>1 DEF IInv, TxOK, TxWrites
    <3>4. held'[tx.by].op \in {"base", "idle"}
      <4>1. DOMAIN held = Client
        BY <1>1 DEF IInv, TypeOK
      <4>2. held'[tx.by] =
              IF held[tx.by].op = "expect"
              THEN [op |-> "base", record |-> tx.items[1].terminal, content |-> None]
              ELSE Idle
        BY <2>2, <3>2, <4>1 DEF Complete
      <4> QED BY <4>2 DEF Idle
    <3> QED BY <3>2, <3>3, <3>4
  <2>3. ASSUME NEW c \in Client, CompareAndDelete(c) PROVE Kept
    <3>1. DOMAIN held = Client /\ DOMAIN rows = Identity
      BY <1>1 DEF IInv, TypeOK
    <3>2. held[c].op = "expect" /\ held'[c].op = "idle"
      BY <2>3, <3>1 DEF CompareAndDelete, Idle
    <3>3. ASSUME NEW i \in Identity, rows'[i] # rows[i]
          PROVE  rows[i] = held[c].occupant
      BY <2>3, <3>1, <3>3 DEF CompareAndDelete, Stored
    <3>4. held[c].occupant \in Captured(held[c]) /\ held'[c] # held[c]
      BY <3>2 DEF Captured
    <3> QED BY <3>3, <3>4
  <2>4. UNCHANGED rows \/ Clear \/ Complete \/ \E c \in Client : CompareAndDelete(c)
    BY <1>1 DEF Next, CaptureExpectation, CaptureRelocations, CompareAndPut,
       CompareAndRewritePaths, Begin, Refuse, PublishNext, VerifyMergeBase,
       CompareAndPutContent, ConnectionCloses, Crash
  <2> QED BY <2>1, <2>2, <2>3, <2>4
<1>2. IInv /\ [Next]_vars => [Kept]_vars
  BY <1>1
<1> QED BY <1>2, Inductive, PTL DEF Spec, NoBlindWrite

=============================================================================

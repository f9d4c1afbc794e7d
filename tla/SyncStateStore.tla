--------------------------- MODULE SyncStateStore ---------------------------
(***************************************************************************)
(* The persistent store of sync records (src/src/sync/state.ts) and the    *)
(* publication routes of the state committer (state-committer.ts) that     *)
(* write it.                                                               *)
(*                                                                         *)
(* A row is keyed by the identity of the remote object and the object      *)
(* store has a unique index on the row's path.  A second object store, of  *)
(* three-way-merge bases, has the same key.  A client (a pooled action, a  *)
(* serial component, a single-file priority pull) captures the rows it     *)
(* intends to continue or replace, does its file I/O, and publishes with a *)
(* whole-record comparison.  A read-write IndexedDB transaction works on   *)
(* an image nobody else sees and replaces both stores when it completes;   *)
(* the program may stop at any request of it.                              *)
(***************************************************************************)
EXTENDS Naturals, Sequences

CONSTANTS
  Identity,        \* opaque identities of remote objects
  Path,            \* vault-relative paths
  Hash,            \* (content hash, byte length) pairs
  Facts,           \* the other compared fields: mtimes, checksum, syncedAt
  Client,          \* concurrent publishers
  NoHash,          \* the empty hash of a record built from unhashed endpoints
  None,            \* undefined
  MaxRelocations   \* bound: members of one admitted folder mapping

ASSUME NoHashAssumption == NoHash \notin Hash
ASSUME MaxRelocationsAssumption == MaxRelocations \in Nat

SyncRecord == [id: Identity, path: Path, hash: Hash \cup {NoHash}, rest: Facts]
Row == SyncRecord \cup {None}
Base == Hash \cup {None}

ASSUME NoneAssumption == None \notin SyncRecord \cup Hash

VARIABLES
  rows,    \* the sync-records object store: identity -> row
  bases,   \* the sync-content object store: identity -> hash of the base
  tx,      \* the read-write transaction under way, or None
  held     \* what each client has captured and means to do with it

vars == <<rows, bases, tx, held>>

Idle == [op |-> "idle"]

(***************************************************************************)
(* A publication continues `source` (or nothing) as `terminal` and takes   *)
(* the terminal's address from `destination` (or from nobody).             *)
(***************************************************************************)
Relocation == [source: Row, destination: Row, terminal: SyncRecord]
Relocations == Seq(Relocation) \ {<<>>}

Capture ==
  [op: {"idle"}] \cup
  [op: {"expect"}, row: Row, occupant: Row] \cup
  [op: {"relocate"}, items: Relocations] \cup
  [op: {"base", "verified"}, record: SyncRecord, content: Base]

Transaction ==
  [by: Client, items: Relocations, next: Nat \ {0},
   rows: [Identity -> Row], bases: [Identity -> Base]]

TypeOK ==
  /\ rows \in [Identity -> Row]
  /\ bases \in [Identity -> Base]
  /\ tx \in Transaction \cup {None}
  /\ held \in [Client -> Capture]

Init ==
  /\ rows = [i \in Identity |-> None]
  /\ bases = [i \in Identity |-> None]
  /\ tx = None
  /\ held = [c \in Client |-> Idle]

-----------------------------------------------------------------------------
(* Reads and comparisons inside one transaction.                           *)

\* Mutant: some row of the identity is enough.
StoredSomehow(db, x) == db[x.id] # None

\* The row stored for record x's identity is exactly x.
Stored(db, x) == db[x.id] = x

\* The unique path index answers `occupant` for path p.
Occupies(db, p, occupant) ==
  IF occupant = None
  THEN \A i \in Identity : db[i] # None => db[i].path # p
  ELSE Stored(db, occupant) /\ occupant.path = p

\* Mutant: the occupant of the claimed address is not compared.
PutMatchesRowOnly(db, expectedRow, record, expectedOccupant) ==
  IF expectedRow # None /\ expectedRow.id # record.id
  THEN db[record.id] = None /\ Stored(db, expectedRow)
  ELSE db[record.id] = expectedRow

\* compareAndPut: the continued row is read by the terminal's identity; a
\* captured row of another identity is compared where it lives, and then
\* the terminal's own identity must hold no row.
PutMatches(db, expectedRow, record, expectedOccupant) ==
  /\ IF expectedRow # None /\ expectedRow.id # record.id
     THEN db[record.id] = None /\ Stored(db, expectedRow)
     ELSE db[record.id] = expectedRow
  /\ Occupies(db, record.path, expectedOccupant)

-----------------------------------------------------------------------------
(* publishRecord: delete the rows that end, put the terminal, and drop a   *)
(* merge base the terminal invalidates.                                    *)

\* Mutant: a base outlives a publication with another hash.
InvalidatesOnReplacement(expected, record) ==
  \/ expected = None
  \/ expected.id # record.id

InvalidatesMergeBase(expected, record) ==
  \/ expected = None
  \/ record.hash = NoHash
  \/ expected.hash # record.hash
  \/ expected.id # record.id

Ended(item) ==
  {x.id : x \in {item.destination, item.source} \ {None}} \ {item.terminal.id}

PublishRows(db, item) ==
  [i \in Identity |-> IF i = item.terminal.id THEN item.terminal
                      ELSE IF i \in Ended(item) THEN None ELSE db[i]]

PublishBases(content, item) ==
  [i \in Identity |->
     IF \/ i \in Ended(item)
        \/ i = item.terminal.id /\ InvalidatesMergeBase(item.source, item.terminal)
     THEN None ELSE content[i]]

-----------------------------------------------------------------------------
(* Captures.  IndexedDB runs no read while a read-write transaction on the *)
(* same stores is under way, hence the guard tx = None.                    *)

Known == {rows[i] : i \in Identity} \cup {None}

\* A publisher captures the row it will continue and the occupant of the
\* address it will claim, both from what is stored now.
CaptureExpectation(c) ==
  /\ tx = None
  /\ held[c] = Idle
  /\ \E row \in Known, occupant \in Known :
       held' = [held EXCEPT ![c] =
                 [op |-> "expect", row |-> row, occupant |-> occupant]]
  /\ UNCHANGED <<rows, bases, tx>>

\* One relocation per chosen row: the row itself at a new address.
Mapping(n, ids, paths, dests) ==
  [k \in 1..n |-> [source |-> rows[ids[k]], destination |-> dests[k],
                   terminal |-> [rows[ids[k]] EXCEPT !.path = paths[k]]]]

\* Admission captures a folder mapping; the destinations are the occupants
\* of the new addresses.
CaptureRelocations(c) ==
  /\ tx = None
  /\ held[c] = Idle
  /\ \E n \in 1..MaxRelocations :
       \E ids \in [1..n -> {i \in Identity : rows[i] # None}],
          paths \in [1..n -> Path], dests \in [1..n -> Known] :
         /\ \A k \in 1..n : Occupies(rows, paths[k], dests[k])
         /\ held' = [held EXCEPT ![c] =
              [op |-> "relocate", items |-> Mapping(n, ids, paths, dests)]]
  /\ UNCHANGED <<rows, bases, tx>>

-----------------------------------------------------------------------------
(* Publications.                                                           *)

Begin(c, items) ==
  /\ tx' = [by |-> c, items |-> items, next |-> 1, rows |-> rows, bases |-> bases]
  /\ UNCHANGED <<rows, bases, held>>

\* A stale expectation writes nothing; the committer throws.
Refuse(c) ==
  /\ held' = [held EXCEPT ![c] = Idle]
  /\ UNCHANGED <<rows, bases, tx>>

CompareAndPut(c, record) ==
  /\ tx = None
  /\ held[c].op = "expect"
  /\ LET row == held[c].row
         occupant == held[c].occupant
     IN IF PutMatches(rows, row, record, occupant)
        THEN Begin(c, <<[source |-> row, destination |-> occupant,
                         terminal |-> record]>>)
        ELSE Refuse(c)

\* Mutant: one member may claim an address another member leaves.
RefusedUnlessInjective(items) ==
  \E j, k \in DOMAIN items :
    /\ j # k
    /\ \/ items[j].source.path = items[k].source.path
       \/ items[j].terminal.path = items[k].terminal.path

\* compareAndRewritePaths refuses a mapping that is not injective, or in
\* which one member would claim another member's present address.
Refused(items) ==
  \E j, k \in DOMAIN items :
    /\ j # k
    /\ \/ items[j].source.path = items[k].source.path
       \/ items[j].terminal.path = items[k].terminal.path
       \/ /\ items[j].source.path # items[j].terminal.path
          /\ items[j].terminal.path = items[k].source.path

CompareAndRewritePaths(c) ==
  /\ tx = None
  /\ held[c].op = "relocate"
  /\ LET items == held[c].items
     IN IF /\ ~Refused(items)
           /\ \A k \in DOMAIN items :
                /\ Stored(rows, items[k].source)
                /\ Occupies(rows, items[k].terminal.path, items[k].destination)
        THEN Begin(c, items)
        ELSE Refuse(c)

\* One publishRecord of the transaction under way.
PublishNext ==
  /\ tx # None
  /\ tx.next \in DOMAIN tx.items
  /\ tx' = [by |-> tx.by, items |-> tx.items, next |-> tx.next + 1,
            rows |-> PublishRows(tx.rows, tx.items[tx.next]),
            bases |-> PublishBases(tx.bases, tx.items[tx.next])]
  /\ UNCHANGED <<rows, bases, held>>

\* The transaction completes.  A single publication goes on to refresh the
\* merge base of the record it has just published.
Complete ==
  /\ tx # None
  /\ tx.next \notin DOMAIN tx.items
  /\ rows' = tx.rows
  /\ bases' = tx.bases
  /\ tx' = None
  /\ held' = [held EXCEPT ![tx.by] =
       IF @.op = "expect"
       THEN [op |-> "base", record |-> tx.items[1].terminal, content |-> None]
       ELSE Idle]

\* compareAndDelete of the captured occupant, which must still be stored as
\* captured; two deletes of one transaction that reads nothing in between.
\* With no expected record nothing changes.
CompareAndDelete(c) ==
  /\ tx = None
  /\ held[c].op = "expect"
  /\ LET expected == held[c].occupant
     IN IF expected # None /\ Stored(rows, expected)
        THEN /\ rows' = [rows EXCEPT ![expected.id] = None]
             /\ bases' = [bases EXCEPT ![expected.id] = None]
        ELSE UNCHANGED <<rows, bases>>
  /\ held' = [held EXCEPT ![c] = Idle]
  /\ UNCHANGED tx

\* Mutant: whatever the record says is taken for the bytes of the file.
VerifyUnread(c, content) ==
  /\ held[c].op = "base"
  /\ held' = [held EXCEPT ![c] =
       [op |-> "verified", record |-> @.record, content |-> @.record.hash]]
  /\ UNCHANGED <<rows, bases, tx>>

\* maybeStoreMergeBase: read the local file, whose bytes may have changed
\* since the publication, and keep them only if they hash to the record.
\* Merging switched off, an ineligible file and a failed read also end it.
VerifyMergeBase(c, content) ==
  /\ held[c].op = "base"
  /\ held' = [held EXCEPT ![c] =
       IF held[c].record.hash # NoHash /\ content = held[c].record.hash
       THEN [op |-> "verified", record |-> @.record, content |-> content]
       ELSE Idle]
  /\ UNCHANGED <<rows, bases, tx>>

\* compareAndPutContent: the delayed write belongs to exactly one record.
CompareAndPutContent(c) ==
  /\ tx = None
  /\ held[c].op = "verified"
  /\ bases' = IF Stored(rows, held[c].record)
              THEN [bases EXCEPT ![held[c].record.id] = held[c].content]
              ELSE bases
  /\ held' = [held EXCEPT ![c] = Idle]
  /\ UNCHANGED <<rows, tx>>

\* clearSyncState empties both stores in one transaction, whatever clients
\* hold at that moment.
Clear ==
  /\ tx = None
  /\ rows' = [i \in Identity |-> None]
  /\ bases' = [i \in Identity |-> None]
  /\ UNCHANGED <<tx, held>>

\* The platform closes the connection under the transaction: it aborts, and
\* the same publication is run again on a fresh one, or reported.
ConnectionCloses ==
  /\ tx # None
  /\ tx' = None
  /\ UNCHANGED <<rows, bases, held>>

\* The process ends: an incomplete transaction is discarded and everything
\* held in memory is gone.
Crash ==
  /\ tx' = None
  /\ held' = [c \in Client |-> Idle]
  /\ UNCHANGED <<rows, bases>>

Next ==
  \/ \E c \in Client : CaptureExpectation(c)
  \/ \E c \in Client : CaptureRelocations(c)
  \/ \E c \in Client, record \in SyncRecord : CompareAndPut(c, record)
  \/ \E c \in Client : CompareAndRewritePaths(c)
  \/ PublishNext
  \/ Complete
  \/ \E c \in Client : CompareAndDelete(c)
  \/ \E c \in Client, content \in Hash : VerifyMergeBase(c, content)
  \/ \E c \in Client : CompareAndPutContent(c)
  \/ Clear
  \/ ConnectionCloses
  \/ Crash

Spec == Init /\ [][Next]_vars

-----------------------------------------------------------------------------
(* Properties.                                                             *)

PathsUnique(db) ==
  \A i, j \in Identity :
    /\ db[i] # None
    /\ db[j] # None
    /\ db[i].path = db[j].path
    => i = j

BasesBound(db, content) ==
  \A i \in Identity : content[i] # None => db[i] # None /\ db[i].hash = content[i]

(* The unique path index is never violated, in the stores or in the image  *)
(* a transaction is building: whatever rows the clients captured, no       *)
(* compared publication can put two records at one address, so the abort   *)
(* the uncompared put may suffer (state.ts:162-167) cannot happen to them. *)
PathIndexUnique ==
  /\ PathsUnique(rows)
  /\ tx # None => PathsUnique(tx.rows)

(* A stored merge base always has the hash of the record stored for the    *)
(* same identity.  A three-way merge is therefore never run against the    *)
(* content of another publication, in spite of base writes that arrive     *)
(* after later publications, relocations, replacements or a clear.         *)
MergeBaseBound == BasesBound(rows, bases)

(* When a transaction is about to complete, every member it was asked to   *)
(* publish is stored as asked: no member of a folder mapping displaces     *)
(* another, which is what the refusal of cyclic mappings is for            *)
(* (state.ts:254-260).                                                     *)
EveryTerminalStored ==
  tx # None /\ tx.next \notin DOMAIN tx.items =>
    \A k \in DOMAIN tx.items : Stored(tx.rows, tx.items[k].terminal)

Captured(h) ==
  CASE h.op = "expect" -> {h.row, h.occupant}
    [] h.op = "relocate" -> {h.items[k].source : k \in DOMAIN h.items} \cup
                            {h.items[k].destination : k \in DOMAIN h.items}
    [] OTHER -> {}

(* No blind write: apart from clearing the stores, a step that changes or  *)
(* deletes a stored record is taken by a client that had captured exactly  *)
(* that record; a record published behind a client's back survives it.     *)
NoBlindWrite ==
  [][Clear \/ \A i \in Identity :
       rows'[i] # rows[i] =>
         \/ rows[i] = None
         \/ \E c \in Client : /\ rows[i] \in Captured(held[c])
                              /\ held'[c] # held[c]]_vars

=============================================================================

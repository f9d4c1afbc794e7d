------------------------- MODULE CachingRemote_proofs -------------------------
(***************************************************************************)
(* Proofs about the caching remote filesystem.  The arbiter is             *)
(* order-independent for every claim: which claim was there first, how a   *)
(* set of claims is folded and what the set is change neither the holder   *)
(* of an address nor who is told to move.  And the filesystem keeps to     *)
(* what RemoteCheckpoint promises, for any provider, log and failures.     *)
(***************************************************************************)
EXTENDS CachingRemote, FiniteSetTheorems, WellFoundedInduction, TLAPS

(* The arbiter.                                                             *)

\* One object makes one claim on an address.
OneClaimEach(claims) == \A c, d \in claims : c.id = d.id => c = d

\* Of two claims of different objects exactly one goes first.
LEMMA PrecedesIsTotal ==
  ASSUME NEW a \in AddressClaim, NEW b \in AddressClaim, a.id # b.id
  PROVE  Precedes(a, b) <=> ~ Precedes(b, a)
BY DEF AddressClaim, Precedes, AuthorityRank

LEMMA PrecedesIsTransitive ==
  ASSUME NEW a \in AddressClaim, NEW b \in AddressClaim, NEW c \in AddressClaim,
         Precedes(a, b), Precedes(b, c)
  PROVE  Precedes(a, c)
BY DEF AddressClaim, Precedes, AuthorityRank

LEMMA AdmittedIsEither ==
  ASSUME NEW a \in AddressClaim, NEW b \in AddressClaim
  PROVE  Admitted(a, b) \in {a, b}
BY DEF Admitted

\* arbitrateAddress: the whole decision, not only the holder, is the same
\* whichever of the two objects is the incumbent.
THEOREM ArbitrationIgnoresArrival ==
  ASSUME NEW a \in AddressClaim, NEW b \in AddressClaim, a.id # b.id
  PROVE  ArbitrateAddress(a, b) = ArbitrateAddress(b, a)
<1>1. MergesAsOneFolder(a, b) <=> MergesAsOneFolder(b, a)
  BY DEF MergesAsOneFolder
<1>2. Contested(a, b) <=> Contested(b, a)
  BY <1>1 DEF Contested
<1>3. CASE Precedes(a, b)
  <2>1. ~ Precedes(b, a)
    BY <1>3, PrecedesIsTotal
  <2>2. Admitted(a, b) = a /\ Admitted(b, a) = a
    BY <1>3, <2>1 DEF Admitted
  <2> QED BY <1>2, <2>2 DEF ArbitrateAddress, Outcome
<1>4. CASE ~ Precedes(a, b)
  <2>1. Precedes(b, a)
    BY <1>4, PrecedesIsTotal
  <2>2. Admitted(a, b) = b /\ Admitted(b, a) = b
    BY <1>4, <2>1 DEF Admitted
  <2> QED BY <1>2, <2>2 DEF ArbitrateAddress, Outcome
<1> QED BY <1>3, <1>4

\* admitOne folds the arbiter over the claims as it meets them: three objects
\* settle alike however they are grouped, so by pairs any number does.
THEOREM ArbitrationFoldsAnyWay ==
  ASSUME NEW a \in AddressClaim, NEW b \in AddressClaim, NEW c \in AddressClaim,
         a.id # b.id, b.id # c.id, a.id # c.id
  PROVE  Admitted(Admitted(a, b), c) = Admitted(a, Admitted(b, c))
<1>1. CASE Precedes(a, b) /\ Precedes(b, c)
  <2>1. Precedes(a, c)
    BY <1>1, PrecedesIsTransitive
  <2> QED BY <1>1, <2>1 DEF Admitted
<1>2. CASE Precedes(a, b) /\ ~ Precedes(b, c)
  BY <1>2 DEF Admitted
<1>3. CASE ~ Precedes(a, b) /\ Precedes(b, c)
  BY <1>3 DEF Admitted
<1>4. CASE ~ Precedes(a, b) /\ ~ Precedes(b, c)
  <2>1. Precedes(b, a) /\ Precedes(c, b)
    BY <1>4, PrecedesIsTotal
  <2>2. Precedes(c, a)
    BY <2>1, PrecedesIsTransitive
  <2>3. ~ Precedes(a, c)
    BY <2>2, PrecedesIsTotal
  <2> QED BY <1>4, <2>3 DEF Admitted
<1> QED BY <1>1, <1>2, <1>3, <1>4

Less == {pair \in Nat \X Nat : pair[1] < pair[2]}

LEMMA LessIsWellFounded == IsWellFoundedOn(Less, Nat)
BY NatLessThanWellFounded DEF OpToRel, Less

\* A set of numbers has a smallest one.
LEMMA SmallestExists ==
  ASSUME NEW T \in SUBSET Nat, T # {}
  PROVE  \E n \in T : \A k \in T : n <= k
<1>1. PICK n \in T : \A k \in T : ~ (<<k, n>> \in Less)
  BY LessIsWellFounded, WFMin
<1>2. \A k \in T : ~ (k < n)
  BY <1>1 DEF Less
<1> QED BY <1>2

LEMMA SmallestClaimExists ==
  ASSUME NEW claims \in SUBSET AddressClaim, claims # {}
  PROVE  \E c \in claims : \A d \in claims : c.id <= d.id
<1> DEFINE ids == {c.id : c \in claims}
<1>1. ids \in SUBSET Nat /\ ids # {}
  BY DEF AddressClaim
<1>2. PICK n \in ids : \A k \in ids : n <= k
  BY <1>1, SmallestExists
<1> QED BY <1>2

\* Whatever objects claim an address, one of them goes before all others.
LEMMA FirstClaimExists ==
  ASSUME NEW claims \in SUBSET AddressClaim, claims # {}, OneClaimEach(claims)
  PROVE  \E c \in claims : \A d \in claims : d.id # c.id => Precedes(c, d)
<1> DEFINE resolved == {c \in claims : c.authority = "actual_resolved"}
<1>1. CASE resolved # {}
  <2>1. PICK c \in resolved : \A d \in resolved : c.id <= d.id
    BY <1>1, SmallestClaimExists
  <2>2. \A d \in claims : d.id # c.id => Precedes(c, d)
    BY <2>1 DEF Precedes, AuthorityRank, AddressClaim
  <2> QED BY <2>2
<1>2. CASE resolved = {}
  <2>1. PICK c \in claims : \A d \in claims : c.id <= d.id
    BY SmallestClaimExists
  <2>2. \A d \in claims : d.id # c.id => Precedes(c, d)
    BY <1>2, <2>1 DEF Precedes, AuthorityRank, AddressClaim
  <2> QED BY <2>2
<1> QED BY <1>1, <1>2

\* The arbitration of a whole listing is total and unambiguous: one of the
\* claims is admitted against every other, and no other claim is.
THEOREM HolderIsTheOne ==
  ASSUME NEW claims \in SUBSET AddressClaim, claims # {}, OneClaimEach(claims)
  PROVE  /\ Holder(claims) \in claims
         /\ \A d \in claims : Admitted(Holder(claims), d).id = Holder(claims).id
         /\ \A c \in claims :
              (\A d \in claims : Admitted(c, d).id = c.id) => c = Holder(claims)
<1> DEFINE Wins(c) == \A d \in claims : Admitted(c, d).id = c.id
<1>1. PICK first \in claims : \A d \in claims : d.id # first.id => Precedes(first, d)
  BY FirstClaimExists
<1>2. Wins(first)
  BY <1>1 DEF Admitted
<1>3. Holder(claims) \in claims /\ Wins(Holder(claims))
  BY <1>2 DEF Holder
<1>4. ASSUME NEW c \in claims, Wins(c)
      PROVE  c = first
  <2>1. SUFFICES ASSUME c.id # first.id PROVE FALSE
    BY DEF OneClaimEach
  <2>2. Precedes(first, c)
    BY <1>1, <2>1
  <2>3. ~ Precedes(c, first)
    BY <2>1, <2>2, PrecedesIsTotal
  <2>4. Admitted(c, first) = first
    BY <2>1, <2>3 DEF Admitted
  <2> QED BY <1>4, <2>1, <2>4
<1>5. Holder(claims) = first
  BY <1>3, <1>4
<1> QED BY <1>3, <1>4, <1>5
-----------------------------------------------------------------------------
(* The checkpoint.  What the cycle does with its cursor, whatever the pages *)
(* of the log contain.                                                      *)

\* There is a working view.
InMemory == live \/ phase # "idle"

\* From the drain to the commit the view is initialized.
Initialized == phase \in {"drain", "complete", "group", "repair", "planned"} => live

\* No position is ahead of the log, and the saved one is never ahead of the
\* working one, nor is the working one ahead of the token a drain will end with.
PositionsInv ==
  /\ clock \in Nat
  /\ \A c \in durable : c.cursor \in 0 .. clock
  /\ \A c, d \in durable : c = d
  /\ InMemory => cursor \in 0 .. clock /\ \A c \in durable : c.cursor <= cursor
  /\ phase = "complete" => "token" \in DOMAIN task /\ task.token \in cursor .. clock

CheckpointInv == Initialized /\ PositionsInv

\* The two sides of the refinement mapping.
Working == IF phase = "idle" /\ ~ live THEN {}
           ELSE {[view |-> cache, position |-> cursor, whole |-> phase \in {"planned", "idle"}]}
Saved == {[view |-> c.cache, position |-> c.cursor] : c \in durable}

LEMMA MappingIs ==
  /\ Checkpoint!Init <=> Working = {} /\ Saved = {}
  /\ Checkpoint!Acquire <=>
       /\ Working = {}
       /\ \E w \in Working' :
            /\ Working' = {w} /\ w.position \in Nat /\ ~ w.whole
            /\ \A s \in Saved : w.position >= s.position
       /\ UNCHANGED Saved
  /\ Checkpoint!Advance <=>
       /\ \E w \in Working, n \in Working' :
            Working' = {n} /\ n.position \in Nat /\ n.position >= w.position
       /\ UNCHANGED Saved
  /\ Checkpoint!Save <=>
       /\ \E w \in Working :
            w.whole /\ Saved' = {[view |-> w.view, position |-> w.position]}
       /\ UNCHANGED Working
  /\ Checkpoint!Lose <=> Working' = {} /\ UNCHANGED Saved
  /\ Checkpoint!Forget <=> Working' = {} /\ Saved' = {}
BY DEF Working, Saved, Checkpoint!Init, Checkpoint!Acquire, Checkpoint!Advance, Checkpoint!Save,
       Checkpoint!Lose, Checkpoint!Forget

AbstractStep == Checkpoint!Next \/ (Working' = Working /\ Saved' = Saved)

\* The view in memory goes on: it stays or moves forward, and what is saved stays.
LEMMA ViewAdvances ==
  ASSUME CheckpointInv, InMemory, phase' # "idle", UNCHANGED durable,
         cursor' \in cursor .. clock', clock' \in Nat, clock' >= clock,
         phase' \in {"drain", "complete", "group", "repair", "planned"} => live',
         phase' = "complete" => "token" \in DOMAIN task' /\ task'.token \in cursor' .. clock'
  PROVE  CheckpointInv' /\ AbstractStep
<1>1. CheckpointInv'
  BY DEF CheckpointInv, Initialized, PositionsInv, InMemory
<1>2. Checkpoint!Advance
  <2>1. PICK w \in Working : w.position = cursor
    BY DEF Working, InMemory
  <2>2. PICK n \in Working' : Working' = {n} /\ n.position = cursor'
    BY DEF Working
  <2>3. n.position \in Nat /\ n.position >= w.position
    BY <2>1, <2>2 DEF CheckpointInv, PositionsInv
  <2>4. UNCHANGED Saved
    BY DEF Saved
  <2>5. QED
    BY <2>1, <2>2, <2>3, <2>4, MappingIs
<1>3. QED
  BY <1>1, <1>2 DEF AbstractStep, Checkpoint!Next

\* A view is taken up where there was none.
LEMMA ViewStarts ==
  ASSUME CheckpointInv, ~ InMemory, phase' \in {"drain", "list"}, UNCHANGED <<durable, clock>>,
         cursor' \in 0 .. clock, \A c \in durable : c.cursor <= cursor',
         phase' = "drain" => live'
  PROVE  CheckpointInv' /\ AbstractStep
<1>1. CheckpointInv'
  BY DEF CheckpointInv, Initialized, PositionsInv, InMemory
<1>2. Checkpoint!Acquire
  <2>1. Working = {}
    BY DEF Working, InMemory
  <2>2. PICK w \in Working' : Working' = {w} /\ w.position = cursor' /\ ~ w.whole
    BY DEF Working
  <2>3. UNCHANGED Saved /\ \A s \in Saved : w.position >= s.position
    BY <2>2 DEF Saved, CheckpointInv, PositionsInv
  <2>4. QED
    BY <2>1, <2>2, <2>3, MappingIs
<1>3. QED
  BY <1>1, <1>2 DEF AbstractStep, Checkpoint!Next

\* The provider's log moves on, and the view does not.
LEMMA LogGrows ==
  ASSUME CheckpointInv, UNCHANGED <<view, durable, phase, task>>, clock' = clock + 1
  PROVE  CheckpointInv' /\ AbstractStep
<1>1. CheckpointInv'
  BY DEF CheckpointInv, Initialized, PositionsInv, InMemory, view
<1>2. Working' = Working /\ Saved' = Saved
  BY DEF Working, Saved, view
<1>3. QED
  BY <1>1, <1>2 DEF AbstractStep

\* The view in memory is gone, and the checkpoint is there or not.
LEMMA ViewLost ==
  ASSUME CheckpointInv, NoMemory, phase' = "idle", UNCHANGED clock, durable' \in {durable, {}}
  PROVE  CheckpointInv' /\ AbstractStep
<1>1. CheckpointInv'
  BY DEF CheckpointInv, Initialized, PositionsInv, InMemory, NoMemory
<1>2. Working' = {}
  BY DEF Working, NoMemory
<1>3. Saved' = {} \/ UNCHANGED Saved
  BY DEF Saved
<1>4. Checkpoint!Lose \/ Checkpoint!Forget
  BY <1>2, <1>3, MappingIs
<1>5. QED
  BY <1>1, <1>4 DEF AbstractStep, Checkpoint!Next

\* The requests that read the provider.
LEMMA AcquisitionIsStep ==
  ASSUME CheckpointInv,
         \/ Resume \/ Restore \/ Scan \/ List \/ FetchChanges \/ \E i \in Folders : ReadSubtree(i)
         \/ Group \/ Expired \/ ExpiredInCompletion \/ Fail
  PROVE  CheckpointInv' /\ AbstractStep
<1> USE DEF Reads, provider
<1>p. /\ clock \in Nat /\ \A c \in durable : c.cursor \in 0 .. clock
      /\ InMemory => cursor \in 0 .. clock
  BY DEF CheckpointInv, PositionsInv
<1>1. CASE Resume
  <2>1. /\ InMemory /\ phase' = "drain" /\ live' /\ UNCHANGED <<durable, clock, cursor>>
    BY <1>1 DEF Resume, view, InMemory
  <2>2. QED
    BY <1>p, <2>1, ViewAdvances
<1>2. CASE Restore
  <2>1. PICK c \in durable : cursor' = c.cursor
    BY <1>2 DEF Restore
  <2>2. /\ ~ InMemory /\ phase' = "drain" /\ live' /\ UNCHANGED <<durable, clock>>
    BY <1>2 DEF Restore, InMemory
  <2>3. cursor' \in 0 .. clock /\ \A d \in durable : d.cursor <= cursor'
    BY <1>p, <2>1 DEF CheckpointInv, PositionsInv
  <2>4. QED
    BY <2>2, <2>3, ViewStarts
<1>3. CASE Scan
  <2>1. /\ ~ InMemory /\ phase' = "list" /\ UNCHANGED <<durable, clock>> /\ cursor' = clock
    BY <1>3 DEF Scan, InMemory, BeginScan, ScanCursor
  <2>2. QED
    BY <1>p, <2>1, ViewStarts
<1>4. CASE List
  <2>1. /\ InMemory /\ phase' = "group" /\ live' /\ UNCHANGED <<durable, clock, cursor>>
    BY <1>4 DEF List, InMemory
  <2>2. QED
    BY <1>p, <2>1, ViewAdvances
<1>5. CASE FetchChanges
  <2>1. /\ InMemory /\ live' /\ UNCHANGED <<durable, clock>>
    BY <1>5 DEF FetchChanges, InMemory, CheckpointInv, Initialized
  <2>2. \/ phase' = "group" /\ cursor' = clock
        \/ /\ phase' = "complete" /\ UNCHANGED cursor
           /\ "token" \in DOMAIN task' /\ task'.token = clock
    BY <1>5 DEF FetchChanges, FinishDrain, NoTask
  <2>3. QED
    BY <1>p, <2>1, <2>2, ViewAdvances
<1>6. ASSUME NEW i \in Folders, ReadSubtree(i) PROVE CheckpointInv' /\ AbstractStep
  <2>1. /\ InMemory /\ live' /\ UNCHANGED <<durable, clock>>
    BY <1>6 DEF ReadSubtree, InMemory, CheckpointInv, Initialized
  <2>2. task.token \in cursor .. clock
    BY <1>6 DEF ReadSubtree, CheckpointInv, PositionsInv
  <2>3. /\ "token" \in DOMAIN task
        /\ phase = "complete"
    BY <1>6 DEF ReadSubtree, CheckpointInv, PositionsInv
  <2>4. CASE phase' = "group" /\ cursor' = task.token
    BY <1>p, <2>1, <2>2, <2>4, ViewAdvances
  <2>5. ASSUME NEW changed, NEW renamed, UNCHANGED <<cursor, phase>>,
               task' = [task EXCEPT !.targets = @ \ {i}, !.changed = @ \cup changed,
                                    !.renamed = @ \cup renamed]
        PROVE  CheckpointInv' /\ AbstractStep
    <3>1. DOMAIN task' = DOMAIN task /\ task'.token = task.token
      BY <2>3, <2>5
    <3>2. QED
      BY <1>p, <2>1, <2>2, <2>3, <2>5, <3>1, ViewAdvances
  <2>6. QED
    BY <1>6, <2>4, <2>5 DEF ReadSubtree, FinishDrain
<1>7. CASE Group
  <2>1. /\ InMemory /\ phase' \in {"planned", "repair"} /\ live'
        /\ UNCHANGED <<durable, clock, cursor>>
    BY <1>7 DEF Group, InMemory, CheckpointInv, Initialized
  <2>2. QED
    BY <1>p, <2>1, ViewAdvances
<1>8. CASE Expired \/ ExpiredInCompletion
  <2>1. /\ InMemory /\ phase' = "list" /\ cursor' = clock /\ UNCHANGED <<durable, clock>>
    BY <1>8 DEF Expired, ExpiredInCompletion, InMemory, BeginScan, ScanCursor
  <2>2. QED
    BY <1>p, <2>1, ViewAdvances
<1>9. CASE Fail
  <2>1. /\ InMemory /\ phase' = "abort" /\ UNCHANGED <<durable, clock, cursor>>
    BY <1>9 DEF Fail, InMemory, view
  <2>2. QED
    BY <1>p, <2>1, ViewAdvances
<1>10. QED
  BY <1>1, <1>2, <1>3, <1>4, <1>5, <1>6, <1>7, <1>8, <1>9

\* The requests that change it: a repair, and the cycle's own mutations.
LEMMA MutationIsStep ==
  ASSUME CheckpointInv, Mutations \/ \E r \in task.repairs : Repair(r)
  PROVE  CheckpointInv' /\ AbstractStep
<1>p. clock \in Nat /\ (InMemory => cursor \in 0 .. clock)
  BY DEF CheckpointInv, PositionsInv
<1>1. ASSUME NEW r \in task.repairs, Repair(r) PROVE CheckpointInv' /\ AbstractStep
  <2>1. /\ InMemory /\ phase' \in {"repair", "abort"} /\ live'
        /\ UNCHANGED <<durable, cursor>> /\ clock' \in {clock, clock + 1}
    BY <1>1 DEF Repair, Repaired, Rename, InMemory, CheckpointInv, Initialized, provider
  <2>2. QED
    BY <1>p, <2>1, ViewAdvances
<1>2. ASSUME Mutating, phase' \in {"planned", "abort"}, clock' \in Nat, clock' >= clock
      PROVE  CheckpointInv' /\ AbstractStep
  <2>1. /\ InMemory /\ live' /\ UNCHANGED <<durable, cursor>>
    BY <1>2 DEF Mutating, InMemory, CheckpointInv, Initialized
  <2>2. QED
    BY <1>p, <1>2, <2>1, ViewAdvances
<1>3. ASSUME NEW i \in Id, WriteFile(i) \/ CreateFile(i) \/ RenamePath(i)
      PROVE  CheckpointInv' /\ AbstractStep
  <2>1. Mutating /\ phase = "planned"
    BY <1>3 DEF WriteFile, CreateFile, RenamePath, Mutating
  <2>2. phase' \in {phase, "abort"} /\ clock' \in {clock, clock + 1}
    BY <1>3 DEF WriteFile, CreateFile, RenamePath, Refused, provider
  <2>3. QED
    BY <1>p, <1>2, <2>1, <2>2
<1>4. ASSUME NEW path, DeletePath(path) PROVE CheckpointInv' /\ AbstractStep
  <2>1. Mutating /\ phase = "planned" /\ phase' \in {phase, "abort"}
    BY <1>4 DEF DeletePath, Mutating
  <2>2. PICK hit \in SUBSET Id : clock' = clock + Cardinality(hit)
    BY <1>4 DEF DeletePath
  <2>3. Cardinality(hit) \in Nat
    BY IdAssumption, FS_Subset, FS_CardinalityType
  <2>4. QED
    BY <1>p, <1>2, <2>1, <2>2, <2>3
<1>5. QED
  BY <1>1, <1>3, <1>4 DEF Mutations

\* The checkpoint is written: what is saved is the working view, and that was whole.
LEMMA CommitIsStep ==
  ASSUME CheckpointInv, Commit
  PROVE  CheckpointInv' /\ AbstractStep
<1>1. /\ phase = "planned" /\ phase' = "idle" /\ live /\ UNCHANGED <<cache, cursor, live, clock>>
      /\ durable' = {[cache |-> cache, cursor |-> cursor]}
  BY DEF Commit, Checkpointed, CheckpointInv, Initialized, view, provider
<1>2. CheckpointInv'
  BY <1>1 DEF CheckpointInv, Initialized, PositionsInv, InMemory
<1>3. Saved' = {[view |-> cache, position |-> cursor]}
  BY <1>1 DEF Saved
<1>4. /\ Working = {[view |-> cache, position |-> cursor, whole |-> TRUE]}
      /\ Working' = Working
  <2>1. (phase \in {"planned", "idle"}) = TRUE /\ (phase' \in {"planned", "idle"}) = TRUE
    BY <1>1
  <2>2. ~ (phase = "idle" /\ ~ live) /\ ~ (phase' = "idle" /\ ~ live')
    BY <1>1
  <2>3. Working = {[view |-> cache, position |-> cursor, whole |-> TRUE]}
    BY <2>1, <2>2 DEF Working
  <2>4. Working' = {[view |-> cache', position |-> cursor', whole |-> TRUE]}
    BY <2>1, <2>2 DEF Working
  <2>5. QED
    BY <1>1, <2>3, <2>4
<1>5. Checkpoint!Save
  BY <1>3, <1>4, MappingIs
<1>6. QED
  BY <1>2, <1>5 DEF AbstractStep, Checkpoint!Next

\* Every step is one of the abstract checkpoint, or none.
LEMMA StepIsCheckpointStep ==
  ASSUME CheckpointInv, [Next]_vars
  PROVE  CheckpointInv' /\ AbstractStep
<1>1. CASE OtherDevices
  <2>1. UNCHANGED <<view, durable, phase, task>> /\ clock' = clock + 1
    BY <1>1
       DEF OtherDevices, EditContent, EditName, EditParent, EditTrash, EditRestore, Edit
  <2>2. QED
    BY <2>1, LogGrows
<1>2. CASE Abort \/ Crash
  BY <1>2, ViewLost DEF Abort, Crash, Reads, provider
<1>3. CASE Reset
  <2>1. NoMemory /\ phase' = "idle" /\ UNCHANGED clock /\ durable' = {}
    BY <1>3 DEF Reset, provider
  <2>2. QED
    BY <2>1, ViewLost
<1>4. CASE UNCHANGED vars
  <2>1. CheckpointInv'
    BY <1>4 DEF vars, view, provider, CheckpointInv, Initialized, PositionsInv, InMemory
  <2>2. Working' = Working /\ Saved' = Saved
    BY <1>4 DEF vars, view, Working, Saved
  <2>3. QED
    BY <2>1, <2>2 DEF AbstractStep
<1>5. QED
  BY <1>1, <1>2, <1>3, <1>4, AcquisitionIsStep, MutationIsStep, CommitIsStep
     DEF Next, Cycle, Faults

LEMMA CheckpointInvHolds == Spec => []CheckpointInv
<1>1. Init => CheckpointInv
  BY DEF Init, CheckpointInv, Initialized, PositionsInv, InMemory
<1>2. CheckpointInv /\ [Next]_vars => CheckpointInv'
  BY StepIsCheckpointStep
<1>3. QED
  BY <1>1, <1>2, PTL DEF Spec

\* remote-fs.ts, for any drives, folders, listings, logs, edits of other devices,
\* failures and crashes: only a view that has drained the log, has its folders
\* complete and its contentions settled is written as the checkpoint, with the
\* cursor it was drained to; and in memory the cursor only moves forward, from the
\* saved one on, until the view is discarded.
THEOREM CachingRemoteKeepsCheckpoint == Spec => CheckpointSpec
<1>1. Init => Checkpoint!Init
  BY MappingIs DEF Init, Working, Saved
<1>2. CheckpointInv /\ [Next]_vars => AbstractStep
  BY StepIsCheckpointStep
<1>3. AbstractStep <=> Checkpoint!Next \/ UNCHANGED <<Working, Saved>>
  BY DEF AbstractStep
<1>4. QED
  BY <1>1, <1>2, <1>3, CheckpointInvHolds, PTL
     DEF Spec, CheckpointSpec, Checkpoint!Spec, Working, Saved
=============================================================================

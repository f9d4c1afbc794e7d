-------------------------- MODULE SyncCycle_proofs --------------------------
(***************************************************************************)
(* Proofs about SyncCycle for every set of paths and contents and any      *)
(* number of edits and faults.                                             *)
(*                                                                         *)
(* Typed says what an action holds at each of its steps.  ViewInv ties the *)
(* working view to the open actions, CursorInv and CacheInv say what a     *)
(* cursor vouches for, CoveredInv what the run has already brought to its  *)
(* records: from them a committed checkpoint hides no remote change.       *)
(* Stamped (a modification time tells a content), BasedInv (what a         *)
(* decision rests on), HeldInv (what an action last saw of a file is still *)
(* there) and BehindInv (a view falls behind its object through edits      *)
(* only) show that no step replaces the last copy of a version.            *)
(***************************************************************************)
EXTENDS SyncCycle, TLAPS

(* An action the cycle still has to carry out or to publish.                *)
Open(a) == a # None /\ a.step \notin {"done", "failed"}
(* The action was admitted on a file on either side.                        *)
Both(a) == a.local # None /\ a.remote # None
(* The action has captured what it will write.                              *)
Took(a) ==
  \/ a.step \in {"recheck", "write local", "write remote"}
  \/ a.step = "compare" /\ a.kind # "delete_remote"
  \/ a.step = "publish" /\ a.kind \in {"push", "pull", "conflict"}
(* The version an action takes when it takes the remote side.               *)
OfRemote(a) == [content |-> a.remote.content, mtime |-> a.remote.mtime]
(* A conflict that takes the remote side.                                   *)
Keeps(a) ==
  \/ a.local = None
  \/ a.remote # None /\ a.mode = "auto_merge" /\ a.local.mtime < a.remote.mtime

(* The steps each kind of action goes through.                              *)
KindAt(a) ==
  /\ a.step = "check" => a.kind \notin {"match", "refused"}
  /\ a.step \in {"capture", "recheck"} => a.kind \in {"push", "pull", "conflict"}
  /\ a.step = "write local" => a.kind \in {"pull", "conflict"}
  /\ a.step = "compare" => a.kind \in {"push", "conflict", "delete_remote"}
  /\ a.step = "write remote" => a.kind \in {"push", "conflict"}
  /\ a.step = "delete local" => a.kind = "delete_local"
  /\ a.step = "delete remote" => a.kind = "delete_remote"
  /\ a.step = "publish" => a.kind # "refused"
(* The sides each kind of action was admitted on.                           *)
Sides(a) ==
  /\ a.kind = "push" => a.local # None
  /\ a.kind = "pull" => a.remote # None
  /\ a.kind = "match" => Both(a) /\ a.local.content = a.remote.content
  /\ a.kind = "conflict" =>
       (a.local # None \/ a.remote # None) /\ a.mode \in {"preserve", "local_win", "auto_merge"}
  /\ a.kind \in {"delete_local", "cleanup"} => a.remote = None
  /\ a.kind = "delete_remote" => a.remote # None
(* What a captured action holds: a pull the remote version, a conflict the  *)
(* one of the two versions its strategy chooses, read from the file itself. *)
Taken(a) ==
  Took(a) =>
    /\ a.took # None
    /\ a.kind = "pull" => a.took = OfRemote(a)
    /\ a.kind = "conflict" =>
         /\ a.local # None => a.mine # None /\ a.local.content \in {None, a.mine}
         /\ IF Keeps(a) THEN a.took = OfRemote(a)
            ELSE a.took = [content |-> a.mine, mtime |-> a.local.mtime]
(* What an open action looks like.                                          *)
Proper(a) == Open(a) => KindAt(a) /\ Sides(a) /\ Taken(a)
(* Every action of the plan is a proper one.                                *)
ProperInv == \A p \in Path : plan[p] # None => Proper(plan[p])

(* The snapshot lives from the begin of a cycle to its end, the working     *)
(* view and the plan while it runs.  What changed behind the view is in the *)
(* log after its cursor.                                                    *)
SnapInv ==
  /\ phase \in {"snapped", "run", "ack"} <=> snap # None
  /\ phase = "run" <=> view # None
  /\ phase # "run" => \A p \in Path : plan[p] = None
  /\ stale \subseteq unread
(* The types, and the shape of a cycle.                                     *)
Typed == TypeOK /\ SnapInv /\ ProperInv

(* An action that has written to the provider and is about to publish.      *)
Written(a) == a.step = "publish" /\ a.kind \in {"push", "conflict", "delete_remote"}
(* The working view still shows the remote an open action was admitted on,  *)
(* or what the action itself wrote, which the log will report.              *)
ViewOf(p) ==
  IF Written(plan[p])
    THEN /\ p \in unread
         /\ plan[p].kind # "delete_remote" =>
              view[p] # None /\ view[p].content = plan[p].took.content
    ELSE view[p] = plan[p].remote
(* The working view is in line with the open actions.                       *)
ViewInv == \A p \in Path : Open(plan[p]) => ViewOf(p)

(* There is an identity no object of the path has.                          *)
LEMMA FreshIsIdentity ==
    ASSUME NEW p
    PROVE  FreshIdentity(p) \in Identity
  <1>1. \E i \in Identity : i # remote[p].id /\ i # record[p].id /\ i # durable[p].id
          /\ i # view[p].id /\ i # plan[p].remote.id
    <2> DEFINE a == remote[p].id  b == record[p].id  c == durable[p].id  d == view[p].id
               e == plan[p].remote.id
    <2> HIDE DEF a, b, c, d, e
    <2>1. ASSUME \A i \in Identity : i = a \/ i = b \/ i = c \/ i = d \/ i = e PROVE FALSE
      <3>1. /\ 0 \in Identity /\ 1 \in Identity /\ 2 \in Identity /\ 3 \in Identity
            /\ 4 \in Identity /\ 5 \in Identity
        BY DEF Identity
      <3> QED
        BY <2>1, <3>1
    <2>2. \E i \in Identity : i # a /\ i # b /\ i # c /\ i # d /\ i # e
      BY <2>1
    <2> QED
      BY <2>2 DEF a, b, c, d, e
  <1>2. \E i \in Identity : \A o \in {remote[p], record[p]}
                 \cup (IF durable = None THEN {} ELSE {durable[p]})
                 \cup (IF view = None THEN {} ELSE {view[p]})
                 \cup (IF plan[p] = None THEN {} ELSE {plan[p].remote}) :
            o # None => o.id # i
    BY <1>1
  <1> QED
    BY <1>2 DEF FreshIdentity

(* A write keeps the identity of what it writes to or takes a fresh one.    *)
LEMMA IdentityTyped ==
    ASSUME NEW p, NEW o \in RemoteObject \cup {None}
    PROVE  IdentityAt(p, o) \in Identity
  BY FreshIsIdentity DEF IdentityAt, RemoteObject

(* Advancing an action changes its step and nothing else of the plan.       *)
LEMMA AdvanceEffect ==
    ASSUME TypeOK, NEW p \in Path, NEW s \in Step, plan[p] # None, Advance(p, s)
    PROVE  /\ plan' \in [Path -> Action \cup {None}]
           /\ \A q \in Path \ {p} : plan'[q] = plan[q]
           /\ plan'[p] = [plan[p] EXCEPT !.step = s]
           /\ plan'[p] # None
  <1>1. plan[p] \in Action
    BY DEF TypeOK
  <1>2. [plan[p] EXCEPT !.step = s] \in Action
    BY <1>1 DEF Action
  <1>3. plan' = [plan EXCEPT ![p] = [plan[p] EXCEPT !.step = s]]
    BY DEF Advance, TypeOK
  <1>4. [plan[p] EXCEPT !.step = s] # None
    BY <1>2, NothingAssumption
  <1>5. plan \in [Path -> Action \cup {None}]
    BY DEF TypeOK
  <1> HIDE DEF Action
  <1> QED
    BY <1>2, <1>3, <1>4, <1>5

(* The fields of an action whose step changed.                              *)
LEMMA MovedFields ==
    ASSUME NEW a \in Action, NEW s \in Step, NEW b, b = [a EXCEPT !.step = s]
    PROVE  b.step = s /\ b.kind = a.kind /\ b.local = a.local /\ b.remote = a.remote
           /\ b.took = a.took /\ b.mine = a.mine /\ b.mode = a.mode
  BY DEF Action

(* The steps an action can take next without capturing anything.            *)
Moves(a, t) ==
  \/ t \in {"failed", "done"}
  \/ a.step = "check" /\ t = AfterCheck(a.kind)
  \/ a.step = "recheck" /\ t = IF a.kind = "push" THEN "compare" ELSE "write local"
  \/ a.step = "write local" /\ t = IF a.kind = "conflict" THEN "compare" ELSE "publish"
  \/ a.step = "compare" /\ t = IF a.kind = "delete_remote" THEN "delete remote"
                              ELSE "write remote"
  \/ a.step = "compare" /\ a.kind = "delete_remote" /\ t = "publish"
  \/ a.step \in {"write remote", "delete local", "delete remote"} /\ t = "publish"

(* An action that moves on stays what it should be.                         *)
LEMMA ProperMove ==
    ASSUME NEW a \in Action, a # None, Proper(a), a.step \notin {"done", "failed"}, NEW t,
           Moves(a, t)
    PROVE  t \in Step /\ Proper([a EXCEPT !.step = t])
  <1>1. t \in Step
    BY DEF Moves, AfterCheck, Step
  <1> DEFINE b == [a EXCEPT !.step = t]
  <1>2. b.step = t /\ b.kind = a.kind /\ b.local = a.local /\ b.remote = a.remote
        /\ b.took = a.took /\ b.mine = a.mine /\ b.mode = a.mode
    BY <1>1, MovedFields
  <1> HIDE DEF b
  <1>3. KindAt(a) /\ Sides(a) /\ Taken(a) /\ a.kind \in Kind
    BY DEF Proper, Open, Action
  <1>4. Sides(b)
    BY <1>2, <1>3 DEF Sides, Both
  <1>5. CASE t \in {"done", "failed"}
    BY <1>1, <1>2, <1>5 DEF Proper, Open, b
  <1>6. CASE a.step = "check" /\ t = AfterCheck(a.kind)
    <2>1. a.kind \in Kind \ {"match", "refused"}
      BY <1>3, <1>6 DEF KindAt
    <2>2. KindAt(b)
      BY <1>2, <2>1, <1>6 DEF KindAt, AfterCheck, Kind
    <2>3. ~Took(b)
      BY <1>2, <2>1, <1>6 DEF Took, AfterCheck, Kind
    <2> QED
      BY <1>1, <1>4, <2>2, <2>3 DEF Proper, b, Taken
  <1>7. CASE /\ a.step \in {"recheck", "write local", "compare", "write remote",
                  "delete local", "delete remote"}
             /\ t \notin {"done", "failed"}
    <2>1. KindAt(b)
      BY <1>2, <1>3, <1>7 DEF KindAt, Moves
    <2>2. Took(b) => Took(a)
      BY <1>2, <1>3, <1>7 DEF KindAt, Moves, Took
    <2>3. OfRemote(b) = OfRemote(a) /\ (Keeps(b) <=> Keeps(a))
      BY <1>2 DEF OfRemote, Keeps
    <2>4. Taken(b)
      BY <2>2, <2>3, <1>3, <1>2 DEF Taken
    <2> QED
      BY <1>1, <1>4, <2>1, <2>4 DEF Proper, b
  <1> QED
    BY <1>5, <1>6, <1>7 DEF Moves

(* The plan of one path changes.                                            *)
LEMMA ProperAfter ==
    ASSUME ProperInv, NEW p \in Path, \A q \in Path \ {p} : plan'[q] = plan[q],
           plan'[p] # None => Proper(plan'[p])
    PROVE  ProperInv'
  BY DEF ProperInv

(* A move keeps the plan one of actions and says what it leaves of the      *)
(* action.                                                                  *)
LEMMA MoveTyped ==
    ASSUME TypeOK, ProperInv, NEW p \in Path, NEW t, plan[p] # None, Open(plan[p]),
           Moves(plan[p], t), Advance(p, t)
    PROVE  /\ plan' \in [Path -> Action \cup {None}] /\ ProperInv'
           /\ \A q \in Path \ {p} : plan'[q] = plan[q]
           /\ plan'[p] # None /\ plan'[p] \in Action
           /\ plan'[p].step = t /\ plan'[p].kind = plan[p].kind
           /\ plan'[p].local = plan[p].local /\ plan'[p].remote = plan[p].remote
           /\ plan'[p].took = plan[p].took /\ plan'[p].mine = plan[p].mine
           /\ plan'[p].mode = plan[p].mode
  <1>1. plan[p] \in Action /\ Proper(plan[p]) /\ plan[p].step \notin {"done", "failed"}
    BY DEF TypeOK, ProperInv, Open
  <1>2. t \in Step /\ Proper([plan[p] EXCEPT !.step = t])
    BY <1>1, ProperMove
  <1>3. /\ plan' \in [Path -> Action \cup {None}]
        /\ \A q \in Path \ {p} : plan'[q] = plan[q]
        /\ plan'[p] = [plan[p] EXCEPT !.step = t]
        /\ plan'[p] # None
    BY <1>2, AdvanceEffect
  <1>4. ProperInv'
    BY <1>2, <1>3, ProperAfter
  <1>5. plan'[p] \in Action
    BY <1>3
  <1> QED
    BY <1>1, <1>2, <1>3, <1>4, <1>5, MovedFields

(* What is known of an action at a step that is not its last.               *)
LEMMA AtOpen ==
    ASSUME Typed, NEW p \in Path, NEW s \in Step \ {"done", "failed"}, At(p, s)
    PROVE  plan[p] # None /\ Open(plan[p]) /\ plan[p] \in Action /\ plan[p].step = s
           /\ KindAt(plan[p]) /\ Sides(plan[p]) /\ Taken(plan[p]) /\ phase = "run"
           /\ view \in [Path -> RemoteObject \cup {None}]
           /\ plan[p].kind \in Kind
  <1>1. plan[p] # None /\ plan[p].step = s /\ plan[p] \in Action /\ phase = "run"
    BY DEF At, TypeOK, Typed
  <1>2. plan[p].kind \in Kind
    BY <1>1 DEF Action
  <1>3. Open(plan[p])
    BY <1>1 DEF Open
  <1>4. Proper(plan[p])
    BY <1>1 DEF Typed, ProperInv
  <1>5. view \in [Path -> RemoteObject \cup {None}]
    BY <1>1 DEF Typed, TypeOK, SnapInv
  <1> QED
    BY <1>1, <1>2, <1>3, <1>4, <1>5 DEF Proper

(* The paths a log entry marks are paths.                                   *)
LEMMA LoggedTyped ==
    ASSUME TypeOK, NEW p \in Path, Logged(p)
    PROVE  unseen' \subseteq Path /\ unread' \subseteq Path
  BY DEF TypeOK, Logged

(* The check before the first effect keeps the shape of a cycle.            *)
LEMMA CheckTyped ==
    ASSUME Typed, NEW p \in Path, Check(p)
    PROVE  Typed'
  <1>1. At(p, "check") /\ "check" \in Step \ {"done", "failed"}
    BY DEF Check, Step
  <1> DEFINE t == IF LocalUnchanged(p) THEN AfterCheck(plan[p].kind) ELSE "failed"
  <1>2. Advance(p, t)
    BY DEF Check
  <1>3. Moves(plan[p], t)
    BY <1>1, AtOpen DEF Moves
  <1>4. plan' \in [Path -> Action \cup {None}] /\ ProperInv'
    BY <1>1, <1>2, <1>3, AtOpen, MoveTyped DEF Typed
  <1>5. TypeOK'
    BY <1>4 DEF Check, Typed, TypeOK, disk, provider, checkpoint, working, tracker, budget
  <1>6. SnapInv'
    BY <1>1 DEF Check, Typed, SnapInv, At, working
  <1> QED
    BY <1>4, <1>5, <1>6 DEF Typed

(* What a request does to the provider: the result replaces the object, or  *)
(* it goes to one that is no longer at the path.                            *)
LEMMA MutatesFacts ==
    ASSUME Typed, NEW p \in Path, Mutates(p)
    PROVE  /\ \E s \in {"write remote", "delete remote"} : At(p, s) /\ plan[p].step = s
           /\ Result(p) \in RemoteObject \cup {None}
           /\ plan[p].step = "delete remote" => Result(p) = None
           /\ plan[p].step = "write remote" =>
                /\ Result(p) \in RemoteObject /\ Result(p).content = plan[p].took.content
                /\ Result(p).mtime = plan[p].took.mtime
           /\ Logged(p)
           /\ \/ remote' = [remote EXCEPT ![p] = Result(p)]
              \/ p \in stale /\ remote' = remote
  <1>1. PICK s \in {"write remote", "delete remote"} : At(p, s)
    BY DEF Mutates
  <1>2. s \in Step \ {"done", "failed"}
    BY DEF Step
  <1>3. plan[p].step = s /\ KindAt(plan[p]) /\ Taken(plan[p]) /\ plan[p] \in Action
        /\ view \in [Path -> RemoteObject \cup {None}]
    BY <1>1, <1>2, AtOpen
  <1>4. /\ Logged(p)
        /\ \/ remote' = [remote EXCEPT ![p] = Result(p)]
           \/ p \in stale /\ remote' = remote
    BY DEF Mutates, Lands
  <1>5. s = "delete remote" => Result(p) = None
    BY <1>3 DEF KindAt, Result
  <1>6. ASSUME s = "write remote"
        PROVE  /\ Result(p) \in RemoteObject /\ Result(p).content = plan[p].took.content
               /\ Result(p).mtime = plan[p].took.mtime
    <2>1. plan[p].took \in Version
      BY <1>3, <1>6 DEF Taken, Took, Action
    <2>2. IdentityAt(p, view[p]) \in Identity
      BY <1>3, IdentityTyped
    <2>3. Uploaded(p) \in RemoteObject /\ Uploaded(p).content = plan[p].took.content
            /\ Uploaded(p).mtime = plan[p].took.mtime
      BY <2>1, <2>2 DEF Uploaded, RemoteObject, Version
    <2>4. Result(p) = Uploaded(p)
      BY <1>3, <1>6 DEF KindAt, Result
    <2> QED
      BY <2>3, <2>4
  <1> QED
    BY <1>1, <1>3, <1>4, <1>5, <1>6

(* The comparison before a request keeps the shape of a cycle.              *)
LEMMA CompareTyped ==
    ASSUME Typed, NEW p \in Path, Compare(p)
    PROVE  Typed'
  <1>1. At(p, "compare") /\ "compare" \in Step \ {"done", "failed"}
    BY DEF Compare, Step
  <1>2. PICK t : Advance(p, t) /\ Moves(plan[p], t)
    BY <1>1, AtOpen DEF Compare, Moves
  <1>3. plan' \in [Path -> Action \cup {None}] /\ ProperInv'
    BY <1>1, <1>2, AtOpen, MoveTyped DEF Typed
  <1>4. view' \in [Path -> RemoteObject \cup {None}]
    BY <1>1, AtOpen DEF Compare
  <1>5. UNCHANGED <<scope, disk, provider, record, checkpoint, unread, stale, tracker, phase,
                    snap, fatal, budget>>
    BY DEF Compare
  <1>6. TypeOK'
    BY <1>3, <1>4, <1>5 DEF Typed, TypeOK, disk, provider, checkpoint, tracker, budget
  <1>7. SnapInv'
    BY <1>1, <1>4, <1>5, NothingAssumption DEF Typed, SnapInv, At
  <1> QED
    BY <1>3, <1>6, <1>7 DEF Typed

(* A request keeps the types of the provider.                               *)
LEMMA MutatesTyped ==
    ASSUME Typed, NEW p \in Path, Mutates(p)
    PROVE  /\ remote' \in [Path -> RemoteObject \cup {None}]
           /\ unseen' \subseteq Path /\ unread' \subseteq Path
           /\ unread \cup {p} \subseteq unread'
  <1>1. PICK s \in {"write remote", "delete remote"} : At(p, s)
    BY DEF Mutates
  <1>2. s \in Step \ {"done", "failed"}
    BY DEF Step
  <1>3. view # None
    BY <1>1, <1>2, AtOpen DEF Typed, SnapInv
  <1>4. Logged(p)
    BY DEF Mutates
  <1>5. unread \cup {p} \subseteq unread'
    BY <1>3, <1>4 DEF Logged
  <1>6. remote' \in [Path -> RemoteObject \cup {None}]
    BY MutatesFacts DEF Typed, TypeOK
  <1> QED
    BY <1>4, <1>5, <1>6, LoggedTyped DEF Typed

(* An answered request keeps the shape of a cycle.                          *)
LEMMA MutateRemoteTyped ==
    ASSUME Typed, NEW p \in Path, MutateRemote(p)
    PROVE  Typed'
  <1>1. Mutates(p)
    BY DEF MutateRemote
  <1>2. PICK s \in {"write remote", "delete remote"} : At(p, s) /\ plan[p].step = s
    BY <1>1, MutatesFacts
  <1>3. s \in Step \ {"done", "failed"}
    BY DEF Step
  <1>4. Advance(p, "publish") /\ Moves(plan[p], "publish")
    BY <1>2 DEF MutateRemote, Moves
  <1>5. plan' \in [Path -> Action \cup {None}] /\ ProperInv'
    BY <1>2, <1>3, <1>4, AtOpen, MoveTyped DEF Typed
  <1>6. view' \in [Path -> RemoteObject \cup {None}]
    BY <1>1, <1>2, <1>3, AtOpen, MutatesFacts DEF MutateRemote
  <1>7. UNCHANGED <<scope, disk, record, checkpoint, stale, tracker, phase, snap, fatal, budget>>
    BY DEF MutateRemote
  <1>8. TypeOK'
    BY <1>1, <1>5, <1>6, <1>7, MutatesTyped DEF Typed, TypeOK, disk, checkpoint, tracker, budget
  <1>9. stale' \subseteq unread'
    BY <1>1, <1>7, MutatesTyped DEF Typed, SnapInv
  <1>10. SnapInv'
    BY <1>2, <1>6, <1>7, <1>9, NothingAssumption DEF Typed, SnapInv, At
  <1> QED
    BY <1>5, <1>8, <1>10 DEF Typed

(* A refused request keeps the shape of a cycle.                            *)
LEMMA RefuseRemoteTyped ==
    ASSUME Typed, NEW p \in Path, RefuseRemote(p)
    PROVE  Typed'
  <1>1. PICK s \in {"write remote", "delete remote"} : At(p, s)
    BY DEF RefuseRemote
  <1>2. s \in Step \ {"done", "failed"}
    BY DEF Step
  <1>3. Advance(p, "failed") /\ Moves(plan[p], "failed")
    BY DEF RefuseRemote, Moves
  <1>4. plan' \in [Path -> Action \cup {None}] /\ ProperInv'
    BY <1>1, <1>2, <1>3, AtOpen, MoveTyped DEF Typed
  <1>5. TypeOK'
    BY <1>4 DEF RefuseRemote, Typed, TypeOK, disk, provider, checkpoint, working, tracker, budget
  <1>6. SnapInv'
    BY <1>1 DEF RefuseRemote, Typed, SnapInv, At, working
  <1> QED
    BY <1>4, <1>5, <1>6 DEF Typed

(* The second check keeps the shape of a cycle.                             *)
LEMMA RecheckTyped ==
    ASSUME Typed, NEW p \in Path, Recheck(p)
    PROVE  Typed'
  <1>1. At(p, "recheck") /\ "recheck" \in Step \ {"done", "failed"}
    BY DEF Recheck, Step
  <1>2. PICK t : Advance(p, t) /\ Moves(plan[p], t)
    BY <1>1, AtOpen DEF Recheck, Moves
  <1>3. plan' \in [Path -> Action \cup {None}] /\ ProperInv'
    BY <1>1, <1>2, AtOpen, MoveTyped DEF Typed
  <1>7. TypeOK'
    BY <1>3 DEF Recheck, Typed, TypeOK, disk, provider, checkpoint, working, tracker, budget
  <1>8. SnapInv'
    BY <1>1 DEF Recheck, Typed, SnapInv, At, working
  <1> QED
    BY <1>3, <1>7, <1>8 DEF Typed

(* A write of the vault keeps the shape of a cycle.                         *)
LEMMA WriteLocalTyped ==
    ASSUME Typed, NEW p \in Path, WriteLocal(p)
    PROVE  Typed'
  <1>1. At(p, "write local") /\ "write local" \in Step \ {"done", "failed"}
    BY DEF WriteLocal, Step
  <1>2. PICK t : Advance(p, t) /\ Moves(plan[p], t)
    BY <1>1, AtOpen DEF WriteLocal, Moves
  <1>3. plan' \in [Path -> Action \cup {None}] /\ ProperInv'
    BY <1>1, <1>2, AtOpen, MoveTyped DEF Typed
  <1>5. plan[p].took \in Version
    BY ZenonT(60), <1>1, AtOpen DEF Taken, Took, Action
  <1>6. local' \in [Path -> Version \cup {None}]
    BY <1>5 DEF WriteLocal, Typed, TypeOK
  <1>7. TypeOK'
    BY <1>3, <1>6 DEF WriteLocal, Typed, TypeOK, provider, checkpoint, working, tracker, budget
  <1>8. SnapInv'
    BY <1>1 DEF WriteLocal, Typed, SnapInv, At, working
  <1> QED
    BY <1>3, <1>7, <1>8 DEF Typed

(* A deletion in the vault keeps the shape of a cycle.                      *)
LEMMA DeleteLocalTyped ==
    ASSUME Typed, NEW p \in Path, DeleteLocal(p)
    PROVE  Typed'
  <1>1. At(p, "delete local") /\ "delete local" \in Step \ {"done", "failed"}
    BY DEF DeleteLocal, Step
  <1>2. PICK t : Advance(p, t) /\ Moves(plan[p], t)
    BY <1>1, AtOpen DEF DeleteLocal, Moves
  <1>3. plan' \in [Path -> Action \cup {None}] /\ ProperInv'
    BY <1>1, <1>2, AtOpen, MoveTyped DEF Typed
  <1>4. kept' \in [Path -> SUBSET Content]
    BY DEF DeleteLocal, Typed, TypeOK, Version
  <1>5. local' \in [Path -> Version \cup {None}]
    BY DEF DeleteLocal, Typed, TypeOK
  <1>7. TypeOK'
    BY <1>3, <1>4, <1>5
       DEF DeleteLocal, Typed, TypeOK, provider, checkpoint, working, tracker, budget
  <1>8. SnapInv'
    BY <1>1 DEF DeleteLocal, Typed, SnapInv, At, working
  <1> QED
    BY <1>3, <1>7, <1>8 DEF Typed

(* A fault is counted within the bound.                                     *)
LEMMA FaultTyped ==
    ASSUME TypeOK, faults < MaxFaults, faults' = faults + 1
    PROVE  faults' \in 0 .. MaxFaults
  BY BoundAssumption DEF TypeOK

(* A lost response keeps the shape of a cycle.                              *)
LEMMA ResponseLostTyped ==
    ASSUME Typed, NEW p \in Path, ResponseLost(p)
    PROVE  Typed'
  <1>1. Mutates(p)
    BY DEF ResponseLost
  <1>2. PICK s \in {"write remote", "delete remote"} : At(p, s)
    BY <1>1, MutatesFacts
  <1>3. s \in Step \ {"done", "failed"}
    BY DEF Step
  <1>4. Advance(p, "failed") /\ Moves(plan[p], "failed")
    BY DEF ResponseLost, Moves
  <1>5. plan' \in [Path -> Action \cup {None}] /\ ProperInv'
    BY <1>2, <1>3, <1>4, AtOpen, MoveTyped DEF Typed
  <1>6. faults' \in 0 .. MaxFaults
    BY FaultTyped DEF ResponseLost, Typed
  <1>7. stale' = stale \cup {p}
    BY DEF ResponseLost
  <1>8. UNCHANGED <<scope, disk, record, checkpoint, view, tracker, phase, snap, fatal, edits>>
    BY DEF ResponseLost
  <1>9. stale' \subseteq Path /\ stale' \subseteq unread'
    BY <1>1, <1>7, MutatesTyped DEF Typed, TypeOK, SnapInv
  <1>10. TypeOK'
    BY <1>1, <1>5, <1>6, <1>8, <1>9, MutatesTyped DEF Typed, TypeOK, disk, checkpoint, tracker
  <1>11. SnapInv'
    BY <1>2, <1>3, <1>8, <1>9, AtOpen DEF Typed, SnapInv
  <1> QED
    BY <1>5, <1>10, <1>11 DEF Typed

(* Publishing keeps the shape of a cycle: the record it writes is an object *)
(* of the working view.                                                     *)
LEMMA PublishTyped ==
    ASSUME Typed, ViewInv, NEW p \in Path, Publish(p)
    PROVE  Typed'
  <1>1. At(p, "publish") /\ "publish" \in Step \ {"done", "failed"}
    BY DEF Publish, Step
  <1>2. PICK t : Advance(p, t) /\ Moves(plan[p], t)
    BY <1>1, AtOpen DEF Publish, Moves
  <1>3. plan' \in [Path -> Action \cup {None}] /\ ProperInv'
    BY <1>1, <1>2, AtOpen, MoveTyped DEF Typed
  <1>4. ASSUME Proved(p) PROVE Terminal(p) \in RemoteObject \cup {None}
    <2> DEFINE a == plan[p]
    <2>1. a \in Action /\ a.step = "publish" /\ a # None /\ Sides(a) /\ Taken(a) /\ Open(a)
          /\ view \in [Path -> RemoteObject \cup {None}] /\ a.kind \in Kind
      BY <1>1, AtOpen
    <2>2. ViewOf(p)
      BY <2>1 DEF ViewInv
    <2>3. local[p] \in Version \cup {None}
      BY DEF Typed, TypeOK
    <2>4. CASE a.kind \in {"push", "pull", "conflict"}
      <3>1. a.took \in Version
        BY <2>1, <2>4 DEF Taken, Took, Action
      <3>2. view[p] # None
        BY <2>1, <2>2, <2>4 DEF ViewOf, Written, Sides
      <3>3. view[p].id \in Identity
        BY <3>2, <2>1 DEF RemoteObject
      <3>4. a.kind # "push" => local[p].mtime \in Mtime
        BY <1>4, <2>3, <2>4, NothingAssumption DEF Proved, Version
      <3> QED
        BY <3>1, <3>3, <3>4, <2>4 DEF Terminal, RemoteObject, Version
    <2>5. CASE a.kind = "match"
      <3>1. a.remote \in RemoteObject /\ a.local.mtime \in Mtime
        BY <2>1, <2>5 DEF Sides, Both, Action
      <3> QED
        BY <3>1, <2>5 DEF Terminal, RemoteObject
    <2>6. CASE a.kind \notin {"push", "pull", "conflict", "match"}
      BY <2>6 DEF Terminal
    <2> QED
      BY <2>4, <2>5, <2>6
  <1>5. record' \in [Path -> RemoteObject \cup {None}]
    BY <1>4 DEF Publish, Typed, TypeOK
  <1>7. TypeOK'
    BY <1>3, <1>5
       DEF Publish, Typed, TypeOK, disk, provider, checkpoint, working, tracker, budget
  <1>8. SnapInv'
    BY <1>1 DEF Publish, Typed, SnapInv, At, working
  <1> QED
    BY <1>3, <1>7, <1>8 DEF Typed

(* A failing action keeps the shape of a cycle.                             *)
LEMMA FailsTyped ==
    ASSUME Typed, NEW p \in Path, Fails(p)
    PROVE  Typed'
  <1>1. phase = "run" /\ plan[p] # None /\ Open(plan[p])
    BY DEF Fails, Finished, Open
  <1>2. Advance(p, "failed") /\ Moves(plan[p], "failed")
    BY DEF Fails, Moves
  <1>3. plan' \in [Path -> Action \cup {None}] /\ ProperInv'
    BY <1>1, <1>2, MoveTyped DEF Typed
  <1>7. TypeOK'
    BY <1>3, BoundAssumption
       DEF Fails, Typed, TypeOK, disk, provider, checkpoint, working, tracker
  <1>8. SnapInv'
    BY <1>1 DEF Fails, Typed, SnapInv, working
  <1> QED
    BY <1>3, <1>7, <1>8 DEF Typed

(* What a capture chooses, reads and preserves.                             *)
LEMMA CaptureTakes ==
    ASSUME TypeOK, NEW p \in Path, plan[p] \in Action, Sides(plan[p]), Readable(p),
           plan[p].kind \in {"push", "pull", "conflict"}
    PROVE  LET a == plan[p]
               m == IF a.kind = "conflict" /\ a.local # None THEN local[p].content ELSE None
           IN /\ Chosen(p) \in Version /\ m \in Content \cup {None}
              /\ Preserved(p) \subseteq Content
              /\ a.kind = "pull" => Chosen(p) = OfRemote(a)
              /\ a.kind = "conflict" =>
                   /\ a.local # None => local[p] # None /\ local[p].content # None
                                        /\ a.local.content \in {None, local[p].content}
                   /\ IF Keeps(a) THEN Chosen(p) = OfRemote(a)
                      ELSE /\ Chosen(p) =
                                [content |-> local[p].content, mtime |-> a.local.mtime]
                           /\ a.local # None
  <1> DEFINE a == plan[p]
             m == IF a.kind = "conflict" /\ a.local # None THEN local[p].content ELSE None
  <1>1. local[p] \in Version \cup {None} /\ a.remote \in RemoteObject \cup {None}
        /\ remote[p] \in RemoteObject \cup {None}
        /\ a.local \in [content : Content \cup {None}, mtime : Mtime] \cup {None}
    BY DEF TypeOK, Action
  <1>2. local[p] # None => local[p].content \in Content /\ local[p].content # None
          /\ local[p].mtime \in Mtime
    BY <1>1, NoneAssumption DEF Version
  <1>3. a.local # None => a.local.mtime \in Mtime
    BY <1>1
  <1>4. a.remote # None => OfRemote(a) \in Version
    BY <1>1 DEF OfRemote, RemoteObject, Version
  <1>5. m \in Content \cup {None}
    BY <1>2 DEF Readable, LocalReadable
  <1>6. RemoteVersion(p) = OfRemote(a) /\ (KeepsRemote(p) <=> Keeps(a))
    BY DEF RemoteVersion, OfRemote, KeepsRemote, Keeps
  <1>7. a.kind # "pull" /\ a.local # None
          => local[p] # None /\ a.local.content \in {None, local[p].content}
    BY DEF Readable, LocalReadable
  <1>8. a.kind # "push" /\ a.remote # None
          => remote[p] # None /\ remote[p].content = a.remote.content
    BY DEF Readable, RemoteReadable
  <1>9. Preserved(p) \subseteq Content
    <2>1. remote[p] # None => remote[p].content \in Content
      BY <1>1 DEF RemoteObject
    <2>2. CASE a.kind = "conflict" /\ Duplicates(p)
      BY <2>1, <2>2, <1>2, <1>7, <1>8 DEF Preserved, Duplicates
    <2> QED
      BY <2>2 DEF Preserved
  <1>10. CASE a.kind = "push"
    <2>1. a.local # None
      BY <1>10 DEF Sides
    <2>2. Chosen(p) = local[p]
      BY <1>10 DEF Chosen
    <2> QED
      BY <1>1, <1>5, <1>7, <1>9, <1>10, <2>1, <2>2
  <1>11. CASE a.kind = "pull"
    <2>1. a.remote # None
      BY <1>11 DEF Sides
    <2>2. Chosen(p) = OfRemote(a)
      BY <1>6, <1>11 DEF Chosen
    <2> QED
      BY <1>4, <1>5, <1>9, <1>11, <2>1, <2>2
  <1>12. CASE a.kind = "conflict"
    <2>1. Chosen(p) = IF Keeps(a) THEN OfRemote(a)
            ELSE [content |-> local[p].content, mtime |-> a.local.mtime]
      BY <1>6, <1>12 DEF Chosen
    <2>2. Keeps(a) => a.remote # None
      BY <1>12 DEF Keeps, Sides
    <2>3. ~Keeps(a) => a.local # None
      BY DEF Keeps
    <2>4. Chosen(p) \in Version
      <3>1. CASE Keeps(a)
        BY <3>1, <2>1, <2>2, <1>4
      <3>2. CASE ~Keeps(a)
        BY <3>2, <2>1, <2>3, <1>2, <1>3, <1>7, <1>12 DEF Version
      <3> QED
        BY <3>1, <3>2
    <2> QED
      BY <2>1, <2>3, <2>4, <1>2, <1>5, <1>7, <1>9, <1>12
  <1> QED
    BY <1>10, <1>11, <1>12

(* A capture keeps the shape of a cycle.                                    *)
LEMMA CaptureTyped ==
    ASSUME Typed, NEW p \in Path, Capture(p)
    PROVE  Typed'
  <1>1. At(p, "capture") /\ "capture" \in Step \ {"done", "failed"}
    BY DEF Capture, Step
  <1> DEFINE a == plan[p]
             m == IF a.kind = "conflict" /\ a.local # None THEN local[p].content ELSE None
             b == [a EXCEPT !.step = "recheck", !.took = Chosen(p), !.mine = m]
  <1>2. /\ a \in Action /\ a # None /\ a.step = "capture"
        /\ a.kind \in {"push", "pull", "conflict"} /\ Sides(a)
    BY <1>1, AtOpen DEF KindAt
  <1>3. CASE ~(ContractHolds(p) /\ Readable(p))
    <2>1. Advance(p, "failed") /\ Moves(plan[p], "failed") /\ kept' = kept
      BY <1>3 DEF Capture, Moves
    <2>2. plan' \in [Path -> Action \cup {None}] /\ ProperInv'
      BY <1>1, <2>1, AtOpen, MoveTyped DEF Typed
    <2>3. TypeOK'
      BY <2>1, <2>2 DEF Capture, Typed, TypeOK, provider, checkpoint, working, tracker, budget
    <2>4. SnapInv'
      BY <1>1 DEF Capture, Typed, SnapInv, At, working
    <2> QED
      BY <2>2, <2>3, <2>4 DEF Typed
  <1>4. CASE ContractHolds(p) /\ Readable(p)
    <2>1. plan' = [plan EXCEPT ![p] = b] /\ kept' = [kept EXCEPT ![p] = @ \cup Preserved(p)]
      BY <1>4 DEF Capture
    <2>2. Chosen(p) \in Version /\ m \in Content \cup {None} /\ Preserved(p) \subseteq Content
      BY <1>2, <1>4, CaptureTakes DEF Typed
    <2>4. b \in Action
      BY <1>2, <2>2 DEF Action, Step
    <2>5. Proper(b)
      <3>1. b.step = "recheck" /\ b.took = Chosen(p) /\ b.mine = m /\ b.kind = a.kind
            /\ b.local = a.local /\ b.remote = a.remote /\ b.mode = a.mode
        BY <1>2 DEF Action
      <3> HIDE DEF b
      <3>2. KindAt(b) /\ Sides(b)
        BY <3>1, <1>2 DEF KindAt, Sides, Both
      <3>3. OfRemote(b) = OfRemote(a) /\ (Keeps(b) <=> Keeps(a))
        BY <3>1 DEF OfRemote, Keeps
      <3>4. Taken(b)
        <4>1. b.took # None
          BY <3>1, <2>2, NothingAssumption
        <4>2. b.kind = "pull" => b.took = OfRemote(b)
          BY <3>1, <3>3, <1>2, <1>4, CaptureTakes DEF Typed
        <4>3. ASSUME b.kind = "conflict"
              PROVE /\ b.local # None => b.mine # None /\ b.local.content \in {None, b.mine}
                    /\ IF Keeps(b) THEN b.took = OfRemote(b)
                       ELSE b.took = [content |-> b.mine, mtime |-> b.local.mtime]
          <5>1. a.kind = "conflict"
            BY <3>1, <4>3
          <5>2. /\ a.local # None => local[p] # None /\ local[p].content # None
                     /\ a.local.content \in {None, local[p].content}
                /\ IF Keeps(a) THEN Chosen(p) = OfRemote(a)
                   ELSE /\ Chosen(p) =
                             [content |-> local[p].content, mtime |-> a.local.mtime]
                        /\ a.local # None
            BY <5>1, <1>2, <1>4, CaptureTakes DEF Typed
          <5> QED
            BY <5>1, <5>2, <3>1, <3>3
        <4> QED
          BY <4>1, <4>2, <4>3 DEF Taken
      <3> QED
        BY <3>2, <3>4 DEF Proper
    <2> HIDE DEF b
    <2>6. b # None
      BY <2>4, NothingAssumption
    <2>7. plan' \in [Path -> Action \cup {None}] /\ plan'[p] = b
            /\ \A q \in Path \ {p} : plan'[q] = plan[q]
      BY <2>1, <2>4 DEF Typed, TypeOK
    <2>8. ProperInv'
      BY <2>5, <2>7, ProperAfter DEF Typed
    <2>9. kept' \in [Path -> SUBSET Content]
      BY <2>1, <2>2 DEF Typed, TypeOK
    <2>10. TypeOK'
      BY <2>7, <2>9 DEF Capture, Typed, TypeOK, provider, checkpoint, working, tracker, budget
    <2>11. SnapInv'
      BY <1>1 DEF Capture, Typed, SnapInv, At, working
    <2> QED
      BY <2>8, <2>10, <2>11 DEF Typed
  <1> QED
    BY <1>3, <1>4

(* An edit is counted within the bound and stamps a time that is one.       *)
LEMMA EditTyped ==
    ASSUME Typed, NEW p \in Path, Budgeted
    PROVE  edits' \in 0 .. MaxEdits /\ faults' \in 0 .. MaxFaults /\ Now \in Mtime
  BY BoundAssumption DEF Typed, TypeOK, Budgeted, Now, Mtime

(* An event leaves marks on paths.                                          *)
LEMMA RaiseTyped ==
    ASSUME Typed, NEW p \in Path, Raise(p)
    PROVE  event' \subseteq Path /\ late' \subseteq Path
  BY DEF Typed, TypeOK, Raise, LookedLast

(* A step that leaves the phase, the snapshot and the plan alone keeps the  *)
(* shape of a cycle.                                                        *)
LEMMA ShapeKept ==
    ASSUME SnapInv, ProperInv, UNCHANGED <<phase, snap, plan>>, view' = None <=> view = None,
           stale \subseteq unread => stale' \subseteq unread'
    PROVE  SnapInv' /\ ProperInv'
  BY DEF SnapInv, ProperInv

(* What a user does keeps the shape of a cycle.                             *)
LEMMA UserTyped ==
    ASSUME Typed, NEW p \in Path, NEW c,
           \/ LocalDelete(p) \/ RemoteDelete(p)
           \/ c \in Content /\ (LocalEdit(p, c) \/ QuietEdit(p, c) \/ RemoteEdit(p, c))
    PROVE  Typed'
  <1>1. /\ UNCHANGED <<phase, snap, plan, view>>
        /\ stale \subseteq unread => stale' \subseteq unread'
    BY DEF LocalDelete, RemoteDelete, LocalEdit, QuietEdit, RemoteEdit, working, Logged
  <1>2. SnapInv' /\ ProperInv'
    BY <1>1, ShapeKept DEF Typed
  <1>3. CASE c \in Content /\ LocalEdit(p, c)
    <2>1. [content |-> c, mtime |-> Now] \in Version
      BY <1>3, EditTyped DEF LocalEdit, Version
    <2>2. TypeOK'
      BY <1>3, <2>1, EditTyped, RaiseTyped
         DEF LocalEdit, Typed, TypeOK, provider, checkpoint, working, tracker
    <2> QED
      BY <1>2, <2>2 DEF Typed
  <1>4. CASE c \in Content /\ QuietEdit(p, c)
    <2>1. local' \in [Path -> Version \cup {None}]
      BY <1>4 DEF QuietEdit, Typed, TypeOK, Version
    <2>2. TypeOK'
      BY <1>4, <2>1, EditTyped, RaiseTyped
         DEF QuietEdit, Typed, TypeOK, provider, checkpoint, working, tracker
    <2> QED
      BY <1>2, <2>2 DEF Typed
  <1>5. CASE LocalDelete(p)
    <2>2. TypeOK'
      BY <1>5, EditTyped, RaiseTyped
         DEF LocalDelete, Typed, TypeOK, provider, checkpoint, working, tracker
    <2> QED
      BY <1>2, <2>2 DEF Typed
  <1>6. CASE c \in Content /\ RemoteEdit(p, c)
    <2>1. remote[p] \in RemoteObject \cup {None}
      BY DEF Typed, TypeOK
    <2> DEFINE o == [content |-> c, mtime |-> Now, id |-> IdentityAt(p, remote[p])]
    <2>2. o \in RemoteObject
      BY <1>6, <2>1, IdentityTyped, EditTyped DEF RemoteEdit, RemoteObject
    <2>3. remote' = [remote EXCEPT ![p] = o]
      BY <1>6 DEF RemoteEdit
    <2> HIDE DEF o
    <2>4. remote' \in [Path -> RemoteObject \cup {None}]
      BY <2>2, <2>3 DEF Typed, TypeOK
    <2>5. stale' \subseteq Path
      BY <1>6 DEF RemoteEdit, Typed, TypeOK
    <2>6. /\ edits' \in 0 .. MaxEdits /\ faults' \in 0 .. MaxFaults
          /\ unseen' \subseteq Path /\ unread' \subseteq Path
      BY <1>6, EditTyped, LoggedTyped DEF RemoteEdit, Typed
    <2>7. UNCHANGED <<scope, disk, record, checkpoint, view, tracker, phase, snap, plan, fatal>>
      BY <1>6 DEF RemoteEdit
    <2>8. TypeOK'
      BY <2>4, <2>5, <2>6, <2>7 DEF Typed, TypeOK, disk, checkpoint, tracker
    <2> QED
      BY <1>2, <2>8 DEF Typed
  <1>7. CASE RemoteDelete(p)
    <2>4. remote' \in [Path -> RemoteObject \cup {None}] /\ stale' \subseteq Path
      BY <1>7 DEF RemoteDelete, Typed, TypeOK
    <2>6. /\ edits' \in 0 .. MaxEdits /\ faults' \in 0 .. MaxFaults
          /\ unseen' \subseteq Path /\ unread' \subseteq Path
      BY <1>7, EditTyped, LoggedTyped DEF RemoteDelete, Typed
    <2>7. UNCHANGED <<scope, disk, record, checkpoint, view, tracker, phase, snap, plan, fatal>>
      BY <1>7 DEF RemoteDelete
    <2>8. TypeOK'
      BY <2>4, <2>6, <2>7 DEF Typed, TypeOK, disk, checkpoint, tracker
    <2> QED
      BY <1>2, <2>8 DEF Typed
  <1> QED
    BY <1>3, <1>4, <1>5, <1>6, <1>7

(* Delivering an event keeps the shape of a cycle.                          *)
LEMMA DeliverTyped ==
    ASSUME Typed, NEW p \in Path, Deliver(p)
    PROVE  Typed'
  <1>1. SnapInv' /\ ProperInv'
    BY ShapeKept DEF Deliver, Typed, working
  <1>2. TypeOK'
    BY DEF Deliver, Typed, TypeOK, NotExcluded, provider, checkpoint, working, budget
  <1> QED
    BY <1>1, <1>2 DEF Typed

(* A new scope keeps the shape of a cycle.                                  *)
LEMMA ChangeScopeTyped ==
    ASSUME Typed, ChangeScope
    PROVE  Typed'
  <1>1. SnapInv' /\ ProperInv'
    BY ShapeKept DEF ChangeScope, Typed, working
  <1>2. edits' \in 0 .. MaxEdits /\ faults' \in 0 .. MaxFaults
    BY BoundAssumption DEF ChangeScope, Budgeted, Typed, TypeOK
  <1>3. TypeOK'
    BY <1>2 DEF ChangeScope, Typed, TypeOK, disk, provider, checkpoint, working, tracker
  <1> QED
    BY <1>1, <1>3 DEF Typed

(* A crash keeps the shape of a cycle.                                      *)
LEMMA CrashTyped ==
    ASSUME Typed, Crash
    PROVE  Typed'
  <1>1. SnapInv' /\ ProperInv'
    BY DEF Crash, SnapInv, ProperInv
  <1>2. faults' \in 0 .. MaxFaults
    BY BoundAssumption DEF Crash, Typed, TypeOK
  <1>3. TypeOK'
    BY <1>2 DEF Crash, Typed, TypeOK, provider, checkpoint
  <1> QED
    BY <1>1, <1>3 DEF Typed

(* A restart keeps the shape of a cycle.                                    *)
LEMMA RestartTyped ==
    ASSUME Typed, Restart
    PROVE  Typed'
  <1>1. SnapInv' /\ ProperInv'
    BY DEF Restart, Typed, SnapInv, ProperInv, working
  <1>3. TypeOK'
    BY DEF Restart, Typed, TypeOK, disk, provider, checkpoint, working, tracker, budget
  <1> QED
    BY <1>1, <1>3 DEF Typed

(* A requested rescan keeps the shape of a cycle.                           *)
LEMMA RescanTyped ==
    ASSUME Typed, Rescan
    PROVE  Typed'
  <1>1. SnapInv' /\ ProperInv'
    BY ShapeKept DEF Rescan, Typed, working
  <1>2. faults' \in 0 .. MaxFaults
    BY BoundAssumption DEF Rescan, Typed, TypeOK
  <1>3. TypeOK'
    BY <1>2 DEF Rescan, Typed, TypeOK, disk, working, tracker
  <1> QED
    BY <1>1, <1>3 DEF Typed

(* The begin of a cycle fixes a snapshot.                                   *)
LEMMA BeginTyped ==
    ASSUME Typed, Begin
    PROVE  Typed'
  <1>1. PICK strategy \in Strategies : snap' = [dirty |-> dirty, initialized |-> initialized,
                   force |-> ForcesFullScan,
                   fingerprint |-> ScopeFingerprint, strategy |-> strategy,
                   included |-> {}]
    BY DEF Begin
  <1>2. snap' \in Snapshot
    BY <1>1 DEF Snapshot, Typed, TypeOK, ForcesFullScan, HasCheckpoint, ScopeFingerprint
  <1>3. snap' # None
    BY <1>2, NothingAssumption
  <1>4. SnapInv' /\ ProperInv'
    BY <1>3 DEF Begin, Typed, SnapInv, ProperInv, working
  <1>5. TypeOK'
    BY <1>2 DEF Begin, Typed, TypeOK, disk, provider, checkpoint, working, budget
  <1> QED
    BY <1>4, <1>5 DEF Typed

(* A failed collection ends the cycle.                                      *)
LEMMA CollectFailsTyped ==
    ASSUME Typed, CollectFails
    PROVE  Typed'
  <1>1. SnapInv' /\ ProperInv'
    BY DEF CollectFails, Typed, SnapInv, ProperInv, working
  <1>2. faults' \in 0 .. MaxFaults
    BY BoundAssumption DEF CollectFails, Typed, TypeOK
  <1>3. TypeOK'
    BY <1>2 DEF CollectFails, Typed, TypeOK, disk, provider, checkpoint, working
  <1> QED
    BY <1>1, <1>3 DEF Typed

(* The acknowledgement ends the cycle.                                      *)
LEMMA AcknowledgeTyped ==
    ASSUME Typed, Acknowledge
    PROVE  Typed'
  <1>1. SnapInv' /\ ProperInv'
    BY DEF Acknowledge, Typed, SnapInv, ProperInv, working
  <1>3. TypeOK'
    BY DEF Acknowledge, Typed, TypeOK, disk, provider, checkpoint, working, budget
  <1> QED
    BY <1>1, <1>3 DEF Typed

(* Giving up the working view leaves no plan and no view.                   *)
LEMMA DiscardTyped ==
    ASSUME Typed, DiscardView
    PROVE  /\ ProperInv' /\ view' = None /\ \A p \in Path : plan'[p] = None
           /\ plan' \in [Path -> Action \cup {None}] /\ fatal' \in BOOLEAN
           /\ unread' \subseteq Path /\ stale' \subseteq Path /\ stale' \subseteq unread'
  BY DEF DiscardView, ProperInv

(* A commit keeps the shape of a cycle.                                     *)
LEMMA CommitTyped ==
    ASSUME Typed, Commit
    PROVE  Typed'
  <1>1. phase = "run" /\ snap # None /\ snap \in Snapshot
    BY DEF Commit, Typed, SnapInv, TypeOK
  <1>2. SnapInv' /\ ProperInv'
    BY <1>1, DiscardTyped DEF Commit, SnapInv
  <1>3. vouched' \subseteq Path /\ missed' \subseteq vouched'
    BY <1>1 DEF Commit, Vouch, Snapshot, Typed, TypeOK
  <1>4. TypeOK'
    BY <1>3, DiscardTyped DEF Commit, Typed, TypeOK, disk, tracker, budget
  <1> QED
    BY <1>2, <1>4 DEF Typed

(* Abandoning a cycle, for good or to repeat it, keeps its shape.           *)
LEMMA AbandonRepeatTyped ==
    ASSUME Typed, Abandon \/ Repeat, edits' = edits, faults' \in 0 .. MaxFaults, phase = "run"
    PROVE  Typed'
  <1>1. DiscardView
    BY DEF Abandon, Repeat
  <1>2. SnapInv' /\ ProperInv'
    BY <1>1, DiscardTyped DEF Abandon, Repeat, Typed, SnapInv
  <1>3. TypeOK'
    BY <1>1, DiscardTyped
       DEF Abandon, Repeat, Typed, TypeOK, disk, provider, checkpoint, tracker
  <1> QED
    BY <1>2, <1>3 DEF Typed

(* An incomplete close and a failed commit keep the shape of a cycle.       *)
LEMMA CloseTyped ==
    ASSUME Typed, CloseIncomplete \/ CommitFails
    PROVE  Typed'
  <1>1. edits' = edits /\ faults' \in 0 .. MaxFaults /\ phase = "run" /\ (Abandon \/ Repeat)
    BY BoundAssumption DEF CloseIncomplete, CommitFails, Typed, TypeOK, budget
  <1> QED
    BY <1>1, AbandonRepeatTyped

(* What the acquisition holds is objects.                                   *)
LEMMA AcquiredTyped ==
    ASSUME TypeOK
    PROVE  Acquired \in [Path -> RemoteObject \cup {None}]
  BY DEF TypeOK, Acquired

(* What the comparison of two files says about them.                        *)
LEMMA BothCompared ==
    ASSUME NEW p, NEW l, NEW r, NEW b, NEW k, k = ComparedBoth(p, l, r, b)
    PROVE  /\ k \in {"match", "conflict", "push", "pull", None}
           /\ k = "match" => Same(p)
           /\ k = "push" => ~NoBase(r, b) /\ ~RemoteDiffers(r, b)
           /\ k = "pull" => ~NoBase(r, b) /\ ~LocalDiffers(l, b)
           /\ k = None => ~NoBase(r, b) /\ ~RemoteDiffers(r, b)
  <1> DEFINE ld == NoBase(r, b) \/ LocalDiffers(l, b)
             rd == NoBase(r, b) \/ RemoteDiffers(r, b)
  <1>1. k = CASE Same(p) /\ (ld \/ rd) -> "match"
          [] ~Same(p) /\ ld /\ rd -> "conflict"
          [] ~Same(p) /\ ld /\ ~rd -> "push"
          [] ~Same(p) /\ ~ld /\ rd -> "pull"
          [] OTHER -> None
    BY DEF ComparedBoth
  <1> HIDE DEF ld, rd
  <1>2. \/ k = "match" /\ Same(p)
        \/ k = "conflict"
        \/ k = "push" /\ ~rd
        \/ k = "pull" /\ ~ld
        \/ k = None /\ ~rd /\ ~ld
    BY <1>1
  <1> QED
    BY <1>2, NothingAssumption DEF ld, rd, Kind

(* What the comparison of the two sides says about them.                    *)
LEMMA ComparedKind ==
    ASSUME NEW p, NEW l, NEW r, NEW b, NEW k, k = Compared(p, l, r, b)
    PROVE  /\ k \in (Kind \ {"refused"}) \cup {None}
           /\ k = "match" => l # None /\ r # None /\ Same(p)
           /\ k = "push" => l # None /\ (r # None => ~NoBase(r, b) /\ ~RemoteDiffers(r, b))
           /\ k = "pull" => r # None /\ (l # None => ~NoBase(r, b) /\ ~LocalDiffers(l, b))
           /\ k = "conflict" => l # None \/ r # None
           /\ k = "delete_local" => l # None /\ r = None /\ b # None /\ ~LocalDiffers(l, b)
           /\ k = "delete_remote" => l = None /\ r # None /\ b # None /\ ~RemoteDiffers(r, b)
           /\ k = "cleanup" => l = None /\ r = None /\ b # None
           /\ k = None /\ r # None => ~NoBase(r, b) /\ ~RemoteDiffers(r, b)
  <1>1. k = CASE l # None /\ r # None -> ComparedBoth(p, l, r, b)
      [] l # None /\ r = None /\ b = None -> "push"
      [] l = None /\ r # None /\ b = None -> "pull"
      [] l # None /\ r = None /\ b # None ->
            IF LocalDiffers(l, b) THEN "conflict" ELSE "delete_local"
      [] l = None /\ r # None /\ b # None ->
            IF RemoteDiffers(r, b) THEN "conflict" ELSE "delete_remote"
      [] l = None /\ r = None -> IF b = None THEN None ELSE "cleanup"
    BY DEF Compared
  <1>2. CASE l # None /\ r # None
    <2>1. k = ComparedBoth(p, l, r, b)
      BY <1>1, <1>2
    <2> QED
      BY <2>1, <1>2, BothCompared, NothingAssumption DEF Kind
  <1>3. CASE ~(l # None /\ r # None)
    <2>1. \/ l # None /\ r = None /\ b = None /\ k = "push"
          \/ l = None /\ r # None /\ b = None /\ k = "pull"
          \/ l # None /\ r = None /\ b # None /\ LocalDiffers(l, b) /\ k = "conflict"
          \/ l # None /\ r = None /\ b # None /\ ~LocalDiffers(l, b) /\ k = "delete_local"
          \/ l = None /\ r # None /\ b # None /\ RemoteDiffers(r, b) /\ k = "conflict"
          \/ l = None /\ r # None /\ b # None /\ ~RemoteDiffers(r, b) /\ k = "delete_remote"
          \/ l = None /\ r = None /\ b = None /\ k = None
          \/ l = None /\ r = None /\ b # None /\ k = "cleanup"
      BY <1>1, <1>3
    <2> QED
      BY <2>1, NothingAssumption DEF Kind
  <1> QED
    BY <1>2, <1>3

(* What collection knows of a local file is true of it.                     *)
LEMMA KnownTyped ==
    ASSUME TypeOK, NEW p \in Path, NEW l \in {Known(p), Observed(p), Stated(p)}
    PROVE  /\ l = None <=> local[p] = None
           /\ l # None => /\ l \in [content : Content \cup {None}, mtime : Mtime]
                          /\ l.mtime = local[p].mtime /\ l.content \in {None, local[p].content}
           /\ local[p] # None => local[p].content \in Content /\ local[p].content # None
           /\ l # None /\ l.content # None => l.content = local[p].content
  <1>1. l \in {Listed(p), Stated(p)}
    BY DEF Known, Observed
  <1>2. local[p] \in Version \cup {None}
    BY DEF TypeOK
  <1>3. local[p] # None => [content |-> None,
          mtime |-> local[p].mtime] \in [content : Content \cup {None}, mtime : Mtime]
    BY <1>2 DEF Version
  <1>4. l = Listed(p) \/ l = Stated(p)
    BY <1>1
  <1>5. CASE l = Stated(p)
    BY <1>2, <1>5, NoneAssumption, NothingAssumption DEF Stated, Version
  <1>6. CASE l = Listed(p)
    <2>1. CASE local[p] = None
      BY <2>1, <1>6 DEF Listed
    <2>2. CASE local[p] # None
      <3>1. l = [content |-> None, mtime |-> local[p].mtime]
        BY <2>2, <1>6 DEF Listed
      <3>2. l # None
        BY <3>1, <1>3, <2>2, NothingAssumption
      <3>3. l.content = None /\ l.mtime = local[p].mtime
        BY <3>1
      <3>4. l \in [content : Content \cup {None}, mtime : Mtime]
        BY <3>1, <1>3, <2>2
      <3>5. local[p].content \in Content /\ local[p].content # None
        BY <2>2, <1>2, NoneAssumption DEF Version
      <3> QED
        BY <3>2, <3>3, <3>4, <3>5, <2>2
    <2> QED
      BY <2>1, <2>2
  <1> QED
    BY <1>4, <1>5, <1>6

(* Files that count as the same have the same content.                      *)
LEMMA SameTruth ==
    ASSUME TypeOK, NEW p \in Path, Same(p), local[p] # None, Acquired[p] # None
    PROVE  local[p].content = Acquired[p].content
  <1>1. CASE Enriched(p)
    BY <1>1 DEF Same
  <1>2. CASE ~Enriched(p)
    <2>1. SameContent(p, Observed(p), Acquired[p])
      BY <1>2 DEF Same
    <2> QED
      BY <2>1, KnownTyped DEF SameContent
  <1> QED
    BY <1>1, <1>2

(* What admission says of a path.                                           *)
LEMMA AdmittedFacts ==
    ASSUME TypeOK, NEW p \in Path, NEW k, k = Admitted(p)
    PROVE  LET l == Known(p)  r == Acquired[p]  b == record[p]
           IN /\ k \in Kind \cup {None}
              /\ k = "match" => local[p] # None /\ r # None /\ local[p].content = r.content
              /\ k = "push" => l # None /\ (r # None => ~NoBase(r, b) /\ ~RemoteDiffers(r, b))
              /\ k = "pull" => r # None /\ (l # None => ~NoBase(r, b) /\ ~LocalDiffers(l, b))
              /\ k = "conflict" => l # None \/ r # None
              /\ k = "delete_local" => l # None /\ r = None /\ b # None /\ ~LocalDiffers(l, b)
              /\ k = "delete_remote" => l = None /\ r # None /\ b # None /\ ~RemoteDiffers(r, b)
              /\ k = "cleanup" => l = None /\ r = None /\ b # None
              /\ k = None /\ r # None => ~NoBase(r, b) /\ ~RemoteDiffers(r, b)
  <1> DEFINE c == Compared(p, Known(p), Acquired[p], record[p])
  <1>1. k = IF c = "delete_local" /\ ~DeletionAuthority(p) THEN "refused" ELSE c
    BY DEF Admitted
  <1>2. /\ c \in (Kind \ {"refused"}) \cup {None}
        /\ c = "match" => Known(p) # None /\ Acquired[p] # None /\ Same(p)
        /\ c = "push" => Known(p) # None
             /\ (Acquired[p] # None
                  => ~NoBase(Acquired[p], record[p]) /\ ~RemoteDiffers(Acquired[p], record[p]))
        /\ c = "pull" => Acquired[p] # None
             /\ (Known(p) # None
                  => ~NoBase(Acquired[p], record[p]) /\ ~LocalDiffers(Known(p), record[p]))
        /\ c = "conflict" => Known(p) # None \/ Acquired[p] # None
        /\ c = "delete_local"
             => Known(p) # None /\ Acquired[p] = None /\ record[p] # None
               /\ ~LocalDiffers(Known(p), record[p])
        /\ c = "delete_remote"
             => Known(p) = None /\ Acquired[p] # None /\ record[p] # None
               /\ ~RemoteDiffers(Acquired[p], record[p])
        /\ c = "cleanup" => Known(p) = None /\ Acquired[p] = None /\ record[p] # None
        /\ c = None /\ Acquired[p] # None
             => ~NoBase(Acquired[p], record[p]) /\ ~RemoteDiffers(Acquired[p], record[p])
    BY ComparedKind
  <1>3. Known(p) = None <=> local[p] = None
    BY KnownTyped
  <1>4. c = "match" => local[p] # None /\ Acquired[p] # None
          /\ local[p].content = Acquired[p].content
    BY <1>2, <1>3, SameTruth
  <1> HIDE DEF c
  <1> QED
    BY <1>1, <1>2, <1>4, NothingAssumption DEF Kind

(* A conflict has a mode, and local wins only with its proof.               *)
LEMMA ModeTyped ==
    ASSUME NEW p
    PROVE  /\ ConflictMode(p) \in {"preserve", "local_win", "auto_merge", None}
           /\ Admitted(p) = "conflict"
                => ConflictMode(p) \in {"preserve", "local_win", "auto_merge"}
           /\ ConflictMode(p) = "local_win" => LocalWinProof(Known(p), Acquired[p], record[p])
  <1> DEFINE w == snap.strategy = "prefer_local"
             /\ LocalWinProof(Known(p), Acquired[p], record[p])
  <1>1. ConflictMode(p) =
    CASE Admitted(p) # "conflict" -> None
      [] Admitted(p) = "conflict" /\ snap.strategy = "auto_merge" -> "auto_merge"
      [] OTHER -> IF w THEN "local_win" ELSE "preserve"
    BY DEF ConflictMode
  <1>2. \/ Admitted(p) # "conflict" /\ ConflictMode(p) = None
        \/ Admitted(p) = "conflict" /\ ConflictMode(p) \in {"preserve", "auto_merge"}
        \/ Admitted(p) = "conflict" /\ ConflictMode(p) = "local_win" /\ w
    BY <1>1
  <1> QED
    BY <1>2, NothingAssumption

(* An admitted action is an action, and a proper one.                       *)
LEMMA AdmittedTyped ==
    ASSUME TypeOK, NEW p \in Path, Admitted(p) # None
    PROVE  AdmittedAction(p) \in Action /\ Proper(AdmittedAction(p))
  <1> DEFINE k == Admitted(p)  a == AdmittedAction(p)
  <1>1. k \in Kind
    BY AdmittedFacts
  <1>2. AdmittedLocal(p) \in [content : Content \cup {None}, mtime : Mtime] \cup {None}
    BY KnownTyped DEF AdmittedLocal
  <1>3. Acquired[p] \in RemoteObject \cup {None}
    BY AcquiredTyped
  <1>4. FirstStep(k) = CASE k = "match" -> "publish" [] k = "refused" -> "failed"
          [] OTHER -> "check"
    BY DEF FirstStep
  <1>5. \/ k = "match" /\ FirstStep(k) = "publish"
        \/ k = "refused" /\ FirstStep(k) = "failed"
        \/ k \notin {"match", "refused"} /\ FirstStep(k) = "check"
    BY <1>4
  <1>6. FirstStep(k) \in Step
    BY <1>5 DEF Step
  <1>7. a = [kind |-> k, step |-> FirstStep(k), local |-> AdmittedLocal(p),
          remote |-> Acquired[p],
             took |-> None, mine |-> None, mode |-> ConflictMode(p)]
    BY DEF AdmittedAction
  <1>8. a \in Action
    BY <1>1, <1>2, <1>3, <1>6, <1>7, ModeTyped DEF Action
  <1>9. /\ a.kind = k /\ a.step = FirstStep(k) /\ a.local = AdmittedLocal(p)
        /\ a.remote = Acquired[p]
        /\ a.mode = ConflictMode(p)
    BY <1>7
  <1> HIDE DEF a
  <1>10. KindAt(a)
    BY <1>5, <1>9 DEF KindAt
  <1>11. ~Took(a)
    BY <1>5, <1>9 DEF Took
  <1>12. k # "match" => AdmittedLocal(p) = Known(p)
    BY DEF AdmittedLocal
  <1>13. k = "match" => AdmittedLocal(p) = local[p]
    BY DEF AdmittedLocal, Stated
  <1>14. /\ k = "match" => local[p] # None /\ Acquired[p] # None
              /\ local[p].content = Acquired[p].content
         /\ k = "push" => Known(p) # None
         /\ k = "pull" => Acquired[p] # None
         /\ k = "conflict" => Known(p) # None \/ Acquired[p] # None
         /\ k \in {"delete_local", "cleanup"} => Acquired[p] = None
         /\ k = "delete_remote" => Acquired[p] # None
    BY AdmittedFacts
  <1>15. Sides(a)
    BY <1>9, <1>12, <1>13, <1>14, ModeTyped DEF Sides, Both
  <1> QED
    BY <1>8, <1>10, <1>11, <1>15 DEF Proper, Taken, a

(* The plan of a collection is one of proper actions.                       *)
LEMMA PreparedTyped ==
    ASSUME TypeOK
    PROVE  Prepared \in [Path -> Action \cup {None}] /\ \A p \in Path : Prepared[p] # None
             => Proper(Prepared[p])
  <1>1. ASSUME NEW p \in Path PROVE Prepared[p] = IF Planned(p) THEN AdmittedAction(p) ELSE None
    BY DEF Prepared
  <1>2. ASSUME NEW p \in Path PROVE Prepared[p] \in Action \cup {None}
               /\ (Prepared[p] # None => Proper(Prepared[p]))
    <2>1. CASE Planned(p)
      <3>1. Admitted(p) # None
        BY <2>1 DEF Planned
      <3> QED
        BY <3>1, <2>1, <1>1, AdmittedTyped
    <2>2. CASE ~Planned(p)
      BY <2>2, <1>1
    <2> QED
      BY <2>1, <2>2
  <1>3. Prepared = [p \in Path |-> Prepared[p]]
    BY DEF Prepared
  <1> QED
    BY <1>2, <1>3

(* Collection keeps the shape of a cycle.                                   *)
LEMMA CollectTyped ==
    ASSUME Typed, Collect
    PROVE  Typed'
  <1>1. phase = "snapped" /\ view' = Acquired /\ unread' = {} /\ stale' = {}
    /\ plan' = Prepared
    /\ phase' = "run" /\ snap' = [snap EXCEPT !.included = Included]
    /\ UNCHANGED <<scope, disk, provider, record, checkpoint, tracker, fatal, budget>>
    BY DEF Collect
  <1>2. snap \in Snapshot
    BY <1>1 DEF Typed, SnapInv, TypeOK
  <1>3. Included \subseteq Path
    BY DEF Included, NotExcluded
  <1>4. snap' \in Snapshot
    BY <1>1, <1>2, <1>3 DEF Snapshot
  <1>5. view' \in [Path -> RemoteObject \cup {None}]
    BY <1>1, AcquiredTyped DEF Typed
  <1>6. plan' \in [Path -> Action \cup {None}] /\ ProperInv'
    BY <1>1, PreparedTyped DEF Typed, ProperInv
  <1>7. SnapInv'
    BY <1>1, <1>4, <1>5, NothingAssumption DEF SnapInv
  <1>8. TypeOK'
    BY <1>1, <1>4, <1>5, <1>6 DEF Typed, TypeOK, disk, provider, checkpoint, tracker, budget
  <1> QED
    BY <1>6, <1>7, <1>8 DEF Typed

(* An action of p moves to step t: it stays of its kind, about the same two *)
(* sides, and the other plans stay.                                         *)
StepsTo(p, t) ==
  /\ plan[p] # None /\ plan[p] \in Action /\ Open(plan[p]) /\ phase = "run"
  /\ \A q \in Path \ {p} : plan'[q] = plan[q]
  /\ plan'[p] # None /\ plan'[p].step = t /\ plan'[p].kind = plan[p].kind
  /\ plan'[p].local = plan[p].local /\ plan'[p].remote = plan[p].remote
  /\ plan'[p].mode = plan[p].mode
  /\ plan[p].step # "capture" => plan'[p].took = plan[p].took /\ plan'[p].mine = plan[p].mine

(* A move is such a step.                                                   *)
LEMMA AdvanceSteps ==
    ASSUME Typed, NEW p \in Path, NEW s \in Step \ {"done", "failed"}, At(p, s), NEW t,
           Moves(plan[p], t), Advance(p, t)
    PROVE  StepsTo(p, t)
  <1>1. /\ plan[p] # None /\ Open(plan[p]) /\ plan[p] \in Action /\ plan[p].step = s
        /\ phase = "run"
    BY AtOpen
  <1> QED
    BY <1>1, MoveTyped DEF Typed, StepsTo

(* The step of the check before the first effect.                           *)
LEMMA CheckSteps ==
    ASSUME Typed, NEW p \in Path, Check(p)
    PROVE  /\ plan[p].step = "check" /\ UNCHANGED <<view, unread, record>>
           /\ StepsTo(p, IF LocalUnchanged(p) THEN AfterCheck(plan[p].kind) ELSE "failed")
  <1>1. At(p, "check") /\ "check" \in Step \ {"done", "failed"}
    BY DEF Check, Step
  <1> DEFINE t == IF LocalUnchanged(p) THEN AfterCheck(plan[p].kind) ELSE "failed"
  <1>2. Advance(p, t)
    BY DEF Check
  <1>3. Moves(plan[p], t)
    BY <1>1, AtOpen DEF Moves
  <1>4. StepsTo(p, t)
    BY <1>1, <1>2, <1>3, AdvanceSteps
  <1>5. plan[p].step = "check"
    BY <1>1, AtOpen
  <1> QED
    BY <1>4, <1>5 DEF Check, working

(* The step of the second check.                                            *)
LEMMA RecheckSteps ==
    ASSUME Typed, NEW p \in Path, Recheck(p)
    PROVE  /\ plan[p].step = "recheck" /\ UNCHANGED <<view, unread, record>>
           /\ StepsTo(p, IF ~StillAdmitted(p) THEN "failed"
                     ELSE IF plan[p].kind = "push" THEN "compare"
                     ELSE "write local")
  <1>1. At(p, "recheck") /\ "recheck" \in Step \ {"done", "failed"}
    BY DEF Recheck, Step
  <1> DEFINE t == IF ~StillAdmitted(p) THEN "failed"
                  ELSE IF plan[p].kind = "push" THEN "compare"
                  ELSE "write local"
  <1>2. Advance(p, t)
    BY DEF Recheck
  <1>3. Moves(plan[p], t)
    BY <1>1, AtOpen DEF Moves
  <1>4. StepsTo(p, t)
    BY <1>1, <1>2, <1>3, AdvanceSteps
  <1>5. plan[p].step = "recheck"
    BY <1>1, AtOpen
  <1> QED
    BY <1>4, <1>5 DEF Recheck, working

(* The step of a write of the vault.                                        *)
LEMMA WriteLocalSteps ==
    ASSUME Typed, NEW p \in Path, WriteLocal(p)
    PROVE  /\ plan[p].step = "write local" /\ UNCHANGED <<view, unread, record>>
           /\ StepsTo(p, IF plan[p].kind = "conflict" THEN "compare" ELSE "publish")
  <1>1. At(p, "write local") /\ "write local" \in Step \ {"done", "failed"}
    BY DEF WriteLocal, Step
  <1> DEFINE t == IF plan[p].kind = "conflict" THEN "compare" ELSE "publish"
  <1>2. Advance(p, t)
    BY DEF WriteLocal
  <1>3. Moves(plan[p], t)
    BY <1>1, AtOpen DEF Moves
  <1>4. StepsTo(p, t)
    BY <1>1, <1>2, <1>3, AdvanceSteps
  <1>5. plan[p].step = "write local"
    BY <1>1, AtOpen
  <1> QED
    BY <1>4, <1>5 DEF WriteLocal, working

(* The step of a deletion in the vault.                                     *)
LEMMA DeleteLocalSteps ==
    ASSUME Typed, NEW p \in Path, DeleteLocal(p)
    PROVE  /\ plan[p].step = "delete local" /\ UNCHANGED <<view, unread, record>>
           /\ StepsTo(p, "publish")
  <1>1. At(p, "delete local") /\ "delete local" \in Step \ {"done", "failed"}
    BY DEF DeleteLocal, Step
  <1>2. Advance(p, "publish")
    BY DEF DeleteLocal
  <1>3. Moves(plan[p], "publish")
    BY <1>1, AtOpen DEF Moves
  <1>4. StepsTo(p, "publish")
    BY <1>1, <1>2, <1>3, AdvanceSteps
  <1>5. plan[p].step = "delete local"
    BY <1>1, AtOpen
  <1> QED
    BY <1>4, <1>5 DEF DeleteLocal, working

(* The step of publishing.                                                  *)
LEMMA PublishSteps ==
    ASSUME Typed, NEW p \in Path, Publish(p)
    PROVE  /\ plan[p].step = "publish" /\ UNCHANGED <<view, unread, remote, unseen, durable>>
           /\ StepsTo(p, IF Proved(p) THEN "done" ELSE "failed")
           /\ record' = IF Proved(p) THEN [record EXCEPT ![p] = Terminal(p)] ELSE record
  <1>1. At(p, "publish") /\ "publish" \in Step \ {"done", "failed"}
    BY DEF Publish, Step
  <1> DEFINE t == IF Proved(p) THEN "done" ELSE "failed"
  <1>2. Advance(p, t)
    BY DEF Publish
  <1>3. Moves(plan[p], t)
    BY <1>1, AtOpen DEF Moves
  <1>4. StepsTo(p, t)
    BY <1>1, <1>2, <1>3, AdvanceSteps
  <1>5. plan[p].step = "publish"
    BY <1>1, AtOpen
  <1>6. record' = IF Proved(p) THEN [record EXCEPT ![p] = Terminal(p)] ELSE record
    BY DEF Publish
  <1>7. UNCHANGED <<view, unread, remote, unseen, durable>>
    BY DEF Publish, working, provider, checkpoint
  <1> QED
    BY <1>4, <1>5, <1>6, <1>7

(* The step of a failure.                                                   *)
LEMMA FailsSteps ==
    ASSUME Typed, NEW p \in Path, Fails(p)
    PROVE  StepsTo(p, "failed") /\ UNCHANGED <<view, unread, record>>
  <1>1. phase = "run" /\ plan[p] # None /\ Open(plan[p])
    BY DEF Fails, Finished, Open
  <1>2. Advance(p, "failed") /\ Moves(plan[p], "failed")
    BY DEF Fails, Moves
  <1>3. plan[p] \in Action
    BY <1>1 DEF Typed, TypeOK
  <1>4. StepsTo(p, "failed")
    BY <1>1, <1>2, <1>3, MoveTyped DEF Typed, StepsTo
  <1> QED
    BY <1>4 DEF Fails, working

(* The step of a capture, and what it takes.                                *)
LEMMA CaptureSteps ==
    ASSUME Typed, NEW p \in Path, Capture(p)
    PROVE  /\ plan[p].step = "capture" /\ UNCHANGED <<view, unread, record>>
           /\ \/ StepsTo(p, "failed") /\ kept' = kept
              \/ /\ StepsTo(p, "recheck") /\ ContractHolds(p) /\ Readable(p)
                 /\ plan'[p].took = Chosen(p)
                 /\ plan'[p].mine = IF plan[p].kind = "conflict" /\ plan[p].local # None
                      THEN local[p].content ELSE None
                 /\ kept' = [kept EXCEPT ![p] = @ \cup Preserved(p)]
  <1>1. At(p, "capture") /\ "capture" \in Step \ {"done", "failed"}
    BY DEF Capture, Step
  <1> DEFINE a == plan[p]
             m == IF a.kind = "conflict" /\ a.local # None THEN local[p].content ELSE None
             b == [a EXCEPT !.step = "recheck", !.took = Chosen(p), !.mine = m]
  <1>2. a \in Action /\ a # None /\ a.step = "capture" /\ Open(a) /\ phase = "run" /\ Sides(a)
        /\ a.kind \in {"push", "pull", "conflict"}
    BY <1>1, AtOpen DEF KindAt
  <1>3. UNCHANGED <<view, unread, record>>
    BY DEF Capture, working
  <1>4. CASE ~(ContractHolds(p) /\ Readable(p))
    <2>1. Advance(p, "failed") /\ Moves(plan[p], "failed") /\ kept' = kept
      BY <1>4 DEF Capture, Moves
    <2> QED
      BY <2>1, <1>1, <1>2, <1>3, AdvanceSteps
  <1>5. CASE ContractHolds(p) /\ Readable(p)
    <2>1. plan' = [plan EXCEPT ![p] = b] /\ kept' = [kept EXCEPT ![p] = @ \cup Preserved(p)]
      BY <1>5 DEF Capture
    <2>2. b.step = "recheck" /\ b.took = Chosen(p) /\ b.mine = m /\ b.kind = a.kind
            /\ b.local = a.local /\ b.remote = a.remote /\ b.mode = a.mode
      BY <1>2 DEF Action
    <2>3. Chosen(p) \in Version /\ m \in Content \cup {None}
      BY <1>2, <1>5, CaptureTakes DEF Typed
    <2>4. b \in Action
      BY <1>2, <2>3 DEF Action, Step
    <2> HIDE DEF b
    <2>5. plan'[p] = b /\ b # None /\ \A q \in Path \ {p} : plan'[q] = plan[q]
      BY <2>1, <2>4, NothingAssumption DEF Typed, TypeOK
    <2>6. StepsTo(p, "recheck")
      BY <2>2, <2>5, <1>2 DEF StepsTo
    <2> QED
      BY <2>1, <2>2, <2>5, <2>6, <1>2, <1>3, <1>5
  <1> QED
    BY <1>4, <1>5

(* The step of the comparison before a request: it goes on only where       *)
(* nothing changed behind the view, or to take a deletion for done.         *)
LEMMA CompareSteps ==
    ASSUME Typed, NEW p \in Path, Compare(p)
    PROVE  /\ plan[p].step = "compare" /\ plan'[p].took = plan[p].took
           /\ UNCHANGED <<record, unread, stale, remote, unseen>>
           /\ \/ /\ p \notin stale /\ view' = view
                 /\ StepsTo(p, IF plan[p].kind = "delete_remote" THEN "delete remote"
                               ELSE "write remote")
              \/ /\ p \in stale /\ plan[p].kind = "delete_remote" /\ StepsTo(p, "publish")
                 /\ view' = [view EXCEPT ![p] = None] /\ ~Addressed(p)
              \/ p \in stale /\ view' = view /\ StepsTo(p, "failed")
  <1>1. At(p, "compare") /\ "compare" \in Step \ {"done", "failed"}
    BY DEF Compare, Step
  <1>2. plan[p].step = "compare" /\ UNCHANGED <<record, unread, stale, remote, unseen>>
    BY <1>1, AtOpen DEF Compare, provider
  <1> DEFINE t == IF plan[p].kind = "delete_remote" THEN "delete remote" ELSE "write remote"
  <1>3. CASE p \notin stale /\ Advance(p, t) /\ view' = view
    <2>1. StepsTo(p, t)
      BY <1>1, <1>2, <1>3, AdvanceSteps DEF Moves
    <2> QED
      BY <1>2, <1>3, <2>1 DEF StepsTo
  <1>4. CASE /\ p \in stale /\ plan[p].kind = "delete_remote" /\ Advance(p, "publish")
             /\ view' = [view EXCEPT ![p] = None] /\ ~Addressed(p)
    <2>1. StepsTo(p, "publish")
      BY <1>1, <1>2, <1>4, AdvanceSteps DEF Moves
    <2> QED
      BY <1>2, <1>4, <2>1 DEF StepsTo
  <1>5. CASE p \in stale /\ Advance(p, "failed") /\ view' = view
    <2>1. StepsTo(p, "failed")
      BY <1>1, <1>2, <1>5, AdvanceSteps DEF Moves
    <2> QED
      BY <1>2, <1>5, <2>1 DEF StepsTo
  <1> QED
    BY <1>3, <1>4, <1>5 DEF Compare

(* The step of an answered request: its result is seated in the view.       *)
LEMMA MutateRemoteSteps ==
    ASSUME Typed, NEW p \in Path, MutateRemote(p)
    PROVE  /\ plan[p].step \in {"write remote", "delete remote"} /\ record' = record
           /\ plan'[p].took = plan[p].took /\ StepsTo(p, "publish") /\ stale' = stale
           /\ Mutates(p) /\ view' = [view EXCEPT ![p] = Result(p)]
  <1>1. Mutates(p)
    BY DEF MutateRemote
  <1>2. PICK s \in {"write remote", "delete remote"} : At(p, s) /\ plan[p].step = s
    BY <1>1, MutatesFacts
  <1>3. s \in Step \ {"done", "failed"}
    BY DEF Step
  <1>4. Advance(p, "publish") /\ Moves(plan[p], "publish")
    BY <1>2 DEF MutateRemote, Moves
  <1>5. StepsTo(p, "publish")
    BY <1>2, <1>3, <1>4, AdvanceSteps
  <1> QED
    BY <1>1, <1>2, <1>5 DEF MutateRemote, StepsTo

(* The step of a refused request.                                           *)
LEMMA RefuseRemoteSteps ==
    ASSUME Typed, NEW p \in Path, RefuseRemote(p)
    PROVE  /\ plan[p].step \in {"write remote", "delete remote"} /\ StepsTo(p, "failed")
           /\ UNCHANGED <<remote, unseen, view, unread, stale, record>>
  <1>1. PICK s \in {"write remote", "delete remote"} : At(p, s)
    BY DEF RefuseRemote
  <1>2. s \in Step \ {"done", "failed"}
    BY DEF Step
  <1>3. Advance(p, "failed") /\ Moves(plan[p], "failed")
    BY DEF RefuseRemote, Moves
  <1>4. StepsTo(p, "failed")
    BY <1>1, <1>2, <1>3, AdvanceSteps
  <1> QED
    BY <1>1, <1>4 DEF RefuseRemote, provider, working, At

(* The step of a request that takes effect and whose response is lost.      *)
LEMMA ResponseLostSteps ==
    ASSUME Typed, NEW p \in Path, ResponseLost(p)
    PROVE  /\ plan[p].step \in {"write remote", "delete remote"} /\ StepsTo(p, "failed")
           /\ stale' = stale \cup {p} /\ UNCHANGED <<view, record, durable>>
           /\ Mutates(p)
  <1>1. Mutates(p)
    BY DEF ResponseLost
  <1>2. PICK s \in {"write remote", "delete remote"} : At(p, s) /\ plan[p].step = s
    BY <1>1, MutatesFacts
  <1>3. s \in Step \ {"done", "failed"}
    BY DEF Step
  <1>4. Advance(p, "failed") /\ Moves(plan[p], "failed")
    BY DEF ResponseLost, Moves
  <1>5. StepsTo(p, "failed")
    BY <1>2, <1>3, <1>4, AdvanceSteps
  <1> QED
    BY <1>1, <1>2, <1>5 DEF ResponseLost, checkpoint

(* The steps that leave the plans and the working view alone.               *)
Aside ==
  \/ Begin \/ Acknowledge \/ CollectFails \/ Rescan \/ ChangeScope \/ Restart
  \/ \E p \in Path : \/ Deliver(p) \/ LocalDelete(p) \/ RemoteDelete(p)
                     \/ \E c \in Content : LocalEdit(p, c) \/ QuietEdit(p, c)
                          \/ RemoteEdit(p, c)
(* The steps that end a run.                                                *)
Ends == Commit \/ CloseIncomplete \/ CommitFails \/ Crash
(* The steps of an action of p.                                             *)
Acts(p) == Execute(p) \/ Fails(p) \/ ResponseLost(p)

(* Every step is one of these.                                              *)
LEMMA StepKinds ==
    ASSUME [Next]_vars
    PROVE  Aside \/ Ends \/ Collect \/ (\E p \in Path : Acts(p)) \/ UNCHANGED vars
  BY DEF Next, Cycle, Disturb, Users, Aside, Ends, Acts

(* What the steps beside the run leave alone.                               *)
LEMMA AsideEffect ==
    ASSUME Aside
    PROVE  UNCHANGED <<plan, view, record>> /\ unread \subseteq unread'
  <1>1. CASE \E p \in Path : \/ Deliver(p) \/ LocalDelete(p) \/ RemoteDelete(p)
                     \/ \E c \in Content : LocalEdit(p, c) \/ QuietEdit(p, c)
                          \/ RemoteEdit(p, c)
    BY <1>1
       DEF Deliver, LocalDelete, RemoteDelete, LocalEdit, QuietEdit, RemoteEdit, Logged, working
  <1>2. CASE Begin \/ Acknowledge \/ CollectFails \/ Rescan \/ ChangeScope \/ Restart
    BY <1>2 DEF Begin, Acknowledge, CollectFails, Rescan, ChangeScope, Restart, working
  <1> QED
    BY <1>1, <1>2 DEF Aside

(* What ends a run leaves no plan and no view.                              *)
LEMMA EndsEffect ==
    ASSUME Ends
    PROVE  (\A p \in Path : plan'[p] = None) /\ view' = None /\ record' = record
             /\ phase' # "run"
  BY DEF Ends, Commit, CloseIncomplete, CommitFails, Crash, Abandon, Repeat, DiscardView

(* What the steps of an action leave alone, and that a write shows in the   *)
(* working view.                                                            *)
LEMMA ActsEffect ==
    ASSUME Typed, NEW p \in Path, Acts(p)
    PROVE  /\ \E t : StepsTo(p, t)
           /\ unread \subseteq unread' /\ \A q \in Path \ {p} : view'[q] = view[q]
           /\ \A q \in Path \ {p} : record'[q] = record[q]
           /\ Open(plan'[p]) =>
                \/ view' = view /\ ~Written(plan[p]) /\ ~Written(plan'[p])
                \/ /\ p \in unread' /\ Written(plan'[p])
                   /\ plan[p].kind # "delete_remote"
                        => view'[p] # None /\ view'[p].content = plan'[p].took.content
           /\ plan'[p].step = "done" => Publish(p) /\ Proved(p)
  <1>0. record \in [Path -> RemoteObject \cup {None}]
    BY DEF Typed, TypeOK
  <1>1. CASE Check(p)
    <2>1. plan[p].step = "check" /\ UNCHANGED <<view, unread, record>>
        /\ StepsTo(p, IF LocalUnchanged(p) THEN AfterCheck(plan[p].kind) ELSE "failed")
      BY <1>1, CheckSteps
    <2>2. KindAt(plan[p]) /\ plan[p].kind \in Kind
      BY <2>1 DEF StepsTo, Typed, ProperInv, Proper, Action
    <2> QED
      BY <2>1, <2>2 DEF StepsTo, Written, Open, AfterCheck, KindAt, Kind
  <1>2. CASE Capture(p)
    <2>1. /\ plan[p].step = "capture" /\ UNCHANGED <<view, unread, record>>
          /\ (StepsTo(p, "failed") \/ StepsTo(p, "recheck"))
      BY <1>2, CaptureSteps
    <2> QED
      BY <2>1 DEF StepsTo, Written
  <1>3. CASE Recheck(p)
    <2>1. PICK t \in {"failed", "write local", "compare"} : plan[p].step = "recheck"
                 /\ UNCHANGED <<view, unread, record>> /\ StepsTo(p, t)
      BY <1>3, RecheckSteps
    <2> QED
      BY <2>1 DEF StepsTo, Written
  <1>4. CASE WriteLocal(p)
    <2>1. plan[p].step = "write local" /\ UNCHANGED <<view, unread, record>>
            /\ StepsTo(p, IF plan[p].kind = "conflict" THEN "compare" ELSE "publish")
      BY <1>4, WriteLocalSteps
    <2>2. plan[p].kind \in {"pull", "conflict"}
      BY <2>1 DEF StepsTo, Typed, ProperInv, Proper, KindAt
    <2> QED
      BY <2>1, <2>2 DEF StepsTo, Written
  <1>5. CASE DeleteLocal(p)
    <2>1. /\ plan[p].step = "delete local" /\ UNCHANGED <<view, unread, record>>
          /\ StepsTo(p, "publish")
      BY <1>5, DeleteLocalSteps
    <2>2. plan[p].kind = "delete_local"
      BY <2>1 DEF StepsTo, Typed, ProperInv, Proper, KindAt
    <2> QED
      BY <2>1, <2>2 DEF StepsTo, Written
  <1>6. CASE Publish(p)
    <2>1. UNCHANGED <<view, unread>> /\ StepsTo(p, IF Proved(p) THEN "done" ELSE "failed")
          /\ record' = IF Proved(p) THEN [record EXCEPT ![p] = Terminal(p)] ELSE record
      BY <1>6, PublishSteps
    <2> QED
      BY <1>0, <1>6, <2>1 DEF StepsTo, Written, Open
  <1>7. CASE Fails(p)
    <2>1. StepsTo(p, "failed") /\ UNCHANGED <<view, unread, record>>
      BY <1>7, FailsSteps
    <2> QED
      BY <2>1 DEF StepsTo, Open
  <1>8. CASE ResponseLost(p)
    <2>1. StepsTo(p, "failed") /\ UNCHANGED <<view, record>> /\ Mutates(p)
      BY <1>8, ResponseLostSteps
    <2>2. unread \subseteq unread'
      BY <2>1, MutatesTyped
    <2> QED
      BY <2>1, <2>2 DEF StepsTo, Open
  <1>9. CASE RefuseRemote(p)
    <2>1. StepsTo(p, "failed") /\ UNCHANGED <<view, unread, record>>
      BY <1>9, RefuseRemoteSteps
    <2> QED
      BY <2>1 DEF StepsTo, Open
  <1>10. CASE MutateRemote(p)
    <2>1. /\ record' = record /\ plan'[p].took = plan[p].took /\ StepsTo(p, "publish")
          /\ Mutates(p) /\ view' = [view EXCEPT ![p] = Result(p)]
          /\ plan[p].step \in {"write remote", "delete remote"}
      BY <1>10, MutateRemoteSteps
    <2>2. view \in [Path -> RemoteObject \cup {None}]
      BY <2>1 DEF StepsTo, Typed, TypeOK, SnapInv
    <2>3. KindAt(plan[p])
      BY <2>1 DEF StepsTo, Typed, ProperInv, Proper
    <2>4. Written(plan'[p])
      BY <2>1, <2>3 DEF StepsTo, Written, KindAt
    <2>5. plan[p].kind # "delete_remote" =>
             Result(p) # None /\ Result(p).content = plan'[p].took.content
      BY <2>1, <2>3, MutatesFacts, NothingAssumption DEF KindAt
    <2>6. unread \cup {p} \subseteq unread'
      BY <2>1, MutatesTyped
    <2> QED
      BY <2>1, <2>2, <2>4, <2>5, <2>6 DEF StepsTo
  <1>11. CASE Compare(p)
    <2>1. /\ plan[p].step = "compare" /\ UNCHANGED <<record, unread>>
          /\ plan[p] # None /\ plan[p] \in Action /\ Open(plan[p])
      BY <1>11, CompareSteps DEF StepsTo
    <2>2. view \in [Path -> RemoteObject \cup {None}]
      BY <1>11, CompareSteps DEF StepsTo, Typed, TypeOK, SnapInv
    <2>3. CASE view' = view /\ (StepsTo(p, "failed") \/ StepsTo(p, "delete remote")
                                \/ StepsTo(p, "write remote"))
      BY <2>1, <2>3 DEF StepsTo, Written
    <2>4. CASE /\ p \in stale /\ plan[p].kind = "delete_remote" /\ StepsTo(p, "publish")
               /\ view' = [view EXCEPT ![p] = None]
      <3>1. p \in unread
        BY <2>4 DEF Typed, SnapInv
      <3>2. Written(plan'[p])
        BY <2>4 DEF StepsTo, Written
      <3> QED
        BY <3>1, <3>2, <2>1, <2>2, <2>4 DEF StepsTo
    <2> QED
      BY <1>11, <2>3, <2>4, CompareSteps
  <1> QED
    BY <1>1, <1>2, <1>3, <1>4, <1>5, <1>6, <1>7, <1>8, <1>9, <1>10, <1>11 DEF Acts, Execute

(* What a plan that was just prepared looks like.                           *)
LEMMA FreshPlan ==
    ASSUME TypeOK, NEW p \in Path, Prepared[p] # None
    PROVE  /\ Prepared[p].remote = Acquired[p] /\ Prepared[p].step # "done"
           /\ Prepared[p].kind = Admitted(p) /\ Prepared[p].local = AdmittedLocal(p)
           /\ Prepared[p].mode = ConflictMode(p)
           /\ Planned(p) /\ ~Written(Prepared[p])
           /\ Prepared[p].step \in {"publish", "failed", "check"}
           /\ Prepared[p].step = "publish" => Admitted(p) = "match"
           /\ Prepared[p].step = "failed" => Admitted(p) = "refused"
  <1>1. Planned(p) /\ Prepared[p] = AdmittedAction(p)
    BY DEF Prepared
  <1> DEFINE k == Admitted(p)
  <1>2. FirstStep(k) = CASE k = "match" -> "publish" [] k = "refused" -> "failed"
          [] OTHER -> "check"
    BY DEF FirstStep
  <1>3. \/ k = "match" /\ FirstStep(k) = "publish"
        \/ k = "refused" /\ FirstStep(k) = "failed"
        \/ k \notin {"match", "refused"} /\ FirstStep(k) = "check"
    BY <1>2
  <1>4. /\ AdmittedAction(p).remote = Acquired[p] /\ AdmittedAction(p).step = FirstStep(k)
        /\ AdmittedAction(p).kind = k
        /\ AdmittedAction(p).local = AdmittedLocal(p)
        /\ AdmittedAction(p).mode = ConflictMode(p)
    BY DEF AdmittedAction
  <1> QED
    BY <1>1, <1>3, <1>4 DEF Written

(* Every step keeps the working view in line with the plans.                *)
LEMMA ViewStep ==
    ASSUME Typed, ViewInv, [Next]_vars
    PROVE  ViewInv'
  <1>1. CASE Aside
    BY <1>1, AsideEffect DEF ViewInv, ViewOf, Open, Written
  <1>2. CASE Ends
    BY <1>2, EndsEffect DEF ViewInv, Open
  <1>3. CASE Collect
    <2>1. view' = Acquired /\ plan' = Prepared
      BY <1>3 DEF Collect
    <2> QED
      BY <2>1, FreshPlan DEF Typed, ViewInv, ViewOf, Open
  <1>4. ASSUME NEW p \in Path, Acts(p) PROVE ViewInv'
    <2>1. /\ unread \subseteq unread' /\ (\A q \in Path \ {p} : view'[q] = view[q])
          /\ \A q \in Path \ {p} : plan'[q] = plan[q]
      BY <1>4, ActsEffect DEF StepsTo
    <2>2. \A q \in Path \ {p} : Open(plan'[q]) => ViewOf(q)'
      BY <2>1 DEF ViewInv, ViewOf
    <2>3. Open(plan'[p]) => ViewOf(p)'
      <3>1. /\ plan[p] # None /\ Open(plan[p]) /\ plan'[p].kind = plan[p].kind
            /\ plan'[p].remote = plan[p].remote
        BY <1>4, ActsEffect DEF StepsTo
      <3>2. ViewOf(p)
        BY <3>1 DEF ViewInv
      <3>3. Open(plan'[p]) =>
             \/ view' = view /\ ~Written(plan[p]) /\ ~Written(plan'[p])
             \/ /\ p \in unread' /\ Written(plan'[p])
                /\ plan[p].kind # "delete_remote"
                     => view'[p] # None /\ view'[p].content = plan'[p].took.content
        BY <1>4, ActsEffect
      <3> QED
        BY <3>1, <3>2, <3>3 DEF ViewOf
    <2> QED
      BY <2>2, <2>3 DEF ViewInv
  <1>5. CASE UNCHANGED vars
    BY <1>5 DEF vars, ViewInv, ViewOf, Open, Written
  <1> QED
    BY <1>1, <1>2, <1>3, <1>4, <1>5, StepKinds

(* The initial state has the shape of a cycle.                              *)
LEMMA TypedInit == Init => Typed /\ ViewInv
  <1> SUFFICES ASSUME Init PROVE Typed /\ ViewInv
    OBVIOUS
  <1>1. \A p \in Path : plan[p] = None
    BY DEF Init
  <1>2. 1 \in Mtime
    BY BoundAssumption DEF Mtime
  <1>3. local \in [Path -> Version \cup {None}]
    BY <1>2 DEF Init, Version
  <1>4. remote \in [Path -> RemoteObject \cup {None}]
    BY <1>2 DEF Init, RemoteObject, Identity
  <1>5. scope \subseteq Path
    BY DEF Init
  <1>6. edits \in 0 .. MaxEdits /\ faults \in 0 .. MaxFaults
    BY BoundAssumption DEF Init
  <1>7. TypeOK
    BY <1>3, <1>4, <1>5, <1>6 DEF Init, TypeOK
  <1>8. SnapInv
    BY <1>1 DEF Init, SnapInv
  <1> QED
    BY <1>1, <1>7, <1>8 DEF Typed, ProperInv, ViewInv, Open

(* Every step keeps the shape of a cycle.                                   *)
LEMMA TypedStep ==
    ASSUME Typed, ViewInv, [Next]_vars
    PROVE  Typed'
  <1>1. CASE Aside
    <2>1. CASE Begin \/ Acknowledge \/ CollectFails \/ Rescan \/ ChangeScope \/ Restart
      BY <2>1, ChangeScopeTyped, RestartTyped, RescanTyped, BeginTyped, CollectFailsTyped,
         AcknowledgeTyped
    <2>2. ASSUME NEW p \in Path, Deliver(p) PROVE Typed'
      BY <2>2, DeliverTyped
    <2>3. ASSUME NEW p \in Path, LocalDelete(p) \/ RemoteDelete(p) PROVE Typed'
      BY <2>3, UserTyped
    <2>4. ASSUME NEW p \in Path, NEW c \in Content,
                 LocalEdit(p, c) \/ QuietEdit(p, c) \/ RemoteEdit(p, c) PROVE Typed'
      BY <2>4, UserTyped
    <2> QED
      BY <1>1, <2>1, <2>2, <2>3, <2>4 DEF Aside
  <1>2. CASE Ends
    BY <1>2, CommitTyped, CloseTyped, CrashTyped DEF Ends
  <1>3. CASE Collect
    BY <1>3, CollectTyped
  <1>4. ASSUME NEW p \in Path, Acts(p) PROVE Typed'
    BY <1>4, CheckTyped, CaptureTyped, RecheckTyped, WriteLocalTyped, DeleteLocalTyped,
       CompareTyped, MutateRemoteTyped, RefuseRemoteTyped, PublishTyped, FailsTyped,
       ResponseLostTyped
       DEF Acts, Execute
  <1>5. CASE UNCHANGED vars
    BY <1>5 DEF vars, Typed, TypeOK, SnapInv, ProperInv
  <1> QED
    BY <1>1, <1>2, <1>3, <1>4, <1>5, StepKinds

(* For every set of paths and contents and any number of edits and faults:  *)
(* every variable has its type in every reachable state.                    *)
THEOREM TypeCorrect == Spec => []TypeOK
  <1>1. Typed /\ ViewInv /\ [Next]_vars => (Typed /\ ViewInv)'
    BY TypedStep, ViewStep
  <1>2. Typed /\ ViewInv => TypeOK
    BY DEF Typed
  <1> QED
    BY TypedInit, <1>1, <1>2, PTL DEF Spec

(* A cycle that does not force a full scan has a cursor vouched for the     *)
(* scope it fixed.                                                          *)
CursorInv ==
  phase \in {"snapped", "run"} /\ ~snap.force => durable # None /\ vouched = snap.fingerprint

(* The steps of an action leave the checkpoint and the snapshot alone.      *)
LEMMA ActsCheckpoint ==
    ASSUME Typed, NEW p \in Path, Acts(p)
    PROVE  UNCHANGED <<durable, vouched, missed, phase, snap>> /\ phase = "run"
  <1>1. phase = "run"
    BY ActsEffect DEF StepsTo
  <1> QED
    BY <1>1
       DEF Acts, Execute, Check, Capture, Recheck, WriteLocal, DeleteLocal,
           Compare, MutateRemote, RefuseRemote, Publish, Fails, ResponseLost, checkpoint

(* Every step keeps the cursor vouched for.                                 *)
LEMMA CursorStep ==
    ASSUME Typed, CursorInv, [Next]_vars
    PROVE  CursorInv'
  <1>1. CASE Begin
    <2>1. PICK strategy \in Strategies : snap' = [dirty |-> dirty, initialized |-> initialized,
                   force |-> ForcesFullScan,
                   fingerprint |-> ScopeFingerprint, strategy |-> strategy,
                   included |-> {}]
      BY <1>1 DEF Begin
    <2>2. snap'.force = ForcesFullScan /\ snap'.fingerprint = ScopeFingerprint
      BY <2>1
    <2>3. durable' = durable /\ vouched' = vouched
      BY <1>1 DEF Begin, checkpoint
    <2> QED
      BY <2>2, <2>3 DEF CursorInv, ForcesFullScan, HasCheckpoint
  <1>2. CASE Acknowledge \/ CollectFails \/ Rescan \/ Restart
    BY <1>2 DEF Acknowledge, CollectFails, Rescan, Restart, CursorInv
  <1>3. CASE ChangeScope \/ \E p \in Path : \/ Deliver(p) \/ LocalDelete(p) \/ RemoteDelete(p)
                     \/ \E c \in Content : LocalEdit(p, c) \/ QuietEdit(p, c)
                          \/ RemoteEdit(p, c)
    <2>1. UNCHANGED <<phase, snap, durable, vouched>>
      BY <1>3
         DEF ChangeScope, Deliver, LocalDelete, RemoteDelete, LocalEdit, QuietEdit, RemoteEdit,
             checkpoint
    <2> QED
      BY <2>1 DEF CursorInv
  <1>4. CASE Commit \/ Crash
    BY <1>4 DEF Commit, Crash, CursorInv
  <1>5. CASE CloseIncomplete \/ CommitFails
    <2>1. CASE Abandon
      BY <2>1 DEF Abandon, CursorInv
    <2>2. CASE Repeat
      <3>1. phase = "run" /\ UNCHANGED <<snap, durable, vouched>>
        BY <1>5, <2>2 DEF CloseIncomplete, CommitFails, Repeat, checkpoint
      <3> QED
        BY <3>1 DEF CursorInv
    <2> QED
      BY <1>5, <2>1, <2>2 DEF CloseIncomplete, CommitFails
  <1>6. CASE Collect
    <2>1. /\ phase = "snapped" /\ snap' = [snap EXCEPT !.included = Included]
          /\ UNCHANGED <<durable, vouched>>
      BY <1>6 DEF Collect, checkpoint
    <2>2. snap \in Snapshot
      BY <2>1 DEF Typed, SnapInv, TypeOK
    <2>3. snap'.force = snap.force /\ snap'.fingerprint = snap.fingerprint
      BY <2>1, <2>2 DEF Snapshot
    <2> QED
      BY <2>1, <2>3 DEF CursorInv
  <1>7. ASSUME NEW p \in Path, Acts(p) PROVE CursorInv'
    BY <1>7, ActsCheckpoint DEF CursorInv
  <1>8. CASE UNCHANGED vars
    BY <1>8 DEF vars, CursorInv
  <1> QED
    BY <1>1, <1>2, <1>3, <1>4, <1>5, <1>6, <1>7, <1>8, StepKinds DEF Aside, Ends

(* What no log entry after a cursor mentions is in the cache as it is at    *)
(* the provider.                                                            *)
CacheInv ==
  /\ durable # None => \A p \in Path \ unseen : durable[p] = remote[p]
  /\ view # None =>
       /\ \A p \in Path : p \notin unread \/ p \notin stale => view[p] = remote[p]
       /\ durable # None => unread \subseteq unseen

(* The provider's object at p moves, and every cursor is behind it.         *)
ProviderMoves(p) ==
  /\ Logged(p) /\ \A q \in Path \ {p} : remote'[q] = remote[q]
  /\ durable' = durable
  /\ (view = None <=> view' = None) /\ \A q \in Path \ {p} : view'[q] = view[q]
  /\ \/ stale' = stale /\ ((view # None /\ p \in stale) \/ view'[p] = remote'[p])
     \/ view' = view /\ stale' = IF view = None THEN stale ELSE stale \cup {p}
(* The provider does not move, and the view is given up or stays, but for   *)
(* what it is behind in.                                                    *)
ProviderStands ==
  /\ UNCHANGED <<remote, unseen, durable>>
  /\ \/ view' = None
     \/ /\ (view = None => view' = None) /\ UNCHANGED <<unread, stale>>
        /\ \A q \in Path \ stale : view'[q] = view[q]

(* The steps of an action move the provider or leave it.                    *)
LEMMA ActsProvider ==
    ASSUME Typed, NEW p \in Path, Acts(p)
    PROVE  ProviderMoves(p) \/ ProviderStands
  <1>1. CASE Check(p) \/ Capture(p) \/ Recheck(p) \/ WriteLocal(p) \/ DeleteLocal(p)
               \/ Publish(p) \/ Fails(p)
    BY <1>1
       DEF Check, Capture, Recheck, WriteLocal, DeleteLocal, Publish, Fails, provider, working,
           checkpoint, ProviderStands
  <1>2. durable' = durable /\ view # None /\ view \in [Path -> RemoteObject \cup {None}]
        /\ remote \in [Path -> RemoteObject \cup {None}]
    BY ActsCheckpoint DEF Typed, TypeOK, SnapInv
  <1>3. ASSUME NEW x \in RemoteObject \cup {None}, view' = [view EXCEPT ![p] = x]
        PROVE view' # None /\ view'[p] = x /\ \A q \in Path \ {p} : view'[q] = view[q]
    <2>1. view' \in [Path -> RemoteObject \cup {None}]
      BY <1>2, <1>3
    <2> QED
      BY <1>2, <1>3, <2>1, NothingAssumption
  <1>4. ASSUME Mutates(p)
        PROVE  Logged(p) /\ \A q \in Path \ {p} : remote'[q] = remote[q]
    BY <1>2, <1>4, MutatesFacts
  <1>5. CASE MutateRemote(p)
    <2>1. Mutates(p) /\ stale' = stale /\ view' = [view EXCEPT ![p] = Result(p)]
      BY <1>5, MutateRemoteSteps
    <2>2. view' # None /\ view'[p] = Result(p) /\ \A q \in Path \ {p} : view'[q] = view[q]
      BY <1>3, <2>1, MutatesFacts
    <2>3. p \in stale \/ remote'[p] = Result(p)
      BY <1>2, <2>1, MutatesFacts
    <2> QED
      BY <1>2, <1>4, <2>1, <2>2, <2>3 DEF ProviderMoves
  <1>6. CASE ResponseLost(p)
    <2>1. Mutates(p) /\ stale' = stale \cup {p} /\ view' = view /\ durable' = durable
      BY <1>6, ResponseLostSteps
    <2> QED
      BY <1>2, <1>4, <2>1 DEF ProviderMoves
  <1>7. CASE RefuseRemote(p)
    BY <1>2, <1>7, RefuseRemoteSteps DEF ProviderStands
  <1>8. CASE Compare(p)
    <2>1. UNCHANGED <<unread, stale, remote, unseen>>
          /\ (view' = view \/ (p \in stale /\ view' = [view EXCEPT ![p] = None]))
      BY <1>8, CompareSteps
    <2>2. \A q \in Path \ stale : view'[q] = view[q]
      BY <1>2, <2>1
    <2> QED
      BY <1>2, <2>1, <2>2 DEF ProviderStands
  <1> QED
    BY <1>1, <1>5, <1>6, <1>7, <1>8 DEF Acts, Execute

(* Every step keeps the caches true where the log is silent.                *)
LEMMA CacheStep ==
    ASSUME Typed, CacheInv, [Next]_vars
    PROVE  CacheInv'
  <1>1. ASSUME NEW p \in Path, ProviderMoves(p) PROVE CacheInv'
    BY <1>1 DEF ProviderMoves, Logged, CacheInv
  <1>2. CASE ProviderStands
    BY <1>2 DEF ProviderStands, CacheInv, Typed, SnapInv
  <1>3. CASE Begin \/ Acknowledge \/ CollectFails \/ ChangeScope \/ Restart
    <2>1. ProviderStands
      BY <1>3
         DEF Begin, Acknowledge, CollectFails, ChangeScope, Restart, provider, working,
             checkpoint, ProviderStands
    <2> QED
      BY <2>1, <1>2
  <1>4. CASE Rescan
    BY <1>4 DEF Rescan, CacheInv, working, Typed, SnapInv
  <1>5. ASSUME NEW p \in Path, Deliver(p) \/ LocalDelete(p)
               \/ \E c \in Content : LocalEdit(p, c) \/ QuietEdit(p, c)
        PROVE CacheInv'
    <2>1. ProviderStands
      BY <1>5
         DEF Deliver, LocalDelete, LocalEdit, QuietEdit, provider, working, checkpoint,
             ProviderStands
    <2> QED
      BY <2>1, <1>2
  <1>6. ASSUME NEW p \in Path, RemoteDelete(p) \/ \E c \in Content : RemoteEdit(p, c)
        PROVE CacheInv'
    <2>1. remote \in [Path -> RemoteObject \cup {None}]
      BY DEF Typed, TypeOK
    <2>2. ProviderMoves(p)
      BY <1>6, <2>1 DEF RemoteDelete, RemoteEdit, checkpoint, ProviderMoves
    <2> QED
      BY <2>2, <1>1
  <1>7. CASE CloseIncomplete \/ CommitFails \/ Crash
    <2>1. ProviderStands
      BY <1>7
         DEF CloseIncomplete, CommitFails, Crash, Abandon, Repeat, DiscardView, provider,
             checkpoint, ProviderStands
    <2> QED
      BY <2>1, <1>2
  <1>8. CASE Commit
    BY <1>8 DEF Commit, DiscardView, CacheInv
  <1>9. CASE Collect
    <2>1. \A p \in Path : Acquired[p] = IF durable = None \/ p \in unseen THEN remote[p]
            ELSE durable[p]
      BY DEF Acquired
    <2>2. \A p \in Path : Acquired[p] = remote[p]
      BY <2>1 DEF CacheInv
    <2> QED
      BY <2>2, <1>9 DEF Collect, CacheInv, provider, checkpoint
  <1>10. ASSUME NEW p \in Path, Acts(p) PROVE CacheInv'
    BY <1>1, <1>2, <1>10, ActsProvider
  <1>11. CASE UNCHANGED vars
    BY <1>11, <1>2 DEF vars, ProviderStands
  <1> QED
    BY <1>3, <1>4, <1>5, <1>6, <1>7, <1>8, <1>9, <1>10, <1>11, StepKinds DEF Aside, Ends

(* A path the run answers for: in scope then and now, and scanned or with   *)
(* no record missing.                                                       *)
Counted(p) == p \in snap.fingerprint \cap snap.included /\ (snap.force \/ p \notin missed)
(* What the run does not plan, or has done, and the log will not report,    *)
(* agrees with the provider.                                                *)
Covered(p) ==
  Counted(p) /\ p \notin unread /\ remote[p] # None
  /\ (plan[p] = None \/ plan[p].step = "done") => Agrees(p)
(* The run has covered everything it answers for.                           *)
CoveredInv == phase = "run" => \A p \in Path : Covered(p)

(* What is published of a remote file the log does not report is what the   *)
(* provider holds.                                                          *)
LEMMA PublishAgrees ==
    ASSUME Typed, ViewInv, CacheInv, NEW p \in Path, Publish(p), Proved(p), p \notin unread,
           remote[p] # None
    PROVE  Agrees(p)'
  <1> DEFINE a == plan[p]
  <1>1. /\ a.step = "publish" /\ StepsTo(p, "done")
        /\ record' = [record EXCEPT ![p] = Terminal(p)] /\ remote' = remote
    BY PublishSteps
  <1>2. /\ a \in Action /\ Open(a) /\ phase = "run" /\ KindAt(a) /\ Sides(a) /\ Taken(a)
        /\ a.kind \in Kind
    BY <1>1 DEF StepsTo, Typed, ProperInv, Proper, Action
  <1>3. view # None /\ view[p] = remote[p]
    BY <1>2 DEF Typed, SnapInv, CacheInv
  <1>4. ~Written(a) /\ view[p] = a.remote
    BY <1>2 DEF ViewInv, ViewOf
  <1>5. a.kind \in {"pull", "match"}
    BY <1>1, <1>2, <1>3, <1>4 DEF Written, KindAt, Sides, Kind
  <1>6. CASE a.kind = "pull"
    <2>1. Terminal(p) = [content |-> a.took.content, mtime |-> local[p].mtime,
            id |-> view[p].id]
      BY <1>6 DEF Terminal
    <2>2. a.took.content = a.remote.content
      BY <1>1, <1>2, <1>6 DEF Taken, Took, OfRemote
    <2>3. Terminal(p).content = remote[p].content /\ Terminal(p).id = remote[p].id
      BY <2>1, <2>2, <1>3, <1>4
    <2>4. local[p] \in Version
      BY <1>6 DEF Proved, Typed, TypeOK
    <2>5. remote[p] \in RemoteObject
      BY DEF Typed, TypeOK
    <2>6. Terminal(p) \in RemoteObject
      BY <2>1, <2>2, <2>4, <2>5, <1>3, <1>4 DEF RemoteObject, Version
    <2>7. record'[p] = Terminal(p) /\ Terminal(p) # None
      BY <1>1, <2>6, NothingAssumption DEF Typed, TypeOK
    <2> QED
      BY <2>3, <2>7, <1>1 DEF Agrees
  <1>7. CASE a.kind = "match"
    <2>1. Terminal(p) = [content |-> a.remote.content, mtime |-> a.local.mtime,
            id |-> a.remote.id]
      BY <1>7 DEF Terminal
    <2>3. Terminal(p).content = remote[p].content /\ Terminal(p).id = remote[p].id
      BY <2>1, <1>3, <1>4
    <2>4. a.local.mtime \in Mtime
      BY <1>2, <1>7 DEF Sides, Both, Action
    <2>5. remote[p] \in RemoteObject
      BY DEF Typed, TypeOK
    <2>6. Terminal(p) \in RemoteObject
      BY <2>1, <2>4, <2>5, <1>3, <1>4 DEF RemoteObject
    <2>7. record'[p] = Terminal(p) /\ Terminal(p) # None
      BY <1>1, <2>6, NothingAssumption DEF Typed, TypeOK
    <2> QED
      BY <2>3, <2>7, <1>1 DEF Agrees
  <1> QED
    BY <1>5, <1>6, <1>7

(* What collection leaves out agrees already.                               *)
LEMMA CollectCovers ==
    ASSUME Typed, CursorInv, CacheInv, RemoteChangesStayVisible, Collect, NEW p \in Path
    PROVE  Covered(p)'
  <1>1. phase = "snapped" /\ view' = Acquired /\ plan' = Prepared
        /\ snap' = [snap EXCEPT !.included = Included]
        /\ UNCHANGED <<remote, record, missed, unseen>>
    BY DEF Collect, provider, checkpoint
  <1>2. snap \in Snapshot
    BY <1>1 DEF Typed, SnapInv, TypeOK
  <1>3. /\ snap'.force = snap.force /\ snap'.fingerprint = snap.fingerprint
        /\ snap'.included = Included
    BY <1>1, <1>2 DEF Snapshot
  <1> SUFFICES ASSUME Counted(p)', remote[p] # None, plan'[p] = None \/ plan'[p].step = "done"
               PROVE Agrees(p)
    BY <1>1 DEF Covered, Agrees
  <1>4. Acquired[p] = remote[p]
    BY DEF Acquired, CacheInv
  <1>5. p \in snap.fingerprint /\ p \in Included /\ (snap.force \/ p \notin missed)
    BY <1>1, <1>3 DEF Counted
  <1>6. plan'[p] = None
    BY <1>1, FreshPlan DEF Typed
  <1>7. ~Planned(p)
    <2>1. SUFFICES ASSUME Planned(p) PROVE FALSE
      OBVIOUS
    <2>2. Prepared[p] = AdmittedAction(p)
      BY <2>1 DEF Prepared
    <2>3. AdmittedAction(p) \in Action
      BY <2>1, AdmittedTyped DEF Planned, Typed
    <2> QED
      BY <2>2, <2>3, <1>1, <1>6, NothingAssumption
  <1>8. p \notin Entries \/ Admitted(p) = None
    BY <1>5, <1>7 DEF Planned
  <1>9. CASE Admitted(p) = None
    <2>1. ~NoBase(Acquired[p], record[p]) /\ ~RemoteDiffers(Acquired[p], record[p])
      BY <1>4, <1>9, AdmittedFacts DEF Typed
    <2> QED
      BY <2>1, <1>4 DEF NoBase, RemoteDiffers, Agrees
  <1>10. CASE p \notin Entries
    <2>1. Entries = CASE Cold -> {q \in Path : \/ local[q] # None \/ Acquired[q] # None
            \/ record[q] # None}
      [] Hot /\ ~Promoted -> snap.dirty \cup Reported
      [] OTHER -> ListedPaths \cup Reported \cup IF Hot THEN snap.dirty ELSE {}
      BY DEF Entries
    <2>2. \/ Cold /\ Entries = {q \in Path : \/ local[q] # None \/ Acquired[q] # None
               \/ record[q] # None}
          \/ ~Cold /\ Reported \subseteq Entries
      <3>1. CASE Cold
        <4>1. ~(Hot /\ ~Promoted)
          BY <3>1 DEF Cold
        <4> QED
          BY <2>1, <3>1, <4>1
      <3>2. CASE ~Cold /\ Hot /\ ~Promoted
        BY <2>1, <3>2
      <3>3. CASE ~Cold /\ ~(Hot /\ ~Promoted)
        BY <2>1, <3>3
      <3> QED
        BY <3>1, <3>2, <3>3
    <2>3. ~Cold /\ p \notin Reported
      BY <2>2, <1>10, <1>4
    <2>4. ~snap.force
      BY <2>3 DEF Cold, Hot
    <2>5. durable # None /\ vouched = snap.fingerprint
      BY <2>4, <1>1 DEF CursorInv
    <2>6. p \notin unseen
      BY <2>3, <2>5 DEF Reported
    <2> QED
      BY <2>4, <2>5, <2>6, <1>5 DEF RemoteChangesStayVisible
  <1> QED
    BY <1>8, <1>9, <1>10

(* Every step keeps the run covering what it answers for.                   *)
LEMMA CoveredStep ==
    ASSUME Typed, ViewInv, CursorInv, CacheInv, CoveredInv, RemoteChangesStayVisible,
           [Next]_vars
    PROVE  CoveredInv'
  <1>1. CASE Ends
    BY <1>1, EndsEffect DEF CoveredInv
  <1>2. CASE Collect
    BY <1>2, CollectCovers DEF CoveredInv
  <1>3. CASE Begin \/ Acknowledge \/ CollectFails \/ Rescan \/ Restart
    BY <1>3 DEF Begin, Acknowledge, CollectFails, Rescan, Restart, CoveredInv
  <1>4. ASSUME UNCHANGED <<phase, snap, missed, plan, record, remote, unread>> PROVE CoveredInv'
    BY <1>4 DEF CoveredInv, Covered, Counted, Agrees
  <1>5. CASE ChangeScope \/ \E p \in Path : Deliver(p) \/ LocalDelete(p)
               \/ \E c \in Content : LocalEdit(p, c) \/ QuietEdit(p, c)
    <2>1. UNCHANGED <<phase, snap, missed, plan, record, remote, unread>>
      BY <1>5
         DEF ChangeScope, Deliver, LocalDelete, LocalEdit, QuietEdit, provider, working,
             checkpoint
    <2> QED
      BY <2>1, <1>4
  <1>6. ASSUME NEW p \in Path, UNCHANGED <<phase, snap, missed, plan, record>>, Logged(p),
               \A q \in Path \ {p} : remote'[q] = remote[q]
        PROVE CoveredInv'
    BY <1>6 DEF CoveredInv, Covered, Counted, Agrees, Logged, Typed, SnapInv
  <1>7. ASSUME NEW p \in Path, RemoteDelete(p) \/ \E c \in Content : RemoteEdit(p, c)
        PROVE CoveredInv'
    <2>1. UNCHANGED <<phase, snap, missed, plan, record>> /\ Logged(p)
      BY <1>7 DEF RemoteDelete, RemoteEdit, checkpoint
    <2>2. \A q \in Path \ {p} : remote'[q] = remote[q]
      BY <1>7 DEF RemoteDelete, RemoteEdit, Typed, TypeOK
    <2> QED
      BY <2>1, <2>2, <1>6
  <1>8. ASSUME NEW p \in Path, Acts(p) PROVE CoveredInv'
    <2>1. UNCHANGED <<durable, vouched, missed, phase, snap>> /\ phase = "run"
      BY <1>8, ActsCheckpoint
    <2>2. ProviderMoves(p) \/ ProviderStands
      BY <1>8, ActsProvider
    <2>3. unread \subseteq unread' /\ \A q \in Path \ {p} : remote'[q] = remote[q]
            /\ record'[q] = record[q] /\ plan'[q] = plan[q]
      BY <2>2, <1>8, ActsEffect DEF StepsTo, ProviderMoves, ProviderStands
    <2>4. \A q \in Path \ {p} : Covered(q)'
      BY <2>1, <2>3 DEF CoveredInv, Covered, Counted, Agrees
    <2>5. ASSUME Counted(p)', p \notin unread', remote'[p] # None,
                 plan'[p] = None \/ plan'[p].step = "done" PROVE Agrees(p)'
      <3>1. plan'[p].step = "done"
        BY <2>5, <1>8, ActsEffect DEF StepsTo
      <3>2. Publish(p) /\ Proved(p)
        BY <3>1, <1>8, ActsEffect
      <3>3. p \notin unread /\ remote[p] # None
        BY <3>2, <2>5, PublishSteps
      <3> QED
        BY <3>2, <3>3, PublishAgrees
    <2> QED
      BY <2>4, <2>5 DEF CoveredInv, Covered
  <1>9. CASE UNCHANGED vars
    BY <1>9, <1>4 DEF vars
  <1> QED
    BY <1>1, <1>2, <1>3, <1>5, <1>7, <1>8, <1>9, StepKinds DEF Aside

(* Every step keeps remote changes visible.                                 *)
LEMMA VisibleStep ==
    ASSUME Typed, ViewInv, CacheInv, CoveredInv, RemoteChangesStayVisible, [Next]_vars
    PROVE  RemoteChangesStayVisible'
  <1>1. ASSUME UNCHANGED <<durable, vouched, missed, unseen, remote, record>>
        PROVE RemoteChangesStayVisible'
    BY <1>1 DEF RemoteChangesStayVisible, Agrees
  <1>2. CASE CloseIncomplete \/ CommitFails \/ Crash
    <2>1. UNCHANGED <<durable, vouched, missed, unseen, remote, record>>
      BY <1>2 DEF CloseIncomplete, CommitFails, Crash, Abandon, Repeat, provider, checkpoint
    <2> QED
      BY <2>1, <1>1
  <1>3. CASE Commit
    <2>1. /\ phase = "run" /\ Clean /\ durable' = view /\ unseen' = unread
          /\ UNCHANGED <<remote, record>>
          /\ vouched' = snap.fingerprint
          /\ missed' = (IF snap.force THEN {}
               ELSE missed \cap snap.fingerprint) \cup (snap.fingerprint \ snap.included)
      BY <1>3 DEF Commit, Vouch
    <2>2. ASSUME NEW p \in vouched' \ missed', remote[p] # None, p \notin unread PROVE Agrees(p)
      <3>1. Counted(p)
        BY <2>1, <2>2 DEF Counted
      <3>2. p \in Path
        BY <2>1, <2>2 DEF Typed, TypeOK, SnapInv, Snapshot
      <3>3. plan[p] = None \/ plan[p].step = "done"
        BY <3>2, <2>1 DEF Clean
      <3> QED
        BY <3>1, <3>2, <3>3, <2>1, <2>2 DEF CoveredInv, Covered
    <2> QED
      BY <2>1, <2>2 DEF RemoteChangesStayVisible, Agrees
  <1>4. CASE Begin \/ Acknowledge \/ CollectFails \/ ChangeScope \/ Restart \/ Collect
    <2>1. UNCHANGED <<durable, vouched, missed, unseen, remote, record>>
      BY <1>4
         DEF Begin, Acknowledge, CollectFails, ChangeScope, Restart, Collect, provider,
             checkpoint
    <2> QED
      BY <2>1, <1>1
  <1>5. CASE Rescan
    BY <1>5 DEF Rescan, RemoteChangesStayVisible
  <1>6. CASE \E p \in Path : Deliver(p) \/ LocalDelete(p) \/ \E c \in Content : LocalEdit(p, c)
               \/ QuietEdit(p, c)
    <2>1. UNCHANGED <<durable, vouched, missed, unseen, remote, record>>
      BY <1>6 DEF Deliver, LocalDelete, LocalEdit, QuietEdit, provider, checkpoint
    <2> QED
      BY <2>1, <1>1
  <1>7. vouched \subseteq Path
    BY DEF Typed, TypeOK
  <1>8. ASSUME NEW p \in Path, Logged(p), UNCHANGED <<durable, vouched, missed>>,
               \A q \in Path \ {p} : remote'[q] = remote[q] /\ record'[q] = record[q]
        PROVE RemoteChangesStayVisible'
    BY <1>7, <1>8 DEF Logged, RemoteChangesStayVisible, Agrees
  <1>9. ASSUME NEW p \in Path, RemoteDelete(p) \/ \E c \in Content : RemoteEdit(p, c)
        PROVE RemoteChangesStayVisible'
    <2>1. UNCHANGED <<durable, vouched, missed, record>> /\ Logged(p)
      BY <1>9 DEF RemoteDelete, RemoteEdit, checkpoint
    <2>2. \A q \in Path \ {p} : remote'[q] = remote[q]
      BY <1>9 DEF RemoteDelete, RemoteEdit, Typed, TypeOK
    <2> QED
      BY <2>1, <2>2, <1>8
  <1>10. ASSUME NEW p \in Path, Acts(p) PROVE RemoteChangesStayVisible'
    <2>1. UNCHANGED <<durable, vouched, missed>> /\ phase = "run"
      BY <1>10, ActsCheckpoint
    <2>2. \A q \in Path \ {p} : record'[q] = record[q]
      BY <1>10, ActsEffect
    <2>3. CASE ProviderMoves(p)
      BY <2>1, <2>2, <2>3, <1>8 DEF ProviderMoves
    <2>4. CASE ProviderStands
      <3>1. CASE record'[p] = record[p]
        BY <2>1, <2>2, <2>4, <3>1, <1>7 DEF ProviderStands, RemoteChangesStayVisible, Agrees
      <3>2. CASE Publish(p) /\ Proved(p)
        <4>1. p \notin unseen /\ remote[p] # None /\ durable # None => Agrees(p)'
          BY <3>2, <2>1, PublishAgrees DEF CacheInv, Typed, SnapInv
        <4> QED
          BY <4>1, <2>1, <2>2, <2>4, <1>7 DEF ProviderStands, RemoteChangesStayVisible, Agrees
      <3>3. record'[p] = record[p] \/ (Publish(p) /\ Proved(p))
        BY <1>10, CheckSteps, CaptureSteps, RecheckSteps, WriteLocalSteps, DeleteLocalSteps,
           CompareSteps, MutateRemoteSteps, RefuseRemoteSteps, PublishSteps, FailsSteps,
           ResponseLostSteps DEF Acts, Execute
      <3> QED
        BY <3>1, <3>2, <3>3
    <2> QED
      BY <1>10, <2>3, <2>4, ActsProvider
  <1>11. CASE UNCHANGED vars
    BY <1>11, <1>1 DEF vars
  <1> QED
    BY <1>2, <1>3, <1>4, <1>5, <1>6, <1>9, <1>10, <1>11, StepKinds DEF Aside, Ends

(* The inductive invariant behind the visibility of remote changes.         *)
VisibleInv ==
  /\ Typed /\ ViewInv /\ CursorInv /\ CacheInv /\ CoveredInv /\ RemoteChangesStayVisible

(* In every reachable state a remote file that differs from its record will *)
(* be reported by the log of the durable cursor, or a full scan is due: no  *)
(* cycle, however it ends, commits a cursor past a change it has not        *)
(* carried out.                                                             *)
THEOREM CycleKeepsRemoteChangesVisible == Spec => []RemoteChangesStayVisible
  <1>1. Init => VisibleInv
    <2> SUFFICES ASSUME Init PROVE VisibleInv
      OBVIOUS
    <2>1. Typed /\ ViewInv
      BY TypedInit
    <2>2. CursorInv /\ CacheInv /\ CoveredInv /\ RemoteChangesStayVisible
      BY DEF Init, CursorInv, CacheInv, CoveredInv, RemoteChangesStayVisible
    <2> QED
      BY <2>1, <2>2 DEF VisibleInv
  <1>2. VisibleInv /\ [Next]_vars => VisibleInv'
    BY TypedStep, ViewStep, CursorStep, CacheStep, CoveredStep, VisibleStep DEF VisibleInv
  <1>3. VisibleInv => RemoteChangesStayVisible
    BY DEF VisibleInv
  <1> QED
    BY <1>1, <1>2, <1>3, PTL DEF Spec

-----------------------------------------------------------------------------
(* A version a map of contents by modification time explains, from the      *)
(* edits counted so far.                                                    *)
By(g, v, n) == v # None => v.mtime <= n + 1 /\ v.content \in {None, g[v.mtime]}
(* The remote file of the initial state, before it was ever recorded.       *)
First(v, b) == v # None /\ v.mtime = 1 /\ b = None
(* A version an edit made.                                                  *)
Newer(v) == v = None \/ v.mtime > 1
(* A map explains the versions an open action holds.                        *)
PlanStamped(l, r, b, a, g, n) ==
  /\ By(g, a.local, n)
  /\ By(g, a.remote, n) \/ First(a.remote, b)
  /\ Took(a) /\ a.kind = "push" => By(g, a.took, n)
  /\ Took(a) /\ a.step # "recheck" =>
       \/ By(g, a.took, n)
       \/ a.step = "write local" /\ First(a.took, b) /\ a.took = OfRemote(a) /\ a.local = None
  /\ a.kind \in {"pull", "match"} => Newer(r) \/ r = a.remote
  /\ a.kind = "match" => Newer(l) \/ l = a.local
  /\ Written(a) =>
       \/ Newer(r)
       \/ a.kind # "delete_remote" /\ r.content = a.took.content /\ r.mtime = a.took.mtime
(* A map explains every version held of a path.                             *)
StampedBy(l, r, b, a, g, n) ==
  /\ By(g, l, n) /\ By(g, b, n)
  /\ By(g, r, n) \/ First(r, b)
  /\ Open(a) => PlanStamped(l, r, b, a, g, n)
(* Some map explains every version held of a path.                          *)
Marks(l, r, b, a, n) == \E g \in [Mtime -> Content \cup {None}] : StampedBy(l, r, b, a, g, n)
(* Where every edit moves the modification time, the time tells the         *)
(* content: of a path, two versions of one time are one content.            *)
Stamped == \A p \in Path : Marks(local[p], remote[p], record[p], plan[p], edits)

(* What moved behind the view of an open action is newer than what the      *)
(* action read, until the action itself overwrites it.                      *)
BehindInv ==
  \A p \in Path : Open(plan[p]) /\ p \in stale => Newer(remote[p]) \/ Written(plan[p])

(* Every step keeps the view behind edits only.                             *)
LEMMA BehindStep ==
    ASSUME Typed, BehindInv, [Next]_vars
    PROVE  BehindInv'
  <1>1. CASE Begin \/ Acknowledge \/ CollectFails \/ Rescan \/ ChangeScope \/ Restart
             \/ \E p \in Path : \/ Deliver(p) \/ LocalDelete(p)
                               \/ \E c \in Content : LocalEdit(p, c) \/ QuietEdit(p, c)
    <2>1. UNCHANGED <<plan, stale, remote>>
      BY <1>1
         DEF Begin, Acknowledge, CollectFails, Rescan, ChangeScope, Restart, Deliver,
             LocalDelete, LocalEdit, QuietEdit, provider, working
    <2> QED
      BY <2>1 DEF BehindInv
  <1>2. ASSUME NEW p \in Path, RemoteDelete(p) \/ \E c \in Content : RemoteEdit(p, c)
        PROVE  BehindInv'
    <2>1. plan' = plan /\ \A q \in Path \ {p} : q \in stale' => q \in stale
      BY <1>2 DEF RemoteDelete, RemoteEdit
    <2>2. edits \in Nat /\ remote \in [Path -> RemoteObject \cup {None}]
      BY BoundAssumption DEF Typed, TypeOK
    <2>3. Newer(remote'[p]) /\ \A q \in Path \ {p} : remote'[q] = remote[q]
      <3>1. CASE RemoteDelete(p)
        BY <2>2, <3>1 DEF RemoteDelete, Newer
      <3>2. ASSUME NEW c \in Content, RemoteEdit(p, c)
            PROVE  Newer(remote'[p]) /\ \A q \in Path \ {p} : remote'[q] = remote[q]
        <4> DEFINE o == [content |-> c, mtime |-> Now, id |-> IdentityAt(p, remote[p])]
        <4>1. remote' = [remote EXCEPT ![p] = o] /\ o.mtime = edits + 2
          BY <3>2 DEF RemoteEdit, Now
        <4> HIDE DEF o
        <4> QED
          BY <2>2, <4>1 DEF Newer
      <3> QED
        BY <1>2, <3>1, <3>2
    <2> QED
      BY <2>1, <2>3 DEF BehindInv
  <1>3. CASE Ends
    BY <1>3, EndsEffect DEF BehindInv, Open
  <1>4. CASE Collect
    BY <1>4 DEF Collect, BehindInv
  <1>5. ASSUME NEW p \in Path, Acts(p) PROVE BehindInv'
    <2>1. \A q \in Path \ {p} : plan'[q] = plan[q] /\ remote'[q] = remote[q]
      BY <1>5, ActsEffect, ActsProvider DEF StepsTo, ProviderMoves, ProviderStands
    <2>2. stale' = stale \/ (stale' = stale \cup {p} /\ ~Open(plan'[p]))
      <3>1. CASE ResponseLost(p)
        BY <3>1, ResponseLostSteps DEF StepsTo, Open
      <3>2. CASE Compare(p) \/ MutateRemote(p) \/ RefuseRemote(p)
        BY <3>2, CompareSteps, MutateRemoteSteps, RefuseRemoteSteps
      <3>3. CASE Check(p) \/ Capture(p) \/ Recheck(p) \/ WriteLocal(p) \/ DeleteLocal(p)
                 \/ Publish(p) \/ Fails(p)
        BY <3>3
           DEF Check, Capture, Recheck, WriteLocal, DeleteLocal, Publish, Fails, working
      <3> QED
        BY <1>5, <3>1, <3>2, <3>3 DEF Acts, Execute
    <2>3. ASSUME Open(plan'[p]), p \in stale, ~Written(plan'[p]) PROVE Newer(remote'[p])
      <3>1. Open(plan[p]) /\ KindAt(plan[p])
        BY <1>5, ActsEffect DEF StepsTo, Typed, ProperInv, Proper
      <3>2. ~Written(plan[p])
        BY <1>5, <2>3, ActsEffect
      <3>3. Newer(remote[p])
        BY <3>1, <3>2, <2>3 DEF BehindInv
      <3>4. CASE remote' = remote
        BY <3>3, <3>4
      <3>5. CASE MutateRemote(p)
        <4>1. /\ plan[p].step \in {"write remote", "delete remote"}
              /\ plan'[p].step = "publish" /\ plan'[p].kind = plan[p].kind
          BY <3>5, MutateRemoteSteps DEF StepsTo
        <4>2. plan[p].kind \in {"push", "conflict", "delete_remote"}
          BY <3>1, <4>1 DEF KindAt
        <4> QED
          BY <2>3, <4>1, <4>2 DEF Written
      <3>6. CASE Compare(p) \/ RefuseRemote(p)
        BY <3>4, <3>6, CompareSteps, RefuseRemoteSteps
      <3>7. CASE Check(p) \/ Capture(p) \/ Recheck(p) \/ WriteLocal(p) \/ DeleteLocal(p)
                 \/ Publish(p) \/ Fails(p)
        BY <3>4, <3>7
           DEF Check, Capture, Recheck, WriteLocal, DeleteLocal, Publish, Fails, provider
      <3>8. ~ResponseLost(p)
        BY <2>3, ResponseLostSteps DEF StepsTo, Open
      <3> QED
        BY <1>5, <3>5, <3>6, <3>7, <3>8 DEF Acts, Execute
    <2> QED
      BY <2>1, <2>2, <2>3 DEF BehindInv
  <1>6. CASE UNCHANGED vars
    BY <1>6 DEF vars, BehindInv
  <1> QED
    BY <1>1, <1>2, <1>3, <1>4, <1>5, <1>6, StepKinds DEF Aside

(* Versions that go away need no explanation.                               *)
LEMMA StampedShrinks ==
    ASSUME NEW l, NEW r, NEW b, NEW a, NEW n \in Nat, Marks(l, r, b, a, n),
           l = None \/ l.mtime \in Nat, r = None \/ r.mtime \in Nat,
           b = None \/ b.mtime \in Nat, a = None \/ a \in Action, NEW m \in Nat, n <= m,
           NEW l1 \in {l, None}, NEW r1 \in {r, None}, NEW a1, a1 = a \/ ~Open(a1)
    PROVE  Marks(l1, r1, b, a1, m)
  <1>1. PICK g \in [Mtime -> Content \cup {None}] : StampedBy(l, r, b, a, g, n)
    BY DEF Marks
  <1>2. ASSUME NEW v, By(g, v, n), v = None \/ v.mtime \in Nat PROVE By(g, v, m)
    BY <1>2 DEF By
  <1>3. By(g, l1, m) /\ By(g, b, m) /\ (By(g, r1, m) \/ First(r1, b))
    BY <1>1, <1>2 DEF StampedBy, By
  <1>4. Open(a1) => PlanStamped(l1, r1, b, a1, g, m)
    <2> SUFFICES ASSUME Open(a1) PROVE PlanStamped(l1, r1, b, a1, g, m)
      OBVIOUS
    <2>1. a1 = a /\ PlanStamped(l, r, b, a, g, n) /\ a \in Action
      BY <1>1 DEF StampedBy, Open
    <2>2. /\ (a.local = None \/ a.local.mtime \in Nat)
          /\ (a.remote = None \/ a.remote.mtime \in Nat)
          /\ (a.took = None \/ a.took.mtime \in Nat)
      BY <2>1 DEF Action, RemoteObject, Version, Mtime
    <2>3. By(g, a.local, m) /\ (By(g, a.remote, m) \/ First(a.remote, b))
      BY <1>2, <2>1, <2>2 DEF PlanStamped
    <2>4. By(g, a.took, n) => By(g, a.took, m)
      BY <1>2, <2>2
    <2>5. /\ (Newer(l) => Newer(l1)) /\ (Newer(r) => Newer(r1)) /\ (l1 = l \/ Newer(l1))
          /\ (r1 = r \/ Newer(r1))
      BY DEF Newer
    <2> QED
      BY <2>1, <2>3, <2>4, <2>5 DEF PlanStamped
  <1> QED
    BY <1>1, <1>3, <1>4 DEF Marks, StampedBy

(* A map that explains a version still does when a later time is given a    *)
(* content.                                                                 *)
LEMMA Restamp ==
    ASSUME NEW g \in [Mtime -> Content \cup {None}], NEW c \in Content, NEW n \in Nat,
           n + 2 \in Mtime, NEW h, h = [g EXCEPT ![n + 2] = c], NEW v, By(g, v, n),
           v = None \/ v.mtime \in Mtime
    PROVE  By(h, v, n + 1)
  BY DEF By, Mtime

(* An edit in the vault takes a time of its own.                            *)
LEMMA LocalStamp ==
    ASSUME NEW l, NEW r, NEW b, NEW a, NEW n \in Nat, Marks(l, r, b, a, n), n + 2 \in Mtime,
           r = None \/ r.mtime \in Mtime, b = None \/ b.mtime \in Mtime,
           a = None \/ a \in Action, NEW c \in Content, NEW l1,
           l1 = [content |-> c, mtime |-> n + 2]
    PROVE  Marks(l1, r, b, a, n + 1)
  <1>1. PICK g \in [Mtime -> Content \cup {None}] : StampedBy(l, r, b, a, g, n)
    BY DEF Marks
  <1> DEFINE h == [g EXCEPT ![n + 2] = c]
  <1>2. h \in [Mtime -> Content \cup {None}] /\ h[n + 2] = c
    OBVIOUS
  <1>3. ASSUME NEW v, By(g, v, n), v = None \/ v.mtime \in Mtime PROVE By(h, v, n + 1)
    BY <1>3, Restamp
  <1>4. l1.mtime = n + 2 /\ l1.content = c
    OBVIOUS
  <1>5. By(h, l1, n + 1)
    BY <1>2, <1>4 DEF By
  <1> HIDE DEF h
  <1>6. By(h, b, n + 1) /\ (By(h, r, n + 1) \/ First(r, b))
    BY <1>1, <1>3 DEF StampedBy
  <1>7. ASSUME Open(a) PROVE PlanStamped(l1, r, b, a, h, n + 1)
    <2>1. PlanStamped(l, r, b, a, g, n) /\ a \in Action
      BY <1>1, <1>7 DEF StampedBy, Open
    <2>2. /\ (a.local = None \/ a.local.mtime \in Mtime)
          /\ (a.remote = None \/ a.remote.mtime \in Mtime)
          /\ (a.took = None \/ a.took.mtime \in Mtime)
      BY <2>1 DEF Action, RemoteObject, Version
    <2>3. By(h, a.local, n + 1) /\ (By(h, a.remote, n + 1) \/ First(a.remote, b))
      BY <1>3, <2>1, <2>2 DEF PlanStamped
    <2>4. By(g, a.took, n) => By(h, a.took, n + 1)
      BY <1>3, <2>2
    <2>5. Newer(l1)
      BY <1>4 DEF Newer
    <2> QED
      BY <2>1, <2>3, <2>4, <2>5 DEF PlanStamped
  <1> QED
    BY <1>2, <1>5, <1>6, <1>7 DEF Marks, StampedBy

(* An edit at the provider takes a time of its own.                         *)
LEMMA RemoteStamp ==
    ASSUME NEW l, NEW r, NEW b, NEW a, NEW n \in Nat, Marks(l, r, b, a, n), n + 2 \in Mtime,
           l = None \/ l.mtime \in Mtime, b = None \/ b.mtime \in Mtime,
           a = None \/ a \in Action, NEW c \in Content, NEW i, NEW r1,
           r1 = [content |-> c, mtime |-> n + 2, id |-> i]
    PROVE  Marks(l, r1, b, a, n + 1)
  <1>1. PICK g \in [Mtime -> Content \cup {None}] : StampedBy(l, r, b, a, g, n)
    BY DEF Marks
  <1> DEFINE h == [g EXCEPT ![n + 2] = c]
  <1>2. h \in [Mtime -> Content \cup {None}] /\ h[n + 2] = c
    OBVIOUS
  <1>3. ASSUME NEW v, By(g, v, n), v = None \/ v.mtime \in Mtime PROVE By(h, v, n + 1)
    BY <1>3, Restamp
  <1>4. r1.mtime = n + 2 /\ r1.content = c
    OBVIOUS
  <1>5. By(h, r1, n + 1)
    BY <1>2, <1>4 DEF By
  <1> HIDE DEF h
  <1>6. By(h, b, n + 1) /\ By(h, l, n + 1)
    BY <1>1, <1>3 DEF StampedBy
  <1>7. ASSUME Open(a) PROVE PlanStamped(l, r1, b, a, h, n + 1)
    <2>1. PlanStamped(l, r, b, a, g, n) /\ a \in Action
      BY <1>1, <1>7 DEF StampedBy, Open
    <2>2. /\ (a.local = None \/ a.local.mtime \in Mtime)
          /\ (a.remote = None \/ a.remote.mtime \in Mtime)
          /\ (a.took = None \/ a.took.mtime \in Mtime)
      BY <2>1 DEF Action, RemoteObject, Version
    <2>3. By(h, a.local, n + 1) /\ (By(h, a.remote, n + 1) \/ First(a.remote, b))
      BY <1>3, <2>1, <2>2 DEF PlanStamped
    <2>4. By(g, a.took, n) => By(h, a.took, n + 1)
      BY <1>3, <2>2
    <2>5. Newer(r1)
      BY <1>4 DEF Newer
    <2> QED
      BY <2>1, <2>3, <2>4, <2>5 DEF PlanStamped
  <1> QED
    BY <1>2, <1>5, <1>6, <1>7 DEF Marks, StampedBy

(* What the steps of an action leave alone of the other files, and of their *)
(* own.                                                                     *)
LEMMA ActsDisk ==
    ASSUME Typed, NEW p \in Path, Acts(p)
    PROVE  /\ edits' = edits
           /\ \A q \in Path \ {p} : local'[q] = local[q] /\ (q \in late' <=> q \in late)
           /\ \A q \in Path : kept[q] \subseteq kept'[q]
           /\ local' = local \/ WriteLocal(p) \/ DeleteLocal(p)
           /\ remote' = remote \/ Mutates(p)
           /\ record' = record \/ (Publish(p) /\ Proved(p))
  <1>1. /\ local \in [Path -> Version \cup {None}] /\ kept \in [Path -> SUBSET Content]
        /\ record \in [Path -> RemoteObject \cup {None}]
    BY DEF Typed, TypeOK
  <1>2. CASE Check(p)
    BY <1>2 DEF Check, budget, provider
  <1>3. CASE Capture(p)
    <2>1. /\ edits' = edits /\ local' = local /\ late' = late /\ remote' = remote
          /\ record' = record
      BY <1>3 DEF Capture, budget, provider
    <2>2. kept' = kept \/ kept' = [kept EXCEPT ![p] = @ \cup Preserved(p)]
      BY <1>3 DEF Capture
    <2>3. \A q \in Path : kept[q] \subseteq kept'[q]
      BY <2>2, <1>1
    <2> QED
      BY <2>1, <2>3
  <1>4. CASE Recheck(p)
    BY <1>4 DEF Recheck, budget, disk, provider
  <1>5. CASE WriteLocal(p)
    BY <1>1, <1>5 DEF WriteLocal, budget, provider
  <1>6. CASE DeleteLocal(p)
    BY <1>1, <1>6 DEF DeleteLocal, budget, provider
  <1>7. CASE Compare(p) \/ RefuseRemote(p)
    BY <1>7 DEF Compare, RefuseRemote, budget, disk, provider
  <1>8. CASE MutateRemote(p)
    BY <1>8 DEF MutateRemote, budget, disk
  <1>9. CASE Publish(p)
    BY <1>9 DEF Publish, budget, disk, provider
  <1>10. CASE Fails(p)
    BY <1>10 DEF Fails, disk, provider
  <1>11. CASE ResponseLost(p)
    BY <1>11 DEF ResponseLost, disk
  <1> QED
    BY <1>2, <1>3, <1>4, <1>5, <1>6, <1>7, <1>8, <1>9, <1>10, <1>11 DEF Acts, Execute

(* What an admitted action rests on: a pull or a push that the side it      *)
(* overwrites is the recorded one; a conflict that what it gives up is      *)
(* kept, is the same, or was proved to lose.                                *)
Based(p) ==
  LET a == plan[p] IN
    /\ a.kind = "pull" /\ a.local # None
         => record[p] # None /\ ~LocalDiffers(a.local, record[p])
    /\ a.kind = "push" /\ a.remote # None
         => record[p] # None /\ a.remote.content = record[p].content
    /\ a.kind = "delete_remote" => record[p] # None /\ a.remote.content = record[p].content
    /\ a.kind = "conflict" /\ Took(a) /\ Both(a) =>
          /\ a.mode = "preserve" => a.remote.content \in kept[p]
          /\ a.mode = "auto_merge" /\ a.local.mtime = a.remote.mtime =>
               a.remote.content \in kept[p] \/ a.mine = a.remote.content
          /\ a.mode = "local_win" => LocalWinProof(a.local, a.remote, record[p])
(* Every open action rests on what it was admitted on.                      *)
BasedInv == \A p \in Path : Open(plan[p]) => Based(p)

(* Admission gives an action its base.                                      *)
LEMMA CollectBased ==
    ASSUME Typed, Collect, NEW p \in Path, Open(plan'[p])
    PROVE  Based(p)'
  <1>1. plan' = Prepared /\ record' = record
    BY DEF Collect
  <1> DEFINE a == Prepared[p]
  <1>2. a # None /\ a.step # "failed"
    BY <1>1 DEF Open
  <1>3. a.kind = Admitted(p) /\ a.local = AdmittedLocal(p) /\ a.remote = Acquired[p]
        /\ a.step \in {"publish", "failed", "check"}
        /\ (a.step = "publish" => Admitted(p) = "match")
    BY <1>2, FreshPlan DEF Typed
  <1>4. a.kind # "match" => a.local = Known(p)
    BY <1>3 DEF AdmittedLocal
  <1>5. ~(a.kind = "conflict" /\ Took(a))
    BY <1>3 DEF Took
  <1> HIDE DEF a
  <1>6. /\ a.kind = "pull" /\ a.local # None
             => record[p] # None /\ ~LocalDiffers(a.local, record[p])
        /\ a.kind = "push" /\ a.remote # None
             => record[p] # None /\ a.remote.content = record[p].content
        /\ a.kind = "delete_remote" => record[p] # None /\ a.remote.content = record[p].content
    BY <1>3, <1>4, AdmittedFacts DEF Typed, NoBase, RemoteDiffers
  <1> QED
    BY <1>1, <1>5, <1>6 DEF Based, a

(* A capture keeps an action on its base, and keeps what a conflict gives   *)
(* up.                                                                      *)
LEMMA CaptureBased ==
    ASSUME Typed, BasedInv, NEW p \in Path, Capture(p), Open(plan'[p])
    PROVE  Based(p)'
  <1> DEFINE a == plan[p]
  <1>1. /\ StepsTo(p, "recheck") /\ ContractHolds(p) /\ Readable(p) /\ record' = record
        /\ plan'[p].mine = IF a.kind = "conflict" /\ a.local # None THEN local[p].content
             ELSE None
        /\ kept' = [kept EXCEPT ![p] = @ \cup Preserved(p)]
    BY CaptureSteps DEF StepsTo, Open
  <1>2. a \in Action /\ Open(a) /\ Based(p) /\ kept'[p] = kept[p] \cup Preserved(p)
    BY <1>1 DEF StepsTo, BasedInv, Typed, TypeOK
  <1>3. /\ plan'[p].kind = a.kind /\ plan'[p].local = a.local
        /\ plan'[p].remote = a.remote /\ plan'[p].mode = a.mode
    BY <1>1 DEF StepsTo
  <1>4. ASSUME a.kind = "conflict", Both(a)
        PROVE /\ a.mode = "preserve" => a.remote.content \in kept'[p]
              /\ a.mode = "auto_merge" /\ a.local.mtime = a.remote.mtime =>
                  a.remote.content \in kept'[p] \/ plan'[p].mine = a.remote.content
              /\ a.mode = "local_win" => LocalWinProof(a.local, a.remote, record[p])
    <2>1. local[p] # None /\ remote[p].content = a.remote.content
      BY <1>1, <1>4 DEF Readable, LocalReadable, RemoteReadable, Both
    <2>2. plan'[p].mine = local[p].content
      BY <1>1, <1>4 DEF Both
    <2>3. Duplicates(p) => a.remote.content \in kept'[p]
      BY <1>2, <1>4, <2>1 DEF Preserved
    <2> QED
      BY <2>1, <2>2, <2>3, <1>1, <1>4 DEF Duplicates, Both, ContractHolds
  <1> QED
    BY <1>1, <1>2, <1>3, <1>4 DEF Based, Both

(* Every step keeps the actions on their bases.                             *)
LEMMA BasedStep ==
    ASSUME Typed, BasedInv, [Next]_vars
    PROVE  BasedInv'
  <1>1. CASE Aside
    <2>1. UNCHANGED <<plan, record>>
      BY <1>1, AsideEffect
    <2>2. kept' = kept
      BY <1>1
         DEF Aside, Begin, Acknowledge, CollectFails, Rescan, ChangeScope, Restart, Deliver,
             LocalDelete, RemoteDelete, LocalEdit, QuietEdit, RemoteEdit, disk
    <2> QED
      BY <2>1, <2>2 DEF BasedInv, Based
  <1>2. CASE Ends
    BY <1>2, EndsEffect DEF BasedInv, Open
  <1>3. CASE Collect
    BY <1>3, CollectBased DEF BasedInv
  <1>4. ASSUME NEW p \in Path, Acts(p) PROVE BasedInv'
    <2>1. \A q \in Path \ {p} : plan'[q] = plan[q] /\ record'[q] = record[q]
            /\ kept[q] \subseteq kept'[q]
      BY <1>4, ActsEffect, ActsDisk DEF StepsTo
    <2>2. \A q \in Path \ {p} : Open(plan'[q]) => Based(q)'
      BY <2>1 DEF BasedInv, Based
    <2>3. ASSUME Open(plan'[p]) PROVE Based(p)'
      <3>1. CASE Capture(p)
        BY <3>1, <2>3, CaptureBased
      <3>2. CASE ~Capture(p)
        <4>1. PICK t : StepsTo(p, t)
          BY <1>4, ActsEffect
        <4>2. ~Publish(p)
          BY <2>3, PublishSteps DEF StepsTo, Open
        <4>3. record' = record /\ kept[p] \subseteq kept'[p]
          BY <4>2, <1>4, ActsDisk
        <4>5. Open(plan[p]) /\ Based(p) /\ KindAt(plan[p]) /\ plan[p].kind \in Kind
          BY <4>1 DEF StepsTo, BasedInv, Typed, ProperInv, Proper, Action
        <4>4. plan[p].step # "capture" /\ (Took(plan'[p]) => Took(plan[p]))
          <5>1. CASE Check(p)
            BY <5>1, <4>5, CheckSteps, <2>3 DEF StepsTo, Took, Open, AfterCheck, KindAt, Kind
          <5>2. CASE Recheck(p)
            BY <5>2, RecheckSteps DEF Took
          <5>3. CASE WriteLocal(p)
            BY <5>3, WriteLocalSteps DEF Took
          <5>4. CASE Compare(p)
            BY <5>4, <4>5, <2>3, CompareSteps DEF StepsTo, Took, KindAt, Open
          <5>5. CASE DeleteLocal(p)
            BY <5>5, <4>5, DeleteLocalSteps DEF StepsTo, Took, KindAt
          <5>6. CASE MutateRemote(p)
            BY <5>6, <4>5, <2>3, MutateRemoteSteps DEF StepsTo, Took, KindAt, Open
          <5>7. CASE Fails(p) \/ ResponseLost(p) \/ RefuseRemote(p)
            BY <5>7, <2>3, FailsSteps, ResponseLostSteps, RefuseRemoteSteps DEF StepsTo, Open
          <5> QED
            BY <1>4, <3>2, <4>2, <5>1, <5>2, <5>3, <5>4, <5>5, <5>6, <5>7 DEF Acts, Execute
        <4> QED
          BY <4>1, <4>3, <4>4, <4>5 DEF Based, StepsTo, Both
      <3> QED
        BY <3>1, <3>2
    <2> QED
      BY <2>2, <2>3 DEF BasedInv
  <1>5. CASE UNCHANGED vars
    BY <1>5 DEF vars, BasedInv, Based
  <1> QED
    BY <1>1, <1>2, <1>3, <1>4, <1>5, StepKinds

(* The file an action will not look at again is the one it last saw, unless *)
(* the user touched it since.                                               *)
Held(p) ==
  LookedLast(p) /\ p \notin late =>
    /\ LocalUnchanged(p)
    /\ plan[p].step = "write local" /\ ~TrustsAbsence(p) => SourceUnchanged(p)
(* No action writes over what it did not see.                               *)
HeldInv == \A p \in Path : Held(p)

(* Every step keeps the checked file.                                       *)
LEMMA HeldStep ==
    ASSUME Typed, HeldInv, [Next]_vars
    PROVE  HeldInv'
  <1>1. CASE Begin \/ Acknowledge \/ CollectFails \/ Rescan \/ ChangeScope \/ Restart
    <2>1. UNCHANGED <<plan, local, late>>
      BY <1>1 DEF Begin, Acknowledge, CollectFails, Rescan, ChangeScope, Restart, disk
    <2> QED
      BY <2>1 DEF HeldInv, Held, LookedLast, TrustsAbsence, LocalUnchanged, SourceUnchanged
  <1>2. CASE \E p \in Path : Deliver(p) \/ RemoteDelete(p)
               \/ \E c \in Content : RemoteEdit(p, c)
    <2>1. UNCHANGED <<plan, local, late>>
      BY <1>2 DEF Deliver, RemoteDelete, RemoteEdit, disk
    <2> QED
      BY <2>1 DEF HeldInv, Held, LookedLast, TrustsAbsence, LocalUnchanged, SourceUnchanged
  <1>3. ASSUME NEW p \in Path, LocalDelete(p) \/ \E c \in Content : LocalEdit(p, c)
               \/ QuietEdit(p, c) PROVE HeldInv'
    <2>1. Raise(p) /\ plan' = plan
      BY <1>3 DEF LocalDelete, LocalEdit, QuietEdit
    <2>2. \A q \in Path \ {p} : local'[q] = local[q] /\ (q \in late' <=> q \in late)
      BY <1>3, <2>1 DEF LocalDelete, LocalEdit, QuietEdit, Raise, Typed, TypeOK
    <2>3. LookedLast(p) => p \in late'
      BY <2>1 DEF Raise
    <2> QED
      BY <2>1, <2>2, <2>3
         DEF HeldInv, Held, LookedLast, TrustsAbsence, LocalUnchanged, SourceUnchanged
  <1>4. CASE Ends
    BY <1>4, EndsEffect DEF HeldInv, Held, LookedLast
  <1>5. CASE Collect
    <2>1. plan' = Prepared
      BY <1>5 DEF Collect
    <2> QED
      BY <2>1, FreshPlan DEF HeldInv, Held, LookedLast, Typed
  <1>6. ASSUME NEW p \in Path, Acts(p) PROVE HeldInv'
    <2>1. \A q \in Path \ {p} : plan'[q] = plan[q] /\ local'[q] = local[q]
            /\ (q \in late' <=> q \in late)
      BY <1>6, ActsEffect, ActsDisk DEF StepsTo
    <2>2. ASSUME plan'[p] # None, plan'[p].local = plan[p].local, plan'[p].kind = plan[p].kind,
                 local' = local, LocalUnchanged(p),
                 plan'[p].step = "write local" /\ ~TrustsAbsence(p)
                   => SourceUnchanged(p) /\ plan'[p].mine = plan[p].mine
          PROVE  Held(p)'
      BY <2>2 DEF Held, LocalUnchanged, SourceUnchanged, TrustsAbsence
    <2>3. Held(p)'
      <3>1. CASE Check(p)
        <4>1. local' = local /\ StepsTo(p, IF LocalUnchanged(p) THEN AfterCheck(plan[p].kind)
                                          ELSE "failed")
          BY <3>1, CheckSteps DEF Check
        <4>2. CASE LocalUnchanged(p)
          <5>1. plan'[p].step # "write local"
            BY <4>1, <4>2 DEF StepsTo, AfterCheck
          <5> QED
            BY <4>1, <4>2, <5>1, <2>2 DEF StepsTo
        <4> QED
          BY <4>1, <4>2 DEF StepsTo, Held, LookedLast, TrustsAbsence
      <3>2. CASE Capture(p)
        <4>1. /\ local' = local /\ late' = late /\ plan[p].step = "capture"
              /\ StepsTo(p, "failed") \/ StepsTo(p, "recheck")
          BY <3>2, CaptureSteps DEF Capture
        <4>2. CASE StepsTo(p, "recheck") /\ TrustsAbsence(p) /\ p \notin late
          <5>1. LookedLast(p) /\ plan'[p].step = "recheck"
            BY <4>1, <4>2 DEF LookedLast, StepsTo
          <5>2. LocalUnchanged(p)
            BY <4>2, <5>1 DEF HeldInv, Held
          <5> QED
            BY <4>1, <4>2, <5>1, <5>2, <2>2 DEF StepsTo
        <4>3. CASE StepsTo(p, "failed")
          BY <4>3 DEF StepsTo, Held, LookedLast
        <4>4. CASE StepsTo(p, "recheck") /\ (~TrustsAbsence(p) \/ p \in late)
          BY <4>1, <4>4 DEF StepsTo, Held, LookedLast, TrustsAbsence
        <4> QED
          BY SMTT(30), <4>1, <4>2, <4>3, <4>4
      <3>3. CASE Recheck(p)
        <4>1. /\ local' = local /\ late' = late /\ plan[p].step = "recheck"
              /\ StepsTo(p, IF ~StillAdmitted(p) THEN "failed"
                           ELSE IF plan[p].kind = "push" THEN "compare" ELSE "write local")
          BY <3>3, RecheckSteps DEF Recheck, disk
        <4>2. CASE StepsTo(p, "write local") /\ p \notin late /\ StillAdmitted(p)
          <5>1. LookedLast(p) \/ (LocalUnchanged(p) /\ SourceUnchanged(p))
            BY <4>1, <4>2 DEF LookedLast, StillAdmitted, StepsTo
          <5>2. LocalUnchanged(p) /\ (~TrustsAbsence(p) => SourceUnchanged(p))
            BY <4>2, <5>1 DEF HeldInv, Held, StillAdmitted
          <5> QED
            BY <4>1, <4>2, <5>2, <2>2 DEF StepsTo
        <4> QED
          BY <4>1, <4>2 DEF StepsTo, Held, LookedLast, TrustsAbsence
      <3>4. CASE ~(Check(p) \/ Capture(p) \/ Recheck(p))
        <4>1. PICK t \in {"failed", "done", "publish", "compare", "write remote",
                           "delete remote"} : StepsTo(p, t)
          BY <1>6, <3>4, WriteLocalSteps, DeleteLocalSteps, CompareSteps, MutateRemoteSteps,
             RefuseRemoteSteps, PublishSteps, FailsSteps, ResponseLostSteps, ZenonT(60)
            DEF Acts, Execute
        <4> QED
          BY <4>1 DEF StepsTo, Held, LookedLast
      <3> QED
        BY <3>1, <3>2, <3>3, <3>4
    <2>4. \A q \in Path \ {p} : Held(q)'
      BY <2>1 DEF HeldInv, Held, LookedLast, TrustsAbsence, LocalUnchanged, SourceUnchanged
    <2> QED
      BY <2>3, <2>4 DEF HeldInv
  <1>7. CASE UNCHANGED vars
    BY <1>7 DEF vars, HeldInv, Held, LookedLast, TrustsAbsence, LocalUnchanged, SourceUnchanged
  <1> QED
    BY <1>1, <1>2, <1>3, <1>4, <1>5, <1>6, <1>7, StepKinds DEF Aside

(* The versions of a path have contents and times.                          *)
LEMMA Timed ==
    ASSUME TypeOK, NEW p \in Path
    PROVE  /\ local[p] = None \/ (local[p] \in Version /\ local[p].mtime \in Mtime
                /\ local[p].content \in Content)
           /\ remote[p] = None
                \/ (remote[p] \in RemoteObject /\ remote[p].mtime \in Mtime
                     /\ remote[p].content \in Content)
           /\ record[p] = None
                \/ (record[p] \in RemoteObject /\ record[p].mtime \in Mtime
                     /\ record[p].content \in Content)
           /\ plan[p] = None \/ plan[p] \in Action
           /\ edits \in Nat
  BY BoundAssumption DEF TypeOK, Version, RemoteObject

(* The versions of an action have contents and times.                       *)
LEMMA PlanTimed ==
    ASSUME NEW a \in Action
    PROVE  /\ a.local = None \/ (a.local.mtime \in Mtime
                /\ a.local.content \in Content \cup {None})
           /\ a.remote = None \/ (a.remote \in RemoteObject /\ a.remote.mtime \in Mtime
                /\ a.remote.content \in Content)
           /\ a.took = None \/ (a.took \in Version /\ a.took.mtime \in Mtime
                /\ a.took.content \in Content)
  BY DEF Action, Version, RemoteObject

(* The times are positive numbers.                                          *)
LEMMA FirstMtime == 1 \in Mtime /\ \A m \in Mtime : m \in Nat /\ m >= 1
  BY BoundAssumption DEF Mtime

(* After the second check what an action is about to write is explained.    *)
LEMMA RecheckStamp ==
    ASSUME Typed, BasedInv, NEW p \in Path, Recheck(p),
           NEW g \in [Mtime -> Content \cup {None}],
           StampedBy(local[p], remote[p], record[p], plan[p], g, edits), Open(plan'[p])
    PROVE  LET a == plan[p] IN
           \/ By(g, a.took, edits)
           \/ plan'[p].step = "write local" /\ First(a.took, record[p]) /\ a.took = OfRemote(a)
                /\ a.local = None
  <1> DEFINE a == plan[p]  b == record[p]  n == edits
  <1>1. a.step = "recheck" /\ StillAdmitted(p)
        /\ StepsTo(p, IF a.kind = "push" THEN "compare" ELSE "write local")
    BY RecheckSteps DEF StepsTo, Open
  <1>2. a \in Action /\ Open(a) /\ KindAt(a) /\ Sides(a) /\ Taken(a)
    BY <1>1 DEF StepsTo, Typed, ProperInv, Proper
  <1>3. Took(a) /\ a.kind \in {"push", "pull", "conflict"}
    BY <1>1, <1>2 DEF Took, KindAt
  <1>4. PlanStamped(local[p], remote[p], b, a, g, n)
    BY <1>2 DEF StampedBy
  <1>5. By(g, a.remote, n) \/ First(a.remote, b)
    BY <1>4 DEF PlanStamped
  <1>6. ASSUME a.remote # None, a.took = OfRemote(a)
        PROVE By(g, a.remote, n) => By(g, a.took, n)
    BY <1>6, <1>2, PlanTimed DEF OfRemote, By
  <1>7. ASSUME a.remote # None, a.took = OfRemote(a), First(a.remote, b) PROVE First(a.took, b)
    BY <1>7, <1>2, <1>3 DEF OfRemote, First, Taken
  <1>8. CASE a.kind = "push"
    BY <1>3, <1>4, <1>8 DEF PlanStamped
  <1>9. CASE a.kind = "pull"
    <2>1. a.remote # None /\ a.took = OfRemote(a)
      BY <1>2, <1>3, <1>9 DEF Sides, Taken
    <2>2. First(a.remote, b) => a.local = None
      BY <1>2, <1>9 DEF First, BasedInv, Based
    <2>3. plan'[p].step = "write local"
      BY <1>1, <1>9 DEF StepsTo
    <2> QED
      BY <2>1, <2>2, <2>3, <1>5, <1>6, <1>7
  <1>10. CASE a.kind = "conflict" /\ Keeps(a)
    <2>1. a.remote # None /\ a.took = OfRemote(a)
      BY <1>2, <1>3, <1>10 DEF Sides, Taken, Keeps
    <2>2. First(a.remote, b) => a.local = None
      BY <1>2, <1>10, PlanTimed, FirstMtime DEF First, Keeps
    <2>3. plan'[p].step = "write local"
      BY <1>1, <1>10 DEF StepsTo
    <2> QED
      BY <2>1, <2>2, <2>3, <1>5, <1>6, <1>7
  <1>11. CASE a.kind = "conflict" /\ ~Keeps(a)
    <2>1. a.local # None /\ a.took = [content |-> a.mine, mtime |-> a.local.mtime]
          /\ a.mine # None /\ a.local.content \in {None, a.mine}
      BY <1>2, <1>3, <1>11 DEF Taken, Keeps
    <2>2. a.took.content = a.mine /\ a.took.mtime = a.local.mtime
      BY <2>1
    <2>3. By(g, a.local, n)
      BY <1>4 DEF PlanStamped
    <2>4. CASE a.local.content = a.mine
      BY <2>1, <2>2, <2>3, <2>4 DEF By
    <2>5. CASE a.local.content = None
      <3>1. local[p] # None /\ local[p].mtime = a.local.mtime /\ local[p].content = a.mine
        BY <2>1, <2>5, <1>1
           DEF StillAdmitted, TrustsAbsence, LocalUnchanged, SourceUnchanged, LocalDiffers
      <3>2. By(g, local[p], n)
        BY DEF StampedBy
      <3> QED
        BY <3>1, <3>2, <2>1, <2>2 DEF By
    <2> QED
      BY <2>1, <2>4, <2>5
  <1> QED
    BY <1>3, <1>8, <1>9, <1>10, <1>11

(* A write of the vault writes an explained version.                        *)
LEMMA WriteLocalStamp ==
    ASSUME Typed, NEW p \in Path, WriteLocal(p),
           Marks(local[p], remote[p], record[p], plan[p], edits)
    PROVE  Marks(local'[p], remote[p], record[p], plan'[p], edits)
  <1> DEFINE a == plan[p]  b == record[p]  n == edits  r == remote[p]  d == plan'[p]
             l == local'[p]
  <1>1. PICK g \in [Mtime -> Content \cup {None}] : StampedBy(local[p], r, b, a, g, n)
    BY DEF Marks
  <1>2. a.step = "write local"
          /\ StepsTo(p, IF a.kind = "conflict" THEN "compare" ELSE "publish")
    BY WriteLocalSteps
  <1>3. a \in Action /\ Open(a) /\ KindAt(a) /\ Sides(a) /\ Taken(a)
    BY <1>2 DEF StepsTo, Typed, ProperInv, Proper
  <1>4. PlanStamped(local[p], r, b, a, g, n) /\ By(g, b, n) /\ (By(g, r, n) \/ First(r, b))
    BY <1>1, <1>3 DEF StampedBy
  <1>5. l = a.took /\ a.took # None
    BY <1>2, <1>3 DEF WriteLocal, Typed, TypeOK, Taken, Took
  <1>6. a.kind \in {"pull", "conflict"} /\ Took(a)
    BY <1>2, <1>3 DEF KindAt, Took
  <1>7. d.kind = a.kind /\ d.local = a.local /\ d.remote = a.remote /\ d.took = a.took
        /\ d.step = IF a.kind = "conflict" THEN "compare" ELSE "publish"
    BY <1>2 DEF StepsTo
  <1>8. ~Written(d)
    BY <1>6, <1>7 DEF Written
  <1> HIDE DEF d, l, a, b, r, n
  <1>9. ASSUME By(g, a.took, n) PROVE Marks(l, r, b, d, n)
    <2>1. By(g, l, n)
      BY <1>5, <1>9
    <2>2. PlanStamped(l, r, b, d, g, n)
      BY <1>4, <1>6, <1>7, <1>8, <1>9 DEF PlanStamped
    <2> QED
      BY <2>1, <2>2, <1>4 DEF Marks, StampedBy
  <1>10. ASSUME First(a.took, b), a.took = OfRemote(a), a.local = None
         PROVE Marks(l, r, b, d, n)
    <2> DEFINE h == [g EXCEPT ![1] = a.took.content]
    <2>1. a.took.mtime = 1 /\ b = None /\ a.took.content \in Content
      BY <1>3, <1>5, <1>10, PlanTimed DEF First
    <2>2. h \in [Mtime -> Content \cup {None}] /\ h[1] = a.took.content
            /\ \A m \in Mtime \ {1} : h[m] = g[m]
      BY <2>1, FirstMtime
    <2>3. n \in Nat
      BY Timed DEF Typed, n
    <2>4. By(h, a.took, n)
      BY <2>1, <2>2, <2>3 DEF By
    <2>5. r = None \/ r.mtime \in Mtime
      BY Timed DEF Typed, r
    <2> HIDE DEF h
    <2>6. By(h, r, n) \/ First(r, b)
      BY <2>1, <2>2, <2>5, <1>4 DEF By, First
    <2>7. First(a.remote, b)
      BY <1>3, <1>10, <2>1, <1>6 DEF First, OfRemote, Sides
    <2>8. By(h, b, n) /\ By(h, d.local, n)
      BY <2>1, <1>7, <1>10 DEF By
    <2>9. PlanStamped(l, r, b, d, h, n)
      BY <2>4, <2>7, <2>8, <1>4, <1>6, <1>7, <1>8 DEF PlanStamped
    <2> QED
      BY <2>2, <2>4, <2>6, <2>8, <2>9, <1>5 DEF Marks, StampedBy
  <1>11. By(g, a.took, n) \/ (First(a.took, b) /\ a.took = OfRemote(a) /\ a.local = None)
    BY <1>2, <1>4, <1>6 DEF PlanStamped, a
  <1> QED
    BY <1>9, <1>10, <1>11 DEF d, l, a, b, r, n

(* A write to the provider writes an explained version.                     *)
LEMMA RemoteWriteStamp ==
    ASSUME Typed, NEW p \in Path, NEW g \in [Mtime -> Content \cup {None}],
           StampedBy(local[p], remote[p], record[p], plan[p], g, edits),
           plan[p].step = "write remote", plan[p] # None, NEW r1 \in RemoteObject,
           r1.content = plan[p].took.content, r1.mtime = plan[p].took.mtime, NEW d,
           d = None \/ ~Open(d)
             \/ (d.step = "publish" /\ d.kind = plan[p].kind /\ d.local = plan[p].local
                  /\ d.remote = plan[p].remote /\ d.took = plan[p].took)
    PROVE  Marks(local[p], r1, record[p], d, edits)
  <1> DEFINE a == plan[p]  b == record[p]  n == edits  l == local[p]
  <1>1. a \in Action /\ Open(a) /\ KindAt(a) /\ Taken(a)
    BY DEF Open, Typed, TypeOK, ProperInv, Proper
  <1>2. a.kind \in {"push", "conflict"} /\ Took(a) /\ a.took # None
    BY <1>1 DEF KindAt, Took, Taken
  <1>3. PlanStamped(l, remote[p], b, a, g, n) /\ By(g, l, n) /\ By(g, b, n)
    BY <1>1 DEF StampedBy
  <1>4. By(g, a.took, n)
    BY <1>2, <1>3 DEF PlanStamped
  <1>5. By(g, r1, n)
    BY <1>2, <1>4 DEF By
  <1> HIDE DEF a, b, n, l
  <1>6. ASSUME Open(d) PROVE PlanStamped(l, r1, b, d, g, n)
    <2>1. /\ d.step = "publish" /\ d.kind = a.kind /\ d.local = a.local
          /\ d.remote = a.remote /\ d.took = a.took
      BY <1>6 DEF Open, a
    <2>2. r1.content = d.took.content /\ r1.mtime = d.took.mtime
      BY <2>1 DEF a
    <2> QED
      BY <2>1, <2>2, <1>2, <1>3, <1>4 DEF PlanStamped
  <1>7. StampedBy(l, r1, b, d, g, n)
    BY <1>3, <1>5, <1>6 DEF StampedBy
  <1> QED
    BY <1>7 DEF Marks, a, b, n, l

(* A request leaves an explained version at the provider.                   *)
LEMMA MutateStamp ==
    ASSUME Typed, BehindInv, NEW p \in Path, Mutates(p), plan[p] # None,
           NEW g \in [Mtime -> Content \cup {None}],
           StampedBy(local[p], remote[p], record[p], plan[p], g, edits), NEW d,
           d = None \/ ~Open(d)
             \/ (d.step = "publish" /\ d.kind = plan[p].kind /\ d.local = plan[p].local
                  /\ d.remote = plan[p].remote /\ d.took = plan[p].took)
    PROVE  Marks(local[p], remote'[p], record[p], d, edits)
  <1> DEFINE a == plan[p]  b == record[p]  n == edits  l == local[p]
  <1>1. /\ a.step \in {"write remote", "delete remote"}
        /\ remote'[p] = Result(p) \/ (p \in stale /\ remote'[p] = remote[p])
    BY MutatesFacts DEF Typed, TypeOK
  <1>2. a \in Action /\ Open(a) /\ KindAt(a)
    BY <1>1 DEF Open, Typed, TypeOK, ProperInv, Proper
  <1>3. CASE a.step = "write remote" /\ remote'[p] = Result(p)
    BY <1>3, MutatesFacts, RemoteWriteStamp
  <1>4. CASE remote'[p] = None \/ (p \in stale /\ remote'[p] = remote[p])
    <2>1. PlanStamped(l, remote[p], b, a, g, n) /\ By(g, l, n) /\ By(g, b, n)
          /\ (By(g, remote[p], n) \/ First(remote[p], b))
      BY <1>2 DEF StampedBy
    <2>2. Newer(remote'[p])
      BY <1>1, <1>2, <1>4 DEF BehindInv, Newer, Written
    <2>3. By(g, remote'[p], n) \/ First(remote'[p], b)
      BY <1>4, <2>1 DEF By
    <2>4. ASSUME Open(d) PROVE PlanStamped(l, remote'[p], b, d, g, n)
      <3>1. /\ d.step = "publish" /\ d.kind = a.kind /\ d.local = a.local
            /\ d.remote = a.remote /\ d.took = a.took
        BY <2>4 DEF Open
      <3>2. a.kind \in {"push", "conflict"} => By(g, a.took, n)
        BY <1>1, <1>2, <2>1 DEF PlanStamped, Took, KindAt
      <3>3. a.kind \in {"push", "conflict", "delete_remote"}
        BY <1>1, <1>2 DEF KindAt
      <3> HIDE DEF a, b, n, l
      <3> QED
        BY <3>1, <3>2, <3>3, <2>1, <2>2 DEF PlanStamped, Took
    <2> QED
      BY <2>1, <2>3, <2>4 DEF Marks, StampedBy
  <1> QED
    BY <1>1, <1>3, <1>4, MutatesFacts

(* Publishing records an explained version.                                 *)
LEMMA PublishStamp ==
    ASSUME Typed, ViewInv, NEW p \in Path, Publish(p), Proved(p),
           Marks(local[p], remote[p], record[p], plan[p], edits)
    PROVE  Marks(local[p], remote[p], record'[p], plan'[p], edits)
  <1> DEFINE a == plan[p]  b == record[p]  n == edits  r == remote[p]  l == local[p]
             c == record'[p]
  <1>1. PICK g \in [Mtime -> Content \cup {None}] : StampedBy(l, r, b, a, g, n)
    BY DEF Marks
  <1>2. a.step = "publish" /\ StepsTo(p, "done")
    BY PublishSteps
  <1>3. a \in Action /\ Open(a) /\ KindAt(a) /\ Sides(a) /\ Taken(a) /\ a.kind \in Kind
    BY <1>2 DEF StepsTo, Typed, ProperInv, Proper, Action
  <1>4. PlanStamped(l, r, b, a, g, n) /\ By(g, l, n) /\ (By(g, r, n) \/ First(r, b))
    BY <1>1, <1>3 DEF StampedBy
  <1>5. c = Terminal(p)
    BY PublishSteps DEF Typed, TypeOK
  <1>6. ~Open(plan'[p])
    BY <1>2 DEF StepsTo, Open
  <1>7. a.kind \in {"push", "pull", "conflict"} => By(g, a.took, n) /\ a.took # None
    BY <1>2, <1>3, <1>4 DEF PlanStamped, Took, Taken
  <1>8. /\ n \in Nat /\ (l = None \/ l.mtime \in Mtime)
        /\ (r = None \/ (r.mtime \in Mtime /\ r.content \in Content))
    BY Timed DEF Typed
  <1>9. By(g, c, n)
    <2>1. CASE a.kind = "push"
      <3>1. c.content = a.took.content /\ c.mtime = a.took.mtime
        BY <2>1, <1>5 DEF Terminal
      <3> QED
        BY <3>1, <2>1, <1>7 DEF By
    <2>2. CASE a.kind \in {"pull", "conflict"}
      <3>1. c.content = a.took.content /\ c.mtime = l.mtime
        BY <2>2, <1>5 DEF Terminal
      <3>2. l # None /\ l.content = a.took.content
        BY <2>2 DEF Proved
      <3> QED
        BY <3>1, <3>2, <1>4 DEF By
    <2>3. CASE a.kind = "match"
      <3>1. c.content = a.remote.content /\ c.mtime = a.local.mtime
        BY <2>3, <1>5 DEF Terminal
      <3>2. a.local # None /\ a.local.content = a.remote.content
        BY <2>3, <1>3 DEF Sides, Both
      <3> QED
        BY <3>1, <3>2, <1>4 DEF By, PlanStamped
    <2>4. CASE a.kind \notin {"push", "pull", "conflict", "match"}
      BY <2>4, <1>5 DEF Terminal, By
    <2> QED
      BY <2>1, <2>2, <2>3, <2>4
  <1>10. CASE By(g, r, n)
    BY <1>4, <1>6, <1>9, <1>10 DEF Marks, StampedBy
  <1>11. CASE First(r, b) /\ ~By(g, r, n)
    <2>1. ~Newer(r) /\ r # None /\ r.mtime = 1
      BY <1>11 DEF First, Newer
    <2>2. CASE a.kind \in {"push", "conflict"}
      <3>1. r.content = a.took.content /\ r.mtime = a.took.mtime
        BY <2>1, <2>2, <1>2, <1>4 DEF PlanStamped, Written
      <3> QED
        BY <3>1, <2>2, <1>7, <1>11 DEF By
    <2>3. CASE a.kind = "pull"
      <3>1. r = a.remote /\ a.took = OfRemote(a)
        BY <2>1, <2>3, <1>2, <1>3, <1>4 DEF PlanStamped, Taken, Took
      <3>2. a.took.content = r.content /\ a.took.mtime = r.mtime
        BY <3>1 DEF OfRemote
      <3> QED
        BY <3>2, <2>3, <1>7, <1>11 DEF By
    <2>4. CASE a.kind = "match"
      <3>1. r = a.remote /\ (Newer(l) \/ l = a.local) /\ By(g, a.local, n)
        BY <2>1, <2>4, <1>4 DEF PlanStamped
      <3>2. a.local # None /\ a.local.content = r.content /\ a.local.mtime \in Mtime
        BY <2>4, <1>3, <3>1, PlanTimed DEF Sides, Both
      <3>3. a.local.mtime # 1
        BY <3>1, <3>2, <2>1, <1>8, <1>11, NoneAssumption DEF By
      <3>4. c.content = r.content /\ c.mtime = a.local.mtime
        BY <2>4, <1>5, <3>1 DEF Terminal
      <3> DEFINE h == [g EXCEPT ![1] = r.content]
      <3>5. h \in [Mtime -> Content \cup {None}] /\ h[1] = r.content
              /\ \A m \in Mtime \ {1} : h[m] = g[m]
        BY <2>1, <1>8, FirstMtime
      <3> HIDE DEF h, c, r, l
      <3>6. By(h, r, n)
        BY <3>5, <2>1, <1>8 DEF By
      <3>7. By(h, c, n)
        BY <3>5, <3>4, <3>3, <3>2, <1>9 DEF By
      <3>8. By(h, l, n)
        BY <3>1, <3>3, <3>5, <1>4, <1>8, FirstMtime DEF By, Newer
      <3>9. StampedBy(l, r, c, plan'[p], h, n)
        BY <3>6, <3>7, <3>8, <1>6 DEF StampedBy
      <3> QED
        BY <3>5, <3>9 DEF Marks, l, r, c
    <2>5. CASE a.kind \notin {"push", "pull", "conflict", "match"}
      <3>1. c = None
        BY <2>5, <1>5 DEF Terminal
      <3>2. First(r, c)
        BY <3>1, <1>11 DEF First
      <3> QED
        BY <3>2, <1>4, <1>6, <1>9 DEF Marks, StampedBy
    <2> QED
      BY <2>2, <2>3, <2>4, <2>5
  <1> QED
    BY <1>4, <1>10, <1>11

(* A step that leaves a path's versions and plan alone, removes some or     *)
(* closes the plan.                                                         *)
LEMMA StampStays ==
    ASSUME Typed, NEW p \in Path, Marks(local[p], remote[p], record[p], plan[p], edits),
           edits' \in Nat, edits <= edits', record'[p] = record[p],
           local'[p] \in {local[p], None}, remote'[p] \in {remote[p], None},
           plan'[p] = plan[p] \/ ~Open(plan'[p])
    PROVE  Marks(local[p], remote[p], record[p], plan[p], edits)'
  <1> DEFINE l == local[p]  r == remote[p]  b == record[p]  a == plan[p]  n == edits
             l1 == local'[p]  r1 == remote'[p]  a1 == plan'[p]  m == edits'
  <1>1. /\ (l = None \/ l.mtime \in Nat) /\ (r = None \/ r.mtime \in Nat)
        /\ (b = None \/ b.mtime \in Nat)
        /\ (a = None \/ a \in Action) /\ n \in Nat
    BY Timed, FirstMtime DEF Typed
  <1>2. /\ Marks(l, r, b, a, n) /\ l1 \in {l, None} /\ r1 \in {r, None}
        /\ (a1 = a \/ ~Open(a1)) /\ m \in Nat /\ n <= m
    OBVIOUS
  <1> HIDE DEF l, r, b, a, n, l1, r1, a1, m
  <1>3. Marks(l1, r1, b, a1, m)
    BY <1>1, <1>2, StampedShrinks
  <1>4. Marks(l1, r1, record'[p], a1, m)
    BY <1>3 DEF b
  <1> QED
    BY <1>4 DEF l1, r1, a1, m

(* Collection plans on explained versions.                                  *)
LEMMA CollectStamp ==
    ASSUME Typed, CacheInv, NEW p \in Path, Collect,
           Marks(local[p], remote[p], record[p], plan[p], edits)
    PROVE  Marks(local[p], remote[p], record[p], plan'[p], edits)
  <1> DEFINE a == plan'[p]  b == record[p]  n == edits  r == remote[p]  l == local[p]
  <1>1. PICK g \in [Mtime -> Content \cup {None}] : StampedBy(l, r, b, plan[p], g, n)
    BY DEF Marks
  <1>2. plan' = Prepared
    BY DEF Collect
  <1>3. ASSUME Open(a) PROVE PlanStamped(l, r, b, a, g, n)
    <2>1. /\ a.remote = Acquired[p] /\ a.local = AdmittedLocal(p) /\ ~Written(a)
          /\ a.kind = Admitted(p)
          /\ a.step \in {"publish", "failed", "check"}
          /\ (a.step = "publish" => Admitted(p) = "match")
      BY <1>2, <1>3, FreshPlan DEF Open, Typed
    <2>2. Acquired[p] = r
      BY DEF Acquired, CacheInv
    <2>3. ~Took(a)
      BY <2>1 DEF Took
    <2>4. By(g, l, n) /\ (By(g, r, n) \/ First(r, b))
      BY <1>1 DEF StampedBy
    <2>5. a.local \in {Known(p), Stated(p)} /\ (a.kind = "match" => a.local = l)
      BY <2>1 DEF AdmittedLocal, Stated
    <2>6. /\ a.local = None <=> l = None
          /\ a.local # None => a.local.mtime = l.mtime /\ a.local.content \in {None, l.content}
      BY <2>5, KnownTyped DEF Typed
    <2>7. By(g, a.local, n)
      BY <2>4, <2>6 DEF By
    <2> HIDE DEF a, b, n, r, l
    <2> QED
      BY <2>1, <2>2, <2>3, <2>4, <2>5, <2>7 DEF PlanStamped
  <1>4. StampedBy(l, r, b, a, g, n)
    BY <1>1, <1>3 DEF StampedBy
  <1> QED
    BY <1>4 DEF Marks

(* The steps of an action keep the versions explained.                      *)
LEMMA ActStamp ==
    ASSUME Typed, ViewInv, BasedInv, BehindInv, NEW p \in Path, Acts(p),
           Marks(local[p], remote[p], record[p], plan[p], edits)
    PROVE  Marks(local[p], remote[p], record[p], plan[p], edits)'
  <1>1. edits' = edits /\ edits \in Nat /\ edits <= edits'
    BY ActsDisk, Timed DEF Typed
  <1>2. PICK g \in [Mtime -> Content \cup {None}] :
               StampedBy(local[p], remote[p], record[p], plan[p], g, edits)
    BY DEF Marks
  <1>3. PICK t : StepsTo(p, t)
    BY ActsEffect
  <1>4. /\ plan[p] \in Action /\ Open(plan[p]) /\ KindAt(plan[p]) /\ Sides(plan[p])
        /\ Taken(plan[p]) /\ plan[p].kind \in Kind
    BY <1>3 DEF StepsTo, Typed, ProperInv, Proper, Action
  <1>5. PlanStamped(local[p], remote[p], record[p], plan[p], g, edits)
    BY <1>2, <1>4 DEF StampedBy
  <1>6. CASE ~Open(plan'[p]) /\ UNCHANGED <<local, remote, record>>
    BY <1>1, <1>6, StampStays
  <1>7. CASE Check(p)
    <2>1. UNCHANGED <<local, remote, record>>
          /\ StepsTo(p, IF LocalUnchanged(p) THEN AfterCheck(plan[p].kind) ELSE "failed")
               /\ plan[p].step = "check"
      BY <1>7, CheckSteps DEF Check, provider
    <2>2. ~Took(plan'[p]) /\ ~Written(plan'[p])
      BY <2>1, <1>4 DEF StepsTo, AfterCheck, Took, Written, KindAt, Kind
    <2>3. PlanStamped(local[p], remote[p], record[p], plan'[p], g, edits)
      BY <2>1, <2>2, <1>5 DEF StepsTo, PlanStamped
    <2>4. StampedBy(local'[p], remote'[p], record'[p], plan'[p], g, edits')
      BY <1>1, <1>2, <2>1, <2>3 DEF StampedBy
    <2> QED
      BY <2>4 DEF Marks
  <1>8. CASE Capture(p) /\ Open(plan'[p])
    <2>1. UNCHANGED <<local, remote, record>>
      BY <1>8 DEF Capture, provider
    <2>2. StepsTo(p, "recheck") /\ plan'[p].took = Chosen(p)
      BY <1>8, CaptureSteps DEF StepsTo, Open
    <2>3. plan[p].kind = "push" => By(g, plan'[p].took, edits)
      BY <1>2, <2>2 DEF Chosen, StampedBy
    <2>4. ~Written(plan'[p])
      BY <2>2 DEF StepsTo, Written
    <2>5. PlanStamped(local[p], remote[p], record[p], plan'[p], g, edits)
      BY <2>2, <2>3, <2>4, <1>5 DEF StepsTo, PlanStamped
    <2>6. StampedBy(local'[p], remote'[p], record'[p], plan'[p], g, edits')
      BY <1>1, <1>2, <2>1, <2>5 DEF StampedBy
    <2> QED
      BY <2>6 DEF Marks
  <1>9. CASE Recheck(p) /\ Open(plan'[p])
    <2>1. UNCHANGED <<local, remote, record>>
      BY <1>9 DEF Recheck, disk, provider
    <2>2. plan[p].step = "recheck"
            /\ StepsTo(p, IF plan[p].kind = "push" THEN "compare" ELSE "write local")
      BY <1>9, RecheckSteps DEF StepsTo, Open
    <2>3. \/ By(g, plan[p].took, edits)
          \/ plan'[p].step = "write local" /\ First(plan[p].took, record[p])
               /\ plan[p].took = OfRemote(plan[p]) /\ plan[p].local = None
      BY <1>2, <1>9, RecheckStamp
    <2>4. /\ ~Written(plan'[p]) /\ plan'[p].took = plan[p].took
          /\ OfRemote(plan'[p]) = OfRemote(plan[p])
      BY <2>2 DEF StepsTo, Written, OfRemote
    <2>5. plan[p].kind = "push" => By(g, plan[p].took, edits)
      BY <2>2, <1>5 DEF PlanStamped, Took
    <2>6. PlanStamped(local[p], remote[p], record[p], plan'[p], g, edits)
      BY <2>2, <2>3, <2>4, <2>5, <1>5 DEF StepsTo, PlanStamped
    <2>7. StampedBy(local'[p], remote'[p], record'[p], plan'[p], g, edits')
      BY <1>1, <1>2, <2>1, <2>6 DEF StampedBy
    <2> QED
      BY <2>7 DEF Marks
  <1>10. CASE WriteLocal(p)
    <2>1. UNCHANGED <<remote, record>>
      BY <1>10 DEF WriteLocal, provider
    <2> QED
      BY <2>1, <1>1, <1>10, WriteLocalStamp
  <1>11. CASE MutateRemote(p) \/ ResponseLost(p)
    <2>1. /\ Mutates(p) /\ record' = record /\ plan[p] # None
          /\ \/ StepsTo(p, "publish") /\ plan'[p].took = plan[p].took
             \/ ~Open(plan'[p])
      BY <1>11, MutateRemoteSteps, ResponseLostSteps DEF StepsTo, Open
    <2>2. local' = local
      BY <1>11 DEF MutateRemote, ResponseLost, disk
    <2>3. Marks(local[p], remote'[p], record[p], plan'[p], edits)
      BY <2>1, <1>2, MutateStamp DEF StepsTo
    <2> QED
      BY <2>1, <2>2, <2>3, <1>1
  <1>12. CASE Compare(p) /\ Open(plan'[p])
    <2>1. UNCHANGED <<local, remote, record>>
      BY <1>12 DEF Compare, disk, provider
    <2>2. PICK s \in {"write remote", "delete remote", "publish"} :
            /\ plan[p].step = "compare" /\ plan'[p].took = plan[p].took /\ StepsTo(p, s)
            /\ s = "publish" => p \in stale /\ plan[p].kind = "delete_remote"
            /\ s = "delete remote" => plan[p].kind = "delete_remote"
            /\ s = "write remote" => plan[p].kind # "delete_remote"
      BY <1>12, CompareSteps DEF StepsTo, Open
    <2>3. s = "publish" => Newer(remote[p])
      BY <1>4, <2>2 DEF BehindInv, Written
    <2>4. PlanStamped(local[p], remote[p], record[p], plan'[p], g, edits)
      BY <2>2, <2>3, <1>5 DEF StepsTo, PlanStamped, Took, Written
    <2>5. StampedBy(local'[p], remote'[p], record'[p], plan'[p], g, edits')
      BY <1>1, <1>2, <2>1, <2>4 DEF StampedBy
    <2> QED
      BY <2>5 DEF Marks
  <1>14. CASE DeleteLocal(p)
    <2>1. /\ plan[p].step = "delete local" /\ record' = record /\ remote' = remote
          /\ StepsTo(p, "publish")
          /\ local' = [local EXCEPT ![p] = None]
      BY <1>14, DeleteLocalSteps DEF DeleteLocal, provider
    <2>2. local'[p] = None
      BY <2>1 DEF Typed, TypeOK
    <2>3. plan[p].kind = "delete_local"
      BY <2>1, <1>4 DEF KindAt
    <2>4. PlanStamped(None, remote[p], record[p], plan'[p], g, edits)
      BY <2>1, <2>3, <1>5 DEF StepsTo, PlanStamped, Took, Newer, Written
    <2>5. StampedBy(local'[p], remote'[p], record'[p], plan'[p], g, edits')
      BY <1>1, <1>2, <2>1, <2>2, <2>4 DEF StampedBy, By
    <2> QED
      BY <2>5 DEF Marks
  <1>15. CASE Publish(p) /\ Proved(p)
    <2>1. UNCHANGED <<local, remote>>
      BY <1>15 DEF Publish, disk, provider
    <2> QED
      BY <2>1, <1>1, <1>15, PublishStamp
  <1>16. CASE Fails(p) \/ (Publish(p) /\ ~Proved(p))
    <2>1. ~Open(plan'[p])
      BY <1>16, FailsSteps, PublishSteps DEF StepsTo, Open
    <2>2. UNCHANGED <<local, remote, record>>
      BY <1>16 DEF Fails, Publish, disk, provider
    <2> QED
      BY <2>1, <2>2, <1>6
  <1>17. CASE ~Open(plan'[p]) /\ (Capture(p) \/ Recheck(p) \/ Compare(p) \/ RefuseRemote(p))
    <2>1. UNCHANGED <<local, remote, record>>
      BY <1>17 DEF Capture, Recheck, Compare, RefuseRemote, disk, provider
    <2> QED
      BY <2>1, <1>6, <1>17
  <1>18. RefuseRemote(p) => ~Open(plan'[p])
    BY RefuseRemoteSteps DEF StepsTo, Open
  <1> QED
    BY <1>7, <1>8, <1>9, <1>10, <1>11, <1>12, <1>14, <1>15, <1>16, <1>17, <1>18
       DEF Acts, Execute

(* The count of edits is a number, and so is the next one.                  *)
LEMMA EditsCounted ==
    ASSUME TypeOK
    PROVE  edits \in Nat /\ edits <= edits /\ edits + 1 \in Nat /\ edits <= edits + 1
  BY BoundAssumption DEF TypeOK

(* Every step keeps the versions explained, where no edit is quiet.         *)
LEMMA StampedStep ==
    ASSUME Typed, ViewInv, CacheInv, BasedInv, BehindInv, Stamped, [Next]_vars,
           "quiet edit" \notin World
    PROVE  Stamped'
  <1>1. edits \in Nat /\ edits <= edits /\ edits + 1 \in Nat /\ edits <= edits + 1
    BY EditsCounted DEF Typed
  <1>2. ASSUME NEW q \in Path, edits' \in Nat, edits <= edits', record'[q] = record[q],
               local'[q] \in {local[q], None}, remote'[q] \in {remote[q], None},
                 plan'[q] = plan[q] \/ ~Open(plan'[q])
        PROVE Marks(local[q], remote[q], record[q], plan[q], edits)'
    BY <1>2, StampStays DEF Stamped
  <1>3. CASE Begin \/ Acknowledge \/ CollectFails \/ Rescan \/ Restart
               \/ \E p \in Path : Deliver(p)
    <2>1. UNCHANGED <<local, remote, record, plan, edits>>
      BY <1>3
         DEF Begin, Acknowledge, CollectFails, Rescan, Restart, Deliver, disk, provider, budget
    <2> QED
      BY <2>1, <1>1, <1>2 DEF Stamped
  <1>4. CASE ChangeScope
    <2>1. UNCHANGED <<local, remote, record, plan>> /\ edits' = edits + 1
      BY <1>4 DEF ChangeScope, disk, provider, Budgeted
    <2> QED
      BY <2>1, <1>1, <1>2 DEF Stamped
  <1>5. CASE Ends
    <2>1. UNCHANGED <<local, remote, record, edits>>
      BY <1>5
         DEF Ends, Commit, CloseIncomplete, CommitFails, Crash, Abandon, Repeat, disk, provider,
             budget
    <2>2. \A q \in Path : ~Open(plan'[q])
      BY <1>5, EndsEffect DEF Open
    <2> QED
      BY <2>1, <2>2, <1>1, <1>2 DEF Stamped
  <1>6. CASE Collect
    <2>1. UNCHANGED <<local, remote, record, edits>>
      BY <1>6 DEF Collect, disk, provider, budget
    <2> QED
      BY <2>1, <1>6, CollectStamp DEF Stamped
  <1>7. ASSUME NEW p \in Path, Acts(p) PROVE Stamped'
    <2>1. edits' = edits /\ \A q \in Path \ {p} : local'[q] = local[q]
            /\ remote'[q] = remote[q] /\ record'[q] = record[q] /\ plan'[q] = plan[q]
      <3>1. edits' = edits /\ \A q \in Path \ {p} : local'[q] = local[q]
        BY <1>7, ActsDisk
      <3>2. \A q \in Path \ {p} : record'[q] = record[q] /\ plan'[q] = plan[q]
        BY <1>7, ActsEffect DEF StepsTo
      <3>3. \A q \in Path \ {p} : remote'[q] = remote[q]
        BY <1>7, ActsProvider DEF ProviderMoves, ProviderStands
      <3> QED
        BY <3>1, <3>2, <3>3
    <2>2. \A q \in Path \ {p} : Marks(local[q], remote[q], record[q], plan[q], edits)'
      BY <2>1, <1>1, <1>2
    <2>3. Marks(local[p], remote[p], record[p], plan[p], edits)'
      BY <1>7, ActStamp DEF Stamped
    <2> QED
      BY <2>2, <2>3 DEF Stamped
  <1>8. ASSUME NEW p \in Path, LocalDelete(p) \/ RemoteDelete(p) PROVE Stamped'
    <2>1. UNCHANGED <<record, plan>> /\ edits' = edits + 1
      BY <1>8 DEF LocalDelete, RemoteDelete, Budgeted
    <2>2. \A q \in Path : local'[q] \in {local[q], None} /\ remote'[q] \in {remote[q], None}
      BY <1>8 DEF LocalDelete, RemoteDelete, provider, disk, Typed, TypeOK
    <2> QED
      BY <2>1, <2>2, <1>1, <1>2 DEF Stamped
  <1>9. ASSUME NEW p \in Path, NEW c \in Content, LocalEdit(p, c) PROVE Stamped'
    <2>1. /\ UNCHANGED <<record, plan, remote>> /\ edits' = edits + 1
          /\ local' = [local EXCEPT ![p] = [content |-> c, mtime |-> Now]]
      BY <1>9 DEF LocalEdit, Budgeted, provider
    <2>2. Now = edits + 2 /\ Now \in Mtime
      BY <1>9, EditTyped DEF LocalEdit, Now
    <2>3. \A q \in Path \ {p} : Marks(local[q], remote[q], record[q], plan[q], edits)'
      BY <2>1, <1>1, <1>2 DEF Typed, TypeOK
    <2>4. local'[p] = [content |-> c, mtime |-> edits + 2]
      BY <2>1, <2>2 DEF Typed, TypeOK
    <2>5. Marks(local'[p], remote[p], record[p], plan[p], edits + 1)
      BY <2>2, <2>4, <1>1, LocalStamp, Timed DEF Typed, Stamped
    <2>6. Marks(local[p], remote[p], record[p], plan[p], edits)'
      BY <2>1, <2>5
    <2> QED
      BY <2>3, <2>6 DEF Stamped
  <1>10. ASSUME NEW p \in Path, NEW c \in Content, RemoteEdit(p, c) PROVE Stamped'
    <2>1. UNCHANGED <<record, plan, local>> /\ edits' = edits + 1
          /\ remote' = [remote EXCEPT ![p]
               = [content |-> c, mtime |-> Now, id |-> IdentityAt(p, remote[p])]]
      BY <1>10 DEF RemoteEdit, Budgeted, disk
    <2>2. Now = edits + 2 /\ Now \in Mtime
      BY <1>10, EditTyped DEF RemoteEdit, Now
    <2>3. \A q \in Path \ {p} : Marks(local[q], remote[q], record[q], plan[q], edits)'
      BY <2>1, <1>1, <1>2 DEF Typed, TypeOK
    <2>4. remote'[p] = [content |-> c, mtime |-> edits + 2, id |-> IdentityAt(p, remote[p])]
      BY <2>1, <2>2 DEF Typed, TypeOK
    <2>5. Marks(local[p], remote'[p], record[p], plan[p], edits + 1)
      BY <2>2, <2>4, <1>1, RemoteStamp, Timed DEF Typed, Stamped
    <2>6. Marks(local[p], remote[p], record[p], plan[p], edits)'
      BY <2>1, <2>5
    <2> QED
      BY <2>3, <2>6 DEF Stamped
  <1>11. CASE UNCHANGED vars
    BY <1>11 DEF vars, Stamped
  <1> QED
    BY <1>3, <1>4, <1>5, <1>6, <1>7, <1>8, <1>9, <1>10, <1>11, StepKinds DEF Aside, QuietEdit

(* What the decisions of a cycle rest on.                                   *)
SettledInv ==
  Typed /\ ViewInv /\ CacheInv /\ BasedInv /\ BehindInv /\ Stamped

(* A file of the time its record states has the content its record states.  *)
LEMMA StampedTells ==
    ASSUME Typed, Stamped, NEW p \in Path, local[p] # None, record[p] # None,
           local[p].mtime = record[p].mtime
    PROVE  local[p].content = record[p].content
  <1>1. PICK g \in [Mtime -> Content \cup {None}] : By(g, local[p], edits)
               /\ By(g, record[p], edits)
    BY DEF Stamped, Marks, StampedBy
  <1>2. local[p].content # None /\ record[p].content # None
    BY Timed, NoneAssumption DEF Typed
  <1> QED
    BY <1>1, <1>2 DEF By

(* The initial state satisfies the invariants.                              *)
LEMMA SettledInit == Init => SettledInv /\ HeldInv
  <1> SUFFICES ASSUME Init PROVE SettledInv /\ HeldInv
    OBVIOUS
  <1>1. Typed /\ ViewInv
    BY TypedInit
  <1>2. CacheInv /\ \A p \in Path : plan[p] = None
    BY DEF Init, CacheInv
  <1>3. BasedInv /\ BehindInv /\ HeldInv
    BY <1>2 DEF BasedInv, BehindInv, HeldInv, Held, LookedLast, Open
  <1>4. ASSUME NEW p \in Path PROVE Marks(local[p], remote[p], record[p], plan[p], edits)
    <2>1. record[p] = None /\ edits = 0 /\ plan[p] = None
      BY DEF Init
    <2>2. local[p] = None \/ (local[p].mtime = 1 /\ local[p].content \in Content)
      BY DEF Init
    <2>3. remote[p] = None \/ remote[p].mtime = 1
      BY DEF Init
    <2>4. First(remote[p], record[p]) \/ remote[p] = None
      BY <2>1, <2>3 DEF First
    <2>5. ASSUME NEW g \in [Mtime -> Content \cup {None}],
                 local[p] = None \/ local[p].content = g[1]
                 PROVE Marks(local[p], remote[p], record[p], plan[p], edits)
      <3>1. /\ By(g, local[p], edits) /\ By(g, record[p], edits)
            /\ (By(g, remote[p], edits) \/ First(remote[p], record[p]))
        BY <2>1, <2>2, <2>4, <2>5 DEF By
      <3> QED
        BY <3>1, <2>1 DEF Marks, StampedBy, Open
    <2>6. CASE local[p] # None
      <3>1. [m \in Mtime |-> local[p].content] \in [Mtime -> Content \cup {None}]
        BY <2>2, <2>6
      <3>2. [m \in Mtime |-> local[p].content][1] = local[p].content
        BY FirstMtime
      <3> QED
        BY <3>1, <3>2, <2>5
    <2>7. CASE local[p] = None
      <3>1. [m \in Mtime |-> None] \in [Mtime -> Content \cup {None}]
        OBVIOUS
      <3> QED
        BY <3>1, <2>5, <2>7
    <2> QED
      BY <2>6, <2>7
  <1> QED
    BY <1>1, <1>2, <1>3, <1>4 DEF SettledInv, Stamped

(* Every step keeps the invariants, where no edit is quiet.                 *)
LEMMA SettledStep ==
    ASSUME SettledInv, HeldInv, [Next]_vars, "quiet edit" \notin World
    PROVE  SettledInv' /\ HeldInv'
  BY TypedStep, ViewStep, CacheStep, BasedStep, BehindStep, StampedStep, HeldStep
     DEF SettledInv

(* Where no edit keeps the modification time and the size of what it        *)
(* replaces, in every reachable state a local file that differs from its    *)
(* record looks different from it: the comparison by time and size that     *)
(* opens every cycle cannot pass over it.                                   *)
THEOREM CycleKeepsLocalChangesVisible ==
    ASSUME "quiet edit" \notin World
    PROVE  Spec => []LocalChangesStayVisible
  <1>1. SettledInv /\ HeldInv /\ [Next]_vars => (SettledInv /\ HeldInv)'
    BY SettledStep
  <1>2. SettledInv => LocalChangesStayVisible
    BY StampedTells DEF SettledInv, LocalChangesStayVisible
  <1> QED
    BY SettledInit, <1>1, <1>2, PTL DEF Spec

(* What a write of the vault replaces survives.                             *)
LEMMA WriteLocalSpares ==
    ASSUME SettledInv, HeldInv, NEW p \in Path, WriteLocal(p), local[p] # None, p \notin late
    PROVE  Survives(p, local[p])
  <1> DEFINE a == plan[p]
  <1>1. a.step = "write local"
          /\ StepsTo(p, IF a.kind = "conflict" THEN "compare" ELSE "publish")
    BY WriteLocalSteps DEF SettledInv
  <1>2. a \in Action /\ a # None /\ Open(a) /\ KindAt(a) /\ Sides(a) /\ Taken(a)
    BY <1>1 DEF StepsTo, SettledInv, Typed, ProperInv, Proper
  <1>3. a.kind \in {"pull", "conflict"} /\ Took(a)
    BY <1>1, <1>2 DEF KindAt, Took
  <1>4. LocalUnchanged(p) /\ (~TrustsAbsence(p) => SourceUnchanged(p))
    BY <1>1, <1>2 DEF HeldInv, Held, LookedLast
  <1>5. a.local # None /\ ~LocalDiffers(a.local, local[p]) /\ SourceUnchanged(p)
    BY <1>4 DEF LocalUnchanged, TrustsAbsence
  <1>6. local'[p] = a.took /\ a.took # None
    BY <1>2, <1>3 DEF WriteLocal, SettledInv, Typed, TypeOK, Taken
  <1>7. CASE a.kind = "pull"
    <2>1. record[p] # None /\ ~LocalDiffers(a.local, record[p])
      BY <1>2, <1>5, <1>7 DEF SettledInv, BasedInv, Based
    <2>2. local[p].content = record[p].content
      BY <1>5, <2>1, StampedTells DEF LocalDiffers, SettledInv
    <2> QED
      BY <2>1, <2>2 DEF Survives
  <1>8. CASE a.kind = "conflict"
    <2>1. a.mine # None /\ local[p].content = a.mine
      BY <1>2, <1>3, <1>4, <1>5, <1>8 DEF Taken, SourceUnchanged
    <2>2. CASE Keeps(a)
      <3>1. a.mode = "auto_merge" /\ a.local.mtime < a.remote.mtime /\ a.took = OfRemote(a)
        BY <1>2, <1>3, <1>5, <1>8, <2>2 DEF Keeps, Taken
      <3>2. a.local.mtime < a.took.mtime
        BY <3>1 DEF OfRemote
      <3> QED
        BY <1>2, <2>1, <3>1, <3>2 DEF Survives
    <2>3. CASE ~Keeps(a)
      <3>1. a.took.content = a.mine
        BY <1>2, <1>3, <1>8, <2>3 DEF Taken
      <3> QED
        BY <1>6, <2>1, <3>1 DEF Survives
    <2> QED
      BY <2>2, <2>3
  <1> QED
    BY <1>3, <1>7, <1>8

(* The fields of the remote version.                                        *)
LEMMA RemoteFields ==
    ASSUME NEW a, a.took = OfRemote(a)
    PROVE  a.took.content = a.remote.content /\ a.took.mtime = a.remote.mtime
  BY DEF OfRemote

(* The fields of the merged version.                                        *)
LEMMA MineFields ==
    ASSUME NEW a, a.took = [content |-> a.mine, mtime |-> a.local.mtime]
    PROVE  a.took.content = a.mine /\ a.took.mtime = a.local.mtime
  OBVIOUS

(* Two numbers compared.                                                    *)
LEMMA NotEarlier ==
    ASSUME NEW m \in Nat, NEW n \in Nat, ~(m < n)
    PROVE  m = n \/ n < m
  OBVIOUS

(* An automatic merge may replace what is older.                            *)
LEMMA NewerSpares ==
    ASSUME NEW p \in Path, plan[p] # None, plan[p].mode = "auto_merge",
           remote[p].mtime < plan[p].took.mtime
    PROVE  Survives(p, remote[p])
  BY DEF Survives

(* What a write to the provider replaces survives.                          *)
LEMMA WriteRemoteSpares ==
    ASSUME SettledInv, NEW p \in Path, plan[p] # None, phase = "run",
           plan[p].step = "write remote", p \notin stale, remote[p] # None,
           remote'[p] \in RemoteObject, remote'[p].content = plan[p].took.content,
           kept[p] \subseteq kept'[p]
    PROVE  Survives(p, remote[p])
  <1> DEFINE a == plan[p]
  <1>1. a \in Action /\ Open(a) /\ KindAt(a) /\ Sides(a) /\ Taken(a)
    BY DEF Open, SettledInv, Typed, TypeOK, ProperInv, Proper
  <1>2. a.kind \in {"push", "conflict"} /\ Took(a)
    BY <1>1 DEF KindAt, Took
  <1>3. a.remote = remote[p] /\ a.remote \in RemoteObject
    BY <1>1, PlanTimed DEF SettledInv, ViewInv, ViewOf, Written, CacheInv, Typed, SnapInv
  <1>4. Based(p)
    BY <1>1 DEF SettledInv, BasedInv
  <1>5. remote'[p] # None
    BY NothingAssumption
  <1>6. CASE a.kind = "push"
    BY <1>3, <1>4, <1>6 DEF Based, Survives
  <1>7. CASE a.kind = "conflict" /\ Keeps(a)
    <2>1. a.took = OfRemote(a)
      BY <1>1, <1>2, <1>7 DEF Taken
    <2>2. a.took.content = a.remote.content
      BY <2>1, RemoteFields
    <2>3. remote'[p].content = remote[p].content
      BY <2>2, <1>3
    <2> QED
      BY <2>3, <1>5 DEF Survives
  <1>8. CASE a.kind = "conflict" /\ ~Keeps(a)
    <2>1. /\ a.local # None /\ a.took = [content |-> a.mine, mtime |-> a.local.mtime]
          /\ a.mine # None /\ a.local.content \in {None, a.mine}
      BY <1>1, <1>2, <1>8 DEF Taken, Keeps
    <2>2. Both(a) /\ a.took.content = a.mine /\ a.took.mtime = a.local.mtime
      <3>1. a.remote # None
        BY <1>3
      <3>2. Both(a)
        BY <3>1, <2>1 DEF Both
      <3>3. a.took.content = a.mine /\ a.took.mtime = a.local.mtime
        BY <2>1, MineFields
      <3> QED
        BY <3>2, <3>3
    <2>3. CASE a.mode = "preserve"
      BY <2>2, <2>3, <1>2, <1>3, <1>4, <1>8 DEF Based, Survives
    <2>4. CASE a.mode = "auto_merge"
      <3>1. ~(a.local.mtime < a.remote.mtime) /\ a.local.mtime \in Nat /\ a.remote.mtime \in Nat
        BY <1>1, <1>3, <1>8, <2>1, <2>4, PlanTimed, FirstMtime DEF Keeps
      <3>2. CASE a.local.mtime = a.remote.mtime
        <4>1. a.remote.content \in kept[p] \/ a.mine = a.remote.content
          BY <3>2, <2>2, <2>4, <1>2, <1>4, <1>8 DEF Based
        <4>2. CASE a.remote.content \in kept[p]
          <5>1. remote[p].content \in kept'[p]
            BY <4>2, <1>3
          <5> QED
            BY <5>1 DEF Survives
        <4>3. CASE a.mine = a.remote.content
          <5>1. remote'[p].content = remote[p].content
            BY <4>3, <2>2, <1>3
          <5> QED
            BY <5>1, <1>5 DEF Survives
        <4> QED
          BY <4>1, <4>2, <4>3
      <3>3. CASE a.remote.mtime < a.took.mtime
        <4>1. a.mode = "auto_merge" /\ remote[p].mtime < a.took.mtime
          BY <3>3, <2>4, <1>3
        <4> QED
          BY <4>1, NewerSpares
      <3>4. a.local.mtime = a.remote.mtime \/ a.remote.mtime < a.local.mtime
        BY <3>1, NotEarlier, Zenon
      <3>5. a.local.mtime = a.remote.mtime \/ a.remote.mtime < a.took.mtime
        BY <3>4, <2>2, Zenon
      <3> QED
        BY <3>2, <3>3, <3>5, Zenon
    <2>5. CASE a.mode = "local_win"
      <3>1. LocalWinProof(a.local, a.remote, record[p])
        BY <2>2, <2>5, <1>2, <1>4, <1>8 DEF Based
      <3>2. /\ record[p] # None /\ record[p].id = a.remote.id
            /\ record[p].content # a.remote.content
            /\ a.local.content # None /\ a.local.content # record[p].content
        BY <3>1 DEF LocalWinProof, NoBase
      <3>3. a.took.content # record[p].content
        BY <3>2, <2>1, <2>2
      <3> QED
        BY <3>2, <3>3, <2>5, <1>3 DEF Survives
    <2> QED
      BY <1>1, <1>8, <2>3, <2>4, <2>5 DEF Sides
  <1> QED
    BY <1>2, <1>6, <1>7, <1>8

(* What a deletion at the provider removes survives.                        *)
LEMMA DeleteRemoteSpares ==
    ASSUME SettledInv, NEW p \in Path, plan[p] # None, phase = "run",
           plan[p].step = "delete remote", p \notin stale, remote[p] # None
    PROVE  Survives(p, remote[p])
  <1> DEFINE a == plan[p]
  <1>1. a \in Action /\ Open(a) /\ KindAt(a)
    BY DEF Open, SettledInv, Typed, TypeOK, ProperInv, Proper
  <1>2. a.kind = "delete_remote"
    BY <1>1 DEF KindAt
  <1>3. a.remote = remote[p]
    BY <1>1 DEF SettledInv, ViewInv, ViewOf, Written, CacheInv, Typed, SnapInv
  <1> QED
    BY <1>1, <1>2, <1>3 DEF SettledInv, BasedInv, Based, Survives

(* A step of the program spares what p had on both sides.                   *)
Spared(p) ==
  /\ local[p] # None /\ local'[p] # local[p] /\ p \notin late => Survives(p, local[p])
  /\ remote[p] # None /\ remote'[p] # remote[p] /\ p \notin stale => Survives(p, remote[p])

(* A step of an action spares what it replaces.                             *)
LEMMA ActsSpare ==
    ASSUME SettledInv, HeldInv, NEW p \in Path, Acts(p)
    PROVE  Spared(p)
  <1>1. phase = "run" /\ plan[p] # None /\ kept[p] \subseteq kept'[p]
    BY ActsEffect, ActsDisk DEF StepsTo, SettledInv
  <1>2. ASSUME local[p] # None, local'[p] # local[p], p \notin late PROVE Survives(p, local[p])
    <2>1. CASE WriteLocal(p)
      BY <2>1, <1>2, WriteLocalSpares
    <2>2. CASE DeleteLocal(p)
      <3>1. local[p].content \in kept'[p]
        BY <1>2, <2>2 DEF DeleteLocal, SettledInv, Typed, TypeOK
      <3> QED
        BY <3>1 DEF Survives
    <2> QED
      BY <1>2, <2>1, <2>2, ActsDisk DEF SettledInv
  <1>3. ASSUME remote[p] # None, remote'[p] # remote[p], p \notin stale
        PROVE  Survives(p, remote[p])
    <2>1. Mutates(p)
      BY <1>3, ActsDisk DEF SettledInv
    <2>2. CASE plan[p].step = "write remote"
      <3>1. Result(p) \in RemoteObject /\ Result(p).content = plan[p].took.content
              /\ remote' = [remote EXCEPT ![p] = Result(p)]
        BY <2>1, <2>2, <1>3, MutatesFacts DEF SettledInv
      <3>2. remote'[p] = Result(p)
        BY <3>1 DEF SettledInv, Typed, TypeOK
      <3> QED
        BY <2>2, <3>1, <3>2, <1>1, <1>3, WriteRemoteSpares
    <2>3. CASE plan[p].step = "delete remote"
      BY <2>3, <1>1, <1>3, DeleteRemoteSpares
    <2>4. plan[p].step \in {"write remote", "delete remote"}
      BY <2>1, MutatesFacts DEF SettledInv
    <2> QED
      BY <2>2, <2>3, <2>4
  <1> QED
    BY <1>2, <1>3 DEF Spared

(* Every step of the program spares what it replaces.                       *)
LEMMA StepSpares ==
    ASSUME SettledInv, HeldInv, [Next]_vars, Program, NEW p \in Path
    PROVE  Spared(p)
  <1>0. edits \in Nat
    BY EditsCounted DEF SettledInv, Typed
  <1>1. ASSUME local'[p] = local[p], remote'[p] = remote[p] PROVE Spared(p)
    BY <1>1 DEF Spared
  <1>2. CASE Begin \/ Acknowledge \/ CollectFails \/ Rescan \/ Restart
               \/ \E q \in Path : Deliver(q)
    <2>1. UNCHANGED <<local, remote>>
      BY <1>2 DEF Begin, Acknowledge, CollectFails, Rescan, Restart, Deliver, disk, provider
    <2> QED
      BY <2>1, <1>1
  <1>3. CASE Ends
    <2>1. UNCHANGED <<local, remote>>
      BY <1>3
         DEF Ends, Commit, CloseIncomplete, CommitFails, Crash, Abandon, Repeat, disk, provider
    <2> QED
      BY <2>1, <1>1
  <1>4. CASE Collect
    <2>1. UNCHANGED <<local, remote>>
      BY <1>4 DEF Collect, disk, provider
    <2> QED
      BY <2>1, <1>1
  <1>5. ASSUME NEW q \in Path, Acts(q) PROVE Spared(p)
    <2>1. CASE p = q
      BY <2>1, <1>5, ActsSpare
    <2>2. CASE p # q
      <3>1. local'[p] = local[p] /\ remote'[p] = remote[p]
        BY <2>2, <1>5, ActsDisk, ActsProvider DEF ProviderMoves, ProviderStands, SettledInv
      <3> QED
        BY <3>1, <1>1
    <2> QED
      BY <2>1, <2>2
  <1>6. ASSUME Budgeted PROVE FALSE
    BY <1>0, <1>6 DEF Budgeted, Program
  <1>7. CASE ChangeScope \/ \E q \in Path : LocalDelete(q) \/ RemoteDelete(q)
               \/ \E c \in Content : LocalEdit(q, c) \/ QuietEdit(q, c) \/ RemoteEdit(q, c)
    BY <1>6, <1>7 DEF ChangeScope, LocalDelete, RemoteDelete, LocalEdit, QuietEdit, RemoteEdit
  <1>8. CASE UNCHANGED vars
    BY <1>8, <1>1 DEF vars
  <1> QED
    BY <1>2, <1>3, <1>4, <1>5, <1>7, <1>8, StepKinds DEF Aside

(* Where no edit keeps the modification time and the size of what it        *)
(* replaces, a step of the program never replaces or removes the last copy  *)
(* of a version: it survives in the record, on the other side, in a         *)
(* preserved copy, or it lost by the strategy the user chose.  Outside the  *)
(* promise are a local file the user touched after the last look at it      *)
(* (late), which for a conflict without a local file is before the          *)
(* download, and a remote one that another device changed since the cache   *)
(* was brought up to date (stale).                                          *)
THEOREM CycleLosesNoVersion ==
    ASSUME "quiet edit" \notin World
    PROVE  Spec => NoVersionLost
  <1>1. SettledInv /\ HeldInv /\ [Next]_vars => (SettledInv /\ HeldInv)'
    BY SettledStep
  <1>2. SettledInv /\ HeldInv /\ [Next]_vars =>
          [Program => \A p \in Path :
          /\ local[p] # None /\ local'[p] # local[p] /\ p \notin late
             => Survives(p, local[p])
          /\ remote[p] # None /\ remote'[p] # remote[p] /\ p \notin stale
             => Survives(p, remote[p])]_vars
    BY StepSpares DEF Spared
  <1> QED
    BY SettledInit, <1>1, <1>2, PTL DEF Spec, NoVersionLost

(* The cycle reads the files it was told about.                             *)
ReadCycle == snap.initialized /\ ~snap.force
(* A file the cycle was told about and planned for, with no event since it  *)
(* began.                                                                   *)
Still(p) == p \in (snap.dirty \cap snap.included) \ (event \cup remarked \cup unheard)
(* The record states the file.                                              *)
Settles(p) ==
  \/ local[p] = None /\ record[p] = None
  \/ local[p] # None /\ record[p] # None /\ local[p].content = record[p].content
(* What an open action will record is what the file holds, or the action    *)
(* still has to write the file, which raises an event.                      *)
Follows(p) ==
  LET a == plan[p] IN
    /\ a.kind = "match" => local[p] # None /\ local[p].content = a.remote.content
    /\ a.kind = "push" /\ Took(a) => local[p] # None /\ local[p].content = a.took.content
    /\ a.kind \in {"delete_remote", "cleanup"} => local[p] = None
    /\ a.kind \in {"pull", "conflict", "delete_local"}
         => a.step \notin {"compare", "write remote", "publish"}
(* Either the record states the file or its action will.                    *)
Reading(p) ==
  /\ plan[p] = None \/ plan[p].step = "done" => Settles(p)
  /\ Open(plan[p]) => Follows(p)
(* The files a reading cycle was told about and has not heard of since are  *)
(* on their way to their records, and there when it is acknowledged.        *)
ReadingInv ==
  /\ phase = "run" /\ ReadCycle => \A p \in Path : Still(p) => Reading(p)
  /\ phase = "ack" /\ ReadCycle => \A p \in Path : Still(p) => Settles(p)

(* Where the comparison finds nothing to do the local file is as recorded.  *)
LEMMA NothingToDo ==
    ASSUME NEW p, NEW l, NEW r, NEW b, Compared(p, l, r, b) = None
    PROVE  \/ l = None /\ r = None /\ b = None
           \/ l # None /\ r # None /\ ~NoBase(r, b) /\ ~LocalDiffers(l, b)
  <1> DEFINE k == Compared(p, l, r, b)
  <1> HIDE DEF k
  <1>0. k = None
    BY DEF k
  <1>1. k = CASE l # None /\ r # None -> ComparedBoth(p, l, r, b)
      [] l # None /\ r = None /\ b = None -> "push"
      [] l = None /\ r # None /\ b = None -> "pull"
      [] l # None /\ r = None /\ b # None ->
            IF LocalDiffers(l, b) THEN "conflict" ELSE "delete_local"
      [] l = None /\ r # None /\ b # None ->
            IF RemoteDiffers(r, b) THEN "conflict" ELSE "delete_remote"
      [] l = None /\ r = None -> IF b = None THEN None ELSE "cleanup"
    BY DEF Compared, k
  <1>2. CASE l # None /\ r # None
    <2> DEFINE h == ComparedBoth(p, l, r, b)  s == Same(p)
               ld == NoBase(r, b) \/ LocalDiffers(l, b)
               rd == NoBase(r, b) \/ RemoteDiffers(r, b)
    <2>1. h = CASE s /\ (ld \/ rd) -> "match"
          [] ~s /\ ld /\ rd -> "conflict"
          [] ~s /\ ld /\ ~rd -> "push"
          [] ~s /\ ~ld /\ rd -> "pull"
          [] OTHER -> None
      BY DEF ComparedBoth
    <2>2. h = None
      BY <1>0, <1>1, <1>2
    <2> HIDE DEF h, s
    <2>3. \/ s /\ (ld \/ rd) /\ h = "match"
          \/ ~s /\ ld /\ rd /\ h = "conflict"
          \/ ~s /\ ld /\ ~rd /\ h = "push"
          \/ ~s /\ ~ld /\ rd /\ h = "pull"
          \/ ~ld
      BY <2>1
    <2>4. ~ld
      BY <2>2, <2>3, NothingAssumption DEF Kind
    <2> QED
      BY <2>4, <1>2
  <1>3. CASE ~(l # None /\ r # None)
    <2>1. \/ l # None /\ r = None /\ b = None /\ k = "push"
          \/ l = None /\ r # None /\ b = None /\ k = "pull"
          \/ l # None /\ r = None /\ b # None /\ LocalDiffers(l, b) /\ k = "conflict"
          \/ l # None /\ r = None /\ b # None /\ ~LocalDiffers(l, b) /\ k = "delete_local"
          \/ l = None /\ r # None /\ b # None /\ RemoteDiffers(r, b) /\ k = "conflict"
          \/ l = None /\ r # None /\ b # None /\ ~RemoteDiffers(r, b) /\ k = "delete_remote"
          \/ l = None /\ r = None /\ b = None /\ k = None
          \/ l = None /\ r = None /\ b # None /\ k = "cleanup"
      BY <1>1, <1>3
    <2> QED
      BY <2>1, <1>0, NothingAssumption DEF Kind
  <1> QED
    BY <1>2, <1>3

(* A reading cycle compares the files it was told about as they are.        *)
LEMMA HotReads ==
    ASSUME TypeOK, ReadCycle, NEW p \in Path, p \in snap.dirty
    PROVE  p \in Entries /\ Known(p) = local[p]
  <1>1. Hot
    BY DEF Hot, ReadCycle
  <1>2. ~Cold
    BY <1>1 DEF Cold
  <1>3. Entries = IF ~Promoted THEN snap.dirty \cup Reported
                  ELSE ListedPaths \cup Reported \cup snap.dirty
    BY <1>1, <1>2 DEF Entries
  <1>4. p \in Entries
    BY <1>3
  <1>5. Observed(p) = local[p]
    BY <1>1 DEF Observed, Stated
  <1> QED
    BY <1>4, <1>5 DEF Known, Stated

(* A planned path has an action.                                            *)
LEMMA PreparedPlanned ==
    ASSUME TypeOK, NEW p \in Path, Planned(p)
    PROVE  Prepared[p] # None
  <1>1. AdmittedAction(p) \in Action
    BY AdmittedTyped DEF Planned
  <1> QED
    BY <1>1, NothingAssumption DEF Prepared

(* Collection finds the record right or plans an action.                    *)
LEMMA CollectReads ==
    ASSUME Typed, Collect, ReadCycle, NEW p \in Path, Still(p)'
    PROVE  Reading(p)'
  <1>1. /\ plan' = Prepared /\ record' = record /\ local' = local
        /\ snap' = [snap EXCEPT !.included = Included]
        /\ UNCHANGED <<event, tracker>>
    BY DEF Collect, disk
  <1>2. snap \in Snapshot
    BY DEF Typed, TypeOK, SnapInv, Collect
  <1>3. snap'.dirty = snap.dirty /\ snap'.included = Included
    BY <1>1, <1>2 DEF Snapshot
  <1>4. p \in snap.dirty /\ p \in Included
    BY <1>3 DEF Still
  <1>5. p \in Entries /\ Known(p) = local[p]
    BY <1>4, HotReads DEF Typed
  <1>6. CASE Admitted(p) = None
    <2>1. Prepared[p] = None
      BY <1>6 DEF Prepared, Planned
    <2>2. Compared(p, local[p], Acquired[p], record[p]) = None
      BY <1>5, <1>6, NothingAssumption DEF Admitted, Kind
    <2>3. \/ local[p] = None /\ record[p] = None
          \/ local[p] # None /\ record[p] # None /\ ~LocalDiffers(local[p], record[p])
      BY <2>2, NothingToDo DEF NoBase
    <2>4. local[p] # None => local[p].content # None
      BY NoneAssumption DEF Typed, TypeOK, Version
    <2>5. Settles(p)
      BY <2>3, <2>4 DEF Settles, LocalDiffers
    <2> QED
      BY <2>1, <2>5, <1>1 DEF Reading, Settles, Open
  <1>7. CASE Admitted(p) # None
    <2> DEFINE a == Prepared[p]
    <2>1. a # None
      BY <1>4, <1>5, <1>7, PreparedPlanned DEF Planned, Typed
    <2>2. /\ a.kind = Admitted(p) /\ a.remote = Acquired[p] /\ a.step # "done"
          /\ a.step \in {"publish", "failed", "check"}
          /\ (a.step = "publish" => Admitted(p) = "match")
      BY <2>1, FreshPlan DEF Typed
    <2> HIDE DEF a
    <2>3. /\ a.kind = "match" => local[p] # None /\ local[p].content = Acquired[p].content
          /\ a.kind \in {"delete_remote", "cleanup"} => local[p] = None
      BY <1>5, <2>2, AdmittedFacts DEF Typed
    <2>4. ~(a.kind = "push" /\ Took(a))
      BY <2>2 DEF Took
    <2>5. a.kind \in {"pull", "conflict", "delete_local"}
            => a.step \notin {"compare", "write remote", "publish"}
      BY <2>2
    <2>6. plan'[p] = a /\ local'[p] = local[p]
      BY <1>1 DEF a
    <2> QED
      BY <2>1, <2>2, <2>3, <2>4, <2>5, <2>6 DEF Reading, Follows
  <1> QED
    BY <1>6, <1>7

(* The steps of an action leave the marks alone, and raise an event where   *)
(* they write the vault.                                                    *)
LEMMA ActsTracker ==
    ASSUME Typed, NEW p \in Path, Acts(p)
    PROVE  /\ UNCHANGED <<dirty, remarked, initialized, unheard, snap>> /\ phase = "run"
                /\ phase' = phase
           /\ event' = event \/ (event' = event \cup {p} /\ (WriteLocal(p) \/ DeleteLocal(p)))
  <1>1. phase = "run" /\ UNCHANGED <<tracker, snap, phase>>
    <2>1. Mutates(p) => phase = "run"
      BY DEF Mutates, At
    <2> QED
      BY <2>1
         DEF Acts, Execute, Check, Capture, Recheck, WriteLocal, DeleteLocal, Compare,
             MutateRemote, RefuseRemote, Publish, Fails, ResponseLost, At
  <1>2. event' = event \/ (event' = event \cup {p} /\ (WriteLocal(p) \/ DeleteLocal(p)))
    BY DEF Acts, Execute, Check, Capture, Recheck, WriteLocal, DeleteLocal, Compare,
           MutateRemote, RefuseRemote, Publish, Fails, ResponseLost, disk
  <1> QED
    BY <1>1, <1>2 DEF tracker

(* Publishing makes the record state the file.                              *)
LEMMA PublishSettles ==
    ASSUME Typed, ViewInv, NEW p \in Path, Publish(p), Proved(p), Follows(p)
    PROVE  Settles(p)'
  <1> DEFINE a == plan[p]
  <1>1. a.step = "publish" /\ StepsTo(p, "done") /\ record' = [record EXCEPT ![p] = Terminal(p)]
    BY PublishSteps
  <1>2. a \in Action /\ Open(a) /\ KindAt(a) /\ Sides(a) /\ Taken(a) /\ a.kind \in Kind
    BY <1>1 DEF StepsTo, Typed, ProperInv, Proper, Action
  <1>3. record'[p] = Terminal(p) /\ local' = local
    BY <1>1 DEF Typed, TypeOK, Publish, disk
  <1>4. record'[p] \in RemoteObject \cup {None}
    BY PublishTyped DEF Typed, TypeOK
  <1>5. CASE a.kind = "match"
    <2>1. Terminal(p) = [content |-> a.remote.content, mtime |-> a.local.mtime,
            id |-> a.remote.id]
      BY <1>5 DEF Terminal
    <2>2. a.remote \in RemoteObject /\ a.local.mtime \in Mtime
      BY <1>2, <1>5 DEF Sides, Both, Action
    <2>3. Terminal(p) \in RemoteObject /\ Terminal(p).content = a.remote.content
      BY <2>1, <2>2 DEF RemoteObject
    <2>4. local[p] # None /\ local[p].content = a.remote.content
      BY <1>5 DEF Follows
    <2> QED
      BY <2>3, <2>4, <1>3, NothingAssumption DEF Settles
  <1>6. CASE a.kind = "push"
    <2>1. Terminal(p) = [content |-> a.took.content, mtime |-> a.took.mtime, id |-> view[p].id]
      BY <1>6 DEF Terminal
    <2>2. Took(a)
      BY <1>1, <1>6 DEF Took
    <2>3. a.took \in Version
      BY <1>2, <2>2 DEF Taken, Action
    <2>4. view[p] # None
      BY <1>1, <1>2, <1>6 DEF ViewInv, ViewOf, Written
    <2>5. view[p] \in RemoteObject
      BY <2>4, <1>1 DEF Typed, TypeOK, SnapInv, StepsTo
    <2>6. Terminal(p) \in RemoteObject /\ Terminal(p).content = a.took.content
      BY <2>1, <2>3, <2>5 DEF RemoteObject, Version
    <2>7. local[p] # None /\ local[p].content = a.took.content
      BY <1>6, <2>2 DEF Follows
    <2> QED
      BY <2>6, <2>7, <1>3, NothingAssumption DEF Settles
  <1>7. CASE a.kind \in {"delete_remote", "cleanup"}
    <2>1. Terminal(p) = None
      BY <1>7 DEF Terminal
    <2>2. local[p] = None
      BY <1>7 DEF Follows
    <2> QED
      BY <2>1, <2>2, <1>3 DEF Settles
  <1> QED
    BY <1>1, <1>2, <1>5, <1>6, <1>7 DEF Follows, KindAt, Kind

(* An action goes on as it follows the file.                                *)
LEMMA ActReads ==
    ASSUME Typed, ViewInv, NEW p \in Path, Acts(p), Follows(p), p \notin event'
    PROVE  Reading(p)'
  <1> DEFINE a == plan[p]  d == plan'[p]
  <1>1. PICK t : StepsTo(p, t)
    BY ActsEffect
  <1>2. /\ a \in Action /\ a # None /\ Open(a) /\ KindAt(a) /\ a.kind \in Kind /\ d # None
        /\ d.kind = a.kind
        /\ d.remote = a.remote
    BY <1>1 DEF StepsTo, Typed, ProperInv, Proper, Action
  <1>3. ~WriteLocal(p) /\ ~DeleteLocal(p)
    BY DEF WriteLocal, DeleteLocal
  <1>4. local' = local
    BY <1>3, ActsDisk
  <1>5. CASE d.step = "failed"
    BY <1>2, <1>5 DEF Reading, Open
  <1>6. CASE d.step # "failed"
    <2>1. CASE Publish(p)
      <3>1. Proved(p) /\ d.step = "done"
        BY <1>6, <2>1, PublishSteps DEF StepsTo
      <3> QED
        BY <2>1, <3>1, PublishSettles DEF Reading, Open
    <2>2. CASE ~Publish(p)
      <3>1. d.step # "done"
        <4>1. CASE Check(p) \/ Capture(p) \/ Recheck(p)
          BY <4>1, CheckSteps, CaptureSteps, RecheckSteps DEF StepsTo, AfterCheck
        <4>2. CASE Compare(p) \/ MutateRemote(p) \/ RefuseRemote(p)
          BY <4>2, CompareSteps, MutateRemoteSteps, RefuseRemoteSteps DEF StepsTo
        <4>3. CASE Fails(p) \/ ResponseLost(p)
          BY <4>3, FailsSteps, ResponseLostSteps DEF StepsTo
        <4> QED
          BY <2>2, <1>3, <4>1, <4>2, <4>3 DEF Acts, Execute
      <3>2. a.kind = "match" => local'[p] # None /\ local'[p].content = d.remote.content
        BY <1>2, <1>4 DEF Follows
      <3>3. d.kind \in {"delete_remote", "cleanup"} => local'[p] = None
        BY <1>2, <1>4 DEF Follows
      <3>4. d.kind = "push" /\ Took(d) => local'[p] # None /\ local'[p].content = d.took.content
        <4>1. CASE Capture(p) /\ a.kind = "push"
          <5>1. Readable(p) /\ d.took = Chosen(p)
            BY <4>1, <1>6, CaptureSteps DEF StepsTo
          <5>2. Chosen(p) = local[p]
            BY <4>1 DEF Chosen
          <5>3. a.local # None
            BY <1>2, <4>1 DEF Typed, ProperInv, Proper, Sides
          <5>4. local[p] # None
            BY <5>1, <5>3, <4>1 DEF Readable, LocalReadable
          <5> QED
            BY <5>1, <5>2, <5>4, <1>4
        <4>2. CASE ~Capture(p) /\ a.kind = "push"
          <5>1. a.step # "capture" /\ (Took(d) => Took(a))
            <6>1. CASE Check(p)
              <7>1. a.step = "check" /\ d.step = AfterCheck(a.kind)
                BY <6>1, <1>6, CheckSteps DEF StepsTo
              <7> QED
                BY <7>1, <4>2 DEF AfterCheck, Took
            <6>2. CASE Recheck(p)
              BY <6>2, RecheckSteps DEF Took
            <6>3. CASE Compare(p) \/ MutateRemote(p)
              <7>1. a.step \in {"compare", "write remote", "delete remote"}
                BY <6>3, CompareSteps, MutateRemoteSteps
              <7> QED
                BY <7>1, <4>2, <1>2 DEF Took, KindAt
            <6>4. ~RefuseRemote(p) /\ ~Fails(p) /\ ~ResponseLost(p)
              BY <1>6, RefuseRemoteSteps, FailsSteps, ResponseLostSteps DEF StepsTo
            <6> QED
              BY <4>2, <2>2, <1>3, <6>1, <6>2, <6>3, <6>4 DEF Acts, Execute
          <5>2. d.took = a.took
            BY <1>1, <5>1 DEF StepsTo
          <5> QED
            BY <5>1, <5>2, <4>2, <1>4 DEF Follows
        <4> QED
          BY <4>1, <4>2, <1>2
      <3>5. d.kind \in {"pull", "conflict", "delete_local"}
              => d.step \notin {"compare", "write remote", "publish"}
        <4>1. CASE Check(p)
          <5>1. d.step = AfterCheck(a.kind)
            BY <4>1, <1>6, CheckSteps DEF StepsTo
          <5> QED
            BY <5>1, <1>2 DEF AfterCheck
        <4>2. CASE Capture(p)
          BY <4>2, <1>6, CaptureSteps DEF StepsTo
        <4>3. CASE Recheck(p)
          BY <4>3, <1>2, RecheckSteps DEF StepsTo
        <4>4. CASE Compare(p)
          <5>1. a.step = "compare"
            BY <4>4, CompareSteps
          <5> QED
            BY <5>1, <1>2 DEF Follows, KindAt
        <4>5. CASE MutateRemote(p)
          <5>1. a.step \in {"write remote", "delete remote"}
            BY <4>5, MutateRemoteSteps
          <5> QED
            BY <5>1, <1>2 DEF Follows, KindAt
        <4>6. CASE RefuseRemote(p) \/ Fails(p) \/ ResponseLost(p)
          BY <4>6, <1>6, RefuseRemoteSteps, FailsSteps, ResponseLostSteps DEF StepsTo
        <4> QED
          BY <4>1, <4>2, <4>3, <4>4, <4>5, <4>6, <2>2, <1>3 DEF Acts, Execute
      <3> QED
        BY <3>1, <3>2, <3>3, <3>4, <3>5, <1>2 DEF Reading, Follows
    <2> QED
      BY <2>1, <2>2
  <1> QED
    BY <1>5, <1>6

(* A step beside a path, or one that only raises its event.                 *)
LEMMA OthersRead ==
    ASSUME NEW p \in Path, UNCHANGED <<snap, remarked, unheard>>, event \subseteq event',
           local'[p] = local[p], record'[p] = record[p], plan'[p] = plan[p]
    PROVE  /\ Still(p)' => Still(p)
           /\ Reading(p) => Reading(p)'
           /\ Settles(p) => Settles(p)'
  <1>1. Still(p)' => Still(p)
    BY DEF Still
  <1>2. Settles(p) <=> Settles(p)'
    BY DEF Settles
  <1>3. Follows(p) <=> Follows(p)'
    BY DEF Follows
  <1> QED
    BY <1>1, <1>2, <1>3 DEF Reading

(* Every step keeps the files of a reading cycle on their way.              *)
LEMMA ReadingStep ==
    ASSUME Typed, ViewInv, ReadingInv, [Next]_vars
    PROVE  ReadingInv'
  <1>1. CASE Begin \/ Acknowledge \/ CollectFails \/ Rescan \/ Restart
    <2>1. phase' \notin {"run", "ack"}
      BY <1>1 DEF Begin, Acknowledge, CollectFails, Rescan, Restart
    <2> QED
      BY <2>1 DEF ReadingInv
  <1>2. CASE ChangeScope
    <2>1. UNCHANGED <<phase, snap, remarked, unheard, event, local, record, plan>>
      BY <1>2 DEF ChangeScope, disk, tracker
    <2> QED
      BY <2>1, OthersRead DEF ReadingInv, ReadCycle
  <1>3. ASSUME NEW p \in Path, RemoteDelete(p) \/ \E c \in Content : RemoteEdit(p, c)
        PROVE ReadingInv'
    <2>1. UNCHANGED <<phase, snap, remarked, unheard, event, local, record, plan>>
      BY <1>3 DEF RemoteDelete, RemoteEdit, disk, tracker
    <2> QED
      BY <2>1, OthersRead DEF ReadingInv, ReadCycle
  <1>4. ASSUME NEW p \in Path, Deliver(p) PROVE ReadingInv'
    <2>1. UNCHANGED <<phase, snap, local, record, plan>> /\ event' = event \ {p}
      BY <1>4 DEF Deliver
    <2>2. ASSUME phase \in {"run", "ack"}
          PROVE remarked \cup unheard \cup {p} = remarked' \cup unheard'
      <3>1. snap # None
        BY <2>2 DEF Typed, SnapInv
      <3> QED
        BY <3>1, <1>4 DEF Deliver, NotExcluded
    <2>3. ASSUME phase \in {"run", "ack"}, NEW q \in Path, Still(q)' PROVE Still(q)
      <3>1. q # p
        BY <2>2, <2>3 DEF Still
      <3> QED
        BY <3>1, <2>1, <2>2, <2>3 DEF Still
    <2>4. \A q \in Path : (Reading(q) => Reading(q)') /\ (Settles(q) => Settles(q)')
      BY <2>1 DEF Reading, Settles, Follows
    <2> QED
      BY <2>1, <2>3, <2>4 DEF ReadingInv, ReadCycle
  <1>5. ASSUME NEW p \in Path, LocalDelete(p) \/ \E c \in Content : LocalEdit(p, c)
               \/ QuietEdit(p, c) PROVE ReadingInv'
    <2>1. Raise(p) /\ UNCHANGED <<phase, snap, remarked, unheard, record, plan>>
      BY <1>5 DEF LocalDelete, LocalEdit, QuietEdit, tracker
    <2>2. \A q \in Path \ {p} : local'[q] = local[q]
      BY <1>5 DEF LocalDelete, LocalEdit, QuietEdit, Typed, TypeOK
    <2>3. phase \in {"run", "ack"} => event' = event \cup {p}
      BY <2>1 DEF Raise
    <2>4. ASSUME phase \in {"run", "ack"} PROVE ~Still(p)'
      BY <2>3, <2>4 DEF Still
    <2>5. ASSUME phase \in {"run", "ack"}, NEW q \in Path, Still(q)'
          PROVE Still(q) /\ (Reading(q) => Reading(q)') /\ (Settles(q) => Settles(q)')
      <3>1. q # p
        BY <2>4, <2>5
      <3> QED
        BY <3>1, <2>1, <2>2, <2>3, <2>5, OthersRead
    <2> QED
      BY <2>1, <2>5 DEF ReadingInv, ReadCycle
  <1>6. CASE Ends
    <2>1. phase' = "ack" => Commit
      BY <1>6 DEF Ends, CloseIncomplete, CommitFails, Crash, Abandon, Repeat
    <2>2. CASE Commit
      <3>1. /\ phase = "run" /\ Clean /\ phase' = "ack"
            /\ UNCHANGED <<snap, remarked, unheard, event, local, record>>
        BY <2>2 DEF Commit, disk, tracker
      <3>2. \A p \in Path : Still(p)' => Still(p)
        BY <3>1 DEF Still
      <3>3. \A p \in Path : Reading(p) => Settles(p)
        BY <3>1 DEF Clean, Reading
      <3>4. \A p \in Path : Settles(p) => Settles(p)'
        BY <3>1 DEF Settles
      <3> QED
        BY <3>1, <3>2, <3>3, <3>4 DEF ReadingInv, ReadCycle
    <2> QED
      BY <1>6, <2>1, <2>2, EndsEffect DEF ReadingInv
  <1>7. CASE Collect
    <2>1. phase' = "run" /\ snap' = [snap EXCEPT !.included = Included]
      BY <1>7 DEF Collect
    <2>2. snap \in Snapshot
      BY <1>7 DEF Collect, Typed, TypeOK, SnapInv
    <2>3. ReadCycle' => ReadCycle
      BY <2>1, <2>2 DEF ReadCycle, Snapshot
    <2> QED
      BY <1>7, <2>1, <2>3, CollectReads DEF ReadingInv
  <1>8. ASSUME NEW p \in Path, Acts(p) PROVE ReadingInv'
    <2>1. /\ UNCHANGED <<snap, remarked, unheard>> /\ phase = "run" /\ phase' = "run"
          /\ event \subseteq event'
      BY <1>8, ActsTracker
    <2>2. ASSUME NEW q \in Path \ {p}, Still(q)' PROVE Still(q) /\ (Reading(q) => Reading(q)')
      BY <1>8, <2>1, <2>2, ActsEffect, ActsDisk, OthersRead DEF StepsTo
    <2>3. ASSUME Still(p)', Reading(p) PROVE Reading(p)'
      <3>1. Open(plan[p])
        BY <1>8, ActsEffect DEF StepsTo
      <3>2. p \notin event'
        BY <2>3 DEF Still
      <3> QED
        BY <1>8, <2>3, <3>1, <3>2, ActReads DEF Reading
    <2>4. Still(p)' => Still(p)
      BY <2>1 DEF Still
    <2> QED
      BY <2>1, <2>2, <2>3, <2>4 DEF ReadingInv, ReadCycle
  <1>9. CASE UNCHANGED vars
    <2>1. UNCHANGED <<phase, snap, remarked, unheard, event, local, record, plan>>
      BY <1>9 DEF vars
    <2> QED
      BY <2>1, OthersRead DEF ReadingInv, ReadCycle
  <1> QED
    BY <1>1, <1>2, <1>3, <1>4, <1>5, <1>6, <1>7, <1>8, <1>9, StepKinds DEF Aside

(* When a cycle that read what it was told about is acknowledged, every     *)
(* mark it consumes is of a file whose record now states it: also after     *)
(* edits that kept modification time and size, whatever failed, crashed or  *)
(* was repeated.  Exempt are files with an event still to come or delivered *)
(* while the settings excluded them, and files left for later.              *)
THEOREM HotCycleConsumesWhatItRead == Spec => HotConsumesWhatItRead
  <1>1. Init => Typed /\ ViewInv /\ ReadingInv
    BY TypedInit DEF ReadingInv, Init
  <1>2. Typed /\ ViewInv /\ ReadingInv /\ [Next]_vars => (Typed /\ ViewInv /\ ReadingInv)'
    BY TypedStep, ViewStep, ReadingStep
  <1>3. ASSUME Typed, ReadingInv, Acknowledge, snap.initialized, ~snap.force,
               NEW p \in dirty \ dirty'
        PROVE \/ p \in event \cup unheard \/ p \notin snap.included
              \/ local[p] = None /\ record[p] = None
              \/ local[p] # None /\ record[p] # None /\ local[p].content = record[p].content
    <2>1. p \in snap.dirty \ remarked /\ p \in Path /\ phase = "ack"
      BY <1>3 DEF Acknowledge, Typed, TypeOK
    <2> QED
      BY <1>3, <2>1 DEF ReadingInv, ReadCycle, Still, Settles
  <1>4. Typed /\ ReadingInv =>
          [Acknowledge /\ snap.initialized /\ ~snap.force =>
          \A p \in dirty \ dirty' :
             \/ p \in event \cup unheard \/ p \notin snap.included
             \/ local[p] = None /\ record[p] = None
             \/ local[p] # None /\ record[p] # None
                /\ local[p].content = record[p].content]_vars
    BY <1>3
  <1> QED
    BY <1>1, <1>2, <1>4, PTL DEF Spec, HotConsumesWhatItRead
=============================================================================

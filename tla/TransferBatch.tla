---------------------------- MODULE TransferBatch ----------------------------
(***************************************************************************)
(* One plan's remote calls at work: the executor hands transfers to the    *)
(* pool and runs structural calls one by one after them (executePlan,      *)
(* src/src/sync/plan-executor.ts); each call runs with the retries of      *)
(* withIoRetry, through its adapter's requests, each sent by the client    *)
(* with the shared bearer, one more time after a 401 and a few more after  *)
(* a 429.  Requests fail, are throttled, or lose their answer; other       *)
(* devices change the files between any two of them.                       *)
(***************************************************************************)
EXTENDS AdaptivePool, TokenManager, RemoteAdapters

CONSTANTS
    Batches,            \* plans: their calls, the files, and what may go wrong
    Order,              \* the tasks in the plan's order
    MaxActionRetries,   \* of the executor
    MaxInPlace,         \* a client's resends after a 429
    MaxThrottles, MaxRefusals   \* bounds on what the service refuses

VARIABLES
    calls,          \* the calls of the plan
    faults,         \* how many more requests go wrong
    throttles, refusals

ASSUME CallersAssumption == Caller = Task

(* A plan starts with files as the service has them, and with calls that    *)
(* have not been made; a task it does not have is over from the start.      *)
CallFields == {"op", "form", "id", "want", "dest", "phase", "plan", "seen", "seenAt", "got",
               "resent", "waits", "attempt", "stage", "saved", "blind", "caseOnly", "denial",
               "outcome"}

Structural == {"move", "delete"}

Unmade(c) ==
    /\ DOMAIN c = CallFields
    /\ c.op \in Structural \union {"read", "create", "update"}
    /\ c.id \in Id /\ c.denial = "none" /\ ~c.caseOnly
    /\ c.dest \in Name /\ (c.op = "move" => c.dest # Temp)
    /\ \/ c.phase = "new" /\ c.outcome = "pending"
       \/ c.phase = "done" /\ c.outcome = "absent"

(* Dropbox keeps one file under the spellings of a name.                    *)
TellsApart(files) ==
    \A o, p \in Id :
        /\ files[o].live /\ files[o].at # Outside
        /\ files[p].live /\ files[p].at # Outside
        /\ Fold[files[o].at] = Fold[files[p].at]
        => o = p

ASSUME BatchesAssumption ==
    \A b \in Batches :
        /\ b.provider \in Provider /\ b.content \in Seq(Nat)
        /\ b.objs \in [Id -> [live : BOOLEAN, at : Name \union {Outside}, ver : 0 .. Len(b.content)]]
        /\ \A o \in Id : b.objs[o].live => b.objs[o].ver # 0
        /\ b.provider = "dropbox" => TellsApart(b.objs)
        /\ b.others \in Nat
        /\ DOMAIN b.calls = Task /\ \A t \in Task : Unmade(b.calls[t])

network == <<faults, throttles, refusals>>
vars == <<pool, service, token, calls, network>>

Pooled == {t \in Task : calls[t].op \notin Structural}

Settled(t) == calls[t].phase = "done"

TypeOK ==
    /\ PoolTypeOK /\ ServiceTypeOK
    /\ \A t \in Task :
          /\ calls[t].phase \in {"new", "waiting", "ready", "token", "holding", "denied", "done"}
          /\ calls[t].attempt \in 1 .. MaxActionRetries
          /\ Settled(t) <=> calls[t].outcome # "pending"
    /\ faults \in Nat /\ throttles \in 0 .. MaxThrottles

Init ==
    /\ PoolInit /\ TokenInit
    /\ \E b \in Batches :
          /\ provider = b.provider /\ objs = b.objs /\ content = b.content
          /\ calls = b.calls /\ others = b.others /\ faults = b.faults
    /\ throttles = 0 /\ refusals = 0

-----------------------------------------------------------------------------
(* The start of an attempt: the operation is made anew.                     *)
Fresh(c) ==
    [c EXCEPT !.phase = "ready", !.plan = Script(c.op, c.form), !.seen = 0,
              !.seenAt = Outside, !.got = 0, !.resent = FALSE, !.waits = 0]

(* A component's first step: transfers enter the pool in the plan's order,  *)
(* in one stretch.                                                          *)
Earlier(t) == {s \in Task : \E i, j \in 1 .. Len(Order) :
                               i < j /\ Order[i] = s /\ Order[j] = t}
AllEntered == \A t \in Pooled : calls[t].phase # "new"

Admitted(t) == calls[t].phase = "waiting" /\ \A i \in 1 .. Len(waiting) : waiting[i] # t

Enter(t) ==
    /\ t \in Pooled /\ calls[t].phase = "new"
    /\ \A s \in Earlier(t) \intersect Pooled : calls[s].phase # "new"
    /\ Arrive(t)
    /\ calls' = [calls EXCEPT ![t].phase = "waiting"]
    /\ UNCHANGED <<service, token, network>>

(* The pool starts it.                                                      *)
Start(t) ==
    /\ AllEntered /\ Admitted(t)
    /\ calls' = [calls EXCEPT ![t] = Fresh(@)]
    /\ UNCHANGED <<pool, service, token, network>>

(* Structural calls start when every transfer has settled, unless one of    *)
(* them ended the plan.                                                     *)
StartStructural(t) ==
    /\ t \notin Pooled /\ calls[t].phase = "new"
    /\ \A s \in Pooled \union Earlier(t) : Settled(s) /\ calls[s].outcome # "auth"
    /\ calls' = [calls EXCEPT ![t] = Fresh(@)]
    /\ UNCHANGED <<pool, service, token, network>>

(* The end of a call.  A failed action is recorded, not thrown, so that the *)
(* pool sees a run that resolved; a lost authorisation is thrown.           *)
Finish(t, c, outcome) ==
    /\ calls' = [calls EXCEPT ![t] = [c EXCEPT !.phase = "done", !.outcome = outcome,
                                               !.plan = <<>>]]
    /\ IF t \notin Pooled THEN UNCHANGED pool
       ELSE IF outcome = "auth" THEN Reject(t) ELSE Resolve(t)

(* withIoRetry: the whole operation again, or the end.                      *)
GiveUp(t, c, kind) ==
    IF RetryAgain(c.op, kind, c.attempt, MaxActionRetries)
      THEN /\ calls' = [calls EXCEPT ![t] = Fresh([c EXCEPT !.attempt = @ + 1])]
           /\ IF kind = "rate_limit" /\ t \in Pooled THEN NoteRateLimit ELSE UNCHANGED pool
      ELSE Finish(t, c, kind)

GoOn(t, c, plan) ==
    /\ calls' = [calls EXCEPT ![t] =
                   [c EXCEPT !.plan = plan, !.phase = "ready", !.resent = FALSE, !.waits = 0]]
    /\ UNCHANGED pool

-----------------------------------------------------------------------------
(* A case-only rename on Dropbox: aside to a temporary place and home from  *)
(* there.  Whatever stops a move, the adapter looks where the object is.    *)
LookAround(t, c, stage, kind) ==
    GoOn(t, [c EXCEPT !.stage = stage, !.saved = kind], EndpointSteps)

(* Mutant: the second move's failure is passed on.                          *)
CaseRenamePassesOn(t, c, kind) ==
    CASE Step(c) = "aside" -> LookAround(t, c, "aside", kind)
      [] OTHER -> Finish(t, c, kind)

CaseRenameFails(t, c, kind) ==
    CASE Step(c) = "aside" -> LookAround(t, c, "aside", kind)
      [] Step(c) = "home"  -> LookAround(t, c, "home", kind)
      [] Step(c) = "back"  -> LookAround(t, c, "back", c.saved)
      [] OTHER -> Finish(t, [c EXCEPT !.blind = TRUE], kind)

(* What the object's place says, by what was under way.                     *)
Conclude(t, c, place) ==
    CASE place = "atNew" /\ c.stage \in {"aside", "home"} -> Finish(t, c, "ok")
      [] place = "atTemp" /\ c.stage = "aside" -> GoOn(t, c, <<"home">>)
      [] place = "atTemp" /\ c.stage = "home"  -> GoOn(t, c, <<"back">>)
      [] place = "atOld" \/ (place = "nowhere" /\ c.stage = "aside") -> Finish(t, c, c.saved)
      [] place = "nowhere" /\ c.stage = "home" -> Finish(t, c, "indeterminate")
      [] place # "atOld" /\ c.stage = "back" -> Finish(t, c, "rollback_failed")
      [] OTHER -> Finish(t, c, "unverified")

RenamingCase(c) == Step(c) \in {"aside", "home", "back", "atOld", "atNew", "atTemp"}

Fails(t, c, kind) ==
    IF RenamingCase(c) THEN CaseRenameFails(t, c, kind) ELSE GiveUp(t, c, kind)

-----------------------------------------------------------------------------
(* A request that is answered.                                              *)
Learn(c) ==
    CASE Step(c) = "observe"  -> [c EXCEPT !.want = objs[c.id].ver]
      [] Step(c) = "fetch"    -> [c EXCEPT !.seen = objs[c.id].ver, !.seenAt = objs[c.id].at,
                                           !.caseOnly = CaseOnly(c)]
      [] Step(c) = "download" -> [c EXCEPT !.got = Bytes(c)]
      [] Step(c) = "put"      -> [c EXCEPT !.id = IF c.op = "create" THEN NextId ELSE c.id,
                                           !.seen = Newest]
      [] OTHER -> c

NextPlan(c) ==
    IF Step(c) = "fetch" /\ CaseOnly(c) THEN CaseOnlySteps ELSE Tail(c.plan)

Proceed(t, c) ==
    CASE Step(c) = "back" -> LookAround(t, c, "verify", c.saved)
      [] Step(c) # "back" /\ Len(NextPlan(c)) = 0 -> Finish(t, Learn(c), "ok")
      [] OTHER -> GoOn(t, Learn(c), NextPlan(c))

LooksUp(t, c) ==
    /\ Step(c) \notin Mutations \union {"open", "atOld", "atNew", "atTemp"}
    /\ CASE Verdict(c) = "next" -> Proceed(t, c)
         [] Verdict(c) = "done" -> Finish(t, c, "ok")
         [] OTHER -> Fails(t, c, Verdict(c))
    /\ UNCHANGED <<objs, content>>

LooksForEndpoint(t, c) ==
    /\ Step(c) \in {"atOld", "atNew", "atTemp"}
    /\ IF FoundThere(c) THEN Conclude(t, c, Step(c))
       ELSE IF Len(c.plan) > 1 THEN GoOn(t, c, Tail(c.plan))
       ELSE Conclude(t, c, "nowhere")
    /\ UNCHANGED <<objs, content>>

Changes(t, c) ==
    /\ Step(c) \in Mutations \union {"open"}
    /\ IF Answer(c) = "ok" THEN Effect(c) /\ Proceed(t, c)
       ELSE UNCHANGED <<objs, content>> /\ Fails(t, c, Answer(c))

(* The client has a bearer, or needs none.                                  *)
CanSend(c) ==
    \/ c.phase = "ready" /\ (~UsesBearer(c) \/ Reusable(c.resent))
    \/ c.phase = "holding"

Accepted(c) == ~UsesBearer(c) \/ access # "refused"

Quiet == UNCHANGED <<provider, others, token>>

Deliver(t) ==
    /\ CanSend(calls[t]) /\ Accepted(calls[t])
    /\ LooksUp(t, calls[t]) \/ LooksForEndpoint(t, calls[t]) \/ Changes(t, calls[t])
    /\ Quiet /\ UNCHANGED network

(* A 401: once more with a new token.                                       *)
Refused(t) ==
    /\ CanSend(calls[t]) /\ ~Accepted(calls[t])
    /\ IF calls[t].resent
         THEN Fails(t, calls[t], "auth")
         ELSE /\ calls' = [calls EXCEPT ![t].resent = TRUE, ![t].phase = "ready"]
              /\ UNCHANGED pool
    /\ Quiet /\ UNCHANGED <<objs, content, network>>

(* A 429: the two newer clients wait and send again, a few times.           *)
Throttled(t) ==
    /\ CanSend(calls[t]) /\ Accepted(calls[t])
    /\ throttles < MaxThrottles
    /\ throttles' = throttles + 1
    /\ IF provider # "googledrive" /\ calls[t].waits < MaxInPlace
         THEN /\ calls' = [calls EXCEPT ![t].waits = @ + 1, ![t].phase = "ready"]
              /\ UNCHANGED pool
         ELSE Fails(t, calls[t], "rate_limit")
    /\ Quiet /\ UNCHANGED <<objs, content, faults, refusals>>

(* No answer, and nothing done; nothing but the answer lost; or forbidden.  *)
Unreachable(t) ==
    /\ CanSend(calls[t]) /\ faults > 0
    /\ faults' = faults - 1
    /\ Fails(t, calls[t], "transient")
    /\ Quiet /\ UNCHANGED <<objs, content, throttles, refusals>>

AnswerLost(t) ==
    /\ CanSend(calls[t]) /\ Accepted(calls[t]) /\ faults > 0
    /\ Step(calls[t]) \in Mutations /\ Answer(calls[t]) = "ok"
    /\ faults' = faults - 1
    /\ Effect(calls[t])
    /\ Fails(t, calls[t], "transient")
    /\ Quiet /\ UNCHANGED <<throttles, refusals>>

Forbidden(t) ==
    /\ CanSend(calls[t]) /\ Accepted(calls[t]) /\ faults > 0
    /\ faults' = faults - 1
    /\ Fails(t, calls[t], "permission")
    /\ Quiet /\ UNCHANGED <<objs, content, throttles, refusals>>

-----------------------------------------------------------------------------
(* The bearer.                                                              *)
TakeToken(t) ==
    /\ calls[t].phase = "ready" /\ UsesBearer(calls[t]) /\ ~Reusable(calls[t].resent)
    /\ IF CoolingDown
         THEN Fails(t, calls[t], "auth") /\ UNCHANGED token
         ELSE /\ GetAccessToken(t, calls[t].resent)
              /\ calls' = [calls EXCEPT ![t].phase = "token"]
              /\ UNCHANGED pool
    /\ UNCHANGED <<service, network>>

Waiters == {t \in Task : calls[t].phase = "token"}

(* All that waited for a refresh get what it brought.                       *)
Hand(phase, kind) ==
    calls' = [t \in Task |-> IF t \in Waiters
                THEN [calls[t] EXCEPT !.phase = phase, !.denial = kind] ELSE calls[t]]

RefreshWorks(t) ==
    /\ Granted(t) \/ Stored(t)
    /\ Hand("holding", "none")
    /\ UNCHANGED <<pool, service, network>>

RefreshRotates(t) ==
    /\ Rotated(t)
    /\ UNCHANGED <<pool, service, calls, network>>

RefreshFails(t) ==
    /\ faults > 0 /\ faults' = faults - 1
    /\ \/ HandleRefreshError(t) /\ Hand("denied", "auth")
       \/ (RefreshLost(t) \/ StoreFails(t)) /\ Hand("denied", "transient")
    /\ UNCHANGED <<pool, service, throttles, refusals>>

Denied(t) ==
    /\ calls[t].phase = "denied"
    /\ Fails(t, calls[t], calls[t].denial)
    /\ UNCHANGED <<service, token, network>>

TokenEnds ==
    /\ refusals < MaxRefusals
    /\ refusals' = refusals + 1
    /\ AccessEnds
    /\ UNCHANGED <<pool, service, calls, faults, throttles>>

OthersAct == OtherDevice /\ UNCHANGED <<pool, token, calls, network>>

Over == \A t \in Task : Settled(t) \/ (t \notin Pooled /\ calls[t].phase = "new"
                                       /\ \E s \in Pooled \union Earlier(t) : calls[s].outcome = "auth")
Done == Over /\ UNCHANGED vars

Next ==
    \/ \E t \in Task :
          \/ Enter(t) \/ Start(t) \/ StartStructural(t)
          \/ Deliver(t) \/ Refused(t) \/ Throttled(t)
          \/ Unreachable(t) \/ AnswerLost(t) \/ Forbidden(t)
          \/ TakeToken(t) \/ RefreshWorks(t) \/ RefreshRotates(t) \/ RefreshFails(t)
          \/ Denied(t)
    \/ TokenEnds \/ OthersAct \/ Done

Spec == Init /\ [][Next]_vars

-----------------------------------------------------------------------------
(* A step of this device that changes a file changes the one it may, as far *)
(* as the adapter claims (the capability record): a new file only in a free *)
(* place, content and metadata only over the version the caller admitted;   *)
(* and without the claim still only where the adapter saw that version,     *)
(* whatever other devices do between its requests (adapter.ts of each       *)
(* backend, and remote-adapter.ts, RemoteBackendCapabilities).              *)
Acted(t) == others' = others /\ calls'[t] # calls[t] /\ CanSend(calls[t])
Touched == {o \in Id : objs'[o] # objs[o]}

MayChange(c, o) ==
    CASE c.op = "create" ->
           Step(c) = "mtime" \/ (exclusiveCreate => Called(c.dest) = {})
      [] c.op = "update" ->
           \/ Step(c) = "mtime" /\ objs[o].ver = c.seen
           \/ /\ c.seen = c.want
              /\ conditionalContentUpdate = "all" => objs[o].ver = c.want
      [] OTHER ->
           /\ c.want \in {NoVersion, c.seen}
           /\ conditionalMetadataMutation => o = c.id /\ objs[o].ver = c.want

MutatesOnlyWhatItMayClaim ==
    [][\A t \in Task : Acted(t) => \A o \in Touched : MayChange(calls[t], o)]_vars

(* A finished read has the bytes of the version it was bound to, also where *)
(* the service cannot read by version and the file changed meanwhile.       *)
ReadsAreBound ==
    \A t \in Task :
        calls[t].op = "read" /\ calls[t].outcome = "ok" =>
            calls[t].got = content[calls[t].want]

(* A rename that only changes case leaves the object under its old or its   *)
(* new name as it reports, or says that it could not tell; only a lookup    *)
(* that fails leaves it at the temporary name without a word (adapter.ts of *)
(* Dropbox, moveCaseOnly).                                                  *)
Inconclusive == {"indeterminate", "rollback_failed", "unverified"}

CaseRenameSettles ==
    \A t \in Task : LET c == calls[t] IN
        (Settled(t) /\ c.caseOnly /\ ~c.blind /\ Live(c.id) /\ c.outcome \notin Inconclusive) =>
            /\ objs[c.id].at # Temp
            /\ others = 0 => objs[c.id].at = IF c.outcome = "ok" THEN c.dest ELSE c.seenAt
=============================================================================

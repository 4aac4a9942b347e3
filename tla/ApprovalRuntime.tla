--------------------------- MODULE ApprovalRuntime ---------------------------
(***************************************************************************)
(* The bounded, deduplicating worker pool behind human approvals:          *)
(* pkg/governance/approval_runtime.go, type ApprovalRuntime.               *)
(*                                                                         *)
(* A request is one call of Run.  Requests for the same key share one      *)
(* worker: the first one (the leader) takes a slot of the semaphore,       *)
(* publishes an InflightApproval under its key and starts runInflight; the *)
(* others join it.  A worker is named by the request that started it.      *)
(* Every step below is one critical section of r.mu or one channel         *)
(* operation of the code, so requests, workers, deadlines and Shutdown     *)
(* interleave exactly where the Go scheduler may switch between them.      *)
(***************************************************************************)
EXTENDS Naturals, FiniteSets

CONSTANTS
  Reqs,         \* calls of Run
  Keys,         \* approval keys (tool, capability, risk and redacted params)
  MaxInflight,  \* capacity of the semaphore, after normalizeMaxInflight
  FnResults,    \* what the approval callback fn may return
  NoReq         \* the nil of the inflight map

VARIABLES
  pc,            \* where each call of Run stands
  key,           \* the key a call was made for
  ctx,           \* the state of the context a call was given
  waitOn,        \* the worker a call waits for (inflight.done)
  outcome,       \* what a call returned
  worker,        \* phase of the runInflight goroutine a call started
  result,        \* InflightApproval.result of that worker
  inflight,      \* r.inflight: the published worker of each key
  sem,           \* len(r.sem)
  shuttingDown   \* r.shuttingDown, and shutdownCh closed

rtVars == <<pc, key, ctx, waitOn, outcome, worker, result, inflight, sem, shuttingDown>>

------------------------------------------------------------------------------
(* ApprovalResult, reduced to the two fields control depends on.           *)

Decisions == {"GRANTED", "DENIED", "TIMEOUT", "CANCELLED", "UNAVAILABLE"}
Scopes    == {"ONCE", "SESSION", "ALWAYS", "NEVER"}
Results   == [decision : Decisions, scope : Scopes]

ASSUME RuntimeAssumption ==
  /\ IsFiniteSet(Reqs)
  /\ MaxInflight \in Nat \ {0}
  /\ FnResults \subseteq Results
  /\ NoReq \notin Reqs

NoResult    == [decision |-> "", scope |-> ""]
Once(d)     == [decision |-> d, scope |-> "ONCE"]

\* approvalFromContext, and the ctx.Done case of the slot select.
ContextResult(r) == Once(IF ctx[r] = "deadline" THEN "TIMEOUT" ELSE "CANCELLED")

Phases        == {"idle", "acquire", "register", "release", "wait", "returned"}
WorkerPhases  == {"none", "running", "closed", "deleted", "exited"}
CtxStates     == {"live", "deadline", "cancelled"}

(* A worker is published while its key maps to it, and holds a slot until  *)
(* its deferred releaseSlot.                                               *)
Published(r)   == worker[r] \in {"running", "closed"}
HoldsSlot(r)   == pc[r] \in {"register", "release"} \/ worker[r] \in {"running", "closed", "deleted"}
SlotHolders    == {r \in Reqs : HoldsSlot(r)}

------------------------------------------------------------------------------
Init ==
  /\ pc = [r \in Reqs |-> "idle"]
  /\ key \in [Reqs -> Keys]
  /\ ctx = [r \in Reqs |-> "live"]
  /\ waitOn = [r \in Reqs |-> NoReq]
  /\ outcome = [r \in Reqs |-> NoResult]
  /\ worker = [r \in Reqs |-> "none"]
  /\ result = [r \in Reqs |-> NoResult]
  /\ inflight = [k \in Keys |-> NoReq]
  /\ sem = 0
  /\ shuttingDown = FALSE

------------------------------------------------------------------------------
(* Steps of a call of Run.                                                 *)

Return(r, res) ==
  /\ pc' = [pc EXCEPT ![r] = "returned"]
  /\ outcome' = [outcome EXCEPT ![r] = res]

Join(r, w) ==
  /\ pc' = [pc EXCEPT ![r] = "wait"]
  /\ waitOn' = [waitOn EXCEPT ![r] = w]

\* First critical section: refuse after Shutdown, join a published worker,
\* or go on to compete for a slot.
Lookup(r) ==
  /\ pc[r] = "idle"
  /\ \/ /\ shuttingDown
        /\ Return(r, Once("CANCELLED"))
        /\ UNCHANGED waitOn
     \/ /\ ~shuttingDown
        /\ inflight[key[r]] # NoReq
        /\ Join(r, inflight[key[r]])
        /\ UNCHANGED outcome
     \/ /\ ~shuttingDown
        /\ inflight[key[r]] = NoReq
        /\ pc' = [pc EXCEPT ![r] = "acquire"]
        /\ UNCHANGED <<waitOn, outcome>>
  /\ UNCHANGED <<key, ctx, worker, result, inflight, sem, shuttingDown>>

\* Mutant: a slot more than the semaphore has.
AcquireSlotOffByOne(r) ==
  /\ pc[r] = "acquire"
  /\ sem <= MaxInflight
  /\ sem' = sem + 1
  /\ pc' = [pc EXCEPT ![r] = "register"]
  /\ UNCHANGED <<key, ctx, waitOn, outcome, worker, result, inflight, shuttingDown>>

\* Mutant: the wait for a slot does not listen to the shutdown channel.
AcquireIgnoresShutdown(r) ==
  /\ pc[r] = "acquire"
  /\ ctx[r] # "live"
  /\ Return(r, ContextResult(r))
  /\ UNCHANGED <<key, ctx, waitOn, worker, result, inflight, sem, shuttingDown>>

\* The select on the semaphore, the context and the shutdown channel: any
\* ready case may be taken.
AcquireSlot(r) ==
  /\ pc[r] = "acquire"
  /\ sem < MaxInflight
  /\ sem' = sem + 1
  /\ pc' = [pc EXCEPT ![r] = "register"]
  /\ UNCHANGED <<key, ctx, waitOn, outcome, worker, result, inflight, shuttingDown>>

AcquireGivesUp(r) ==
  /\ pc[r] = "acquire"
  /\ \/ ctx[r] # "live" /\ Return(r, ContextResult(r))
     \/ shuttingDown /\ Return(r, Once("CANCELLED"))
  /\ UNCHANGED <<key, ctx, waitOn, worker, result, inflight, sem, shuttingDown>>

\* Defensive releaseSlot: receiving from an empty semaphore is a no-op.
ReleaseSlot == sem' = IF sem > 0 THEN sem - 1 ELSE sem

Publish(r) ==
  /\ inflight' = [inflight EXCEPT ![key[r]] = r]
  /\ worker' = [worker EXCEPT ![r] = "running"]
  /\ Join(r, r)
  /\ UNCHANGED <<outcome, sem>>

\* Mutant: the map is not read again once the slot is held.
RegisterNoRecheck(r) ==
  /\ pc[r] = "register"
  /\ ~shuttingDown
  /\ Publish(r)
  /\ UNCHANGED <<key, ctx, result, shuttingDown>>

\* Mutant: a request that joins a worker after all keeps its own slot.
RegisterKeepsSlot(r) ==
  /\ pc[r] = "register"
  /\ ~shuttingDown
  /\ \/ /\ inflight[key[r]] # NoReq
        /\ Join(r, inflight[key[r]])
        /\ UNCHANGED <<outcome, worker, inflight, sem>>
     \/ inflight[key[r]] = NoReq /\ Publish(r)
  /\ UNCHANGED <<key, ctx, result, shuttingDown>>

\* Mutant: shutdown is not looked at again once the slot is held.
RegisterIgnoresShutdown(r) ==
  /\ pc[r] = "register"
  /\ \/ /\ inflight[key[r]] # NoReq
        /\ pc' = [pc EXCEPT ![r] = "release"]
        /\ waitOn' = [waitOn EXCEPT ![r] = inflight[key[r]]]
        /\ UNCHANGED <<outcome, worker, inflight, sem>>
     \/ inflight[key[r]] = NoReq /\ Publish(r)
  /\ UNCHANGED <<key, ctx, result, shuttingDown>>

\* Second critical section, holding a slot: the world may have changed while
\* the slot was awaited, so shutdown and the published worker are rechecked.
Register(r) ==
  /\ pc[r] = "register"
  /\ \/ /\ shuttingDown
        /\ pc' = [pc EXCEPT ![r] = "release"]
        /\ UNCHANGED <<waitOn, outcome, worker, inflight, sem>>
     \/ /\ ~shuttingDown
        /\ inflight[key[r]] # NoReq
        /\ pc' = [pc EXCEPT ![r] = "release"]
        /\ waitOn' = [waitOn EXCEPT ![r] = inflight[key[r]]]
        /\ UNCHANGED <<outcome, worker, inflight, sem>>
     \/ /\ ~shuttingDown
        /\ inflight[key[r]] = NoReq
        /\ Publish(r)
  /\ UNCHANGED <<key, ctx, result, shuttingDown>>

\* releaseSlot of a call that does not need its slot after all, once it has
\* left the critical section: it returns, or waits for the worker it found.
GiveSlotBack(r) ==
  /\ pc[r] = "release"
  /\ ReleaseSlot
  /\ \/ /\ waitOn[r] = NoReq
        /\ Return(r, Once("CANCELLED"))
     \/ /\ waitOn[r] # NoReq
        /\ pc' = [pc EXCEPT ![r] = "wait"]
        /\ UNCHANGED outcome
  /\ UNCHANGED <<key, ctx, waitOn, worker, result, inflight, shuttingDown>>

\* Mutant: the result is read without waiting for done.
WaitForResultEarly(r) ==
  /\ pc[r] = "wait"
  /\ Return(r, result[waitOn[r]])
  /\ UNCHANGED <<key, ctx, waitOn, worker, result, inflight, sem, shuttingDown>>

\* Mutant: only the worker and Shutdown end the wait.
WaitForResultNoDeadline(r) ==
  /\ pc[r] = "wait"
  /\ \/ /\ worker[waitOn[r]] \in {"closed", "deleted", "exited"}
        /\ Return(r, result[waitOn[r]])
     \/ shuttingDown /\ Return(r, Once("CANCELLED"))
  /\ UNCHANGED <<key, ctx, waitOn, worker, result, inflight, sem, shuttingDown>>

\* waitForResult: the worker's done channel, the caller's context or the
\* shutdown channel, whichever the select picks among the ready ones.
WaitForResult(r) ==
  /\ pc[r] = "wait"
  /\ \/ /\ worker[waitOn[r]] \in {"closed", "deleted", "exited"}
        /\ Return(r, result[waitOn[r]])
     \/ /\ ctx[r] # "live"
        /\ Return(r, ContextResult(r))
     \/ /\ shuttingDown
        /\ Return(r, Once("CANCELLED"))
  /\ UNCHANGED <<key, ctx, waitOn, worker, result, inflight, sem, shuttingDown>>

------------------------------------------------------------------------------
(* Steps of a worker: runInflight.                                         *)

\* fn returns: its result is stored and done is closed.
FnReturns(w, res) ==
  /\ worker[w] = "running"
  /\ result' = [result EXCEPT ![w] = res]
  /\ worker' = [worker EXCEPT ![w] = "closed"]
  /\ UNCHANGED <<pc, key, ctx, waitOn, outcome, inflight, sem, shuttingDown>>

\* fn panics: the deferred recover stores UNAVAILABLE, then closes done.
FnPanics(w) == FnReturns(w, Once("UNAVAILABLE"))

\* delete(r.inflight, inflight.Key) under the mutex.
Unpublish(w) ==
  /\ worker[w] = "closed"
  /\ inflight' = [inflight EXCEPT ![key[w]] = NoReq]
  /\ worker' = [worker EXCEPT ![w] = "deleted"]
  /\ UNCHANGED <<pc, key, ctx, waitOn, outcome, result, sem, shuttingDown>>

WorkerReleases(w) ==
  /\ worker[w] = "deleted"
  /\ ReleaseSlot
  /\ worker' = [worker EXCEPT ![w] = "exited"]
  /\ UNCHANGED <<pc, key, ctx, waitOn, outcome, result, inflight, shuttingDown>>

------------------------------------------------------------------------------
(* The environment: deadlines, cancellation by the caller, Shutdown.       *)

CtxEnds(r, how) ==
  /\ pc[r] \in {"acquire", "register", "release", "wait"}
  /\ ctx[r] = "live"
  /\ ctx' = [ctx EXCEPT ![r] = how]
  /\ UNCHANGED <<pc, key, waitOn, outcome, worker, result, inflight, sem, shuttingDown>>

Shutdown ==
  /\ ~shuttingDown
  /\ shuttingDown' = TRUE
  /\ UNCHANGED <<pc, key, ctx, waitOn, outcome, worker, result, inflight, sem>>

RequestStep(r) ==
  \/ AcquireSlot(r)
  \/ AcquireGivesUp(r)
  \/ Register(r)
  \/ GiveSlotBack(r)
  \/ WaitForResult(r)

WorkerCleanup(w) == Unpublish(w) \/ WorkerReleases(w)

Next ==
  \/ \E r \in Reqs : Lookup(r) \/ RequestStep(r) \/ WorkerCleanup(r) \/ FnPanics(r)
  \/ \E r \in Reqs, res \in FnResults : FnReturns(r, res)
  \/ \E r \in Reqs, how \in {"deadline", "cancelled"} : CtxEnds(r, how)
  \/ Shutdown

(* A goroutine that can take a step is eventually scheduled.  Nothing makes *)
(* fn return: a human may never answer.                                     *)
Fairness ==
  /\ \A r \in Reqs : WF_rtVars(RequestStep(r))
  /\ \A r \in Reqs : WF_rtVars(WorkerCleanup(r))

Spec == Init /\ [][Next]_rtVars /\ Fairness

(* RequestHumanApproval always passes a context with a timeout.            *)
Deadlines == \A r \in Reqs : WF_rtVars(CtxEnds(r, "deadline"))

------------------------------------------------------------------------------
TypeOK ==
  /\ pc \in [Reqs -> Phases]
  /\ key \in [Reqs -> Keys]
  /\ ctx \in [Reqs -> CtxStates]
  /\ waitOn \in [Reqs -> Reqs \cup {NoReq}]
  /\ outcome \in [Reqs -> Results \cup {NoResult}]
  /\ worker \in [Reqs -> WorkerPhases]
  /\ result \in [Reqs -> Results \cup {NoResult}]
  /\ inflight \in [Keys -> Reqs \cup {NoReq}]
  /\ sem \in 0 .. MaxInflight
  /\ shuttingDown \in BOOLEAN

(* Deduplication: two workers for the same key are never both published,   *)
(* although every request checks the map, drops the lock to wait for a     *)
(* slot, and publishes later (approval_runtime.go 122 and 163).            *)
SingleFlight ==
  \A v, w \in Reqs : Published(v) /\ Published(w) /\ key[v] = key[w] => v = w

(* The semaphore counts exactly the requests that register or give their   *)
(* slot back and the workers that have not finished their deferred         *)
(* release: no slot leaks on shutdown, join or timeout, and none is        *)
(* released twice behind the defensive no-op of releaseSlot.               *)
SlotsExact == sem = Cardinality(SlotHolders)

(* What a call returns is a cancellation or timeout of its own, or what a  *)
(* worker for the call's own key produced: a join never crosses keys and   *)
(* never reads a result before the worker stored it.                       *)
OutcomeIsForOwnKey ==
  \A r \in Reqs : pc[r] = "returned" =>
    \/ outcome[r] \in {Once("CANCELLED"), Once("TIMEOUT")}
    \/ \E w \in Reqs : /\ key[w] = key[r]
                       /\ worker[w] \in {"closed", "deleted", "exited"}
                       /\ outcome[r] = result[w]

(* A published worker cannot be unpublished by anyone but itself: delete   *)
(* removes by key, so a worker that outlived its entry would erase its     *)
(* successor's (approval_runtime.go 214).                                  *)
UnpublishesOnlyItself ==
  [][\A k \in Keys : inflight[k] # NoReq /\ inflight'[k] # inflight[k]
        => worker[inflight[k]] = "closed" /\ worker'[inflight[k]] = "deleted"]_rtVars

\* ApprovalService, with the published workers for its open questions.
Service == INSTANCE ApprovalService WITH
  Answers <- FnResults \cup {Once("UNAVAILABLE")},
  Excuses <- {Once("CANCELLED"), Once("TIMEOUT")},
  NoAnswer <- NoResult,
  open <- {r \in Reqs : Published(r)},
  askedAs <- waitOn,
  reply <- result,
  given <- outcome,
  down <- shuttingDown

(* The runtime implements the service: with checks, slots, joins, deadlines*)
(* and Shutdown interleaved as they may be, every step is a step of the    *)
(* service or invisible in it (approval_runtime.go 91-228).                *)
ImplementsService == Service!ServiceSpec

(* TestApprovalRuntimeTimeoutDoesNotBlockCaller for every interleaving: a  *)
(* call with a deadline returns even if no human ever answers and every    *)
(* slot is held by a stuck callback.                                       *)
EveryCallReturns ==
  Deadlines => \A r \in Reqs : pc[r] # "idle" ~> pc[r] = "returned"

(* Shutdown releases every call already in the runtime, without the help   *)
(* of a deadline or of an answer.                                          *)
ShutdownReleasesCalls ==
  \A r \in Reqs : (shuttingDown /\ pc[r] # "idle") ~> pc[r] = "returned"

==============================================================================

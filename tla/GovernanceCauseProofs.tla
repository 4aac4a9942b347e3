------------------------ MODULE GovernanceCauseProofs ------------------------
(***************************************************************************)
(* Proof that a call of RequestHumanApproval which is turned down has a    *)
(* cause, for any number of calls, keys, tools and slots: DenialHasCause   *)
(* of GovernanceApproval.                                                  *)
(*                                                                         *)
(* Like consent, the cause is followed from where it arises (a context     *)
(* that ends, Shutdown, a refusal, a panic) to the result of a worker, the *)
(* outcome of the calls that waited for it, and the cache.  Causes do not  *)
(* go away, and a call keeps the worker it waited for.                     *)
(***************************************************************************)
EXTENDS GovernanceApprovalProofs

(* The human has turned tool t down for good, in this session or before.   *)
Vetoed(t) ==
  \/ earlier[t] = "never"
  \/ \E w \in Reqs : Taken(w, "never") /\ ToolFor(w) = t

Denies(res) == res.decision = "DENIED" \/ res.scope = "NEVER"

\* What result res of worker w, or of a call that got it from w, says of w.
ResultCause(w, res) ==
  /\ res.decision = "TIMEOUT" => ctx[w] = "deadline"
  /\ res.decision = "CANCELLED" => ctx[w] = "cancelled" \/ shuttingDown
  /\ res.decision = "UNAVAILABLE" => ~attended \/ fn[w] = "panicked"

WorkerCause(w, res) == ResultCause(w, res) /\ (Denies(res) => Vetoed(ToolFor(w)))

CallCause(r, res) ==
  /\ Denies(res) => Vetoed(ToolFor(r))
  /\ \/ ResultCause(r, res) /\ res.decision # "UNAVAILABLE"
     \/ res.decision = "UNAVAILABLE" /\ ~attended
     \/ waitOn[r] # NoReq /\ ResultCause(waitOn[r], res)

(* A call leaves its own worker behind, or gives its slot back without     *)
(* having found a worker, only for a reason that lasts.                    *)
WorkersLeft ==
  /\ \A w \in Reqs : worker[w] = "running" =>
       /\ pc[w] = "wait" => waitOn[w] = w
       /\ pc[w] = "returned" => ctx[w] # "live" \/ shuttingDown
  /\ \A r \in Reqs : pc[r] = "release" /\ waitOn[r] = NoReq => shuttingDown

CauseInv ==
  /\ CallsAgree
  /\ WorkersLeft
  /\ \A t \in Tools : stored[t] = "never" => Vetoed(t)
  /\ \A k \in cache.never : Vetoed(ToolOf[k])
  /\ \A w \in Reqs : WorkerCause(w, result[w])
  /\ \A r \in Reqs : CallCause(r, outcome[r])
  /\ \A r \in Reqs : CallCause(r, approval[r])

------------------------------------------------------------------------------
(* What the results there are need as a cause.                             *)

LEMMA CausesOfResults ==
  /\ NoResult.decision = "" /\ NoResult.scope = ""
  /\ \A d : Once(d).decision = d /\ Once(d).scope = "ONCE"
  /\ \A s : Granted(s).decision = "GRANTED" /\ Granted(s).scope = s
  /\ Refused.decision = "DENIED" /\ Refused.scope = "NEVER"
  BY DEF NoResult, Once, Granted, Refused

LEMMA NothingNeedsNoCause ==
  ASSUME NEW r PROVE WorkerCause(r, NoResult) /\ CallCause(r, NoResult)
  BY CausesOfResults DEF WorkerCause, CallCause, ResultCause, Denies

(* Causes last, and so do the blames that rest on them.                    *)
LEMMA CausesLast ==
  ASSUME GovInv, [GovNext]_govVars
  PROVE  /\ \A w \in Reqs : ctx[w] # "live" => ctx'[w] = ctx[w]
         /\ shuttingDown => shuttingDown'
         /\ attended' = attended
         /\ \A w \in Reqs : fn[w] = "panicked" => fn'[w] = "panicked"
         /\ \A t \in Tools : Vetoed(t) => Vetoed(t)'
<1> USE DEF GovInv, GovTypeOK
<1>1. [Next]_rtVars
  BY GovStepRefinesRuntime
<1>2. \A w \in Reqs : ctx[w] # "live" => ctx'[w] = ctx[w]
  BY <1>1 DEF Next, RequestStep, WorkerCleanup, Lookup, AcquireSlot, AcquireGivesUp, Register, Publish,
     GiveSlotBack, WaitForResult, FnReturns, FnPanics, Unpublish, WorkerReleases, CtxEnds, Shutdown, rtVars,
     RtInv, TypeOK
<1>3. shuttingDown => shuttingDown'
  BY <1>1 DEF Next, RequestStep, WorkerCleanup, Lookup, AcquireSlot, AcquireGivesUp, Register, Publish,
     GiveSlotBack, WaitForResult, FnReturns, FnPanics, Unpublish, WorkerReleases, CtxEnds, Shutdown, rtVars
<1>4. attended' = attended /\ earlier' = earlier
  BY DEF GovNext, FnStep, CacheGet, CachePut, EnterRun, RuntimeStep, govOnly, govVars, CheckSession, CheckManager,
     StoreAnswer, AnswerReturned, HandlerPanics, HumanAnswers
<1>5. \A w \in Reqs : fn[w] = "panicked" => fn'[w] = "panicked"
  BY DEF GovNext, FnStep, CacheGet, CachePut, EnterRun, RuntimeStep, govOnly, govVars, CheckSession, CheckManager,
     AskHuman, StoreAnswer, AnswerReturned, HandlerPanics, HumanAnswers, FnConcludes, FnGoesTo, InFn
<1>6. \A t \in Tools : Vetoed(t) => Vetoed(t)'
  BY <1>4, ConsentLasts DEF Vetoed, Levels
<1> QED
  BY <1>2, <1>3, <1>4, <1>5, <1>6

LEMMA BlameLasts ==
  ASSUME GovInv, [GovNext]_govVars
  PROVE  /\ \A w \in Reqs : \A res : ResultCause(w, res) => ResultCause(w, res)'
         /\ \A w \in Reqs : \A res : WorkerCause(w, res) => WorkerCause(w, res)'
         /\ \A r \in Reqs : \A res : CallCause(r, res) /\ waitOn'[r] = waitOn[r] => CallCause(r, res)'
<1>1. \A r \in Reqs : ToolFor(r) \in Tools /\ ToolFor(r)' = ToolFor(r) /\ waitOn[r] \in Reqs \cup {NoReq}
  BY GovernanceAssumption, ConsentLasts DEF ToolFor, GovInv, RtInv, TypeOK
<1>2. ASSUME NEW w \in Reqs, NEW res, ResultCause(w, res) PROVE ResultCause(w, res)'
  BY <1>2, CausesLast DEF ResultCause
<1>3. ASSUME NEW r \in Reqs, NEW res, Denies(res) => Vetoed(ToolFor(r))
      PROVE  Denies(res) => Vetoed(ToolFor(r))'
  BY <1>1, <1>3, CausesLast
<1>4. ASSUME NEW w \in Reqs, NEW res, WorkerCause(w, res) PROVE WorkerCause(w, res)'
  BY <1>2, <1>3, <1>4 DEF WorkerCause, Denies
<1>5. ASSUME NEW r \in Reqs, NEW res, CallCause(r, res), waitOn'[r] = waitOn[r] PROVE CallCause(r, res)'
  <2>1. Denies(res) => Vetoed(ToolFor(r))'
    BY <1>3, <1>5 DEF CallCause
  <2>2. \/ ResultCause(r, res)' /\ res.decision # "UNAVAILABLE"
        \/ res.decision = "UNAVAILABLE" /\ ~attended'
        \/ waitOn'[r] # NoReq /\ ResultCause(waitOn[r], res)'
    BY <1>1, <1>2, <1>5, CausesLast DEF CallCause
  <2> QED
    BY <1>5, <2>1, <2>2 DEF CallCause, Denies, ResultCause
<1> QED
  BY <1>2, <1>4, <1>5

(* A result that ends a call: its own context or Shutdown is the cause.    *)
LEMMA OwnCause ==
  ASSUME NEW r \in Reqs, NEW res,
         \/ ctx[r] # "live" /\ res = ContextResult(r)
         \/ shuttingDown /\ res = Once("CANCELLED"),
         ctx[r] \in CtxStates
  PROVE  CallCause(r, res)
<1>1. CASE ctx[r] = "deadline" /\ res = Once("TIMEOUT")
  <2>1. res.decision = "TIMEOUT" /\ res.scope = "ONCE"
    BY <1>1, CausesOfResults
  <2> QED
    BY <1>1, <2>1 DEF CallCause, ResultCause, Denies
<1>2. CASE (ctx[r] = "cancelled" \/ shuttingDown) /\ res = Once("CANCELLED")
  <2>1. res.decision = "CANCELLED" /\ res.scope = "ONCE"
    BY <1>2, CausesOfResults
  <2> QED
    BY <1>2, <2>1 DEF CallCause, ResultCause, Denies
<1> QED
  BY <1>1, <1>2 DEF ContextResult, CtxStates

LEMMA WorkersLeftStep == GovInv /\ CauseInv /\ [GovNext]_govVars => WorkersLeft'
<1> SUFFICES ASSUME GovInv, CauseInv, [GovNext]_govVars PROVE WorkersLeft'
  OBVIOUS
<1> USE DEF GovInv, RtInv, TypeOK, PhasesAgree
<1>1. [Next]_rtVars
  BY GovStepRefinesRuntime
<1>2. ASSUME NEW r \in Reqs, Lookup(r) \/ AcquireSlot(r) \/ AcquireGivesUp(r) \/ GiveSlotBack(r)
      PROVE  WorkersLeft'
  BY <1>2 DEF Lookup, AcquireSlot, AcquireGivesUp, GiveSlotBack, Return, Join, CauseInv, WorkersLeft
<1>3. ASSUME NEW r \in Reqs, Register(r) PROVE WorkersLeft'
  BY <1>3 DEF Register, Publish, Join, CauseInv, WorkersLeft
<1>4. ASSUME NEW r \in Reqs, WaitForResult(r) PROVE WorkersLeft'
  BY <1>4 DEF WaitForResult, Return, CauseInv, WorkersLeft
<1>5. ASSUME NEW r \in Reqs, NEW res, FnReturns(r, res) PROVE WorkersLeft'
  BY <1>5 DEF FnReturns, CauseInv, WorkersLeft
<1>6. ASSUME NEW r \in Reqs, WorkerCleanup(r) PROVE WorkersLeft'
  BY <1>6 DEF WorkerCleanup, Unpublish, WorkerReleases, CauseInv, WorkersLeft
<1>7. ASSUME NEW r \in Reqs, NEW how \in {"deadline", "cancelled"}, CtxEnds(r, how) PROVE WorkersLeft'
  BY <1>7 DEF CtxEnds, CauseInv, WorkersLeft
<1>8. CASE Shutdown
  BY <1>8 DEF Shutdown, CauseInv, WorkersLeft
<1>9. CASE UNCHANGED rtVars
  BY <1>9 DEF rtVars, CauseInv, WorkersLeft
<1> QED
  BY <1>1, <1>2, <1>3, <1>4, <1>5, <1>6, <1>7, <1>8, <1>9 DEF Next, RequestStep, FnPanics

(* A step keeps the invariant when what it adds has a cause.               *)
LEMMA CauseKept ==
  ASSUME GovInv, CauseInv, [GovNext]_govVars,
         \A t \in Tools : stored'[t] # stored[t] /\ stored'[t] = "never" => Vetoed(t)',
         \A k \in cache'.never \ cache.never : Vetoed(ToolOf[k])',
         \A w \in Reqs : result'[w] # result[w] => WorkerCause(w, result[w])',
         \A r \in Reqs : outcome'[r] # outcome[r] => CallCause(r, outcome[r])',
         \A r \in Reqs : approval'[r] # approval[r] => CallCause(r, approval[r])'
  PROVE  CauseInv'
<1>1. CallsAgree' /\ WorkersLeft'
  BY CallsStep, WorkersLeftStep DEF CauseInv
<1>2. \A t \in Tools : stored'[t] = "never" => Vetoed(t)'
  BY CausesLast DEF CauseInv
<1>3. \A k \in cache'.never : Vetoed(ToolOf[k])'
  <2>1. \A k \in cache.never : ToolOf[k] \in Tools
    BY GovernanceAssumption DEF GovInv, GovTypeOK
  <2> QED
    BY <2>1, CausesLast DEF CauseInv
<1>4. ASSUME NEW w \in Reqs PROVE WorkerCause(w, result[w])'
  <2>1. CASE result'[w] = result[w]
    <3>1. WorkerCause(w, result[w])
      BY DEF CauseInv
    <3>2. ASSUME NEW res, res = result[w] PROVE WorkerCause(w, res)'
      BY <3>1, <3>2, BlameLasts
    <3>3. ASSUME NEW res, res = result'[w], WorkerCause(w, res)' PROVE WorkerCause(w, result[w])'
      BY <3>3 DEF WorkerCause, ResultCause, Denies
    <3> QED
      BY <2>1, <3>2, <3>3
  <2> QED
    BY <2>1
<1>5. ASSUME NEW r \in Reqs, NEW res, CallCause(r, res), waitOn'[r] = waitOn[r] \/ res = NoResult
      PROVE  CallCause(r, res)'
  BY <1>5, BlameLasts, NothingNeedsNoCause, CausesOfResults DEF CallCause, ResultCause, Denies
<1>6. ASSUME NEW r \in Reqs PROVE CallCause(r, outcome[r])'
  <2>1. CASE outcome'[r] = outcome[r]
    <3>1. CallCause(r, outcome[r]) /\ (waitOn'[r] = waitOn[r] \/ outcome[r] = NoResult)
      BY StaysWithWorker DEF CauseInv
    <3>2. ASSUME NEW res, res = outcome[r] PROVE CallCause(r, res)'
      BY <1>5, <3>1, <3>2
    <3>3. ASSUME NEW res, res = outcome'[r], CallCause(r, res)' PROVE CallCause(r, outcome[r])'
      BY <3>3 DEF CallCause, ResultCause, Denies
    <3> QED
      BY <2>1, <3>2, <3>3
  <2> QED
    BY <2>1
<1>7. ASSUME NEW r \in Reqs PROVE CallCause(r, approval[r])'
  <2>1. CASE approval'[r] = approval[r]
    <3>1. CallCause(r, approval[r]) /\ (waitOn'[r] = waitOn[r] \/ approval[r] = NoResult)
      BY StaysWithWorker DEF CauseInv
    <3>2. ASSUME NEW res, res = approval[r] PROVE CallCause(r, res)'
      BY <1>5, <3>1, <3>2
    <3>3. ASSUME NEW res, res = approval'[r], CallCause(r, res)' PROVE CallCause(r, approval[r])'
      BY <3>3 DEF CallCause, ResultCause, Denies
    <3> QED
      BY <2>1, <3>2, <3>3
  <2> QED
    BY <2>1
<1> QED
  BY <1>1, <1>2, <1>3, <1>4, <1>6, <1>7 DEF CauseInv

------------------------------------------------------------------------------
(* The steps.                                                              *)

LEMMA ConclusionKeepsCause ==
  ASSUME GovInv, CauseInv, [GovNext]_govVars, NEW w \in Reqs, NEW res \in Results,
         FnReturns(w, res), WorkerCause(w, res)',
         UNCHANGED <<approval, stored, cache>>
  PROVE  CauseInv'
<1>1. /\ result'[w] = res /\ \A v \in Reqs \ {w} : result'[v] = result[v]
      /\ UNCHANGED outcome
  BY DEF FnReturns, GovInv, RtInv, TypeOK
<1>2. \A v \in Reqs : result'[v] # result[v] => WorkerCause(v, result[v])'
  BY <1>1
<1> QED
  BY <1>1, <1>2, CauseKept

LEMMA CacheKeepsCause ==
  ASSUME GovInv, CauseInv, [GovNext]_govVars, NEW r \in Reqs, CacheGet(r) \/ CachePut(r)
  PROVE  CauseInv'
<1> USE DEF GovInv, GovTypeOK
<1>0. /\ UNCHANGED <<outcome, result, stored, waitOn>>
      /\ \A q \in Reqs : approval'[q] # approval[q] => q = r
  BY DEF CacheGet, CachePut, rtVars
<1>1. key[r] \in Keys /\ ToolFor(r) = ToolOf[key[r]] /\ ToolFor(r) \in Tools
  BY GovernanceAssumption DEF RtInv, TypeOK, ToolFor
<1>2. ASSUME NEW res, CallCause(r, res), approval'[r] = res PROVE CallCause(r, approval[r])'
  <2>1. CallCause(r, res)'
    BY <1>0, <1>2, BlameLasts
  <2> QED
    BY <1>2, <2>1 DEF CallCause, ResultCause, Denies
<1>3. CASE CacheGet(r)
  <2>1. UNCHANGED cache
    BY <1>3 DEF CacheGet
  <2>2. CASE Cached(key[r]) /\ approval'[r] = CachedResult(key[r])
    <3>1. CASE key[r] \in cache.never
      <4>1. CachedResult(key[r]) = Refused /\ Vetoed(ToolFor(r))
        BY <1>1, <3>1 DEF CachedResult, CauseInv
      <4>2. CallCause(r, Refused)
        BY <4>1, CausesOfResults DEF CallCause, ResultCause
      <4> QED
        BY <1>0, <1>2, <2>1, <2>2, <4>1, <4>2, CauseKept
    <3>2. CASE key[r] \notin cache.never
      <4>1. \A sc \in {"SESSION", "ALWAYS"} : CallCause(r, Granted(sc))
        BY CausesOfResults DEF CallCause, ResultCause, Denies
      <4>2. CallCause(r, CachedResult(key[r]))
        BY <3>2, <4>1 DEF CachedResult
      <4> QED
        BY <1>0, <1>2, <2>1, <2>2, <4>2, CauseKept
    <3> QED
      BY <3>1, <3>2
  <2>3. CASE UNCHANGED approval
    BY <1>0, <2>1, <2>3, CauseKept
  <2> QED
    BY <1>3, <2>2, <2>3 DEF CacheGet
<1>4. CASE CachePut(r)
  <2>1. CallCause(r, outcome[r]) /\ approval'[r] = outcome[r]
    BY <1>4 DEF CachePut, CauseInv
  <2>2. cache'.never \subseteq cache.never \cup (IF outcome[r].scope = "NEVER" THEN {key[r]} ELSE {})
    BY <1>1, <1>4, PutAddsKey DEF CachePut
  <2>3. ASSUME NEW k \in cache'.never \ cache.never PROVE Vetoed(ToolOf[k])'
    <3>1. k = key[r] /\ outcome[r].scope = "NEVER"
      BY <2>2, <2>3
    <3>2. Vetoed(ToolFor(r))
      BY <2>1, <3>1 DEF CallCause, Denies
    <3> QED
      BY <1>1, <3>1, <3>2, CausesLast
  <2> QED
    BY <1>0, <1>2, <2>1, <2>3, CauseKept
<1> QED
  BY <1>3, <1>4

(* A call ends by itself or with the result of the worker it waited for.   *)
LEMMA RuntimeKeepsCause ==
  ASSUME GovInv, CauseInv, [GovNext]_govVars,
         NEW r \in Reqs, EnterRun(r) \/ RuntimeStep(r)
  PROVE  CauseInv'
<1> USE DEF GovInv, GovTypeOK
<1>1. UNCHANGED <<result, approval, stored, cache>>
  BY DEF EnterRun, RuntimeStep, RequestStep, WorkerCleanup, Lookup, AcquireSlot, AcquireGivesUp, Register,
     GiveSlotBack, WaitForResult, Unpublish, WorkerReleases, govOnly
<1>2. ASSUME NEW q \in Reqs, outcome'[q] # outcome[q] PROVE CallCause(q, outcome[q])'
  <2>0. waitOn'[q] = waitOn[q] /\ pc'[q] = "returned"
    BY <1>2 DEF EnterRun, RuntimeStep, RequestStep, WorkerCleanup, Lookup, AcquireSlot, AcquireGivesUp, Register,
       Publish, Join, Return, GiveSlotBack, WaitForResult, Unpublish, WorkerReleases, RtInv, TypeOK
  <2>1. \/ ctx[q] # "live" /\ outcome'[q] = ContextResult(q)
        \/ outcome'[q] = Once("CANCELLED") /\ (shuttingDown \/ (pc[q] = "release" /\ waitOn[q] = NoReq))
        \/ pc[q] = "wait" /\ outcome'[q] = result[waitOn[q]]
    <3>0. ASSUME NEW res, Return(r, res) PROVE q = r /\ outcome'[q] = res
      BY <1>2, <3>0 DEF Return, RtInv, TypeOK
    <3>1. CASE WaitForResult(r)
      BY <1>2, <3>0, <3>1, Zenon DEF WaitForResult
    <3>2. CASE AcquireGivesUp(r) \/ Lookup(r)
      BY <1>2, <3>0, <3>2, Zenon DEF AcquireGivesUp, Lookup
    <3>3. CASE GiveSlotBack(r)
      BY <1>2, <3>0, <3>3, Zenon DEF GiveSlotBack
    <3> QED
      BY <1>2, <3>1, <3>2, <3>3 DEF EnterRun, RuntimeStep, RequestStep, WorkerCleanup, AcquireSlot, Register, Publish,
         Unpublish, WorkerReleases
  <2>2. ASSUME NEW res, CallCause(q, res), outcome'[q] = res PROVE CallCause(q, outcome[q])'
    <3>1. CallCause(q, res)'
      BY <2>0, <2>2, BlameLasts
    <3> QED
      BY <2>2, <3>1 DEF CallCause, ResultCause, Denies
  <2>3. CASE ctx[q] # "live" /\ outcome'[q] = ContextResult(q)
    BY <2>2, <2>3, OwnCause DEF RtInv, TypeOK
  <2>4. CASE outcome'[q] = Once("CANCELLED") /\ (shuttingDown \/ (pc[q] = "release" /\ waitOn[q] = NoReq))
    <3>1. shuttingDown /\ ctx[q] \in CtxStates
      BY <2>4 DEF CauseInv, WorkersLeft, RtInv, TypeOK
    <3> QED
      BY <2>2, <2>4, <3>1, OwnCause
  <2>5. CASE pc[q] = "wait" /\ outcome'[q] = result[waitOn[q]]
    <3>1. waitOn[q] \in Reqs /\ waitOn[q] # NoReq /\ key[waitOn[q]] = key[q]
      BY <2>5, RuntimeAssumption DEF RtInv, PhasesAgree
    <3>2. ToolFor(waitOn[q]) = ToolFor(q)
      BY <3>1 DEF ToolFor
    <3>3. WorkerCause(waitOn[q], result[waitOn[q]])
      BY <3>1 DEF CauseInv
    <3>4. CallCause(q, result[waitOn[q]])
      BY <3>1, <3>2, <3>3 DEF WorkerCause, CallCause
    <3> QED
      BY <2>2, <2>5, <3>4
  <2> QED
    BY <2>1, <2>3, <2>4, <2>5
<1> QED
  BY <1>1, <1>2, CauseKept

(* What the callback makes of the context of the call that started it: if  *)
(* that call has gone, its own end or Shutdown took it away.               *)
LEMMA LateCallback ==
  ASSUME GovInv, CauseInv, NEW w \in Reqs, worker[w] = "running", FnCtx(w) # "live"
  PROVE  WorkerCause(w, FnCtxResult(w))
<1>1. ctx[w] \in CtxStates /\ (call[w] = "done" => pc[w] = "returned")
  BY DEF GovInv, RtInv, TypeOK, PhasesAgree, CauseInv, CallsAgree
<1>2. CASE ctx[w] = "deadline"
  <2>1. FnCtxResult(w) = Once("TIMEOUT")
    BY <1>2 DEF FnCtxResult, FnCtx
  <2>2. FnCtxResult(w).decision = "TIMEOUT" /\ FnCtxResult(w).scope = "ONCE"
    BY <2>1, CausesOfResults
  <2> QED
    BY <1>2, <2>2 DEF WorkerCause, ResultCause, Denies
<1>3. CASE ctx[w] # "deadline"
  <2>1. FnCtxResult(w) = Once("CANCELLED")
    BY <1>3 DEF FnCtxResult, FnCtx
  <2>2. FnCtxResult(w).decision = "CANCELLED" /\ FnCtxResult(w).scope = "ONCE"
    BY <2>1, CausesOfResults
  <2>3. ctx[w] = "cancelled" \/ shuttingDown
    BY <1>1, <1>3 DEF FnCtx, CtxStates, CauseInv, WorkersLeft
  <2> QED
    BY <2>2, <2>3 DEF WorkerCause, ResultCause, Denies
<1> QED
  BY <1>2, <1>3

LEMMA CallbackKeepsCause ==
  ASSUME GovInv, CauseInv, [GovNext]_govVars, NEW w \in Reqs,
         CheckSession(w) \/ CheckManager(w) \/ AnswerReturned(w) \/ HandlerPanics(w)
  PROVE  CauseInv'
<1> USE DEF GovInv, GovTypeOK
<1>1. ToolFor(w) \in Tools /\ ToolFor(w)' = ToolFor(w)
  BY GovernanceAssumption, ConsentLasts DEF ToolFor, RtInv, TypeOK
<1>2. UNCHANGED <<approval, stored, cache>>
  BY DEF CheckSession, CheckManager, AnswerReturned, HandlerPanics
<1>3. CASE UNCHANGED rtVars
  BY <1>2, <1>3, CauseKept DEF rtVars
<1>4. ASSUME NEW res \in Results, WorkerCause(w, res) \/ WorkerCause(w, res)', FnReturns(w, res) PROVE CauseInv'
  BY <1>2, <1>4, BlameLasts, ConclusionKeepsCause
<1>5. ASSUME NEW sc \in {"ONCE", "SESSION", "ALWAYS"}, FnReturns(w, Granted(sc)) PROVE CauseInv'
  <2>1. Granted(sc) \in Results
    BY DEF Granted, Results, Decisions, Scopes
  <2>2. WorkerCause(w, Granted(sc))
    BY CausesOfResults DEF WorkerCause, ResultCause, Denies
  <2> QED
    BY <1>4, <1>5, <2>1, <2>2
<1>6. ASSUME FnReturns(w, Refused), Vetoed(ToolFor(w)) PROVE CauseInv'
  <2>1. Refused \in Results
    BY DEF Refused, Results, Decisions, Scopes
  <2>2. WorkerCause(w, Refused)
    BY <1>6, CausesOfResults DEF WorkerCause, ResultCause
  <2> QED
    BY <1>4, <1>6, <2>1, <2>2
<1>7. ASSUME FnReturns(w, Once("UNAVAILABLE")), ~attended \/ fn'[w] = "panicked" PROVE CauseInv'
  <2>1. Once("UNAVAILABLE") \in Results
    BY DEF Once, Results, Decisions, Scopes
  <2>2. Once("UNAVAILABLE").decision = "UNAVAILABLE" /\ Once("UNAVAILABLE").scope = "ONCE"
    BY CausesOfResults
  <2>3. ~attended' \/ fn'[w] = "panicked"
    BY <1>7, CausesLast
  <2>4. WorkerCause(w, Once("UNAVAILABLE"))'
    BY <2>2, <2>3 DEF WorkerCause, ResultCause, Denies
  <2> QED
    BY <1>4, <1>7, <2>1, <2>4
<1>8. CASE CheckSession(w)
  BY <1>3, <1>5, <1>8 DEF CheckSession, FnConcludes, FnGoesTo
<1>9. CASE CheckManager(w)
  <2>1. CASE stored[ToolFor(w)] \in Standing /\ FnConcludes(w, ResultOf(stored[ToolFor(w)]))
    BY <1>1, <1>5, <1>6, <2>1 DEF Standing, FnConcludes, ResultOf, CauseInv
  <2>2. CASE AskHuman(w)
    <3>1. CASE FnCtx(w) # "live" /\ FnReturns(w, FnCtxResult(w))
      <4>1. FnCtxResult(w) \in Results
        BY ResultsOfLevels
      <4>2. WorkerCause(w, FnCtxResult(w))
        BY <3>1, LateCallback DEF FnReturns
      <4>3. PICK res \in Results : res = FnCtxResult(w)
        BY <4>1
      <4> QED
        BY <1>4, <3>1, <4>2, <4>3
    <3> QED
      BY <1>3, <1>7, <2>2, <3>1 DEF AskHuman, FnConcludes, FnGoesTo
  <2> QED
    BY <1>9, <2>1, <2>2 DEF CheckManager
<1>10. CASE AnswerReturned(w)
  <2>1. level[w] \in Levels /\ fn[w] = "return" /\ FnReturns(w, ResultOf(level[w]))
    BY <1>10 DEF AnswerReturned, FnConcludes, InFn, CallbacksAgree
  <2>2. level[w] = "never" => Vetoed(ToolFor(w))
    BY <2>1 DEF Taken, Vetoed
  <2> QED
    BY <1>5, <1>6, <2>1, <2>2 DEF ResultOf, Levels
<1>11. CASE HandlerPanics(w)
  BY <1>7, <1>11 DEF HandlerPanics, FnPanics
<1> QED
  BY <1>8, <1>9, <1>10, <1>11

LEMMA AnswerKeepsCause ==
  ASSUME GovInv, CauseInv, [GovNext]_govVars, NEW w \in Reqs, NEW l \in Levels, HumanAnswers(w, l)
  PROVE  CauseInv'
<1> USE DEF GovInv, GovTypeOK
<1>1. CASE FnCtx(w) # "live" /\ FnConcludes(w, FnCtxResult(w))
  <2>1. FnReturns(w, FnCtxResult(w)) /\ UNCHANGED <<approval, stored, cache>>
    BY <1>1 DEF FnConcludes, HumanAnswers
  <2>2. WorkerCause(w, FnCtxResult(w))
    BY <1>1, <2>1, LateCallback DEF FnReturns
  <2>3. PICK res \in Results : res = FnCtxResult(w)
    BY ResultsOfLevels
  <2>4. WorkerCause(w, res)'
    BY <2>2, <2>3, BlameLasts
  <2> QED
    BY <1>1, <2>1, <2>3, <2>4, ConclusionKeepsCause
<1>2. CASE FnGoesTo(w, "store")
  <2>1. UNCHANGED <<approval, stored, cache, outcome, result>>
    BY <1>2 DEF HumanAnswers, FnGoesTo, rtVars
  <2> QED
    BY <2>1, CauseKept
<1> QED
  BY <1>1, <1>2 DEF HumanAnswers

LEMMA StoredAnswerKeepsCause ==
  ASSUME GovInv, CauseInv, [GovNext]_govVars, NEW w \in Reqs, StoreAnswer(w)
  PROVE  CauseInv'
<1> USE DEF GovInv, GovTypeOK
<1>1. ToolFor(w) \in Tools /\ (level[w] = "never" => Vetoed(ToolFor(w)))
  BY GovernanceAssumption DEF ToolFor, RtInv, TypeOK, StoreAnswer, InFn, Taken, Vetoed
<1>2. level[w] = "never" => Vetoed(ToolFor(w))'
  BY <1>1, CausesLast, ConsentLasts
<1>3. UNCHANGED <<approval, cache, outcome, result>>
  BY DEF StoreAnswer, FnGoesTo, rtVars
<1>4. \A t \in Tools : stored'[t] # stored[t] /\ stored'[t] = "never" => Vetoed(t)'
  BY <1>1, <1>2, CausesLast DEF StoreAnswer
<1> QED
  BY <1>3, <1>4, CauseKept

LEMMA CauseStep == GovInv /\ CauseInv /\ [GovNext]_govVars => CauseInv'
<1> SUFFICES ASSUME GovInv, CauseInv, [GovNext]_govVars PROVE CauseInv'
  OBVIOUS
<1>1. CASE UNCHANGED <<outcome, result, approval, stored, cache>>
  BY <1>1, CauseKept
<1> QED
  BY <1>1, CacheKeepsCause, RuntimeKeepsCause, CallbackKeepsCause, AnswerKeepsCause,
     StoredAnswerKeepsCause
     DEF GovNext, FnStep, CtxEnds, Shutdown, govOnly, govVars, rtVars

LEMMA CauseInit == GovInit => CauseInv
<1> SUFFICES ASSUME GovInit PROVE CauseInv
  OBVIOUS
<1>1. CallsAgree /\ WorkersLeft
  BY DEF GovInit, Init, CallsAgree, WorkersLeft
<1>2. \A r \in Reqs : WorkerCause(r, NoResult) /\ CallCause(r, NoResult)
  BY NothingNeedsNoCause
<1>3. \A r \in Reqs : result[r] = NoResult /\ outcome[r] = NoResult /\ approval[r] = NoResult
  BY DEF GovInit, Init
<1> QED
  BY <1>1, <1>2, <1>3 DEF GovInit, CauseInv, Vetoed

(* A call that is turned down has a cause of its own or of the call whose  *)
(* worker it waited for: no expiry, panic or refusal reaches a call it has *)
(* nothing to do with, not through the cache either.                       *)
THEOREM DenialHasCauseHolds == GovSpec => []DenialHasCause
<1>1. CauseInv => DenialHasCause
  BY DEF CauseInv, CallCause, ResultCause, Denies, Vetoed, DenialHasCause
<1> QED
  BY <1>1, CauseInit, CauseStep, GovInvariant, PTL DEF GovSpec

==============================================================================

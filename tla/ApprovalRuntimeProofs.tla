------------------------ MODULE ApprovalRuntimeProofs ------------------------
(***************************************************************************)
(* Proofs about ApprovalRuntime for any number of requests, keys and slots. *)
(*                                                                         *)
(* Neither SingleFlight nor SlotsExact is inductive by itself: both rest on *)
(* the agreement between the inflight map and the phases of the workers,   *)
(* which RtInv states.                                                     *)
(***************************************************************************)
EXTENDS ApprovalRuntime, FiniteSetTheorems, TLAPS

(* Control state of requests and workers agree: a request that has not     *)
(* registered has no worker, a request that waits waits for a started      *)
(* worker of its own key, and a worker that closed done stored a result.   *)
PhasesAgree ==
  /\ \A r \in Reqs : pc[r] \in {"idle", "acquire", "register", "release"} => worker[r] = "none"
  /\ \A r \in Reqs : pc[r] \in {"idle", "acquire", "register"} => waitOn[r] = NoReq
  /\ \A r \in Reqs : pc[r] = "wait" \/ (pc[r] = "release" /\ waitOn[r] # NoReq) =>
       /\ waitOn[r] \in Reqs
       /\ key[waitOn[r]] = key[r]
       /\ worker[waitOn[r]] # "none"
  /\ \A w \in Reqs : worker[w] \in {"closed", "deleted", "exited"} => result[w] \in Results

(* The map holds exactly the published workers, each under its own key.    *)
MapAgrees ==
  /\ \A k \in Keys : inflight[k] # NoReq => Published(inflight[k]) /\ key[inflight[k]] = k
  /\ \A w \in Reqs : Published(w) => inflight[key[w]] = w

RtInv == TypeOK /\ PhasesAgree /\ MapAgrees /\ SlotsExact

------------------------------------------------------------------------------
(* The two ways the set of slot holders changes, and one in which it does  *)
(* not: what each step does to its cardinality.                            *)

LEMMA HoldersFinite == IsFiniteSet(SlotHolders) /\ Cardinality(SlotHolders) \in Nat
<1>1. SlotHolders \subseteq Reqs
  BY DEF SlotHolders
<1>2. IsFiniteSet(SlotHolders)
  BY <1>1, RuntimeAssumption, FS_Subset
<1> QED
  BY <1>2, FS_CardinalityType

LEMMA HolderGained ==
  ASSUME NEW r \in Reqs, ~HoldsSlot(r), HoldsSlot(r)',
         \A q \in Reqs \ {r} : HoldsSlot(q)' <=> HoldsSlot(q)
  PROVE  Cardinality(SlotHolders') = Cardinality(SlotHolders) + 1
<1>1. SlotHolders' = SlotHolders \cup {r}
  BY Zenon DEF SlotHolders
<1>2. r \notin SlotHolders
  BY DEF SlotHolders
<1> QED
  BY <1>1, <1>2, HoldersFinite, FS_AddElement

LEMMA HolderLost ==
  ASSUME NEW r \in Reqs, HoldsSlot(r), ~HoldsSlot(r)',
         \A q \in Reqs \ {r} : HoldsSlot(q)' <=> HoldsSlot(q)
  PROVE  /\ Cardinality(SlotHolders') = Cardinality(SlotHolders) - 1
         /\ Cardinality(SlotHolders) > 0
<1>1. SlotHolders' = SlotHolders \ {r}
  BY Zenon DEF SlotHolders
<1>2. r \in SlotHolders
  BY DEF SlotHolders
<1>3. Cardinality(SlotHolders') = Cardinality(SlotHolders) - 1
  BY <1>1, <1>2, HoldersFinite, FS_RemoveElement
<1>4. Cardinality(SlotHolders) # 0
  BY <1>2, HoldersFinite, FS_EmptySet
<1> QED
  BY <1>3, <1>4, HoldersFinite

LEMMA HoldersKept ==
  ASSUME \A q \in Reqs : HoldsSlot(q)' <=> HoldsSlot(q)
  PROVE  SlotHolders' = SlotHolders
  BY Zenon DEF SlotHolders

------------------------------------------------------------------------------
(* RtInv is inductive.                                                     *)

LEMMA RtInit == Init => RtInv
<1> SUFFICES ASSUME Init PROVE RtInv
  OBVIOUS
<1> USE RuntimeAssumption DEF Init
<1>0. sem \in 0 .. MaxInflight
  <2>1. 0 \in 0 .. MaxInflight
    OBVIOUS
  <2> QED
    BY <2>1, Zenon
<1>1. TypeOK
  BY <1>0, Zenon DEF TypeOK, Phases, CtxStates, WorkerPhases
<1>2. PhasesAgree
  BY DEF PhasesAgree
<1>3. MapAgrees
  BY DEF MapAgrees, Published
<1>4. SlotHolders = {}
  BY DEF SlotHolders, HoldsSlot
<1>5. SlotsExact
  BY <1>4, FS_EmptySet DEF SlotsExact
<1> QED
  BY <1>1, <1>2, <1>3, <1>5 DEF RtInv

LEMMA LookupStep ==
  ASSUME RtInv, NEW r \in Reqs, Lookup(r)
  PROVE  RtInv'
<1> USE RuntimeAssumption DEF Lookup, Return, Join, RtInv
<1>1. TypeOK'
  BY DEF TypeOK, Phases, Once, Results, Decisions, Scopes
<1>2. PhasesAgree'
  BY DEF TypeOK, PhasesAgree, MapAgrees, Published
<1>3. MapAgrees'
  BY DEF TypeOK, MapAgrees, Published
<1>4. \A q \in Reqs : HoldsSlot(q)' <=> HoldsSlot(q)
  BY DEF TypeOK, HoldsSlot
<1>5. SlotsExact'
  BY <1>4, HoldersKept DEF SlotsExact
<1> QED
  BY <1>1, <1>2, <1>3, <1>5

LEMMA AcquireSlotStep ==
  ASSUME RtInv, NEW r \in Reqs, AcquireSlot(r)
  PROVE  RtInv'
<1> USE RuntimeAssumption DEF AcquireSlot, RtInv
<1>1. TypeOK'
  BY DEF TypeOK, Phases
<1>2. PhasesAgree'
  BY DEF TypeOK, PhasesAgree
<1>3. MapAgrees'
  BY DEF TypeOK, MapAgrees, Published
<1>4. /\ ~HoldsSlot(r) /\ HoldsSlot(r)'
      /\ \A q \in Reqs \ {r} : HoldsSlot(q)' <=> HoldsSlot(q)
  BY DEF TypeOK, PhasesAgree, HoldsSlot
<1>5. SlotsExact'
  BY <1>4, HolderGained DEF SlotsExact
<1> QED
  BY <1>1, <1>2, <1>3, <1>5

LEMMA AcquireGivesUpStep ==
  ASSUME RtInv, NEW r \in Reqs, AcquireGivesUp(r)
  PROVE  RtInv'
<1> USE RuntimeAssumption DEF AcquireGivesUp, Return, RtInv
<1>1. TypeOK'
  BY DEF TypeOK, Phases, ContextResult, Once, Results, Decisions, Scopes
<1>2. PhasesAgree'
  BY DEF TypeOK, PhasesAgree
<1>3. MapAgrees'
  BY DEF TypeOK, MapAgrees, Published
<1>4. \A q \in Reqs : HoldsSlot(q)' <=> HoldsSlot(q)
  BY DEF TypeOK, HoldsSlot
<1>5. SlotsExact'
  BY <1>4, HoldersKept DEF SlotsExact
<1> QED
  BY <1>1, <1>2, <1>3, <1>5

(* Releasing: under SlotsExact the defensive no-op of releaseSlot is never  *)
(* taken by a holder.                                                      *)
LEMMA ReleaseExact ==
  ASSUME RtInv, ReleaseSlot, NEW r \in Reqs, HoldsSlot(r), ~HoldsSlot(r)',
         \A q \in Reqs \ {r} : HoldsSlot(q)' <=> HoldsSlot(q)
  PROVE  SlotsExact' /\ sem' = sem - 1 /\ sem' \in 0 .. MaxInflight
<1>1. Cardinality(SlotHolders') = Cardinality(SlotHolders) - 1 /\ Cardinality(SlotHolders) > 0
  BY HolderLost
<1>2. sem = Cardinality(SlotHolders) /\ sem \in 0 .. MaxInflight
  BY DEF RtInv, SlotsExact, TypeOK
<1>3. sem' = sem - 1 /\ sem' \in 0 .. MaxInflight
  BY <1>1, <1>2, RuntimeAssumption DEF ReleaseSlot
<1> QED
  BY <1>1, <1>2, <1>3 DEF SlotsExact

LEMMA RegisterStep ==
  ASSUME RtInv, NEW r \in Reqs, Register(r)
  PROVE  RtInv'
<1> USE RuntimeAssumption
<1>1. CASE shuttingDown \/ inflight[key[r]] # NoReq
  <2>1. /\ pc[r] = "register" /\ pc' = [pc EXCEPT ![r] = "release"]
        /\ \/ UNCHANGED waitOn
           \/ inflight[key[r]] # NoReq /\ waitOn' = [waitOn EXCEPT ![r] = inflight[key[r]]]
        /\ UNCHANGED <<key, ctx, outcome, worker, result, inflight, sem, shuttingDown>>
    BY <1>1 DEF Register
  <2> USE <2>1 DEF RtInv
  <2>2. \A q \in Reqs : HoldsSlot(q)' <=> HoldsSlot(q)
    BY DEF TypeOK, HoldsSlot
  <2>3. SlotsExact'
    BY <2>2, HoldersKept DEF SlotsExact
  <2>4. TypeOK'
    BY DEF TypeOK, Phases
  <2>5. PhasesAgree'
    BY DEF TypeOK, PhasesAgree, MapAgrees, Published
  <2>6. MapAgrees'
    BY DEF TypeOK, MapAgrees, Published
  <2> QED
    BY <2>3, <2>4, <2>5, <2>6
<1>2. CASE ~shuttingDown /\ inflight[key[r]] = NoReq
  <2>1. /\ pc[r] = "register" /\ Publish(r)
        /\ UNCHANGED <<key, ctx, result, shuttingDown>>
    BY <1>2 DEF Register
  <2> USE <1>2, <2>1 DEF RtInv, Publish, Join
  <2>2. \A q \in Reqs : HoldsSlot(q)' <=> HoldsSlot(q)
    BY DEF TypeOK, PhasesAgree, HoldsSlot
  <2>3. SlotsExact'
    BY <2>2, HoldersKept DEF SlotsExact
  <2>4. TypeOK'
    BY DEF TypeOK, Phases, WorkerPhases
  <2>5. PhasesAgree'
    BY DEF TypeOK, PhasesAgree
  <2>6. MapAgrees'
    BY DEF TypeOK, MapAgrees, PhasesAgree, Published
  <2> QED
    BY <2>3, <2>4, <2>5, <2>6
<1> QED
  BY <1>1, <1>2

LEMMA GiveSlotBackStep ==
  ASSUME RtInv, NEW r \in Reqs, GiveSlotBack(r)
  PROVE  RtInv'
<1> USE RuntimeAssumption DEF GiveSlotBack, Return, RtInv
<1>1. /\ HoldsSlot(r) /\ ~HoldsSlot(r)'
      /\ \A q \in Reqs \ {r} : HoldsSlot(q)' <=> HoldsSlot(q)
  BY DEF TypeOK, PhasesAgree, HoldsSlot
<1>2. SlotsExact' /\ sem' \in 0 .. MaxInflight
  BY <1>1, ReleaseExact
<1>3. TypeOK'
  BY <1>2 DEF TypeOK, Phases, Once, Results, Decisions, Scopes
<1>4. PhasesAgree'
  BY DEF TypeOK, PhasesAgree
<1>5. MapAgrees'
  BY DEF TypeOK, MapAgrees, Published
<1> QED
  BY <1>2, <1>3, <1>4, <1>5

LEMMA WaitForResultStep ==
  ASSUME RtInv, NEW r \in Reqs, WaitForResult(r)
  PROVE  RtInv'
<1> USE RuntimeAssumption DEF WaitForResult, Return, RtInv
<1>1. TypeOK'
  BY DEF TypeOK, PhasesAgree, Phases, ContextResult, Once, Results, Decisions, Scopes
<1>2. PhasesAgree'
  BY DEF TypeOK, PhasesAgree
<1>3. MapAgrees'
  BY DEF TypeOK, MapAgrees, Published
<1>4. \A q \in Reqs : HoldsSlot(q)' <=> HoldsSlot(q)
  BY DEF TypeOK, HoldsSlot
<1>5. SlotsExact'
  BY <1>4, HoldersKept DEF SlotsExact
<1> QED
  BY <1>1, <1>2, <1>3, <1>5

LEMMA FnReturnsStep ==
  ASSUME RtInv, NEW w \in Reqs, NEW res \in Results, FnReturns(w, res)
  PROVE  RtInv'
<1> USE RuntimeAssumption DEF FnReturns, RtInv
<1>1. TypeOK'
  BY DEF TypeOK, WorkerPhases
<1>2. PhasesAgree'
  BY DEF TypeOK, PhasesAgree
<1>3. MapAgrees'
  BY DEF TypeOK, MapAgrees, Published
<1>4. \A q \in Reqs : HoldsSlot(q)' <=> HoldsSlot(q)
  BY DEF TypeOK, HoldsSlot
<1>5. SlotsExact'
  BY <1>4, HoldersKept DEF SlotsExact
<1> QED
  BY <1>1, <1>2, <1>3, <1>5

LEMMA UnpublishStep ==
  ASSUME RtInv, NEW w \in Reqs, Unpublish(w)
  PROVE  RtInv'
<1> USE RuntimeAssumption DEF Unpublish, RtInv
<1>1. TypeOK'
  BY DEF TypeOK, WorkerPhases
<1>2. PhasesAgree'
  BY DEF TypeOK, PhasesAgree
<1>3. MapAgrees'
  BY DEF TypeOK, MapAgrees, Published
<1>4. \A q \in Reqs : HoldsSlot(q)' <=> HoldsSlot(q)
  BY DEF TypeOK, HoldsSlot
<1>5. SlotsExact'
  BY <1>4, HoldersKept DEF SlotsExact
<1> QED
  BY <1>1, <1>2, <1>3, <1>5

LEMMA WorkerReleasesStep ==
  ASSUME RtInv, NEW w \in Reqs, WorkerReleases(w)
  PROVE  RtInv'
<1> USE RuntimeAssumption DEF WorkerReleases, RtInv
<1>1. /\ HoldsSlot(w) /\ ~HoldsSlot(w)'
      /\ \A q \in Reqs \ {w} : HoldsSlot(q)' <=> HoldsSlot(q)
  BY DEF TypeOK, PhasesAgree, HoldsSlot
<1>2. SlotsExact' /\ sem' \in 0 .. MaxInflight
  BY <1>1, ReleaseExact
<1>3. TypeOK'
  BY <1>2 DEF TypeOK, WorkerPhases
<1>4. PhasesAgree'
  BY DEF TypeOK, PhasesAgree
<1>5. MapAgrees'
  BY DEF TypeOK, MapAgrees, Published
<1> QED
  BY <1>2, <1>3, <1>4, <1>5

LEMMA EnvironmentStep ==
  ASSUME RtInv,
         Shutdown \/ \E r \in Reqs, how \in {"deadline", "cancelled"} : CtxEnds(r, how)
  PROVE  RtInv'
<1> USE RuntimeAssumption DEF Shutdown, CtxEnds, RtInv
<1>1. TypeOK'
  BY DEF TypeOK, CtxStates
<1>2. PhasesAgree'
  BY DEF TypeOK, PhasesAgree
<1>3. MapAgrees'
  BY DEF TypeOK, MapAgrees, Published
<1>4. \A q \in Reqs : HoldsSlot(q)' <=> HoldsSlot(q)
  BY DEF TypeOK, HoldsSlot
<1>5. SlotsExact'
  BY <1>4, HoldersKept DEF SlotsExact
<1> QED
  BY <1>1, <1>2, <1>3, <1>5

LEMMA RtStutter ==
  ASSUME RtInv, UNCHANGED rtVars
  PROVE  RtInv'
  BY DEF rtVars, RtInv, TypeOK, PhasesAgree, MapAgrees, Published, SlotsExact, SlotHolders, HoldsSlot

LEMMA RtNext == RtInv /\ [Next]_rtVars => RtInv'
<1> SUFFICES ASSUME RtInv, [Next]_rtVars PROVE RtInv'
  OBVIOUS
<1>1. ASSUME NEW r \in Reqs, Lookup(r) PROVE RtInv'
  BY <1>1, LookupStep
<1>2. ASSUME NEW r \in Reqs, RequestStep(r) PROVE RtInv'
  BY <1>2, AcquireSlotStep, AcquireGivesUpStep, RegisterStep, GiveSlotBackStep,
      WaitForResultStep DEF RequestStep
<1>3. ASSUME NEW w \in Reqs, WorkerCleanup(w) PROVE RtInv'
  BY <1>3, UnpublishStep, WorkerReleasesStep DEF WorkerCleanup
<1>4. ASSUME NEW w \in Reqs, FnPanics(w) PROVE RtInv'
  <2>1. Once("UNAVAILABLE") \in Results
    BY DEF Once, Results, Decisions, Scopes
  <2> QED
    BY <1>4, <2>1, FnReturnsStep DEF FnPanics
<1>5. ASSUME NEW w \in Reqs, NEW res \in FnResults, FnReturns(w, res) PROVE RtInv'
  BY <1>5, FnReturnsStep, RuntimeAssumption
<1>6. CASE Shutdown \/ \E r \in Reqs, how \in {"deadline", "cancelled"} : CtxEnds(r, how)
  BY <1>6, EnvironmentStep
<1>7. CASE UNCHANGED rtVars
  BY <1>7, RtStutter
<1> QED
  BY <1>1, <1>2, <1>3, <1>4, <1>5, <1>6, <1>7 DEF Next

(* RtInv holds in every reachable state, whatever the number of requests,  *)
(* keys and slots.                                                         *)
THEOREM RtInvariant == Spec => []RtInv
  BY RtInit, RtNext, PTL DEF Spec

------------------------------------------------------------------------------
(* Types, and with them that len(r.sem) stays within its capacity.         *)
THEOREM TypeCorrect == Spec => []TypeOK
<1>1. RtInv => TypeOK
  BY DEF RtInv
<1> QED
  BY <1>1, RtInvariant, PTL

(* Run never starts a second worker for a key while one is published.      *)
THEOREM SingleFlightHolds == Spec => []SingleFlight
<1>1. RtInv => SingleFlight
  BY DEF RtInv, MapAgrees, SingleFlight
<1> QED
  BY <1>1, RtInvariant, PTL

(* The semaphore counts the slot holders exactly, so the defensive no-op   *)
(* in releaseSlot never hides a double release.                            *)
THEOREM SlotsExactHolds == Spec => []SlotsExact
<1>1. RtInv => SlotsExact
  BY DEF RtInv
<1> QED
  BY <1>1, RtInvariant, PTL

(* delete(r.inflight, key) only ever removes the entry of the worker that  *)
(* executes it: the action property follows from the invariant.            *)
THEOREM UnpublishesOnlyItselfHolds == Spec => UnpublishesOnlyItself
<1> DEFINE Only == \A k \in Keys : inflight[k] # NoReq /\ inflight'[k] # inflight[k]
                    => worker[inflight[k]] = "closed" /\ worker'[inflight[k]] = "deleted"
<1>1. RtInv /\ [Next]_rtVars => [Only]_rtVars
  <2> SUFFICES ASSUME RtInv, Next PROVE Only
    OBVIOUS
  <2> USE DEF RtInv
  <2>1. ASSUME NEW r \in Reqs, Register(r) PROVE Only
    BY <2>1 DEF Register, Publish, TypeOK
  <2>2. ASSUME NEW w \in Reqs, Unpublish(w) PROVE Only
    BY <2>2, RuntimeAssumption DEF Unpublish, TypeOK, MapAgrees, Published
  <2>3. CASE UNCHANGED inflight
    BY <2>3
  <2> QED
    BY <2>1, <2>2, <2>3 DEF Next, RequestStep, WorkerCleanup, Lookup, AcquireSlot, AcquireGivesUp,
       GiveSlotBack, WaitForResult, FnReturns, FnPanics, WorkerReleases, CtxEnds, Shutdown
<1> QED
  BY <1>1, RtInvariant, PTL DEF Spec, UnpublishesOnlyItself

(* Whatever a call returns is its own cancellation or timeout, or the      *)
(* stored result of a worker for its own key.  A stored result is final:   *)
(* nothing rewrites it once done is closed, so what was true when the call *)
(* returned stays true.                                                    *)
THEOREM OutcomeIsForOwnKeyHolds == Spec => []OutcomeIsForOwnKey
<1>1. Init => OutcomeIsForOwnKey
  BY DEF Init, OutcomeIsForOwnKey
<1>2. RtInv /\ OutcomeIsForOwnKey /\ [Next]_rtVars => OutcomeIsForOwnKey'
  <2> DEFINE Done == {"closed", "deleted", "exited"}
             Mine(q) == \/ outcome[q] \in {Once("CANCELLED"), Once("TIMEOUT")}
                        \/ \E w \in Reqs : /\ key[w] = key[q]
                                           /\ worker[w] \in Done
                                           /\ outcome[q] = result[w]
  <2> SUFFICES ASSUME RtInv, OutcomeIsForOwnKey, [Next]_rtVars, NEW q \in Reqs, pc'[q] = "returned"
               PROVE  Mine(q)'
    BY DEF OutcomeIsForOwnKey
  <2> USE DEF RtInv
  <2>1. key' = key /\ \A w \in Reqs : worker[w] \in Done => worker'[w] \in Done /\ result'[w] = result[w]
    BY RuntimeAssumption DEF Next, RequestStep, WorkerCleanup, Lookup, AcquireSlot, AcquireGivesUp, Register,
       GiveSlotBack, Publish, WaitForResult, FnReturns, FnPanics, Unpublish, WorkerReleases, CtxEnds, Shutdown, rtVars,
       TypeOK, PhasesAgree
  <2>2. CASE pc[q] = "returned" /\ outcome'[q] = outcome[q]
    BY <2>1, <2>2 DEF OutcomeIsForOwnKey
  <2>3. CASE \E res \in {Once("CANCELLED"), Once("TIMEOUT")} : Return(q, res)
    BY <2>3 DEF Return, TypeOK
  <2>4. CASE WaitForResult(q) /\ worker[waitOn[q]] \in Done /\ Return(q, result[waitOn[q]])
    BY <2>4 DEF WaitForResult, Return, TypeOK, PhasesAgree
  <2>5. ContextResult(q) \in {Once("CANCELLED"), Once("TIMEOUT")}
    BY DEF ContextResult
  <2>6. ASSUME NEW r \in Reqs, Lookup(r) \/ RequestStep(r) PROVE Mine(q)'
    <3>1. CASE r = q
      BY <2>2, <2>3, <2>4, <2>5, <2>6, <3>1 DEF Lookup, RequestStep, AcquireSlot, AcquireGivesUp,
         Register, GiveSlotBack, Publish, WaitForResult, Join, TypeOK
    <3>2. CASE r # q
      <4>1. pc'[q] = pc[q] /\ outcome'[q] = outcome[q]
        BY <2>6, <3>2 DEF Lookup, RequestStep, AcquireSlot, AcquireGivesUp, Register, GiveSlotBack, Publish,
           WaitForResult, Join, Return, TypeOK
      <4> QED
        BY <2>2, <4>1
    <3> QED
      BY <3>1, <3>2
  <2>7. CASE UNCHANGED <<pc, outcome>>
    BY <2>2, <2>7
  <2> QED
    BY <2>6, <2>7 DEF Next, WorkerCleanup, FnReturns, FnPanics, Unpublish, WorkerReleases, CtxEnds,
       Shutdown, rtVars
<1> QED
  BY <1>1, <1>2, RtInvariant, PTL DEF Spec

------------------------------------------------------------------------------
(* What can keep a call waiting.                                           *)

(* The goroutine of call r, or of the worker it started, has a step to     *)
(* take: a critical section or a release that nothing blocks, or a select  *)
(* with a ready case.                                                      *)
Released(r) == ctx[r] # "live" \/ shuttingDown
CanMove(r) ==
  \/ pc[r] = "acquire" /\ (sem < MaxInflight \/ Released(r))
  \/ pc[r] \in {"register", "release"}
  \/ pc[r] = "wait" /\ (worker[waitOn[r]] \in {"closed", "deleted", "exited"} \/ Released(r))
  \/ worker[r] \in {"closed", "deleted"}

(* A call inside the runtime that cannot move waits for the callback of a  *)
(* worker for its own key, or for a slot while every slot is held by a     *)
(* running callback or by somebody who can move: the runtime never stands  *)
(* still by its own doing.                                                 *)
WaitsForSomeone ==
  \A r \in Reqs : pc[r] \notin {"idle", "returned"} /\ ~CanMove(r) =>
    \/ /\ pc[r] = "wait" /\ waitOn[r] \in Reqs
       /\ key[waitOn[r]] = key[r] /\ worker[waitOn[r]] = "running"
    \/ /\ pc[r] = "acquire"
       /\ SlotHolders # {}
       /\ \A q \in SlotHolders : CanMove(q) \/ worker[q] = "running"

(* No slot is lost for good and no wait is left on a worker that is gone:  *)
(* the select of the slot and waitForResult block only on somebody who     *)
(* will still release them (approval_runtime.go 128-201).         *)
THEOREM WaitsForSomeoneHolds == Spec => []WaitsForSomeone
<1>1. RtInv => WaitsForSomeone
  <2> SUFFICES ASSUME RtInv, NEW r \in Reqs, pc[r] \notin {"idle", "returned"}, ~CanMove(r)
               PROVE  \/ /\ pc[r] = "wait" /\ waitOn[r] \in Reqs
                         /\ key[waitOn[r]] = key[r] /\ worker[waitOn[r]] = "running"
                      \/ /\ pc[r] = "acquire"
                         /\ SlotHolders # {}
                         /\ \A q \in SlotHolders : CanMove(q) \/ worker[q] = "running"
    BY DEF WaitsForSomeone
  <2>1. pc[r] \in {"acquire", "wait"}
    BY DEF RtInv, TypeOK, Phases, CanMove
  <2>2. CASE pc[r] = "wait"
    BY <2>2 DEF RtInv, TypeOK, PhasesAgree, WorkerPhases, CanMove
  <2>3. CASE pc[r] = "acquire"
    <3>1. sem = MaxInflight /\ sem = Cardinality(SlotHolders)
      BY <2>3, RuntimeAssumption DEF RtInv, TypeOK, SlotsExact, CanMove
    <3>2. SlotHolders # {}
      BY <3>1, FS_EmptySet, RuntimeAssumption
    <3>3. \A q \in SlotHolders : CanMove(q) \/ worker[q] = "running"
      BY DEF SlotHolders, HoldsSlot, CanMove
    <3> QED
      BY <2>3, <3>2, <3>3
  <2> QED
    BY <2>1, <2>2, <2>3
<1> QED
  BY <1>1, RtInvariant, PTL

------------------------------------------------------------------------------
(* The runtime implements ApprovalService.                                 *)

(* What the mapping needs beyond RtInv: nothing has been given to a call   *)
(* that has not returned, and a worker whose fn runs has no result yet.    *)
NothingEarly ==
  /\ \A r \in Reqs : pc[r] # "returned" => outcome[r] = NoResult
  /\ \A w \in Reqs : worker[w] \in {"none", "running"} => result[w] = NoResult

LEMMA NothingEarlyStep == RtInv /\ NothingEarly /\ [Next]_rtVars => NothingEarly'
<1> SUFFICES ASSUME RtInv, NothingEarly, [Next]_rtVars PROVE NothingEarly'
  OBVIOUS
<1> USE DEF RtInv, TypeOK
<1>1. \A r \in Reqs : pc'[r] # "returned" => outcome'[r] = NoResult
  <2>1. ASSUME NEW q \in Reqs, Lookup(q) \/ RequestStep(q), NEW r \in Reqs, pc'[r] # "returned"
        PROVE  outcome'[r] = NoResult
    BY <2>1 DEF NothingEarly, Lookup, RequestStep, AcquireSlot, AcquireGivesUp, Register, Publish,
       GiveSlotBack, WaitForResult, Join, Return
  <2>2. CASE UNCHANGED <<pc, outcome>>
    BY <2>2 DEF NothingEarly
  <2> QED
    BY <2>1, <2>2 DEF Next, WorkerCleanup, FnReturns, FnPanics, Unpublish, WorkerReleases, CtxEnds,
       Shutdown, rtVars
<1>2. \A w \in Reqs : worker'[w] \in {"none", "running"} => result'[w] = NoResult
  BY RuntimeAssumption DEF NothingEarly, PhasesAgree, Next, RequestStep, WorkerCleanup, Lookup, AcquireSlot,
     AcquireGivesUp, Register, GiveSlotBack, Publish, WaitForResult, FnReturns, FnPanics, Unpublish,
     WorkerReleases, CtxEnds, Shutdown, rtVars
<1> QED
  BY <1>1, <1>2 DEF NothingEarly

Open == {r \in Reqs : Published(r)}

(* A call that holds a slot and has no worker leaves room for a question.  *)
LEMMA RoomToAsk ==
  ASSUME RtInv, NEW r \in Reqs, pc[r] = "register"
  PROVE  Cardinality(Open) < MaxInflight
<1>1. r \in SlotHolders /\ Open \subseteq SlotHolders \ {r}
  BY DEF RtInv, PhasesAgree, Open, Published, SlotHolders, HoldsSlot
<1>2. IsFiniteSet(SlotHolders \ {r}) /\ Cardinality(SlotHolders \ {r}) = Cardinality(SlotHolders) - 1
  BY <1>1, HoldersFinite, FS_RemoveElement
<1>3. Cardinality(Open) <= Cardinality(SlotHolders \ {r}) /\ Cardinality(Open) \in Nat
  BY <1>1, <1>2, FS_Subset, FS_CardinalityType
<1>4. Cardinality(SlotHolders) \in Nat /\ Cardinality(SlotHolders) <= MaxInflight
  BY HoldersFinite, RuntimeAssumption DEF RtInv, SlotsExact, TypeOK
<1> QED
  BY <1>2, <1>3, <1>4, RuntimeAssumption

LEMMA AnswerIsResult == \A a \in Results : a # NoResult
<1>1. \A a \in Results : a.decision \in Decisions
  BY DEF Results
<1>2. NoResult.decision \notin Decisions
  BY DEF NoResult, Decisions
<1> QED
  BY <1>1, <1>2, Zenon

Given == Service!ServiceNext \/ UNCHANGED Service!svcVars

LEMMA AskOrJoin ==
  ASSUME RtInv, NothingEarly, NEW r \in Reqs, Lookup(r) \/ Register(r)
  PROVE  Given
<1> USE DEF RtInv, TypeOK
<1>1. CASE Publish(r) /\ Register(r) /\ ~shuttingDown /\ inflight[key[r]] = NoReq
  <2>1. Open' = Open \cup {r} /\ r \notin Open
    BY <1>1 DEF Open, Published, Publish, Register, PhasesAgree
  <2>2. Cardinality(Open) < MaxInflight
    BY <1>1, RoomToAsk DEF Register
  <2>3. \A q \in Open : key[q] # key[r]
    BY <1>1, RuntimeAssumption DEF Open, MapAgrees
  <2>4. waitOn[r] = NoReq /\ outcome[r] = NoResult
    BY <1>1 DEF Register, PhasesAgree, NothingEarly
  <2>5. waitOn' = [waitOn EXCEPT ![r] = r] /\ UNCHANGED <<key, result, outcome, shuttingDown>>
    BY <1>1 DEF Publish, Register, Join
  <2>6. Service!Ask(r)
    BY <1>1, <2>1, <2>2, <2>3, <2>4, <2>5 DEF Service!Ask, Open, Cardinality, Service!Cardinality
  <2> QED
    BY <2>6 DEF Given, Service!ServiceNext
<1>2. CASE /\ ~shuttingDown /\ pc[r] \in {"idle", "register"} /\ inflight[key[r]] # NoReq
           /\ waitOn' = [waitOn EXCEPT ![r] = inflight[key[r]]]
           /\ UNCHANGED <<key, worker, result, outcome, shuttingDown>>
  <2> DEFINE q == inflight[key[r]]
  <2>1. q \in Open /\ key[q] = key[r] /\ q \in Reqs
    BY <1>2 DEF Open, MapAgrees
  <2>2. waitOn[r] = NoReq /\ outcome[r] = NoResult
    BY <1>2 DEF PhasesAgree, NothingEarly
  <2>3. Open' = Open
    BY <1>2 DEF Open, Published
  <2>4. Service!JoinQuestion(r, q)
    BY <1>2, <2>1, <2>2, <2>3 DEF Service!JoinQuestion, Open
  <2> QED
    BY <2>1, <2>4 DEF Given, Service!ServiceNext
<1>3. CASE /\ pc[r] = "idle" /\ Return(r, Once("CANCELLED"))
           /\ UNCHANGED <<key, worker, result, waitOn, shuttingDown>>
  <2>1. Service!Excuse(r)
    BY <1>3 DEF NothingEarly, Return, Service!Excuse, Service!Give, Published
  <2> QED
    BY <2>1 DEF Given, Service!ServiceNext
<1>4. CASE UNCHANGED <<key, worker, result, waitOn, outcome, shuttingDown>>
  BY <1>4 DEF Given, Service!svcVars, Published
<1> QED
  BY <1>1, <1>2, <1>3, <1>4 DEF Lookup, Register, Join

LEMMA ReturnsToCaller ==
  ASSUME RtInv, NothingEarly, NEW r \in Reqs, AcquireGivesUp(r) \/ GiveSlotBack(r) \/ WaitForResult(r)
  PROVE  Given
<1> USE DEF RtInv, TypeOK
<1>1. UNCHANGED <<key, waitOn, worker, result, shuttingDown>> /\ outcome[r] = NoResult
  BY DEF AcquireGivesUp, GiveSlotBack, WaitForResult, NothingEarly
<1>2. ContextResult(r) \in {Once("CANCELLED"), Once("TIMEOUT")}
  BY DEF ContextResult
<1>3. CASE \E e \in {Once("CANCELLED"), Once("TIMEOUT")} : Return(r, e)
  <2>1. Service!Excuse(r)
    BY <1>1, <1>3 DEF Return, Service!Excuse, Service!Give, Published
  <2> QED
    BY <2>1 DEF Given, Service!ServiceNext
<1>4. CASE WaitForResult(r) /\ worker[waitOn[r]] \in {"closed", "deleted", "exited"}
           /\ Return(r, result[waitOn[r]])
  <2>1. waitOn[r] \in Reqs /\ waitOn[r] # NoReq /\ result[waitOn[r]] \in Results
    BY <1>4, RuntimeAssumption DEF WaitForResult, PhasesAgree
  <2>2. result[waitOn[r]] # NoResult
    BY <2>1, AnswerIsResult
  <2>3. Service!GiveAnswer(r)
    BY <1>1, <1>4, <2>1, <2>2 DEF Return, Service!GiveAnswer, Service!Give, Published
  <2> QED
    BY <2>3 DEF Given, Service!ServiceNext
<1>5. CASE UNCHANGED outcome
  BY <1>1, <1>5 DEF Given, Service!svcVars, Published
<1> QED
  BY <1>2, <1>3, <1>4, <1>5 DEF AcquireGivesUp, GiveSlotBack, WaitForResult

LEMMA WorkerAnswers ==
  ASSUME RtInv, NothingEarly, NEW w \in Reqs, NEW res \in FnResults \cup {Once("UNAVAILABLE")},
         FnReturns(w, res)
  PROVE  Given
<1> USE DEF RtInv, TypeOK
<1>1. Service!Answer(w, res)
  BY DEF FnReturns, NothingEarly, Service!Answer, Published
<1> QED
  BY <1>1 DEF Given, Service!ServiceNext

LEMMA WorkerCloses ==
  ASSUME RtInv, NEW w \in Reqs, Unpublish(w)
  PROVE  Given
<1> USE DEF RtInv, TypeOK
<1>1. Open' = Open \ {w} /\ w \in Open
  BY DEF Open, Published, Unpublish
<1>2. result[w] # NoResult
  BY AnswerIsResult DEF Unpublish, PhasesAgree
<1>3. Service!CloseQuestion(w)
  BY <1>1, <1>2 DEF Unpublish, Service!CloseQuestion, Open
<1> QED
  BY <1>3 DEF Given, Service!ServiceNext

(* A step of the runtime, seen from the service.                           *)
LEMMA RuntimeServes == RtInv /\ NothingEarly /\ [Next]_rtVars => Given
<1> SUFFICES ASSUME RtInv, NothingEarly, [Next]_rtVars PROVE Given
  OBVIOUS
<1>1. ASSUME NEW r \in Reqs, Lookup(r) \/ RequestStep(r) PROVE Given
  <2>1. CASE AcquireSlot(r)
    BY <2>1 DEF AcquireSlot, Given, Service!svcVars, Published
  <2> QED
    BY <1>1, <2>1, AskOrJoin, ReturnsToCaller DEF RequestStep
<1>2. ASSUME NEW w \in Reqs, WorkerCleanup(w) PROVE Given
  <2>1. CASE WorkerReleases(w)
    <3>1. \A q \in Reqs : Published(q)' <=> Published(q)
      BY <2>1 DEF WorkerReleases, Published, RtInv, TypeOK
    <3> QED
      BY <2>1, <3>1 DEF WorkerReleases, Given, Service!svcVars
  <2> QED
    BY <1>2, <2>1, WorkerCloses DEF WorkerCleanup
<1>3. ASSUME NEW w \in Reqs, FnPanics(w) PROVE Given
  BY <1>3, WorkerAnswers DEF FnPanics
<1>4. ASSUME NEW w \in Reqs, NEW res \in FnResults, FnReturns(w, res) PROVE Given
  BY <1>4, WorkerAnswers
<1>5. ASSUME NEW r \in Reqs, NEW how \in {"deadline", "cancelled"}, CtxEnds(r, how) PROVE Given
  BY <1>5 DEF CtxEnds, Given, Service!svcVars, Published
<1>6. CASE Shutdown
  <2>1. Service!StopService
    BY <1>6 DEF Shutdown, Service!StopService, Published
  <2> QED
    BY <2>1 DEF Given, Service!ServiceNext
<1>7. CASE UNCHANGED rtVars
  BY <1>7 DEF rtVars, Given, Service!svcVars, Published
<1> QED
  BY <1>1, <1>2, <1>3, <1>4, <1>5, <1>6, <1>7 DEF Next

(* Every step of the runtime is a step of the service, or invisible in it: *)
(* no interleaving of checks, slots, joins, deadlines and Shutdown asks a  *)
(* question twice at a time, one too many, or one after Shutdown, or gives *)
(* a call an answer to another question.                                   *)
THEOREM ImplementsServiceHolds == Spec => ImplementsService
<1>1. Init => Service!ServiceInit
  BY DEF Init, Service!ServiceInit, Published
<1>2. Init => NothingEarly
  BY DEF Init, NothingEarly
<1> QED
  BY <1>1, <1>2, RuntimeServes, NothingEarlyStep, RtInvariant, PTL
     DEF Spec, Given, ImplementsService, Service!ServiceSpec

==============================================================================

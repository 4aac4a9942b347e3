----------------------- MODULE GovernanceApprovalProofs -----------------------
(***************************************************************************)
(* Proofs about GovernanceApproval for any number of calls, keys, tools    *)
(* and slots.                                                              *)
(*                                                                         *)
(* A step of the composition is a step of the runtime or leaves it alone,  *)
(* so what is proved of the runtime holds here.  The rest follows consent  *)
(* through the places it passes: the human's answer, the permissions, the  *)
(* result of a worker, the outcome of a call, the cache.                   *)
(***************************************************************************)
EXTENDS GovernanceApproval, ApprovalRuntimeProofs

------------------------------------------------------------------------------
(* The composition does with the runtime what the runtime does.            *)

LEMMA ConclusionIsRuntimeStep ==
  ASSUME NEW w \in Reqs, NEW res \in FnAnswers, FnReturns(w, res)
  PROVE  Next
  BY GovernanceAssumption DEF Next

LEMMA ResultsOfLevels ==
  /\ \A l \in Levels : ResultOf(l) \in FnAnswers
  /\ FnAnswers \subseteq Results
  /\ \A w : FnCtxResult(w) \in FnAnswers
  /\ Once("UNAVAILABLE") \in FnAnswers
  /\ Granted("SESSION") \in FnAnswers
<1>1. \A l \in Levels : ResultOf(l) \in FnAnswers
  BY DEF FnAnswers
<1>2. FnAnswers \subseteq Results
  BY GovernanceAssumption, RuntimeAssumption
<1>3. \A w : FnCtxResult(w) \in FnAnswers
  BY DEF FnCtxResult, FnAnswers
<1>4. Once("UNAVAILABLE") \in FnAnswers
  BY DEF FnAnswers
<1>5. Granted("SESSION") \in FnAnswers
  BY <1>1 DEF ResultOf, Levels
<1> QED
  BY <1>1, <1>2, <1>3, <1>4, <1>5

(* A callback starts with its worker, and has the human's answer exactly   *)
(* from the prompt on.                                                     *)
CallbacksAgree ==
  \A w \in Reqs :
    /\ worker[w] = "none" => fn[w] = "session"
    /\ fn[w] \in {"session", "manager", "prompt"} => level[w] = ""
    /\ fn[w] \in {"store", "return"} => level[w] \in Levels

LEMMA GovStepRefinesRuntime ==
  ASSUME GovTypeOK, CallbacksAgree, [GovNext]_govVars
  PROVE  [Next]_rtVars
<1> USE ResultsOfLevels
<1>1. ASSUME NEW r \in Reqs, EnterRun(r) \/ RuntimeStep(r) PROVE Next
  BY <1>1 DEF EnterRun, RuntimeStep, Next
<1>2. ASSUME NEW r \in Reqs, CacheGet(r) \/ CachePut(r) PROVE UNCHANGED rtVars
  BY <1>2 DEF CacheGet, CachePut
<1>3. ASSUME NEW w \in Reqs, CheckSession(w) PROVE [Next]_rtVars
  BY <1>3, ConclusionIsRuntimeStep DEF CheckSession, FnConcludes, FnGoesTo
<1>4. ASSUME NEW w \in Reqs, CheckManager(w) PROVE [Next]_rtVars
  <2>1. CASE stored[ToolFor(w)] \in Standing /\ FnConcludes(w, ResultOf(stored[ToolFor(w)]))
    BY <2>1, ConclusionIsRuntimeStep DEF FnConcludes, Standing, Levels
  <2>2. CASE AskHuman(w)
    BY <2>2, ConclusionIsRuntimeStep DEF AskHuman, FnConcludes, FnGoesTo
  <2> QED
    BY <1>4, <2>1, <2>2 DEF CheckManager
<1>5. ASSUME NEW w \in Reqs, NEW l \in Levels, HumanAnswers(w, l) PROVE [Next]_rtVars
  BY <1>5, ConclusionIsRuntimeStep DEF HumanAnswers, FnConcludes, FnGoesTo
<1>6. ASSUME NEW w \in Reqs, AnswerReturned(w) PROVE [Next]_rtVars
  <2>1. level[w] \in Levels
    BY <1>6 DEF AnswerReturned, InFn, CallbacksAgree
  <2> QED
    BY <1>6, <2>1, ConclusionIsRuntimeStep DEF AnswerReturned, FnConcludes
<1>7. ASSUME NEW w \in Reqs, HandlerPanics(w) PROVE Next
  BY <1>7 DEF HandlerPanics, Next
<1>8. ASSUME NEW w \in Reqs, StoreAnswer(w) PROVE UNCHANGED rtVars
  BY <1>8 DEF StoreAnswer, FnGoesTo
<1> QED
  BY <1>1, <1>2, <1>3, <1>4, <1>5, <1>6, <1>7, <1>8
     DEF GovNext, FnStep, Next, govVars

------------------------------------------------------------------------------
(* Types, and the places of the callbacks.                                 *)

LEMMA PutAddsKey ==
  ASSUME GovTypeOK, NEW k \in Keys, NEW res
  PROVE  /\ PutResult(k, res) \in [session : SUBSET Keys, always : SUBSET Keys, never : SUBSET Keys]
         /\ PutResult(k, res).session \cup PutResult(k, res).always \subseteq
              cache.session \cup cache.always \cup
              (IF res \in {Granted("SESSION"), Granted("ALWAYS")} THEN {k} ELSE {})
         /\ PutResult(k, res).never \subseteq
              cache.never \cup (IF res.scope = "NEVER" THEN {k} ELSE {})
<1> DEFINE s == IF res = Granted("SESSION") THEN cache.session \cup {k} ELSE cache.session
           a == IF res = Granted("ALWAYS") THEN cache.always \cup {k} ELSE cache.always
           n == IF res.scope = "NEVER" THEN cache.never \cup {k} ELSE cache.never
<1>1. /\ cache \in [session : SUBSET Keys, always : SUBSET Keys, never : SUBSET Keys]
      /\ cache.session \in SUBSET Keys /\ cache.always \in SUBSET Keys /\ cache.never \in SUBSET Keys
  BY DEF GovTypeOK
<1>2. s \in SUBSET Keys /\ a \in SUBSET Keys /\ n \in SUBSET Keys
  BY <1>1
<1>3. PutResult(k, res) = [cache EXCEPT !.session = s, !.always = a, !.never = n]
  BY DEF PutResult
<1> HIDE DEF s, a, n
<1>4. PutResult(k, res) = [session |-> s, always |-> a, never |-> n]
  BY <1>1, <1>3
<1>5. PutResult(k, res).session = s /\ PutResult(k, res).always = a /\ PutResult(k, res).never = n
  BY <1>4
<1>6. PutResult(k, res) \in [session : SUBSET Keys, always : SUBSET Keys, never : SUBSET Keys]
  BY <1>2, <1>4
<1>7. /\ s \cup a \subseteq cache.session \cup cache.always \cup
              (IF res \in {Granted("SESSION"), Granted("ALWAYS")} THEN {k} ELSE {})
      /\ n \subseteq cache.never \cup (IF res.scope = "NEVER" THEN {k} ELSE {})
  BY DEF s, a, n
<1> QED
  BY <1>5, <1>6, <1>7

LEMMA GovTypeStep ==
  ASSUME GovTypeOK, RtInv, [GovNext]_govVars
  PROVE  GovTypeOK'
<1> USE DEF GovTypeOK
<1>1. ASSUME NEW r \in Reqs, CacheGet(r) PROVE GovTypeOK'
  <2>1. CachedResult(key[r]) \in Results
    BY DEF CachedResult, Refused, Granted, Results, Decisions, Scopes
  <2> QED
    BY <1>1, <2>1 DEF CacheGet, CallPlaces
<1>2. ASSUME NEW r \in Reqs, CachePut(r) PROVE GovTypeOK'
  <2>1. outcome[r] \in Results \cup {NoResult} /\ key[r] \in Keys
    BY DEF RtInv, TypeOK
  <2>2. cache' \in [session : SUBSET Keys, always : SUBSET Keys, never : SUBSET Keys]
    BY <1>2, <2>1, PutAddsKey DEF CachePut
  <2> QED
    BY <1>2, <2>1, <2>2 DEF CachePut, CallPlaces
<1>3. ASSUME NEW w \in Reqs, CheckSession(w) \/ CheckManager(w) \/ HandlerPanics(w) \/ AnswerReturned(w)
      PROVE  GovTypeOK'
  BY <1>3 DEF CheckSession, CheckManager, AskHuman, HandlerPanics, AnswerReturned, FnConcludes, FnGoesTo, FnPlaces
<1>4. ASSUME NEW w \in Reqs, NEW l \in Levels, HumanAnswers(w, l) PROVE GovTypeOK'
  <2>1. ToolFor(w) \in Tools /\ key[w] \in Keys
    BY GovernanceAssumption DEF ToolFor, RtInv, TypeOK
  <2>2. fn' \in [Reqs -> FnPlaces] /\ level' \in [Reqs -> Levels \cup {""}]
    BY <1>4 DEF HumanAnswers, FnConcludes, FnGoesTo, FnPlaces
  <2>3. settled' \subseteq Keys
    BY <1>4, <2>1 DEF HumanAnswers
  <2> QED
    BY <1>4, <2>2, <2>3 DEF HumanAnswers
<1>5. ASSUME NEW w \in Reqs, StoreAnswer(w) PROVE GovTypeOK'
  <2>1. ToolFor(w) \in Tools
    BY GovernanceAssumption DEF ToolFor, RtInv, TypeOK
  <2>2. fn' \in [Reqs -> FnPlaces] /\ sessionPerms' \subseteq Tools /\ stored' \in [Tools -> Levels]
    BY <1>5, <2>1 DEF StoreAnswer, FnGoesTo, FnPlaces, Levels
  <2> QED
    BY <1>5, <2>2 DEF StoreAnswer
<1>6. CASE UNCHANGED govOnly
  BY <1>6 DEF govOnly
<1> QED
  BY <1>1, <1>2, <1>3, <1>4, <1>5, <1>6 DEF GovNext, FnStep, EnterRun, RuntimeStep, govVars

LEMMA CallbacksStep ==
  ASSUME GovTypeOK, RtInv, CallbacksAgree, [GovNext]_govVars
  PROVE  CallbacksAgree'
<1> USE DEF GovTypeOK, RtInv, TypeOK, CallbacksAgree
<1>1. [Next]_rtVars
  BY GovStepRefinesRuntime
<1>2. \A w \in Reqs : worker'[w] = "none" => worker[w] = "none"
  BY <1>1 DEF Next, RequestStep, WorkerCleanup, Lookup, AcquireSlot, AcquireGivesUp, Register, Publish,
     GiveSlotBack, WaitForResult, FnReturns, FnPanics, Unpublish, WorkerReleases, CtxEnds, Shutdown, rtVars
<1>3. ASSUME NEW w \in Reqs, CheckSession(w) \/ CheckManager(w) \/ HandlerPanics(w) \/ StoreAnswer(w) \/ AnswerReturned(w)
      PROVE  CallbacksAgree'
  BY <1>2, <1>3 DEF CheckSession, CheckManager, AskHuman, HandlerPanics, StoreAnswer, AnswerReturned, FnConcludes, FnGoesTo, InFn
<1>4. ASSUME NEW w \in Reqs, NEW l \in Levels, HumanAnswers(w, l) PROVE CallbacksAgree'
  BY <1>2, <1>4 DEF HumanAnswers, FnConcludes, FnGoesTo, InFn
<1>5. CASE UNCHANGED <<fn, level>>
  BY <1>2, <1>5
<1> QED
  BY <1>3, <1>4, <1>5 DEF GovNext, FnStep, CacheGet, CachePut, EnterRun, RuntimeStep, govOnly, govVars

GovInv == GovTypeOK /\ RtInv /\ NothingEarly /\ CallbacksAgree

LEMMA GovInit_GovInv == GovInit => GovInv
<1> SUFFICES ASSUME GovInit PROVE GovInv
  OBVIOUS
<1>1. RtInv /\ NothingEarly
  BY RtInit DEF GovInit, Init, NothingEarly
<1>2. GovTypeOK
  BY DEF GovInit, GovTypeOK, CallPlaces, FnPlaces
<1>3. CallbacksAgree
  BY DEF GovInit, CallbacksAgree
<1> QED
  BY <1>1, <1>2, <1>3 DEF GovInv

LEMMA GovInvStep == GovInv /\ [GovNext]_govVars => GovInv'
  BY GovStepRefinesRuntime, RtNext, NothingEarlyStep, GovTypeStep, CallbacksStep DEF GovInv

THEOREM GovInvariant == GovSpec => []GovInv
  BY GovInit_GovInv, GovInvStep, PTL DEF GovSpec

(* Types, and with them that the cache and the permissions only ever hold  *)
(* keys and tools of their own kind.                                       *)
THEOREM GovTypeCorrect == GovSpec => []GovTypeOK
<1>1. GovInv => GovTypeOK
  BY DEF GovInv
<1> QED
  BY <1>1, GovInvariant, PTL

(* The human never sees two prompts for one key: a worker at its prompt is *)
(* published, and only one is.                                             *)
THEOREM OnePromptPerKeyHolds == GovSpec => []OnePromptPerKey
<1>1. GovInv => OnePromptPerKey
  BY DEF GovInv, RtInv, MapAgrees, OnePromptPerKey, InFn, Published
<1> QED
  BY <1>1, GovInvariant, PTL

(* However many calls wait, no more than MaxInflight prompts stand before   *)
(* the human at a time: every one of them holds a slot.                    *)
PromptsBounded == Cardinality({w \in Reqs : InFn(w, "prompt")}) <= MaxInflight

(* normalizeMaxInflight and the semaphore bound the prompts themselves, in *)
(* spite of joins, deadlines, panics of the handler and Shutdown, and not  *)
(* only the counter.                                                       *)
THEOREM PromptsBoundedHolds == GovSpec => []PromptsBounded
<1>1. GovInv => PromptsBounded
  <2> SUFFICES ASSUME GovInv PROVE PromptsBounded
    OBVIOUS
  <2> DEFINE Prompts == {w \in Reqs : InFn(w, "prompt")}
  <2>1. Prompts \subseteq SlotHolders
    BY DEF SlotHolders, HoldsSlot, InFn
  <2>2. Cardinality(Prompts) <= Cardinality(SlotHolders) /\ Cardinality(Prompts) \in Nat
    BY <2>1, HoldersFinite, FS_Subset, FS_CardinalityType
  <2>3. Cardinality(SlotHolders) \in 0 .. MaxInflight
    BY DEF GovInv, RtInv, SlotsExact, TypeOK
  <2> QED
    BY <2>2, <2>3, HoldersFinite, RuntimeAssumption DEF PromptsBounded
<1> QED
  BY <1>1, GovInvariant, PTL

(* The runtime keeps its promise with the real callback in it: whatever    *)
(* the permissions, the human and the contexts of the calls do inside fn,  *)
(* RequestHumanApproval sees an ApprovalService.                           *)
THEOREM GovImplementsService == GovSpec => ImplementsService
<1>1. GovInit => Service!ServiceInit
  BY DEF GovInit, Init, Service!ServiceInit, Published
<1>2. GovInv /\ [GovNext]_govVars => Given
  BY GovStepRefinesRuntime, RuntimeServes DEF GovInv
<1> QED
  BY <1>1, <1>2, GovInvariant, PTL DEF GovSpec, Given, ImplementsService, Service!ServiceSpec

------------------------------------------------------------------------------
(* A standing answer settles its key.                                      *)

(* The tool has a standing permission to show.                             *)
Shows(t) == t \in sessionPerms \/ stored[t] \in Standing

(* A settled key has a permission of its tool to show, unless its worker   *)
(* is about to store it, and a callback for it that is already past the    *)
(* session permissions has a stored one.                                   *)
Settling(k) == \E w \in Reqs : InFn(w, "store") /\ key[w] = k /\ level[w] \in Standing

SettledShows ==
  /\ \A k \in settled : Shows(ToolOf[k]) \/ Settling(k)
  /\ \A w \in Reqs : InFn(w, "manager") /\ key[w] \in settled => stored[ToolFor(w)] \in Standing

(* Keys are fixed, and a worker that has stopped running does not start    *)
(* again.                                                                  *)
LEMMA RunsOnce ==
  ASSUME GovInv, [GovNext]_govVars
  PROVE  /\ key' = key
         /\ \A w \in Reqs : worker'[w] = "running" => worker[w] \in {"none", "running"}
<1>1. [Next]_rtVars
  BY GovStepRefinesRuntime DEF GovInv
<1> QED
  BY <1>1 DEF Next, RequestStep, WorkerCleanup, Lookup, AcquireSlot, AcquireGivesUp, Register, Publish, GiveSlotBack,
     WaitForResult, FnReturns, FnPanics, Unpublish, WorkerReleases, CtxEnds, Shutdown, rtVars, GovInv, RtInv, TypeOK,
     PhasesAgree

(* A worker that is about to store the answer stays there until it does.   *)
LEMMA StoreStays ==
  ASSUME GovInv, [GovNext]_govVars, NEW w \in Reqs, InFn(w, "store"), fn'[w] = "store"
  PROVE  InFn(w, "store")' /\ level'[w] = level[w]
<1> USE DEF GovInv, GovTypeOK, RtInv, TypeOK, InFn
<1>1. CASE UNCHANGED <<fn, level>>
  <2>1. ASSUME NEW v \in Reqs, FnStep(v) \/ HandlerPanics(v) \/ \E l \in Levels : HumanAnswers(v, l) PROVE FALSE
    BY <1>1, <2>1 DEF FnStep, CheckSession, CheckManager, AskHuman, StoreAnswer, AnswerReturned, HandlerPanics,
       HumanAnswers, FnConcludes, FnGoesTo
  <2>2. ASSUME NEW r \in Reqs, RequestStep(r) \/ Lookup(r) \/ WorkerCleanup(r) PROVE worker'[w] = "running"
    BY <2>2 DEF RequestStep, WorkerCleanup, Lookup, AcquireSlot, AcquireGivesUp, Register, Publish, GiveSlotBack,
       WaitForResult, Unpublish, WorkerReleases
  <2>3. worker'[w] = "running"
    BY <2>1, <2>2 DEF GovNext, CacheGet, CachePut, EnterRun, RuntimeStep, CtxEnds, Shutdown, govVars, rtVars
  <2> QED
    BY <1>1, <2>3
<1>2. ASSUME NEW v \in Reqs, FnStep(v) \/ HandlerPanics(v) \/ \E l \in Levels : HumanAnswers(v, l)
      PROVE  worker'[w] = worker[w] /\ level'[w] = level[w]
  <2>1. v # w
    BY <1>2 DEF FnStep, CheckSession, CheckManager, AskHuman, StoreAnswer, AnswerReturned, HandlerPanics, HumanAnswers,
       FnConcludes, FnGoesTo
  <2> QED
    BY <1>2, <2>1 DEF FnStep, CheckSession, CheckManager, AskHuman, StoreAnswer, AnswerReturned, HandlerPanics,
       HumanAnswers, FnConcludes, FnGoesTo, FnReturns, FnPanics, rtVars
<1> QED
  BY <1>1, <1>2 DEF GovNext, CacheGet, CachePut, EnterRun, RuntimeStep, govOnly, govVars

(* A step that takes no permission away and no worker from where it stores *)
(* keeps what is settled settled.                                          *)
LEMMA ShowsLast ==
  ASSUME GovInv, SettledShows, [GovNext]_govVars, NEW k \in settled,
         sessionPerms \subseteq sessionPerms',
         \A t \in Tools : stored[t] \in Standing => stored'[t] \in Standing,
         \A w \in Reqs : InFn(w, "store") /\ key[w] = k => fn'[w] = "store" \/ Shows(ToolFor(w))'
  PROVE  (Shows(ToolOf[k]) \/ Settling(k))'
<1>1. ToolOf[k] \in Tools
  BY GovernanceAssumption DEF GovInv, GovTypeOK
<1>2. CASE Shows(ToolOf[k])
  BY <1>1, <1>2 DEF Shows
<1>3. ASSUME NEW w \in Reqs, InFn(w, "store"), key[w] = k, level[w] \in Standing
      PROVE  (Shows(ToolOf[k]) \/ Settling(k))'
  <2>1. key'[w] = k
    BY <1>3, RunsOnce
  <2>2. CASE fn'[w] = "store"
    BY <1>3, <2>1, <2>2, StoreStays DEF Settling
  <2>3. CASE Shows(ToolFor(w))'
    BY <2>1, <2>3 DEF ToolFor, Shows
  <2> QED
    BY <1>3, <2>2, <2>3
<1> QED
  BY <1>2, <1>3 DEF SettledShows, Settling

LEMMA SettledStep == GovInv /\ SettledShows /\ [GovNext]_govVars => SettledShows'
<1> SUFFICES ASSUME GovInv, SettledShows, [GovNext]_govVars PROVE SettledShows'
  OBVIOUS
<1> USE DEF GovInv, GovTypeOK
<1>1. /\ key' = key
      /\ \A w \in Reqs : worker'[w] = "running" => worker[w] \in {"none", "running"}
  BY RunsOnce
<1>2. \A w \in Reqs : key[w] \in Keys /\ ToolFor(w) = ToolOf[key[w]] /\ ToolFor(w) \in Tools
  BY GovernanceAssumption DEF RtInv, TypeOK, ToolFor
<1>3. ASSUME NEW v \in Reqs, NEW w \in Reqs, worker[v] = "running", worker[w] = "running", key[v] = key[w]
      PROVE  v = w
  <2>1. inflight[key[v]] = v /\ inflight[key[w]] = w
    BY <1>3 DEF RtInv, MapAgrees, Published
  <2> QED
    BY <1>3, <2>1
<1>4. ASSUME UNCHANGED <<stored, sessionPerms, settled>>,
             \A v \in Reqs : fn'[v] = "manager" => fn[v] = "manager",
             \A v \in Reqs : InFn(v, "store") => fn'[v] = "store"
      PROVE  SettledShows'
  <2>1. \A k \in settled' : (Shows(ToolOf[k]) \/ Settling(k))'
    BY <1>4, ShowsLast
  <2>2. \A v \in Reqs : InFn(v, "manager")' /\ key'[v] \in settled' => stored'[ToolFor(v)'] \in Standing
    BY <1>1, <1>4 DEF SettledShows, InFn, CallbacksAgree, ToolFor
  <2> QED
    BY <2>1, <2>2 DEF SettledShows
<1>5. ASSUME NEW w \in Reqs, CheckSession(w) PROVE SettledShows'
  <2>1. /\ UNCHANGED <<stored, sessionPerms, settled>>
        /\ \A v \in Reqs : fn'[v] = "manager" =>
             fn[v] = "manager" \/ (v = w /\ ToolFor(w) \notin sessionPerms)
        /\ \A v \in Reqs : InFn(v, "store") => fn'[v] = "store"
        /\ InFn(w, "session")
    BY <1>5 DEF CheckSession, FnConcludes, FnGoesTo, InFn
  <2>2. ASSUME NEW v \in Reqs, InFn(v, "manager")', key'[v] \in settled' PROVE stored'[ToolFor(v)'] \in Standing
    <3>1. CASE fn[v] = "manager"
      BY <1>1, <2>1, <2>2, <3>1 DEF SettledShows, InFn, CallbacksAgree, ToolFor
    <3>2. CASE v = w /\ ToolFor(w) \notin sessionPerms
      <4>1. ~Settling(key[w])
        BY <1>3, <2>1 DEF Settling, InFn
      <4> QED
        BY <1>1, <1>2, <2>1, <2>2, <3>2, <4>1 DEF SettledShows, Shows, ToolFor
    <3> QED
      BY <2>1, <2>2, <3>1, <3>2 DEF InFn
  <2>3. \A k \in settled' : (Shows(ToolOf[k]) \/ Settling(k))'
    BY <2>1, ShowsLast
  <2> QED
    BY <2>2, <2>3 DEF SettledShows
<1>6. ASSUME NEW w \in Reqs, CheckManager(w) \/ AnswerReturned(w) \/ HandlerPanics(w) PROVE SettledShows'
  <2>1. UNCHANGED <<stored, sessionPerms, settled>>
    BY <1>6 DEF CheckManager, AnswerReturned, HandlerPanics
  <2>2. ~InFn(w, "store") /\ \E place \in FnPlaces \ {"manager"} : fn' = [fn EXCEPT ![w] = place]
    BY <1>6 DEF CheckManager, AskHuman, AnswerReturned, HandlerPanics, FnConcludes, FnGoesTo, FnPlaces, InFn
  <2>3. /\ \A v \in Reqs : fn'[v] = "manager" => fn[v] = "manager"
        /\ \A v \in Reqs : InFn(v, "store") => fn'[v] = "store"
    BY <2>2 DEF InFn
  <2> QED
    BY <1>4, <2>1, <2>3
<1>7. ASSUME NEW w \in Reqs, NEW l \in Levels, HumanAnswers(w, l) PROVE SettledShows'
  <2>1. /\ UNCHANGED <<stored, sessionPerms>>
        /\ \A v \in Reqs : fn'[v] = "manager" => fn[v] = "manager" /\ v # w
        /\ \A v \in Reqs : InFn(v, "store") => fn'[v] = "store"
        /\ InFn(w, "prompt")
    BY <1>7 DEF HumanAnswers, FnConcludes, FnGoesTo, InFn
  <2>2. CASE UNCHANGED settled
    BY <1>4, <2>1, <2>2
  <2>3. CASE /\ FnGoesTo(w, "store") /\ level' = [level EXCEPT ![w] = l]
             /\ l \in Standing /\ settled' = settled \cup {key[w]}
    <3>1. Settling(key[w])'
      BY <1>1, <2>1, <2>3 DEF Settling, InFn, FnGoesTo, rtVars
    <3>2. \A k \in settled : (Shows(ToolOf[k]) \/ Settling(k))'
      BY <2>1, ShowsLast
    <3>3. \A k \in settled' : (Shows(ToolOf[k]) \/ Settling(k))'
      BY <1>1, <2>3, <3>1, <3>2
    <3>4. ASSUME NEW v \in Reqs, InFn(v, "manager")', key'[v] \in settled' PROVE stored'[ToolFor(v)'] \in Standing
      <4>1. InFn(v, "manager") /\ v # w
        BY <1>1, <2>1, <3>4 DEF InFn, CallbacksAgree
      <4>2. key[v] \in settled
        BY <1>1, <1>3, <2>1, <2>3, <3>4, <4>1 DEF InFn
      <4> QED
        BY <1>1, <2>1, <4>1, <4>2 DEF SettledShows, ToolFor
    <3> QED
      BY <3>3, <3>4 DEF SettledShows
  <2> QED
    BY <1>7, <2>2, <2>3 DEF HumanAnswers
<1>8. ASSUME NEW w \in Reqs, StoreAnswer(w) PROVE SettledShows'
  <2>1. /\ UNCHANGED settled
        /\ sessionPerms \subseteq sessionPerms'
        /\ \A t \in Tools : stored[t] \in Standing => stored'[t] \in Standing
    BY <1>8 DEF StoreAnswer, Standing
  <2>2. \A v \in Reqs : fn'[v] = "manager" => fn[v] = "manager"
    BY <1>8 DEF StoreAnswer, FnGoesTo
  <2>3. level[w] \in Standing => Shows(ToolFor(w))'
    BY <1>1, <1>2, <1>8 DEF StoreAnswer, Shows, Standing, ToolFor
  <2>4. ASSUME NEW k \in settled PROVE (Shows(ToolOf[k]) \/ Settling(k))'
    <3>1. CASE key[w] = k /\ level[w] \in Standing
      BY <1>1, <1>2, <2>3, <3>1 DEF ToolFor
    <3>2. CASE key[w] = k /\ level[w] \notin Standing
      <4>1. ~Settling(k)
        BY <1>3, <1>8, <3>2 DEF Settling, StoreAnswer, InFn
      <4>2. ToolOf[k] \in Tools
        BY GovernanceAssumption
      <4> QED
        BY <2>1, <2>4, <4>1, <4>2 DEF SettledShows, Shows
    <3>3. CASE key[w] # k
      <4>1. \A v \in Reqs : InFn(v, "store") /\ key[v] = k => fn'[v] = "store"
        BY <1>8, <3>3 DEF StoreAnswer, FnGoesTo, InFn
      <4> QED
        BY <2>1, <2>4, <4>1, ShowsLast
    <3> QED
      BY <3>1, <3>2, <3>3
  <2>5. \A v \in Reqs : InFn(v, "manager")' /\ key'[v] \in settled' => stored'[ToolFor(v)'] \in Standing
    BY <1>1, <1>2, <2>1, <2>2 DEF SettledShows, InFn, CallbacksAgree, ToolFor
  <2> QED
    BY <2>1, <2>4, <2>5 DEF SettledShows
<1>9. CASE UNCHANGED <<fn, stored, sessionPerms, settled>>
  BY <1>4, <1>9 DEF InFn
<1> QED
  BY <1>5, <1>6, <1>7, <1>8, <1>9
     DEF GovNext, FnStep, CacheGet, CachePut, EnterRun, RuntimeStep, govOnly, govVars

(* Nobody is asked about a key again that was given a standing answer,     *)
(* whoever put that answer into the cache, or did not come to it.          *)
THEOREM SettledKeyNotAskedAgainHolds == GovSpec => SettledKeyNotAskedAgain
<1> DEFINE Spared == \A w \in Reqs : ~InFn(w, "prompt") /\ InFn(w, "prompt")' => key[w] \notin settled
<1>1. GovInit => SettledShows
  BY DEF GovInit, SettledShows, InFn
<1>2. GovInv /\ SettledShows /\ [GovNext]_govVars => [Spared]_govVars
  <2> SUFFICES ASSUME GovInv, SettledShows, GovNext, NEW w \in Reqs, ~InFn(w, "prompt"), InFn(w, "prompt")'
               PROVE  key[w] \notin settled
    OBVIOUS
  <2> USE DEF GovInv, GovTypeOK
  <2>1. CASE fn[w] = "prompt"
    BY <2>1, RunsOnce DEF InFn, CallbacksAgree
  <2>2. CASE fn[w] # "prompt"
    <3>1. fn'[w] = "prompt" /\ fn' # fn
      BY <2>2 DEF InFn
    <3>2. ASSUME NEW v \in Reqs, fn' = [fn EXCEPT ![v] = "prompt"] PROVE v = w
      BY <2>2, <3>1, <3>2
    <3>3. ASSUME NEW v \in Reqs, NEW place, fn' = [fn EXCEPT ![v] = place], place # "prompt" PROVE FALSE
      BY <2>2, <3>1, <3>3
    <3>4. \E v \in Reqs : CheckManager(v) /\ stored[ToolFor(v)] = "once" /\ fn' = [fn EXCEPT ![v] = "prompt"]
      BY <3>1, <3>3 DEF GovNext, FnStep, CacheGet, CachePut, EnterRun, RuntimeStep, govOnly, CheckSession, CheckManager,
         AskHuman, StoreAnswer, AnswerReturned, HandlerPanics, HumanAnswers, FnConcludes, FnGoesTo
    <3>5. CheckManager(w) /\ stored[ToolFor(w)] = "once"
      BY <3>2, <3>4
    <3> QED
      BY <3>5 DEF CheckManager, SettledShows, Standing
  <2> QED
    BY <2>1, <2>2
<1> QED
  BY <1>1, <1>2, SettledStep, GovInvariant, PTL DEF GovSpec, SettledKeyNotAskedAgain

------------------------------------------------------------------------------
(* Consent, followed from the human to the call.                           *)

(* The human stands behind tool t for good: by a level stored before the   *)
(* session, or by a standing answer given in it.                           *)
Told(t) ==
  \/ earlier[t] \in {"always", "session"}
  \/ \E w \in Reqs : (Taken(w, "always") \/ Taken(w, "session")) /\ ToolFor(w) = t

StandingGrant(res) == res \in {Granted("SESSION"), Granted("ALWAYS")}

\* What a worker made of it, and what a call was given.
Backed(w, res) ==
  /\ res.decision = "GRANTED" => Told(ToolFor(w)) \/ Taken(w, "once")
  /\ StandingGrant(res) => Told(ToolFor(w))

PassedOn(r, res) ==
  /\ res.decision = "GRANTED" => Told(ToolFor(r)) \/ \E w \in Reqs : waitOn[r] = w /\ Taken(w, "once")
  /\ StandingGrant(res) => Told(ToolFor(r))

CallsAgree ==
  \A r \in Reqs :
    /\ call[r] = "start" => pc[r] = "idle"
    /\ call[r] = "done" => pc[r] \in {"idle", "returned"}
    /\ call[r] # "done" => approval[r] = NoResult

ConsentInv ==
  /\ CallsAgree
  /\ \A t \in sessionPerms : Told(t)
  /\ \A t \in Tools : stored[t] \in {"always", "session"} => Told(t)
  /\ \A k \in cache.session \cup cache.always : Told(ToolOf[k])
  /\ \A w \in Reqs : Backed(w, result[w])
  /\ \A r \in Reqs : PassedOn(r, outcome[r])
  /\ \A r \in Reqs : PassedOn(r, approval[r])

LEMMA NoResultGrantsNothing == NoResult.decision # "GRANTED" /\ ~StandingGrant(NoResult)
<1>1. NoResult.decision # "GRANTED"
  BY DEF NoResult
<1>2. Granted("SESSION").decision = "GRANTED" /\ Granted("ALWAYS").decision = "GRANTED"
  BY DEF Granted
<1> QED
  BY <1>1, <1>2 DEF StandingGrant

LEMMA GrantsOfResults ==
  /\ \A d \in {"TIMEOUT", "CANCELLED", "UNAVAILABLE"} :
       Once(d).decision # "GRANTED" /\ ~StandingGrant(Once(d))
  /\ Refused.decision # "GRANTED" /\ ~StandingGrant(Refused)
  /\ Granted("ONCE").decision = "GRANTED" /\ ~StandingGrant(Granted("ONCE"))
  /\ \A s : Granted(s).decision = "GRANTED"
  /\ StandingGrant(Granted("SESSION")) /\ StandingGrant(Granted("ALWAYS"))
<1>1. \A s : Granted(s).decision = "GRANTED" /\ Granted(s).scope = s
  BY DEF Granted
<1>2. \A d : Once(d).decision = d
  BY DEF Once
<1>3. Refused.decision = "DENIED"
  BY DEF Refused
<1> QED
  BY <1>1, <1>2, <1>3 DEF StandingGrant

(* An answer that was taken is final, so consent is never lost.            *)
LEMMA ConsentLasts ==
  ASSUME GovInv, [GovNext]_govVars
  PROVE  /\ \A w \in Reqs : ToolFor(w)' = ToolFor(w)
         /\ \A w \in Reqs : \A l \in Levels : Taken(w, l) => Taken(w, l)'
         /\ \A t \in Tools : Told(t) => Told(t)'
<1> USE DEF GovInv, GovTypeOK
<1>1. \A w \in Reqs : ToolFor(w)' = ToolFor(w)
  BY RunsOnce DEF ToolFor
<1>2. \A w \in Reqs : fn[w] \in {"store", "return", "over"} => fn'[w] \in {"store", "return", "over"} /\ level'[w] = level[w]
  BY DEF GovNext, FnStep, CacheGet, CachePut, EnterRun, RuntimeStep, govOnly, govVars, CheckSession, CheckManager,
     AskHuman, StoreAnswer, AnswerReturned, HandlerPanics, HumanAnswers, FnConcludes, FnGoesTo, InFn
<1>3. \A w \in Reqs : \A l \in Levels : Taken(w, l) => Taken(w, l)'
  BY <1>2 DEF Taken
<1>4. earlier' = earlier
  BY DEF GovNext, FnStep, CacheGet, CachePut, EnterRun, RuntimeStep, govOnly, govVars, CheckSession, CheckManager,
     StoreAnswer, AnswerReturned, HandlerPanics, HumanAnswers
<1>5. \A t \in Tools : Told(t) => Told(t)'
  BY <1>1, <1>3, <1>4 DEF Told, Levels
<1> QED
  BY <1>1, <1>3, <1>5

LEMMA CallsStep == GovInv /\ CallsAgree /\ [GovNext]_govVars => CallsAgree'
<1> SUFFICES ASSUME GovInv, CallsAgree, [GovNext]_govVars PROVE CallsAgree'
  OBVIOUS
<1> USE DEF GovInv, GovTypeOK, RtInv, TypeOK, CallsAgree
<1>1. ASSUME NEW r \in Reqs, CacheGet(r) \/ CachePut(r) PROVE CallsAgree'
  BY <1>1 DEF CacheGet, CachePut, rtVars
<1>2. ASSUME NEW r \in Reqs, EnterRun(r) PROVE CallsAgree'
  BY <1>2 DEF EnterRun, Lookup, Join, Return, govOnly
<1>3. ASSUME NEW r \in Reqs, RequestStep(r), UNCHANGED govOnly PROVE CallsAgree'
  BY <1>3 DEF RequestStep, AcquireSlot, AcquireGivesUp, Register, Publish, Join, GiveSlotBack, WaitForResult, Return, govOnly
<1>4. CASE UNCHANGED <<pc, call, approval>>
  BY <1>4
<1> QED
  BY <1>1, <1>2, <1>3, <1>4 DEF GovNext, RuntimeStep, WorkerCleanup, Unpublish, WorkerReleases, FnStep, CheckSession,
     CheckManager, AskHuman, StoreAnswer, AnswerReturned, HandlerPanics, HumanAnswers, FnConcludes, FnGoesTo, FnReturns, FnPanics,
     CtxEnds, Shutdown, govOnly, govVars, rtVars

(* A call that was given something stays with the worker it was given by.  *)
LEMMA StaysWithWorker ==
  ASSUME GovInv, CallsAgree, [GovNext]_govVars, NEW r \in Reqs, waitOn'[r] # waitOn[r]
  PROVE  outcome[r] = NoResult /\ approval[r] = NoResult
<1> USE DEF GovInv, GovTypeOK, RtInv, TypeOK
<1>1. ASSUME NEW q \in Reqs, EnterRun(q) PROVE q = r /\ call[r] = "run" /\ pc[r] = "idle"
  BY <1>1 DEF EnterRun, Lookup, Join
<1>2. ASSUME NEW q \in Reqs, RequestStep(q) PROVE q = r /\ pc[r] = "register"
  BY <1>2 DEF RequestStep, AcquireSlot, AcquireGivesUp, Register, Publish, Join, GiveSlotBack, WaitForResult
<1>3. pc[r] \in {"idle", "register"} /\ call[r] # "done"
  BY <1>1, <1>2 DEF CallsAgree, GovNext, CacheGet, CachePut, RuntimeStep, WorkerCleanup, Unpublish, WorkerReleases,
     FnStep, CheckSession, CheckManager, AskHuman, StoreAnswer, AnswerReturned, HandlerPanics, HumanAnswers, FnConcludes, FnGoesTo,
     FnReturns, FnPanics, CtxEnds, Shutdown, govVars, rtVars
<1> QED
  BY <1>3 DEF CallsAgree, NothingEarly

LEMMA ConsentKept ==
  ASSUME GovInv, ConsentInv, [GovNext]_govVars,
         \A t \in sessionPerms' \ sessionPerms : Told(t)',
         \A t \in Tools : stored'[t] # stored[t] /\ stored'[t] \in {"always", "session"} => Told(t)',
         \A k \in (cache.session \cup cache.always)' \ (cache.session \cup cache.always) : Told(ToolOf[k])',
         \A w \in Reqs : result'[w] # result[w] => Backed(w, result[w])',
         \A r \in Reqs : outcome'[r] # outcome[r] => PassedOn(r, outcome[r])',
         \A r \in Reqs : approval'[r] # approval[r] => PassedOn(r, approval[r])'
  PROVE  ConsentInv'
<1> USE ConsentLasts
<1>1. CallsAgree'
  BY CallsStep DEF ConsentInv
<1>2. \A t \in sessionPerms' : Told(t)'
  BY DEF ConsentInv, GovInv, GovTypeOK
<1>3. \A t \in Tools : stored'[t] \in {"always", "session"} => Told(t)'
  BY DEF ConsentInv
<1>4. \A k \in (cache.session \cup cache.always)' : Told(ToolOf[k])'
  <2>1. \A k \in cache.session \cup cache.always : ToolOf[k] \in Tools
    BY GovernanceAssumption DEF GovInv, GovTypeOK
  <2> QED
    BY <2>1 DEF ConsentInv
<1>5. \A r \in Reqs : ToolFor(r) \in Tools
  BY GovernanceAssumption DEF ToolFor, GovInv, RtInv, TypeOK
<1>6. ASSUME NEW w \in Reqs PROVE Backed(w, result[w])'
  <2>1. CASE result'[w] = result[w]
    BY <1>5, <2>1 DEF ConsentInv, Backed, Levels, StandingGrant
  <2> QED
    BY <2>1
<1>7. ASSUME NEW r \in Reqs, NEW res, PassedOn(r, res), waitOn'[r] = waitOn[r] PROVE PassedOn(r, res)'
  BY <1>5, <1>7 DEF PassedOn, Levels, StandingGrant
<1>8. ASSUME NEW r \in Reqs PROVE PassedOn(r, NoResult)'
  BY NoResultGrantsNothing DEF PassedOn, StandingGrant, NoResult, Granted
<1>9. ASSUME NEW r \in Reqs PROVE PassedOn(r, outcome[r])'
  <2>1. CASE outcome'[r] = outcome[r] /\ waitOn'[r] = waitOn[r]
    BY <1>7, <2>1 DEF ConsentInv
  <2>2. CASE outcome'[r] = outcome[r] /\ waitOn'[r] # waitOn[r]
    BY <1>8, <2>2, StaysWithWorker DEF ConsentInv
  <2> QED
    BY <2>1, <2>2
<1>10. ASSUME NEW r \in Reqs PROVE PassedOn(r, approval[r])'
  <2>1. CASE approval'[r] = approval[r] /\ waitOn'[r] = waitOn[r]
    BY <1>7, <2>1 DEF ConsentInv
  <2>2. CASE approval'[r] = approval[r] /\ waitOn'[r] # waitOn[r]
    BY <1>8, <2>2, StaysWithWorker DEF ConsentInv
  <2> QED
    BY <2>1, <2>2
<1> QED
  BY <1>1, <1>2, <1>3, <1>4, <1>6, <1>9, <1>10 DEF ConsentInv

(* The callback concludes with something that is backed.                   *)
LEMMA ConclusionKeepsConsent ==
  ASSUME GovInv, ConsentInv, [GovNext]_govVars, NEW w \in Reqs, NEW res \in Results,
         FnReturns(w, res), Backed(w, res)',
         UNCHANGED <<approval, sessionPerms, stored, cache>>
  PROVE  ConsentInv'
<1>1. /\ result'[w] = res /\ \A v \in Reqs \ {w} : result'[v] = result[v]
      /\ UNCHANGED outcome
  BY DEF FnReturns, GovInv, RtInv, TypeOK
<1>2. \A v \in Reqs : result'[v] # result[v] => Backed(v, result[v])'
  BY <1>1
<1> QED
  BY <1>1, <1>2, ConsentKept

LEMMA CacheKeepsConsent ==
  ASSUME GovInv, ConsentInv, [GovNext]_govVars, NEW r \in Reqs, CacheGet(r) \/ CachePut(r)
  PROVE  ConsentInv'
<1> USE DEF GovInv, GovTypeOK
<1>0. /\ UNCHANGED <<outcome, result, sessionPerms, stored, waitOn, key>>
      /\ \A q \in Reqs : approval'[q] # approval[q] => q = r
  BY DEF CacheGet, CachePut, rtVars
<1>1. key[r] \in Keys /\ ToolFor(r) = ToolOf[key[r]] /\ ToolFor(r) \in Tools
  BY GovernanceAssumption DEF RtInv, TypeOK, ToolFor
<1>2. CASE CacheGet(r)
  <2>1. UNCHANGED cache
    BY <1>2 DEF CacheGet
  <2>2. CASE Cached(key[r]) /\ approval'[r] = CachedResult(key[r])
    <3>1. ASSUME approval'[r] = Refused PROVE PassedOn(r, approval[r])'
      BY <3>1, GrantsOfResults DEF PassedOn
    <3>2. ASSUME key[r] \in cache.session \cup cache.always PROVE PassedOn(r, approval[r])'
      <4>1. Told(ToolFor(r)) /\ ToolFor(r)' = ToolFor(r)
        BY <1>1, <3>2, ConsentLasts DEF ConsentInv
      <4>2. Told(ToolFor(r))'
        BY <1>1, <4>1, ConsentLasts
      <4> QED
        BY <4>2 DEF PassedOn
    <3>3. PassedOn(r, approval[r])'
      BY <2>2, <3>1, <3>2 DEF Cached, CachedResult
    <3> QED
      BY <1>0, <2>1, <3>3, ConsentKept
  <2>3. CASE UNCHANGED approval
    BY <1>0, <2>1, <2>3, ConsentKept
  <2> QED
    BY <1>2, <2>2, <2>3 DEF CacheGet
<1>3. CASE CachePut(r)
  <2>1. PassedOn(r, outcome[r])'
    BY <1>0, <1>1, ConsentLasts DEF ConsentInv, PassedOn, Levels, StandingGrant
  <2>2. approval'[r] = outcome'[r]
    BY <1>0, <1>3 DEF CachePut
  <2>3. PassedOn(r, approval[r])'
    BY <2>1, <2>2 DEF PassedOn
  <2>4. (cache.session \cup cache.always)' \subseteq
          cache.session \cup cache.always \cup (IF StandingGrant(outcome[r]) THEN {key[r]} ELSE {})
    BY <1>1, <1>3, PutAddsKey DEF CachePut, StandingGrant
  <2>5. ASSUME NEW k \in (cache.session \cup cache.always)' \ (cache.session \cup cache.always)
        PROVE  Told(ToolOf[k])'
    <3>1. k = key[r] /\ StandingGrant(outcome[r])
      BY <2>4, <2>5
    <3>2. Told(ToolFor(r))
      BY <3>1 DEF ConsentInv, PassedOn
    <3>3. Told(ToolOf[k]) /\ ToolOf[k] \in Tools
      BY <1>1, <3>1, <3>2
    <3> QED
      BY <3>3, ConsentLasts
  <2> QED
    BY <1>0, <2>3, <2>5, ConsentKept
<1> QED
  BY <1>2, <1>3

LEMMA RuntimeKeepsConsent ==
  ASSUME GovInv, ConsentInv, [GovNext]_govVars,
         NEW r \in Reqs, EnterRun(r) \/ RuntimeStep(r)
  PROVE  ConsentInv'
<1> USE DEF GovInv, GovTypeOK
<1>1. UNCHANGED <<result, approval, sessionPerms, stored, cache, level, fn, earlier, key>>
  BY DEF EnterRun, RuntimeStep, RequestStep, WorkerCleanup, Lookup, AcquireSlot, AcquireGivesUp, Register,
     GiveSlotBack, WaitForResult, Unpublish, WorkerReleases, govOnly
<1>2. ASSUME NEW q \in Reqs, outcome'[q] # outcome[q] PROVE PassedOn(q, outcome[q])'
  <2>1. \/ outcome'[q] \in {Once("CANCELLED"), Once("TIMEOUT")}
        \/ /\ pc[q] = "wait"
           /\ waitOn'[q] = waitOn[q]
           /\ outcome'[q] = result[waitOn[q]]
    <3>0. ASSUME NEW res, Return(r, res) PROVE q = r /\ outcome'[q] = res
      BY <1>2, <3>0 DEF Return, RtInv, TypeOK
    <3>1. CASE WaitForResult(r)
      BY <1>2, <3>0, <3>1 DEF WaitForResult, ContextResult
    <3>2. CASE AcquireGivesUp(r) \/ GiveSlotBack(r) \/ Lookup(r)
      BY <1>2, <3>0, <3>2 DEF AcquireGivesUp, GiveSlotBack, Lookup, ContextResult
    <3> QED
      BY <1>2, <3>1, <3>2 DEF EnterRun, RuntimeStep, RequestStep, WorkerCleanup, AcquireSlot, Register, Publish,
         Unpublish, WorkerReleases
  <2>2. CASE outcome'[q] \in {Once("CANCELLED"), Once("TIMEOUT")}
    BY <2>2, GrantsOfResults DEF PassedOn
  <2>3. CASE pc[q] = "wait" /\ waitOn'[q] = waitOn[q] /\ outcome'[q] = result[waitOn[q]]
    <3>1. waitOn[q] \in Reqs /\ key[waitOn[q]] = key[q]
      BY <2>3 DEF RtInv, PhasesAgree
    <3>2. ToolFor(waitOn[q]) = ToolFor(q) /\ ToolFor(q) \in Tools
      BY <3>1, GovernanceAssumption DEF ToolFor, RtInv, TypeOK
    <3>3. Backed(waitOn[q], outcome'[q])
      BY <2>3, <3>1 DEF ConsentInv
    <3> QED
      BY <2>3, <3>1, <3>2, <3>3, ConsentLasts DEF Backed, PassedOn, Levels
  <2> QED
    BY <2>1, <2>2, <2>3
<1> QED
  BY <1>1, <1>2, ConsentKept

LEMMA CallbackKeepsConsent ==
  ASSUME GovInv, ConsentInv, [GovNext]_govVars, NEW w \in Reqs,
         CheckSession(w) \/ CheckManager(w) \/ AnswerReturned(w) \/ HandlerPanics(w)
  PROVE  ConsentInv'
<1> USE DEF GovInv, GovTypeOK
<1>1. ToolFor(w) \in Tools /\ Told(ToolFor(w)) => Told(ToolFor(w))'
  BY ConsentLasts
<1>2. ToolFor(w) \in Tools /\ ToolFor(w)' = ToolFor(w)
  BY GovernanceAssumption, ConsentLasts DEF ToolFor, RtInv, TypeOK
<1>3. UNCHANGED <<approval, sessionPerms, stored, cache>>
  BY DEF CheckSession, CheckManager, AnswerReturned, HandlerPanics
<1>4. CASE UNCHANGED rtVars
  BY <1>3, <1>4, ConsentKept DEF rtVars
<1>5. ASSUME NEW d \in {"TIMEOUT", "CANCELLED", "UNAVAILABLE"}, FnReturns(w, Once(d)) PROVE ConsentInv'
  <2>1. Once(d) \in Results
    BY DEF Once, Results, Decisions, Scopes
  <2>2. Backed(w, Once(d))'
    BY GrantsOfResults DEF Backed
  <2> QED
    BY <1>3, <1>5, <2>1, <2>2, ConclusionKeepsConsent
<1>6. ASSUME FnReturns(w, Refused) PROVE ConsentInv'
  <2>1. Refused \in Results
    BY DEF Refused, Results, Decisions, Scopes
  <2>2. Backed(w, Refused)'
    BY GrantsOfResults DEF Backed
  <2> QED
    BY <1>3, <1>6, <2>1, <2>2, ConclusionKeepsConsent
<1>7. ASSUME NEW sc \in {"ONCE", "SESSION", "ALWAYS"}, FnReturns(w, Granted(sc)),
             Told(ToolFor(w)) \/ (sc = "ONCE" /\ Taken(w, "once")')
      PROVE  ConsentInv'
  <2>1. Granted(sc) \in Results
    BY DEF Granted, Results, Decisions, Scopes
  <2>2. Backed(w, Granted(sc))'
    BY <1>1, <1>2, <1>7, GrantsOfResults DEF Backed
  <2> QED
    BY <1>3, <1>7, <2>1, <2>2, ConclusionKeepsConsent
<1>8. CASE CheckSession(w)
  BY <1>4, <1>7, <1>8 DEF CheckSession, FnConcludes, FnGoesTo, ConsentInv
<1>9. CASE CheckManager(w)
  <2>1. CASE stored[ToolFor(w)] \in Standing /\ FnConcludes(w, ResultOf(stored[ToolFor(w)]))
    BY <1>2, <1>6, <1>7, <2>1 DEF Standing, FnConcludes, ResultOf, ConsentInv
  <2>2. CASE AskHuman(w)
    BY <1>4, <1>5, <2>2 DEF AskHuman, FnConcludes, FnGoesTo, FnCtxResult
  <2> QED
    BY <1>9, <2>1, <2>2 DEF CheckManager
<1>10. CASE AnswerReturned(w)
  <2>1. level[w] \in Levels /\ fn[w] = "return" /\ FnReturns(w, ResultOf(level[w]))
    BY <1>10 DEF AnswerReturned, FnConcludes, InFn, CallbacksAgree
  <2>2. Taken(w, level[w])
    BY <2>1 DEF Taken
  <2>3. level[w] \in {"always", "session"} => Told(ToolFor(w))
    BY <2>2 DEF Told
  <2>4. level[w] = "once" => Taken(w, "once")'
    BY <2>2, ConsentLasts DEF Levels
  <2> QED
    BY <1>6, <1>7, <2>1, <2>3, <2>4 DEF ResultOf, Levels
<1>11. CASE HandlerPanics(w)
  BY <1>5, <1>11 DEF HandlerPanics, FnPanics
<1> QED
  BY <1>8, <1>9, <1>10, <1>11

LEMMA AnswerKeepsConsent ==
  ASSUME GovInv, ConsentInv, [GovNext]_govVars, NEW w \in Reqs, NEW l \in Levels, HumanAnswers(w, l)
  PROVE  ConsentInv'
<1> USE DEF GovInv, GovTypeOK
<1>1. CASE FnConcludes(w, FnCtxResult(w))
  <2>1. FnCtxResult(w) \in {Once("TIMEOUT"), Once("CANCELLED")} /\ FnCtxResult(w) \in Results
    BY ResultsOfLevels DEF FnCtxResult
  <2>2. /\ Backed(w, FnCtxResult(w)) /\ FnReturns(w, FnCtxResult(w))
        /\ UNCHANGED <<approval, sessionPerms, stored, cache>>
    BY <1>1, <2>1, GrantsOfResults DEF Backed, HumanAnswers, FnConcludes
  <2>3. PICK res \in Results : res = FnCtxResult(w)
    BY <2>1
  <2>4. Backed(w, res)'
    BY <2>1, <2>3, GrantsOfResults DEF Backed
  <2> QED
    BY <1>1, <2>2, <2>3, <2>4, ConclusionKeepsConsent
<1>2. CASE FnGoesTo(w, "store")
  <2>1. UNCHANGED <<approval, sessionPerms, stored, cache, outcome, result>>
    BY <1>2 DEF HumanAnswers, FnGoesTo, rtVars
  <2> QED
    BY <2>1, ConsentKept
<1> QED
  BY <1>1, <1>2 DEF HumanAnswers

(* What is stored for the tool is the answer that was taken.               *)
LEMMA StoredAnswerKeepsConsent ==
  ASSUME GovInv, ConsentInv, [GovNext]_govVars, NEW w \in Reqs, StoreAnswer(w)
  PROVE  ConsentInv'
<1> USE DEF GovInv, GovTypeOK
<1>1. level[w] \in Levels /\ Taken(w, level[w])
  BY DEF StoreAnswer, InFn, CallbacksAgree, Taken
<1>2. ToolFor(w) \in Tools /\ ToolFor(w)' = ToolFor(w)
  BY GovernanceAssumption, ConsentLasts DEF ToolFor, RtInv, TypeOK
<1>3. level[w] \in {"always", "session"} => Told(ToolFor(w))'
  BY <1>1, <1>2, ConsentLasts DEF Told
<1>4. UNCHANGED <<approval, cache, outcome, result>>
  BY DEF StoreAnswer, FnGoesTo, rtVars
<1>5. \A t \in sessionPerms' \ sessionPerms : Told(t)'
  BY <1>2, <1>3 DEF StoreAnswer
<1>6. \A t \in Tools : stored'[t] # stored[t] /\ stored'[t] \in {"always", "session"} => Told(t)'
  BY <1>2, <1>3 DEF StoreAnswer
<1> QED
  BY <1>4, <1>5, <1>6, ConsentKept

LEMMA ConsentStep == GovInv /\ ConsentInv /\ [GovNext]_govVars => ConsentInv'
<1> SUFFICES ASSUME GovInv, ConsentInv, [GovNext]_govVars PROVE ConsentInv'
  OBVIOUS
<1>1. CASE UNCHANGED <<outcome, result, approval, sessionPerms, stored, cache>>
  BY <1>1, ConsentKept
<1> QED
  BY <1>1, CacheKeepsConsent, RuntimeKeepsConsent, CallbackKeepsConsent, AnswerKeepsConsent,
     StoredAnswerKeepsConsent
     DEF GovNext, FnStep, CtxEnds, Shutdown, govOnly, govVars, rtVars

(* A grant has the human behind it: neither the cache, nor joining the     *)
(* worker of another call, nor an answer after the context had ended       *)
(* grants anything that was not given.                                     *)
THEOREM GrantHasConsentHolds == GovSpec => []GrantHasConsent
<1>1. GovInit => ConsentInv
  <2> SUFFICES ASSUME GovInit PROVE ConsentInv
    OBVIOUS
  <2>1. CallsAgree
    BY DEF GovInit, Init, CallsAgree
  <2>2. \A r \in Reqs : Backed(r, NoResult) /\ PassedOn(r, NoResult)
    BY NoResultGrantsNothing DEF Backed, PassedOn
  <2> QED
    BY <2>1, <2>2 DEF GovInit, Init, ConsentInv, Told
<1>2. ConsentInv => GrantHasConsent
  BY DEF ConsentInv, PassedOn, Told, GrantHasConsent
<1> QED
  BY <1>1, <1>2, ConsentStep, GovInvariant, PTL DEF GovSpec

==============================================================================

------------------------ MODULE BackgroundAgentsProofs ------------------------
(***************************************************************************)
(* Proofs about BackgroundAgents for any number of agents and slots.       *)
(***************************************************************************)
EXTENDS BackgroundAgents, FiniteSetTheorems, TLAPS

Holders == {a \in Agents : HoldsSlot(a)}

(* How far the goroutine of an agent has come tells what it has recorded.  *)
(* From the first store of the result on the status is final: Cancel only  *)
(* changes agents that are pending or running.                             *)
Reported(a) ==
  /\ outcome[a] \in {"text", "error", "ctx"}
  /\ outcome[a] = "ctx" => status[a] = "Cancelled"
  /\ outcome[a] # "ctx" => status[a] = FinalStatus(a) /\ stored[a] = outcome[a]

GoroutineAgrees(a) ==
  /\ status[a] = "none" <=> gor[a] = "none"
  /\ gor[a] \notin {"defers", "ended"} => told[a] = "none"
  /\ gor[a] \in {"record", "store"} => outcome[a] \in {"text", "error"}
  /\ gor[a] = "store" => lock = a /\ status[a] = FinalStatus(a)
  /\ gor[a] \in {"tell", "defers", "ended"} => Reported(a)
  /\ gor[a] \in {"defers", "ended"} => told[a] = outcome[a]
  /\ gor[a] = "defers" => outcome[a] # "ctx"

GoroutinesAgree == \A a \in Agents : GoroutineAgrees(a)

BgInv == BgTypeOK /\ GoroutinesAgree /\ AgentSlotsExact

------------------------------------------------------------------------------
(* The set of slot holders, as in ApprovalRuntimeProofs.                   *)

LEMMA HoldersFinite == IsFiniteSet(Holders) /\ Cardinality(Holders) \in Nat
<1>1. Holders \subseteq Agents
  BY DEF Holders
<1>2. IsFiniteSet(Holders)
  BY <1>1, AgentsAssumption, FS_Subset
<1> QED
  BY <1>2, FS_CardinalityType

LEMMA SlotTaken ==
  ASSUME AgentSlotsExact, NEW a \in Agents, ~HoldsSlot(a), HoldsSlot(a)', sem' = sem + 1,
         \A b \in Agents \ {a} : HoldsSlot(b)' <=> HoldsSlot(b)
  PROVE  AgentSlotsExact'
<1>1. Holders' = Holders \cup {a} /\ a \notin Holders
  BY Zenon DEF Holders
<1>2. Cardinality(Holders') = Cardinality(Holders) + 1
  BY <1>1, HoldersFinite, FS_AddElement
<1> QED
  BY <1>2 DEF AgentSlotsExact, Holders

LEMMA SlotGiven ==
  ASSUME AgentSlotsExact, NEW a \in Agents, HoldsSlot(a), ~HoldsSlot(a)', sem' = sem - 1,
         \A b \in Agents \ {a} : HoldsSlot(b)' <=> HoldsSlot(b)
  PROVE  AgentSlotsExact'
<1>1. Holders' = Holders \ {a} /\ a \in Holders
  BY Zenon DEF Holders
<1>2. Cardinality(Holders') = Cardinality(Holders) - 1
  BY <1>1, HoldersFinite, FS_RemoveElement
<1> QED
  BY <1>2 DEF AgentSlotsExact, Holders

LEMMA SlotsKept ==
  ASSUME AgentSlotsExact, sem' = sem, \A a \in Agents : HoldsSlot(a)' <=> HoldsSlot(a)
  PROVE  AgentSlotsExact'
<1>1. Holders' = Holders
  BY Zenon DEF Holders
<1> QED
  BY <1>1 DEF AgentSlotsExact, Holders

------------------------------------------------------------------------------
(* BgInv is inductive.                                                     *)

LEMMA BgInitInv == BgInit => BgInv
<1> SUFFICES ASSUME BgInit PROVE BgInv
  OBVIOUS
<1>1. sem \in 0 .. MaxConcurrent
  <2>1. 0 \in 0 .. MaxConcurrent
    BY AgentsAssumption
  <2> QED
    BY <2>1 DEF BgInit
<1>2. BgTypeOK
  BY <1>1 DEF BgInit, BgTypeOK, Statuses, GorPhases
<1>3. GoroutinesAgree
  BY DEF BgInit, GoroutinesAgree, GoroutineAgrees
<1>4. Holders = {} /\ sem = 0
  BY DEF BgInit, Holders, HoldsSlot
<1>5. AgentSlotsExact
  BY <1>4, FS_EmptySet DEF AgentSlotsExact, Holders
<1> QED
  BY <1>2, <1>3, <1>5 DEF BgInv

LEMMA BgTypeStep == BgInv /\ [BgNext]_bgVars => BgTypeOK'
<1> SUFFICES ASSUME BgInv, [BgNext]_bgVars PROVE BgTypeOK'
  OBVIOUS
<1> USE DEF BgInv, BgTypeOK, Statuses, GorPhases, colVars, gorVars
<1>1. ASSUME NEW a \in Agents, AgentStep(a) PROVE BgTypeOK'
  <2>1. CASE AcquireSlot(a)
    <3>1. sem' \in 0 .. MaxConcurrent
      BY <2>1, AgentsAssumption DEF AcquireSlot
    <3> QED
      BY <2>1, <3>1, Zenon DEF AcquireSlot
  <2>2. CASE ReleaseSlot(a)
    <3>1. sem' \in 0 .. MaxConcurrent
      BY <2>2, AgentsAssumption DEF ReleaseSlot
    <3> QED
      BY <2>2, <3>1, Zenon DEF ReleaseSlot
  <2>3. CASE AcquireCancelled(a)
    BY <2>3, Zenon DEF AcquireCancelled
  <2>4. CASE MarkRunning(a)
    BY <2>4, Zenon DEF MarkRunning
  <2>5. CASE RecordStatus(a)
    <3>1. FinalStatus(a) \in Statuses
      BY DEF FinalStatus
    <3> QED
      BY <2>5, <3>1, Zenon DEF RecordStatus
  <2>6. CASE RecordResult(a)
    <3>1. outcome[a] \in {"nothing", "text", "error"}
      BY <2>6 DEF RecordResult, GoroutinesAgree, GoroutineAgrees
    <3> QED
      BY <2>6, <3>1, Zenon DEF RecordResult
  <2>7. CASE Tell(a)
    BY <2>7, Zenon DEF Tell
  <2> QED
    BY <1>1, <2>1, <2>2, <2>3, <2>4, <2>5, <2>6, <2>7 DEF AgentStep
<1>2. ASSUME NEW a \in Agents, Spawn(a) \/ GenerateReturns(a) \/ Cancel(a) \/ CtxEnds(a) \/ CollectCtxEnds(a)
      PROVE  BgTypeOK'
  <2>1. \A st \in Statuses : CancelledStatus(st) \in Statuses
    BY DEF CancelledStatus
  <2>2. CASE Spawn(a)
    BY <2>2, Zenon DEF Spawn
  <2>5. CASE CtxEnds(a)
    BY <2>5, Zenon DEF CtxEnds
  <2>6. CASE CollectCtxEnds(a)
    BY <2>6, Zenon DEF CollectCtxEnds
  <2>3. CASE GenerateReturns(a)
    <3>1. PICK out \in {"text", "error"} : outcome' = [outcome EXCEPT ![a] = out]
      BY <2>3 DEF GenerateReturns
    <3> QED
      BY <2>3, <3>1, Zenon DEF GenerateReturns
  <2>4. CASE Cancel(a)
    BY <2>1, <2>4, Zenon DEF Cancel
  <2> QED
    BY <1>2, <2>2, <2>3, <2>4, <2>5, <2>6
<1>3. ASSUME NEW a \in Agents, CollectStarts(a) \/ CollectStep(a) PROVE BgTypeOK'
  BY <1>3 DEF CollectStarts, CollectStep, CollectReads, CollectReadsValue, CollectGivesUp, CollectReturns, gorVars
<1>4. CASE CancelAll
  BY <1>4 DEF CancelAll, CancelledStatus, Statuses, colVars
<1>5. CASE UNCHANGED bgVars
  BY <1>5 DEF bgVars, gorVars, colVars
<1> QED
  BY <1>1, <1>2, <1>3, <1>4, <1>5 DEF BgNext

\* Each agent other than the one that moves keeps what it had.
LEMMA OthersAgree ==
  ASSUME BgInv, NEW a \in Agents, GoroutineAgrees(a)',
         \A b \in Agents \ {a} : /\ status'[b] = status[b] /\ gor'[b] = gor[b] /\ outcome'[b] = outcome[b]
                                 /\ stored'[b] = stored[b] /\ told'[b] = told[b]
                                 /\ lock' = lock \/ lock # b
  PROVE  GoroutinesAgree'
  BY DEF BgInv, GoroutinesAgree, GoroutineAgrees, Reported, FinalStatus

LEMMA AgreeStep ==
  ASSUME BgInv, [BgNext]_bgVars
  PROVE  GoroutinesAgree'
<1> USE DEF BgInv, BgTypeOK
<1>1. ASSUME NEW a \in Agents, Spawn(a) \/ AcquireSlot(a) \/ AcquireCancelled(a) \/ MarkRunning(a)
      PROVE  GoroutinesAgree'
  <2>1. GoroutineAgrees(a)'
    BY <1>1 DEF Spawn, AcquireSlot, AcquireCancelled, MarkRunning, GoroutinesAgree, GoroutineAgrees, Reported
  <2> QED
    BY <1>1, <2>1, OthersAgree DEF Spawn, AcquireSlot, AcquireCancelled, MarkRunning
<1>2. ASSUME NEW a \in Agents, GenerateReturns(a) PROVE GoroutinesAgree'
  <2>1. GoroutineAgrees(a)'
    BY <1>2 DEF GenerateReturns, GoroutinesAgree, GoroutineAgrees
  <2> QED
    BY <1>2, <2>1, OthersAgree DEF GenerateReturns
<1>3. ASSUME NEW a \in Agents, RecordStatus(a) PROVE GoroutinesAgree'
  <2>1. GoroutineAgrees(a)'
    BY <1>3 DEF RecordStatus, GoroutinesAgree, GoroutineAgrees, FinalStatus
  <2> QED
    BY <1>3, <2>1, AgentsAssumption, OthersAgree DEF RecordStatus
<1>4. ASSUME NEW a \in Agents, RecordResult(a) PROVE GoroutinesAgree'
  <2>1. GoroutineAgrees(a)' /\ lock = a
    BY <1>4 DEF RecordResult, GoroutinesAgree, GoroutineAgrees, FinalStatus, Reported
  <2> QED
    BY <1>4, <2>1, OthersAgree DEF RecordResult
<1>5. ASSUME NEW a \in Agents, Tell(a) \/ ReleaseSlot(a) PROVE GoroutinesAgree'
  <2>1. GoroutineAgrees(a)'
    BY <1>5 DEF Tell, ReleaseSlot, GoroutinesAgree, GoroutineAgrees, FinalStatus, Reported
  <2> QED
    BY <1>5, <2>1, OthersAgree DEF Tell, ReleaseSlot
<1>6. ASSUME NEW a \in Agents, Cancel(a) PROVE GoroutinesAgree'
  <2>1. GoroutineAgrees(a)'
    BY <1>6, AgentsAssumption DEF Cancel, CancelledStatus, GoroutinesAgree, GoroutineAgrees, FinalStatus, Reported
  <2> QED
    BY <1>6, <2>1, OthersAgree DEF Cancel
<1>7. CASE CancelAll
  <2>1. ASSUME NEW a \in Agents PROVE GoroutineAgrees(a)'
    BY <1>7, AgentsAssumption DEF CancelAll, CancelledStatus, GoroutinesAgree, GoroutineAgrees, FinalStatus, Reported
  <2> QED
    BY <2>1 DEF GoroutinesAgree
<1>8. CASE UNCHANGED gorVars
  BY <1>8 DEF gorVars, GoroutinesAgree, GoroutineAgrees, FinalStatus, Reported
<1> QED
  BY <1>1, <1>2, <1>3, <1>4, <1>5, <1>6, <1>7, <1>8 DEF BgNext, AgentStep, CollectStarts, CollectStep, CollectReads,
     CollectReadsValue, CollectGivesUp, CtxEnds, CollectCtxEnds, bgVars

LEMMA AgentSlotsStep ==
  ASSUME BgInv, [BgNext]_bgVars
  PROVE  AgentSlotsExact'
<1> USE DEF BgInv, BgTypeOK
<1>1. ASSUME NEW a \in Agents, AcquireSlot(a) PROVE AgentSlotsExact'
  <2>1. ~HoldsSlot(a) /\ HoldsSlot(a)' /\ \A b \in Agents \ {a} : HoldsSlot(b)' <=> HoldsSlot(b)
    BY <1>1 DEF AcquireSlot, HoldsSlot
  <2> QED
    BY <1>1, <2>1, SlotTaken DEF AcquireSlot
<1>2. ASSUME NEW a \in Agents, ReleaseSlot(a) PROVE AgentSlotsExact'
  <2>1. HoldsSlot(a) /\ ~HoldsSlot(a)' /\ \A b \in Agents \ {a} : HoldsSlot(b)' <=> HoldsSlot(b)
    BY <1>2 DEF ReleaseSlot, HoldsSlot
  <2> QED
    BY <1>2, <2>1, SlotGiven DEF ReleaseSlot
<1>3. ASSUME NEW a \in Agents, Spawn(a) \/ AcquireCancelled(a) \/ MarkRunning(a) \/ GenerateReturns(a)
             \/ RecordStatus(a)
      PROVE  AgentSlotsExact'
  <2>1. sem' = sem /\ \A b \in Agents : HoldsSlot(b)' <=> HoldsSlot(b)
    BY <1>3 DEF Spawn, AcquireCancelled, MarkRunning, GenerateReturns, RecordStatus, HoldsSlot, GoroutinesAgree,
       GoroutineAgrees
  <2> QED
    BY <2>1, SlotsKept
<1>4. ASSUME NEW a \in Agents, RecordResult(a) \/ Tell(a) PROVE AgentSlotsExact'
  <2>1. sem' = sem /\ \A b \in Agents : HoldsSlot(b)' <=> HoldsSlot(b)
    BY <1>4 DEF RecordResult, Tell, HoldsSlot, GoroutinesAgree, GoroutineAgrees
  <2> QED
    BY <2>1, SlotsKept
<1>5. CASE UNCHANGED <<gor, outcome, sem>>
  BY <1>5, SlotsKept DEF HoldsSlot
<1> QED
  BY <1>1, <1>2, <1>3, <1>4, <1>5 DEF BgNext, AgentStep, Cancel, CancelAll, CollectStarts, CollectStep, CollectReads,
     CollectReadsValue, CollectGivesUp, CtxEnds, CollectCtxEnds, bgVars, gorVars

THEOREM BgInvariant == BgSpec => []BgInv
<1>1. BgInv /\ [BgNext]_bgVars => BgInv'
  BY BgTypeStep, AgreeStep, AgentSlotsStep DEF BgInv
<1> QED
  BY <1>1, BgInitInv, PTL DEF BgSpec

------------------------------------------------------------------------------
(* Types, and with them that no more than MaxConcurrent agents have a slot.*)
THEOREM BgTypeCorrect == BgSpec => []BgTypeOK
<1>1. BgInv => BgTypeOK
  BY DEF BgInv
<1> QED
  BY <1>1, BgInvariant, PTL

(* Cancelling an agent, waiting or running, neither frees a slot nor leaks *)
(* one.                                                                    *)
THEOREM AgentSlotsExactHolds == BgSpec => []AgentSlotsExact
<1>1. BgInv => AgentSlotsExact
  BY DEF BgInv
<1> QED
  BY <1>1, BgInvariant, PTL

(* What the owner was told stays true of the agent's fields.               *)
THEOREM ReportMatchesStatusHolds == BgSpec => []ReportMatchesStatus
<1>1. BgInv => ReportMatchesStatus
  <2> SUFFICES ASSUME BgInv, NEW a \in Agents, told[a] # "none"
               PROVE  Reported(a) /\ told[a] = outcome[a]
    BY DEF ReportMatchesStatus, Reported, FinalStatus
  <2> QED
    BY DEF BgInv, GoroutinesAgree, GoroutineAgrees
<1> QED
  BY <1>1, BgInvariant, PTL

------------------------------------------------------------------------------
(* What Collect returns, although it reads without the lock.               *)

(* Nothing is stored before the goroutine has come to its second store, and *)
(* then for good; who reads a value reads that one.                        *)
StoredOnce ==
  \A a \in Agents :
    /\ gor[a] \in {"none", "acquire", "start", "generate", "record", "store"} => stored[a] = "nothing"
    /\ gor[a] \in {"tell", "defers", "ended"} /\ outcome[a] = "ctx" => stored[a] = "nothing"
    /\ collected[a] \in {"text", "error"} => stored[a] = collected[a]

LEMMA StoredOnceStep == BgInv /\ StoredOnce /\ [BgNext]_bgVars => StoredOnce'
<1> SUFFICES ASSUME BgInv, StoredOnce, [BgNext]_bgVars PROVE StoredOnce'
  OBVIOUS
<1> USE DEF BgInv, BgTypeOK, StoredOnce
<1>1. ASSUME NEW a \in Agents, AgentStep(a) PROVE StoredOnce'
  <2>1. CASE RecordResult(a)
    BY <2>1 DEF RecordResult, GoroutinesAgree, GoroutineAgrees, colVars
  <2>2. CASE UNCHANGED <<stored, collected>>
    BY <1>1, <2>2 DEF AgentStep, AcquireSlot, AcquireCancelled, MarkRunning, RecordStatus, RecordResult, Tell,
       ReleaseSlot, GoroutinesAgree, GoroutineAgrees
  <2> QED
    BY <1>1, <2>1, <2>2 DEF AgentStep, AcquireSlot, AcquireCancelled, MarkRunning, RecordStatus, Tell, ReleaseSlot,
       colVars
<1>2. ASSUME NEW a \in Agents, Spawn(a) \/ GenerateReturns(a) PROVE StoredOnce'
  BY <1>2 DEF Spawn, GenerateReturns, GoroutinesAgree, GoroutineAgrees, colVars
<1>3. ASSUME NEW a \in Agents, CollectStep(a) PROVE StoredOnce'
  BY <1>3 DEF CollectStep, CollectReads, CollectReadsValue, CollectGivesUp, CollectReturns, gorVars
<1>4. CASE UNCHANGED <<gor, outcome, stored, collected>>
  BY <1>4
<1> QED
  BY <1>1, <1>2, <1>3, <1>4 DEF BgNext, Cancel, CancelAll, CollectStarts, CtxEnds, CollectCtxEnds, bgVars, gorVars,
     colVars

(* A text or an error that Collect returns is the agent's own final one,   *)
(* and the one onDone gets.                                                *)
CollectedIsReported ==
  \A a \in Agents : collected[a] \in {"text", "error"} =>
    /\ stored[a] = collected[a] /\ status[a] = FinalStatus(a)
    /\ told[a] \in {"none", collected[a]}

(* Collect polls Status and Result without m.mu, while the goroutine writes *)
(* them and Cancel runs: what it takes for a result is one, and nobody is  *)
(* told anything else (background_agents.go 198-206, 219-245).             *)
THEOREM CollectedIsReportedHolds == BgSpec => []CollectedIsReported
<1>1. BgInit => StoredOnce
  BY DEF BgInit, StoredOnce
<1>2. BgInv /\ StoredOnce => CollectedIsReported
  <2> SUFFICES ASSUME BgInv, StoredOnce, NEW a \in Agents, collected[a] \in {"text", "error"}
               PROVE  /\ stored[a] = collected[a] /\ status[a] = FinalStatus(a)
                      /\ told[a] \in {"none", collected[a]}
    BY DEF CollectedIsReported
  <2>1. stored[a] = collected[a] /\ gor[a] \in {"tell", "defers", "ended"} /\ outcome[a] # "ctx"
    BY DEF StoredOnce, BgInv, BgTypeOK, GorPhases
  <2>2. Reported(a) /\ (gor[a] \in {"defers", "ended"} => told[a] = outcome[a])
        /\ (gor[a] = "tell" => told[a] = "none")
    BY <2>1 DEF BgInv, GoroutinesAgree, GoroutineAgrees
  <2> QED
    BY <2>1, <2>2 DEF Reported
<1> QED
  BY <1>1, <1>2, StoredOnceStep, BgInvariant, PTL DEF BgSpec

(* A report is final: once onDone was called for an agent, nothing of its  *)
(* record changes any more.                                                *)
ReportIsFinal ==
  [][\A a \in Agents : told[a] # "none" =>
       told'[a] = told[a] /\ stored'[a] = stored[a] /\ status'[a] = status[a]]_bgVars

(* Neither Cancel or CancelAll, which any tool may call at any time, nor   *)
(* what is left of the goroutine rewrites the record of an agent whose     *)
(* owner has been told (background_agents.go 209-211, 282-303).            *)
THEOREM ReportIsFinalHolds == BgSpec => ReportIsFinal
<1> DEFINE Final == \A a \in Agents : told[a] # "none" =>
                      told'[a] = told[a] /\ stored'[a] = stored[a] /\ status'[a] = status[a]
<1>1. BgInv /\ [BgNext]_bgVars => [Final]_bgVars
  <2> SUFFICES ASSUME BgInv, BgNext, NEW a \in Agents, told[a] # "none"
               PROVE  told'[a] = told[a] /\ stored'[a] = stored[a] /\ status'[a] = status[a]
    OBVIOUS
  <2> USE DEF BgInv, BgTypeOK
  <2>1. gor[a] \in {"defers", "ended"} /\ status[a] \in Settled
    BY DEF GoroutinesAgree, GoroutineAgrees, GorPhases, Reported, FinalStatus, Settled
  <2>2. CancelledStatus(status[a]) = status[a]
    BY <2>1 DEF CancelledStatus, Settled
  <2>3. ASSUME NEW b \in Agents, AgentStep(b) \/ Spawn(b) \/ GenerateReturns(b)
        PROVE  told'[a] = told[a] /\ stored'[a] = stored[a] /\ status'[a] = status[a]
    BY <2>1, <2>3 DEF AgentStep, AcquireSlot, AcquireCancelled, MarkRunning, RecordStatus, RecordResult, Tell,
       ReleaseSlot, Spawn, GenerateReturns, Settled
  <2>4. ASSUME NEW b \in Agents, Cancel(b)
        PROVE  told'[a] = told[a] /\ stored'[a] = stored[a] /\ status'[a] = status[a]
    BY <2>2, <2>4 DEF Cancel
  <2>5. CASE CancelAll
    BY <2>2, <2>5 DEF CancelAll
  <2>6. CASE UNCHANGED gorVars
    BY <2>6 DEF gorVars
  <2> QED
    BY <2>3, <2>4, <2>5, <2>6 DEF BgNext, CollectStarts, CollectStep, CollectReads, CollectReadsValue,
       CollectGivesUp, CtxEnds, CollectCtxEnds
<1> QED
  BY <1>1, BgInvariant, PTL DEF BgSpec, ReportIsFinal

------------------------------------------------------------------------------
(* What can keep an agent waiting.                                         *)

(* m.mu is held only by an agent that is between its two stores.           *)
LockHeld == lock # NoAgent => gor[lock] = "store"

LEMMA LockHeldStep == BgInv /\ LockHeld /\ [BgNext]_bgVars => LockHeld'
<1> SUFFICES ASSUME BgInv, LockHeld, [BgNext]_bgVars PROVE LockHeld'
  OBVIOUS
<1> USE AgentsAssumption DEF BgInv, BgTypeOK, LockHeld
<1>1. ASSUME NEW a \in Agents, RecordStatus(a) \/ RecordResult(a) PROVE LockHeld'
  BY <1>1 DEF RecordStatus, RecordResult
<1>2. ASSUME NEW a \in Agents, Spawn(a) \/ GenerateReturns(a) \/ AcquireSlot(a) \/ AcquireCancelled(a)
                               \/ MarkRunning(a) \/ Tell(a) \/ ReleaseSlot(a)
      PROVE  LockHeld'
  BY <1>2 DEF Spawn, GenerateReturns, AcquireSlot, AcquireCancelled, MarkRunning, Tell, ReleaseSlot, GoroutinesAgree,
     GoroutineAgrees
<1>3. CASE UNCHANGED <<gor, lock>>
  BY <1>3
<1> QED
  BY <1>1, <1>2, <1>3 DEF BgNext, AgentStep, Cancel, CancelAll, CollectStarts, CollectStep, CollectReads,
     CollectReadsValue, CollectGivesUp, CtxEnds, CollectCtxEnds, bgVars, gorVars

(* The goroutine of an agent has a step to take, or waits for its provider. *)
CanGoOn(a) ==
  \/ gor[a] = "acquire" /\ (sem < MaxConcurrent \/ (ctxDone[a] /\ lock = NoAgent))
  \/ gor[a] \in {"start", "record"} /\ lock = NoAgent
  \/ gor[a] \in {"generate", "store", "tell"}
  \/ gor[a] = "defers" /\ sem > 0

(* An agent that is pending or running has a goroutine that is under way,  *)
(* and a goroutine under way goes on, or waits for an agent that is about  *)
(* to give m.mu back, or for a slot, all of which are held by agents under *)
(* way.                                                                    *)
NoAgentForgotten ==
  \A a \in Agents :
    /\ status[a] \in {"Pending", "Running"} => gor[a] \notin {"none", "ended"}
    /\ gor[a] \notin {"none", "ended"} =>
         \/ CanGoOn(a)
         \/ lock # NoAgent /\ CanGoOn(lock)
         \/ gor[a] = "acquire" /\ Holders # {} /\ \A b \in Holders : CanGoOn(b)

(* The deferred receive on the semaphore never blocks, and no agent is     *)
(* left waiting by one that has gone, whatever was cancelled               *)
(* (background_agents.go 155-212).                                         *)
THEOREM NoAgentForgottenHolds == BgSpec => []NoAgentForgotten
<1>1. BgInit => LockHeld
  BY DEF BgInit, LockHeld
<1>2. BgInv /\ LockHeld => NoAgentForgotten
  <2> SUFFICES ASSUME BgInv, LockHeld, NEW a \in Agents
               PROVE  /\ status[a] \in {"Pending", "Running"} => gor[a] \notin {"none", "ended"}
                      /\ gor[a] \notin {"none", "ended"} =>
                           \/ CanGoOn(a)
                           \/ lock # NoAgent /\ CanGoOn(lock)
                           \/ gor[a] = "acquire" /\ Holders # {} /\ \A b \in Holders : CanGoOn(b)
    BY DEF NoAgentForgotten
  <2> USE DEF BgInv, BgTypeOK
  <2>1. status[a] \in {"Pending", "Running"} => gor[a] \notin {"none", "ended"}
    BY DEF GoroutinesAgree, GoroutineAgrees, Reported, FinalStatus
  <2>2. lock # NoAgent => CanGoOn(lock)
    BY DEF LockHeld, CanGoOn
  <2>3. ASSUME NEW b \in Holders PROVE sem > 0
    <3>1. Cardinality(Holders) # 0
      BY HoldersFinite, FS_EmptySet
    <3> QED
      BY <3>1, HoldersFinite DEF AgentSlotsExact, Holders
  <2>4. ASSUME NEW b \in Holders, lock = NoAgent PROVE CanGoOn(b)
    BY <2>3, <2>4 DEF Holders, HoldsSlot, CanGoOn
  <2>5. ASSUME sem = MaxConcurrent PROVE Holders # {}
    BY <2>5, FS_EmptySet, AgentsAssumption DEF AgentSlotsExact, Holders
  <2>6. gor[a] \notin {"none", "ended", "acquire"} /\ lock = NoAgent => CanGoOn(a)
    BY <2>4 DEF Holders, HoldsSlot, CanGoOn, GorPhases
  <2>7. gor[a] = "acquire" /\ ~CanGoOn(a) => sem = MaxConcurrent
    BY AgentsAssumption DEF CanGoOn
  <2> QED
    BY <2>1, <2>2, <2>4, <2>5, <2>6, <2>7
<1> QED
  BY <1>1, <1>2, LockHeldStep, BgInvariant, PTL DEF BgSpec

==============================================================================

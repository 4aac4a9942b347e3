--------------------------- MODULE BackgroundAgents ---------------------------
(***************************************************************************)
(* Background agents of the engine: internal/engine/background_agents.go,  *)
(* type BackgroundAgentManager.                                            *)
(*                                                                         *)
(* Each spawned agent is a goroutine that waits for a slot, generates and  *)
(* records its result under m.mu; Cancel and CancelAll change statuses     *)
(* under m.mu from outside; Collect polls the agent's fields without it.   *)
(* The critical section that records a result is two steps here, since     *)
(* Collect may read between its two stores.                                *)
(***************************************************************************)
EXTENDS Naturals, FiniteSets

CONSTANTS
  Agents,         \* calls of Spawn
  MaxConcurrent,  \* capacity of the semaphore
  NoAgent

ASSUME AgentsAssumption ==
  /\ IsFiniteSet(Agents)
  /\ NoAgent \notin Agents
  /\ MaxConcurrent \in Nat \ {0}

VARIABLES
  status,     \* BackgroundAgent.Status; "none" before Spawn
  gor,        \* where the agent's goroutine stands
  outcome,    \* what Generate returned, or "ctx": runErr and result
  stored,     \* BackgroundAgent.Result and Error
  told,       \* what onDone was called with
  sem,        \* len(m.semaphore)
  lock,       \* the agent that holds m.mu between its two stores
  ctxDone,    \* the context given to Spawn has ended
  colPc,      \* where the Collect of an agent stands
  collected,  \* what that Collect returned
  colDone     \* the context given to Collect has ended

gorVars == <<status, gor, outcome, stored, told, sem, lock>>
colVars == <<colPc, collected>>
bgVars  == <<gorVars, ctxDone, colVars, colDone>>

Statuses  == {"none", "Pending", "Running", "Done", "Failed", "Cancelled"}
Settled   == {"Done", "Failed", "Cancelled"}
GorPhases == {"none", "acquire", "start", "generate", "record", "store", "tell", "defers", "ended"}

HoldsSlot(a) ==
  \/ gor[a] \in {"start", "generate", "record", "store", "defers"}
  \/ gor[a] = "tell" /\ outcome[a] # "ctx"

------------------------------------------------------------------------------
BgInit ==
  /\ status = [a \in Agents |-> "none"]
  /\ gor = [a \in Agents |-> "none"]
  /\ outcome = [a \in Agents |-> "none"]
  /\ stored = [a \in Agents |-> "nothing"]
  /\ told = [a \in Agents |-> "none"]
  /\ sem = 0
  /\ lock = NoAgent
  /\ ctxDone = [a \in Agents |-> FALSE]
  /\ colPc = [a \in Agents |-> "idle"]
  /\ collected = [a \in Agents |-> "none"]
  /\ colDone = [a \in Agents |-> FALSE]

------------------------------------------------------------------------------
(* Spawn and the agent's goroutine.                                        *)

Spawn(a) ==
  /\ status[a] = "none"
  /\ lock = NoAgent
  /\ status' = [status EXCEPT ![a] = "Pending"]
  /\ gor' = [gor EXCEPT ![a] = "acquire"]
  /\ UNCHANGED <<outcome, stored, told, sem, lock, ctxDone, colVars, colDone>>

\* Mutant: the semaphore admits one agent more.
AcquireOneMore(a) ==
  /\ gor[a] = "acquire"
  /\ sem <= MaxConcurrent
  /\ sem' = sem + 1
  /\ gor' = [gor EXCEPT ![a] = "start"]
  /\ UNCHANGED <<status, outcome, stored, told, lock, ctxDone, colVars, colDone>>

AcquireSlot(a) ==
  /\ gor[a] = "acquire"
  /\ sem < MaxConcurrent
  /\ sem' = sem + 1
  /\ gor' = [gor EXCEPT ![a] = "start"]
  /\ UNCHANGED <<status, outcome, stored, told, lock, ctxDone, colVars, colDone>>

\* Mutant: the context is not part of the wait for a slot, and the agent that
\* finds it ended leaves without a word.
AcquireLeavesSilently(a) ==
  /\ gor[a] = "acquire"
  /\ ctxDone[a]
  /\ lock = NoAgent
  /\ status' = [status EXCEPT ![a] = "Cancelled"]
  /\ gor' = [gor EXCEPT ![a] = "ended"]
  /\ UNCHANGED <<outcome, stored, told, sem, lock, ctxDone, colVars, colDone>>

AcquireCancelled(a) ==
  /\ gor[a] = "acquire"
  /\ ctxDone[a]
  /\ lock = NoAgent
  /\ status' = [status EXCEPT ![a] = "Cancelled"]
  /\ outcome' = [outcome EXCEPT ![a] = "ctx"]
  /\ gor' = [gor EXCEPT ![a] = "tell"]
  /\ UNCHANGED <<stored, told, sem, lock, ctxDone, colVars, colDone>>

\* Whatever the status has become in the meantime.
MarkRunning(a) ==
  /\ gor[a] = "start"
  /\ lock = NoAgent
  /\ status' = [status EXCEPT ![a] = "Running"]
  /\ gor' = [gor EXCEPT ![a] = "generate"]
  /\ UNCHANGED <<outcome, stored, told, sem, lock, ctxDone, colVars, colDone>>

\* provider.Generate returns a text or an error; a missing provider is an error.
GenerateReturns(a) ==
  /\ gor[a] = "generate"
  /\ \E out \in {"text", "error"} : outcome' = [outcome EXCEPT ![a] = out]
  /\ gor' = [gor EXCEPT ![a] = "record"]
  /\ UNCHANGED <<status, stored, told, sem, lock, ctxDone, colVars, colDone>>

FinalStatus(a) == IF outcome[a] = "text" THEN "Done" ELSE "Failed"

\* The two stores of the final critical section: Status, then Result or Error.
RecordStatus(a) ==
  /\ gor[a] = "record"
  /\ lock = NoAgent
  /\ lock' = a
  /\ status' = [status EXCEPT ![a] = FinalStatus(a)]
  /\ gor' = [gor EXCEPT ![a] = "store"]
  /\ UNCHANGED <<outcome, stored, told, sem, ctxDone, colVars, colDone>>

RecordResult(a) ==
  /\ gor[a] = "store"
  /\ stored' = [stored EXCEPT ![a] = outcome[a]]
  /\ lock' = NoAgent
  /\ gor' = [gor EXCEPT ![a] = "tell"]
  /\ UNCHANGED <<status, outcome, told, sem, ctxDone, colVars, colDone>>

\* Mutant: an agent that never had a slot gives one back.
TellThenReleases(a) ==
  /\ gor[a] = "tell"
  /\ told' = [told EXCEPT ![a] = outcome[a]]
  /\ gor' = [gor EXCEPT ![a] = "defers"]
  /\ UNCHANGED <<status, outcome, stored, sem, lock, ctxDone, colVars, colDone>>

\* onDone; an agent cancelled before it had a slot has nothing to release.
Tell(a) ==
  /\ gor[a] = "tell"
  /\ told' = [told EXCEPT ![a] = outcome[a]]
  /\ gor' = [gor EXCEPT ![a] = IF outcome[a] = "ctx" THEN "ended" ELSE "defers"]
  /\ UNCHANGED <<status, outcome, stored, sem, lock, ctxDone, colVars, colDone>>

ReleaseSlot(a) ==
  /\ gor[a] = "defers"
  /\ sem > 0
  /\ sem' = sem - 1
  /\ gor' = [gor EXCEPT ![a] = "ended"]
  /\ UNCHANGED <<status, outcome, stored, told, lock, ctxDone, colVars, colDone>>

------------------------------------------------------------------------------
(* Cancel and CancelAll: the status changes, the goroutine does not notice. *)

CancelledStatus(st) == IF st \in {"Pending", "Running"} THEN "Cancelled" ELSE st

\* Mutant: Cancel marks agents that have already settled.
CancelAnything(a) ==
  /\ lock = NoAgent
  /\ status[a] # "none"
  /\ status' = [status EXCEPT ![a] = "Cancelled"]
  /\ UNCHANGED <<gor, outcome, stored, told, sem, lock, ctxDone, colVars, colDone>>

Cancel(a) ==
  /\ lock = NoAgent
  /\ status' = [status EXCEPT ![a] = CancelledStatus(@)]
  /\ UNCHANGED <<gor, outcome, stored, told, sem, lock, ctxDone, colVars, colDone>>

CancelAll ==
  /\ lock = NoAgent
  /\ status' = [a \in Agents |-> CancelledStatus(status[a])]
  /\ UNCHANGED <<gor, outcome, stored, told, sem, lock, ctxDone, colVars, colDone>>

------------------------------------------------------------------------------
(* Collect: the map is read under m.mu, the agent behind it is not.        *)

CollectReturns(a, value) ==
  /\ colPc' = [colPc EXCEPT ![a] = "returned"]
  /\ collected' = [collected EXCEPT ![a] = value]

CollectStarts(a) ==
  /\ colPc[a] = "idle"
  /\ status[a] # "none"
  /\ colPc' = [colPc EXCEPT ![a] = "poll"]
  /\ UNCHANGED <<gorVars, ctxDone, collected, colDone>>

\* Mutant: a failed agent is polled for ever.
CollectReadsDoneOnly(a) ==
  /\ colPc[a] = "poll"
  /\ status[a] = "Done"
  /\ colPc' = [colPc EXCEPT ![a] = "value"]
  /\ UNCHANGED <<gorVars, ctxDone, collected, colDone>>

\* One round of the loop: the switch on agent.Status.
CollectReads(a) ==
  /\ colPc[a] = "poll"
  /\ \/ /\ status[a] \in {"Done", "Failed"}
        /\ colPc' = [colPc EXCEPT ![a] = "value"]
        /\ UNCHANGED collected
     \/ status[a] = "Cancelled" /\ CollectReturns(a, "cancelled")
  /\ UNCHANGED <<gorVars, ctxDone, colDone>>

\* return agent.Result or agent.Error.
CollectReadsValue(a) ==
  /\ colPc[a] = "value"
  /\ CollectReturns(a, stored[a])
  /\ UNCHANGED <<gorVars, ctxDone, colDone>>

CollectGivesUp(a) ==
  /\ colPc[a] = "poll"
  /\ colDone[a]
  /\ CollectReturns(a, "ctx")
  /\ UNCHANGED <<gorVars, ctxDone, colDone>>

------------------------------------------------------------------------------
\* The context ends.  Once the agent has its slot only Generate looks at it,
\* which may return an error at any time anyway.
CtxEnds(a) ==
  /\ ~ctxDone[a]
  /\ gor[a] = "acquire"
  /\ ctxDone' = [ctxDone EXCEPT ![a] = TRUE]
  /\ UNCHANGED <<gorVars, colVars, colDone>>

CollectCtxEnds(a) ==
  /\ ~colDone[a]
  /\ colPc[a] = "poll"
  /\ colDone' = [colDone EXCEPT ![a] = TRUE]
  /\ UNCHANGED <<gorVars, ctxDone, colVars>>

AgentStep(a) ==
  \/ AcquireSlot(a) \/ AcquireCancelled(a) \/ MarkRunning(a)
  \/ RecordStatus(a) \/ RecordResult(a) \/ Tell(a) \/ ReleaseSlot(a)

CollectStep(a) == CollectReads(a) \/ CollectReadsValue(a) \/ CollectGivesUp(a)

BgNext ==
  \/ \E a \in Agents :
       \/ Spawn(a) \/ AgentStep(a) \/ GenerateReturns(a)
       \/ Cancel(a)
       \/ CollectStarts(a) \/ CollectStep(a)
       \/ CtxEnds(a) \/ CollectCtxEnds(a)
  \/ CancelAll

(* Goroutines that can move do, and the semaphore serves its waiters in    *)
(* turn.                                                                   *)
BgFairness ==
  \A a \in Agents : WF_bgVars(AgentStep(a)) /\ SF_bgVars(AcquireSlot(a)) /\ WF_bgVars(CollectStep(a))

(* Providers answer or fail: their HTTP clients have timeouts.             *)
ProvidersAnswer == \A a \in Agents : WF_bgVars(GenerateReturns(a))

BgSpec == BgInit /\ [][BgNext]_bgVars /\ BgFairness /\ ProvidersAnswer

------------------------------------------------------------------------------
BgTypeOK ==
  /\ status \in [Agents -> Statuses]
  /\ gor \in [Agents -> GorPhases]
  /\ outcome \in [Agents -> {"none", "text", "error", "ctx"}]
  /\ stored \in [Agents -> {"nothing", "text", "error"}]
  /\ told \in [Agents -> {"none", "text", "error", "ctx"}]
  /\ sem \in 0 .. MaxConcurrent
  /\ lock \in Agents \cup {NoAgent}
  /\ ctxDone \in [Agents -> BOOLEAN]
  /\ colPc \in [Agents -> {"idle", "poll", "value", "returned"}]
  /\ collected \in [Agents -> {"none", "nothing", "text", "error", "cancelled", "ctx"}]
  /\ colDone \in [Agents -> BOOLEAN]

(* The semaphore counts exactly the agents between their acquisition and   *)
(* their deferred receive; cancelling an agent neither frees nor leaks one. *)
AgentSlotsExact == sem = Cardinality({a \in Agents : HoldsSlot(a)})

(* What the owner is told through onDone and what the status says agree    *)
(* for good, whenever Cancel, CancelAll or the context struck.             *)
ReportMatchesStatus ==
  \A a \in Agents :
    /\ told[a] = "text" => status[a] = "Done" /\ stored[a] = "text"
    /\ told[a] = "error" => status[a] = "Failed" /\ stored[a] = "error"
    /\ told[a] = "ctx" => status[a] = "Cancelled"

(* Every spawned agent reports to onDone, even one whose context ends      *)
(* while all slots are taken.                                              *)
EveryAgentReports == \A a \in Agents : status[a] # "none" ~> told[a] # "none"

(* Collect comes back for every agent, cancelled, failed or done.          *)
EveryCollectReturns == \A a \in Agents : colPc[a] = "poll" ~> colPc[a] = "returned"

(* "AgentCancelled // cancelled by caller" and "Cancel cancels a running   *)
(* agent by ID." (background_agents.go 46 and 281): a cancelled agent      *)
(* stays cancelled.                                                        *)
CancelSticks == [][\A a \in Agents : status[a] = "Cancelled" => status'[a] = "Cancelled"]_bgVars

==============================================================================

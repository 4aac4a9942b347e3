-------------------------- MODULE DagResolverProofs --------------------------
(***************************************************************************)
(* Proofs about DagResolver for every graph, retry budget and concurrency. *)
(*                                                                         *)
(* DagCore says what holds however the run began: which status goes with   *)
(* which place of a goroutine, that the list Run dispatches from is never  *)
(* stale in a way that matters, and that the IDs a failed task has         *)
(* collected can be started by no one.  DagInv adds what only a run from   *)
(* the start can rely on; DagRestartProofs builds on DagCore alone.        *)
(***************************************************************************)
EXTENDS DagResolver, FiniteSetTheorems, WellFoundedInduction, TLAPS

Started == {"Queued", "Running", "Completed", "Failed"}

(* What a status map shows as started has only Completed dependencies.     *)
Closed(st) == \A t \in Tasks : st[t] \in Started => \A d \in Deps[t] : st[d] = "Completed"

(* Status and goroutine of a task agree; a task without a goroutine is     *)
(* neither queued nor running.                                             *)
GoroutineFitsStatus ==
  \A t \in Tasks :
    /\ gor[t] = "unstarted" => status[t] \in {"Pending", "Completed", "Failed", "Skipped"}
    /\ gor[t] = "acquire" => status[t] = "Queued"
    /\ gor[t] = "head" => status[t] \in {"Queued", "Running"}
    /\ gor[t] \in {"action", "failed", "backoff"} => status[t] = "Running"
    /\ gor[t] = "skip" => status[t] = "Failed"
    /\ gor[t] \in {"defers", "done"} => status[t] \in Terminal

(* What is left of the list of readyTasks is still ready.                  *)
ReadyStaysReady ==
  \A t \in ready : gor[t] = "unstarted" /\ status[t] = "Pending" /\ DepsCompleted(t)

Doomed(i) == \E d \in Deps[i] : status[d] \in {"Failed", "Skipped"}

(* Collected IDs have not started and never will, and the ID whose         *)
(* dependents are read next has failed or been skipped.                    *)
CollectedAreIdle ==
  \A t \in Tasks :
    /\ \A i \in toSkip[t] : gor[i] = "unstarted" /\ status[i] \in {"Pending", "Skipped"} /\ Doomed(i)
    /\ scan[t] # NoTask => status[scan[t]] \in {"Failed", "Skipped"}

DagCore ==
  /\ TypeOK
  /\ SlotsExact
  /\ GoroutineFitsStatus
  /\ ReadyStaysReady
  /\ CollectedAreIdle
  /\ Closed(status)

Holders == {t \in Tasks : HoldsSlot(t)}

------------------------------------------------------------------------------
LEMMA CoreInit == Init => DagCore
<1> SUFFICES ASSUME Init PROVE DagCore
  OBVIOUS
<1> USE DagAssumption DEF Init
<1>0. 0 \in 0 .. Concurrency
  OBVIOUS
<1>1. TypeOK
  BY <1>0, Zenon DEF TypeOK, Statuses, GorPhases, RunPhases
<1>2. GoroutineFitsStatus /\ ReadyStaysReady /\ CollectedAreIdle /\ Closed(status)
  BY DEF GoroutineFitsStatus, ReadyStaysReady, CollectedAreIdle, Closed, Started
<1>3. Holders = {}
  BY DEF Holders, HoldsSlot
<1>4. SlotsExact
  BY <1>3, FS_EmptySet DEF SlotsExact, Holders
<1> QED
  BY <1>1, <1>2, <1>4 DEF DagCore

------------------------------------------------------------------------------
(* What a step does to the number of slot holders.                         *)

LEMMA HoldersFinite == IsFiniteSet(Holders) /\ Cardinality(Holders) \in Nat
<1>1. Holders \subseteq Tasks
  BY DEF Holders
<1> QED
  BY <1>1, DagAssumption, FS_Subset, FS_CardinalityType

LEMMA HoldersKept ==
  ASSUME SlotsExact, sem' = sem, \A q \in Tasks : HoldsSlot(q)' <=> HoldsSlot(q)
  PROVE  SlotsExact'
<1>1. Holders' = Holders
  BY Zenon DEF Holders
<1> QED
  BY <1>1 DEF SlotsExact, Holders

LEMMA HolderGained ==
  ASSUME SlotsExact, sem' = sem + 1, NEW t \in Tasks, ~HoldsSlot(t), HoldsSlot(t)',
         \A q \in Tasks \ {t} : HoldsSlot(q)' <=> HoldsSlot(q)
  PROVE  SlotsExact'
<1>1. Holders' = Holders \cup {t} /\ t \notin Holders
  BY Zenon DEF Holders
<1>2. Cardinality(Holders') = Cardinality(Holders) + 1
  BY <1>1, HoldersFinite, FS_AddElement
<1> QED
  BY <1>2 DEF SlotsExact, Holders

LEMMA HolderLost ==
  ASSUME SlotsExact, sem' = sem - 1, NEW t \in Tasks, HoldsSlot(t), ~HoldsSlot(t)',
         \A q \in Tasks \ {t} : HoldsSlot(q)' <=> HoldsSlot(q)
  PROVE  SlotsExact' /\ sem > 0
<1>1. Holders' = Holders \ {t} /\ t \in Holders
  BY Zenon DEF Holders
<1>2. Cardinality(Holders') = Cardinality(Holders) - 1
  BY <1>1, HoldersFinite, FS_RemoveElement
<1>3. Cardinality(Holders) # 0
  BY <1>1, HoldersFinite, FS_EmptySet
<1> QED
  BY <1>2, <1>3, HoldersFinite DEF SlotsExact, Holders

------------------------------------------------------------------------------
(* DagCore is inductive.  Most steps are of two kinds.                     *)

(* Run looks around, or the context is cancelled: no task is touched.      *)
LooksAround ==
  /\ UNCHANGED <<status, gor, attempt, toSkip, scan, sem>>
  /\ ready' = ready \/ ready' = ReadyTasks
  /\ cancelled => cancelled'

(* A goroutine gets on with its own task, whose status it changes only     *)
(* while that is not final; it sets out to skip dependents when the task   *)
(* fails, and leaves that only when none is left.                          *)
OwnStep(t) ==
  /\ gor[t] # "unstarted" /\ gor'[t] # "unstarted"
  /\ \A q \in Tasks \ {t} : gor'[q] = gor[q] /\ status'[q] = status[q]
  /\ status'[t] = status[t] \/ (status[t] \in {"Queued", "Running"} /\ status'[t] # "Pending" /\ gor'[t] # gor[t])
  /\ UNCHANGED <<toSkip, ready, runPc, runErr, cancelled>>
  /\ scan' = scan \/ (scan' = [scan EXCEPT ![t] = t] /\ status'[t] = "Failed" /\ gor[t] # "skip")
  /\ status'[t] = "Failed" /\ status[t] # "Failed" => gor'[t] = "skip" /\ scan'[t] = t
  /\ gor[t] = "skip" => scan[t] = NoTask /\ toSkip[t] = {}
  /\ status'[t] = "Skipped" => status[t] = "Skipped" \/ cancelled

LEMMA StepKinds ==
  ASSUME DagCore, Next
  PROVE  \/ (RunHead \/ RunLooksForReady \/ RunPolls \/ RunFinishes \/ Cancel) /\ LooksAround
         \/ \E t \in Tasks : OwnStep(t)
         \/ \E t \in Tasks : RunDispatches(t) \/ SkipScans(t) \/ \E i \in Tasks : SkipMarks(t, i)
<1> USE DEF DagCore, TypeOK
<1>1. ASSUME RunHead \/ RunLooksForReady \/ RunPolls \/ RunFinishes \/ Cancel PROVE LooksAround
  BY <1>1 DEF LooksAround, RunHead, RunLooksForReady, RunPolls, RunFinishes, Cancel
<1>2. ASSUME NEW t \in Tasks,
             AcquireSlot(t) \/ AcquireCancelled(t) \/ AttemptStarts(t) \/ DecidesToRetry(t) \/ BackoffEnds(t)
      PROVE  OwnStep(t)
  BY <1>2 DEF OwnStep, GoroutineFitsStatus, AcquireSlot, AcquireCancelled, AttemptStarts, DecidesToRetry, BackoffEnds
<1>3. ASSUME NEW t \in Tasks,
             GivesUp(t) \/ SkipEnds(t) \/ GoroutineEnds(t) \/ ActionSucceeds(t) \/ ActionFails(t)
      PROVE  OwnStep(t)
  BY <1>3 DEF OwnStep, GoroutineFitsStatus, GivesUp, SkipEnds, GoroutineEnds, ActionSucceeds, ActionFails
<1> QED
  BY <1>1, <1>2, <1>3 DEF Next, RunStep, TaskStep, ActionReturns

(* Slots: who takes or gives back one, and that nobody else does.          *)
LEMMA SlotsStep ==
  ASSUME DagCore, Next
  PROVE  SlotsExact' /\ (\A t \in Tasks : GoroutineEnds(t) => sem > 0)
<1> USE DEF DagCore, TypeOK, HoldsSlot
<1>1. ASSUME NEW t \in Tasks, AcquireSlot(t) PROVE SlotsExact'
  <2>1. ~HoldsSlot(t) /\ HoldsSlot(t)' /\ \A q \in Tasks \ {t} : HoldsSlot(q)' <=> HoldsSlot(q)
    BY <1>1 DEF AcquireSlot
  <2> QED
    BY <1>1, <2>1, HolderGained DEF AcquireSlot
<1>2. ASSUME NEW t \in Tasks, GoroutineEnds(t) PROVE SlotsExact' /\ sem > 0
  <2>1. HoldsSlot(t) /\ ~HoldsSlot(t)' /\ \A q \in Tasks \ {t} : HoldsSlot(q)' <=> HoldsSlot(q)
    BY <1>2 DEF GoroutineEnds
  <2> QED
    BY <1>2, <2>1, HolderLost DEF GoroutineEnds
<1>3. ASSUME \A q \in Tasks : HoldsSlot(q)' <=> HoldsSlot(q), sem' = sem PROVE SlotsExact'
  BY <1>3, HoldersKept
<1>4. ASSUME RunHead \/ RunLooksForReady \/ RunPolls \/ RunFinishes \/ Cancel PROVE SlotsExact'
  BY <1>3, <1>4 DEF RunHead, RunLooksForReady, RunPolls, RunFinishes, Cancel
<1>5. ASSUME NEW t \in Tasks, RunDispatches(t) PROVE SlotsExact'
  BY <1>3, <1>5 DEF RunDispatches, ReadyStaysReady
<1>6. ASSUME NEW t \in Tasks, AcquireCancelled(t) \/ AttemptStarts(t) \/ DecidesToRetry(t) \/ GivesUp(t)
      PROVE  SlotsExact'
  BY <1>3, <1>6 DEF AcquireCancelled, AttemptStarts, DecidesToRetry, GivesUp
<1>7. ASSUME NEW t \in Tasks, BackoffEnds(t) \/ SkipEnds(t) \/ ActionSucceeds(t) \/ ActionFails(t)
      PROVE  SlotsExact'
  BY <1>3, <1>7 DEF BackoffEnds, SkipEnds, ActionSucceeds, ActionFails
<1>8. ASSUME NEW t \in Tasks, SkipScans(t) \/ \E i \in Tasks : SkipMarks(t, i) PROVE SlotsExact'
  BY <1>3, <1>8 DEF SkipScans, SkipMarks
<1> QED
  BY <1>1, <1>2, <1>4, <1>5, <1>6, <1>7, <1>8 DEF Next, RunStep, TaskStep, ActionReturns

(* Types, and the place of each goroutine with its status.                 *)
LEMMA PlacesStep ==
  ASSUME DagCore, Next
  PROVE  TypeOK' /\ GoroutineFitsStatus'
<1> USE DagAssumption DEF DagCore, TypeOK, GoroutineFitsStatus, Statuses, GorPhases, RunPhases, Terminal
<1>1. CASE RunHead \/ RunPolls \/ RunFinishes \/ Cancel
  BY <1>1 DEF RunHead, RunPolls, RunFinishes, Cancel, RunReturns
<1>2. CASE RunLooksForReady
  BY <1>2 DEF RunLooksForReady, ReadyTasks
<1>3. ASSUME NEW t \in Tasks, RunDispatches(t) PROVE TypeOK' /\ GoroutineFitsStatus'
  BY <1>3 DEF RunDispatches
<1>4. ASSUME NEW t \in Tasks, AcquireSlot(t) \/ AcquireCancelled(t) PROVE TypeOK' /\ GoroutineFitsStatus'
  BY <1>4 DEF AcquireSlot, AcquireCancelled
<1>5. ASSUME NEW t \in Tasks, AttemptStarts(t) PROVE TypeOK' /\ GoroutineFitsStatus'
  BY <1>5 DEF AttemptStarts
<1>6. ASSUME NEW t \in Tasks, ActionSucceeds(t) \/ ActionFails(t) PROVE TypeOK' /\ GoroutineFitsStatus'
  BY <1>6 DEF ActionSucceeds, ActionFails
<1>7. ASSUME NEW t \in Tasks, DecidesToRetry(t) \/ GivesUp(t) PROVE TypeOK' /\ GoroutineFitsStatus'
  BY <1>7 DEF DecidesToRetry, GivesUp
<1>8. ASSUME NEW t \in Tasks, BackoffEnds(t) \/ SkipEnds(t) PROVE TypeOK' /\ GoroutineFitsStatus'
  BY <1>8 DEF BackoffEnds, SkipEnds
<1>9. ASSUME NEW t \in Tasks, SkipScans(t) PROVE TypeOK' /\ GoroutineFitsStatus'
  BY <1>9 DEF SkipScans, PendingDependents
<1>10. ASSUME NEW t \in Tasks, NEW i \in Tasks, SkipMarks(t, i) PROVE TypeOK' /\ GoroutineFitsStatus'
  BY <1>10 DEF SkipMarks, CollectedAreIdle
<1>11. ASSUME NEW t \in Tasks, GoroutineEnds(t) PROVE TypeOK' /\ GoroutineFitsStatus'
  <2>1. sem \in 0 .. Concurrency /\ sem > 0
    BY <1>11, SlotsStep
  <2>2. sem' \in 0 .. Concurrency
    BY <1>11, <2>1 DEF GoroutineEnds
  <2> QED
    BY <1>11, <2>2 DEF GoroutineEnds
<1> HIDE DEF DagCore, TypeOK, GoroutineFitsStatus
<1> QED
  BY <1>1, <1>2, <1>3, <1>4, <1>5, <1>6, <1>7, <1>8, <1>9, <1>10, <1>11 DEF Next, RunStep, TaskStep, ActionReturns

(* The stale lists and the dependencies.                                   *)
LEMMA ListsStep ==
  ASSUME DagCore, Next
  PROVE  ReadyStaysReady' /\ CollectedAreIdle' /\ Closed(status)'
<1> USE DagAssumption DEF DagCore, TypeOK
<1>1. CASE LooksAround
  BY <1>1 DEF LooksAround, ReadyTasks, GoroutineFitsStatus, ReadyStaysReady, DepsCompleted, CollectedAreIdle, Doomed,
     Closed, GorPhases, Terminal
<1>2. ASSUME NEW t \in Tasks, OwnStep(t)
      PROVE  ReadyStaysReady' /\ CollectedAreIdle' /\ Closed(status)'
  <2> USE <1>2 DEF OwnStep
  <2>1. \A d \in Tasks : status[d] \in Terminal => status'[d] = status[d]
    BY DEF Terminal
  <2>2. ReadyStaysReady'
    BY <2>1 DEF ReadyStaysReady, DepsCompleted, Terminal
  <2>3. CollectedAreIdle'
    BY <2>1 DEF CollectedAreIdle, Doomed, Terminal
  <2>4. Closed(status)'
    BY <2>1 DEF Closed, Started, Terminal
  <2> QED
    BY <2>2, <2>3, <2>4
<1>3. ASSUME NEW t \in Tasks, RunDispatches(t)
      PROVE  ReadyStaysReady' /\ CollectedAreIdle' /\ Closed(status)'
  <2> USE <1>3 DEF RunDispatches
  <2>1. status[t] = "Pending" /\ DepsCompleted(t)
    BY DEF ReadyStaysReady
  <2>2. ReadyStaysReady'
    BY <2>1 DEF ReadyStaysReady, DepsCompleted
  <2>3. CollectedAreIdle'
    BY <2>1 DEF CollectedAreIdle, Doomed, DepsCompleted
  <2>4. Closed(status)'
    BY <2>1 DEF Closed, Started, DepsCompleted
  <2> QED
    BY <2>2, <2>3, <2>4
<1>4. ASSUME NEW t \in Tasks, SkipScans(t)
      PROVE  ReadyStaysReady' /\ CollectedAreIdle' /\ Closed(status)'
  BY <1>4 DEF SkipScans, PendingDependents, GoroutineFitsStatus, ReadyStaysReady, DepsCompleted, CollectedAreIdle,
     Doomed, Closed, GorPhases, Terminal
<1>5. ASSUME NEW t \in Tasks, NEW i \in Tasks, SkipMarks(t, i)
      PROVE  ReadyStaysReady' /\ CollectedAreIdle' /\ Closed(status)'
  <2> USE <1>5 DEF SkipMarks
  <2>1. status[i] \in {"Pending", "Skipped"} /\ Doomed(i)
    BY DEF CollectedAreIdle
  <2>2. ReadyStaysReady'
    BY <2>1 DEF ReadyStaysReady, DepsCompleted, Doomed
  <2>3. CollectedAreIdle'
    BY <2>1 DEF CollectedAreIdle, Doomed
  <2>4. Closed(status)'
    BY <2>1 DEF Closed, Started
  <2> QED
    BY <2>2, <2>3, <2>4
<1> QED
  BY <1>1, <1>2, <1>3, <1>4, <1>5, StepKinds

LEMMA CoreNext == DagCore /\ [Next]_dagVars => DagCore'
<1>1. ASSUME DagCore, UNCHANGED dagVars PROVE DagCore'
  BY <1>1 DEF dagVars, DagCore, TypeOK, SlotsExact, HoldsSlot, GoroutineFitsStatus, ReadyStaysReady, DepsCompleted,
     CollectedAreIdle, Doomed, Closed
<1> QED
  BY <1>1, SlotsStep, PlacesStep, ListsStep DEF DagCore

------------------------------------------------------------------------------
(* What the steps do to a Completed task, and who starts one.              *)

LEMMA TerminalStays ==
  ASSUME DagCore, Next, NEW d \in Tasks, status[d] \in Terminal
  PROVE  status'[d] = status[d]
<1> USE DEF DagCore, TypeOK, Terminal
<1>1. CASE LooksAround
  BY <1>1 DEF LooksAround
<1>2. ASSUME NEW t \in Tasks, OwnStep(t) PROVE status'[d] = status[d]
  BY <1>2 DEF OwnStep
<1>3. ASSUME NEW t \in Tasks, RunDispatches(t) PROVE status'[d] = status[d]
  BY <1>3 DEF RunDispatches, ReadyStaysReady
<1>4. ASSUME NEW t \in Tasks, SkipScans(t) \/ \E i \in Tasks : SkipMarks(t, i) PROVE status'[d] = status[d]
  BY <1>4 DEF SkipScans, SkipMarks, CollectedAreIdle
<1> QED
  BY <1>1, <1>2, <1>3, <1>4, StepKinds

LEMMA CancelledStays == DagCore /\ Next /\ cancelled => cancelled'
  BY StepKinds DEF LooksAround, OwnStep, RunDispatches, SkipScans, SkipMarks

(* Only the dispatch gives a task its goroutine.                           *)
LEMMA StartedByDispatch ==
  ASSUME DagCore, Next, NEW t \in Tasks, gor[t] = "unstarted", gor'[t] # "unstarted"
  PROVE  t \in ready
<1> USE DEF DagCore, TypeOK
<1>1. ~ \E u \in Tasks : OwnStep(u)
  BY DEF OwnStep
<1>2. ~ LooksAround /\ ~ \E u \in Tasks : SkipScans(u) \/ \E i \in Tasks : SkipMarks(u, i)
  BY DEF LooksAround, SkipScans, SkipMarks
<1>3. PICK u \in Tasks : RunDispatches(u)
  BY <1>1, <1>2, StepKinds
<1> QED
  BY <1>3 DEF RunDispatches

LEMMA DepsBeforeStartStep == DagCore /\ DepsBeforeStart /\ [Next]_dagVars => DepsBeforeStart'
<1>1. ASSUME UNCHANGED dagVars, DepsBeforeStart PROVE DepsBeforeStart'
  BY <1>1 DEF dagVars, DepsBeforeStart, DepsCompleted
<1>2. ASSUME DagCore, DepsBeforeStart, Next, NEW t \in Tasks, gor'[t] # "unstarted", NEW d \in Deps[t]
      PROVE  status'[d] = "Completed"
  <2>1. DepsCompleted(t)
    BY <1>2, StartedByDispatch DEF DepsBeforeStart, DagCore, ReadyStaysReady
  <2> QED
    BY <1>2, <2>1, TerminalStays, DagAssumption DEF DepsCompleted, Terminal
<1> QED
  BY <1>1, <1>2 DEF DepsBeforeStart, DepsCompleted

------------------------------------------------------------------------------
(* The invariant of a run from the start.                                  *)

(* A task that never had a goroutine has not ended but by being skipped.   *)
UnstartedNotEnded == \A t \in Tasks : gor[t] = "unstarted" => status[t] \in {"Pending", "Skipped"}

DagInv == DagCore /\ UnstartedNotEnded /\ DepsBeforeStart /\ SkippedHasCause

LEMMA DagInit == Init => DagInv
  BY CoreInit DEF Init, DagInv, UnstartedNotEnded, DepsBeforeStart, SkippedHasCause

LEMMA UnstartedStep == DagCore /\ UnstartedNotEnded /\ [Next]_dagVars => UnstartedNotEnded'
<1> SUFFICES ASSUME DagCore, UnstartedNotEnded, Next PROVE UnstartedNotEnded'
  BY DEF dagVars, UnstartedNotEnded
<1> USE DEF DagCore, TypeOK, UnstartedNotEnded
<1>1. CASE LooksAround
  BY <1>1 DEF LooksAround
<1>2. ASSUME NEW t \in Tasks, OwnStep(t) PROVE UnstartedNotEnded'
  BY <1>2 DEF OwnStep
<1>3. ASSUME NEW t \in Tasks, RunDispatches(t) PROVE UnstartedNotEnded'
  BY <1>3 DEF RunDispatches
<1>4. ASSUME NEW t \in Tasks, SkipScans(t) \/ \E i \in Tasks : SkipMarks(t, i) PROVE UnstartedNotEnded'
  BY <1>4 DEF SkipScans, SkipMarks
<1> QED
  BY <1>1, <1>2, <1>3, <1>4, StepKinds

(* A skipped task keeps its cause: a failed or skipped dependency stays so.*)
LEMMA SkippedHasCauseStep == DagCore /\ SkippedHasCause /\ [Next]_dagVars => SkippedHasCause'
<1>1. ASSUME UNCHANGED dagVars, SkippedHasCause PROVE SkippedHasCause'
  BY <1>1 DEF dagVars, SkippedHasCause
<1>2. ASSUME DagCore, SkippedHasCause, Next PROVE SkippedHasCause'
  <2> USE <1>2, DagAssumption DEF DagCore, TypeOK
  <2>1. \A d \in Tasks : status[d] \in {"Failed", "Skipped"} => status'[d] \in {"Failed", "Skipped"}
    BY TerminalStays DEF Terminal
  <2>2. cancelled => cancelled'
    BY CancelledStays
  <2>3. ASSUME NEW t \in Tasks, status'[t] = "Skipped", status[t] # "Skipped" PROVE cancelled \/ Doomed(t)
    <3>1. ~LooksAround /\ ~ \E u \in Tasks : RunDispatches(u) \/ SkipScans(u)
      BY <2>3 DEF LooksAround, RunDispatches, SkipScans
    <3>2. ASSUME NEW u \in Tasks, OwnStep(u) PROVE cancelled
      BY <2>3, <3>2 DEF OwnStep
    <3>3. ASSUME NEW u \in Tasks, NEW i \in Tasks, SkipMarks(u, i) PROVE Doomed(t)
      BY <2>3, <3>3 DEF SkipMarks, CollectedAreIdle
    <3> QED
      BY <3>1, <3>2, <3>3, StepKinds
  <2> QED
    BY <2>1, <2>2, <2>3 DEF SkippedHasCause, Doomed
<1> QED
  BY <1>1, <1>2

LEMMA DagNext == DagInv /\ [Next]_dagVars => DagInv'
  BY CoreNext, UnstartedStep, DepsBeforeStartStep, SkippedHasCauseStep DEF DagInv

(* DagInv holds in every reachable state.                                  *)
THEOREM DagInvariant == Spec => []DagInv
  BY DagInit, DagNext, PTL DEF Spec

------------------------------------------------------------------------------
(* Types, and with them that the semaphore stays within its capacity.      *)
THEOREM TypeCorrect == Spec => []TypeOK
<1>1. DagInv => TypeOK
  BY DEF DagInv, DagCore
<1> QED
  BY <1>1, DagInvariant, PTL

(* No task is dispatched, retried or running whose dependencies are not    *)
(* all Completed, in any graph.                                            *)
THEOREM DepsBeforeStartHolds == Spec => []DepsBeforeStart
<1>1. DagInv => DepsBeforeStart
  BY DEF DagInv, DagCore
<1> QED
  BY <1>1, DagInvariant, PTL

(* The semaphore counts the goroutines that hold it, so no more than       *)
(* Concurrency actions are ever running.                                   *)
THEOREM SlotsExactHolds == Spec => []SlotsExact
<1>1. DagInv => SlotsExact
  BY DEF DagInv, DagCore
<1> QED
  BY <1>1, DagInvariant, PTL

(* skipDependents skips no task but those behind a failure.                *)
THEOREM SkippedHasCauseHolds == Spec => []SkippedHasCause
<1>1. DagInv => SkippedHasCause
  BY DEF DagInv, DagCore
<1> QED
  BY <1>1, DagInvariant, PTL

(* Nobody but its own goroutine changes the status of a started task, and  *)
(* terminal statuses are final: the unlocked gap in skipDependents is      *)
(* harmless because what it collected can no longer be dispatched.         *)
THEOREM StatusOwnedHolds == Spec => StatusOwned
<1> DEFINE Owned == \A t \in Tasks : status'[t] # status[t] =>
                      /\ status[t] \notin Terminal
                      /\ gor'[t] = gor[t] => status[t] = "Pending" /\ status'[t] = "Skipped"
<1>1. DagInv /\ [Next]_dagVars => [Owned]_dagVars
  <2> SUFFICES ASSUME DagCore, Next PROVE Owned
    BY DEF DagInv
  <2> USE DEF DagCore, TypeOK, Terminal
  <2>1. CASE LooksAround
    BY <2>1 DEF LooksAround
  <2>2. ASSUME NEW t \in Tasks, OwnStep(t) PROVE Owned
    BY <2>2 DEF OwnStep
  <2>3. ASSUME NEW t \in Tasks, RunDispatches(t) PROVE Owned
    BY <2>3 DEF RunDispatches, ReadyStaysReady
  <2>4. ASSUME NEW t \in Tasks, SkipScans(t) \/ \E i \in Tasks : SkipMarks(t, i) PROVE Owned
    BY <2>4 DEF SkipScans, SkipMarks, CollectedAreIdle
  <2> QED
    BY <2>1, <2>2, <2>3, <2>4, StepKinds
<1> QED
  BY <1>1, DagInvariant, PTL DEF Spec, StatusOwned

------------------------------------------------------------------------------
(* The retry budget, by the position of the goroutine: the failures so far *)
(* never exceed the budget before an attempt, and exceed it by exactly one *)
(* when the task is given up.                                              *)
AttemptsInBudget ==
  \A t \in Tasks :
    /\ gor[t] \in {"unstarted", "acquire"} => attempt[t] = 0
    /\ MaxRetries[t] >= 0 /\ gor[t] \in {"head", "action", "backoff"} => attempt[t] <= MaxRetries[t]

(* The budget is exact for every graph and every number of retries.        *)
THEOREM RetryBudgetHolds == Spec => []RetryBudget
<1> DEFINE Inv == AttemptsInBudget /\ RetryBudget
<1> USE DagAssumption
<1>1. Init => Inv
  BY DEF Init, AttemptsInBudget, RetryBudget
<1>2. DagInv /\ Inv /\ [Next]_dagVars => Inv'
  <2> SUFFICES ASSUME DagInv, Inv, [Next]_dagVars PROVE Inv'
    OBVIOUS
  <2> USE DEF DagInv, DagCore, TypeOK, AttemptsInBudget, RetryBudget
  <2>1. CASE UNCHANGED <<status, gor, attempt>>
    BY <2>1
  <2>2. ASSUME NEW t \in Tasks, RunDispatches(t) PROVE Inv'
    BY <2>2 DEF RunDispatches, ReadyStaysReady
  <2>3. ASSUME NEW t \in Tasks, NEW i \in Tasks, SkipMarks(t, i) PROVE Inv'
    BY <2>3 DEF SkipMarks
  <2>4. ASSUME NEW t \in Tasks, ActionFails(t) PROVE Inv'
    BY <2>4 DEF ActionFails, GoroutineFitsStatus
  <2>5. ASSUME NEW t \in Tasks, DecidesToRetry(t) \/ GivesUp(t) PROVE Inv'
    BY <2>5 DEF DecidesToRetry, GivesUp, RetriesExhausted
  <2>6. ASSUME NEW t \in Tasks,
               \/ AcquireSlot(t) \/ AcquireCancelled(t) \/ AttemptStarts(t) \/ BackoffEnds(t)
               \/ ActionSucceeds(t) \/ SkipEnds(t) \/ GoroutineEnds(t)
        PROVE  Inv'
    BY <2>6 DEF AcquireSlot, AcquireCancelled, AttemptStarts, BackoffEnds, ActionSucceeds, SkipEnds, GoroutineEnds
  <2> QED
    BY <2>1, <2>2, <2>3, <2>4, <2>5, <2>6 DEF Next, RunStep, TaskStep, ActionReturns, RunHead, RunLooksForReady,
       RunPolls, RunFinishes, SkipScans, Cancel, dagVars
<1> QED
  BY <1>1, <1>2, DagInvariant, PTL DEF Spec

------------------------------------------------------------------------------
(* A set of natural numbers that is not empty has a least element.         *)
LEMMA LeastNatural ==
  ASSUME NEW S \in SUBSET Nat, S # {}
  PROVE  \E m \in S : \A k \in S : m <= k
<1> DEFINE Less == OpToRel(<, Nat)
<1>1. IsWellFoundedOn(Less, Nat)
  BY NatLessThanWellFounded
<1>2. \A k, m \in Nat : k < m => <<k, m>> \in Less
  BY DEF OpToRel
<1> HIDE DEF Less
<1>3. \E R : IsWellFoundedOn(R, Nat) /\ \A k, m \in Nat : k < m => <<k, m>> \in R
  BY <1>1, <1>2, Zenon
<1>4. PICK R : IsWellFoundedOn(R, Nat) /\ \A k, m \in Nat : k < m => <<k, m>> \in R
  BY <1>3, Zenon
<1>5. PICK m \in S : \A k \in S : ~ (<<k, m>> \in R)
  <2>1. IsWellFoundedOn(R, Nat) /\ S \subseteq Nat
    BY <1>4, Zenon
  <2> QED
    BY <2>1, WFMin, Zenon
<1>6. \A k \in S : ~(k < m)
  BY <1>4, <1>5, Zenon
<1> QED
  BY <1>6, SMT

(* The graph has no cycle: of any tasks, one depends on no other of them.   *)
LEMMA NearestToRoots ==
  ASSUME NEW S \in SUBSET Tasks, S # {}
  PROVE  \E t \in S : \A d \in Deps[t] : d \notin S
<1>1. PICK rank \in [Tasks -> 1 .. Cardinality(Tasks)] : \A t \in Tasks : \A d \in Deps[t] : rank[d] < rank[t]
  BY DagAssumption, Zenon DEF DagAssumption
<1> DEFINE Ranks == {rank[t] : t \in S}
<1>2. Ranks \in SUBSET Nat /\ Ranks # {}
  <2>1. Cardinality(Tasks) \in Nat
    BY DagAssumption, FS_CardinalityType
  <2> QED
    BY <1>1, <2>1
<1>3. PICK m \in Ranks : \A k \in Ranks : m <= k
  BY <1>2, LeastNatural
<1>4. PICK t \in S : rank[t] = m
  BY <1>3
<1>5. ASSUME NEW d \in Deps[t], d \in S PROVE FALSE
  <2>1. rank[d] < rank[t] /\ rank[t] <= rank[d]
    BY <1>1, <1>3, <1>4, <1>5
  <2>2. rank[d] \in Nat /\ rank[t] \in Nat
    BY <1>2, <1>4, <1>5
  <2> QED
    BY <2>1, <2>2
<1> QED
  BY <1>4, <1>5

(* Without a cancellation and without a failure nothing is skipped: the    *)
(* cause of a skip lies nearer the roots.                                  *)
LEMMA NoFailureNoSkip ==
  ASSUME SkippedHasCause, ~cancelled, \A t \in Tasks : status[t] # "Failed"
  PROVE  \A t \in Tasks : status[t] # "Skipped"
<1> DEFINE Skipped == {t \in Tasks : status[t] = "Skipped"}
<1>1. SUFFICES ASSUME Skipped # {} PROVE FALSE
  OBVIOUS
<1>2. PICK t \in Skipped : \A d \in Deps[t] : d \notin Skipped
  BY <1>1, NearestToRoots
<1> QED
  BY <1>2, DagAssumption DEF SkippedHasCause

------------------------------------------------------------------------------
(* Nobody waits for a failure that was not passed on.                      *)

(* A pending dependent of a failed or skipped task is about to be skipped: *)
(* some goroutine has collected it, or reads that task's dependents next.  *)
SkipsFollow ==
  ~cancelled =>
    \A d \in Tasks : status[d] \in {"Failed", "Skipped"} =>
      \A u \in Tasks : d \in Deps[u] /\ status[u] = "Pending" =>
        \E t \in Tasks : gor[t] = "skip" /\ (scan[t] = d \/ u \in toSkip[t])

LEMMA SkipsFollowStep == DagCore /\ SkipsFollow /\ [Next]_dagVars => SkipsFollow'
<1>1. ASSUME UNCHANGED dagVars, SkipsFollow PROVE SkipsFollow'
  BY <1>1 DEF dagVars, SkipsFollow
<1> SUFFICES ASSUME DagCore, SkipsFollow, Next, ~cancelled, ~cancelled',
                    NEW d \in Tasks, status'[d] \in {"Failed", "Skipped"},
                    NEW u \in Tasks, d \in Deps[u], status'[u] = "Pending"
             PROVE  \E t \in Tasks : gor'[t] = "skip" /\ (scan'[t] = d \/ u \in toSkip'[t])
  BY <1>1, CancelledStays DEF SkipsFollow
<1> DEFINE Follows(t) == gor[t] = "skip" /\ (scan[t] = d \/ u \in toSkip[t])
<1> USE DagAssumption DEF DagCore, TypeOK
<1>2. status[u] = "Pending"
  BY TerminalStays, StepKinds DEF LooksAround, OwnStep, RunDispatches, SkipScans, SkipMarks, CollectedAreIdle
<1>3. CASE LooksAround
  BY <1>2, <1>3 DEF LooksAround, SkipsFollow
<1>4. ASSUME NEW p \in Tasks, OwnStep(p) PROVE \E t \in Tasks : Follows(t)'
  <2>1. CASE status[d] \in {"Failed", "Skipped"}
    <3>1. PICK t \in Tasks : Follows(t)
      BY <1>2, <2>1 DEF SkipsFollow
    <3>2. t # p
      BY <1>4, <3>1 DEF OwnStep
    <3> QED
      BY <1>4, <3>1, <3>2 DEF OwnStep
  <2>2. CASE status[d] \notin {"Failed", "Skipped"}
    <3>1. d = p /\ status'[d] = "Failed"
      BY <1>4, <2>2 DEF OwnStep
    <3> QED
      BY <1>4, <2>2, <3>1 DEF OwnStep
  <2> QED
    BY <2>1, <2>2
<1>5. ASSUME NEW p \in Tasks, RunDispatches(p) PROVE \E t \in Tasks : Follows(t)'
  <2>1. PICK t \in Tasks : Follows(t)
    BY <1>2, <1>5 DEF RunDispatches, SkipsFollow
  <2> QED
    BY <1>5, <2>1 DEF RunDispatches, ReadyStaysReady
<1>6. ASSUME NEW p \in Tasks, SkipScans(p) PROVE \E t \in Tasks : Follows(t)'
  <2>1. PICK t \in Tasks : Follows(t)
    BY <1>2, <1>6 DEF SkipScans, SkipsFollow
  <2>2. CASE t = p /\ scan[t] = d
    BY <1>2, <1>6, <2>2 DEF SkipScans, PendingDependents
  <2> QED
    BY <1>6, <2>1, <2>2 DEF SkipScans
<1>7. ASSUME NEW p \in Tasks, NEW i \in Tasks, SkipMarks(p, i) PROVE \E t \in Tasks : Follows(t)'
  <2>1. CASE d = i
    BY <1>7, <2>1 DEF SkipMarks
  <2>2. CASE d # i
    <3>1. PICK t \in Tasks : Follows(t)
      BY <1>2, <1>7, <2>2 DEF SkipMarks, SkipsFollow
    <3>2. u # i
      BY <1>7 DEF SkipMarks
    <3> QED
      BY <1>7, <3>1, <3>2 DEF SkipMarks
  <2> QED
    BY <2>1, <2>2
<1> QED
  BY <1>3, <1>4, <1>5, <1>6, <1>7, StepKinds

(* Of the tasks nobody works on, the one nearest the roots is ready or has  *)
(* a dependency whose failure is still being passed on.                    *)
LEMMA FollowedNotStranded == DagCore /\ SkipsFollow => NoTaskStranded
<1> SUFFICES ASSUME DagCore, SkipsFollow, ~cancelled, \A t \in Tasks : gor[t] \in {"unstarted", "done"}, ~AllTerminal
             PROVE  ReadyTasks # {}
  BY DEF NoTaskStranded
<1> DEFINE Waiting == {t \in Tasks : status[t] \notin Terminal}
<1>1. Waiting # {}
  BY DEF AllTerminal
<1>2. PICK t \in Waiting : \A d \in Deps[t] : d \notin Waiting
  BY <1>1, NearestToRoots
<1>3. status[t] = "Pending"
  BY DEF DagCore, TypeOK, GoroutineFitsStatus, Terminal
<1>4. ASSUME NEW d \in Deps[t] PROVE status[d] = "Completed"
  BY <1>2, <1>3, DagAssumption DEF SkipsFollow, Terminal
<1> QED
  BY <1>3, <1>4 DEF ReadyTasks, DepsCompleted

(* The polling loop of Run never waits for nothing, in any graph.          *)
THEOREM NoTaskStrandedHolds == Spec => []NoTaskStranded
<1>1. Init => SkipsFollow
  BY DEF Init, SkipsFollow
<1>2. DagInv => DagCore
  BY DEF DagInv
<1> QED
  BY <1>1, <1>2, FollowedNotStranded, DagInvariant, SkipsFollowStep, PTL DEF Spec

------------------------------------------------------------------------------
(* What Run has found out by the time it waits, and when it has returned.  *)
RunKnows ==
  /\ runPc # "returned" => runErr = "none"
  /\ runPc = "wait" => AllTerminal
  /\ runErr \in {"nil", "failed"} =>
       /\ AllTerminal
       /\ \A t \in Tasks : gor[t] \in {"unstarted", "done"}
       /\ runErr = "failed" <=> \E t \in Tasks : status[t] = "Failed"
  /\ runErr = "ctx" => cancelled

LEMMA RunKnowsStep == DagCore /\ RunKnows /\ [Next]_dagVars => RunKnows'
<1> SUFFICES ASSUME DagCore, RunKnows, [Next]_dagVars PROVE RunKnows'
  OBVIOUS
<1> USE DEF DagCore, TypeOK, RunKnows, AllTerminal
<1>1. CASE RunHead
  BY <1>1 DEF RunHead, RunReturns
<1>2. CASE RunLooksForReady
  BY <1>2 DEF RunLooksForReady
<1>3. CASE RunPolls
  BY <1>3 DEF RunPolls, RunReturns
<1>4. ASSUME NEW t \in Tasks, RunDispatches(t) PROVE RunKnows'
  BY <1>4 DEF RunDispatches
<1>5. CASE RunFinishes
  BY <1>5 DEF RunFinishes, RunReturns
<1>6. ASSUME NEW t \in Tasks, TaskStep(t) \/ ActionReturns(t) PROVE RunKnows'
  <2>1. UNCHANGED <<runPc, runErr, cancelled>> /\ gor[t] \notin {"unstarted", "done"}
    BY <1>6 DEF TaskStep, ActionReturns, AcquireSlot, AcquireCancelled, AttemptStarts, DecidesToRetry, GivesUp,
       BackoffEnds, SkipScans, SkipMarks, SkipEnds, GoroutineEnds, ActionSucceeds, ActionFails
  <2>2. AllTerminal => AllTerminal'
    BY <1>6, TerminalStays DEF Next
  <2> QED
    BY <2>1, <2>2
<1>7. CASE Cancel
  BY <1>7 DEF Cancel
<1>8. CASE UNCHANGED dagVars
  BY <1>8 DEF dagVars
<1> QED
  BY <1>1, <1>2, <1>3, <1>4, <1>5, <1>6, <1>7, <1>8 DEF Next, RunStep

(* RunKnows holds in every reachable state.                                *)
THEOREM RunKnowsInvariant == Spec => []RunKnows
<1>1. Init => RunKnows
  BY DEF Init, RunKnows
<1> QED
  BY <1>1, RunKnowsStep, DagInvariant, PTL DEF Spec, DagInv

(* The report of Run is honest in every graph.                             *)
THEOREM RunReportHolds == Spec => []RunReport
<1>1. DagInv /\ RunKnows => RunReport
  <2> SUFFICES ASSUME DagInv, RunKnows PROVE RunReport
    OBVIOUS
  <2>1. runErr = "nil" /\ ~cancelled => \A t \in Tasks : status[t] = "Completed"
    BY NoFailureNoSkip DEF DagInv, RunKnows, AllTerminal, Terminal
  <2> QED
    BY <2>1 DEF RunKnows, RunReport
<1> QED
  BY <1>1, DagInvariant, RunKnowsInvariant, PTL

------------------------------------------------------------------------------
(* The resolver implements TaskGraph.                                      *)

Executes == Graph!GraphNext \/ UNCHANGED Graph!graphVars

LEMMA Phases ==
  /\ PhaseOf("Pending") = "waiting" /\ PhaseOf("Queued") = "working" /\ PhaseOf("Running") = "working"
  /\ PhaseOf("Completed") = "done" /\ PhaseOf("Failed") = "failed" /\ PhaseOf("Skipped") = "skipped"
  BY DEF PhaseOf

(* Run's own steps, and the cancellation.                                  *)
LEMMA RunExecutes ==
  ASSUME DagCore, RunKnows, RunHead \/ RunLooksForReady \/ RunPolls \/ RunFinishes \/ Cancel
  PROVE  Executes
<1> USE DEF RunKnows, RunReturns
<1>1. ASSUME UNCHANGED <<status, cancelled, runErr>> PROVE Executes
  BY <1>1 DEF Executes, Graph!graphVars
<1>2. ASSUME runErr = "none", runErr' = "ctx", cancelled, UNCHANGED <<status, cancelled>> PROVE Executes
  BY <1>2 DEF Executes, Graph!GraphNext, Graph!ReportGraph
<1>3. CASE RunHead \/ RunPolls
  BY <1>1, <1>2, <1>3 DEF RunHead, RunPolls
<1>4. CASE RunLooksForReady
  BY <1>1, <1>4 DEF RunLooksForReady
<1>5. CASE RunFinishes
  <2> DEFINE Phase == [t \in Tasks |-> PhaseOf(status[t])]
  <2>1. \A t \in Tasks : Phase[t] \in {"done", "failed", "skipped"} /\ (Phase[t] = "failed" <=> status[t] = "Failed")
    BY <1>5, Phases DEF RunFinishes, AllTerminal, Terminal
  <2>2. runErr' = IF \E t \in Tasks : Phase[t] = "failed" THEN "failed" ELSE "nil"
    BY <1>5, <2>1 DEF RunFinishes
  <2>3. Graph!ReportGraph
    BY <1>5, <2>1, <2>2 DEF RunFinishes, Graph!ReportGraph, Graph!Ends
  <2> QED
    BY <2>3 DEF Executes, Graph!GraphNext
<1>6. CASE Cancel
  <2>1. Graph!StopGraph
    BY <1>6 DEF Cancel, Graph!StopGraph
  <2> QED
    BY <2>1 DEF Executes, Graph!GraphNext
<1> QED
  BY <1>3, <1>4, <1>5, <1>6

(* The steps that change the status of a task.                             *)
LEMMA TaskExecutes ==
  ASSUME DagCore, TypeOK', RunKnows, NEW t \in Tasks,
         OwnStep(t) \/ RunDispatches(t) \/ SkipScans(t) \/ \E i \in Tasks : SkipMarks(t, i)
  PROVE  Executes
<1> USE DagAssumption DEF DagCore, TypeOK
<1>1. ASSUME UNCHANGED <<status, cancelled, runErr>> PROVE Executes
  BY <1>1 DEF Executes, Graph!graphVars
<1> DEFINE Phase == [q \in Tasks |-> PhaseOf(status[q])]
<1>2. ASSUME NEW i \in Tasks, \A q \in Tasks \ {i} : status'[q] = status[q]
      PROVE  Phase' = [Phase EXCEPT ![i] = PhaseOf(status'[i])]
  BY <1>2
<1>3. CASE OwnStep(t)
  <2>1. CASE status'[t] = status[t]
    <3>1. status' = status
      BY <1>3, <2>1 DEF OwnStep
    <3> QED
      BY <1>1, <1>3, <3>1 DEF OwnStep
  <2>2. CASE status'[t] # status[t]
    <3>1. Phase' = [Phase EXCEPT ![t] = PhaseOf(status'[t])] /\ Phase[t] = "working"
      BY <1>2, <1>3, <2>2, Phases DEF OwnStep
    <3>2. CASE status'[t] \in {"Queued", "Running"}
      <4>1. Phase' = Phase
        BY <3>1, <3>2, Phases
      <4> QED
        BY <1>3, <4>1 DEF OwnStep, Executes, Graph!graphVars
    <3>3. CASE status'[t] \in {"Completed", "Failed", "Skipped"}
      <4>1. \/ PhaseOf(status'[t]) \in {"done", "failed"}
            \/ PhaseOf(status'[t]) = "skipped" /\ cancelled
        BY <1>3, <2>2, <3>3, Phases DEF OwnStep
      <4>2. Graph!EndTask(t)
        BY <1>3, <3>1, <4>1 DEF OwnStep, Graph!EndTask, Graph!Turns
      <4> QED
        BY <4>2 DEF Executes, Graph!GraphNext
    <3> QED
      BY <1>3, <2>2, <3>2, <3>3 DEF OwnStep, Statuses
  <2> QED
    BY <2>1, <2>2
<1>4. CASE RunDispatches(t)
  <2>1. status[t] = "Pending" /\ \A d \in Deps[t] : status[d] = "Completed"
    BY <1>4 DEF RunDispatches, ReadyStaysReady, DepsCompleted
  <2>2. Phase' = [Phase EXCEPT ![t] = "working"] /\ Phase[t] = "waiting" /\ \A d \in Deps[t] : Phase[d] = "done"
    BY <1>2, <1>4, <2>1, Phases DEF RunDispatches
  <2>3. Graph!StartTask(t)
    BY <1>4, <2>2 DEF RunDispatches, RunKnows, Graph!StartTask, Graph!Turns
  <2> QED
    BY <2>3 DEF Executes, Graph!GraphNext
<1>5. CASE SkipScans(t)
  BY <1>1, <1>5 DEF SkipScans
<1>6. ASSUME NEW i \in Tasks, SkipMarks(t, i) PROVE Executes
  <2>1. status[i] \in {"Pending", "Skipped"} /\ \E d \in Deps[i] : status[d] \in {"Failed", "Skipped"}
    BY <1>6 DEF SkipMarks, CollectedAreIdle, Doomed
  <2>2. CASE status[i] = "Skipped"
    <3>1. status' = status
      BY <1>6, <2>2 DEF SkipMarks
    <3> QED
      BY <1>1, <1>6, <3>1 DEF SkipMarks
  <2>3. CASE status[i] = "Pending"
    <3>1. Phase' = [Phase EXCEPT ![i] = "skipped"] /\ Phase[i] = "waiting"
      BY <1>2, <1>6, <2>3, Phases DEF SkipMarks
    <3>2. \E d \in Deps[i] : Phase[d] \in {"failed", "skipped"}
      BY <2>1, Phases
    <3>3. Graph!SkipTask(i)
      BY <1>6, <3>1, <3>2 DEF SkipMarks, Graph!SkipTask, Graph!Turns
    <3> QED
      BY <3>3 DEF Executes, Graph!GraphNext
  <2> QED
    BY <2>1, <2>2, <2>3
<1> QED
  BY <1>3, <1>4, <1>5, <1>6

(* Every step of the resolver is a step of TaskGraph or changes nothing    *)
(* there: stale lists, retries, dependents collected before a lock was     *)
(* given up and the early returns of Run show in no task, in any graph.    *)
THEOREM ImplementsTaskGraphHolds == Spec => ImplementsTaskGraph
<1>1. Init => Graph!GraphInit
  BY Phases DEF Init, Graph!GraphInit
<1>2. DagInv /\ DagInv' /\ RunKnows /\ [Next]_dagVars => Executes
  <2> SUFFICES ASSUME DagCore, TypeOK', RunKnows, Next PROVE Executes
    BY DEF DagInv, DagCore, Executes, dagVars, Graph!graphVars
  <2> QED
    BY RunExecutes, TaskExecutes, StepKinds
<1> QED
  BY <1>1, <1>2, DagInvariant, RunKnowsInvariant, PTL DEF Spec, Executes, ImplementsTaskGraph, Graph!GraphSpec

==============================================================================

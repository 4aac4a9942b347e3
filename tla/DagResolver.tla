----------------------------- MODULE DagResolver -----------------------------
(***************************************************************************)
(* Parallel execution of a task graph: pkg/dag/resolver.go (Resolver.Run,  *)
(* executeTask, skipDependents) over the statuses of pkg/dag/dag.go.       *)
(*                                                                         *)
(* The scheduling loop of Run, one goroutine per dispatched task and the   *)
(* cancellation of the context interleave.  Each step is one critical      *)
(* section of graph.mu, one channel operation, or the return of the        *)
(* task's action.                                                          *)
(***************************************************************************)
EXTENDS Integers, FiniteSets

CONSTANTS
  Tasks,        \* task IDs
  Deps,         \* Task.Dependencies of each task
  MaxRetries,   \* Task.MaxRetries: 0 none, n > 0 at most n, negative no limit
  Concurrency,  \* capacity of Resolver.sem
  NoTask

(* What Run requires of the graph before it starts: TopologicalOrder found *)
(* neither an unknown dependency nor a cycle.                              *)
ASSUME DagAssumption ==
  /\ IsFiniteSet(Tasks)
  /\ NoTask \notin Tasks
  /\ Deps \in [Tasks -> SUBSET Tasks]
  /\ \E rank \in [Tasks -> 1 .. Cardinality(Tasks)] :
        \A t \in Tasks : \A d \in Deps[t] : rank[d] < rank[t]
  /\ MaxRetries \in [Tasks -> Int]
  /\ Concurrency \in Nat \ {0}

VARIABLES
  status,     \* Task.Status
  gor,        \* where the goroutine of a dispatched task stands
  attempt,    \* failed attempts in the loop of executeTask
  toSkip,     \* skipDependents of a failed task: IDs it still has to mark
  scan,       \* skipDependents of a failed task: the ID whose dependents it reads next
  sem,        \* len(r.sem)
  runPc,      \* where Run stands
  ready,      \* the list returned by readyTasks, as far as not yet dispatched
  runErr,     \* what Run returned
  cancelled   \* ctx.Err() # nil

dagVars == <<status, gor, attempt, toSkip, scan, sem, runPc, ready, runErr, cancelled>>

Statuses  == {"Pending", "Queued", "Running", "Completed", "Failed", "Skipped"}
Terminal  == {"Completed", "Failed", "Skipped"}

(* "unstarted" and "done" aside: waiting for a slot, at the head of the    *)
(* attempt loop, inside the action, in the failure path, sleeping before a *)
(* retry, in skipDependents, and about to run its deferred calls.          *)
GorPhases == {"unstarted", "acquire", "head", "action", "failed", "backoff", "skip", "defers", "done"}
HoldsSlot(t) == gor[t] \in {"head", "action", "failed", "backoff", "skip", "defers"}
RunPhases == {"loop", "look", "dispatch", "poll", "wait", "returned"}

------------------------------------------------------------------------------
Init ==
  /\ status = [t \in Tasks |-> "Pending"]
  /\ gor = [t \in Tasks |-> "unstarted"]
  /\ attempt = [t \in Tasks |-> 0]
  /\ toSkip = [t \in Tasks |-> {}]
  /\ scan = [t \in Tasks |-> NoTask]
  /\ sem = 0
  /\ runPc = "loop"
  /\ ready = {}
  /\ runErr = "none"
  /\ cancelled = FALSE

------------------------------------------------------------------------------
(* The loop of Run.                                                        *)

\* Mutant: a task is ready once its dependencies are terminal.
ReadyWhenTerminal == {t \in Tasks : status[t] = "Pending" /\ \A d \in Deps[t] : status[d] \in Terminal}

DepsCompleted(t) == \A d \in Deps[t] : status[d] = "Completed"
ReadyTasks       == {t \in Tasks : status[t] = "Pending" /\ DepsCompleted(t)}
AllTerminal      == \A t \in Tasks : status[t] \in Terminal

RunReturns(err) == runPc' = "returned" /\ runErr' = err

\* Mutant: the loop does not look at the context.
RunHeadNoCtx ==
  /\ runPc = "loop"
  /\ runPc' = "look"
  /\ UNCHANGED <<status, gor, attempt, toSkip, scan, sem, ready, runErr, cancelled>>

\* The ctx.Err check at the head of the loop.
RunHead ==
  /\ runPc = "loop"
  /\ IF cancelled THEN RunReturns("ctx") ELSE runPc' = "look" /\ UNCHANGED runErr
  /\ UNCHANGED <<status, gor, attempt, toSkip, scan, sem, ready, cancelled>>

\* readyTasks under the read lock; an empty list leads to allTerminal.
RunLooksForReady ==
  /\ runPc = "look"
  /\ ready' = ReadyTasks
  /\ runPc' = IF ReadyTasks = {} THEN "poll" ELSE "dispatch"
  /\ UNCHANGED <<status, gor, attempt, toSkip, scan, sem, runErr, cancelled>>

\* allTerminal under a read lock of its own, then wg.Wait or the select of
\* the polling timer and ctx.Done.
RunPolls ==
  /\ runPc = "poll"
  /\ \/ AllTerminal /\ runPc' = "wait" /\ UNCHANGED runErr
     \/ ~AllTerminal /\ runPc' = "loop" /\ UNCHANGED runErr
     \/ ~AllTerminal /\ cancelled /\ RunReturns("ctx")
  /\ UNCHANGED <<status, gor, attempt, toSkip, scan, sem, ready, cancelled>>

\* One iteration of the dispatch loop: setStatus(Queued) and go func.
RunDispatches(t) ==
  /\ runPc = "dispatch"
  /\ t \in ready
  /\ status' = [status EXCEPT ![t] = "Queued"]
  /\ gor' = [gor EXCEPT ![t] = "acquire"]
  /\ ready' = ready \ {t}
  /\ runPc' = IF ready = {t} THEN "loop" ELSE "dispatch"
  /\ UNCHANGED <<attempt, toSkip, scan, sem, runErr, cancelled>>

\* Mutant: no wg.Wait.
RunFinishesEarly ==
  /\ runPc = "wait"
  /\ RunReturns(IF \E t \in Tasks : status[t] = "Failed" THEN "failed" ELSE "nil")
  /\ UNCHANGED <<status, gor, attempt, toSkip, scan, sem, ready, cancelled>>

\* wg.Wait and summariseFailures.
RunFinishes ==
  /\ runPc = "wait"
  /\ \A t \in Tasks : gor[t] \in {"unstarted", "done"}
  /\ RunReturns(IF \E t \in Tasks : status[t] = "Failed" THEN "failed" ELSE "nil")
  /\ UNCHANGED <<status, gor, attempt, toSkip, scan, sem, ready, cancelled>>

------------------------------------------------------------------------------
(* The goroutine of a task.                                                *)

\* Mutant: the semaphore admits one task more.
AcquireOneMore(t) ==
  /\ gor[t] = "acquire"
  /\ sem <= Concurrency
  /\ sem' = sem + 1
  /\ gor' = [gor EXCEPT ![t] = "head"]
  /\ UNCHANGED <<status, attempt, toSkip, scan, runPc, ready, runErr, cancelled>>

\* The select on the semaphore and ctx.Done, either if both are ready.
AcquireSlot(t) ==
  /\ gor[t] = "acquire"
  /\ sem < Concurrency
  /\ sem' = sem + 1
  /\ gor' = [gor EXCEPT ![t] = "head"]
  /\ UNCHANGED <<status, attempt, toSkip, scan, runPc, ready, runErr, cancelled>>

\* Mutant: the receive is deferred before the slot is held.
AcquireCancelledReleases(t) ==
  /\ gor[t] = "acquire"
  /\ cancelled
  /\ sem > 0
  /\ sem' = sem - 1
  /\ status' = [status EXCEPT ![t] = "Skipped"]
  /\ gor' = [gor EXCEPT ![t] = "done"]
  /\ UNCHANGED <<attempt, toSkip, scan, runPc, ready, runErr, cancelled>>

AcquireCancelled(t) ==
  /\ gor[t] = "acquire"
  /\ cancelled
  /\ status' = [status EXCEPT ![t] = "Skipped"]
  /\ gor' = [gor EXCEPT ![t] = "done"]
  /\ UNCHANGED <<attempt, toSkip, scan, sem, runPc, ready, runErr, cancelled>>

\* Mutant: a retry starts without looking at the context.
AttemptStartsNoCtx(t) ==
  /\ gor[t] = "head"
  /\ status' = [status EXCEPT ![t] = "Running"]
  /\ gor' = [gor EXCEPT ![t] = "action"]
  /\ UNCHANGED <<attempt, toSkip, scan, sem, runPc, ready, runErr, cancelled>>

\* Head of the attempt loop: ctx.Err, then setStatus(Running) and the action.
AttemptStarts(t) ==
  /\ gor[t] = "head"
  /\ IF cancelled
       THEN status' = [status EXCEPT ![t] = "Skipped"] /\ gor' = [gor EXCEPT ![t] = "defers"]
       ELSE status' = [status EXCEPT ![t] = "Running"] /\ gor' = [gor EXCEPT ![t] = "action"]
  /\ UNCHANGED <<attempt, toSkip, scan, sem, runPc, ready, runErr, cancelled>>

ActionSucceeds(t) ==
  /\ gor[t] = "action"
  /\ status' = [status EXCEPT ![t] = "Completed"]
  /\ gor' = [gor EXCEPT ![t] = "defers"]
  /\ UNCHANGED <<attempt, toSkip, scan, sem, runPc, ready, runErr, cancelled>>

\* The action returns an error, panics, or is nil.  The root cause analysis
\* and the critical section that records RetryCount and ErrMsg follow.
\* RetryCount has no upper limit without a retry limit and is not counted then.
ActionFails(t) ==
  /\ gor[t] = "action"
  /\ attempt' = IF MaxRetries[t] < 0 THEN attempt ELSE [attempt EXCEPT ![t] = @ + 1]
  /\ gor' = [gor EXCEPT ![t] = "failed"]
  /\ UNCHANGED <<status, toSkip, scan, sem, runPc, ready, runErr, cancelled>>

\* Mutant: the first failure is not counted against the budget.
RetriesExhaustedLate(t) == MaxRetries[t] >= 0 /\ attempt[t] > MaxRetries[t] + 1

\* attempt in the code is attempt[t] - 1 here: the failure is already counted.
RetriesExhausted(t) == MaxRetries[t] >= 0 /\ attempt[t] > MaxRetries[t]

\* Retry after the back-off, or setStatus(Failed) and on to skipDependents.
DecidesToRetry(t) ==
  /\ gor[t] = "failed"
  /\ ~RetriesExhausted(t)
  /\ gor' = [gor EXCEPT ![t] = "backoff"]
  /\ UNCHANGED <<status, attempt, toSkip, scan, sem, runPc, ready, runErr, cancelled>>

\* Mutant: dependents of a failed task are left as they are.
GivesUpSilently(t) ==
  /\ gor[t] = "failed"
  /\ RetriesExhausted(t)
  /\ status' = [status EXCEPT ![t] = "Failed"]
  /\ gor' = [gor EXCEPT ![t] = "defers"]
  /\ UNCHANGED <<attempt, toSkip, scan, sem, runPc, ready, runErr, cancelled>>

GivesUp(t) ==
  /\ gor[t] = "failed"
  /\ RetriesExhausted(t)
  /\ status' = [status EXCEPT ![t] = "Failed"]
  /\ gor' = [gor EXCEPT ![t] = "skip"]
  /\ scan' = [scan EXCEPT ![t] = t]
  /\ UNCHANGED <<attempt, toSkip, sem, runPc, ready, runErr, cancelled>>

\* The select of the retry timer and ctx.Done.
BackoffEnds(t) ==
  /\ gor[t] = "backoff"
  /\ \/ gor' = [gor EXCEPT ![t] = "head"] /\ UNCHANGED status
     \/ /\ cancelled
        /\ status' = [status EXCEPT ![t] = "Skipped"]
        /\ gor' = [gor EXCEPT ![t] = "defers"]
  /\ UNCHANGED <<attempt, toSkip, scan, sem, runPc, ready, runErr, cancelled>>

\* Mutant: everything that has not ended is collected.
UnfinishedOthers(i) == {u \in Tasks : status[u] \notin Terminal /\ u # i}

\* skipDependents, first half: collect the pending dependents of an ID under
\* the read lock.
PendingDependents(i) == {u \in Tasks : status[u] = "Pending" /\ i \in Deps[u]}

SkipScans(t) ==
  /\ gor[t] = "skip"
  /\ scan[t] # NoTask
  /\ toSkip' = [toSkip EXCEPT ![t] = @ \cup PendingDependents(scan[t])]
  /\ scan' = [scan EXCEPT ![t] = NoTask]
  /\ UNCHANGED <<status, gor, attempt, sem, runPc, ready, runErr, cancelled>>

\* skipDependents, second half: mark one collected ID, later and without
\* reading its status again, then recurse into it.  Siblings come in map
\* order, that is in any order; the model lets nested levels mix too.
SkipMarks(t, i) ==
  /\ gor[t] = "skip"
  /\ scan[t] = NoTask
  /\ i \in toSkip[t]
  /\ status' = [status EXCEPT ![i] = "Skipped"]
  /\ toSkip' = [toSkip EXCEPT ![t] = @ \ {i}]
  /\ scan' = [scan EXCEPT ![t] = i]
  /\ UNCHANGED <<gor, attempt, sem, runPc, ready, runErr, cancelled>>

SkipEnds(t) ==
  /\ gor[t] = "skip"
  /\ scan[t] = NoTask
  /\ toSkip[t] = {}
  /\ gor' = [gor EXCEPT ![t] = "defers"]
  /\ UNCHANGED <<status, attempt, toSkip, scan, sem, runPc, ready, runErr, cancelled>>

\* The deferred receive from the semaphore and wg.Done.
GoroutineEnds(t) ==
  /\ gor[t] = "defers"
  /\ sem' = sem - 1
  /\ gor' = [gor EXCEPT ![t] = "done"]
  /\ UNCHANGED <<status, attempt, toSkip, scan, runPc, ready, runErr, cancelled>>

Cancel ==
  /\ ~cancelled
  /\ cancelled' = TRUE
  /\ UNCHANGED <<status, gor, attempt, toSkip, scan, sem, runPc, ready, runErr>>

------------------------------------------------------------------------------
RunStep ==
  \/ RunHead
  \/ RunLooksForReady
  \/ RunPolls
  \/ \E t \in Tasks : RunDispatches(t)
  \/ RunFinishes

TaskStep(t) ==
  \/ AcquireSlot(t)
  \/ AcquireCancelled(t)
  \/ AttemptStarts(t)
  \/ DecidesToRetry(t)
  \/ GivesUp(t)
  \/ BackoffEnds(t)
  \/ SkipScans(t)
  \/ \E i \in Tasks : SkipMarks(t, i)
  \/ SkipEnds(t)
  \/ GoroutineEnds(t)

ActionReturns(t) == ActionSucceeds(t) \/ ActionFails(t)

Next ==
  \/ RunStep
  \/ \E t \in Tasks : TaskStep(t) \/ ActionReturns(t)
  \/ Cancel

(* Goroutines that can move do.  A goroutine competing for the semaphore   *)
(* is served eventually, since Go queues the senders of a channel in order. *)
Scheduling ==
  /\ WF_dagVars(RunStep)
  /\ \A t \in Tasks : WF_dagVars(TaskStep(t)) /\ SF_dagVars(AcquireSlot(t))

Spec == Init /\ [][Next]_dagVars /\ Scheduling

(* What the code leaves to the authors of the actions: they return, and an *)
(* action retried without limit succeeds in the end.                       *)
ActionsReturn  == \A t \in Tasks : WF_dagVars(ActionReturns(t))
ActionsSucceed == \A t \in Tasks : MaxRetries[t] < 0 => SF_dagVars(ActionSucceeds(t))

------------------------------------------------------------------------------
TypeOK ==
  /\ status \in [Tasks -> Statuses]
  /\ gor \in [Tasks -> GorPhases]
  /\ attempt \in [Tasks -> Nat]
  /\ toSkip \in [Tasks -> SUBSET Tasks]
  /\ scan \in [Tasks -> Tasks \cup {NoTask}]
  /\ sem \in 0 .. Concurrency
  /\ runPc \in RunPhases
  /\ ready \in SUBSET Tasks
  /\ runErr \in {"none", "nil", "ctx", "failed"}
  /\ cancelled \in BOOLEAN

(* A task has a goroutine only when every dependency is Completed, and they *)
(* stay Completed whatever fails, retries or is cancelled meanwhile: the    *)
(* list of readyTasks may be stale by the time it is dispatched             *)
(* (resolver.go 92 and 108).                                                *)
DepsBeforeStart == \A t \in Tasks : gor[t] # "unstarted" => DepsCompleted(t)

(* The semaphore counts exactly the goroutines between their acquisition   *)
(* and their deferred receive, so at most Concurrency actions run at once. *)
SlotsExact == sem = Cardinality({t \in Tasks : HoldsSlot(t)})

(* A task is Failed after exactly MaxRetries + 1 failed attempts, and never *)
(* when its retries are unlimited (resolver.go 186-192).                    *)
RetryBudget ==
  \A t \in Tasks :
    /\ MaxRetries[t] >= 0 => attempt[t] <= MaxRetries[t] + 1
    /\ status[t] = "Failed" => MaxRetries[t] >= 0 /\ attempt[t] = MaxRetries[t] + 1

(* Nothing is skipped without a reason: unless the context was cancelled, a *)
(* skipped task has a dependency that failed or was skipped itself.         *)
SkippedHasCause ==
  \A t \in Tasks : status[t] = "Skipped" =>
    cancelled \/ \E d \in Deps[t] : status[d] \in {"Failed", "Skipped"}

(* What Run reports: nil or a failure summary only after every goroutine   *)
(* has ended with every task terminal, a failure summary exactly when some *)
(* task failed, and, without a cancellation, nil only when all the work    *)
(* was done.                                                               *)
RunReport ==
  /\ runErr \in {"nil", "failed"} => AllTerminal /\ \A t \in Tasks : gor[t] \in {"unstarted", "done"}
  /\ runErr \in {"nil", "failed"} => (runErr = "failed" <=> \E t \in Tasks : status[t] = "Failed")
  /\ runErr = "nil" /\ ~cancelled => \A t \in Tasks : status[t] = "Completed"
  /\ runErr = "ctx" => cancelled

(* Only a task's own goroutine changes its status, but for the dispatch and *)
(* the skipping of a task that is still Pending; and a terminal status is  *)
(* final.  skipDependents marks IDs it collected before it released the    *)
(* lock (resolver.go 299-302): nothing may have started them meanwhile.    *)
StatusOwned ==
  [][\A t \in Tasks : status'[t] # status[t] =>
       /\ status[t] \notin Terminal
       /\ gor'[t] = gor[t] => status[t] = "Pending" /\ status'[t] = "Skipped"]_dagVars

(* The polling loop never waits for nothing ("No ready tasks - check if we *)
(* are done or deadlocked", resolver.go 94, but no deadlock is looked for):*)
(* when nothing is ready and no goroutine is left, every task has ended.   *)
(* A failure is passed on to the last dependent, through two goroutines    *)
(* that skip at the same time and dependents collected before the lock was *)
(* given up (resolver.go 286-307).                                         *)
NoTaskStranded ==
  ~cancelled /\ ReadyTasks = {} /\ (\A t \in Tasks : gor[t] \in {"unstarted", "done"})
    => AllTerminal

\* TaskGraph, which knows neither queues nor attempts.
PhaseOf(st) ==
  CASE st = "Pending" -> "waiting"
    [] st \in {"Queued", "Running"} -> "working"
    [] st = "Completed" -> "done"
    [] st = "Failed" -> "failed"
    [] st = "Skipped" -> "skipped"

Graph == INSTANCE TaskGraph WITH
  phase <- [t \in Tasks |-> PhaseOf(status[t])],
  stopped <- cancelled,
  verdict <- runErr

(* The resolver executes the graph as TaskGraph says: dispatch from a      *)
(* stale list, retries, the skipping of dependents collected earlier and   *)
(* the two early returns of Run never start a task too early, end one      *)
(* twice, skip one without a failure before it, start one after the report *)
(* or report what is not so (resolver.go 78-128, 139-225, 286-328).        *)
ImplementsTaskGraph == Graph!GraphSpec

(* Run comes back when no one cancels and every action returns: no failure *)
(* leaves a pending task behind that the polling loop waits for.           *)
RunTerminates == ActionsReturn /\ ActionsSucceed /\ []~cancelled => <>(runPc = "returned")

(* Cancellation makes Run return although actions hang: the comment "The   *)
(* context's Done channel is respected at every yield point"               *)
(* (resolver.go 76).                                                       *)
CancelStopsRun == cancelled ~> runPc = "returned"

(* After a cancellation no goroutine stays behind once the actions have    *)
(* returned, whatever their number of retries.                             *)
CancelDrains ==
  ActionsReturn => (cancelled ~> \A t \in Tasks : gor[t] \in {"unstarted", "done"})

==============================================================================

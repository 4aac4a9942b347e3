# Gorkbot in TLA+

TLA+ models of the parts of Gorkbot (github.com/velariumai/gorkbot) in which goroutines, locks,
timeouts and restarts meet, with TLC runs on small instances and TLAPS proofs for every instance.
Definitions carry the names of the Go code they translate; `PROJECT.json` maps each of them to the
lines it stands for, lists the hazards of the code and the properties that
cover each of them, or says why none does.

## The system

Gorkbot is an agent that runs language models with tools, in Go (about 190 000 lines). A user's
prompt becomes a turn of the orchestrator; a turn may ask for several tools, which run in parallel
behind several gates; long work is delegated to background agents, sub-agents and task graphs.

| component | where | state | operations | what is hard | what makes it correct |
|---|---|---|---|---|---|
| Orchestrator, agent loop | `internal/engine/orchestrator.go`, `streaming.go` | history, turn counters, callbacks | one turn: generate, parse tool requests, execute them in parallel, wait for all | goroutines of one turn share every gate; a result is read before its error | every tool of a turn returns; results keep their order |
| Plan approval (SENSE HITL) | `internal/engine/sense_hitl.go`, `internal/tui` | queue of plans in the UI, one channel per request | request, show, decide | several plans at once; keys typed for another overlay | no plan lost, no decision to the wrong call |
| Permission gate | `pkg/tools/registry.go`, `permissions.go` | session permissions, stored permissions, prompt on the screen | check, ask, apply the answer, reset | check, ask and store are three steps of many goroutines; a map without a lock | nothing executes without standing consent |
| Governance | `pkg/governance/governor.go`, `approval_cache.go`, `policy.go` | cache of answers, policy | classify, decide, ask a human, remember | a stale answer, a timeout of the leader for its joiners | an answer is valid for the key and scope it was given for |
| Approval runtime | `pkg/governance/approval_runtime.go` | inflight map, semaphore, shutdown flag, one done channel per worker | Run, join, wait, Shutdown | the lock is dropped while a slot is awaited; deletion by key; a callback that never returns | one worker per key, exact slots, bounded waiting |
| Task graph resolver | `pkg/dag/resolver.go`, `dag.go` | status of every task, semaphore | Run, retry, skip dependents, cancel, roll back | stale lists of ready and of skippable tasks, cancellation anywhere | dependency order, final statuses, termination |
| Task graph persistence | `pkg/dag/state.go` | gob file | save, load, restore | save beside a running resolver; crash between two steps of a failure | what is saved can be resumed |
| Rollback store | `pkg/dag/rollback.go` | backups on disk | back up, restore, purge | a failing step among several | every recorded file is restored or reported |
| Background agents | `internal/engine/background_agents.go` | agent records, semaphore | Spawn, Collect, Cancel, CancelAll | cancellation against a late result; reads without the lock | reports agree with the records; all come back |
| Sub-agents | `pkg/subagents` | slots, session budget | delegate, consume, refund | slots shared by categories, a budget consumed turn by turn | budget and slots exact |
| Breaker, progress, budgets | `pkg/execution`, `pkg/budget` | failure counts, attempts, limits | allow, record, reset | concurrent trials in the half-open state, late outcomes | opens after the threshold, closes after a success |
| Scheduler | `pkg/scheduler`, `pkg/tools/task_schedule.go` | task list in memory and on disk, the copies of a poll | poll, dispatch, retry, schedule, cancel, pause, resume | stale copies written back, failed saves, crash in a run or in a save | a task whose run has ended for good is not run again, nor is a cancelled one; a due one gets its turn |
| Distributed bus | `pkg/distributed` | subscriptions, event log, load table | publish, replay, choose | lost and repeated events | replay yields the log |
| State lock, skill runtime | `pkg/statelock`, `pkg/skillruntime` | claims | claim, release, evaluate gates | expiry against release | no two holders in conflict |
| Providers, MCP, A2A, sessions, webhooks, channels | `pkg/providers`, `internal/mcp`, `pkg/a2a`, `pkg/sessions`, ... | connections, journals | request, retry, fail over | timeouts and late answers | failover ends |
| Memory, research, self-improvement, compression, caches | `pkg/memory`, `pkg/selfimprove`, `internal/compression`, ... | databases, scores | store, search, score | data rather than protocol | - |
| UI, commands, configuration, native code | `internal/tui`, `internal/webui`, `pkg/commands`, `internal/llm`, ... | presentation | render, format, parse | - | - |

How they interact. `ExecuteTool` takes a call through plan mode, the rule engine, the tool cache,
hooks, a checkpoint and the plan approval, then calls `Registry.Execute`, which checks permissions
and asks the governor; both ask the human through messages to the single UI goroutine, each with a
response channel of its own. The governor asks through the approval runtime, whose callback ends in
`Registry.RequestApproval`. The scheduler runs a prompt of its own through the orchestrator, one task
at a time, while the turns of the user schedule, cancel and pause tasks. Task graphs and background agents call providers and tools of their own.

## Modules

| module | models | extends |
|---|---|---|
| `ApprovalService` | what the runtime promises its callers: one open question per key, its answer to all who joined | |
| `ApprovalRuntime` | `approval_runtime.go`: `Run`, `waitForResult`, `runInflight`, `releaseSlot`, `Shutdown`; implements `ApprovalService` | |
| `ApprovalRuntimeProofs` | its theorems, the refinement among them | `ApprovalRuntime` |
| `GovernanceApproval` | `RequestHumanApproval` with the approval cache and `Registry.RequestApproval`, over the runtime | `ApprovalRuntime` |
| `GovernanceApprovalProofs` | its invariant, consent and settled keys | `GovernanceApproval`, `ApprovalRuntimeProofs` |
| `GovernanceCauseProofs` | the cause of every denial | `GovernanceApprovalProofs` |
| `TaskGraph` | what `Run` promises: tasks start after their dependencies, end once, are skipped behind a failure; the report | |
| `DagResolver` | `resolver.go`: `Run`, the goroutine of a task, `skipDependents`; implements `TaskGraph` | |
| `DagResolverProofs` | its theorems, the refinement among them | `DagResolver` |
| `DagRestart` | `state.go` around a running resolver, crash and restart | `DagResolver` |
| `DagRestartProofs` | its theorems | `DagRestart`, `DagResolverProofs` |
| `BackgroundAgents` | `background_agents.go` | |
| `BackgroundAgentsProofs` | its theorems | `BackgroundAgents` |
| `ToolPermissions` | the plan queue and the permission prompt of the UI, `checkPermission`, answers and resets | |
| `ToolPermissionsProofs` | its theorems | `ToolPermissions` |
| `Scheduler` | the polling loop, the dispatcher, the store and its file, the tools that change tasks | |
| `SchedulerProofs` | its theorems | `Scheduler` |
| `MC...` | instances for TLC | the module they name |

The granularity is the same in all of them: an action is one critical section, one channel
operation, one message handled by the UI goroutine, or the return of a callback. Whatever the Go
scheduler can put between two of these, the model can. An operator whose comment begins with
`Mutant:` is not part of a specification: it is a form of its neighbour with a plausible bug, and
the run's property named with it in `PROJECT.json` fails when it takes the neighbour's place.

**ApprovalRuntime.** A request is a call of `Run`, its place in the code is `pc`; a worker is the
`runInflight` goroutine named by the request that started it. `inflight` and `sem` are the map and
the length of the semaphore channel. `Lookup` and `Register` are the two critical sections with the
wait for a slot between them (`AcquireSlot`, `AcquireGivesUp`); `Register` rechecks shutdown and the
map, and `GiveSlotBack` is the release outside the lock. `WaitForResult` is the select over the
done channel, the context and the shutdown channel. Results are reduced to decision and scope;
reasons and errors are text. The key is given: building it (redaction and hashing) is not modelled.

**ApprovalService** has questions and requests only. `ApprovalRuntime` instantiates it with the
published workers for the open questions, `waitOn` for the question a request has asked or joined,
`result` for the reply and `outcome` for what a request was given. `Publish` is `Ask`, the join of
`Lookup` and the one of `Register` are `JoinQuestion`, `FnReturns` and `FnPanics` are `Answer`,
`Unpublish` is `CloseQuestion`, a return is `GiveAnswer` or `Excuse`; slots, giving back and waiting
are stutters. The service never starts a second question for an open key, never answers a request
from a question it has not joined, and asks nothing once it is down.

**GovernanceApproval** extends the runtime. `call` is the place of a call of `RequestHumanApproval`:
cache, `Run`, cache. `fn` is the place of the callback in `Registry.RequestApproval`, which the worker
runs with the context of the call that started it (`FnCtx`: that context also ends when the call
returns, by the deferred cancel). Its looks at shared state are steps: session permissions, stored
permission, the prompt, and the storing of the answer, which comes after the look at the context
that decides whether the answer counts (`HumanAnswers`, `StoreAnswer`). The rest of the callback goes
with the look before it. The human may answer at any time or never, and the handler may panic, from which
`runInflight` recovers. `earlier` and `settled` are history
variables: the stored levels the session began with, and the keys that got a standing answer. The
prompt itself is one step away from `ToolPermissions`, in which the replacement of prompts on the
screen is modelled; here a replaced prompt is one that is never answered.

**DagResolver.** `status` is `Task.Status`, `gor` the place of a task's goroutine, `runPc` that of
`Run`. `ready` is the list `readyTasks` returned, dispatched one task at a time after the lock is
released; `toSkip` and `scan` are the lists `skipDependents` collected and works off without the
lock. Nested levels of its recursion may mix in the model, which allows more orders than the code.
The graph is acyclic and closed (`DagAssumption`) because `Run` returns an error otherwise
(`TopologicalOrder`). Failed attempts are not counted when retries are unlimited, so that the state
space stays finite.

**TaskGraph** has the phases of the tasks and the verdict of `Run`, without lists, goroutines, slots and
attempts. `DagResolver` instantiates it with `PhaseOf` the status. Dispatch is `StartTask`, the last
store of a goroutine is `EndTask`, the marking of a collected dependent is `SkipTask`, a return of `Run`
is `ReportGraph`; the semaphore, retries, back-off and the collecting of lists are stutters. Starting
unconditionally from a stale list, and skipping from another, must therefore mean what starting and
skipping with a look at the graph would mean.

**DagRestart.** `SaveState` runs beside the resolver in three steps: copy the environment, copy the
tasks, write and rename (or fail). `CrashAndRestart` keeps only the file. An action hands its output
on with `Environment.Set` before it returns, the way dependents are given their inputs.

**BackgroundAgents.** `gor` is the place of an agent's goroutine. The last critical section is two
steps with the lock held between them, since `Collect` reads the fields without the lock and may see
the status without the result. `Cancel` and `CancelAll` change statuses only.

**ToolPermissions.** `pc` follows a tool call through plan approval, session permissions, stored
permissions and the prompt; it is "allowed" once past them. UI messages and keys are steps of one
goroutine. `hitlQueue`, `hitlRequest`, `awaitingHITL`, `permissionChan` and `generating` are fields of
the UI model. A turn stops "generating" when it returns or when the human cancels it; its calls are
not waited for, so `StopGenerating` may come at any time and the calls of two turns, or a reset, meet. Session
permissions are a Go map used without a lock; `MapRace` is the abort of the process by the Go
runtime that concurrent access can cause. A reset is two critical sections, in which calls may run:
the stored permissions first (`ResetAllPermissions`, `ResetToolPermission`), then those of the session
(`ClearSession`), with `resetting` between them; when the file cannot be written, the reset of all
tools ends after the first, and the session permissions stand. `InFile` gives the levels
the permissions file may hold at the start. Two history variables record what the human said: `consent`
has the tools allowed beyond a single call (now or by an earlier session, through the file) and not
withdrawn since, where a completed reset withdraws, and so does a *never* chosen at a prompt; `late` has
the tools of which a withdrawal missed something, a permission it does not take away or one that was
answered or read and not stored yet (`OnItsWay`). A tool leaves `late` when a withdrawal has
missed nothing. A call denied with Esc is refused; it counts as no withdrawal.

**Scheduler.** `loop` is the place of the polling goroutine, `batch` the copies that `Store.List`
returned and `copy` the one of the task being run. A task is reduced to its status, whether `NextRun`
is absent, ahead or past, and its retry count. Two stores follow a run, in two steps, since tools may
change the task in between: the dispatcher's (`RunReturns`) and then the loop's (`RecordRun`), which
uses the copy from before the run. `Saved` and `SaveFailed` are the two ends of a save: the change in
memory stands in both, and a failed write may leave the file cut short (`torn`), as does a crash in
the middle. A restart with such a file has no scheduler (`NewStore` returns an error).
`MaxRetries` is a field the tool never sets; a positive one comes from the file. `Elapse` is the
clock passing the time of a task. `ended` (how the last run of a task to be
run once ended in this life of the process) and `cancelled` are history variables.

## Runs

| run | expects | instance | shows |
|---|---|---|---|
| `approval_runtime_safety` | pass | 3 calls, 2 keys in every assignment, 2 slots | one published worker per key; slots exact; a result never crosses keys; a worker never erases another's entry; every step is one of `ApprovalService` or a stutter |
| `approval_runtime_progress` | pass | 2 calls, 2 keys, 1 slot | calls with deadlines return although `fn` hangs; Shutdown alone releases all |
| `dag` | pass | diamond of 4 tasks and one retried without limit, 2 slots | every step is one of `TaskGraph` or a stutter; slots, retries, causes of skips, what `Run` reports; `Run` is never left with nothing to wait for; `Run` and its goroutines end |
| `dag_restart` | pass | chain of 2 and one more task, 1 slot, 1 restart | a file can be resumed in order; what it shows as done is never done again; no restored task waits for a goroutine that is gone |
| `dag_outputs` | violation | chain of 2 | a task can be saved as Completed without its output |
| `dag_resume` | violation | chain of 2 | a file written between `Failed` and the skipping of dependents makes the resumed `Run` poll for ever |
| `agents` | pass | 2 agents, 1 slot | slots exact; the report agrees with the record; agents and collectors come back |
| `agents_cancel` | violation | 2 agents, 1 slot | a cancelled agent is Running again and ends Done |
| `permissions` | pass | 3 calls of 2 tools in 2 turns that may overlap, 2 with a plan, every level stored for the tool that two of them share | no plan lost; a decision reaches the plan shown; no call let through without consent, or after a withdrawal that met nothing out of its reach; every plan is decided |
| `permissions_prompts` | violation | the same | a second prompt overwrites the first, whose call waits for ever |
| `governance` | pass | 2 calls, 2 keys of one tool, 2 slots, every stored level, with and without a human | no grant without consent, no denial without cause, no second question about a settled key |
| `scheduler` | pass | one task to be run once and one repeated, 1 retry, 1 crash, 1 failed save | a task whose run has ended for good is not run again by that process; a cancel that meets no copy holds; a due task gets its turn |

Every safety property is checked over all interleavings of the instance; every property of a passing
run has a mutant that breaks it.

**Bounds.** The instances hold the cases the properties are about. Three calls and two keys give a
leader, a joiner and a competitor for the slot, and a third generation behind a finished worker; two
slots are needed for two calls with one key to hold a slot at the same time, one slot for waiting.
The diamond is the smallest graph with two branches that fail independently and a common dependent;
the fifth task is there for retries without limit. One restart suffices to interrupt every step of
the resolver and of `SaveState`; `MaxRestarts` is the only counter that bounds a behaviour. Two
agents and one slot put one agent to wait behind another. Two calls with plans in
one turn and a call of the first one's tool in the next give plans that queue, plans and prompts at
the same time, two prompts for one tool after a cancellation, and permissions answered in one turn
and used in the next; both steps of a reset may fall between any two of theirs. The file holds any level
for the tool that is called twice, and none for the other. `MaxRetries` bounds
attempts as it does in the code. Two calls of `RequestHumanApproval` are a leader and a joiner, or two
generations of one key, or two keys whose callbacks read and write the permission of one tool at the
same time; the order in which they reach each step is free. In `Scheduler` a repeated task keeps
the loop busy while the other one is due, one failed save and one crash can fall on any save, and a
cancel, pause or resume on any step; `MaxCrashes` and `MaxFailures` are its bounds. Runs of the
repeated task are not counted.

**Fairness.** A goroutine that can move does (weak fairness of its steps): Go's scheduler is
preemptive. Waiters on a channel are served in order, so waiting for a slot gets strong fairness in
`DagResolver` and `BackgroundAgents`; `ApprovalRuntime` needs only weak fairness. Nothing makes the
callback of an approval return. Deadlines of approvals, the return of task actions, and the success
of actions retried without limit are not fairness of the specifications but antecedents of the
properties that need them (`Deadlines`, `ActionsReturn`, `ActionsSucceed`). Providers answer or fail
(`ProvidersAnswer`), since their HTTP clients have timeouts. The human decides the plan on the
screen and answers a prompt that stays on the screen. A message to the UI goroutine waits while that
runs a command; senders on its channel are served in order, so that no run of commands keeps a message
out for ever (strong fairness of `UiStep`). The loop of the scheduler moves by itself
(`WF(LoopStep)`), but the turn it runs may wait for a human for ever, so that the return of runs is an
antecedent (`TasksReturn`). `GovernanceApproval` states no fairness: it claims safety only, and the
progress of its calls is the runtime's.

Deadlock checking is off: all these programs may stop (all calls returned, the graph finished, the
process aborted). What must not get stuck is stated as a liveness property.

## What the violations show

- `dag_outputs`: `state.go:45-57` copies environment and tasks under two locks. Copying the tasks
  first would give the converse (an output without its status), which is harmless.
- `dag_resume`: `RestoreGraph` resets Running and Queued only. Dependents of a Failed task that were
  not yet skipped stay Pending, nothing skips them later, and `allTerminal` never holds. A file saved
  after a cancellation, which skips a task and not its dependents, does the same. The theorems
  `StrandedForEverHolds` and `ResumableFilesResume` say that such a `Run` is lost whatever happens
  next, and that there is no other way to get there.
- `agents_cancel`: `Cancel` has no context to cancel; the goroutine stores its statuses without
  looking at the one that is there.
- `permissions_prompts`: permission prompts have no queue, unlike plan approvals, although the tools
  of a turn run in parallel. `UnseenForEverHolds` proves that an overwritten prompt never comes back.

Other divergences met while modelling:

- `Collect` can return an empty result with a nil error (`background_agents.go:229`).
- `Run` of the resolver returns on cancellation while goroutines run (`resolver.go:88`), although its
  comment says that it blocks until all tasks are terminal.
- Esc stores *never* (`model.go:2838`), although `docs/PERMISSIONS_GUIDE.md:142` says that it blocks
  this execution; the comment of a rule that allows a tool says that prompts are skipped, and
  they are not (`orchestrator.go:1918`).
- `docs/PERMISSIONS_GUIDE.md:28-31` says of *never* that the tool "is permanently blocked" and "Will not
  prompt or execute". A session permission outlives a *never* answered to a second prompt, because
  `checkPermission` looks at it first (`registry.go:986`): the tool goes on being executed.
- `/permissions reset` says "All tools will require permission approval on next use"
  (`commands/registry.go:1697`), and so does the guide (77-79). A permission that a call has read or been
  answered before the reset, and stores after it, survives it (`registry.go:996-1016`). When the file
  cannot be written the reset ends with an error, with the stored permissions gone from memory
  and those of the session in force (`commands/registry.go:1689-1692`). This and the case before it are
  the exceptions of `QuietWithdrawalSticks`.
- The scheduler's loop stores the copy it listed before the run (`scheduler.go:164`). A task cancelled
  or paused while it is in a poll's list is active again after its run, although
  `task_schedule.go:215` says "Cancel a scheduled AI task so it will no longer run."; this is the
  exception in `QuietCancelSticks`. The retry that the dispatcher has just stored is overwritten as
  well, so that a failed task to be run once ends as completed, although `dispatcher.go:31` says that
  `Dispatch` handles retries and `types.go:44` that only `MaxRetries` = 0 means none; a retry happens
  only after a crash between the two stores. `FinishedNotRunAgain` says nothing of such a task: it neither
  forbids nor promises the retry.
- `Scheduler.Stop` sends without blocking to a channel that nobody receives from during a poll
  (`scheduler.go:63-68`): a stop in a long run is lost. `ContextMode` *isolated* (`types.go:17`) is
  not read by the dispatcher.
- `ExecuteTaskWithHistory` says that a mutex protects its swap of the history
  (`orchestrator.go:1244`); there is none.
- `/permissions reset` leaves the governor's approval cache as it is (`commands/registry.go:1697`).

## Proofs

TLAPS checks eight modules of proofs: every type invariant, safety invariant and action property that
a passing run checks, and both refinements, for every instance. Some theorems state more than a run
does: those were checked with TLC on the instance of the component's run before they were proved. The
safety theorems about progress (`WaitsForSomeone`, `NoTaskStranded`, `NoAgentForgotten`) are what
the prover can say of the hazards of liveness: whoever waits, waits for somebody who can move. Their only assumptions are those of the models:
`RuntimeAssumption` (finitely many calls, at least one slot, results are results),
`GovernanceAssumption` (keys belong to tools, the callback's answers are results),
`DagAssumption` (finitely many tasks, dependencies are tasks, a rank that decreases along
dependencies, at least one slot), `RestartsAssumption` and `SchedulerAssumption` (the bounds are
numbers), `AgentsAssumption` (finitely many agents, at least one slot) and `PermissionsAssumption`
(each call has a turn and a tool, no call is `NoCall`, the file holds levels).

**ApprovalRuntimeProofs** proves `TypeOK`, `SingleFlight`, `SlotsExact`, `UnpublishesOnlyItself` and
`OutcomeIsForOwnKey` for any number of calls, keys and slots. None of them is inductive alone. The
invariant `RtInv` adds that the map and the workers agree (`MapAgrees`: a key maps to a worker exactly
while that worker is published, and then under its own key) and that calls and workers agree
(`PhasesAgree`: a call waits only for a started worker of its own key, a call which has not
registered has no worker, a worker whose done channel is closed has stored a result). `SlotsExact` rests on lemmas on the
cardinality of the set of slot holders: a step adds one holder, removes one, or keeps the set.
`SingleFlight` follows because both published workers are the one entry of their key.

The refinement (`ImplementsServiceHolds`) shows, under `RtInv`, that each step is a step of the
service or leaves its six variables alone. The slots enter here as well: a question may be asked
because its worker holds a slot, so that the open questions are at most `MaxInflight`.

`WaitsForSomeone` is the absence of deadlock for any number of calls: a call that cannot move
(`CanMove`) waits for a callback that runs, for its own key, or for a slot while each holder of one can
move or runs a callback. It rests on `SlotsExact` (a full semaphore has holders) and on `PhasesAgree`.

**GovernanceApprovalProofs** proves `GovTypeOK`, `OnePromptPerKey`, `SettledKeyNotAskedAgain` and
`GrantHasConsent` for any number of calls, keys, tools and slots. A step of the composition is a step
of the runtime or leaves it alone (`GovStepRefinesRuntime`), so `RtInv` carries over and
`OnePromptPerKey` follows from `SingleFlight`, `PromptsBounded` (no more than `MaxInflight` prompts at
a time) from `SlotsExact`, and the composition implements `ApprovalService` as the runtime does
(`GovImplementsService`). `SettledShows` says that a settled key has a permission
of its tool to show or a worker that is about to store it (`Settling`), and that a callback already past the session permissions finds a stored one: a
standing answer given for the session cannot come in between, because the key had one callback only.
`ConsentInv` follows consent from the answer of the human through permissions, the result of the
worker, the outcome of the calls that waited for it, and the cache; an answer for *once* is
shown to go no further than the calls that waited for that prompt. **GovernanceCauseProofs** does the
same for what is turned down (`CauseInv`): the ends of contexts, `Shutdown`, refusals and panics last,
and a callback whose call has gone finds a context that ended or a runtime that was shut down.

**DagResolverProofs** proves `TypeOK`, `DepsBeforeStart`, `SlotsExact`, `SkippedHasCause`,
`StatusOwned`, `RetryBudget`, `RunReport`, `NoTaskStranded` and the refinement of `TaskGraph` for every
acyclic graph, retry policy and number of slots. The core of the invariant, `DagCore`, holds through
restarts as well: the types, the slots, which status goes with which place of a goroutine
(`GoroutineFitsStatus`), that a started task has only Completed dependencies (`Closed`), and that a task
in a stale list is what the list took it for (`ReadyStaysReady`, `CollectedAreIdle`). The last two make
the reads outside the lock harmless: a Pending task all of whose dependencies are Completed can no
longer be skipped, and a task with a failed dependency can no longer become ready. Acyclicity enters
through the rank: no task is its own dependent. `DagInv` adds what holds of a run from the start: a task
without a goroutine is Pending or skipped, and skipping has a cause. `RunKnows` says what `Run` has found
out by the time it waits and returns. The lemma `StepKinds` sorts the steps once by what they do to
statuses and goroutines, and the proofs of both modules go by these kinds.

`NoTaskStranded` says that when no goroutine is at work and no task is ready, all tasks are terminal,
so that the polling loop of `Run` never waits for nothing. It needs `SkipsFollow`: a Pending task
behind a failed or skipped one is in the list of a goroutine that is skipping, or that one is about to
collect its dependents. A Pending task of least rank (`NearestToRoots`) then has only terminal
dependencies, none of them failed or skipped, and is ready (`FollowedNotStranded`). The refinement
(`ImplementsTaskGraphHolds`) maps each kind of step, with `DagInv` for the two stale lists.

**DagRestartProofs** proves `RestartTypeOK`, `SavedIsClosed`, `StatusHasGoroutine`, `SavedWorkKept`
and, again, `DepsBeforeStart` and the report of `Run` through any number of saves, crashes and
restarts. `DagInv` does not survive a restart: a task restored as Failed has Pending dependents that
nobody is about to skip. `RestartInv` is `DagCore`, which does survive, with `Closed` of the copy being
saved and of the file; these hold because the tasks are copied in one critical section. `SavedWorkKept`
adds that the copy and the file lag behind the process: a Completed task never changes again, and a
restored one starts Completed.

Two theorems fix the extent of `dag_resume`. `StrandedForEver`: once no task is ready, no goroutine at
work and some task Pending, this stays so until the context is cancelled or the process ends; the
comment "check if we are done or deadlocked" (`resolver.go:94`) finds no deadlock. `ResumableFilesResume`:
if no file ever holds a Pending task behind a Failed or Skipped one (`ResumableFile`), `SkipsFollow`
holds through restarts, and no `Run` is ever stranded. The hypothesis is a condition on behaviours
that many satisfy (all in which no save falls between a failure and its skips), and `dag_resume` shows
that it cannot be dropped.

**BackgroundAgentsProofs** proves `BgTypeOK`, `AgentSlotsExact` and `ReportMatchesStatus` for any
number of agents and slots. `BgInv` says which record goes with which place of the goroutine; the
slots are counted with the lemmas on cardinalities as in the runtime. Three more theorems are about what
others see. `CollectedIsReported`: `Collect`, which reads without the lock, returns as a result only
what is stored and told (`StoredOnce`: nothing is stored before the last critical section, and once).
`ReportIsFinal`: after `onDone`, nothing of the record changes, whoever cancels. `NoAgentForgotten`: a
Pending or Running agent has a goroutine, and it can go on or waits for the lock or a slot of one
that can (`LockHeld`).

**SchedulerProofs** proves `SchedTypeOK`, `FinishedNotRunAgain` and `QuietCancelSticks` for any tasks,
kinds, retry limits, crashes and failed saves. A task lives in four places, the store, the file, the
list of the poll and the hand of the loop, and each invariant says what holds of it in all of them.
`SchedInv` says what the loop has in hand where, and that no copy counts too many retries. `Spent`
says that a task whose run has ended for good in this life of the process is in the loop's hand, waiting
to be recorded, or has no time any more in the store and in the list; the file may still say otherwise, which is the run a crash can cost.
`CompletedByRun` and `CancelledEverywhere` follow a status through the places: a task cancelled while
no copy is about is cancelled wherever there is one.

**ToolPermissionsProofs** proves `PermTypeOK`, `PlansAccountedFor`, `DecidesShownPlan` and
`QuietWithdrawalSticks` for any number of calls, tools and turns. `PermInv` says that the plan of a call
beyond the first gate was approved (`PlanBehind`), that a permission, stored or on its way to be
stored, has consent behind it or a withdrawal on record that missed it (`ConsentBehind`), and that the
queue and the waiting calls are the same (`QueuedWait`, `WaitingQueued`). The delicate steps are the
withdrawals: a reset takes consent away from tools whose permission may be on its way, and a *never* from
tools whose session permission stands; these go to `late`, and come off it only when the next withdrawal
finds neither.

`AnsweredOnce` says that the UI sends only to a call that waits and has no answer yet, so that no send
on a channel of capacity one blocks the UI goroutine; `UnseenForEver` that a call whose prompt was
overwritten waits for ever, which is the finding of `permissions_prompts` without its fairness.

Only model-checked: the liveness properties `EveryCallReturns`, `ShutdownReleasesCalls`,
`RunTerminates`, `CancelStopsRun`, `CancelDrains`, `EveryAgentReports`, `EveryCollectReturns`,
`EveryPlanDecided` and `DueTaskFires`, since fairness and ENABLED are beyond the prover; and the
properties of the runs that expect a violation, which are false.

## Not modelled

The modelled components are the ones in which several goroutines, timeouts or restarts meet; they are
a small share of the repository by lines. Most of the rest is data and I/O, for which a state machine
would say nothing a reader of the code does not see: prompts, parsing, context building, scoring,
formatting, persistence formats, HTTP clients and servers, child processes, the views of two user
interfaces, and some hundreds of tools that wrap a command or a library.

Of the modelled components:

- task graph: `TopologicalOrder` as an algorithm, `RollbackAll`, events and progress;
- plan approval: the classification of calls as high-stakes;
- permission gate: glob patterns (nothing sets one, they come from an edited file) and the file;
- governance: `Decide` with policy, classifier, breaker and progress tracker, the building and
  redaction of keys, `ClearSession` and `ClearAll` (nobody calls them), a governor without handler;
- scheduler: `Stop`, `Delete` (nobody calls it), the arithmetic of the next run, notifications;
- background agents: the tools that expose them.

`PROJECT.json` lists every component with the reason.

## Plan

Done: the runtime with its abstract service, governance, task graphs with theirs and with persistence, background
agents, permission gates, the scheduler. Worth doing next, in this order; each is a module, its run
and, where marked (P), its theorems.

1. `CircuitBreaker` and the governor's `Decide` over the progress tracker: trials in the half-open
   state, attempts recorded and read in two critical sections (P).
2. `RollbackAll` and the rollback store; `TopologicalOrder` against a reference definition over all
   small graphs.
3. The files of the permission manager with crashes, and its patterns.
4. Sub-agent slots and session budget (P), the state lock, the event source.

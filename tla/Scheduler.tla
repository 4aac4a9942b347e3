------------------------------ MODULE Scheduler ------------------------------
(***************************************************************************)
(* Scheduled tasks: the polling loop (pkg/scheduler/scheduler.go), the     *)
(* dispatcher it calls for a due task (dispatcher.go), the store both      *)
(* write to (store.go), and the tools that add, cancel, pause and resume   *)
(* tasks meanwhile (pkg/tools/task_schedule.go).                           *)
(*                                                                         *)
(* The loop takes a copy of all tasks and works it off, one task at a      *)
(* time; a run may take minutes.  When it has returned, the dispatcher     *)
(* stores the task as it makes it out from its own copy, and the loop then *)
(* stores it once more, from the copy it had before the run.               *)
(***************************************************************************)
EXTENDS Naturals, FiniteSets

CONSTANTS
  Tasks,        \* task IDs
  Kind,         \* "once", or "repeat" for intervals and cron expressions
  MaxRetries,   \* ScheduledTask.MaxRetries of each task
  MaxCrashes,   \* bound: crashes of the process
  MaxFailures,  \* bound: saves that fail
  NoTask        \* the value of a task that is not there

VARIABLES
  store,      \* Store.tasks
  file,       \* what scheduled_tasks.json was last written with
  torn,       \* the last write of it was cut short
  loop,       \* where the polling goroutine stands
  batch,      \* the copies List returned that are still to be looked at
  cur,        \* the task being run
  copy,       \* the copy runDueTasks has of it
  crashes,    \* how often the process went down
  failures,   \* how many saves failed
  ended,      \* history: how the last run of each "once" task ended
  cancelled   \* history: tasks cancelled while no copy of them was about

schedVars == <<store, file, torn, loop, batch, cur, copy, crashes, failures,
               ended, cancelled>>

ASSUME SchedulerAssumption ==
  /\ Kind \in [Tasks -> {"once", "repeat"}]
  /\ MaxRetries \in [Tasks -> Nat]
  /\ MaxCrashes \in Nat
  /\ MaxFailures \in Nat
  /\ NoTask \notin Tasks

Statuses  == {"active", "paused", "completed", "cancelled"}
\* ScheduledTask, reduced to what decides about runs: Status, NextRun (nil,
\* ahead or past) and RetryCount.
ScheduledTask == [status : Statuses, next : {"none", "future", "due"}, retry : Nat]

NoCopy == [status |-> "none", next |-> "none", retry |-> 0]

\* No run has returned; one has, and a retry is due; one has for good, in this
\* life of the process or in an earlier one.
Ends == {"no", "retry", "final", "before"}

LoopPlaces == {"wait", "scan", "run", "record", "down", "unavailable"}
Up         == loop \in {"wait", "scan", "run", "record"}
Exists(t)  == store[t] # NoCopy
Empty      == [t \in Tasks |-> NoCopy]

\* The loop has a copy of t that it may yet act on.
InHand(t) == cur = t \/ batch[t] # NoCopy

SchedInit ==
  /\ store = Empty
  /\ file = Empty
  /\ torn = FALSE
  /\ loop = "wait"
  /\ batch = Empty
  /\ cur = NoTask
  /\ copy = NoCopy
  /\ crashes = 0
  /\ failures = 0
  /\ ended = [t \in Tasks |-> "no"]
  /\ cancelled = [t \in Tasks |-> "no"]

------------------------------------------------------------------------------
(* Every change of the store is saved under its lock, by writing the file  *)
(* anew in place.  A save that fails is reported to the caller, but the    *)
(* change in memory stands, and the file may have been cut short.          *)

Saved ==
  /\ file' = store'
  /\ torn' = FALSE
  /\ UNCHANGED failures

SaveFailed ==
  /\ failures < MaxFailures
  /\ failures' = failures + 1
  /\ torn' \in {torn, TRUE}
  /\ UNCHANGED file

Put(t, task) ==
  /\ store' = [store EXCEPT ![t] = task]
  /\ Saved \/ SaveFailed

------------------------------------------------------------------------------
(* The polling goroutine.                                                  *)

\* Mutant: a task that waits for a retry is left alone.
IsDueNoRetry(task) == task.status = "active" /\ task.next = "due" /\ task.retry = 0

\* Mutant: the status is not looked at.
IsDueAnyStatus(task) == task.next = "due"

IsDue(task) == task.status = "active" /\ task.next = "due"

\* A tick, or the start of the goroutine: runDueTasks lists the tasks.
Poll ==
  /\ loop = "wait"
  /\ loop' = "scan"
  /\ batch' = store
  /\ UNCHANGED <<store, file, torn, cur, copy, crashes, failures, ended, cancelled>>

\* The next task of the list, in whatever order, is not due.
Skip(t) ==
  /\ loop = "scan"
  /\ batch[t] # NoCopy
  /\ ~IsDue(batch[t])
  /\ batch' = [batch EXCEPT ![t] = NoCopy]
  /\ UNCHANGED <<store, file, torn, loop, cur, copy, crashes, failures, ended, cancelled>>

\* It is due: the runner is called, and runDueTasks waits for it.
Fire(t) ==
  /\ loop = "scan"
  /\ batch[t] # NoCopy
  /\ IsDue(batch[t])
  /\ loop' = "run"
  /\ cur' = t
  /\ copy' = batch[t]
  /\ batch' = [batch EXCEPT ![t] = NoCopy]
  /\ UNCHANGED <<store, file, torn, crashes, failures, ended, cancelled>>

\* Mutant: one retry too many.
RetriesOneMore(ok) == ~ok /\ copy.retry <= MaxRetries[cur]

Retries(ok) == ~ok /\ copy.retry < MaxRetries[cur]

\* Dispatch after the run: a retry is scheduled, or the result is final.
Dispatched(ok) ==
  IF Retries(ok)
  THEN [copy EXCEPT !.retry = @ + 1, !.next = "future"]
  ELSE [copy EXCEPT !.retry = 0]

RunReturns(ok) ==
  /\ loop = "run"
  /\ Put(cur, Dispatched(ok))
  /\ loop' = "record"
  /\ ended' = IF Kind[cur] = "once"
                THEN [ended EXCEPT ![cur] = IF Retries(ok) THEN "retry" ELSE "final"] ELSE ended
  /\ UNCHANGED <<batch, cur, copy, crashes, cancelled>>

\* Mutant: a finished task keeps its time.
RecordedKeepsTime ==
  IF Kind[cur] = "once"
  THEN [copy EXCEPT !.status = "completed"]
  ELSE [copy EXCEPT !.next = "future"]

\* Back in runDueTasks, which still has the copy it listed.
Recorded ==
  IF Kind[cur] = "once"
  THEN [copy EXCEPT !.status = "completed", !.next = "none"]
  ELSE [copy EXCEPT !.next = "future"]

RecordRun ==
  /\ loop = "record"
  /\ Put(cur, Recorded)
  /\ loop' = "scan"
  /\ cur' = NoTask
  /\ copy' = NoCopy
  /\ UNCHANGED <<batch, crashes, ended, cancelled>>

ScanDone ==
  /\ loop = "scan"
  /\ batch = Empty
  /\ loop' = "wait"
  /\ UNCHANGED <<store, file, torn, batch, cur, copy, crashes, failures, ended, cancelled>>

------------------------------------------------------------------------------
(* The tools, called from any turn of the agent, also from the turn that   *)
(* runs a task.                                                            *)

\* schedule_task: a time in the past is accepted for a task that runs once.
Schedule(t, next) ==
  /\ Up
  /\ ~Exists(t)
  /\ next = "due" => Kind[t] = "once"
  /\ Put(t, [status |-> "active", next |-> next, retry |-> 0])
  /\ UNCHANGED <<loop, batch, cur, copy, crashes, ended, cancelled>>

\* cancel_scheduled_task and pause_resume_scheduled_task: SetStatus.
Cancel(t) ==
  /\ Up
  /\ Exists(t)
  /\ Put(t, [store[t] EXCEPT !.status = "cancelled"])
  /\ cancelled' = [cancelled EXCEPT ![t] = IF file' # store' \/ InHand(t) THEN "no" ELSE "quiet"]
  /\ UNCHANGED <<loop, batch, cur, copy, crashes, ended>>

PauseOrResume(t, status) ==
  /\ Up
  /\ Exists(t)
  /\ Put(t, [store[t] EXCEPT !.status = status])
  /\ cancelled' = [cancelled EXCEPT ![t] = "no"]
  /\ UNCHANGED <<loop, batch, cur, copy, crashes, ended>>

------------------------------------------------------------------------------
(* Time passes the NextRun of a task, also that of the copies of it.       *)
Passed(task) == IF task.next = "future" THEN [task EXCEPT !.next = "due"] ELSE task

Elapse(t) ==
  /\ Up
  /\ store[t].next = "future"
  /\ store' = [store EXCEPT ![t] = Passed(@)]
  /\ batch' = [batch EXCEPT ![t] = Passed(@)]
  /\ file' = [file EXCEPT ![t] = Passed(@)]
  /\ UNCHANGED <<torn, loop, cur, copy, crashes, failures, ended, cancelled>>

(* The process ends or crashes; the file is written in place, so a crash   *)
(* in the middle of a save leaves it torn.                                 *)
Crash(midSave) ==
  /\ Up
  /\ crashes < MaxCrashes
  /\ crashes' = crashes + 1
  /\ loop' = "down"
  /\ store' = Empty
  /\ batch' = Empty
  /\ cur' = NoTask
  /\ copy' = NoCopy
  /\ torn' = (torn \/ midSave)
  /\ ended' = [t \in Tasks |-> IF ended[t] = "final" THEN "before" ELSE ended[t]]
  /\ UNCHANGED <<file, failures, cancelled>>

\* NewStore at the next start: a file that does not parse means no scheduler.
Restart ==
  /\ loop = "down"
  /\ IF torn
     THEN loop' = "unavailable" /\ UNCHANGED store
     ELSE loop' = "wait" /\ store' = file
  /\ UNCHANGED <<file, torn, batch, cur, copy, crashes, failures, ended, cancelled>>

LoopStep ==
  \/ Poll
  \/ \E t \in Tasks : Skip(t) \/ Fire(t)
  \/ RecordRun
  \/ ScanDone

SchedNext ==
  \/ LoopStep
  \/ \E ok \in BOOLEAN : RunReturns(ok)
  \/ \E t \in Tasks, next \in {"future", "due"} : Schedule(t, next)
  \/ \E t \in Tasks : Cancel(t) \/ Elapse(t)
  \/ \E t \in Tasks, status \in {"active", "paused"} : PauseOrResume(t, status)
  \/ \E midSave \in BOOLEAN : Crash(midSave)
  \/ Restart

SchedSpec ==
  /\ SchedInit /\ [][SchedNext]_schedVars
  /\ WF_schedVars(LoopStep)

\* The turn a task is run in comes to an end: its context has a timeout, but
\* a turn that waits for a human may outlast it.
TasksReturn == WF_schedVars(\E ok \in BOOLEAN : RunReturns(ok))

------------------------------------------------------------------------------
SchedTypeOK ==
  /\ store \in [Tasks -> ScheduledTask \cup {NoCopy}]
  /\ \A t \in Tasks : store[t].retry <= MaxRetries[t]
  /\ file \in [Tasks -> ScheduledTask \cup {NoCopy}]
  /\ torn \in BOOLEAN
  /\ loop \in LoopPlaces
  /\ batch \in [Tasks -> ScheduledTask \cup {NoCopy}]
  /\ cur \in Tasks \cup {NoTask}
  /\ copy \in ScheduledTask \cup {NoCopy}
  /\ crashes \in 0 .. MaxCrashes
  /\ failures \in 0 .. MaxFailures
  /\ ended \in [Tasks -> Ends]
  /\ cancelled \in [Tasks -> {"no", "quiet"}]

(* A task to be run once whose run ended for good, with success or with no *)
(* retry left, is not run again by this process, however it is paused and  *)
(* resumed and whichever saves fail; and only a run that has returned      *)
(* completes it, so that a crash in the middle of the run does not lose it *)
(* (scheduler.go 134-168, dispatcher.go 63-72).  Of a run that failed with *)
(* a retry left (dispatcher.go 51-62) it says nothing: the loop overwrites *)
(* the stored retry, which is not what types.go 44 promises.               *)
FinishedNotRunAgain ==
  \A t \in Tasks : Kind[t] = "once" =>
    /\ ended[t] = "final" => ~(loop = "run" /\ cur = t)
    /\ store[t].status = "completed" => ended[t] # "no"

(* A task that is cancelled while no poll has it in hand is never run      *)
(* again, not after a restart either, unless it is resumed (store.go 82).  *)
(* A cancel that meets a copy is undone when the loop stores that copy     *)
(* (scheduler.go 164), which is why the property needs its exception.      *)
QuietCancelSticks ==
  \A t \in Tasks : cancelled[t] = "quiet" =>
    /\ cur # t
    /\ Up => store[t].status = "cancelled"

ReadyToRun(t) == store[t].status = "active" /\ store[t].next = "due"

(* An active task whose time has come is run, or stopped being one,        *)
(* whatever runs before it - as long as those runs return and the process  *)
(* does not lose its file (scheduler.go 45-60).                            *)
DueTaskFires ==
  TasksReturn =>
    \A t \in Tasks : (Up /\ ReadyToRun(t)) ~> (cur = t \/ ~ReadyToRun(t))

==============================================================================

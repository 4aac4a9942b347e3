--------------------------- MODULE SchedulerProofs ---------------------------
(***************************************************************************)
(* Proofs about Scheduler for any set of tasks and any number of crashes,  *)
(* failed saves and retries.                                               *)
(*                                                                         *)
(* A task lives in four places at a time: in the store, in the file, in    *)
(* the list of the poll and in the hand of the loop.  Each invariant says  *)
(* what holds of the task in all of them.                                  *)
(***************************************************************************)
EXTENDS Scheduler, TLAPS

Slots == ScheduledTask \cup {NoCopy}

(* Where the loop stands tells what it has in hand.                        *)
LoopAgrees ==
  /\ loop \in {"run", "record"} => cur \in Tasks /\ copy \in ScheduledTask /\ copy.status = "active"
  /\ loop \notin {"run", "record"} => cur = NoTask /\ copy = NoCopy
  /\ loop # "scan" /\ loop \notin {"run", "record"} => batch = Empty
  /\ loop \in {"down", "unavailable"} => store = Empty
  /\ cur \in Tasks => Exists(cur) /\ batch[cur] = NoCopy
  /\ \A t \in Tasks : batch[t] # NoCopy => Exists(t)

(* No copy of a task counts more retries than it may have.                 *)
RetriesBounded ==
  /\ \A t \in Tasks : /\ store[t].retry <= MaxRetries[t]
                      /\ file[t].retry <= MaxRetries[t]
                      /\ batch[t].retry <= MaxRetries[t]
  /\ cur \in Tasks => copy.retry <= MaxRetries[cur]

SchedInv == SchedTypeOK /\ LoopAgrees /\ RetriesBounded

LEMMA SlotFields ==
  ASSUME NEW s \in Slots
  PROVE  /\ s.status \in Statuses \cup {"none"}
         /\ s.next \in {"none", "future", "due"}
         /\ s.retry \in Nat
         /\ s.status = "none" => s = NoCopy
         /\ s = NoCopy => s.status = "none" /\ s.next = "none" /\ s.retry = 0
  BY DEF Slots, ScheduledTask, NoCopy, Statuses

LEMMA TaskExcept ==
  ASSUME NEW s \in ScheduledTask
  PROVE  /\ s \in Slots /\ s # NoCopy
         /\ \A st \in Statuses : [s EXCEPT !.status = st] \in ScheduledTask
         /\ \A n \in {"none", "future", "due"} : [s EXCEPT !.next = n] \in ScheduledTask
         /\ \A m \in Nat : [s EXCEPT !.retry = m] \in ScheduledTask
<1>1. s.status \in Statuses /\ NoCopy.status \notin Statuses
  BY DEF ScheduledTask, NoCopy, Statuses
<1> QED
  BY <1>1 DEF ScheduledTask, Slots

LEMMA CancelledOrPaused ==
  ASSUME NEW s \in ScheduledTask, NEW st \in Statuses
  PROVE  /\ [s EXCEPT !.status = st].status = st
         /\ [s EXCEPT !.status = st].next = s.next
         /\ [s EXCEPT !.status = st].retry = s.retry
  BY DEF ScheduledTask

LEMMA PassedKeeps ==
  ASSUME NEW s \in Slots
  PROVE  /\ Passed(s) \in Slots
         /\ Passed(s).status = s.status /\ Passed(s).retry = s.retry
         /\ s.next = "none" => Passed(s).next = "none"
         /\ Passed(s) = NoCopy <=> s = NoCopy
<1>1. CASE s.next = "future"
  <2>1. s \in ScheduledTask
    BY <1>1 DEF Slots, NoCopy
  <2>2. Passed(s) = [s EXCEPT !.next = "due"] /\ Passed(s) \in ScheduledTask
    BY <1>1, <2>1, TaskExcept DEF Passed
  <2>3. Passed(s).status = s.status /\ Passed(s).retry = s.retry
    BY <2>1, <2>2 DEF ScheduledTask
  <2> QED
    BY <1>1, <2>1, <2>2, <2>3, TaskExcept
<1>2. CASE s.next # "future"
  BY <1>2 DEF Passed
<1> QED
  BY <1>1, <1>2

LEMMA DispatchedFields ==
  ASSUME SchedInv, cur \in Tasks, copy \in ScheduledTask, NEW ok \in BOOLEAN
  PROVE  /\ Dispatched(ok) \in ScheduledTask
         /\ Dispatched(ok).status = copy.status
         /\ Dispatched(ok).retry <= MaxRetries[cur]
<1>1. copy.retry \in Nat /\ copy.retry <= MaxRetries[cur] /\ MaxRetries[cur] \in Nat
  BY SchedulerAssumption DEF SchedInv, RetriesBounded, ScheduledTask
<1>2. CASE ~ok /\ copy.retry < MaxRetries[cur]
  <2> DEFINE more == copy.retry + 1
  <2>1. more \in Nat /\ more <= MaxRetries[cur]
    BY <1>1, <1>2
  <2>2. Dispatched(ok) = [copy EXCEPT !.retry = more, !.next = "future"]
    BY <1>2 DEF Dispatched, Retries
  <2> HIDE DEF more
  <2> QED
    BY <2>1, <2>2 DEF ScheduledTask
<1>3. CASE ~(~ok /\ copy.retry < MaxRetries[cur])
  BY <1>1, <1>3 DEF Dispatched, Retries, ScheduledTask
<1> QED
  BY <1>2, <1>3

LEMMA RecordedFields ==
  ASSUME cur \in Tasks, copy \in ScheduledTask
  PROVE  /\ Recorded \in ScheduledTask
         /\ Recorded.retry = copy.retry
         /\ Kind[cur] = "once" => Recorded.status = "completed" /\ Recorded.next = "none"
         /\ Kind[cur] # "once" => Recorded.status = copy.status
  BY DEF Recorded, ScheduledTask, Statuses

------------------------------------------------------------------------------
(* SchedInv is inductive.                                                  *)

LEMMA SchedInitInv == SchedInit => SchedInv
<1> SUFFICES ASSUME SchedInit PROVE SchedInv
  OBVIOUS
<1>1. Empty \in [Tasks -> Slots] /\ \A t \in Tasks : Empty[t] = NoCopy /\ Empty[t].retry = 0
  BY DEF Empty, Slots, NoCopy
<1>2. SchedTypeOK
  <2>1. 0 \in 0 .. MaxCrashes /\ 0 \in 0 .. MaxFailures /\ \A t \in Tasks : 0 <= MaxRetries[t]
    BY SchedulerAssumption
  <2>2. crashes \in 0 .. MaxCrashes /\ failures \in 0 .. MaxFailures
    BY <2>1 DEF SchedInit
  <2>3. store \in [Tasks -> Slots] /\ file \in [Tasks -> Slots] /\ batch \in [Tasks -> Slots]
        /\ \A t \in Tasks : store[t].retry <= MaxRetries[t]
    BY <1>1, <2>1 DEF SchedInit
  <2>4. /\ ended \in [Tasks -> Ends] /\ cancelled \in [Tasks -> {"no", "quiet"}]
        /\ copy \in Slots /\ cur = NoTask /\ torn = FALSE /\ loop = "wait"
    BY DEF SchedInit, Slots, Ends
  <2> QED
    BY <2>2, <2>3, <2>4 DEF SchedTypeOK, Slots, LoopPlaces
<1>3. LoopAgrees
  BY <1>1, SchedulerAssumption DEF SchedInit, LoopAgrees
<1>4. RetriesBounded
  BY <1>1, SchedulerAssumption DEF SchedInit, RetriesBounded
<1> QED
  BY <1>2, <1>3, <1>4 DEF SchedInv

(* What a change of one task does to the store and the file.               *)
LEMMA PutChanges ==
  ASSUME SchedInv, NEW t \in Tasks, NEW task \in ScheduledTask, Put(t, task),
         task.retry <= MaxRetries[t]
  PROVE  /\ store' \in [Tasks -> Slots] /\ file' \in [Tasks -> Slots]
         /\ store'[t] = task /\ \A u \in Tasks \ {t} : store'[u] = store[u]
         /\ \A u \in Tasks : store[u] # NoCopy => store'[u] # NoCopy
         /\ \/ file' = store'
            \/ file' = file
         /\ \A u \in Tasks : store'[u].retry <= MaxRetries[u] /\ file'[u].retry <= MaxRetries[u]
         /\ failures' \in 0 .. MaxFailures /\ torn' \in BOOLEAN
<1>1. store \in [Tasks -> Slots] /\ file \in [Tasks -> Slots] /\ failures \in 0 .. MaxFailures
  BY DEF SchedInv, SchedTypeOK, Slots
<1>2. task \in Slots /\ task # NoCopy
  BY TaskExcept
<1>3. store' \in [Tasks -> Slots] /\ store'[t] = task /\ \A u \in Tasks \ {t} : store'[u] = store[u]
  BY <1>1, <1>2 DEF Put
<1>4. file' = store' \/ file' = file
  BY DEF Put, Saved, SaveFailed
<1>5. \A u \in Tasks : store'[u].retry <= MaxRetries[u] /\ file'[u].retry <= MaxRetries[u]
  BY <1>3, <1>4 DEF SchedInv, RetriesBounded
<1>6. failures' = failures \/ (failures < MaxFailures /\ failures' = failures + 1)
  BY Zenon DEF Put, Saved, SaveFailed
<1>7. failures' \in 0 .. MaxFailures
  BY <1>1, <1>6, SchedulerAssumption
<1>8. torn' \in BOOLEAN
  BY Zenon DEF Put, Saved, SaveFailed, SchedInv, SchedTypeOK
<1> QED
  BY <1>1, <1>2, <1>3, <1>4, <1>5, <1>7, <1>8

LEMMA PollSteps ==
  ASSUME SchedInv, Poll \/ ScanDone \/ \E t \in Tasks : Skip(t) \/ Fire(t)
  PROVE  SchedInv'
<1> USE SchedulerAssumption DEF SchedInv
<1>1. NoCopy \in Slots /\ NoCopy.retry = 0
  BY DEF Slots, NoCopy
<1>2. CASE Poll
  <2>1. SchedTypeOK'
    BY <1>2 DEF Poll, SchedTypeOK, LoopPlaces
  <2>2. LoopAgrees'
    BY <1>2 DEF Poll, LoopAgrees, Exists
  <2>3. RetriesBounded'
    BY <1>2 DEF Poll, RetriesBounded, LoopAgrees
  <2> QED
    BY <2>1, <2>2, <2>3
<1>3. CASE ScanDone
  <2>1. SchedTypeOK'
    BY <1>3 DEF ScanDone, SchedTypeOK, LoopPlaces
  <2>2. LoopAgrees'
    BY <1>3 DEF ScanDone, LoopAgrees, Exists
  <2>3. RetriesBounded'
    BY <1>3 DEF ScanDone, RetriesBounded
  <2> QED
    BY <2>1, <2>2, <2>3
<1>4. ASSUME NEW t \in Tasks, Skip(t) PROVE SchedInv'
  <2>1. SchedTypeOK'
    BY <1>4 DEF Skip, SchedTypeOK
  <2>2. LoopAgrees'
    BY <1>4 DEF Skip, SchedTypeOK, LoopAgrees, Exists
  <2>3. RetriesBounded'
    BY <1>1, <1>4 DEF Skip, SchedTypeOK, RetriesBounded, LoopAgrees
  <2> QED
    BY <2>1, <2>2, <2>3
<1>5. ASSUME NEW t \in Tasks, Fire(t) PROVE SchedInv'
  <2>1. batch[t] \in ScheduledTask /\ batch[t].status = "active"
    BY <1>5 DEF Fire, IsDue, SchedTypeOK
  <2>2. SchedTypeOK'
    BY <1>5, <2>1 DEF Fire, SchedTypeOK, LoopPlaces
  <2>3. LoopAgrees'
    BY <1>5, <2>1 DEF Fire, SchedTypeOK, LoopAgrees, Exists
  <2>4. RetriesBounded'
    BY <1>1, <1>5 DEF Fire, SchedTypeOK, RetriesBounded
  <2> QED
    BY <2>2, <2>3, <2>4
<1> QED
  BY <1>2, <1>3, <1>4, <1>5

LEMMA RunSteps ==
  ASSUME SchedInv, RecordRun \/ \E ok \in BOOLEAN : RunReturns(ok)
  PROVE  SchedInv'
<1> USE DEF SchedInv
<1>0. cur \in Tasks /\ copy \in ScheduledTask /\ copy.retry <= MaxRetries[cur]
  BY DEF RecordRun, RunReturns, LoopAgrees, RetriesBounded
<1>1. CASE RecordRun
  <2>1. Put(cur, Recorded) /\ Recorded \in ScheduledTask /\ Recorded.retry <= MaxRetries[cur]
    BY <1>0, <1>1, RecordedFields DEF RecordRun
  <2>2. SchedTypeOK'
    BY <1>0, <1>1, <2>1, PutChanges DEF RecordRun, SchedTypeOK, Slots, LoopPlaces
  <2>3. LoopAgrees'
    BY <1>0, <1>1, <2>1, PutChanges, SchedulerAssumption DEF RecordRun, LoopAgrees, Exists
  <2>4. RetriesBounded'
    BY <1>0, <1>1, <2>1, PutChanges, SchedulerAssumption DEF RecordRun, RetriesBounded
  <2> QED
    BY <2>2, <2>3, <2>4
<1>2. ASSUME NEW ok \in BOOLEAN, RunReturns(ok) PROVE SchedInv'
  <2>1. Put(cur, Dispatched(ok)) /\ Dispatched(ok) \in ScheduledTask /\ Dispatched(ok).retry <= MaxRetries[cur]
    BY <1>0, <1>2, DispatchedFields DEF RunReturns
  <2>2. ended' \in [Tasks -> Ends]
    BY <1>0, <1>2 DEF RunReturns, SchedTypeOK, Ends
  <2>3. SchedTypeOK'
    BY <1>0, <1>2, <2>1, <2>2, PutChanges DEF RunReturns, SchedTypeOK, Slots, LoopPlaces
  <2>4. LoopAgrees'
    BY <1>0, <1>2, <2>1, PutChanges DEF RunReturns, LoopAgrees, Exists
  <2>5. RetriesBounded'
    BY <1>0, <1>2, <2>1, PutChanges DEF RunReturns, RetriesBounded
  <2> QED
    BY <2>3, <2>4, <2>5
<1> QED
  BY <1>1, <1>2

LEMMA ToolSteps ==
  ASSUME SchedInv, NEW t \in Tasks,
         \/ \E next \in {"future", "due"} : Schedule(t, next)
         \/ Cancel(t)
         \/ \E status \in {"active", "paused"} : PauseOrResume(t, status)
  PROVE  SchedInv'
<1> USE DEF SchedInv
<1>1. PICK task \in ScheduledTask : Put(t, task) /\ task.retry <= MaxRetries[t]
  <2>1. ASSUME NEW next \in {"future", "due"}, Schedule(t, next)
        PROVE  \E task \in ScheduledTask : Put(t, task) /\ task.retry <= MaxRetries[t]
    <3>1. [status |-> "active", next |-> next, retry |-> 0] \in ScheduledTask
      BY DEF ScheduledTask, Statuses
    <3> QED
      BY <2>1, <3>1, SchedulerAssumption DEF Schedule
  <2>2. ASSUME NEW status \in Statuses, Exists(t), Put(t, [store[t] EXCEPT !.status = status])
        PROVE  \E task \in ScheduledTask : Put(t, task) /\ task.retry <= MaxRetries[t]
    <3>1. store[t] \in ScheduledTask /\ store[t].retry <= MaxRetries[t]
      BY <2>2 DEF Exists, SchedTypeOK
    <3> DEFINE s == store[t]
    <3>2. s \in ScheduledTask
      BY <3>1
    <3>3. [s EXCEPT !.status = status] \in ScheduledTask /\ [s EXCEPT !.status = status].retry = s.retry
      BY <3>2, <2>2, TaskExcept, CancelledOrPaused
    <3> QED
      BY <2>2, <3>1, <3>3
  <2> QED
    BY <2>1, <2>2 DEF Cancel, PauseOrResume, Statuses
<1>2. UNCHANGED <<loop, batch, cur, copy, crashes, ended>>
  BY DEF Schedule, Cancel, PauseOrResume
<1>3. cancelled' \in [Tasks -> {"no", "quiet"}]
  BY DEF Schedule, Cancel, PauseOrResume, SchedTypeOK
<1>4. SchedTypeOK'
  BY <1>1, <1>2, <1>3, PutChanges DEF SchedTypeOK, Slots
<1>5. loop \notin {"down", "unavailable"}
  BY DEF Schedule, Cancel, PauseOrResume, Up
<1>6. LoopAgrees'
  BY <1>1, <1>2, <1>5, PutChanges DEF LoopAgrees, Exists
<1>7. RetriesBounded'
  BY <1>1, <1>2, PutChanges DEF RetriesBounded
<1> QED
  BY <1>4, <1>6, <1>7

LEMMA ElapseStep ==
  ASSUME SchedInv, NEW t \in Tasks, Elapse(t)
  PROVE  SchedInv'
<1> USE DEF SchedInv
<1>1. store[t] \in Slots /\ batch[t] \in Slots /\ file[t] \in Slots
  BY DEF SchedTypeOK, Slots
<1>2. /\ store' = [store EXCEPT ![t] = Passed(store[t])]
      /\ batch' = [batch EXCEPT ![t] = Passed(batch[t])]
      /\ file' = [file EXCEPT ![t] = Passed(file[t])]
      /\ UNCHANGED <<torn, loop, cur, copy, crashes, failures, ended, cancelled>>
  BY DEF Elapse
<1>3. SchedTypeOK'
  BY <1>1, <1>2, PassedKeeps DEF SchedTypeOK, Slots
<1>4. \A u \in Tasks : (batch'[u] = NoCopy <=> batch[u] = NoCopy) /\ (store'[u] = NoCopy <=> store[u] = NoCopy)
  BY <1>1, <1>2, PassedKeeps DEF SchedTypeOK
<1>5. store[t] # NoCopy
  BY DEF Elapse, NoCopy
<1>6. batch = Empty => batch' = Empty
  <2>1. ASSUME batch = Empty PROVE Passed(batch[t]) = batch[t]
    BY <2>1 DEF Empty, Passed, NoCopy
  <2> QED
    BY <1>2, <2>1 DEF SchedTypeOK
<1>7. store # Empty
  BY <1>5 DEF Empty
<1>8. LoopAgrees'
  BY <1>2, <1>4, <1>6, <1>7 DEF LoopAgrees, Exists
<1>9. RetriesBounded'
  BY <1>1, <1>2, PassedKeeps DEF RetriesBounded, SchedTypeOK
<1> QED
  BY <1>3, <1>8, <1>9

LEMMA ProcessSteps ==
  ASSUME SchedInv, Restart \/ \E midSave \in BOOLEAN : Crash(midSave)
  PROVE  SchedInv'
<1> USE SchedulerAssumption DEF SchedInv
<1>1. Empty \in [Tasks -> Slots] /\ \A t \in Tasks : Empty[t] = NoCopy /\ Empty[t].retry = 0
  BY DEF Empty, Slots, NoCopy
<1>2. ASSUME NEW midSave \in BOOLEAN, Crash(midSave) PROVE SchedInv'
  <2>1. SchedTypeOK'
    BY <1>1, <1>2 DEF Crash, SchedTypeOK, Slots, LoopPlaces, Ends
  <2>2. LoopAgrees'
    BY <1>1, <1>2 DEF Crash, LoopAgrees
  <2>3. RetriesBounded'
    BY <1>1, <1>2 DEF Crash, RetriesBounded
  <2> QED
    BY <2>1, <2>2, <2>3
<1>3. CASE Restart
  <2>1. cur = NoTask /\ copy = NoCopy /\ batch = Empty /\ loop = "down"
    BY <1>3 DEF Restart, LoopAgrees
  <2>2. SchedTypeOK'
    BY <1>3 DEF Restart, SchedTypeOK, LoopPlaces, RetriesBounded
  <2>3. LoopAgrees'
    BY <1>1, <1>3, <2>1 DEF Restart, LoopAgrees
  <2>4. RetriesBounded'
    BY <1>3 DEF Restart, RetriesBounded
  <2> QED
    BY <2>2, <2>3, <2>4
<1> QED
  BY <1>2, <1>3

LEMMA SchedStutter ==
  ASSUME SchedInv, UNCHANGED schedVars
  PROVE  SchedInv'
  BY DEF SchedInv, SchedTypeOK, LoopAgrees, RetriesBounded, Exists, schedVars

LEMMA SchedInvStep == SchedInv /\ [SchedNext]_schedVars => SchedInv'
  BY PollSteps, RunSteps, ToolSteps, ElapseStep, ProcessSteps, SchedStutter DEF SchedNext, LoopStep

THEOREM SchedInvariant == SchedSpec => []SchedInv
  BY SchedInitInv, SchedInvStep, PTL DEF SchedSpec

(* Types, and with them that no task is tried more often than MaxRetries   *)
(* allows, whichever of the two writers of a run stored it last.           *)
THEOREM SchedTypeCorrect == SchedSpec => []SchedTypeOK
<1>1. SchedInv => SchedTypeOK
  BY DEF SchedInv
<1> QED
  BY <1>1, SchedInvariant, PTL

------------------------------------------------------------------------------
(* A task to be run once.                                                  *)

(* When its run has ended for good, the loop is about to record that, or   *)
(* the task has no time any more, in the store and in the list.  The file  *)
(* may still say otherwise, and a crash goes back to it.                   *)
Spent ==
  \A t \in Tasks : Kind[t] = "once" /\ ended[t] = "final" =>
    \/ cur = t /\ loop = "record"
    \/ cur # t /\ Exists(t) /\ store[t].next = "none" /\ batch[t].next = "none"

(* Only a run that has returned completes a task.                          *)
CompletedByRun ==
  /\ \A t \in Tasks : Kind[t] = "once" /\ (store[t].status = "completed" \/ file[t].status = "completed") =>
       ended[t] # "no"
  /\ loop = "record" /\ Kind[cur] = "once" => ended[cur] # "no"

LEMMA LoopKeepsSpent ==
  ASSUME SchedInv, Spent, LoopStep \/ \E ok \in BOOLEAN : RunReturns(ok)
  PROVE  Spent'
<1> USE DEF SchedInv, SchedTypeOK
<1>1. NoCopy.next = "none"
  BY DEF NoCopy
<1>2. CASE Poll \/ ScanDone
  BY <1>1, <1>2, SchedulerAssumption DEF Poll, ScanDone, Spent, Exists, LoopAgrees
<1>3. ASSUME NEW t \in Tasks, Skip(t) PROVE Spent'
  BY <1>1, <1>3 DEF Skip, Spent, Exists
<1>4. ASSUME NEW t \in Tasks, Fire(t) PROVE Spent'
  <2>1. batch[t].next = "due" /\ cur = NoTask /\ loop = "scan"
    BY <1>4, SchedulerAssumption DEF Fire, IsDue, LoopAgrees
  <2>2. Kind[t] = "once" => ended[t] # "final"
    BY <2>1 DEF Spent
  <2>3. \A u \in Tasks \ {t} : batch'[u] = batch[u] /\ cur' # u
    BY <1>4 DEF Fire
  <2> QED
    BY <1>4, <2>1, <2>2, <2>3 DEF Fire, Spent, Exists
<1>5. CASE RecordRun
  <2>1. cur \in Tasks /\ copy \in ScheduledTask /\ copy.retry <= MaxRetries[cur] /\ batch[cur] = NoCopy
    BY <1>5 DEF RecordRun, LoopAgrees, RetriesBounded
  <2>2. Put(cur, Recorded) /\ Recorded \in ScheduledTask /\ Recorded.retry <= MaxRetries[cur]
    BY <1>5, <2>1, RecordedFields DEF RecordRun
  <2>3. store'[cur] = Recorded /\ store'[cur] # NoCopy /\ \A u \in Tasks \ {cur} : store'[u] = store[u]
    BY <2>1, <2>2, PutChanges, TaskExcept
  <2>4. Kind[cur] = "once" => store'[cur].next = "none"
    BY <2>1, <2>3, RecordedFields
  <2> QED
    BY <1>1, <1>5, <2>1, <2>3, <2>4, SchedulerAssumption DEF RecordRun, Spent, Exists
<1>6. ASSUME NEW ok \in BOOLEAN, RunReturns(ok) PROVE Spent'
  <2>1. cur \in Tasks /\ copy \in ScheduledTask
    BY <1>6 DEF RunReturns, LoopAgrees
  <2>2. Put(cur, Dispatched(ok)) /\ Dispatched(ok) \in ScheduledTask /\ Dispatched(ok).retry <= MaxRetries[cur]
    BY <1>6, <2>1, DispatchedFields DEF RunReturns
  <2>3. \A u \in Tasks \ {cur} : store'[u] = store[u] /\ ended'[u] = ended[u]
    BY <1>6, <2>1, <2>2, PutChanges DEF RunReturns
  <2> QED
    BY <1>6, <2>1, <2>3 DEF RunReturns, Spent, Exists
<1> QED
  BY <1>2, <1>3, <1>4, <1>5, <1>6 DEF LoopStep

LEMMA OthersKeepSpent ==
  ASSUME SchedInv, Spent, SchedNext, ~LoopStep, ~ \E ok \in BOOLEAN : RunReturns(ok)
  PROVE  Spent'
<1> USE DEF SchedInv, SchedTypeOK
<1>1. ASSUME NEW t \in Tasks, NEW next \in {"future", "due"}, Schedule(t, next) PROVE Spent'
  <2>1. ~Exists(t) /\ \A u \in Tasks \ {t} : store'[u] = store[u]
    BY <1>1 DEF Schedule, Put
  <2>2. Kind[t] = "once" => ended[t] # "final"
    BY <2>1 DEF Spent, LoopAgrees
  <2> QED
    BY <1>1, <2>1, <2>2 DEF Schedule, Spent, Exists
<1>2. ASSUME NEW t \in Tasks, NEW status \in Statuses, Exists(t), Put(t, [store[t] EXCEPT !.status = status]),
             UNCHANGED <<batch, cur, loop, ended>>
      PROVE  Spent'
  <2>1. store[t] \in ScheduledTask
    BY <1>2 DEF Exists
  <2>2. store'[t].next = store[t].next /\ store'[t] # NoCopy /\ \A u \in Tasks \ {t} : store'[u] = store[u]
    BY <1>2, <2>1, CancelledOrPaused, TaskExcept DEF Put
  <2> QED
    BY <1>2, <2>2 DEF Spent, Exists
<1>3. ASSUME NEW t \in Tasks, Elapse(t) PROVE Spent'
  <2>1. \A u \in Tasks \ {t} : store'[u] = store[u] /\ batch'[u] = batch[u]
    BY <1>3 DEF Elapse
  <2>2. Kind[t] = "once" /\ ended[t] = "final" => cur = t /\ loop = "record"
    BY <1>3 DEF Elapse, Spent
  <2>3. UNCHANGED <<cur, loop, ended>>
    BY <1>3 DEF Elapse
  <2> QED
    BY <2>1, <2>2, <2>3 DEF Spent, Exists
<1>4. ASSUME NEW midSave \in BOOLEAN, Crash(midSave) PROVE Spent'
  BY <1>4 DEF Crash, Spent
<1>5. CASE Restart
  <2>1. store = Empty /\ cur = NoTask /\ NoTask \notin Tasks
    BY <1>5, SchedulerAssumption DEF Restart, LoopAgrees
  <2>2. \A t \in Tasks : Kind[t] = "once" => ended[t] # "final"
    BY <2>1 DEF Spent, Exists, Empty
  <2> QED
    BY <1>5, <2>2 DEF Restart, Spent
<1> QED
  BY <1>1, <1>2, <1>3, <1>4, <1>5 DEF SchedNext, Cancel, PauseOrResume, Statuses

LEMMA CompletedStep ==
  ASSUME SchedInv, CompletedByRun, [SchedNext]_schedVars
  PROVE  CompletedByRun'
<1> USE DEF SchedInv, SchedTypeOK
<1>1. CASE RecordRun
  <2>1. cur \in Tasks /\ copy \in ScheduledTask /\ copy.status = "active"
    BY <1>1 DEF RecordRun, LoopAgrees
  <2>2. Kind[cur] = "once" => ended[cur] # "no"
    BY <1>1 DEF RecordRun, CompletedByRun
  <2>3. \A u \in Tasks \ {cur} : store'[u] = store[u]
    BY <1>1 DEF RecordRun, Put
  <2>4. file' = store' \/ file' = file
    BY <1>1 DEF RecordRun, Put, Saved, SaveFailed
  <2>5. ended' = ended /\ loop' = "scan"
    BY <1>1 DEF RecordRun
  <2> QED
    BY <2>2, <2>3, <2>4, <2>5 DEF CompletedByRun
<1>2. ASSUME NEW ok \in BOOLEAN, RunReturns(ok) PROVE CompletedByRun'
  <2>1. cur \in Tasks /\ copy \in ScheduledTask
    BY <1>2 DEF RunReturns, LoopAgrees
  <2>2. \A u \in Tasks \ {cur} : store'[u] = store[u] /\ ended'[u] = ended[u]
    BY <1>2 DEF RunReturns, Put
  <2>3. file' = store' \/ file' = file
    BY <1>2 DEF RunReturns, Put, Saved, SaveFailed
  <2>4. Kind[cur] = "once" => ended'[cur] # "no"
    BY <1>2, <2>1 DEF RunReturns
  <2>5. cur' = cur
    BY <1>2 DEF RunReturns
  <2> QED
    BY <2>1, <2>2, <2>3, <2>4, <2>5 DEF CompletedByRun
<1>3. ASSUME NEW t \in Tasks, NEW next \in {"future", "due"}, Schedule(t, next) PROVE CompletedByRun'
  <2>1. [status |-> "active", next |-> next, retry |-> 0] \in ScheduledTask
    BY DEF ScheduledTask, Statuses
  <2>2. /\ \A u \in Tasks : store'[u].status = "completed" => store[u].status = "completed"
        /\ file' = store' \/ file' = file
    BY <1>3 DEF Schedule, Put, Saved, SaveFailed
  <2> QED
    BY <1>3, <2>2 DEF Schedule, CompletedByRun
<1>4. ASSUME NEW t \in Tasks, NEW status \in {"active", "paused", "cancelled"}, Exists(t),
             Put(t, [store[t] EXCEPT !.status = status]), UNCHANGED <<loop, cur, ended>>
      PROVE  CompletedByRun'
  <2>1. store[t] \in ScheduledTask
    BY <1>4 DEF Exists
  <2>2. /\ \A u \in Tasks : store'[u].status = "completed" => store[u].status = "completed"
        /\ file' = store' \/ file' = file
    BY <1>4, <2>1, CancelledOrPaused DEF Put, Saved, SaveFailed, Statuses
  <2> QED
    BY <1>4, <2>2 DEF CompletedByRun
<1>5. ASSUME NEW t \in Tasks, Elapse(t) PROVE CompletedByRun'
  <2>1. store[t] \in Slots /\ file[t] \in Slots
    BY DEF Slots
  <2>2. \A u \in Tasks : store'[u].status = store[u].status /\ file'[u].status = file[u].status
    BY <1>5, <2>1, PassedKeeps DEF Elapse
  <2> QED
    BY <1>5, <2>2 DEF Elapse, CompletedByRun
<1>6. ASSUME NEW midSave \in BOOLEAN, Crash(midSave) PROVE CompletedByRun'
  BY <1>6 DEF Crash, CompletedByRun, Empty, NoCopy
<1>7. CASE Restart
  BY <1>7 DEF Restart, CompletedByRun
<1>8. CASE UNCHANGED <<store, file, ended>> /\ loop' # "record"
  BY <1>8 DEF CompletedByRun
<1>9. CASE UNCHANGED schedVars
  BY <1>9 DEF CompletedByRun, schedVars
<1> QED
  BY <1>1, <1>2, <1>3, <1>4, <1>5, <1>6, <1>7, <1>8, <1>9
     DEF SchedNext, LoopStep, Poll, Skip, Fire, ScanDone, Cancel, PauseOrResume, schedVars

(* A task to be run once whose run ended for good is not run again by this *)
(* process, and is completed only by a run that returned                   *)
(* (scheduler.go 134-168, dispatcher.go 63-72).                            *)
THEOREM FinishedNotRunAgainHolds == SchedSpec => []FinishedNotRunAgain
<1>1. SchedInit => Spent /\ CompletedByRun
  BY SchedulerAssumption DEF SchedInit, Spent, CompletedByRun, Empty, NoCopy
<1>2. SchedInv /\ Spent /\ [SchedNext]_schedVars => Spent'
  BY LoopKeepsSpent, OthersKeepSpent DEF Spent, Exists, schedVars
<1>3. SchedInv /\ CompletedByRun /\ [SchedNext]_schedVars => CompletedByRun'
  BY CompletedStep
<1>4. Spent /\ CompletedByRun => FinishedNotRunAgain
  BY DEF Spent, CompletedByRun, FinishedNotRunAgain
<1> QED
  BY <1>1, <1>2, <1>3, <1>4, SchedInvariant, PTL DEF SchedSpec

------------------------------------------------------------------------------
(* A cancelled task.                                                       *)

(* A task that was cancelled while the loop had no copy of it is cancelled *)
(* wherever there is one.                                                  *)
CancelledEverywhere ==
  \A t \in Tasks : cancelled[t] = "quiet" =>
    /\ cur # t
    /\ batch[t] = NoCopy \/ batch[t].status = "cancelled"
    /\ file[t].status = "cancelled"
    /\ Up => store[t].status = "cancelled"

LEMMA CancelledStep ==
  ASSUME SchedInv, CancelledEverywhere, [SchedNext]_schedVars
  PROVE  CancelledEverywhere'
<1> USE DEF SchedInv, SchedTypeOK
<1>1. ASSUME NEW t \in Tasks, NEW task, Put(t, task), Up, cancelled'[t] # "quiet",
             \A u \in Tasks \ {t} : cancelled'[u] = "quiet" => cancelled[u] = "quiet",
             \A u \in Tasks \ {t} : cur' = u => cur = u,
             UNCHANGED batch
      PROVE  CancelledEverywhere'
  <2>1. \A u \in Tasks \ {t} : store'[u] = store[u] /\ (file'[u] = store[u] \/ file'[u] = file[u])
    BY <1>1 DEF Put, Saved, SaveFailed
  <2> QED
    BY <1>1, <2>1 DEF CancelledEverywhere
<1>2. CASE Poll \/ ScanDone \/ \E t \in Tasks : Skip(t)
  BY <1>2 DEF Poll, ScanDone, Skip, CancelledEverywhere, Up
<1>3. ASSUME NEW t \in Tasks, Fire(t) PROVE CancelledEverywhere'
  <2>1. cancelled[t] # "quiet"
    BY <1>3 DEF Fire, IsDue, CancelledEverywhere
  <2> QED
    BY <1>3, <2>1 DEF Fire, CancelledEverywhere, Up
<1>4. CASE RecordRun
  <2>1. cur \in Tasks /\ cancelled[cur] # "quiet"
    BY <1>4 DEF RecordRun, LoopAgrees, CancelledEverywhere
  <2> QED
    BY <1>1, <1>4, <2>1, SchedulerAssumption DEF RecordRun, Up
<1>5. ASSUME NEW ok \in BOOLEAN, RunReturns(ok) PROVE CancelledEverywhere'
  <2>1. cur \in Tasks /\ cancelled[cur] # "quiet"
    BY <1>5 DEF RunReturns, LoopAgrees, CancelledEverywhere
  <2> QED
    BY <1>1, <1>5, <2>1 DEF RunReturns, Up
<1>6. ASSUME NEW t \in Tasks, NEW next \in {"future", "due"}, Schedule(t, next) PROVE CancelledEverywhere'
  <2>1. cancelled[t] # "quiet"
    BY <1>6 DEF Schedule, Exists, CancelledEverywhere, NoCopy
  <2> QED
    BY <1>1, <1>6, <2>1 DEF Schedule
<1>7. ASSUME NEW t \in Tasks, NEW status \in {"active", "paused"}, PauseOrResume(t, status)
      PROVE  CancelledEverywhere'
  BY <1>1, <1>7 DEF PauseOrResume
<1>8. ASSUME NEW t \in Tasks, Cancel(t) PROVE CancelledEverywhere'
  <2>1. Up /\ UNCHANGED <<loop, batch, cur>> /\ store[t] \in ScheduledTask
    BY <1>8 DEF Cancel, Exists
  <2>2. store' = [store EXCEPT ![t] = [store[t] EXCEPT !.status = "cancelled"]] /\ (file' = store' \/ file' = file)
    BY <1>8 DEF Cancel, Put, Saved, SaveFailed
  <2>3. \A u \in Tasks \ {t} : cancelled'[u] = cancelled[u]
    BY <1>8 DEF Cancel
  <2>4. cancelled'[t] = "quiet" => file' = store' /\ ~InHand(t)
    BY <1>8 DEF Cancel
  <2>5. store'[t].status = "cancelled"
    BY <2>1, <2>2, CancelledOrPaused DEF Statuses
  <2>6. ASSUME NEW u \in Tasks \ {t}, cancelled'[u] = "quiet"
        PROVE  store'[u].status = "cancelled" /\ file'[u].status = "cancelled"
    BY <2>1, <2>2, <2>3, <2>6 DEF CancelledEverywhere
  <2> QED
    BY <2>1, <2>3, <2>4, <2>5, <2>6 DEF CancelledEverywhere, InHand
<1>9. ASSUME NEW t \in Tasks, Elapse(t) PROVE CancelledEverywhere'
  <2>1. store[t] \in Slots /\ file[t] \in Slots /\ batch[t] \in Slots
    BY DEF Slots
  <2>2. \A u \in Tasks : /\ store'[u].status = store[u].status /\ file'[u].status = file[u].status
                         /\ batch'[u].status = batch[u].status /\ (batch[u] = NoCopy => batch'[u] = NoCopy)
    BY <1>9, <2>1, PassedKeeps DEF Elapse
  <2> QED
    BY <1>9, <2>2 DEF Elapse, CancelledEverywhere, Up
<1>10. ASSUME NEW midSave \in BOOLEAN, Crash(midSave) PROVE CancelledEverywhere'
  BY <1>10, SchedulerAssumption DEF Crash, CancelledEverywhere, Empty, Up
<1>11. CASE Restart
  BY <1>11 DEF Restart, CancelledEverywhere, Up
<1>12. CASE UNCHANGED schedVars
  BY <1>12 DEF CancelledEverywhere, schedVars, Up
<1> QED
  BY <1>2, <1>3, <1>4, <1>5, <1>6, <1>7, <1>8, <1>9, <1>10, <1>11, <1>12 DEF SchedNext, LoopStep

(* Cancelling sticks when no poll has the task in hand: neither the stores *)
(* after other runs, nor a failed save, nor a restart brings it back.      *)
THEOREM QuietCancelSticksHolds == SchedSpec => []QuietCancelSticks
<1>1. SchedInit => CancelledEverywhere
  BY DEF SchedInit, CancelledEverywhere
<1>2. CancelledEverywhere => QuietCancelSticks
  BY DEF CancelledEverywhere, QuietCancelSticks
<1> QED
  BY <1>1, <1>2, CancelledStep, SchedInvariant, PTL DEF SchedSpec

==============================================================================

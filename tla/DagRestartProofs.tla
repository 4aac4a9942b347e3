--------------------------- MODULE DagRestartProofs ---------------------------
(***************************************************************************)
(* Proofs about DagRestart for every graph and any number of restarts.     *)
(*                                                                         *)
(* DagInv of DagResolverProofs does not survive a restart: a restored task *)
(* may be Completed or Failed without ever having had a goroutine, and     *)
(* nobody remembers why a task was skipped.  DagCore does survive.  To it  *)
(* RestartInv adds that the status maps on their way to the file and in it *)
(* are closed under dependencies.                                          *)
(***************************************************************************)
EXTENDS DagRestart, DagResolverProofs

SavesClosed ==
  /\ savePc = "write" => Closed(taken)
  /\ disk # NoFile => Closed(disk.status)

SaveTypeOK ==
  /\ env \in SUBSET Tasks
  /\ savePc \in {"idle", "tasks", "write"}
  /\ copied \in SUBSET Tasks
  /\ taken \in [Tasks -> Statuses]
  /\ disk \in Files \cup {NoFile}
  /\ restarts \in 0 .. MaxRestarts

RestartInv == DagCore /\ SaveTypeOK /\ SavesClosed

------------------------------------------------------------------------------
(* A restart: closed statuses stay closed when RestoreGraph makes          *)
(* interrupted tasks Pending, since nothing can depend on them yet.        *)

LEMMA RestoreKeepsClosed ==
  ASSUME NEW st \in [Tasks -> Statuses], Closed(st)
  PROVE  Closed([t \in Tasks |-> RestoredStatus(st[t])])
  BY DagAssumption DEF Closed, Started, RestoredStatus

LEMMA DiskStatuses ==
  ASSUME SaveTypeOK, disk # NoFile
  PROVE  disk.status \in [Tasks -> Statuses] /\ disk.env \in SUBSET Tasks
  BY DEF SaveTypeOK, Files

LEMMA RestartKeepsInv ==
  ASSUME RestartInv, CrashAndRestart
  PROVE  RestartInv'
<1> USE DagAssumption DEF RestartInv, CrashAndRestart
<1>1. disk.status \in [Tasks -> Statuses] /\ disk.env \in SUBSET Tasks
  BY DiskStatuses
<1>2. Closed(disk.status)
  BY DEF SavesClosed
<1>3. Closed(status')
  BY <1>1, <1>2, RestoreKeepsClosed
<1>4. \A t \in Tasks : status'[t] \in {"Pending", "Completed", "Failed", "Skipped"}
  BY <1>1 DEF Statuses, RestoredStatus
<1>5. GoroutineFitsStatus' /\ ReadyStaysReady' /\ CollectedAreIdle'
  BY <1>4 DEF GoroutineFitsStatus, ReadyStaysReady, CollectedAreIdle
<1>6. Holders' = {} /\ sem' = 0
  BY DEF Holders, HoldsSlot
<1>7. SlotsExact'
  BY <1>6, FS_EmptySet DEF SlotsExact, Holders
<1>8. TypeOK'
  <2>1. status' \in [Tasks -> Statuses]
    BY <1>4 DEF Statuses
  <2>2. sem' \in 0 .. Concurrency
    OBVIOUS
  <2> QED
    BY <2>1, <2>2, Zenon DEF TypeOK, GorPhases, RunPhases
<1>9. SaveTypeOK'
  <2>1. restarts' \in 0 .. MaxRestarts
    BY RestartsAssumption DEF SaveTypeOK
  <2> QED
    BY <1>1, <2>1 DEF SaveTypeOK, Statuses
<1>10. SavesClosed'
  BY <1>2 DEF SavesClosed, Closed
<1>11. Closed(status)'
  BY <1>3 DEF Closed
<1> QED
  BY <1>5, <1>7, <1>8, <1>9, <1>10, <1>11 DEF DagCore

------------------------------------------------------------------------------
(* RestartInv is inductive.                                                *)

LEMMA RestartInitInv == RestartInit => RestartInv
<1> SUFFICES ASSUME RestartInit PROVE RestartInv
  OBVIOUS
<1>1. DagCore
  BY CoreInit DEF RestartInit
<1>2. SaveTypeOK
  <2>1. restarts \in 0 .. MaxRestarts
    BY RestartsAssumption DEF RestartInit
  <2> QED
    BY <2>1, Zenon DEF RestartInit, SaveTypeOK, Statuses
<1>3. SavesClosed
  BY DEF RestartInit, SavesClosed
<1> QED
  BY <1>1, <1>2, <1>3 DEF RestartInv

LEMMA RestartStep == RestartInv /\ [RestartNext]_restartVars => RestartInv'
<1> SUFFICES ASSUME RestartInv, [RestartNext]_restartVars PROVE RestartInv'
  OBVIOUS
<1> USE DEF RestartInv
<1>1. CASE ResolverStep
  <2>1. DagCore'
    BY <1>1, CoreNext DEF ResolverStep
  <2>2. SaveTypeOK' /\ SavesClosed'
    BY <1>1 DEF ResolverStep, saveVars, SaveTypeOK, SavesClosed, Closed
  <2> QED
    BY <2>1, <2>2
<1>2. ASSUME UNCHANGED dagVars, SaveTypeOK', SavesClosed' PROVE RestartInv'
  BY <1>2, CoreNext
<1>3. CASE SaveCopiesEnv
  BY <1>2, <1>3 DEF SaveCopiesEnv, SaveTypeOK, SavesClosed, Closed
<1>4. CASE SaveCopiesTasks
  <2>1. status \in [Tasks -> Statuses] /\ Closed(taken')
    BY <1>4 DEF SaveCopiesTasks, DagCore, TypeOK
  <2> QED
    BY <1>2, <1>4, <2>1 DEF SaveCopiesTasks, SaveTypeOK, SavesClosed, Closed
<1>5. CASE SaveWrites
  <2>1. disk' \in Files /\ disk'.status = taken
    BY <1>5 DEF SaveWrites, SaveTypeOK, Files
  <2>2. SaveTypeOK'
    BY <1>5, <2>1 DEF SaveWrites, SaveTypeOK
  <2>3. SavesClosed'
    BY <1>5, <2>1 DEF SaveWrites, SavesClosed, Closed
  <2> QED
    BY <1>2, <1>5, <2>2, <2>3 DEF SaveWrites
<1>6. CASE SaveFails
  BY <1>2, <1>6 DEF SaveFails, SaveTypeOK, SavesClosed, Closed
<1>7. CASE CrashAndRestart
  BY <1>7, RestartKeepsInv
<1>8. CASE UNCHANGED restartVars
  BY <1>2, <1>8 DEF restartVars, saveVars, SaveTypeOK, SavesClosed, Closed
<1> QED
  BY <1>1, <1>3, <1>4, <1>5, <1>6, <1>7, <1>8 DEF RestartNext

THEOREM RestartInvariant == RestartSpec => []RestartInv
  BY RestartInitInv, RestartStep, PTL DEF RestartSpec

------------------------------------------------------------------------------
(* Types, of the resolver and of what SaveState copies and writes.         *)
THEOREM RestartTypeCorrect == RestartSpec => []RestartTypeOK
<1>1. RestartInv => RestartTypeOK
  BY DEF RestartInv, DagCore, SaveTypeOK, RestartTypeOK
<1> QED
  BY <1>1, RestartInvariant, PTL

(* Whenever SaveState runs, and after any number of crashes, the file      *)
(* shows as started only tasks whose dependencies it shows as Completed.   *)
THEOREM SavedIsClosedHolds == RestartSpec => []SavedIsClosed
<1>1. RestartInv => SavedIsClosed
  BY DEF RestartInv, SavesClosed, SavedIsClosed, Closed, Started
<1> QED
  BY <1>1, RestartInvariant, PTL

(* No restored graph shows work in progress that nobody does.              *)
THEOREM StatusHasGoroutineHolds == RestartSpec => []StatusHasGoroutine
<1>1. RestartInv => StatusHasGoroutine
  BY DEF RestartInv, DagCore, TypeOK, GorPhases, GoroutineFitsStatus, StatusHasGoroutine, Terminal
<1> QED
  BY <1>1, RestartInvariant, PTL

(* Resumed or not, no task is dispatched before what it depends on is      *)
(* Completed, by this process or, as the file says, by an earlier one.     *)
THEOREM DepsBeforeStartAcrossRestarts == RestartSpec => []DepsBeforeStart
<1>1. RestartInit => DepsBeforeStart
  BY DEF RestartInit, Init, DepsBeforeStart
<1>2. RestartInv /\ DepsBeforeStart /\ [RestartNext]_restartVars => DepsBeforeStart'
  <2> SUFFICES ASSUME RestartInv, DepsBeforeStart, [RestartNext]_restartVars PROVE DepsBeforeStart'
    OBVIOUS
  <2>1. ASSUME [Next]_dagVars PROVE DepsBeforeStart'
    BY <2>1, DepsBeforeStartStep DEF RestartInv
  <2>2. CASE CrashAndRestart
    BY <2>2 DEF CrashAndRestart, DepsBeforeStart
  <2> QED
    BY <2>1, <2>2 DEF RestartNext, ResolverStep, SaveCopiesEnv, SaveCopiesTasks, SaveWrites, SaveFails, restartVars
<1> QED
  BY <1>1, <1>2, RestartInvariant, PTL DEF RestartSpec

(* The report of Run is honest in a resumed process too: nil or a failure  *)
(* summary only when every task is terminal, restored as such or ended     *)
(* here, and no goroutine is left.                                         *)
THEOREM RunKnowsAcrossRestarts == RestartSpec => []RunKnows
<1>1. RestartInit => RunKnows
  BY DEF RestartInit, Init, RunKnows
<1>2. RestartInv /\ RunKnows /\ [RestartNext]_restartVars => RunKnows'
  <2> SUFFICES ASSUME RestartInv, RunKnows, [RestartNext]_restartVars PROVE RunKnows'
    OBVIOUS
  <2>1. ASSUME [Next]_dagVars PROVE RunKnows'
    BY <2>1, RunKnowsStep DEF RestartInv
  <2>2. CASE CrashAndRestart
    BY <2>2 DEF CrashAndRestart, RunKnows
  <2> QED
    BY <2>1, <2>2 DEF RestartNext, ResolverStep, SaveCopiesEnv, SaveCopiesTasks, SaveWrites, SaveFails, restartVars
<1> QED
  BY <1>1, <1>2, RestartInvariant, PTL DEF RestartSpec

(* The copy SaveState has taken of the statuses, and the file: what either *)
(* shows as Completed is Completed in the process.                         *)
Kept(st) == \A t \in Tasks : st[t] = "Completed" => status[t] = "Completed"

CopiesKept ==
  /\ savePc = "write" => Kept(taken)
  /\ disk # NoFile => Kept(disk.status)

(* What the file shows as Completed is never done again, however old the   *)
(* file is and however often the process crashes.                          *)
THEOREM SavedWorkKeptHolds == RestartSpec => []SavedWorkKept
<1>1. RestartInit => CopiesKept
  BY DEF RestartInit, CopiesKept
<1>2. RestartInv /\ CopiesKept /\ [RestartNext]_restartVars => CopiesKept'
  <2> SUFFICES ASSUME RestartInv, CopiesKept, [RestartNext]_restartVars PROVE CopiesKept'
    OBVIOUS
  <2>1. CASE ResolverStep
    <3>1. \A t \in Tasks : status[t] = "Completed" => status'[t] = "Completed"
      BY <2>1, TerminalStays DEF ResolverStep, RestartInv, Terminal
    <3> QED
      BY <2>1, <3>1 DEF ResolverStep, saveVars, CopiesKept, Kept
  <2>2. CASE SaveCopiesEnv \/ SaveFails \/ UNCHANGED restartVars
    BY <2>2 DEF SaveCopiesEnv, SaveFails, restartVars, saveVars, dagVars, CopiesKept, Kept
  <2>3. CASE SaveCopiesTasks
    BY <2>3 DEF SaveCopiesTasks, dagVars, CopiesKept, Kept
  <2>4. CASE SaveWrites
    <3>1. disk'.status = taken
      BY <2>4 DEF SaveWrites
    <3> QED
      BY <2>4, <3>1 DEF SaveWrites, dagVars, CopiesKept, Kept
  <2>5. CASE CrashAndRestart
    BY <2>5 DEF CrashAndRestart, CopiesKept, Kept, RestoredStatus
  <2> QED
    BY <2>1, <2>2, <2>3, <2>4, <2>5 DEF RestartNext
<1>3. CopiesKept => SavedWorkKept
  BY DEF CopiesKept, Kept, SavedWorkKept
<1> QED
  BY <1>1, <1>2, <1>3, RestartInvariant, PTL DEF RestartSpec

------------------------------------------------------------------------------
(* Which files a resumed Run can finish with.                              *)

(* Every failure and every skip in the file has been passed on.            *)
ResumableFile ==
  disk # NoFile =>
    \A t \in Tasks : disk.status[t] = "Pending" => \A d \in Deps[t] : disk.status[d] \notin {"Failed", "Skipped"}

(* As long as no file is taken between a failure, or a skip on             *)
(* cancellation, and the skipping of what depends on it, no restored graph *)
(* leaves Run polling for nothing: RestoreGraph has no other gap           *)
(* (state.go 103-123).                                                     *)
THEOREM ResumableFilesResume == RestartSpec /\ []ResumableFile => []NoTaskStranded
<1>1. RestartInit => SkipsFollow
  BY DEF RestartInit, Init, SkipsFollow
<1>2. RestartInv /\ SkipsFollow /\ ResumableFile /\ [RestartNext]_restartVars => SkipsFollow'
  <2> SUFFICES ASSUME RestartInv, SkipsFollow, ResumableFile, [RestartNext]_restartVars PROVE SkipsFollow'
    OBVIOUS
  <2>1. ASSUME [Next]_dagVars PROVE SkipsFollow'
    BY <2>1, SkipsFollowStep DEF RestartInv
  <2>2. CASE CrashAndRestart
    <3>1. disk # NoFile /\ disk.status \in [Tasks -> Statuses] /\ Closed(disk.status)
      BY <2>2, DiskStatuses DEF CrashAndRestart, RestartInv, SavesClosed
    <3>2. \A t \in Tasks : status'[t] = RestoredStatus(disk.status[t])
      BY <2>2 DEF CrashAndRestart
    <3>3. \A t \in Tasks : status'[t] = "Pending" => \A d \in Deps[t] : status'[d] \notin {"Failed", "Skipped"}
      BY <3>1, <3>2, DagAssumption DEF ResumableFile, RestoredStatus, Closed, Started
    <3> QED
      BY <3>3 DEF SkipsFollow
  <2> QED
    BY <2>1, <2>2 DEF RestartNext, ResolverStep, SaveCopiesEnv, SaveCopiesTasks, SaveWrites, SaveFails, restartVars
<1>3. RestartInv /\ SkipsFollow => NoTaskStranded
  BY FollowedNotStranded DEF RestartInv
<1> QED
  BY <1>1, <1>2, <1>3, RestartInvariant, PTL DEF RestartSpec

(* Run polls, nothing is ready, nobody works, and something is pending.    *)
Stranded ==
  /\ runPc \in {"loop", "look", "poll"}
  /\ ready = {} /\ ReadyTasks = {} /\ ~AllTerminal
  /\ \A t \in Tasks : gor[t] \in {"unstarted", "done"}

(* A stranded Run stays so until the context is cancelled or the process   *)
(* ends: the loop looks for ready tasks and for the end, and for nothing   *)
(* else.                                                                   *)
StrandedForEver ==
  [][Stranded /\ ~cancelled' /\ restarts' = restarts => Stranded']_restartVars

(* "No ready tasks - check if we are done or deadlocked" (resolver.go 94): *)
(* no deadlock is ever found, whatever graph was restored.                 *)
THEOREM StrandedForEverHolds == RestartSpec => StrandedForEver
<1>1. RestartInv /\ [RestartNext]_restartVars =>
        [Stranded /\ ~cancelled' /\ restarts' = restarts => Stranded']_restartVars
  <2> SUFFICES ASSUME RestartInv, RestartNext, Stranded, ~cancelled', restarts' = restarts PROVE Stranded'
    OBVIOUS
  <2>1. CASE ResolverStep
    <3>1. UNCHANGED <<status, gor>> /\ (RunHead \/ RunLooksForReady \/ RunPolls \/ RunFinishes \/ Cancel)
      BY <2>1 DEF ResolverStep, Stranded, Next, RunStep, TaskStep, ActionReturns, RunHead, RunLooksForReady, RunPolls,
         RunDispatches, RunFinishes, AcquireSlot, AcquireCancelled, AttemptStarts, DecidesToRetry, GivesUp, BackoffEnds,
         SkipScans, SkipMarks, SkipEnds, GoroutineEnds, ActionSucceeds, ActionFails, Cancel
    <3>2. ReadyTasks' = ReadyTasks /\ AllTerminal' = AllTerminal
      BY <3>1 DEF ReadyTasks, DepsCompleted, AllTerminal
    <3> QED
      BY <3>1, <3>2 DEF Stranded, RunHead, RunReturns, RunLooksForReady, RunPolls, RunFinishes, Cancel
  <2>2. CASE UNCHANGED dagVars
    BY <2>2 DEF dagVars, Stranded, ReadyTasks, DepsCompleted, AllTerminal
  <2>3. CASE CrashAndRestart
    BY <2>3, RestartsAssumption DEF CrashAndRestart, RestartInv, SaveTypeOK
  <2> QED
    BY <2>1, <2>2, <2>3 DEF RestartNext, SaveCopiesEnv, SaveCopiesTasks, SaveWrites, SaveFails
<1> QED
  BY <1>1, RestartInvariant, PTL DEF RestartSpec, StrandedForEver

==============================================================================

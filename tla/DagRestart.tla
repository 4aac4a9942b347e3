------------------------------ MODULE DagRestart ------------------------------
(***************************************************************************)
(* Persistence of a task graph: pkg/dag/state.go (SaveState, LoadState,    *)
(* RestoreGraph, RestoreEnv) around the resolver of DagResolver.           *)
(*                                                                         *)
(* SaveState may run at any time beside the resolver; it copies the        *)
(* Environment's data and the tasks under two different locks and then     *)
(* renames a finished file into place.  A crash loses everything but that  *)
(* file; a restart restores the graph from it and runs a fresh resolver.   *)
(***************************************************************************)
EXTENDS DagResolver

CONSTANT MaxRestarts   \* bound on the number of restarts explored

ASSUME RestartsAssumption == MaxRestarts \in Nat

VARIABLES
  env,        \* tasks whose output is in Environment.data
  savePc,     \* where SaveState stands
  copied,     \* the copy of Environment.data it has taken
  taken,      \* the task statuses it has taken
  disk,       \* the state file: [status, env], or NoFile
  restarts    \* restarts so far

saveVars    == <<savePc, copied, taken, disk>>
restartVars == <<dagVars, env, saveVars, restarts>>

(* In a step: the action of t has just returned without an error.          *)
ActionDone(t) == status'[t] = "Completed" /\ status[t] # "Completed"

NoFile     == [status |-> <<>>, env |-> {}]
Files      == [status : [Tasks -> Statuses], env : SUBSET Tasks]

RestartInit ==
  /\ Init
  /\ env = {}
  /\ savePc = "idle"
  /\ copied = {}
  /\ taken = [t \in Tasks |-> "Pending"]
  /\ disk = NoFile
  /\ restarts = 0

------------------------------------------------------------------------------
\* A step of the resolver.  An action hands its output to the tasks that
\* depend on it with Environment.Set before it returns.
ResolverStep ==
  /\ Next
  /\ env' = env \cup {t \in Tasks : ActionDone(t)}
  /\ UNCHANGED <<saveVars, restarts>>

\* SaveState: copy the data, copy the tasks, write and rename.
SaveCopiesEnv ==
  /\ savePc = "idle"
  /\ copied' = env
  /\ savePc' = "tasks"
  /\ UNCHANGED <<dagVars, env, taken, disk, restarts>>

\* Mutant: tasks are copied one by one, each under a lock of its own.
SaveCopiesTasksPiecemeal ==
  /\ savePc = "tasks"
  /\ \/ \E t \in Tasks : taken' = [taken EXCEPT ![t] = status[t]] /\ UNCHANGED savePc
     \/ savePc' = "write" /\ UNCHANGED taken
  /\ UNCHANGED <<dagVars, env, copied, disk, restarts>>

SaveCopiesTasks ==
  /\ savePc = "tasks"
  /\ taken' = status
  /\ savePc' = "write"
  /\ UNCHANGED <<dagVars, env, copied, disk, restarts>>

SaveWrites ==
  /\ savePc = "write"
  /\ disk' = [status |-> taken, env |-> copied]
  /\ savePc' = "idle"
  /\ UNCHANGED <<dagVars, env, copied, taken, restarts>>

\* Encoding, the temporary file or the rename fails: the old file stays.
SaveFails ==
  /\ savePc = "write"
  /\ savePc' = "idle"
  /\ UNCHANGED <<dagVars, env, copied, taken, disk, restarts>>

\* Mutant: interrupted tasks keep their status.
RestoredStatusVerbatim(st) == st

\* Mutant: everything that has started becomes Pending, not only what was
\* interrupted.
RestoredStatusAnew(st) == IF st \in {"Running", "Queued", "Completed", "Failed"} THEN "Pending" ELSE st

\* RestoreGraph: tasks interrupted while queued or running become Pending.
RestoredStatus(st) == IF st \in {"Running", "Queued"} THEN "Pending" ELSE st

\* The process ends, by a crash or on its own, wherever its goroutines and
\* SaveState are; the next one does LoadState, RestoreGraph, RestoreEnv,
\* RegisterActions and a new Run.
CrashAndRestart ==
  /\ disk # NoFile
  /\ restarts < MaxRestarts
  /\ status' = [t \in Tasks |-> RestoredStatus(disk.status[t])]
  /\ env' = disk.env
  /\ gor' = [t \in Tasks |-> "unstarted"]
  /\ attempt' = [t \in Tasks |-> 0]
  /\ toSkip' = [t \in Tasks |-> {}]
  /\ scan' = [t \in Tasks |-> NoTask]
  /\ sem' = 0
  /\ runPc' = "loop"
  /\ ready' = {}
  /\ runErr' = "none"
  /\ cancelled' = FALSE
  /\ savePc' = "idle"
  /\ copied' = {}
  /\ taken' = [t \in Tasks |-> "Pending"]
  /\ restarts' = restarts + 1
  /\ UNCHANGED disk

RestartNext ==
  \/ ResolverStep
  \/ SaveCopiesEnv \/ SaveCopiesTasks \/ SaveWrites \/ SaveFails
  \/ CrashAndRestart

RestartSpec == RestartInit /\ [][RestartNext]_restartVars /\ Scheduling /\ ActionsReturn

------------------------------------------------------------------------------
RestartTypeOK ==
  /\ TypeOK
  /\ env \in SUBSET Tasks
  /\ savePc \in {"idle", "tasks", "write"}
  /\ copied \in SUBSET Tasks
  /\ taken \in [Tasks -> Statuses]
  /\ disk \in Files \cup {NoFile}
  /\ restarts \in 0 .. MaxRestarts

(* A saved graph can be resumed in dependency order: what it shows as      *)
(* started has only Completed dependencies in the same file, although the  *)
(* resolver went on while SaveState was copying.                           *)
SavedIsClosed ==
  disk # NoFile =>
    \A t \in Tasks : disk.status[t] \in {"Queued", "Running", "Completed", "Failed"} =>
      \A d \in Deps[t] : disk.status[d] = "Completed"

(* A task shown as Queued or Running has a goroutine that will end it: no  *)
(* restored graph waits for work nobody does (state.go 104-110).           *)
StatusHasGoroutine ==
  \A t \in Tasks : status[t] \in {"Queued", "Running"} =>
    gor[t] \in {"acquire", "head", "action", "failed", "backoff"}

(* Work that is in the file is done: a task it shows as Completed is       *)
(* Completed now, in this process or a restored one, and so never started  *)
(* again, although the copy is older than the file and the resolver, a     *)
(* failing dependent or a crash may come in between (state.go 52-76 and    *)
(* 103-110).                                                               *)
SavedWorkKept ==
  disk # NoFile => \A t \in Tasks : disk.status[t] = "Completed" => status[t] = "Completed"

(* "PersistedState is the gob-serialisable snapshot of a Graph execution"  *)
(* (state.go 24): whatever task it shows as Completed, its output is in it. *)
SavedHasOutputs ==
  disk # NoFile => \A t \in Tasks : disk.status[t] = "Completed" => t \in disk.env

(* "Run executes the graph to completion and blocks until all tasks have   *)
(* reached a terminal state" (resolver.go 67-68), for a restored graph,    *)
(* whose interrupted tasks the resolver is to "re-drive" (state.go 104):   *)
(* the Run of a restarted process comes back.                              *)
ResumedRunTerminates ==
  restarts = MaxRestarts ~> (runPc = "returned" \/ cancelled)

==============================================================================

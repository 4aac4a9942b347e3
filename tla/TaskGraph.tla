------------------------------ MODULE TaskGraph ------------------------------
(***************************************************************************)
(* What Resolver.Run promises about a graph of tasks, without its lists,   *)
(* goroutines, semaphore and retries.  A task starts when its dependencies *)
(* are done, and ends once, as done, failed or skipped.  It is skipped     *)
(* unstarted only behind a failure, and given up half way only after a     *)
(* cancellation.  When Run has reported, nothing starts any more.          *)
(***************************************************************************)
CONSTANTS
  Tasks,  \* task IDs
  Deps    \* the tasks each task depends on

VARIABLES
  phase,    \* how far each task is
  stopped,  \* the context of Run was cancelled
  verdict   \* what Run has returned: nil, a summary of failures, or ctx.Err

graphVars == <<phase, stopped, verdict>>

Ends == {"done", "failed", "skipped"}

GraphInit ==
  /\ phase = [t \in Tasks |-> "waiting"]
  /\ stopped = FALSE
  /\ verdict = "none"

Turns(t, from, to) == phase[t] = from /\ phase' = [phase EXCEPT ![t] = to]

StartTask(t) ==
  /\ verdict = "none"
  /\ \A d \in Deps[t] : phase[d] = "done"
  /\ Turns(t, "waiting", "working")
  /\ UNCHANGED <<stopped, verdict>>

EndTask(t) ==
  /\ \/ Turns(t, "working", "done")
     \/ Turns(t, "working", "failed")
     \/ stopped /\ Turns(t, "working", "skipped")
  /\ UNCHANGED <<stopped, verdict>>

SkipTask(t) ==
  /\ \E d \in Deps[t] : phase[d] \in {"failed", "skipped"}
  /\ Turns(t, "waiting", "skipped")
  /\ UNCHANGED <<stopped, verdict>>

StopGraph ==
  /\ ~stopped
  /\ stopped' = TRUE
  /\ UNCHANGED <<phase, verdict>>

\* Tasks still at work are waited for, unless the context was cancelled.
ReportGraph ==
  /\ verdict = "none"
  /\ \/ stopped /\ verdict' = "ctx"
     \/ /\ \A t \in Tasks : phase[t] \in Ends
        /\ verdict' = IF \E t \in Tasks : phase[t] = "failed" THEN "failed" ELSE "nil"
  /\ UNCHANGED <<phase, stopped>>

GraphNext ==
  \/ \E t \in Tasks : StartTask(t) \/ EndTask(t) \/ SkipTask(t)
  \/ StopGraph
  \/ ReportGraph

GraphSpec == GraphInit /\ [][GraphNext]_graphVars

==============================================================================

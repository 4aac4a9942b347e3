----------------------------- MODULE MCScheduler -----------------------------
(* Instances of Scheduler for TLC.                                         *)
EXTENDS Scheduler

CONSTANTS o, p  \* model values: a task to be run once, and a repeated one

OnceAndRepeated == [t \in {o, p} |-> IF t = o THEN "once" ELSE "repeat"]
OneRetry        == [t \in {o, p} |-> 1]
==============================================================================

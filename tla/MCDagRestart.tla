----------------------------- MODULE MCDagRestart -----------------------------
(* Instances of DagRestart for TLC: a two-task chain beside a third task.  *)
EXTENDS DagRestart, TLC

CONSTANTS a, b, c

Chain   == a :> {} @@ b :> {a} @@ c :> {}
Pair    == a :> {} @@ b :> {a}
NoRetry == a :> 0 @@ b :> 0 @@ c :> 0
NoRetry2 == a :> 0 @@ b :> 0
==============================================================================

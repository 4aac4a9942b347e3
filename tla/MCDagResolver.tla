---------------------------- MODULE MCDagResolver ----------------------------
(* An instance of DagResolver for TLC: d joins two branches that may fail   *)
(* independently, so that two goroutines skip it at the same time; e is     *)
(* independent of them and retried without limit.                          *)
EXTENDS DagResolver, TLC

CONSTANTS a, b, c, d, e

Diamond == a :> {} @@ b :> {a} @@ c :> {a} @@ d :> {b, c} @@ e :> {}
Retries == a :> 1 @@ b :> 0 @@ c :> 1 @@ d :> 0 @@ e :> -1
==============================================================================

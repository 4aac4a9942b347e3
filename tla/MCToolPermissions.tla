-------------------------- MODULE MCToolPermissions --------------------------
(* An instance of ToolPermissions for TLC: two calls with a plan, of two    *)
(* tools, in the first turn, and one more call of the first tool in the    *)
(* second.  The file may hold any level for the first tool.                *)
EXTENDS ToolPermissions, TLC

CONSTANTS c1, c2, c3, bash, fetch

TwoTurns  == c1 :> 1 @@ c2 :> 1 @@ c3 :> 2
AnyForBash == bash :> Levels @@ fetch :> {"once"}
ToolNames == c1 :> bash @@ c2 :> fetch @@ c3 :> bash
==============================================================================

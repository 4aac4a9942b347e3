------------------------- MODULE MCGovernanceApproval -------------------------
(* Instances of GovernanceApproval for TLC.                                *)
EXTENDS GovernanceApproval, TLC

CONSTANTS k1, k2, t1  \* model values: two keys of one tool

OneTool == [k \in {k1, k2} |-> t1]
Symmetry == Permutations(Reqs) \cup Permutations(Keys)
==============================================================================

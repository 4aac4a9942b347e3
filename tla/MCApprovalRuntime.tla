-------------------------- MODULE MCApprovalRuntime --------------------------
(* Instances of ApprovalRuntime for TLC.                                   *)
EXTENDS ApprovalRuntime, TLC

(* One answer that lets the tool run once and one that forbids it for ever. *)
SomeResults ==
  {[decision |-> "GRANTED", scope |-> "ONCE"], [decision |-> "DENIED", scope |-> "NEVER"]}

Symmetry == Permutations(Reqs) \cup Permutations(Keys)
==============================================================================

-------------------------- MODULE MCBackgroundAgents --------------------------
(* Instances of BackgroundAgents for TLC.                                  *)
EXTENDS BackgroundAgents, TLC

Symmetry == Permutations(Agents)
==============================================================================

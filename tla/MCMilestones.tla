---------------------------- MODULE MCMilestones ----------------------------
(* Instances of Milestones for TLC.                                        *)
EXTENDS Milestones, TLC

McCallersAlike == Permutations(Callers)
=============================================================================

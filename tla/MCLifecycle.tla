----------------------------- MODULE MCLifecycle -----------------------------
(* Instances of Lifecycle for TLC.                                         *)
EXTENDS Lifecycle, TLC

McCallersAlike == Permutations(Callers)
McOneDeposit == <<3>>
=============================================================================

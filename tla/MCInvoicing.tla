----------------------------- MODULE MCInvoicing -----------------------------
(* Instances of Invoicing for TLC.                                         *)
EXTENDS Invoicing, TLC

McAudiences == <<"owner", "talent">>

McAlike == Permutations(Workers) \cup Permutations(Handlers)
=============================================================================

--------------------------- MODULE MCDisbursement ---------------------------
(***************************************************************************)
(* Values for the constants of Disbursement, for TLC.                      *)
(***************************************************************************)
EXTENDS Disbursement

CONSTANTS d1, f1, f2, e1, e2, e3
===========================================================================

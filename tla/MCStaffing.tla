----------------------------- MODULE MCStaffing -----------------------------
(* Instance of Staffing for TLC.                                           *)
EXTENDS Staffing

\* The owner reopens a position by hand; a position's work begins.
McWritten == {<<2, "open">>, <<2, "in_progress">>}
=============================================================================

------------------------------- MODULE MCLedger -------------------------------
(***************************************************************************)
(* IdLedger for TLC: two families with the numbers 0 to 2, so that a gap,  *)
(* a number below 1, a removal and a renumbering all occur.                *)
(***************************************************************************)
EXTENDS IdLedger
=============================================================================

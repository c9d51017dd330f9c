----------------------------- MODULE MCInstaller -----------------------------
(***************************************************************************)
(* Installer for TLC: two releases that share one file and have one each   *)
(* of their own, so that an upgrade sheds a file, and one stray.           *)
(***************************************************************************)
EXTENDS Installer

CONSTANTS r1, r2, shared, old, new, stray

MCLists == [r \in {r1, r2} |-> IF r = r1 THEN <<shared, old>> ELSE <<shared, new>>]
=============================================================================

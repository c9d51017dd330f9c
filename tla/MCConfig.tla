------------------------------- MODULE MCConfig -------------------------------
(***************************************************************************)
(* ConfigFile for TLC: three runs, plain or forced in every mix, with or   *)
(* without a config already in place.  Two plain runs race for the         *)
(* exclusive create while a third replaces what the winner made.           *)
(***************************************************************************)
EXTENDS ConfigFile, TLC

MCSymmetry == Permutations(Runs)
=============================================================================

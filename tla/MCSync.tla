-------------------------------- MODULE MCSync --------------------------------
(***************************************************************************)
(* The sync for TLC: two syncs, two engines that can be served and one     *)
(* that cannot, an example that only the first engine has; changelogs of   *)
(* up to four lines.                                                       *)
(***************************************************************************)
EXTENDS ReleaseRecord, TLC

CONSTANTS e1, e2, e3, example

MCExamples == [e \in Engines |-> IF e = e1 THEN {example} ELSE {}]
MCSymmetry == Permutations(Syncs)
=============================================================================

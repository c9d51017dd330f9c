-------------------------------- MODULE MCEval --------------------------------
(***************************************************************************)
(* EvalRun for TLC: one fixture for each gating bucket, two episodes of    *)
(* each (so that there are ties), a budget of three, batches of up to two. *)
(***************************************************************************)
EXTENDS EvalRun

CONSTANTS m, r

MCBaselines == {{r}, {m}, {m, Unknown}}
MCExpect == [f \in {m, r} |-> IF f = m THEN "matched" ELSE "refuse"]
=============================================================================

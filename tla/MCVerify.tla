------------------------------ MODULE MCVerify ------------------------------
(***************************************************************************)
(* Two cases and two engine values: one case can fail while the other      *)
(* succeeds, in either order, and a result can equal the wrong case's      *)
(* expectation.                                                            *)
(***************************************************************************)
EXTENDS VerifyPipeline
=============================================================================

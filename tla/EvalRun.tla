-------------------------------- MODULE EvalRun --------------------------------
(***************************************************************************)
(* The two ways in which fixtures are run.  The eval gate drives a real    *)
(* host; the raw loop, retired as the gate, runs by itself as a smoke run  *)
(* and returns episodes of the same shape.                                 *)
(***************************************************************************)
EXTENDS EvalGate, RawEpisode

VARIABLE smoke   \* which of the two it is

vars == <<smoke, gateVars, hostVars, rawVars>>

Init == smoke \in BOOLEAN /\ GateInit /\ RawInit

Gate == ~smoke /\ GateSteps /\ UNCHANGED <<smoke, rawVars>>
Smoke == smoke /\ StartRaw /\ UNCHANGED <<smoke, gateVars, hostVars>>
Loop  == smoke /\ RawSteps /\ UNCHANGED <<smoke, gateVars, hostVars>>

Next == Gate \/ Smoke \/ Loop

\* The loop runs on by itself; the provider answers or raises.
Spec == Init /\ [][Next]_vars /\ WF_vars(Loop)

-----------------------------------------------------------------------------
\* Whatever the model asks for, in batches of any size, the budget ends the episode:
\* the loop has no other bound on its turns.
LoopEnds == (loop = "setup") ~> (loop = "over")
=============================================================================

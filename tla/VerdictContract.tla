--------------------------- MODULE VerdictContract ---------------------------
(***************************************************************************)
(* What one invocation of the module command line promises, with no        *)
(* worker, stage or clock in sight: it gives exactly one answer, once, it  *)
(* is one the request permits, and it does not fail to come.               *)
(***************************************************************************)
EXTENDS Verdicts

VARIABLES request, answer
vars == <<request, answer>>

Init == /\ request \in Request
        /\ answer = Unanswered

Deliver == /\ answer = Unanswered
           /\ answer' \in PermittedAnswers(request)
           /\ UNCHANGED request

Next == Deliver

Spec == Init /\ [][Next]_vars /\ WF_vars(Next)
=============================================================================

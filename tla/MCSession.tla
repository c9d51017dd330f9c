------------------------------ MODULE MCSession ------------------------------
(***************************************************************************)
(* AuthoringSession for TLC.  Contents: a complete one, the same with its  *)
(* obligation waived, an incomplete one, one with an ambiguous id, and     *)
(* ones with a number that is not finite in a case's expectation, plain or *)
(* quoted in a LitRef (on which check_samples raises).                     *)
(***************************************************************************)
EXTENDS AuthoringSession

CONSTANTS o1, p1, t1, t2, v1, v2

Ob(acc)   == [id |-> o1, kind |-> "list_empty", target |-> p1, acceptance |-> acc]
Case(cid) == [id |-> cid, satisfies |-> {o1}, input |-> [p \in {p1} |-> "empty"]]
Waiver    == [id |-> "w1", clears |-> {o1}, acceptance |-> "accepted"]

Complete == [coverage |-> <<Ob("accepted")>>, cases |-> <<Case("c1")>>, waivers |-> <<>>,
             includes |-> "none", tagsOk |-> TRUE, finite |-> TRUE, encodes |-> TRUE]
Waived     == [Complete EXCEPT !.waivers = <<Waiver>>]
Incomplete == [Complete EXCEPT !.coverage = <<Ob("proposed")>>]
Ambiguous  == [Complete EXCEPT !.coverage = <<Ob("accepted"), Ob("rejected")>>]
Infinite   == [Complete EXCEPT !.finite = FALSE]
Quoted     == [Infinite EXCEPT !.encodes = FALSE]
Infinite2  == [Infinite EXCEPT !.waivers = <<Waiver>>]

MCContents  == {Complete, Waived, Incomplete, Ambiguous, Infinite, Quoted}
MCContents2 == {Complete, Infinite, Infinite2}
MCContents3 == {Complete, Waived}
MCTemplates == {t1, t2}
MCValues    == {v1, v2}

\* The waived content expects the other template's value.
Expected(c) == IF ~ c.finite THEN NonFinite
               ELSE IF c = Waived THEN v2 ELSE v1
Does(t, c) == [valid |-> TRUE, outcome |-> <<IF t = t1 THEN v1 ELSE v2>>,
               expected |-> <<Expected(c)>>]
MCBehaviour  == [t \in MCTemplates |-> [c \in MCContents  |-> Does(t, c)]]
MCBehaviour2 == [t \in MCTemplates |-> [c \in MCContents2 |-> Does(t, c)]]
MCBehaviour3 == [t \in MCTemplates |-> [c \in MCContents3 |-> Does(t, c)]]
=============================================================================

------------------------------- MODULE Episodes -------------------------------
(***************************************************************************)
(* What an evaluation episode ends with (SPEC 11.8), whichever harness has *)
(* driven it, and how scripts/check_evals.py scores it.                    *)
(*                                                                         *)
(* A payload is what the model hands in.  It stands for the parts of an    *)
(* AuthoringResult that the scorer looks at:                               *)
(*   template    no envelope at all: a bare template                       *)
(*   malformed   an envelope that its schema rejects                       *)
(*   right       claims `matched`, and its template does match             *)
(*   mistaken    claims `matched`, and its template does not               *)
(*   refusal     ok false, no template, one of the REFUSE_STATUSES         *)
(*   other       any other envelope its schema allows (schema-error, ...)  *)
(***************************************************************************)
EXTENDS Naturals

Payloads == {"template", "malformed", "right", "mistaken", "refusal", "other"}
Envelope(payload)    == payload # "template"
SchemaValid(payload) == payload \notin {"template", "malformed"}
Claims(payload)      == payload \in {"right", "mistaken"}

Unfinished == [outcome |-> "none", submitted |-> "none"]
Submitted(payload) == [outcome |-> "submitted", submitted |-> payload]
Ended(outcome)     == [outcome |-> outcome, submitted |-> "none"]
Results == {Submitted(p) : p \in Payloads}
             \cup {Ended(o) : o \in {"no_submit", "budget_exceeded", "infra_error"}}

Expects == {"matched", "refuse", "matched_correction"}

\* What the fixture asks for: a template that matches, or a refusal.
Owed(expect) == IF expect = "refuse" THEN "refusal" ELSE "right"

-----------------------------------------------------------------------------
\* `verify` in a process of its own on the submitted template and the samples of the
\* fixture: "matched" is exit 0 and "rejected" any other exit, also one that the machine
\* is to blame for; a verify that cannot be run, or runs too long, raises.
\* Mutation: the claim of the envelope is taken for the verdict.
Reverify_Trusted(payload) == {"matched"}
Reverify(payload) == {"rejected", "raises"} \cup (IF payload = "right" THEN {"matched"} ELSE {})

\* The scores score_episode may give.
ScoreEpisode(expect, result) ==
  IF result.outcome = "infra_error" THEN {"infra"}
  ELSE IF result.outcome # "submitted" \/ ~SchemaValid(result.submitted) THEN {"fail"}
  ELSE IF expect = "refuse"
    THEN IF result.submitted = "refusal" THEN {"pass"} ELSE {"fail"}
  ELSE IF ~Claims(result.submitted) THEN {"fail"}
  ELSE {CASE v = "matched" -> "pass" [] v = "rejected" -> "fail" [] OTHER -> "infra"
          : v \in Reverify(result.submitted)}
=============================================================================

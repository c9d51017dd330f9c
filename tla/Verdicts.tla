------------------------------ MODULE Verdicts ------------------------------
(***************************************************************************)
(* The vocabulary of the module command line: what a request is, what the  *)
(* engine would do with it, and which answers the truth about a request    *)
(* permits.  Shared by the abstract specification (VerdictContract), the   *)
(* detailed one (VerifyPipeline) and the authoring session.                *)
(***************************************************************************)
EXTENDS Integers, Sequences

CONSTANTS
  NumCases,   \* cases[] of the SampleSet, in document order, are 1..NumCases
  Values,     \* encoded engine results (output together with writes)
  NonFinite   \* an expectation holding a number that is not finite

\* check_samples lets no SampleSet without cases through.
ASSUME NumCasesAssumption == NumCases \in Nat \ {0}

(***************************************************************************)
(* What executing the template on one case's input comes to, given all the *)
(* time it wants: a value, or one of these faults.  "unsendable" is a case *)
(* for which no worker starts: json.dumps refuses the request, or Popen    *)
(* fails.  In the last four the worker process never answers, dies, or     *)
(* writes something that is not an envelope.                               *)
(***************************************************************************)
EngineFaults == {"DefinitionError", "TransformationError", "leaked"}
Faults == EngineFaults \cup
          {"unencodable", "unsendable", "diverges", "crashes", "garbage", "loose"}
Outcomes == Values \cup Faults

ASSUME ValuesAssumption == /\ Values \cap Faults = {}
                           /\ NonFinite \notin Outcomes

Commands == {"check-samples", "validate", "dry-run", "verify", "result"}

(***************************************************************************)
(* What check_samples comes to on a SampleSet that passed ingress: a       *)
(* SampleCheck that lets it be verified against or one that does not, or   *)
(* an exception.  It raises when the hashed content has no UTF-8 form (a   *)
(* lone surrogate), and when an expectation quotes, in a LitRef, a number  *)
(* that is not finite: only an unknown tag is caught while tags are        *)
(* decoded.                                                                *)
(***************************************************************************)
SampleAnswers == {"ok", "rejected", "raises"}

\* The reserved profile knobs are flags of every command but check-samples, where
\* argparse does not know them (a usage error).
Request ==
  {r \in [cmd       : Commands,
          ingress   : {"ok", "usage", "knob", "malformed"},
          samples   : SampleAnswers,
          valid     : BOOLEAN,
          outcome   : [1..NumCases -> Outcomes],
          expected  : [1..NumCases -> Values \cup {NonFinite}]] :
     r.ingress = "knob" => r.cmd # "check-samples"}

-----------------------------------------------------------------------------
(***************************************************************************)
(* The documents a command writes on stdout, and an answer as a whole:     *)
(* stdout and exit code.                                                   *)
(***************************************************************************)
Stages == {"samples", "validate", "dry_run", "match"}
Document == [kind   : {"SampleCheck", "Debug", "Verdict", "AuthoringResult", "CliError"},
             status : Stages \cup {"ok", "failed", "matched", "samples-rejected",
                                   "verify-failed", "profile-rejected", "schema-error",
                                   "internal-error"}]
Doc(kind, status) == [kind |-> kind, status |-> status]
CliError(status)  == Doc("CliError", status)

Answer(doc, code) == [docs |-> <<doc>>, code |-> code]
Unanswered == [docs |-> <<>>, code |-> -1]
UsageError == [docs |-> <<>>, code |-> 2]
Killed     == [docs |-> <<>>, code |-> -9]

\* A semantic check prints its document and exits 0 or 1.
Judged(kind, ok) == IF ok THEN Answer(Doc(kind, "ok"), 0)
                          ELSE Answer(Doc(kind, "failed"), 1)
InternalError == Answer(CliError("internal-error"), 3)

(***************************************************************************)
(* The envelope that reports how far verify() came: the Verdict itself, or *)
(* the AuthoringResult that `result` builds from it.                       *)
(***************************************************************************)
ResultStatus(verdict) == CASE verdict = "matched" -> "matched"
                           [] verdict = "samples" -> "samples-rejected"
                           [] OTHER               -> "verify-failed"
Reported(cmd, verdict) ==
  Answer(IF cmd = "verify" THEN Doc("Verdict", verdict)
                           ELSE Doc("AuthoringResult", ResultStatus(verdict)),
         IF verdict = "matched" THEN 0 ELSE 1)

-----------------------------------------------------------------------------
(***************************************************************************)
(* The truth about a request, and the verdicts it permits.  A failure may  *)
(* still be the sandbox's (a timeout, a dead worker): "dry_run" is         *)
(* permitted for every template that reaches the stage.  Success is        *)
(* permitted only when every stage is truly passed.                        *)
(***************************************************************************)
Runnable(r)    == r.samples = "ok" /\ r.valid
Unsendable(r)  == \E k \in 1..NumCases : r.outcome[k] = "unsendable"
AllValues(r)   == \A k \in 1..NumCases : r.outcome[k] \in Values
Agrees(r)      == \A k \in 1..NumCases : r.outcome[k] = r.expected[k]
Unprintable(r) == \E k \in 1..NumCases : r.expected[k] = NonFinite

Earned(r) == Runnable(r) /\ AllValues(r) /\ Agrees(r)

PermittedVerdict(r, v) ==
  \/ v = "samples"  /\ r.samples = "rejected"
  \/ v = "validate" /\ r.samples = "ok" /\ ~ r.valid
  \/ v = "dry_run"  /\ Runnable(r) /\ ~ Unsendable(r)
  \/ v = "match"    /\ Runnable(r) /\ AllValues(r) /\ ~ Agrees(r) /\ ~ Unprintable(r)
  \/ v = "matched"  /\ Earned(r)

\* verify() or the print of its verdict ends in an exception instead: in the sample
\* gate, before a worker is started, or over a diff that JSON cannot hold.
MayEscape(r) ==
  \/ r.samples = "raises"
  \/ Runnable(r) /\ (Unsendable(r) \/ (AllValues(r) /\ Unprintable(r)))

VerifyAnswers(r) ==
  {Reported(r.cmd, v) : v \in {u \in Stages \cup {"matched"} : PermittedVerdict(r, u)}}
    \cup {a \in {InternalError} : MayEscape(r)}

SampleCheckAnswers(r) ==
  {IF r.samples = "raises" THEN InternalError ELSE Judged("SampleCheck", r.samples = "ok")}

DryRunAnswers(r) ==
  IF r.outcome[1] = "unsendable" THEN {InternalError}
  ELSE {Judged("Debug", FALSE)} \cup {Judged("Debug", ok) : ok \in {r.outcome[1] \in Values}}

\* The answers of S, where the condition holds.
When(condition, S) == {a \in S : condition}

CommandAnswers(r) ==
  When(r.cmd = "check-samples", SampleCheckAnswers(r))
    \cup When(r.cmd = "validate", {Judged("Debug", r.valid)})
    \cup When(r.cmd = "dry-run", DryRunAnswers(r))
    \cup When(r.cmd \in {"verify", "result"}, VerifyAnswers(r))

\* The parent process may be killed before it answers; it then prints nothing.
PermittedAnswers(r) ==
  {Killed}
    \cup When(r.ingress = "usage", {UsageError})
    \cup When(r.ingress = "knob", {Answer(CliError("profile-rejected"), 2)})
    \cup When(r.ingress = "malformed", {Answer(CliError("schema-error"), 2)})
    \cup When(r.ingress = "ok", CommandAnswers(r))
=============================================================================

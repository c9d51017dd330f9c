--------------------------- MODULE AuthoringSession ---------------------------
(***************************************************************************)
(* An authoring session: the agent that follows SKILL.md (sample loop,     *)
(* draft, verify and repair, review, result), the user, the two files they *)
(* share (SampleSet and template), and the commands that read them.  Each  *)
(* command answers as its contract permits (module Verdicts) and judges    *)
(* the documents it has read, whatever happens to the files meanwhile.     *)
(*                                                                         *)
(* The files may be edited behind the agent's back at any moment, a bound- *)
(* ed number of times.                                                     *)
(***************************************************************************)
EXTENDS CheckSamples, Verdicts

CONSTANTS
  Contents,        \* SampleSet contents: records without a confirmation
  NoContent,       \* none of them
  Templates,       \* candidate templates
  Behaviour,       \* what truly happens to a template on a content
  RepairAttempts,  \* repair_attempts of the config file
  MaxEdits,        \* bound on edits behind the agent's back
  MaxRounds        \* bound on returns to the sample loop or to a fresh budget

ASSUME BehaviourAssumption ==
  Behaviour \in [Templates -> [Contents ->
                   [valid    : BOOLEAN,
                    outcome  : [1..NumCases -> Outcomes],
                    expected : [1..NumCases -> Values \cup {NonFinite}]]]]
ASSUME NoContentAssumption == NoContent \notin Contents
\* Whether the tags decode and the content hashes follows from the rest of it.  A number
\* that is not finite is never sent to the engine and never met by a result (module Verdicts).
ASSUME ContentsAssumption ==
  \A c \in Contents :
    /\ \A d \in Contents :
         /\ c.finite /\ d.finite
         /\ c.coverage = d.coverage /\ c.cases = d.cases /\ c.waivers = d.waivers
         /\ c.includes = d.includes
         => c = d
    /\ ~ c.finite => \A t \in Templates : \E k \in 1..NumCases :
         Behaviour[t][c].outcome[k] \notin Values \/ Behaviour[t][c].expected[k] = NonFinite
ASSUME RepairAssumption == RepairAttempts \in 1..10
ASSUME BoundsAssumption == MaxEdits \in Nat /\ MaxRounds \in Nat

VARIABLES
  interactive,   \* is there a user to ask?
  content,       \* the SampleSet file: its content
  confirmation,  \* ... and its confirmation block
  template,      \* the template file
  phase,         \* where the agent is in SKILL.md
  check,         \* content the agent's last check-samples was run on: what the user is shown
  loaded,        \* template the running verify or result has read
  verdict,       \* what the agent learnt from the last verify
  repairs,       \* repairs consumed in this round
  result,        \* the AuthoringResult returned
  attested,      \* history: contents the user was shown and confirmed, or the CI fixture's
  slipped,       \* history: contents put in the file behind the agent's back after the
                 \* user was shown another and before the fingerprint was fetched
  edits, rounds  \* counters of the bounds

files == <<content, confirmation, template>>
agent == <<phase, check, loaded, verdict, repairs, result>>
history == <<attested, slipped>>
vars  == <<interactive, files, agent, history, edits, rounds>>

NoTemplate  == "no template"
Unconfirmed == [confirmed |-> FALSE, by |-> "none", fp |-> EmptyFingerprint]
Confirmed(by, fp) == [confirmed |-> TRUE, by |-> by, fp |-> fp]

SampleSet(c, conf) ==
  [coverage |-> c.coverage, cases |-> c.cases, waivers |-> c.waivers,
   includes |-> c.includes, tagsOk |-> c.tagsOk, finite |-> c.finite,
   encodes |-> c.encodes, confirmation |-> conf]
FingerprintOf(c) == Fingerprint(SampleSet(c, Unconfirmed))
Report(c, conf)  == SampleCheck(SampleSet(c, conf))
ReportsComplete(c, conf)  == c.encodes /\ Report(c, conf).coverage_complete
ReportsConfirmed(c, conf) == c.encodes /\ Report(c, conf).confirmed

RequestFor(cmd, t, c, conf) ==
  [cmd |-> cmd, ingress |-> "ok",
   samples  |-> CheckOutcome(SampleSet(c, conf)),
   valid    |-> Behaviour[t][c].valid,
   outcome  |-> Behaviour[t][c].outcome,
   expected |-> Behaviour[t][c].expected]

NoResult == [status |-> "none", template |-> NoTemplate, content |-> NoContent]
Statuses == {"none", "need-samples", "deferred", "aborted", "repair-exhausted",
             "samples-rejected", "verify-failed", "matched"}
Phases == {"samples", "gaps", "ask", "fetch", "record", "draft", "verify", "judge",
           "decide", "review", "result", "deliver", "ended"}

Go(p) == phase' = p

-----------------------------------------------------------------------------
(***************************************************************************)
(* Section 3, the sample loop.                                             *)
(***************************************************************************)
\* Envelopes that carry no template: result --refuse.
Refuse(status) ==
  /\ result' = [NoResult EXCEPT !.status = status]
  /\ Go("ended")

\* 3.2 step 1 and 3.3 step 4: check-samples, and what its flags lead to.  Where it
\* raises (exit 3) there is no flag to read.  A user is shown what was checked.
CheckSamplesStep ==
  /\ phase = "samples"
  /\ LET outcome == CheckOutcome(SampleSet(content, confirmation)) IN
       \/ outcome = "ok" /\ Go("draft") /\ UNCHANGED result
       \/ outcome # "ok" /\ ~ interactive /\ Refuse("need-samples")
       \/ /\ outcome # "ok" /\ interactive
          /\ Go(IF ReportsComplete(content, confirmation) THEN "ask" ELSE "gaps")
          /\ UNCHANGED result
  /\ check' = content
  /\ repairs' = 0
  /\ UNCHANGED <<interactive, files, loaded, verdict, history, edits, rounds>>

\* 3.2 steps 2 to 4: the user's decisions are recorded in the file.
ResolveGaps ==
  /\ phase = "gaps" /\ rounds < MaxRounds
  /\ content' \in Contents
  /\ rounds' = rounds + 1
  /\ Go("samples")
  /\ UNCHANGED <<interactive, confirmation, template, check, loaded, verdict, repairs,
                 result, history, edits>>

\* 3.4: the user defers or aborts.
LeaveLoop ==
  /\ phase \in {"gaps", "ask"}
  /\ \E status \in {"deferred", "aborted"} : Refuse(status)
  /\ UNCHANGED <<interactive, files, check, loaded, verdict, repairs, history, edits,
                 rounds>>

\* The user confirms explicitly what they were shown.  A set that only lacks confirmation
\* goes to 3.3; one with another gap (an ambiguous id) goes back to editing.
UserConfirms ==
  /\ phase = "ask"
  /\ IF "duplicate_id" \in Report(check, confirmation).gaps
     THEN Go("gaps") /\ UNCHANGED attested
     ELSE Go("fetch") /\ attested' = attested \cup {check}
  /\ UNCHANGED <<interactive, files, check, loaded, verdict, repairs, result, slipped,
                 edits, rounds>>

\* 3.3 step 1: check-samples prints the fingerprint of what is in the file now, which need
\* not be what the user was shown; where it raises there is none to copy.
FetchFingerprint ==
  /\ phase = "fetch"
  /\ check' = content
  /\ Go(IF content.encodes THEN "record" ELSE "samples")
  /\ UNCHANGED <<interactive, files, loaded, verdict, repairs, result, history, edits,
                 rounds>>

\* 3.3 steps 2 and 3: copied verbatim into the confirmation block.  The round bound
\* stands for the user's patience with sets that change under the confirmation.
\* Mutation: the fingerprint of what is in the file by then, not the one that was printed.
RecordConfirmation_Recomputed ==
  /\ phase = "record" /\ rounds < MaxRounds
  /\ confirmation' = Confirmed("user", FingerprintOf(content))
  /\ rounds' = rounds + 1
  /\ Go("samples")
  /\ UNCHANGED <<interactive, content, template, check, loaded, verdict, repairs, result,
                 history, edits>>
RecordConfirmation ==
  /\ phase = "record" /\ rounds < MaxRounds
  /\ confirmation' = Confirmed("user", FingerprintOf(check))
  /\ rounds' = rounds + 1
  /\ Go("samples")
  /\ UNCHANGED <<interactive, content, template, check, loaded, verdict, repairs, result,
                 history, edits>>

-----------------------------------------------------------------------------
(***************************************************************************)
(* Sections 4 and 5, draft, verify and repair.                             *)
(***************************************************************************)
Draft ==
  /\ phase = "draft"
  /\ template' \in Templates
  /\ Go("verify")
  /\ UNCHANGED <<interactive, content, confirmation, check, loaded, verdict, repairs,
                 result, history, edits, rounds>>

\* A command reads the template file first and the SampleSet file second.
LoadTemplate(from, to) ==
  /\ phase = from
  /\ loaded' = template
  /\ Go(to)
  /\ UNCHANGED <<interactive, files, check, verdict, repairs, result, history, edits,
                 rounds>>

VerifyLoads == LoadTemplate("verify", "judge")
ResultLoads == LoadTemplate("result", "deliver")

\* What the agent learns from an answer: a status, or that there is none.
Learnt(answer, kind) ==
  IF \E k \in DOMAIN answer.docs : answer.docs[k].kind = kind
  THEN answer.docs[1].status ELSE "error"

VerifyAnswersIt ==
  /\ phase = "judge"
  /\ \E request \in {RequestFor("verify", loaded, content, confirmation)} :
       \E answer \in PermittedAnswers(request) : verdict' = Learnt(answer, "Verdict")
  /\ Go(IF verdict' = "matched" THEN IF interactive THEN "review" ELSE "result"
                                ELSE "decide")
  /\ UNCHANGED <<interactive, files, check, loaded, repairs, result, history, edits,
                 rounds>>

\* 5.1: a failed verify schedules a repair while the budget lasts.
\* Mutations: one repair too many, one too few.
BudgetLeft_OneMore == repairs <= RepairAttempts
BudgetLeft_OneLess == repairs + 1 < RepairAttempts
BudgetLeft == repairs < RepairAttempts

\* Mutation: the repair is not counted.
Repair_Uncounted ==
  /\ phase = "decide" /\ BudgetLeft
  /\ Go("draft")
  /\ UNCHANGED <<interactive, files, check, loaded, verdict, repairs, result, history,
                 edits, rounds>>
Repair ==
  /\ phase = "decide" /\ BudgetLeft
  /\ repairs' = repairs + 1
  /\ Go("draft")
  /\ UNCHANGED <<interactive, files, check, loaded, verdict, result, history, edits,
                 rounds>>

\* 5.1 step 7: stop early; the envelope comes from the result command.
StopEarly ==
  /\ phase = "decide" /\ BudgetLeft
  /\ Go("result")
  /\ UNCHANGED <<interactive, files, check, loaded, verdict, repairs, result, history,
                 edits, rounds>>

\* 5.1 step 6, as _cmd_result_refuse builds the envelope: it takes no --repair-count.
Exhausted ==
  /\ phase = "decide" /\ ~ BudgetLeft
  /\ Refuse("repair-exhausted")
  /\ UNCHANGED <<interactive, files, check, loaded, verdict, repairs, history, edits,
                 rounds>>

-----------------------------------------------------------------------------
(***************************************************************************)
(* Sections 6 and 7, review and result.                                    *)
(***************************************************************************)
Approve ==
  /\ phase = "review"
  /\ Go("result")
  /\ UNCHANGED <<interactive, files, check, loaded, verdict, repairs, result, history,
                 edits, rounds>>

\* Revise with feedback on wording alone: a fresh budget.
ReviseTemplate ==
  /\ phase = "review" /\ rounds < MaxRounds
  /\ repairs' = 0
  /\ rounds' = rounds + 1
  /\ Go("draft")
  /\ UNCHANGED <<interactive, files, check, loaded, verdict, result, history, edits>>

\* Revise with feedback on behaviour: an edit of the SampleSet, and the sample loop.
ReviseSamples ==
  /\ phase = "review" /\ rounds < MaxRounds
  /\ content' \in Contents
  /\ rounds' = rounds + 1
  /\ Go("samples")
  /\ UNCHANGED <<interactive, confirmation, template, check, loaded, verdict, repairs,
                 result, history, edits>>

StopReview ==
  /\ phase = "review"
  /\ \E status \in {"deferred", "aborted"} : Refuse(status)
  /\ UNCHANGED <<interactive, files, check, loaded, verdict, repairs, history, edits,
                 rounds>>

\* `result` verifies again and builds the envelope; without an answer of its own (exit
\* 3, killed) the agent has nothing to return.
Envelope(status) ==
  CASE status = "matched" -> [status |-> status, template |-> loaded, content |-> content]
    [] status = "error"   -> NoResult
    [] OTHER              -> [NoResult EXCEPT !.status = status]

ResultAnswersIt ==
  /\ phase = "deliver"
  /\ \E request \in {RequestFor("result", loaded, content, confirmation)} :
       \E answer \in PermittedAnswers(request) :
         result' = Envelope(Learnt(answer, "AuthoringResult"))
  /\ Go("ended")
  /\ UNCHANGED <<interactive, files, check, loaded, verdict, repairs, history, edits,
                 rounds>>

-----------------------------------------------------------------------------
(***************************************************************************)
(* Everybody else: an editor, a script, a second session.                  *)
(***************************************************************************)
\* The user has been shown a content, and the fingerprint is yet to be fetched.
BeingConfirmed == phase \in {"ask", "fetch"}

EditFiles ==
  /\ phase # "ended" /\ edits < MaxEdits
  /\ edits' = edits + 1
  /\ \/ /\ content' \in Contents /\ UNCHANGED template
        /\ slipped' = slipped \cup {c \in {content'} : BeingConfirmed /\ c # check}
     \/ template' \in Templates /\ UNCHANGED <<content, slipped>>
  /\ UNCHANGED <<interactive, confirmation, agent, attested, rounds>>

-----------------------------------------------------------------------------
\* An interactive session starts from the skeleton of 3.1; a run without a user starts
\* from a fixture whose confirmation may be for another content, one with a fingerprint.
Init ==
  /\ interactive \in BOOLEAN
  /\ content \in Contents
  /\ \/ interactive /\ confirmation = Unconfirmed /\ attested = {}
     \/ /\ ~ interactive
        /\ \E c \in Contents : /\ c.encodes
                              /\ confirmation = Confirmed("ci", FingerprintOf(c))
                              /\ attested = {c}
  /\ template \in Templates
  /\ phase = "samples" /\ check = NoContent /\ loaded = NoTemplate /\ verdict = "none"
  /\ repairs = 0 /\ result = NoResult /\ slipped = {} /\ edits = 0 /\ rounds = 0

AgentAlone == \/ CheckSamplesStep \/ FetchFingerprint \/ RecordConfirmation
              \/ Draft \/ VerifyLoads \/ VerifyAnswersIt
              \/ Repair \/ StopEarly \/ Exhausted
              \/ ResultLoads \/ ResultAnswersIt
UserDecides == \/ ResolveGaps \/ LeaveLoop \/ UserConfirms
               \/ Approve \/ ReviseTemplate \/ ReviseSamples \/ StopReview

Next == AgentAlone \/ UserDecides \/ EditFiles

\* The agent goes on by itself; nothing is assumed of the user or of other editors.
Spec == Init /\ [][Next]_vars /\ WF_vars(AgentAlone)

-----------------------------------------------------------------------------
\* The type of every variable: among others no counter of the protocol leaves its range.
TypeOK ==
  /\ interactive \in BOOLEAN
  /\ content \in Contents
  /\ confirmation.confirmed \in BOOLEAN
  /\ template \in Templates
  /\ phase \in Phases
  /\ check \in Contents \cup {NoContent}
  /\ loaded \in Templates \cup {NoTemplate}
  /\ verdict \in Stages \cup {"none", "matched", "error"}
  /\ repairs \in 0..RepairAttempts
  /\ result \in [status : Statuses, template : Templates \cup {NoTemplate},
                 content : Contents \cup {NoContent}]
  /\ attested \subseteq Contents /\ slipped \subseteq Contents
  /\ edits \in 0..MaxEdits /\ rounds \in 0..MaxRounds

\* README.md:6-8, SKILL.md:145: a template is returned only when it was verified against
\* samples that the user, shown them, has confirmed.
OnlyConfirmedIsDelivered == result.status = "matched" => result.content \in attested

\* A success is earned, and about samples somebody confirmed (AC-013, AC-016): the template
\* truly does what the delivered content says, and that content is one the user was shown
\* and confirmed, or the CI fixture's, wherever edits struck between the check, the record
\* of the confirmation, the verify, the review and the result.  With one exception, which
\* OnlyConfirmedIsDelivered is about: SKILL.md 3.3 fetches the fingerprint after the user
\* has confirmed, so that a content put in the file in between, and no other, is vouched
\* for by a confirmation that was given to another.
MatchedIsAttested ==
  result.status = "matched" =>
    /\ result.content \in attested \cup slipped
    /\ Earned(RequestFor("result", result.template, result.content,
                         Confirmed("user", FingerprintOf(result.content))))

\* Any edit of the content after it was confirmed flips `confirmed` back (AC-029).
EditsUnconfirm ==
  [][content' # content /\ confirmation' = confirmation
       => ~ (ReportsConfirmed(content, confirmation)
             /\ ReportsConfirmed(content', confirmation'))]_vars

\* AC-019: repair-exhausted is returned only with the whole budget spent and the last
\* verify failed, and no round ever consumes more than the budget.
BudgetKept ==
  /\ repairs <= RepairAttempts
  /\ result.status = "repair-exhausted" => repairs = RepairAttempts /\ verdict # "matched"

\* A run without a user ends (it never waits for input and the repair loop is bounded).
RunsEnd == ~ interactive ~> phase = "ended"
=============================================================================

------------------------ MODULE AuthoringSessionProofs ------------------------
(***************************************************************************)
(* For any contents, templates, behaviour of the engine, repair budget and *)
(* number of edits: a success is about samples somebody confirmed, or that *)
(* slipped in between a confirmation and the fetch of its fingerprint, and *)
(* the budget of repairs is kept.  Without a user, the steps of the agent  *)
(* are counted.                                                            *)
(***************************************************************************)
EXTENDS AuthoringSession, TLAPS

USE RepairAssumption, BoundsAssumption DEF history

\* What holds where the agent is: what the user has been shown and has confirmed, what has
\* been read, and that nothing has been returned yet.
Places ==
  /\ BeingConfirmed => check \in Contents /\ content \in {check} \cup slipped
  /\ phase = "fetch" => check \in attested
  /\ phase = "record" => check \in attested \cup slipped
  /\ phase \in {"judge", "deliver"} => loaded \in Templates
  /\ phase = "decide" => verdict # "matched"
  /\ phase # "ended" => result = NoResult

\* Whatever confirmation is in the file, it is for a content that was confirmed, or that
\* slipped in under a confirmation.
Vouched ==
  confirmation.confirmed =>
    \E c \in attested \cup slipped : confirmation.fp = FingerprintOf(c)

SessionInv == TypeOK /\ Places /\ Vouched /\ BudgetKept /\ MatchedIsAttested

-----------------------------------------------------------------------------
(***************************************************************************)
(* The answers and the confirmation.                                       *)
(***************************************************************************)
\* What is hashed determines a content whose numbers are finite.
LEMMA HashDetermines ==
  ASSUME NEW c \in Contents, NEW d \in Contents, c.finite, d.finite, Hashed(c) = Hashed(d)
  PROVE  c = d
<1>1. /\ Hashed(c).coverage = c.coverage /\ Hashed(d).coverage = d.coverage
      /\ Hashed(c).cases = c.cases /\ Hashed(d).cases = d.cases
      /\ Hashed(c).waivers = c.waivers /\ Hashed(d).waivers = d.waivers
      /\ Hashed(c).includes = c.includes /\ Hashed(d).includes = d.includes
  BY DEF Hashed
<1>2. QED
  BY <1>1, ContentsAssumption

\* The confirmation of a SampleSet takes no part in its coverage or its fingerprint.
LEMMA ContentAlone ==
  ASSUME NEW c, NEW x, NEW y
  PROVE  /\ CoverageComplete(SampleSet(c, x)) <=> CoverageComplete(SampleSet(c, y))
         /\ CoverageGaps(SampleSet(c, x)) = CoverageGaps(SampleSet(c, y))
         /\ Fingerprint(SampleSet(c, x)) = Fingerprint(SampleSet(c, y))
<1> DEFINE a == SampleSet(c, x)
           b == SampleSet(c, y)
<1>1. /\ a.coverage = b.coverage /\ a.cases = b.cases /\ a.waivers = b.waivers
      /\ a.includes = b.includes /\ a.finite = b.finite
  BY DEF SampleSet
<1> HIDE DEF a, b
<1>2. Known(a) = Known(b) /\ Proposed(a) = Proposed(b)
  BY <1>1 DEF Known, Proposed
<1>3. Cleared(a) = Cleared(b)
  BY <1>1, <1>2 DEF Cleared
<1>4. Pending(a) = Pending(b)
  BY <1>1, <1>3 DEF Pending
<1>5. Unmet(a) = Unmet(b)
  BY <1>1, <1>4 DEF Unmet, Met
<1>6. CoverageComplete(a) <=> CoverageComplete(b)
  BY <1>1, <1>2, <1>5 DEF CoverageComplete
<1>7. CoverageGaps(a) = CoverageGaps(b)
  BY <1>1, <1>2, <1>4, <1>5 DEF CoverageGaps
<1>8. Fingerprint(a) = Fingerprint(b)
  BY <1>1 DEF Fingerprint, Hashed
<1>9. QED
  BY <1>6, <1>7, <1>8 DEF a, b

\* A content that may be verified against under some confirmation may be under its own,
\* and the confirmation has its fingerprint.
LEMMA OwnConfirmation ==
  ASSUME NEW c, NEW conf, Report(c, conf).ok_for_verify
  PROVE  /\ Report(c, Confirmed("user", FingerprintOf(c))).ok_for_verify
         /\ conf.confirmed /\ conf.fp = FingerprintOf(c)
<1> DEFINE own == Confirmed("user", FingerprintOf(c))
<1>1. c.tagsOk /\ OkForVerify(SampleSet(c, conf))
  BY DEF Report, SampleCheck, SampleSet
<1>2. /\ CoverageComplete(SampleSet(c, conf)) /\ "duplicate_id" \notin CoverageGaps(SampleSet(c, conf))
      /\ conf.confirmed /\ conf.fp = Fingerprint(SampleSet(c, conf))
  BY <1>1 DEF OkForVerify, Attested, FpMatches, SampleSet
<1>3. conf.fp = FingerprintOf(c)
  BY <1>2, ContentAlone DEF FingerprintOf
<1>4. CoverageComplete(SampleSet(c, own)) /\ "duplicate_id" \notin CoverageGaps(SampleSet(c, own))
  BY <1>2, ContentAlone
<1>5. Fingerprint(SampleSet(c, own)) = FingerprintOf(c)
  BY ContentAlone DEF FingerprintOf
<1>6. SampleSet(c, own).confirmation = own /\ SampleSet(c, own).tagsOk = c.tagsOk
  BY DEF SampleSet
<1>7. Attested(SampleSet(c, own)) /\ FpMatches(SampleSet(c, own))
  BY <1>5, <1>6 DEF Attested, FpMatches, Confirmed
<1>8. Report(c, own).ok_for_verify
  BY <1>1, <1>4, <1>6, <1>7 DEF Report, SampleCheck, OkForVerify
<1>9. QED
  BY <1>2, <1>3, <1>8

\* What the agent can learn from `result`, and when it is told of a success.
LEMMA LearntFromResult ==
  ASSUME NEW r, r.cmd = "result", r.ingress = "ok", NEW answer \in PermittedAnswers(r)
  PROVE  LET status == Learnt(answer, "AuthoringResult") IN
         /\ status \in {"matched", "samples-rejected", "verify-failed", "error"}
         /\ status = "matched" => Earned(r)
<1>1. answer = Killed \/ answer \in VerifyAnswers(r)
  BY DEF PermittedAnswers, CommandAnswers, When
<1>2. CASE answer = Killed
  BY <1>2 DEF Killed, Learnt
<1>3. CASE answer = InternalError
  BY <1>3 DEF InternalError, Answer, CliError, Doc, Learnt
<1>4. ASSUME NEW v \in Stages \cup {"matched"}, PermittedVerdict(r, v), answer = Reported(r.cmd, v)
      PROVE  LET status == Learnt(answer, "AuthoringResult") IN
             /\ status \in {"matched", "samples-rejected", "verify-failed", "error"}
             /\ status = "matched" => Earned(r)
  <2>1. answer.docs = <<Doc("AuthoringResult", ResultStatus(v))>>
    BY <1>4 DEF Reported, Answer
  <2>2. Learnt(answer, "AuthoringResult") = ResultStatus(v)
    BY <2>1 DEF Learnt, Doc
  <2>3. ResultStatus(v) \in {"matched", "samples-rejected", "verify-failed"}
    BY DEF ResultStatus
  <2>4. ResultStatus(v) = "matched" => v = "matched"
    BY DEF ResultStatus
  <2>5. v = "matched" => Earned(r)
    BY <1>4 DEF PermittedVerdict, Stages
  <2>6. QED
    BY <2>2, <2>3, <2>4, <2>5
<1>5. QED
  BY <1>1, <1>2, <1>3, <1>4 DEF VerifyAnswers

\* What the agent can learn from `verify`.
LEMMA LearntFromVerify ==
  ASSUME NEW r, r.cmd = "verify", r.ingress = "ok", NEW answer \in PermittedAnswers(r)
  PROVE  Learnt(answer, "Verdict") \in Stages \cup {"matched", "error"}
<1>1. answer = Killed \/ answer \in VerifyAnswers(r)
  BY DEF PermittedAnswers, CommandAnswers, When
<1>2. CASE answer = Killed
  BY <1>2 DEF Killed, Learnt
<1>3. CASE answer = InternalError
  BY <1>3 DEF InternalError, Answer, CliError, Doc, Learnt
<1>4. ASSUME NEW v \in Stages \cup {"matched"}, answer = Reported(r.cmd, v)
      PROVE  Learnt(answer, "Verdict") = v
  <2>1. answer.docs = <<Doc("Verdict", v)>>
    BY <1>4 DEF Reported, Answer
  <2>2. QED
    BY <2>1 DEF Learnt, Doc
<1>5. QED
  BY <1>1, <1>2, <1>3, <1>4 DEF VerifyAnswers

-----------------------------------------------------------------------------
(***************************************************************************)
(* What the actions have in common.                                        *)
(***************************************************************************)
\* A step that returns nothing has nothing to answer for.
LEMMA NothingReturned ==
  ASSUME result' = NoResult, repairs' <= RepairAttempts
  PROVE  BudgetKept' /\ MatchedIsAttested'
BY DEF BudgetKept, MatchedIsAttested, NoResult

\* Nor has a refusal, but for repair-exhausted.
LEMMA Refused ==
  ASSUME NEW status, Refuse(status), status # "matched", repairs' <= RepairAttempts,
         status = "repair-exhausted" => repairs' = RepairAttempts /\ verdict' # "matched"
  PROVE  BudgetKept' /\ MatchedIsAttested' /\ phase' = "ended"
<1>1. result'.status = status /\ phase' = "ended"
  BY DEF Refuse, NoResult, Go
<1>2. QED
  BY <1>1 DEF BudgetKept, MatchedIsAttested

\* Where the file keeps its confirmation, somebody still vouches for it.
LEMMA SameConfirmation ==
  ASSUME Vouched, confirmation' = confirmation,
         attested \subseteq attested', slipped \subseteq slipped'
  PROVE  Vouched'
BY DEF Vouched, FingerprintOf, Fingerprint, Hashed, SampleSet, Unconfirmed

\* A step that returns nothing and confirms nothing.
LEMMA QuietStep ==
  ASSUME SessionInv, phase # "ended", TypeOK', phase' \in Phases \ {"ended"},
         UNCHANGED <<confirmation, result>>,
         attested \subseteq attested', slipped \subseteq slipped',
         BeingConfirmed' => check' \in Contents /\ content' \in {check'} \cup slipped',
         phase' = "fetch" => check' \in attested',
         phase' = "record" => check' \in attested' \cup slipped',
         phase' \in {"judge", "deliver"} => loaded' \in Templates,
         phase' = "decide" => verdict' # "matched"
  PROVE  SessionInv'
<1>1. result = NoResult /\ result' = NoResult
  BY DEF SessionInv, Places
<1>2. repairs' <= RepairAttempts
  BY DEF TypeOK
<1>3. Vouched'
  BY SameConfirmation DEF SessionInv
<1>4. Places'
  BY <1>1 DEF Places, NoResult, BeingConfirmed
<1>5. QED
  BY <1>1, <1>2, <1>3, <1>4, NothingReturned DEF SessionInv

\* A step that refuses.
LEMMA RefusingStep ==
  ASSUME SessionInv, NEW status, Refuse(status), TypeOK', status # "matched",
         UNCHANGED <<confirmation, history>>,
         status = "repair-exhausted" => repairs' = RepairAttempts /\ verdict' # "matched"
  PROVE  SessionInv'
<1>1. repairs' <= RepairAttempts
  BY DEF TypeOK
<1>2. BudgetKept' /\ MatchedIsAttested' /\ phase' = "ended"
  BY <1>1, Refused
<1>3. Vouched'
  BY SameConfirmation DEF SessionInv
<1>4. QED
  BY <1>2, <1>3 DEF SessionInv, Places, BeingConfirmed

-----------------------------------------------------------------------------
(***************************************************************************)
(* Each action preserves the invariant.                                    *)
(***************************************************************************)
LEMMA CheckSamplesKeeps == ASSUME SessionInv, CheckSamplesStep PROVE SessionInv'
<1>1. /\ phase = "samples" /\ repairs' = 0 /\ check' = content /\ content \in Contents
      /\ UNCHANGED <<interactive, files, loaded, verdict, history, edits, rounds>>
  BY DEF CheckSamplesStep, SessionInv, TypeOK
<1>2. phase' \in {"draft", "ask", "gaps", "ended"}
  BY DEF CheckSamplesStep, Refuse, Go
<1>3. CASE Refuse("need-samples")
  <2>1. TypeOK'
    BY <1>1, <1>2, <1>3 DEF SessionInv, TypeOK, files, Phases, Refuse, NoResult, Statuses
  <2>2. QED
    BY <1>1, <1>3, <2>1, RefusingStep DEF files
<1>4. CASE phase' # "ended" /\ UNCHANGED result
  <2>1. TypeOK'
    BY <1>1, <1>2, <1>4 DEF SessionInv, TypeOK, files, Phases
  <2>2. QED
    BY <1>1, <1>2, <1>4, <2>1, QuietStep DEF files, Phases, BeingConfirmed
<1>5. QED
  BY <1>3, <1>4 DEF CheckSamplesStep, Go

\* The sample loop returns nothing and writes no confirmation.
LEMMA SampleLoopKeeps ==
  ASSUME SessionInv, ResolveGaps \/ UserConfirms \/ FetchFingerprint \/ ReviseSamples
  PROVE  SessionInv'
<1> USE DEF BeingConfirmed
<1>1. CASE ResolveGaps \/ ReviseSamples
  <2>1. /\ phase # "ended" /\ phase' = "samples"
        /\ content' \in Contents /\ rounds' \in 0..MaxRounds
        /\ UNCHANGED <<interactive, confirmation, template, check, loaded, verdict, repairs,
                       result, history, edits>>
    BY <1>1 DEF ResolveGaps, ReviseSamples, Go, SessionInv, TypeOK
  <2>2. TypeOK'
    BY <2>1 DEF SessionInv, TypeOK, Phases
  <2>3. QED
    BY <2>1, <2>2, QuietStep DEF Phases
<1>2. CASE UserConfirms
  <2>1. /\ phase = "ask" /\ phase' \in {"gaps", "fetch"}
        /\ attested' = attested \/ attested' = attested \cup {check}
        /\ phase' = "fetch" => check \in attested'
        /\ UNCHANGED <<interactive, files, check, loaded, verdict, repairs, result, slipped,
                       edits, rounds>>
    BY <1>2 DEF UserConfirms, Go
  <2>2. check \in Contents /\ content \in {check} \cup slipped
    BY <2>1 DEF SessionInv, Places
  <2>3. TypeOK'
    BY <2>1, <2>2 DEF SessionInv, TypeOK, Phases, files
  <2>4. QED
    BY <2>1, <2>2, <2>3, QuietStep DEF Phases, files
<1>3. CASE FetchFingerprint
  <2>1. /\ phase = "fetch" /\ phase' \in {"record", "samples"} /\ check' = content
        /\ UNCHANGED <<interactive, files, loaded, verdict, repairs, result, history, edits,
                       rounds>>
    BY <1>3 DEF FetchFingerprint, Go
  <2>2. content \in attested \cup slipped
    BY <2>1 DEF SessionInv, Places
  <2>3. TypeOK'
    BY <2>1 DEF SessionInv, TypeOK, Phases, files
  <2>4. QED
    BY <2>1, <2>2, <2>3, QuietStep DEF Phases, files
<1>4. QED
  BY <1>1, <1>2, <1>3

\* The confirmation recorded is for the content whose fingerprint was printed.
LEMMA RecordKeeps == ASSUME SessionInv, RecordConfirmation PROVE SessionInv'
<1>1. /\ phase = "record" /\ rounds < MaxRounds
      /\ confirmation' = Confirmed("user", FingerprintOf(check))
      /\ rounds' = rounds + 1 /\ phase' = "samples"
      /\ UNCHANGED <<interactive, content, template, check, loaded, verdict, repairs, result,
                     history, edits>>
  BY DEF RecordConfirmation, Go
<1>2. check \in attested \cup slipped /\ result = NoResult
  BY <1>1 DEF SessionInv, Places
<1>3. TypeOK'
  BY <1>1 DEF SessionInv, TypeOK, Confirmed, Phases
<1>4. Vouched'
  BY <1>1, <1>2 DEF Vouched, Confirmed, FingerprintOf, Fingerprint, Hashed, SampleSet, Unconfirmed
<1>5. Places'
  BY <1>1, <1>2 DEF Places, NoResult, BeingConfirmed
<1>6. repairs' <= RepairAttempts
  BY <1>3 DEF TypeOK
<1>7. QED
  BY <1>1, <1>2, <1>3, <1>4, <1>5, <1>6, NothingReturned DEF SessionInv

\* A user who leaves gets an envelope without a template.
LEMMA StopsKeep == ASSUME SessionInv, LeaveLoop \/ StopReview PROVE SessionInv'
<1>1. PICK status \in {"deferred", "aborted"} : Refuse(status)
  BY DEF LeaveLoop, StopReview
<1>2. UNCHANGED <<interactive, files, check, loaded, verdict, repairs, history, edits, rounds>>
  BY DEF LeaveLoop, StopReview
<1>3. TypeOK'
  BY <1>1, <1>2 DEF SessionInv, TypeOK, files, Phases, Refuse, Go, NoResult, Statuses
<1>4. QED
  BY <1>1, <1>2, <1>3, RefusingStep DEF files

\* Drafting, loading and repairing: a repair is counted while the budget lasts.
LEMMA RepairLoopKeeps ==
  ASSUME SessionInv, Draft \/ VerifyLoads \/ ResultLoads \/ Repair \/ StopEarly
  PROVE  SessionInv'
<1>1. CASE Draft
  <2>1. /\ phase # "ended" /\ phase' = "verify" /\ template' \in Templates
        /\ UNCHANGED <<interactive, content, confirmation, check, loaded, verdict, repairs,
                       result, history, edits, rounds>>
    BY <1>1 DEF Draft, Go
  <2>2. TypeOK'
    BY <2>1 DEF SessionInv, TypeOK, Phases
  <2>3. QED
    BY <2>1, <2>2, QuietStep DEF Phases, BeingConfirmed
<1>2. CASE VerifyLoads \/ ResultLoads
  <2>1. /\ phase # "ended" /\ phase' \in {"judge", "deliver"} /\ loaded' = template
        /\ UNCHANGED <<interactive, files, check, verdict, repairs, result, history, edits, rounds>>
    BY <1>2 DEF VerifyLoads, ResultLoads, LoadTemplate, Go
  <2>2. TypeOK' /\ loaded' \in Templates
    BY <2>1 DEF SessionInv, TypeOK, Phases, files
  <2>3. QED
    BY <2>1, <2>2, QuietStep DEF Phases, BeingConfirmed, files
<1>3. CASE Repair \/ StopEarly
  <2>1. /\ phase # "ended" /\ phase' \in {"draft", "result"}
        /\ BudgetLeft /\ repairs' \in {repairs, repairs + 1}
        /\ UNCHANGED <<interactive, files, check, loaded, verdict, result, history, edits, rounds>>
    BY <1>3 DEF Repair, StopEarly, Go
  <2>2. repairs' \in 0..RepairAttempts
    BY <2>1 DEF BudgetLeft, SessionInv, TypeOK
  <2>3. TypeOK'
    BY <2>1, <2>2 DEF SessionInv, TypeOK, Phases, files
  <2>4. QED
    BY <2>1, <2>3, QuietStep DEF Phases, BeingConfirmed, files
<1>4. QED
  BY <1>1, <1>2, <1>3

\* The review resets the budget; a verify that did not match leads to the decision.
LEMMA ReviewKeeps ==
  ASSUME SessionInv, Approve \/ ReviseTemplate \/ VerifyAnswersIt PROVE SessionInv'
<1>1. CASE Approve \/ ReviseTemplate
  <2>1. /\ phase # "ended" /\ phase' \in {"result", "draft"}
        /\ repairs' \in {repairs, 0} /\ rounds' \in 0..MaxRounds
        /\ UNCHANGED <<interactive, files, check, loaded, verdict, result, history, edits>>
    BY <1>1 DEF Approve, ReviseTemplate, Go, SessionInv, TypeOK
  <2>2. TypeOK'
    BY <2>1 DEF SessionInv, TypeOK, Phases, files
  <2>3. QED
    BY <2>1, <2>2, QuietStep DEF Phases, BeingConfirmed, files
<1>2. CASE VerifyAnswersIt
  <2>1. /\ phase # "ended" /\ phase' \in {"review", "result", "decide"}
        /\ phase' = "decide" => verdict' # "matched"
        /\ verdict' \in Stages \cup {"matched", "error"}
        /\ UNCHANGED <<interactive, files, check, loaded, repairs, result, history, edits, rounds>>
    BY <1>2, LearntFromVerify DEF VerifyAnswersIt, Go, RequestFor
  <2>2. TypeOK'
    BY <2>1 DEF SessionInv, TypeOK, Phases, files
  <2>3. QED
    BY <2>1, <2>2, QuietStep DEF Phases, BeingConfirmed, files
<1>3. QED
  BY <1>1, <1>2

\* The budget is found spent only with all of it spent and the last verify failed.
LEMMA ExhaustedKeeps == ASSUME SessionInv, Exhausted PROVE SessionInv'
<1>1. /\ phase = "decide" /\ ~BudgetLeft /\ Refuse("repair-exhausted")
      /\ UNCHANGED <<interactive, files, check, loaded, verdict, repairs, history, edits, rounds>>
  BY DEF Exhausted
<1>2. repairs' = RepairAttempts /\ verdict' # "matched"
  BY <1>1 DEF BudgetLeft, SessionInv, TypeOK, Places
<1>3. TypeOK'
  BY <1>1 DEF SessionInv, TypeOK, files, Phases, Refuse, Go, NoResult, Statuses
<1>4. QED
  BY <1>1, <1>2, <1>3, RefusingStep DEF files

\* A success is earned, and then the content is the one the confirmation is for.
LEMMA DeliverKeeps == ASSUME SessionInv, ResultAnswersIt PROVE SessionInv'
<1> DEFINE r == RequestFor("result", loaded, content, confirmation)
<1>1. /\ phase = "deliver" /\ phase' = "ended"
      /\ UNCHANGED <<interactive, files, check, loaded, verdict, repairs, history, edits, rounds>>
  BY DEF ResultAnswersIt, Go
<1>2. TypeOK /\ loaded \in Templates /\ content \in Contents /\ repairs <= RepairAttempts
  BY <1>1 DEF SessionInv, TypeOK, Places
<1>3. PICK answer \in PermittedAnswers(r) : result' = Envelope(Learnt(answer, "AuthoringResult"))
  BY DEF ResultAnswersIt
<1>4. r.cmd = "result" /\ r.ingress = "ok"
  BY DEF RequestFor
<1> DEFINE status == Learnt(answer, "AuthoringResult")
<1>5. /\ status \in {"matched", "samples-rejected", "verify-failed", "error"}
      /\ status = "matched" => Earned(r)
  BY <1>4, LearntFromResult
<1> HIDE DEF status
<1>6. result' = Envelope(status)
  BY <1>3 DEF status
<1>7. TypeOK'
  <2>1. result' \in [status : Statuses, template : Templates \cup {NoTemplate},
                     content : Contents \cup {NoContent}]
    BY <1>2, <1>5, <1>6 DEF Envelope, NoResult, Statuses
  <2>2. QED
    BY <1>1, <1>2, <2>1 DEF TypeOK, files, Phases
<1>8. Vouched' /\ Places'
  BY <1>1, SameConfirmation DEF SessionInv, Places, files, BeingConfirmed
<1>9. result'.status # "repair-exhausted"
  BY <1>5, <1>6 DEF Envelope, NoResult
<1>10. ASSUME result'.status = "matched"
       PROVE  /\ result'.content \in attested \cup slipped
              /\ Earned(RequestFor("result", result'.template, result'.content,
                                   Confirmed("user", FingerprintOf(result'.content))))
  <2>1. status = "matched" /\ result'.content = content /\ result'.template = loaded
    BY <1>5, <1>6, <1>10 DEF Envelope, NoResult
  <2>2. Earned(r)
    BY <1>5, <2>1
  <2>3. Report(content, confirmation).ok_for_verify
    BY <2>2 DEF Earned, Runnable, RequestFor, CheckOutcome, Report
  <2>4. /\ Report(content, Confirmed("user", FingerprintOf(content))).ok_for_verify
        /\ confirmation.confirmed /\ confirmation.fp = FingerprintOf(content)
    BY <2>3, OwnConfirmation
  <2>5. Earned(RequestFor("result", loaded, content, Confirmed("user", FingerprintOf(content))))
    <3>1. CheckOutcome(SampleSet(content, confirmation)) = "ok"
      BY <2>2 DEF Earned, Runnable, RequestFor
    <3>2. content.encodes
      BY <3>1 DEF CheckOutcome, SampleSet
    <3>3. CheckOutcome(SampleSet(content, Confirmed("user", FingerprintOf(content)))) = "ok"
      BY <2>4, <3>2 DEF CheckOutcome, Report, SampleSet
    <3>4. QED
      BY <2>2, <3>3 DEF Earned, Runnable, AllValues, Agrees, RequestFor
  <2>6. content.finite
    <3>1. \A k \in 1..NumCases : /\ Behaviour[loaded][content].outcome[k] \in Values
                                 /\ Behaviour[loaded][content].expected[k] = Behaviour[loaded][content].outcome[k]
      BY <2>2 DEF Earned, AllValues, Agrees, RequestFor
    <3>2. NonFinite \notin Values
      BY ValuesAssumption DEF Outcomes
    <3>3. ~ content.finite => \E k \in 1..NumCases :
            \/ Behaviour[loaded][content].outcome[k] \notin Values
            \/ Behaviour[loaded][content].expected[k] = NonFinite
      BY <1>2, ContentsAssumption
    <3>4. QED
      BY <3>1, <3>2, <3>3
  <2>7. PICK c \in attested \cup slipped : confirmation.fp = FingerprintOf(c)
    BY <2>4 DEF SessionInv, Vouched
  <2>8. FingerprintOf(content) = <<Hashed(content)>>
    BY <2>6 DEF FingerprintOf, Fingerprint, SampleSet, Hashed
  <2>9. c.finite /\ Hashed(c) = Hashed(content)
    <3>1. FingerprintOf(c) = IF c.finite THEN <<Hashed(c)>> ELSE <<>>
      BY DEF FingerprintOf, Fingerprint, SampleSet, Hashed, EmptyFingerprint
    <3>2. FingerprintOf(c) = <<Hashed(content)>>
      BY <2>4, <2>7, <2>8
    <3>3. c.finite
      BY <3>1, <3>2
    <3>4. QED
      BY <3>1, <3>2, <3>3
  <2>10. c = content
    BY <1>2, <2>6, <2>7, <2>9, HashDetermines DEF TypeOK
  <2>11. QED
    BY <2>1, <2>5, <2>7, <2>10
<1>11. BudgetKept'
  BY <1>1, <1>2, <1>9 DEF BudgetKept
<1>12. MatchedIsAttested'
  <2>1. UNCHANGED <<attested, slipped>>
    BY <1>1
  <2>2. QED
    BY <1>10, <2>1 DEF MatchedIsAttested, RequestFor, Report, Earned, Runnable, AllValues, Agrees,
       Confirmed, FingerprintOf, Fingerprint, SampleSet
<1>13. QED
  BY <1>7, <1>8, <1>11, <1>12 DEF SessionInv

\* An edit behind the agent's back comes before it has returned.
LEMMA EditKeeps == ASSUME SessionInv, EditFiles PROVE SessionInv'
<1>1. /\ phase # "ended" /\ edits < MaxEdits /\ edits' = edits + 1
      /\ content' \in Contents /\ template' \in Templates
      /\ UNCHANGED <<interactive, confirmation, agent, attested, rounds>>
  BY DEF EditFiles, SessionInv, TypeOK
<1>2. /\ slipped' \subseteq slipped \cup {content'} /\ slipped \subseteq slipped'
      /\ content' = content \/ (BeingConfirmed => content' \in {check} \cup slipped')
  BY DEF EditFiles
<1>3. TypeOK'
  BY <1>1, <1>2 DEF SessionInv, TypeOK, agent
<1>4. phase' \in Phases \ {"ended"}
  BY <1>1 DEF SessionInv, TypeOK, agent
<1>5. Places
  BY DEF SessionInv
<1>6. BeingConfirmed' => check' \in Contents /\ content' \in {check'} \cup slipped'
  BY <1>1, <1>2, <1>5 DEF agent, Places, BeingConfirmed
<1>7. /\ phase' = "fetch" => check' \in attested'
      /\ phase' = "record" => check' \in attested' \cup slipped'
      /\ phase' \in {"judge", "deliver"} => loaded' \in Templates
      /\ phase' = "decide" => verdict' # "matched"
  BY <1>1, <1>2, <1>5 DEF agent, Places
<1>8. QED
  BY <1>1, <1>2, <1>3, <1>4, <1>6, <1>7, QuietStep DEF agent

\* Before the first step: no confirmation, or that of the CI fixture.
LEMMA InitSession == ASSUME Init PROVE SessionInv
<1>1. TypeOK
  <2>1. confirmation.confirmed \in BOOLEAN /\ attested \subseteq Contents
    <3>1. CASE confirmation = Unconfirmed /\ attested = {}
      BY <3>1 DEF Unconfirmed
    <3>2. ASSUME NEW c \in Contents, confirmation = Confirmed("ci", FingerprintOf(c)), attested = {c}
          PROVE  confirmation.confirmed \in BOOLEAN /\ attested \subseteq Contents
      <4>1. confirmation.confirmed = TRUE
        BY <3>2 DEF Confirmed
      <4>2. QED
        BY <4>1, <3>2
    <3>3. QED
      BY <3>1, <3>2 DEF Init
  <2>2. 0 \in 0..RepairAttempts /\ 0 \in 0..MaxEdits /\ 0 \in 0..MaxRounds
    OBVIOUS
  <2>3. QED
    BY <2>1, <2>2 DEF Init, TypeOK, Phases, NoResult, Statuses
<1>2. Vouched
  BY DEF Init, Vouched, Unconfirmed, Confirmed
<1>3. Places /\ BudgetKept /\ MatchedIsAttested
  BY DEF Init, Places, BudgetKept, MatchedIsAttested, NoResult, BeingConfirmed
<1>4. QED
  BY <1>1, <1>2, <1>3 DEF SessionInv

\* Every step of the session, and every stutter.
LEMMA NextSession == ASSUME SessionInv, [Next]_vars PROVE SessionInv'
<1>1. CASE AgentAlone
  BY <1>1, CheckSamplesKeeps, SampleLoopKeeps, RecordKeeps, RepairLoopKeeps, ReviewKeeps,
     ExhaustedKeeps, DeliverKeeps DEF AgentAlone
<1>2. CASE UserDecides
  BY <1>2, SampleLoopKeeps, StopsKeep, ReviewKeeps DEF UserDecides
<1>3. CASE EditFiles
  BY <1>3, EditKeeps
<1>4. CASE UNCHANGED vars
  <2>1. TypeOK' /\ Places' /\ Vouched'
    BY <1>4, SameConfirmation DEF vars, files, agent, SessionInv, TypeOK, Places, BeingConfirmed
  <2>2. BudgetKept' /\ MatchedIsAttested'
    BY <1>4 DEF vars, files, agent, SessionInv, BudgetKept, MatchedIsAttested, RequestFor, Report,
       Earned, Runnable, AllValues, Agrees, Confirmed, FingerprintOf, Fingerprint, SampleSet
  <2>3. QED
    BY <2>1, <2>2 DEF SessionInv
<1>5. QED
  BY <1>1, <1>2, <1>3, <1>4 DEF Next

\* The invariant holds throughout.
THEOREM SessionInvariant == Spec => []SessionInv
<1>1. Init => SessionInv
  BY InitSession
<1>2. SessionInv /\ [Next]_vars => SessionInv'
  BY NextSession
<1>3. QED
  BY <1>1, <1>2, PTL DEF Spec

\* Every variable keeps its type: no counter of the protocol leaves its range.
THEOREM SessionTypes == Spec => []TypeOK
<1>1. SessionInv => TypeOK
  BY DEF SessionInv
<1>2. QED
  BY <1>1, SessionInvariant, PTL

\* A success is earned, and about samples somebody confirmed or that slipped in between a
\* confirmation and the fetch of its fingerprint, however many edits strike.
THEOREM SuccessIsAttested == Spec => []MatchedIsAttested
<1>1. SessionInv => MatchedIsAttested
  BY DEF SessionInv
<1>2. QED
  BY <1>1, SessionInvariant, PTL

\* The budget is kept, and repair-exhausted is told only with all of it spent.
THEOREM RepairsAreBounded == Spec => []BudgetKept
<1>1. SessionInv => BudgetKept
  BY DEF SessionInv
<1>2. QED
  BY <1>1, SessionInvariant, PTL

\* Where every number is finite, an edit of a confirmed content takes the confirmation
\* away from it.
THEOREM EditsTakeConfirmation ==
  ASSUME \A c \in Contents : c.finite
  PROVE  Spec => EditsUnconfirm
<1> DEFINE Flips == content' # content /\ confirmation' = confirmation
                      => ~ (ReportsConfirmed(content, confirmation)
                            /\ ReportsConfirmed(content', confirmation'))
<1>1. ASSUME TypeOK, TypeOK', [Next]_vars PROVE [Flips]_vars
  <2> SUFFICES ASSUME content' # content, confirmation' = confirmation,
                      Report(content, confirmation).confirmed,
                      Report(content', confirmation).confirmed
               PROVE  FALSE
    BY DEF ReportsConfirmed, Report, SampleCheck, SampleSet
  <2>1. content \in Contents /\ content' \in Contents
    BY <1>1 DEF TypeOK
  <2>2. ASSUME NEW c, Report(c, confirmation).confirmed
        PROVE  confirmation.fp = Fingerprint(SampleSet(c, confirmation))
    BY <2>2 DEF Report, SampleCheck, FpMatches, SampleSet
  <2>3. ASSUME NEW c \in Contents PROVE Fingerprint(SampleSet(c, confirmation)) = <<Hashed(c)>>
    BY DEF Fingerprint, SampleSet, Hashed
  <2>4. Hashed(content) = Hashed(content')
    <3>1. <<Hashed(content)>> = <<Hashed(content')>>
      BY <2>1, <2>2, <2>3
    <3>2. QED
      BY <3>1
  <2>5. QED
    BY <2>1, <2>4, HashDetermines
<1>2. QED
  BY <1>1, SessionTypes, PTL DEF Spec, EditsUnconfirm

-----------------------------------------------------------------------------
(***************************************************************************)
(* The bound on a run without a user: a measure that every step of the     *)
(* agent lowers.  A repair costs four steps, and the road from the sample  *)
(* check to the end seven.                                                 *)
(***************************************************************************)
Road == [p \in Phases |-> CASE p = "samples" -> 7
                            [] p = "draft"   -> 6
                            [] p = "verify"  -> 5
                            [] p = "judge"   -> 4
                            [] p = "decide"  -> 3
                            [] p = "result"  -> 2
                            [] p = "deliver" -> 1
                            [] OTHER         -> 0]
StepsLeft == IF phase \in {"result", "deliver", "ended"} THEN Road[phase]
             ELSE Road[phase] + 4 * (RepairAttempts - repairs)

\* Without a user the agent is never where it waits for one.
Unattended ==
  ~ interactive => /\ phase \notin {"gaps", "ask", "fetch", "record", "review"}
                   /\ phase = "samples" => repairs = 0

\* The measure is a number.
LEMMA StepsAreCounted ==
  ASSUME TypeOK
  PROVE  StepsLeft \in 0..(4 * RepairAttempts + 7)
<1>1. phase \in Phases /\ RepairAttempts - repairs \in 0..RepairAttempts
  BY DEF TypeOK
<1>2. Road[phase] \in 0..7
  BY <1>1 DEF Road
<1>3. QED
  BY <1>1, <1>2 DEF StepsLeft

\* The steps before the budget comes in: the sample check, a draft, the reading of it.
LEMMA LoopLowers ==
  ASSUME TypeOK, Unattended, ~ interactive,
         CheckSamplesStep \/ Draft \/ VerifyLoads \/ VerifyAnswersIt
  PROVE  /\ StepsLeft' < StepsLeft /\ Unattended'
<1>1. RepairAttempts - repairs \in Nat /\ repairs \in Nat
  BY DEF TypeOK
<1>2. /\ UNCHANGED <<interactive, repairs>>
      /\ \/ phase = "samples" /\ phase' \in {"draft", "ended"}
         \/ phase = "draft" /\ phase' = "verify"
         \/ phase = "verify" /\ phase' = "judge"
         \/ phase = "judge" /\ phase' \in {"result", "decide"}
  <2>1. CASE CheckSamplesStep
    BY <2>1 DEF CheckSamplesStep, Go, Refuse, Unattended
  <2>2. CASE Draft \/ VerifyLoads \/ VerifyAnswersIt
    BY <2>2 DEF Draft, VerifyLoads, VerifyAnswersIt, LoadTemplate, Go
  <2>3. QED
    BY <2>1, <2>2
<1>3. StepsLeft' < StepsLeft
  BY <1>1, <1>2 DEF StepsLeft, Road, Phases
<1>4. QED
  BY <1>2, <1>3 DEF Unattended

\* The decision after a failed verify, and the way out.
LEMMA DecisionLowers ==
  ASSUME TypeOK, Unattended, ~ interactive,
         Repair \/ StopEarly \/ Exhausted \/ ResultLoads \/ ResultAnswersIt
  PROVE  /\ StepsLeft' < StepsLeft /\ Unattended'
<1>1. RepairAttempts - repairs \in Nat /\ repairs \in Nat /\ RepairAttempts \in Nat
  BY DEF TypeOK
<1>2. CASE Repair
  <2>1. /\ phase = "decide" /\ phase' = "draft" /\ UNCHANGED interactive
        /\ repairs' = repairs + 1 /\ repairs < RepairAttempts
    BY <1>2 DEF Repair, BudgetLeft, Go
  <2>2. QED
    BY <1>1, <2>1 DEF StepsLeft, Road, Phases, Unattended
<1>3. CASE StopEarly \/ Exhausted \/ ResultLoads \/ ResultAnswersIt
  <2>1. /\ UNCHANGED <<interactive, repairs>>
        /\ \/ phase = "decide" /\ phase' \in {"result", "ended"}
           \/ phase = "result" /\ phase' = "deliver"
           \/ phase = "deliver" /\ phase' = "ended"
    BY <1>3 DEF StopEarly, Exhausted, ResultLoads, ResultAnswersIt, LoadTemplate, Go, Refuse
  <2>2. QED
    BY <1>1, <2>1 DEF StepsLeft, Road, Phases, Unattended
<1>4. QED
  BY <1>2, <1>3

\* Any step of a run without a user is one of the agent or an edit behind its back.
LEMMA AgentLowers ==
  ASSUME TypeOK, Unattended, [Next]_vars
  PROVE  /\ Unattended'
         /\ ~ interactive => UNCHANGED agent \/ StepsLeft' < StepsLeft
<1>1. UNCHANGED interactive
  BY DEF Next, AgentAlone, UserDecides, CheckSamplesStep, FetchFingerprint,
         RecordConfirmation, Draft, VerifyLoads, ResultLoads, LoadTemplate, VerifyAnswersIt,
         Repair, StopEarly, Exhausted, ResultAnswersIt, ResolveGaps, LeaveLoop, UserConfirms,
         Approve, ReviseTemplate, ReviseSamples, StopReview, EditFiles, vars
<1>2. CASE interactive
  BY <1>1, <1>2 DEF Unattended
<1>3. CASE ~ interactive
  <2>1. ~ UserDecides /\ ~ FetchFingerprint /\ ~ RecordConfirmation
    BY <1>3 DEF Unattended, UserDecides, ResolveGaps, LeaveLoop, UserConfirms, Approve,
                ReviseTemplate, ReviseSamples, StopReview, FetchFingerprint, RecordConfirmation
  <2>2. CASE AgentAlone
    BY <1>3, <2>1, <2>2, LoopLowers, DecisionLowers DEF AgentAlone
  <2>3. CASE EditFiles \/ UNCHANGED vars
    <3>1. UNCHANGED <<agent, interactive>>
      BY <2>3 DEF EditFiles, vars
    <3>2. QED
      BY <3>1 DEF agent, Unattended
  <2>4. QED
    BY <2>1, <2>2, <2>3 DEF Next
<1>4. QED
  BY <1>2, <1>3

\* Without a user the agent takes no more than seven steps and four for each repair of
\* the budget, whatever the answers are and whatever edits strike: it never waits for
\* input, it never goes back to the sample loop, and the repair loop is bounded.
THEOREM UnattendedRunsAreBounded ==
  Spec => /\ [](~ interactive => StepsLeft \in 0..(4 * RepairAttempts + 7))
          /\ [][~ interactive => UNCHANGED agent \/ StepsLeft' < StepsLeft]_vars
<1> DEFINE Lowers == ~ interactive => UNCHANGED agent \/ StepsLeft' < StepsLeft
<1>1. Init => Unattended
  BY DEF Init, Unattended
<1>2. TypeOK /\ Unattended /\ [Next]_vars => Unattended' /\ [Lowers]_vars
  BY AgentLowers
<1>3. TypeOK => StepsLeft \in 0..(4 * RepairAttempts + 7)
  BY StepsAreCounted
<1>4. QED
  BY <1>1, <1>2, <1>3, SessionTypes, PTL DEF Spec
=============================================================================

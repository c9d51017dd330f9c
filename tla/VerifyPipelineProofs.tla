------------------------ MODULE VerifyPipelineProofs ------------------------
(***************************************************************************)
(* For every number of cases, every set of engine values and every         *)
(* request: the verify pipeline is type correct, "matched" is earned, and  *)
(* every step it takes is a step of the VerdictContract or a stutter.  And *)
(* every step lowers StepsLeft, so that no invocation goes on for ever.    *)
(***************************************************************************)
EXTENDS VerifyPipeline, TLAPS, SequenceTheorems

USE NumCasesAssumption, ValuesAssumption, NoReplyAssumption

(***************************************************************************)
(* The inductive invariant.  ControlInv says which stages have been passed *)
(* where the parent stands, WorkerInv that a live worker belongs to the    *)
(* case the loop is at and holds no reply but that case's, LoopInv that    *)
(* the two lists account for the cases visited, VerdictInv what each       *)
(* verdict stands for.                                                     *)
(***************************************************************************)
Judging == request.cmd \in {"verify", "result"}

ControlInv ==
  /\ pc \notin {"main", "done", "killed"} => request.ingress = "ok"
  /\ pc = "samples"  => Judging \/ request.cmd = "check-samples"
  /\ pc = "validate" => request.cmd = "validate" \/ (Judging /\ request.samples = "ok")
  /\ pc \in {"dry_run", "wait", "reap"} =>
       request.cmd = "dry-run" \/ (Judging /\ Runnable(request))
  /\ pc = "match"    => Judging /\ Runnable(request)
  /\ pc = "emit"     => Judging
  /\ pc \notin {"done", "killed"} => stdout = <<>> /\ exit = Running
  /\ pc = "killed"   => stdout = <<>> /\ exit = Signalled

WorkerInv ==
  /\ pc \notin {"wait", "reap", "killed"} => worker = NoWorker
  /\ pc = "wait" => worker.state \in {"running", "answered", "exited"}
  /\ pc = "reap" => worker.state \in {"killed", "exited"}
  /\ pc \in {"wait", "reap"} => next <= LastCase /\ request.outcome[next] # "unsendable"
  /\ worker # NoWorker => next <= NumCases
                          /\ (request.cmd = "dry-run" \/ Runnable(request))
  /\ worker.reply # NoReply => worker.reply = request.outcome[next]

LoopInv ==
  /\ Len(results) + Len(errors) = next - 1
  /\ next <= LastCase + 1
  /\ pc \in {"main", "samples", "validate"} => next = 1
  /\ \A k \in 1..(next - 1) : request.outcome[k] # "unsendable"
  /\ errors = <<>> => \A k \in 1..Len(results) : results[k] = request.outcome[k]
  /\ \A k \in 1..Len(errors) : errors[k].case < next
  /\ \A j, k \in 1..Len(errors) : j < k => errors[j].case < errors[k].case

VerdictInv ==
  /\ pc \notin {"emit", "done", "killed"} => verdict = NoVerdict
  /\ pc = "emit" => verdict # NoVerdict
  /\ verdict = "samples"  => request.samples = "rejected"
  /\ verdict = "validate" => request.samples = "ok" /\ ~ request.valid
  /\ verdict \in {"dry_run", "match", "matched"} =>
       Runnable(request) /\ next = NumCases + 1
  /\ pc = "match" \/ verdict \in {"match", "matched"} =>
       errors = <<>> /\ next = NumCases + 1
  /\ verdict = "match"   => Mismatches # {}
  /\ verdict = "matched" => Mismatches = {}

IInv == TypeOK /\ ControlInv /\ WorkerInv /\ LoopInv /\ VerdictInv /\ ErrorsAreHonest

-----------------------------------------------------------------------------
(***************************************************************************)
(* Facts about sequences used below.                                       *)
(***************************************************************************)
LEMMA OneDocument ==
  /\ \A d : <<>> \o <<d>> = <<d>>
  /\ <<>> \o <<>> = <<>>
OBVIOUS

\* What the ways to end print is made of documents.
LEMMA DocumentsPrinted ==
  ASSUME NEW answer, stdout = <<>>, Finish(answer),
         \/ answer \in {UsageError, InternalError}
         \/ \E status \in {"profile-rejected", "schema-error"} :
              answer = Answer(CliError(status), 2)
         \/ \E kind \in {"SampleCheck", "Debug"}, ok \in BOOLEAN : answer = Judged(kind, ok)
         \/ \E cmd \in Commands, v \in Stages \cup {"matched"} : answer = Reported(cmd, v)
  PROVE  stdout' \in Seq(Document)
<1>1. answer.docs = <<>> \/ \E d \in Document : answer.docs = <<d>>
  <2>1. ASSUME NEW d \in Document, NEW code, answer = Answer(d, code)
        PROVE  answer.docs = <<d>>
    BY <2>1 DEF Answer
  <2>2. CASE answer = UsageError
    BY <2>2 DEF UsageError
  <2>3. CASE answer = InternalError
    BY <2>1, <2>3 DEF InternalError, CliError, Doc, Document
  <2>4. ASSUME NEW status \in {"profile-rejected", "schema-error"},
               answer = Answer(CliError(status), 2)
        PROVE  \E d \in Document : answer.docs = <<d>>
    BY <2>1, <2>4 DEF CliError, Doc, Document
  <2>5. ASSUME NEW kind \in {"SampleCheck", "Debug"}, NEW ok \in BOOLEAN,
               answer = Judged(kind, ok)
        PROVE  \E d \in Document : answer.docs = <<d>>
    BY <2>1, <2>5 DEF Judged, Doc, Document
  <2>6. ASSUME NEW cmd \in Commands, NEW v \in Stages \cup {"matched"},
               answer = Reported(cmd, v)
        PROVE  \E d \in Document : answer.docs = <<d>>
    <3>1. Doc("Verdict", v) \in Document /\ Doc("AuthoringResult", ResultStatus(v)) \in Document
      BY DEF Doc, Document, ResultStatus
    <3>2. QED
      BY <2>1, <2>6, <3>1 DEF Reported
  <2>7. QED
    BY <2>2, <2>3, <2>4, <2>5, <2>6
<1>2. CASE answer.docs = <<>>
  BY <1>2, OneDocument DEF Finish
<1>3. ASSUME NEW d \in Document, answer.docs = <<d>>
      PROVE  stdout' \in Seq(Document)
  <2>1. stdout' = <<d>>
    BY <1>3, OneDocument DEF Finish
  <2>2. QED
    BY <2>1
<1>4. QED
  BY <1>1, <1>2, <1>3

\* Appending to one of the two lists of the loop.
LEMMA AppendFacts ==
  ASSUME NEW S, NEW s \in Seq(S), NEW x \in S
  PROVE  /\ Append(s, x) \in Seq(S)
         /\ Len(Append(s, x)) = Len(s) + 1
         /\ \A k \in 1..Len(s) : Append(s, x)[k] = s[k]
         /\ Append(s, x)[Len(s) + 1] = x
         /\ Append(s, x) # <<>>
OBVIOUS

-----------------------------------------------------------------------------
\* Before the process has been started.
THEOREM InitIInv == Init => IInv
<1> SUFFICES ASSUME Init PROVE IInv
  OBVIOUS
<1> USE DEF Init, Start
<1>1. TypeOK
  BY DEF TypeOK, Labels, Worker, WorkerStates, NoWorker, NoVerdict, Running
<1>2. ControlInv /\ WorkerInv /\ VerdictInv
  BY DEF ControlInv, WorkerInv, VerdictInv, NoWorker, Mismatches, NoVerdict
<1>3. LoopInv
  <2>1. LastCase \in Nat \ {0}
    BY DEF LastCase
  <2>2. QED
    BY <2>1 DEF LoopInv
<1>4. ErrorsAreHonest
  BY DEF ErrorsAreHonest
<1>5. QED
  BY <1>1, <1>2, <1>3, <1>4 DEF IInv

-----------------------------------------------------------------------------
(***************************************************************************)
(* Steps that only move the parent between stages or end the process: the  *)
(* lists, the loop index and the worker stay as they are.                  *)
(***************************************************************************)
LEMMA IngressSteps ==
  ASSUME IInv, RejectUsage \/ RejectIngress \/ Dispatch
  PROVE  IInv'
<1> USE DEF IInv, RejectUsage, RejectIngress, Dispatch, Finish, FirstStage
<1>1. /\ UNCHANGED <<request, next, worker, results, errors, verdict>>
      /\ pc' \in {"done", "samples", "validate", "dry_run"}
      /\ pc' = "done" => exit' = 2
      /\ pc' # "done" => request.ingress = "ok" /\ UNCHANGED <<stdout, exit>>
      /\ pc' = "samples" => request.cmd \in {"check-samples", "verify", "result"}
      /\ pc' = "validate" => request.cmd = "validate"
      /\ pc' = "dry_run" => request.cmd = "dry-run"
      /\ pc = "main" /\ next = 1 /\ verdict = NoVerdict
      /\ stdout = <<>> /\ exit = Running /\ worker = NoWorker
  BY DEF TypeOK, Request, Commands, Answer, UsageError, ControlInv, WorkerInv, LoopInv,
         VerdictInv
<1>2. TypeOK'
  <2>1. pc' = "done" => stdout' \in Seq(Document)
    BY <1>1, DocumentsPrinted DEF FirstStage
  <2>2. QED
    BY <1>1, <2>1 DEF TypeOK, Labels, Running
<1>3. ControlInv'
  BY <1>1 DEF ControlInv, Judging
<1>4. WorkerInv'
  BY <1>1 DEF WorkerInv, NoWorker
<1>5. LoopInv'
  BY <1>1 DEF LoopInv, LastCase
<1>6. VerdictInv'
  BY <1>1 DEF VerdictInv, NoVerdict
<1>7. ErrorsAreHonest'
  BY <1>1 DEF ErrorsAreHonest
<1>8. QED
  BY <1>2, <1>3, <1>4, <1>5, <1>6, <1>7

\* The stages before the first worker.
LEMMA StageSteps ==
  ASSUME IInv, SamplesStage \/ ValidateStage
  PROVE  IInv'
<1> USE DEF IInv, SamplesStage, ValidateStage, Finish, Return
<1>1. /\ UNCHANGED <<request, next, worker, results, errors>>
      /\ next = 1 /\ worker = NoWorker /\ request.ingress = "ok"
      /\ pc' \in {"done", "validate", "dry_run", "emit"}
      /\ pc' = "done" => exit' \in {0, 1, 3} /\ verdict' = NoVerdict
      /\ pc' # "done" => UNCHANGED <<stdout, exit>> /\ stdout = <<>> /\ exit = Running
      /\ pc' = "validate" => Judging /\ request.samples = "ok" /\ verdict' = NoVerdict
      /\ pc' = "dry_run" => Judging /\ Runnable(request) /\ verdict' = NoVerdict
      /\ pc' = "emit" => \/ Judging /\ request.samples = "rejected" /\ verdict' = "samples"
                         \/ /\ Judging /\ request.samples = "ok" /\ ~ request.valid
                            /\ verdict' = "validate"
  BY DEF TypeOK, Request, SampleAnswers, Escape, InternalError, Judged, Answer, ControlInv, WorkerInv, LoopInv, VerdictInv,
         Judging, Runnable
<1>2. TypeOK'
  <2>1. pc' = "done" => stdout' \in Seq(Document)
    <3>1. stdout = <<>> /\ request.valid \in BOOLEAN
      BY DEF ControlInv, TypeOK, Request
    <3>2. QED
      BY <3>1, DocumentsPrinted DEF Escape
  <2>2. QED
    BY <1>1, <2>1 DEF TypeOK, Labels, Stages
<1>3. ControlInv'
  BY <1>1 DEF ControlInv, Judging
<1>4. WorkerInv'
  BY <1>1 DEF WorkerInv, NoWorker
<1>5. LoopInv'
  BY <1>1 DEF LoopInv, LastCase
<1>6. VerdictInv'
  BY <1>1 DEF VerdictInv, NoVerdict
<1>7. ErrorsAreHonest'
  BY <1>1 DEF ErrorsAreHonest
<1>8. QED
  BY <1>2, <1>3, <1>4, <1>5, <1>6, <1>7

(***************************************************************************)
(* The dry_run loop.                                                       *)
(***************************************************************************)
LEMMA LastCaseFacts ==
  ASSUME TypeOK
  PROVE  LastCase \in 1..NumCases /\ (request.cmd # "dry-run" => LastCase = NumCases)
BY DEF LastCase

\* A worker that is started belongs to the current case and has answered nothing.
LEMMA SpawnStep ==
  ASSUME IInv, Spawn
  PROVE  IInv'
<1> USE DEF IInv
<1>1. /\ UNCHANGED <<request, next, results, errors, verdict, stdout, exit>>
      /\ pc = "dry_run" /\ pc' = "wait"
      /\ worker' = Started
      /\ next <= LastCase /\ LastCase \in 1..NumCases
      /\ request.outcome[next] # "unsendable"
  BY LastCaseFacts DEF Spawn, MoreCases
<1>2. Started \in Worker /\ Started.state = "running" /\ Started.reply = NoReply
  BY DEF Started, Worker, WorkerStates
<1>3. TypeOK'
  BY <1>1, <1>2 DEF TypeOK, Labels
<1>4. ControlInv'
  BY <1>1 DEF ControlInv, Judging, Runnable
<1>5. WorkerInv'
  BY <1>1, <1>2 DEF WorkerInv, LastCase, TypeOK, ControlInv, Judging, Runnable
<1>6. LoopInv'
  BY <1>1 DEF LoopInv, LastCase
<1>7. VerdictInv'
  BY <1>1 DEF VerdictInv, NoVerdict, Mismatches
<1>8. ErrorsAreHonest'
  BY <1>1 DEF ErrorsAreHonest
<1>9. QED
  BY <1>3, <1>4, <1>5, <1>6, <1>7, <1>8

\* The clock runs out: what the worker says afterwards is not taken.
LEMMA TimeOutStep ==
  ASSUME IInv, TimeOut
  PROVE  IInv'
<1> USE DEF IInv, TimeOut
<1>1. /\ UNCHANGED <<request, next, results, errors, verdict, stdout, exit>>
      /\ pc = "wait" /\ pc' = "reap"
      /\ worker' \in Worker /\ worker'.state \in {"killed", "exited"}
      /\ worker'.reply = worker.reply
      /\ next <= LastCase /\ LastCase \in 1..NumCases
  BY LastCaseFacts DEF TypeOK, Worker, WorkerStates, WorkerInv
<1>2. TypeOK'
  BY <1>1 DEF TypeOK, Labels
<1>3. ControlInv'
  BY <1>1 DEF ControlInv, Judging, Runnable
<1>4. WorkerInv'
  BY <1>1 DEF WorkerInv, NoWorker, LastCase, TypeOK, ControlInv, Judging, Runnable
<1>5. LoopInv'
  BY <1>1 DEF LoopInv, LastCase
<1>6. VerdictInv'
  BY <1>1 DEF VerdictInv, NoVerdict
<1>7. ErrorsAreHonest'
  BY <1>1 DEF ErrorsAreHonest
<1>8. QED
  BY <1>2, <1>3, <1>4, <1>5, <1>6, <1>7

\* The worker answers for its own case, dies, or says nothing.
LEMMA WorkerStep ==
  ASSUME IInv, WorkerSteps \/ WorkerStopped
  PROVE  IInv'
<1> USE DEF IInv, WorkerSteps, WorkerStopped, WorkerAnswers, WorkerExits, WorkerCrashes,
            WorkerMoves
<1>1. /\ UNCHANGED <<request, pc, next, results, errors, verdict, stdout, exit>>
      /\ worker # NoWorker /\ pc \in {"wait", "killed"}
      /\ next <= NumCases
      /\ worker'.state \in {"answered", "exited"}
      /\ worker'.code \in {0, 1}
      /\ worker' = [state |-> worker'.state, reply |-> worker'.reply, code |-> worker'.code]
      /\ worker'.reply # NoReply => worker'.reply = request.outcome[next]
  BY DEF TypeOK, Worker, WorkerInv, NoWorker
<1>2. request.outcome[next] \in Outcomes
  BY <1>1 DEF TypeOK, Request
<1>3. TypeOK'
  BY <1>1, <1>2 DEF TypeOK, Labels, Worker, WorkerStates
<1>4. ControlInv'
  BY <1>1 DEF ControlInv, Judging, Runnable
<1>5. WorkerInv'
  BY <1>1 DEF WorkerInv, NoWorker, LastCase, Runnable
<1>6. LoopInv'
  BY <1>1 DEF LoopInv, LastCase
<1>7. VerdictInv'
  BY <1>1 DEF VerdictInv, NoVerdict, Mismatches
<1>8. ErrorsAreHonest'
  BY <1>1 DEF ErrorsAreHonest
<1>9. QED
  BY <1>3, <1>4, <1>5, <1>6, <1>7, <1>8

\* The four parts of IInv a step that ends the process has to keep.
LEMMA EndSteps ==
  ASSUME IInv, CannotSend \/ DryRunDone \/ Emit \/ ParentKilled
  PROVE  IInv'
<1> USE DEF IInv, CannotSend, DryRunDone, Emit, ParentKilled, Escape, InternalError,
            Finish, Return
<1>1. /\ UNCHANGED <<request, next, worker, results, errors>>
      /\ pc \notin {"done", "killed"}
      /\ pc' \in {"done", "killed", "emit", "match"}
      /\ pc' = "done" => exit' \in {0, 1, 3} /\ worker = NoWorker /\ verdict' = verdict
      /\ pc' = "killed" => exit' = Signalled /\ UNCHANGED <<stdout, verdict>>
      /\ pc' \in {"emit", "match"} => /\ pc = "dry_run" /\ next = LastCase + 1
                                      /\ Judging /\ UNCHANGED <<stdout, exit>>
      /\ pc' = "emit" => verdict' = "dry_run"
      /\ pc' = "match" => verdict' = verdict /\ errors = <<>>
  <2>1. DryRunDone => next = LastCase + 1
    BY LastCaseFacts DEF MoreCases, LoopInv, TypeOK
  <2>2. DryRunDone /\ pc' \in {"emit", "match"} => Judging
    BY DEF ControlInv
  <2>3. QED
    BY <2>1, <2>2 DEF Judged, Answer, Reported, WorkerInv
<1>2. pc' \in {"emit", "match"} => /\ Runnable(request) /\ next = NumCases + 1
                                   /\ verdict = NoVerdict
  BY <1>1, LastCaseFacts DEF ControlInv, VerdictInv, Judging
<1>3. TypeOK'
  <2>1. pc' = "done" => stdout' \in Seq(Document)
    <3>1. stdout = <<>>
      BY <1>1 DEF ControlInv
    <3>2. CASE Emit
      <4>1. request.cmd \in Commands /\ verdict \in Stages \cup {"matched"}
        BY <3>2 DEF TypeOK, Request, VerdictInv
      <4>2. QED
        BY <3>1, <3>2, <4>1, DocumentsPrinted
    <3>3. CASE CannotSend
      BY <3>1, <3>3, DocumentsPrinted
    <3>4. CASE DryRunDone
      <4>1. (errors = <<>>) \in BOOLEAN
        OBVIOUS
      <4>2. QED
        BY <3>1, <3>4, <4>1, DocumentsPrinted
    <3>5. QED
      BY <3>2, <3>3, <3>4
  <2>2. QED
    BY <1>1, <2>1 DEF TypeOK, Labels, Stages
<1>4. ControlInv'
  BY <1>1, <1>2 DEF ControlInv, Judging
<1>5. WorkerInv'
  BY <1>1 DEF WorkerInv, LastCase
<1>6. LoopInv'
  BY <1>1 DEF LoopInv, LastCase
<1>7. VerdictInv'
  BY <1>1, <1>2 DEF VerdictInv, NoVerdict, Mismatches
<1>8. ErrorsAreHonest'
  BY <1>1 DEF ErrorsAreHonest
<1>9. QED
  BY <1>3, <1>4, <1>5, <1>6, <1>7, <1>8

\* The match stage finds a result of its own for every case.
LEMMA MatchStep ==
  ASSUME IInv, MatchStage
  PROVE  IInv'
<1> USE DEF IInv
<1>1. /\ UNCHANGED <<request, next, worker, results, errors>>
      /\ pc = "match" /\ Judging /\ Runnable(request) /\ worker = NoWorker
      /\ errors = <<>> /\ next = NumCases + 1 /\ Len(results) = NumCases
  BY DEF MatchStage, ControlInv, WorkerInv, VerdictInv, LoopInv, TypeOK
<1>2. /\ pc' = "emit" /\ UNCHANGED <<stdout, exit>>
      /\ \/ verdict' = "matched" /\ Mismatches = {}
         \/ verdict' = "match" /\ Mismatches # {}
  BY <1>1 DEF MatchStage, Return
<1>3. TypeOK'
  BY <1>1, <1>2 DEF TypeOK, Labels, Stages
<1>4. ControlInv'
  BY <1>1, <1>2 DEF ControlInv, Judging
<1>5. WorkerInv'
  BY <1>1, <1>2 DEF WorkerInv, LastCase
<1>6. LoopInv'
  BY <1>1, <1>2 DEF LoopInv, LastCase
<1>7. VerdictInv'
  BY <1>1, <1>2 DEF VerdictInv, NoVerdict, Mismatches
<1>8. ErrorsAreHonest'
  BY <1>1 DEF ErrorsAreHonest
<1>9. QED
  BY <1>3, <1>4, <1>5, <1>6, <1>7, <1>8

(***************************************************************************)
(* One round of the loop ends: the case failed with error e, or succeeded. *)
(***************************************************************************)
\* What an entry about case k may say.
Honest(k, e) == e.engine => /\ request.outcome[k] \in EngineFaults
                            /\ e.type = "DefinitionError" <=>
                                 request.outcome[k] = "DefinitionError"

\* What the end of a round clears, and what it leaves as it was.
LEMMA RoundFacts ==
  ASSUME IInv, pc \in {"wait", "reap"}, NextCase
  PROVE  /\ UNCHANGED <<request, verdict, stdout, exit>>
         /\ worker' = NoWorker /\ next' = next + 1 /\ pc' = "dry_run"
         /\ next \in 1..NumCases /\ next + 1 \in 1..(NumCases + 1)
         /\ next <= LastCase /\ LastCase' = LastCase
         /\ request.outcome[next] # "unsendable"
         /\ verdict = NoVerdict
         /\ ControlInv' /\ WorkerInv' /\ VerdictInv'
<1>1. /\ UNCHANGED <<request, verdict, stdout, exit>>
      /\ worker' = NoWorker /\ next' = next + 1 /\ pc' = "dry_run"
  BY DEF NextCase
<1>2. /\ next \in 1..NumCases /\ next + 1 \in 1..(NumCases + 1)
      /\ next <= LastCase /\ LastCase' = LastCase
      /\ request.outcome[next] # "unsendable"
  BY <1>1, LastCaseFacts DEF IInv, TypeOK, WorkerInv, LastCase
<1>3. verdict = NoVerdict
  BY DEF IInv, VerdictInv
<1>4. ControlInv'
  BY <1>1 DEF IInv, ControlInv, Judging
<1>5. WorkerInv'
  BY <1>1 DEF WorkerInv, NoWorker
<1>6. VerdictInv'
  BY <1>1, <1>3 DEF VerdictInv, NoVerdict
<1>7. QED
  BY <1>1, <1>2, <1>3, <1>4, <1>5, <1>6

\* A round that fails adds one error.
LEMMA FailedRound ==
  ASSUME IInv, pc \in {"wait", "reap"}, NextCase,
         NEW e \in Error, Honest(next, e), RecordFailure(e)
  PROVE  IInv'
<1> DEFINE entry == [case |-> next, error |-> e]
<1>1. /\ UNCHANGED <<request, verdict, stdout, exit, results>>
      /\ worker' = NoWorker /\ next' = next + 1 /\ pc' = "dry_run"
      /\ next \in 1..NumCases /\ next + 1 \in 1..(NumCases + 1)
      /\ next <= LastCase /\ LastCase' = LastCase
      /\ request.outcome[next] # "unsendable"
      /\ errors' = Append(errors, entry)
  BY RoundFacts DEF RecordFailure
<1>2. entry \in CaseError
  BY <1>1 DEF CaseError
<1>3. errors \in Seq(CaseError) /\ results \in Seq(Values)
  BY DEF IInv, TypeOK
<1>4. /\ errors' \in Seq(CaseError)
      /\ Len(errors') = Len(errors) + 1
      /\ \A k \in 1..Len(errors) : errors'[k] = errors[k]
      /\ errors'[Len(errors) + 1] = entry
      /\ errors' # <<>>
  <2> HIDE DEF entry
  <2> QED
    BY <1>1, <1>2, <1>3, AppendFacts
<1>5. TypeOK'
  BY <1>1, <1>3, <1>4 DEF IInv, TypeOK, Labels, Worker, WorkerStates, NoWorker
<1>6. LoopInv'
  <2> DEFINE n == Len(errors)
  <2>1. n \in Nat /\ Len(results) \in Nat /\ next \in Nat /\ LastCase \in Nat
    BY <1>1, <1>3, LastCaseFacts DEF IInv
  <2>2. Len(results) + n = next - 1
    BY DEF IInv, LoopInv
  <2>3. \A k \in 1..(next' - 1) : request.outcome[k] # "unsendable"
    <3>1. \A k \in 1..(next - 1) : request.outcome[k] # "unsendable"
      BY DEF IInv, LoopInv
    <3>2. \A k \in 1..(next' - 1) : k \in 1..(next - 1) \/ k = next
      BY <1>1, <2>1
    <3>3. QED
      BY <1>1, <3>1, <3>2
  <2>4. \A k \in 1..(n + 1) : errors'[k].case < next'
    <3>1. \A k \in 1..n : errors'[k].case < next /\ errors'[k].case \in 1..NumCases
      <4>1. \A k \in 1..n : errors[k].case < next
        BY DEF IInv, LoopInv
      <4>2. \A k \in 1..n : errors[k].case \in 1..NumCases
        <5>1. \A k \in 1..n : errors[k] \in CaseError
          BY <1>3
        <5>2. \A x \in CaseError : x.case \in 1..NumCases
          BY DEF CaseError
        <5>3. QED
          BY <5>1, <5>2
      <4>3. QED
        BY <1>4, <4>1, <4>2
    <3>2. errors'[n + 1].case = next
      BY <1>4
    <3>3. \A k \in 1..(n + 1) : k \in 1..n \/ k = n + 1
      BY <2>1
    <3>4. QED
      BY <1>1, <2>1, <3>1, <3>2, <3>3
  <2>5. \A j, k \in 1..(n + 1) : j < k => errors'[j].case < errors'[k].case
    <3>1. SUFFICES ASSUME NEW j \in 1..(n + 1), NEW k \in 1..(n + 1), j < k
                   PROVE  errors'[j].case < errors'[k].case
      OBVIOUS
    <3>2. j \in 1..n /\ errors'[j] = errors[j]
      BY <1>4, <2>1, <3>1
    <3>3. CASE k = n + 1
      <4>1. errors[j].case < next
        BY <3>2 DEF IInv, LoopInv
      <4>2. QED
        BY <1>4, <3>2, <3>3, <4>1
    <3>4. CASE k \in 1..n
      <4>1. errors[j].case < errors[k].case
        BY <3>1, <3>2, <3>4 DEF IInv, LoopInv
      <4>2. QED
        BY <1>4, <3>2, <3>4, <4>1
    <3>5. QED
      BY <2>1, <3>3, <3>4
  <2>6. /\ Len(results') + Len(errors') = next' - 1
        /\ next' <= LastCase' + 1
        /\ pc' = "dry_run"
    BY <1>1, <1>4, <2>1, <2>2
  <2>7. /\ errors' # <<>>
        /\ \A k \in 1..(next' - 1) : request'.outcome[k] # "unsendable"
    BY <1>1, <1>4, <2>3
  <2>8. /\ \A k \in 1..Len(errors') : errors'[k].case < next'
        /\ \A j, k \in 1..Len(errors') : j < k => errors'[j].case < errors'[k].case
    BY <1>4, <2>4, <2>5
  <2>9. QED
    BY <2>6, <2>7, <2>8 DEF LoopInv
<1>7. ErrorsAreHonest'
  <2>1. SUFFICES ASSUME NEW k \in 1..(Len(errors) + 1)
                 PROVE  LET o == request.outcome[errors'[k].case] IN
                        errors'[k].error.engine =>
                          /\ o \in EngineFaults
                          /\ errors'[k].error.type = "DefinitionError" <=>
                               o = "DefinitionError"
    BY <1>1, <1>4 DEF ErrorsAreHonest
  <2>2. CASE k = Len(errors) + 1
    BY <1>4, <2>2 DEF Honest
  <2>3. CASE k \in 1..Len(errors)
    BY <1>4, <2>3 DEF IInv, ErrorsAreHonest
  <2>4. QED
    BY <1>3, <2>1, <2>2, <2>3
<1>8. QED
  BY <1>5, <1>6, <1>7, RoundFacts DEF IInv

\* A round that succeeds adds one result, that of its case.
LEMMA SucceededRound ==
  ASSUME IInv, pc \in {"wait", "reap"}, NextCase,
         NEW v \in Values, v = request.outcome[next], RecordSuccess(v)
  PROVE  IInv'
<1>1. /\ UNCHANGED <<request, verdict, stdout, exit, errors>>
      /\ worker' = NoWorker /\ next' = next + 1 /\ pc' = "dry_run"
      /\ next \in 1..NumCases /\ next + 1 \in 1..(NumCases + 1)
      /\ next <= LastCase /\ LastCase' = LastCase
      /\ request.outcome[next] # "unsendable"
      /\ results' = Append(results, v)
  BY RoundFacts DEF RecordSuccess
<1>2. errors \in Seq(CaseError) /\ results \in Seq(Values)
  BY DEF IInv, TypeOK
<1>3. /\ results' \in Seq(Values)
      /\ Len(results') = Len(results) + 1
      /\ \A k \in 1..Len(results) : results'[k] = results[k]
      /\ results'[Len(results) + 1] = v
  BY <1>1, <1>2, AppendFacts
<1>4. TypeOK'
  BY <1>1, <1>2, <1>3 DEF IInv, TypeOK, Labels, Worker, WorkerStates, NoWorker
<1>5. LoopInv'
  <2>1. Len(errors) \in Nat /\ Len(results) \in Nat /\ next \in Nat /\ LastCase \in Nat
    BY <1>1, <1>2, LastCaseFacts DEF IInv
  <2>2. Len(results) + Len(errors) = next - 1
    BY DEF IInv, LoopInv
  <2>3. \A k \in 1..(next' - 1) : request.outcome[k] # "unsendable"
    <3>1. \A k \in 1..(next - 1) : request.outcome[k] # "unsendable"
      BY DEF IInv, LoopInv
    <3>2. \A k \in 1..(next' - 1) : k \in 1..(next - 1) \/ k = next
      BY <1>1, <2>1
    <3>3. QED
      BY <1>1, <3>1, <3>2
  <2>4. errors = <<>> =>
          \A k \in 1..(Len(results) + 1) : results'[k] = request.outcome[k]
    BY <1>2, <1>3, <2>1, <2>2 DEF IInv, LoopInv
  <2>5. \A k \in 1..Len(errors) : errors[k].case < next + 1
    <3>1. \A k \in 1..Len(errors) : errors[k] \in CaseError /\ errors[k].case < next
      BY <1>2 DEF IInv, LoopInv
    <3>2. QED
      BY <2>1, <3>1 DEF CaseError
  <2>6. /\ \A j, k \in 1..Len(errors) : j < k => errors[j].case < errors[k].case
        /\ next + 1 <= LastCase + 1
        /\ Len(results) + 1 + Len(errors) = (next + 1) - 1
    <3>1. \A j, k \in 1..Len(errors) : j < k => errors[j].case < errors[k].case
      BY DEF LoopInv, IInv
    <3>2. /\ next + 1 <= LastCase + 1
          /\ Len(results) + 1 + Len(errors) = (next + 1) - 1
      BY <1>1, <2>1, <2>2
    <3>3. QED
      BY <3>1, <3>2
  <2>7. /\ Len(results') + Len(errors') = next' - 1
        /\ next' <= LastCase' + 1
        /\ pc' = "dry_run"
    BY <1>1, <1>3, <2>6
  <2>8. /\ errors' = <<>> => \A k \in 1..Len(results') : results'[k] = request'.outcome[k]
        /\ \A k \in 1..(next' - 1) : request'.outcome[k] # "unsendable"
    BY <1>1, <1>3, <2>3, <2>4
  <2>9. /\ \A k \in 1..Len(errors') : errors'[k].case < next'
        /\ \A j, k \in 1..Len(errors') : j < k => errors'[j].case < errors'[k].case
    BY <1>1, <2>5, <2>6
  <2>10. QED
    BY <2>7, <2>8, <2>9 DEF LoopInv
<1>6. ErrorsAreHonest'
  BY <1>1 DEF IInv, ErrorsAreHonest
<1>7. QED
  BY <1>4, <1>5, <1>6, RoundFacts DEF IInv

\* A round ends when the worker is collected or reaped.
LEMMA RoundSteps ==
  ASSUME IInv, Collect \/ Reap
  PROVE  IInv'
<1> USE DEF StableError, EngineError, Error, ErrorTypes
<1>1. CASE Reap
  <2>1. StableError("TimeoutError") \in Error /\ Honest(next, StableError("TimeoutError"))
    BY DEF Honest
  <2>2. QED
    BY <1>1, <2>1, FailedRound DEF Reap
<1>2. CASE Collect /\ Succeeded(worker)
  <2>1. worker.reply \in Values /\ worker.reply # NoReply
    BY <1>2 DEF Succeeded, Outcomes
  <2>2. worker.reply = request.outcome[next]
    BY <2>1 DEF IInv, WorkerInv
  <2>3. QED
    BY <1>2, <2>1, <2>2, SucceededRound DEF Collect
<1>3. CASE Collect /\ ~ Succeeded(worker)
  <2> DEFINE e == Failure(worker)
  <2>1. e \in Error
    BY DEF Failure, ReplyError
  <2>2. e.engine => /\ worker.reply \in EngineFaults
                    /\ e.type = "DefinitionError" <=> worker.reply = "DefinitionError"
    BY DEF Failure, ReplyError, EngineFaults
  <2>3. worker.reply \in EngineFaults => worker.reply = request.outcome[next]
    BY DEF IInv, WorkerInv, Outcomes, Faults
  <2>4. Honest(next, e)
    BY <2>2, <2>3 DEF Honest
  <2> HIDE DEF e
  <2>5. RecordFailure(e) /\ NextCase /\ pc = "wait"
    BY <1>3 DEF Collect, e
  <2>6. QED
    BY <2>1, <2>4, <2>5, FailedRound
<1>4. QED
  BY <1>1, <1>2, <1>3

-----------------------------------------------------------------------------
\* Every step of parent, worker and clock, and every stutter.
THEOREM StepIInv == IInv /\ [Next]_vars => IInv'
<1> SUFFICES ASSUME IInv, [Next]_vars PROVE IInv'
  OBVIOUS
<1>1. CASE Parent
  BY <1>1, IngressSteps, StageSteps, EndSteps, SpawnStep, RoundSteps, MatchStep
     DEF Parent
<1>2. CASE TimeOut
  BY <1>2, TimeOutStep
<1>3. CASE WorkerSteps \/ WorkerStopped
  BY <1>3, WorkerStep
<1>4. CASE ParentKilled
  BY <1>4, EndSteps
<1>5. CASE UNCHANGED vars
  BY <1>5 DEF vars, IInv, TypeOK, ControlInv, WorkerInv, LoopInv, VerdictInv,
              ErrorsAreHonest, Judging, LastCase, Mismatches
<1>6. QED
  BY <1>1, <1>2, <1>3, <1>4, <1>5 DEF Next

\* The invariant holds throughout.
THEOREM InvariantHolds == Spec => []IInv
<1>1. QED
  BY InitIInv, StepIInv, PTL DEF Spec

\* The pipeline is type correct, for any number of cases.
THEOREM TypeCorrect == Spec => []TypeOK
<1>1. IInv => TypeOK
  BY DEF IInv
<1>2. QED
  BY <1>1, InvariantHolds, PTL

\* "matched" is returned only for a request whose every stage truly passes.
THEOREM SuccessIsEarned == Spec => []MatchedIsEarned
<1>1. IInv => MatchedIsEarned
  <2> SUFFICES ASSUME IInv, verdict = "matched" PROVE Earned(request)
    BY DEF MatchedIsEarned
  <2>1. /\ Runnable(request) /\ Len(results) = NumCases /\ Mismatches = {}
        /\ \A k \in 1..Len(results) : results[k] = request.outcome[k]
    BY DEF IInv, VerdictInv, LoopInv, TypeOK
  <2>2. \A k \in 1..NumCases : results[k] \in Values /\ results[k] = request.expected[k]
    BY <2>1 DEF IInv, TypeOK, Mismatches
  <2>3. QED
    BY <2>1, <2>2 DEF Earned, AllValues, Agrees
<1>2. QED
  BY <1>1, InvariantHolds, PTL

\* No worker exists for verify or result before both gates were passed.
THEOREM NoExecutionOnReject == Spec => []EngineGated
<1>1. IInv => EngineGated
  BY DEF IInv, EngineGated, WorkerInv
<1>2. QED
  BY <1>1, InvariantHolds, PTL

\* A parent that ended on its own has reaped every worker it started.
THEOREM NoWorkerLingers == Spec => []NothingLingers
<1>1. IInv => NothingLingers
  BY DEF IInv, NothingLingers, WorkerInv
<1>2. QED
  BY <1>1, InvariantHolds, PTL

\* A failed dry_run stage accounts for every case, in document order.
THEOREM EveryCaseAccounted == Spec => []CasesAccounted
<1>1. IInv => CasesAccounted
  <2> SUFFICES ASSUME IInv, verdict = "dry_run"
               PROVE  /\ Len(results) + Len(errors) = NumCases
                      /\ \A j, k \in 1..Len(errors) : j < k => errors[j].case < errors[k].case
    BY DEF CasesAccounted
  <2>1. LoopInv /\ VerdictInv
    BY DEF IInv
  <2>2. Len(results) + Len(errors) = NumCases
    <3>1. Len(results) + Len(errors) = next - 1
      BY <2>1 DEF LoopInv
    <3>2. next = NumCases + 1
      BY <2>1 DEF VerdictInv
    <3>3. QED
      BY <3>1, <3>2
  <2>3. QED
    BY <2>1, <2>2 DEF LoopInv
<1>2. QED
  BY <1>1, InvariantHolds, PTL

\* Only what the engine really raised is reported as raised by the engine.
THEOREM HonestErrors == Spec => []ErrorsAreHonest
<1>1. IInv => ErrorsAreHonest
  BY DEF IInv
<1>2. QED
  BY <1>1, InvariantHolds, PTL

-----------------------------------------------------------------------------
(***************************************************************************)
(* Refinement: every step that ends the process gives a permitted answer.  *)
(***************************************************************************)
LEMMA RejectionsPermitted ==
  ASSUME IInv, RejectUsage \/ RejectIngress \/ ParentKilled
  PROVE  Shown' \in PermittedAnswers(request)
<1> USE OneDocument DEF Shown, PermittedAnswers, When, IInv, ControlInv
<1>1. CASE RejectUsage
  BY <1>1 DEF RejectUsage, Finish, UsageError
<1>2. CASE RejectIngress
  BY <1>2 DEF RejectIngress, Finish, Answer
<1>3. CASE ParentKilled
  BY <1>3 DEF ParentKilled, Signalled, Killed
<1>4. QED
  BY <1>1, <1>2, <1>3

\* The answers given before the first worker are permitted.
LEMMA GatesPermitted ==
  ASSUME IInv, SamplesStage \/ ValidateStage, pc' = "done"
  PROVE  Shown' \in PermittedAnswers(request)
<1>1. /\ request.ingress = "ok" /\ stdout = <<>>
      /\ \/ /\ request.cmd = "check-samples"
            /\ Finish(Judged("SampleCheck", request.samples = "ok"))
            /\ request.samples # "raises"
         \/ /\ request.cmd \in {"check-samples", "verify", "result"}
            /\ request.samples = "raises" /\ Finish(InternalError)
         \/ /\ request.cmd = "validate"
            /\ Finish(Judged("Debug", request.valid))
  BY DEF IInv, ControlInv, SamplesStage, ValidateStage, Return, Escape, Judging
<1>2. Shown' \in CommandAnswers(request)
  BY <1>1, OneDocument
     DEF Shown, Finish, Judged, InternalError, Answer, CommandAnswers, When,
         SampleCheckAnswers, VerifyAnswers, MayEscape
<1>3. QED
  BY <1>1, <1>2 DEF PermittedAnswers, When

\* The answers given from the loop itself are permitted.
LEMMA LoopPermitted ==
  ASSUME IInv, CannotSend \/ DryRunDone, pc' = "done"
  PROVE  Shown' \in PermittedAnswers(request)
<1>1. request.ingress = "ok" /\ stdout = <<>>
  BY DEF IInv, ControlInv, CannotSend, DryRunDone
<1>2. CASE CannotSend
  <2>1. Shown' = InternalError
    BY <1>1, <1>2, OneDocument
       DEF Shown, CannotSend, Escape, Finish, InternalError, Answer
  <2>2. next \in 1..LastCase /\ request.outcome[next] = "unsendable"
    BY <1>2, LastCaseFacts DEF CannotSend, MoreCases, IInv, TypeOK
  <2>3. CASE request.cmd = "dry-run"
    <3>1. next = 1
      BY <2>2, <2>3 DEF LastCase
    <3>2. InternalError \in DryRunAnswers(request)
      BY <2>2, <3>1 DEF DryRunAnswers
    <3>3. QED
      BY <1>1, <2>1, <2>3, <3>2 DEF PermittedAnswers, When, CommandAnswers
  <2>4. CASE request.cmd # "dry-run"
    <3>1. Judging /\ Runnable(request)
      BY <1>2, <2>4 DEF IInv, ControlInv, CannotSend
    <3>2. MayEscape(request)
      BY <2>2, <3>1, LastCaseFacts DEF MayEscape, Unsendable, IInv
    <3>3. QED
      BY <1>1, <2>1, <3>1, <3>2
         DEF PermittedAnswers, When, CommandAnswers, VerifyAnswers, Judging
  <2>5. QED
    BY <2>3, <2>4
<1>3. CASE DryRunDone
  <2>1. request.cmd = "dry-run" /\ Finish(Judged("Debug", errors = <<>>))
    BY <1>3 DEF DryRunDone, Return
  <2>2. Shown' = Judged("Debug", errors = <<>>)
    BY <1>1, <2>1, OneDocument DEF Shown, Finish, Judged, Answer
  <2>3. next = 2 /\ request.outcome[1] # "unsendable"
    BY <1>3, <2>1 DEF DryRunDone, MoreCases, LastCase, IInv, LoopInv, TypeOK
  <2>4. errors = <<>> => request.outcome[1] \in Values
    <3>1. SUFFICES ASSUME errors = <<>> PROVE request.outcome[1] \in Values
      OBVIOUS
    <3>2. Len(results) = 1 /\ results \in Seq(Values)
      BY <2>3, <3>1 DEF IInv, LoopInv, TypeOK
    <3>3. results[1] = request.outcome[1]
      BY <3>1, <3>2 DEF IInv, LoopInv
    <3>4. QED
      BY <3>2, <3>3
  <2>5. Judged("Debug", errors = <<>>) \in DryRunAnswers(request)
    BY <2>3, <2>4 DEF DryRunAnswers
  <2>6. QED
    BY <1>1, <2>1, <2>2, <2>5 DEF PermittedAnswers, When, CommandAnswers
<1>4. QED
  BY <1>2, <1>3

\* Whatever is printed is permitted.
LEMMA EmitPermitted ==
  ASSUME IInv, Emit
  PROVE  Shown' \in PermittedAnswers(request)
<1>1. request.ingress = "ok" /\ stdout = <<>> /\ Judging /\ verdict # NoVerdict
  BY DEF IInv, ControlInv, VerdictInv, Emit
<1>2. CASE Printable
  <2>1. Shown' = Reported(request.cmd, verdict)
    BY <1>1, <1>2, OneDocument DEF Emit, Shown, Finish, Reported, Answer
  <2>2. PermittedVerdict(request, verdict)
    <3>1. verdict \in Stages \cup {"matched"}
      BY <1>1 DEF IInv, TypeOK
    <3>2. CASE verdict \in {"samples", "validate"}
      BY <3>2 DEF PermittedVerdict, IInv, VerdictInv
    <3>3. CASE verdict = "dry_run"
      BY <3>3 DEF PermittedVerdict, Unsendable, IInv, VerdictInv, LoopInv
    <3>4. CASE verdict \in {"match", "matched"}
      <4>1. /\ Runnable(request) /\ Len(results) = NumCases /\ results \in Seq(Values)
            /\ \A k \in 1..NumCases : results[k] = request.outcome[k]
            /\ \A k \in 1..NumCases : results[k] \in Values
        BY <3>4 DEF IInv, VerdictInv, LoopInv, TypeOK
      <4>2. Mismatches = {k \in 1..NumCases : request.outcome[k] # request.expected[k]}
        BY <4>1 DEF Mismatches
      <4>3. verdict = "match" => ~ Agrees(request) /\ ~ Unprintable(request)
        BY <1>2, <4>1, <4>2
           DEF Agrees, Unprintable, Printable, IInv, VerdictInv, Outcomes
      <4>4. verdict = "matched" => Agrees(request)
        BY <4>2 DEF Agrees, IInv, VerdictInv
      <4>5. QED
        BY <3>4, <4>1, <4>3, <4>4 DEF PermittedVerdict, Earned, AllValues
    <3>5. QED
      BY <3>1, <3>2, <3>3, <3>4 DEF Stages
  <2>3. verdict \in Stages \cup {"matched"}
    BY <1>1 DEF IInv, TypeOK
  <2>4. QED
    BY <1>1, <2>1, <2>2, <2>3
       DEF PermittedAnswers, When, CommandAnswers, VerifyAnswers, Judging
<1>3. CASE ~ Printable
  <2>1. Shown' = InternalError
    BY <1>1, <1>3, OneDocument DEF Emit, Shown, Escape, Finish, InternalError, Answer
  <2>2. /\ Runnable(request) /\ Len(results) = NumCases /\ results \in Seq(Values)
        /\ \A k \in 1..NumCases : results[k] = request.outcome[k]
    BY <1>3 DEF Printable, IInv, VerdictInv, LoopInv, TypeOK
  <2>3. AllValues(request) /\ Unprintable(request)
    BY <1>3, <2>2 DEF AllValues, Unprintable, Printable, Mismatches
  <2>4. QED
    BY <1>1, <2>1, <2>2, <2>3
       DEF PermittedAnswers, When, CommandAnswers, VerifyAnswers, MayEscape, Judging
<1>4. QED
  BY <1>2, <1>3

-----------------------------------------------------------------------------
\* A step that does not end the process changes nothing the contract sees.
LEMMA SilentSteps ==
  ASSUME IInv, [Next]_vars, pc' \notin {"done", "killed"}
  PROVE  UNCHANGED <<request, Shown>>
<1>1. pc \notin {"done", "killed"} /\ UNCHANGED request
  BY DEF Next, Parent, WorkerSteps, RejectUsage, RejectIngress, Dispatch, SamplesStage,
         ValidateStage, CannotSend, Spawn, Collect, Reap, DryRunDone, MatchStage, Emit,
         TimeOut, WorkerAnswers, WorkerExits, WorkerCrashes, WorkerStopped, WorkerMoves,
         ParentKilled, NextCase, vars
<1>2. QED
  BY <1>1 DEF Shown

\* Once it has answered, a process answers no more.
LEMMA FinalAnswer ==
  ASSUME IInv, [Next]_vars, pc \in {"done", "killed"}
  PROVE  UNCHANGED <<request, Shown>>
<1>1. UNCHANGED <<request, pc, stdout, exit>>
  BY DEF Next, Parent, WorkerSteps, RejectUsage, RejectIngress, Dispatch, SamplesStage,
         ValidateStage, CannotSend, Spawn, Collect, Reap, DryRunDone, MatchStage, Emit,
         TimeOut, WorkerAnswers, WorkerExits, WorkerCrashes, WorkerStopped, WorkerMoves,
         ParentKilled, vars
<1>2. QED
  BY <1>1 DEF Shown

\* The step that ends the process is the contract's Deliver.
LEMMA DeliveringStep ==
  ASSUME IInv, [Next]_vars, pc \notin {"done", "killed"}, pc' \in {"done", "killed"}
  PROVE  /\ Shown = Unanswered
         /\ Shown' \in PermittedAnswers(request)
         /\ UNCHANGED request
<1>1. Shown = Unanswered
  BY DEF Shown
<1>2. \/ RejectUsage \/ RejectIngress \/ ParentKilled
      \/ (SamplesStage \/ ValidateStage) /\ pc' = "done"
      \/ (CannotSend \/ DryRunDone) /\ pc' = "done"
      \/ Emit
  <2>1. ~ (WorkerSteps \/ WorkerStopped \/ TimeOut \/ UNCHANGED vars)
    BY DEF WorkerSteps, TimeOut, WorkerAnswers, WorkerExits, WorkerCrashes, WorkerStopped,
           WorkerMoves, vars
  <2>2. ~ (Dispatch \/ Spawn \/ Collect \/ Reap)
    BY DEF Dispatch, FirstStage, Spawn, Collect, Reap, NextCase
  <2>3. ~ MatchStage
    <3>1. pc = "match" => Len(results) = NumCases
      BY DEF IInv, VerdictInv, LoopInv, TypeOK
    <3>2. QED
      BY <3>1 DEF MatchStage, Return
  <2>4. SamplesStage \/ ValidateStage \/ CannotSend \/ DryRunDone => pc' # "killed"
    BY DEF SamplesStage, ValidateStage, CannotSend, DryRunDone, Escape, Finish, Return
  <2>5. QED
    BY <2>1, <2>2, <2>3, <2>4 DEF Next, Parent
<1>3. Shown' \in PermittedAnswers(request)
  BY <1>2, RejectionsPermitted, GatesPermitted, LoopPermitted, EmitPermitted
<1>4. UNCHANGED request
  BY <1>2 DEF RejectUsage, RejectIngress, SamplesStage, ValidateStage, CannotSend,
              DryRunDone, Emit, ParentKilled
<1>5. QED
  BY <1>1, <1>3, <1>4

\* The contract and the pipeline mean the same by a permitted answer.
LEMMA ContractAnswers == Contract!PermittedAnswers(request) = PermittedAnswers(request)
BY DEF Contract!PermittedAnswers, Contract!When, Contract!CommandAnswers,
       Contract!DryRunAnswers, Contract!SampleCheckAnswers, Contract!VerifyAnswers, Contract!MayEscape,
       Contract!PermittedVerdict, Contract!Earned, Contract!Unprintable,
       Contract!Agrees, Contract!AllValues, Contract!Unsendable, Contract!Runnable,
       Contract!Reported, Contract!ResultStatus, Contract!InternalError,
       Contract!Judged, Contract!Killed, Contract!UsageError, Contract!Answer,
       Contract!CliError, Contract!Doc, Contract!Stages, PermittedAnswers, When,
       CommandAnswers, DryRunAnswers, SampleCheckAnswers, VerifyAnswers, MayEscape,
       PermittedVerdict,
       Earned, Unprintable, Agrees, AllValues, Unsendable, Runnable, Reported,
       ResultStatus, InternalError, Judged, Killed, UsageError, Answer, CliError, Doc,
       Stages

\* The safety half of the contract: from an unanswered start, every step of the
\* pipeline is the delivery of one permitted answer or invisible.  That the answer does
\* come (the contract's fairness) is checked by TLC.
THEOREM ContractSafety == Spec => Contract!Init /\ [][Contract!Next]_(Contract!vars)
<1>1. Init => Contract!Init
  BY DEF Init, Start, Shown, Contract!Init, Contract!Request, Request, Contract!Commands,
         Commands, Contract!Outcomes, Outcomes, Contract!Faults, Faults,
         Contract!EngineFaults, EngineFaults, Contract!SampleAnswers, SampleAnswers,
         Contract!Unanswered, Unanswered
<1>2. IInv /\ [Next]_vars => [Contract!Next]_(Contract!vars)
  <2> SUFFICES ASSUME IInv, [Next]_vars PROVE [Contract!Next]_(Contract!vars)
    OBVIOUS
  <2>1. CASE pc' \notin {"done", "killed"} \/ pc \in {"done", "killed"}
    BY <2>1, SilentSteps, FinalAnswer DEF Contract!vars
  <2>2. CASE pc' \in {"done", "killed"} /\ pc \notin {"done", "killed"}
    BY <2>2, DeliveringStep, ContractAnswers DEF Contract!Next, Contract!Deliver,
       Contract!Unanswered, Unanswered
  <2>3. QED
    BY <2>1, <2>2
<1>3. QED
  BY <1>1, <1>2, InvariantHolds, PTL DEF Spec

-----------------------------------------------------------------------------
(***************************************************************************)
(* The bound on an invocation: a measure that every step lowers, whoever   *)
(* takes it.  A case costs at most five steps (it is started, the worker   *)
(* answers, it exits or the clock beats it, it is reaped), each stage one. *)
(***************************************************************************)
CasesLeft  == LastCase + 1 - next
WorkerLeft == CASE worker.state = "running"  -> 2
                [] worker.state = "answered" -> 1
                [] OTHER                     -> 0
StepsLeft ==
  CASE pc = "main"     -> 5 * CasesLeft + 6
    [] pc = "samples"  -> 5 * CasesLeft + 5
    [] pc = "validate" -> 5 * CasesLeft + 4
    [] pc = "dry_run"  -> 5 * CasesLeft + 3
    [] pc = "wait"     -> 5 * CasesLeft + WorkerLeft
    [] pc = "reap"     -> 5 * CasesLeft - 1
    [] pc = "match"    -> 2
    [] pc = "emit"     -> 1
    [] OTHER           -> WorkerLeft

\* The measure is a number, and at a case at least one is left.
LEMMA StepsAreCounted ==
  ASSUME IInv
  PROVE  /\ CasesLeft \in 0..NumCases /\ WorkerLeft \in 0..2
         /\ pc \in {"wait", "reap"} => CasesLeft >= 1
         /\ pc \notin {"wait", "reap", "killed"} => WorkerLeft = 0
         /\ pc = "reap" => WorkerLeft = 0
         /\ StepsLeft \in 0..(5 * NumCases + 6)
<1>1. LastCase \in 1..NumCases /\ next \in 1..(NumCases + 1) /\ next <= LastCase + 1
  BY LastCaseFacts DEF IInv, TypeOK, LoopInv
<1>2. CasesLeft \in 0..NumCases
  BY <1>1 DEF CasesLeft
<1>3. WorkerLeft \in 0..2
  BY DEF WorkerLeft
<1>4. pc \in {"wait", "reap"} => CasesLeft >= 1
  BY <1>1 DEF IInv, WorkerInv, CasesLeft
<1>5. /\ pc \notin {"wait", "reap", "killed"} => WorkerLeft = 0
      /\ pc = "reap" => WorkerLeft = 0
  BY DEF IInv, WorkerInv, WorkerLeft, NoWorker
<1>6. StepsLeft \in 0..(5 * NumCases + 6)
  BY <1>2, <1>3, <1>4 DEF StepsLeft
<1>7. QED
  BY <1>2, <1>3, <1>4, <1>5, <1>6

\* The stages before the loop, and every way to end.
LEMMA StagesLower ==
  ASSUME IInv, \/ RejectUsage \/ RejectIngress \/ Dispatch \/ SamplesStage \/ ValidateStage
               \/ CannotSend \/ MatchStage \/ Emit \/ DryRunDone
  PROVE  StepsLeft' < StepsLeft
<1> USE DEF Finish, Return, Escape
<1>1. /\ CasesLeft' = CasesLeft /\ CasesLeft \in Nat /\ WorkerLeft' = WorkerLeft
      /\ WorkerLeft = 0
  <2>1. UNCHANGED <<request, next, worker>> /\ pc \notin {"wait", "reap", "killed"}
    BY DEF RejectUsage, RejectIngress, Dispatch, SamplesStage, ValidateStage, CannotSend,
           MatchStage, Emit, DryRunDone
  <2>2. QED
    BY <2>1, StepsAreCounted DEF CasesLeft, WorkerLeft, LastCase
<1>2. CASE RejectUsage \/ RejectIngress \/ Dispatch
  <2>1. pc = "main" /\ pc' \in {"done", "samples", "validate", "dry_run"}
    BY <1>2 DEF RejectUsage, RejectIngress, Dispatch, FirstStage
  <2>2. QED
    BY <1>1, <2>1 DEF StepsLeft
<1>3. CASE SamplesStage \/ ValidateStage
  <2>1. \/ pc = "samples" /\ pc' \in {"done", "validate", "emit"}
        \/ pc = "validate" /\ pc' \in {"done", "dry_run", "emit"}
    BY <1>3 DEF SamplesStage, ValidateStage
  <2>2. QED
    BY <1>1, <2>1 DEF StepsLeft
<1>4. CASE CannotSend \/ DryRunDone
  <2>1. pc = "dry_run" /\ pc' \in {"done", "emit", "match"}
    BY <1>4 DEF CannotSend, DryRunDone
  <2>2. QED
    BY <1>1, <2>1 DEF StepsLeft
<1>5. CASE MatchStage \/ Emit
  <2>1. \/ pc = "match" /\ pc' \in {"done", "emit"}
        \/ pc = "emit" /\ pc' = "done"
    BY <1>5 DEF MatchStage, Emit
  <2>2. QED
    BY <1>1, <2>1 DEF StepsLeft
<1>6. QED
  BY <1>2, <1>3, <1>4, <1>5

\* The round of a case: it is started, ends in time or is timed out and reaped.
LEMMA RoundLowers ==
  ASSUME IInv, Spawn \/ Collect \/ TimeOut \/ Reap
  PROVE  StepsLeft' < StepsLeft
<1>1. CasesLeft \in Nat /\ WorkerLeft \in 0..2
  BY StepsAreCounted
<1>2. CASE Spawn
  <2>1. /\ pc = "dry_run" /\ pc' = "wait" /\ UNCHANGED <<request, next>>
        /\ worker' = Started
    BY <1>2 DEF Spawn
  <2>2. CasesLeft' = CasesLeft /\ WorkerLeft' = 2
    BY <2>1 DEF CasesLeft, LastCase, WorkerLeft, Started
  <2>3. QED
    BY <1>1, <2>1, <2>2 DEF StepsLeft
<1>3. CASE TimeOut
  <2>1. pc = "wait" /\ pc' = "reap" /\ UNCHANGED <<request, next>>
    BY <1>3 DEF TimeOut
  <2>2. CasesLeft' = CasesLeft
    BY <2>1 DEF CasesLeft, LastCase
  <2>3. QED
    BY <1>1, <2>1, <2>2 DEF StepsLeft
<1>4. CASE Collect \/ Reap
  <2>1. /\ pc \in {"wait", "reap"} /\ pc' = "dry_run" /\ UNCHANGED request
        /\ next' = next + 1
    BY <1>4 DEF Collect, Reap, NextCase
  <2>2. LastCase \in Nat /\ next \in Nat
    BY LastCaseFacts DEF IInv, TypeOK
  <2>3. CasesLeft' = CasesLeft - 1
    BY <2>1, <2>2 DEF CasesLeft, LastCase
  <2>4. QED
    BY <1>1, <2>1, <2>3 DEF StepsLeft
<1>5. QED
  BY <1>2, <1>3, <1>4

\* The worker's own steps, also those of a worker that a killed parent left behind.
LEMMA WorkerLowers ==
  ASSUME IInv, WorkerSteps \/ WorkerStopped
  PROVE  StepsLeft' < StepsLeft
<1>1. UNCHANGED <<request, pc, next>> /\ WorkerLeft' < WorkerLeft /\ WorkerLeft' \in Nat
  BY DEF WorkerSteps, WorkerStopped, WorkerAnswers, WorkerExits, WorkerCrashes, WorkerMoves,
         WorkerLeft
<1>2. pc \in {"wait", "killed"} /\ CasesLeft \in Nat /\ WorkerLeft \in 0..2
  BY <1>1, StepsAreCounted
<1>3. CasesLeft' = CasesLeft
  BY <1>1 DEF CasesLeft, LastCase
<1>4. QED
  BY <1>1, <1>2, <1>3 DEF StepsLeft

\* A parent that is killed leaves no more than the worker's own steps.
LEMMA KillLowers == ASSUME IInv, ParentKilled PROVE StepsLeft' < StepsLeft
<1>1. /\ pc \notin {"done", "killed"} /\ pc' = "killed" /\ UNCHANGED <<request, next, worker>>
  BY DEF ParentKilled
<1>2. pc \in Labels
  BY DEF IInv, TypeOK
<1>3. StepsLeft' = WorkerLeft
  BY <1>1 DEF StepsLeft, WorkerLeft
<1>4. QED
  BY <1>1, <1>2, <1>3, StepsAreCounted DEF StepsLeft, Labels

\* No invocation goes on for ever: whatever the worker does, hangs included, and however
\* the clock and the kills fall, every step lowers a measure that starts at no more than
\* five for each case and six for the stages.
THEOREM EveryStepCounts ==
  Spec => [](StepsLeft \in 0..(5 * NumCases + 6)) /\ [][StepsLeft' < StepsLeft]_vars
<1>1. IInv => StepsLeft \in 0..(5 * NumCases + 6)
  BY StepsAreCounted
<1>2. IInv /\ [Next]_vars => [StepsLeft' < StepsLeft]_vars
  BY StagesLower, RoundLowers, WorkerLowers, KillLowers DEF Next, Parent
<1>3. QED
  BY <1>1, <1>2, InvariantHolds, PTL DEF Spec
=============================================================================

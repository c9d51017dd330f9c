---------------------------- MODULE VerifyPipeline ----------------------------
(***************************************************************************)
(* One invocation of `python -m transon_authoring` for the commands that   *)
(* judge a template or a SampleSet: main() and its handlers, the four      *)
(* stages of verify(), and the worker subprocess that run_dry_run_case     *)
(* starts for every case, waits for, times out, kills and reaps.           *)
(*                                                                         *)
(* The parent and the worker are two processes: the worker may answer,     *)
(* exit, crash or be killed at any point, also at the very moment the      *)
(* parent's five seconds run out.                                          *)
(***************************************************************************)
EXTENDS Verdicts

VARIABLES
  request,   \* the request: constant once the process has started
  pc,        \* where the parent is
  next,      \* index of the case the dry_run loop is at
  worker,    \* the live (not yet reaped) worker process, or NoWorker
  results,   \* results: envelopes of the cases that succeeded, in loop order
  errors,    \* dry_run_errors: one entry per case that failed, in loop order
  verdict,   \* what verify() returned: a failed stage or "matched"
  stdout,    \* documents written to stdout
  exit       \* exit code, Running until the process ends

vars == <<request, pc, next, worker, results, errors, verdict, stdout, exit>>

Running   == -1
Signalled == -9
NoReply   == "nothing written"
NoWorker  == [state |-> "none", reply |-> NoReply, code |-> 0]
Started   == [state |-> "running", reply |-> NoReply, code |-> 0]
NoVerdict == "none"

ASSUME NoReplyAssumption == NoReply \notin Outcomes

WorkerStates == {"none", "running", "answered", "exited", "killed"}
Worker == [state : WorkerStates, reply : Outcomes \cup {NoReply}, code : {0, 1}]
ErrorTypes == {"DefinitionError", "TransformationError", "TimeoutError"}
Error == [type : ErrorTypes, engine : BOOLEAN]   \* engine: engine_type is present
CaseError == [case : 1..NumCases, error : Error]
Labels == {"main", "samples", "validate", "dry_run", "wait", "reap", "match",
           "emit", "done", "killed"}

\* The cases the loop visits: verify() visits all, the dry-run command one.
LastCase == IF request.cmd = "dry-run" THEN 1 ELSE NumCases

-----------------------------------------------------------------------------
(***************************************************************************)
(* Ways to end: write one document and exit, or let an exception reach     *)
(* main(), which writes the internal-error envelope.                       *)
(***************************************************************************)
Finish(answer) ==
  /\ stdout' = stdout \o answer.docs
  /\ exit' = answer.code
  /\ pc' = "done"

Escape == Finish(InternalError)

\* main(): argparse rejects the usage, a reserved knob is rejected before any
\* file is read, an input is unreadable or malformed, or a handler starts.
RejectUsage ==
  /\ pc = "main" /\ request.ingress = "usage"
  /\ Finish(UsageError)
  /\ UNCHANGED <<request, next, worker, results, errors, verdict>>

RejectIngress ==
  /\ pc = "main" /\ request.ingress \in {"knob", "malformed"}
  /\ Finish(Answer(CliError(IF request.ingress = "knob" THEN "profile-rejected"
                                                        ELSE "schema-error"), 2))
  /\ UNCHANGED <<request, next, worker, results, errors, verdict>>

FirstStage(cmd) == CASE cmd = "validate" -> "validate"
                     [] cmd = "dry-run"  -> "dry_run"
                     [] OTHER            -> "samples"

Dispatch ==
  /\ pc = "main" /\ request.ingress = "ok"
  /\ pc' = FirstStage(request.cmd)
  /\ UNCHANGED <<request, next, worker, results, errors, verdict, stdout, exit>>

\* verify() returns: the handler takes over to print.
Return(v) == verdict' = v /\ pc' = "emit" /\ UNCHANGED <<stdout, exit>>

\* check_samples, for the check-samples command and as the first stage of verify();
\* what it raises reaches main().
SamplesStage ==
  /\ pc = "samples"
  /\ \/ request.samples = "raises" /\ Escape /\ UNCHANGED verdict
     \/ /\ request.samples # "raises" /\ request.cmd = "check-samples"
        /\ Finish(Judged("SampleCheck", request.samples = "ok")) /\ UNCHANGED verdict
     \/ /\ request.samples = "ok" /\ request.cmd # "check-samples"
        /\ pc' = "validate" /\ UNCHANGED <<verdict, stdout, exit>>
     \/ /\ request.samples = "rejected" /\ request.cmd # "check-samples"
        /\ Return("samples")
  /\ UNCHANGED <<request, next, worker, results, errors>>

\* Mutation: an invalid template is noticed but the stage falls through.
ValidateStage_FallsThrough ==
  /\ pc = "validate"
  /\ IF request.cmd = "validate"
     THEN Finish(Judged("Debug", request.valid)) /\ UNCHANGED verdict
     ELSE pc' = "dry_run" /\ UNCHANGED <<verdict, stdout, exit>>
  /\ UNCHANGED <<request, next, worker, results, errors>>

ValidateStage ==
  /\ pc = "validate"
  /\ IF request.cmd = "validate"
     THEN Finish(Judged("Debug", request.valid)) /\ UNCHANGED verdict
     ELSE IF request.valid
          THEN pc' = "dry_run" /\ UNCHANGED <<verdict, stdout, exit>>
          ELSE Return("validate")
  /\ UNCHANGED <<request, next, worker, results, errors>>

-----------------------------------------------------------------------------
(***************************************************************************)
(* The dry_run stage: the loop over cases[] in the parent.                 *)
(***************************************************************************)
\* Mutation: the loop stops at the first case that failed.
MoreCases_FailFast == next <= LastCase /\ errors = <<>>
MoreCases == next <= LastCase

\* json.dumps(request, allow_nan=False) raises before a worker exists.
CannotSend ==
  /\ pc = "dry_run" /\ MoreCases
  /\ request.outcome[next] = "unsendable"
  /\ Escape
  /\ UNCHANGED <<request, next, worker, results, errors, verdict>>

Spawn ==
  /\ pc = "dry_run" /\ MoreCases
  /\ request.outcome[next] # "unsendable"
  /\ worker' = Started
  /\ pc' = "wait"
  /\ UNCHANGED <<request, next, results, errors, verdict, stdout, exit>>

StableError(type) == [type |-> type, engine |-> FALSE]
EngineError(type) == [type |-> type, engine |-> TRUE]

\* What the worker's reply means as an error: run_request's exception mapping.
ReplyError(reply) ==
  IF reply \in EngineFaults
  THEN EngineError(IF reply = "DefinitionError" THEN "DefinitionError"
                                                ELSE "TransformationError")
  ELSE StableError("TransformationError")

\* A worker that exited non-zero is dead whatever it wrote; "garbage" (no JSON)
\* and "loose" (JSON that breaks the envelope contract) fall to ReplyError's last
\* line, the same stable text as a dead worker.
\* Mutation: the envelope is read without looking at the exit code or its shape.
Succeeded_Trusting(w) == w.reply \in Values \cup {"loose"}
Succeeded(w) == w.code = 0 /\ w.reply \in Values

\* Mutation: a dead worker is reported as if the engine had raised.
Failure_BlamesEngine(w) == EngineError("TransformationError")
Failure(w) == IF w.code # 0 THEN StableError("TransformationError")
                            ELSE ReplyError(w.reply)

\* The loop body after run_dry_run_case returned: one list grows by one.
RecordFailure(e) ==
  /\ errors' = Append(errors, [case |-> next, error |-> e])
  /\ UNCHANGED results
RecordSuccess(v) == results' = Append(results, v) /\ UNCHANGED errors

NextCase ==
  /\ worker' = NoWorker
  /\ next' = next + 1
  /\ pc' = "dry_run"
  /\ UNCHANGED <<request, verdict, stdout, exit>>

\* communicate() saw end-of-file and the exit status in time.
Collect ==
  /\ pc = "wait" /\ worker.state = "exited"
  /\ IF Succeeded(worker) THEN RecordSuccess(worker.reply)
                          ELSE RecordFailure(Failure(worker))
  /\ NextCase

\* The five seconds are over: the kill reaches the worker unless it has already
\* exited; whatever it wrote is discarded.
\* Mutations: the clock is looked at only once the worker has ended; the parent moves
\* on without killing and reaping the worker.
TimeOut_AfterExit ==
  /\ pc = "wait" /\ worker.state = "exited"
  /\ pc' = "reap"
  /\ UNCHANGED <<request, next, worker, results, errors, verdict, stdout, exit>>
TimeOut_NoKill ==
  /\ pc = "wait"
  /\ RecordFailure(StableError("TimeoutError"))
  /\ next' = next + 1
  /\ pc' = "dry_run"
  /\ UNCHANGED <<request, worker, verdict, stdout, exit>>

TimeOut ==
  /\ pc = "wait"
  /\ worker' = IF worker.state = "exited" THEN worker
               ELSE [worker EXCEPT !.state = "killed", !.code = 1]
  /\ pc' = "reap"
  /\ UNCHANGED <<request, next, results, errors, verdict, stdout, exit>>

Reap ==
  /\ pc = "reap"
  /\ RecordFailure(StableError("TimeoutError"))
  /\ NextCase

\* The loop is over: verify() returns the errors or goes on to match; the dry-run
\* command prints the single envelope.
DryRunDone ==
  /\ pc = "dry_run" /\ ~ MoreCases
  /\ IF request.cmd = "dry-run"
     THEN Finish(Judged("Debug", errors = <<>>)) /\ UNCHANGED verdict
     ELSE IF errors # <<>> THEN Return("dry_run")
          ELSE pc' = "match" /\ UNCHANGED <<verdict, stdout, exit>>
  /\ UNCHANGED <<request, next, worker, results, errors>>

-----------------------------------------------------------------------------
(***************************************************************************)
(* The match stage and the handler's print.                                *)
(***************************************************************************)
\* Mutation: only the first case is compared.
Mismatches_FirstOnly == {k \in 1..1 : results[k] # request.expected[k]}
Mismatches == {k \in DOMAIN results : results[k] # request.expected[k]}

\* zip(cases, results, strict=True) raises when the lists differ in length.
MatchStage ==
  /\ pc = "match"
  /\ IF Len(results) # NumCases
     THEN Escape /\ UNCHANGED verdict
     ELSE Return(IF Mismatches = {} THEN "matched" ELSE "match")
  /\ UNCHANGED <<request, next, worker, results, errors>>

\* json.dumps(verdict, allow_nan=False) in _emit: a diff entry quotes the
\* expectation it found unmet, also one that is not a finite number.
Printable ==
  verdict = "match" => \A k \in Mismatches : request.expected[k] # NonFinite

Emit ==
  /\ pc = "emit"
  /\ IF Printable THEN Finish(Reported(request.cmd, verdict))
                  ELSE Escape
  /\ UNCHANGED <<request, next, worker, results, errors, verdict>>

\* The parent itself is killed from outside (no handler runs; a worker it has
\* started is left behind).
ParentKilled ==
  /\ pc \notin {"done", "killed"}
  /\ pc' = "killed" /\ exit' = Signalled
  /\ UNCHANGED <<request, next, worker, results, errors, verdict, stdout>>

-----------------------------------------------------------------------------
(***************************************************************************)
(* The worker: main() of _worker.py, run to its end or stopped from        *)
(* outside.                                                                *)
(***************************************************************************)
WorkerMoves(state, reply, code) ==
  /\ worker' = [state |-> state, reply |-> reply, code |-> code]
  /\ UNCHANGED <<request, pc, next, results, errors, verdict, stdout, exit>>

WorkerAnswers ==
  /\ worker.state = "running"
  /\ request.outcome[next] \notin {"diverges", "crashes"}
  /\ WorkerMoves("answered", request.outcome[next], 0)

WorkerExits ==
  /\ worker.state = "answered"
  /\ WorkerMoves("exited", worker.reply, 0)

WorkerCrashes ==
  /\ worker.state = "running" /\ request.outcome[next] = "crashes"
  /\ WorkerMoves("exited", NoReply, 1)

\* The operating system stops the worker (memory limit, signal): not by its own fault.
WorkerStopped ==
  /\ worker.state \in {"running", "answered"}
  /\ WorkerMoves("exited", worker.reply, 1)

-----------------------------------------------------------------------------
Start == /\ pc = "main"
         /\ next = 1
         /\ worker = NoWorker
         /\ results = <<>>
         /\ errors = <<>>
         /\ verdict = NoVerdict
         /\ stdout = <<>>
         /\ exit = Running

Init == request \in Request /\ Start

Parent == \/ RejectUsage \/ RejectIngress \/ Dispatch
          \/ SamplesStage \/ ValidateStage
          \/ CannotSend \/ Spawn \/ Collect \/ Reap \/ DryRunDone
          \/ MatchStage \/ Emit

WorkerSteps == WorkerAnswers \/ WorkerExits \/ WorkerCrashes

Next == Parent \/ TimeOut \/ WorkerSteps \/ WorkerStopped \/ ParentKilled

(***************************************************************************)
(* The parent is a running process and the clock of communicate() does not *)
(* stop.  Nothing is assumed of the worker: it may never answer.           *)
(***************************************************************************)
Fairness == WF_vars(Parent) /\ WF_vars(TimeOut)

Spec == Init /\ [][Next]_vars /\ Fairness

-----------------------------------------------------------------------------
(***************************************************************************)
(* Properties.                                                             *)
(***************************************************************************)
\* The type of every variable: among others the loop index stays within cases[] plus one,
\* only true engine values ever enter results, and stdout holds documents alone.
TypeOK ==
  /\ request \in Request
  /\ pc \in Labels
  /\ next \in 1..(NumCases + 1)
  /\ worker \in Worker
  /\ results \in Seq(Values)
  /\ errors \in Seq(CaseError)
  /\ verdict \in Stages \cup {"matched", NoVerdict}
  /\ stdout \in Seq(Document)
  /\ exit \in {Running, Signalled, 0, 1, 2, 3}

\* Success is earned (AC-013): a verdict "matched" is returned only when the sample
\* gate passed, the template validated, and every case's own result equals that same
\* case's expectation, whatever timeouts, crashes and garbage replies happened.
MatchedIsEarned == verdict = "matched" => Earned(request)

\* No engine execution on reject (AD-019): a worker exists for verify and result only
\* behind a passed sample gate and a valid template.
EngineGated ==
  worker # NoWorker /\ request.cmd \in {"verify", "result"} => Runnable(request)

\* Every case runs even after earlier failures, and each contributes exactly one entry:
\* when the dry_run stage fails, results and errors[] together account for every case,
\* and errors[] names distinct cases in document order.
CasesAccounted ==
  verdict = "dry_run" =>
    /\ Len(results) + Len(errors) = NumCases
    /\ \A j, k \in 1..Len(errors) : j < k => errors[j].case < errors[k].case

\* Nothing lingers: a parent that ended on its own leaves no worker behind, whether
\* the worker answered, crashed, was stopped or had to be killed.
NothingLingers == pc = "done" => worker = NoWorker

\* An error that claims the engine raised (engine_type present) is about a case for
\* which the engine really raises, with the type it raises; a timeout, a dead or
\* garbled worker and an unencodable value are never dressed up as engine errors.
ErrorsAreHonest ==
  \A k \in 1..Len(errors) :
    LET o == request.outcome[errors[k].case] IN
    errors[k].error.engine =>
      /\ o \in EngineFaults
      /\ errors[k].error.type = "DefinitionError" <=> o = "DefinitionError"

\* The command line keeps its contract: seen from outside, one permitted answer is
\* given, once, and it does not fail to come.
Shown == IF pc \in {"done", "killed"} THEN [docs |-> stdout, code |-> exit]
                                      ELSE Unanswered
Contract == INSTANCE VerdictContract WITH answer <- Shown
ImplementsContract == Contract!Spec
=============================================================================

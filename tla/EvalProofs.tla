------------------------------ MODULE EvalProofs ------------------------------
(***************************************************************************)
(* For any corpus, number of episodes, targets, cap and tool budget: the   *)
(* budget of the raw loop is hard, the blame for an episode in a host is   *)
(* right, and a green gate is a measurement; the steps of the raw loop are *)
(* counted by its budget.                                                  *)
(***************************************************************************)
EXTENDS EvalRun, FiniteSetTheorems, TLAPS

USE CorpusAssumption, RunsAssumption, PercentAssumption, BudgetAssumption

-----------------------------------------------------------------------------
(***************************************************************************)
(* The raw loop.  While it runs nothing has been submitted, and the log    *)
(* has every call that was counted.                                        *)
(***************************************************************************)
LoopInv ==
  /\ RawTypeOK
  /\ loop \in {"off", "setup", "ask", "dispatch"} =>
       /\ raw = Unfinished
       /\ calls <= ToolBudget /\ ran = calls /\ Len(log) = calls
       /\ \A i \in DOMAIN log : log[i].tool = "tool"
  /\ BudgetIsHard

\* A batch is a finite sequence of tool uses.
LEMMA BatchIsSeq == \A b \in Batches : b \in Seq(Tools)
<1> SUFFICES ASSUME NEW n \in 0..MaxBatch, NEW b \in [1..n -> Tools]
             PROVE  b \in Seq(Tools)
  BY DEF Batches
<1> QED
  OBVIOUS

\* The loop has not been started.
LEMMA LoopInitial == ASSUME RawInit PROVE LoopInv
BY DEF RawInit, LoopInv, RawTypeOK, BudgetIsHard, Unfinished

\* A fresh episode has counted nothing.
LEMMA StartRawKeeps == ASSUME LoopInv, StartRaw PROVE LoopInv'
BY DEF StartRaw, LoopInv, RawTypeOK, BudgetIsHard, Unfinished

\* The set-up counts nothing.
LEMMA RawSetUpKeeps == ASSUME LoopInv, RawSetUp PROVE LoopInv'
BY DEF RawSetUp, LoopInv, RawTypeOK, BudgetIsHard, Unfinished, Over, Ended, Results

\* A turn brings a batch or ends the episode; it counts nothing.
LEMMA AskKeeps == ASSUME LoopInv, Ask PROVE LoopInv'
<1>1. CASE Over(Ended("infra_error")) /\ UNCHANGED batch
  BY <1>1 DEF Ask, LoopInv, RawTypeOK, BudgetIsHard, Unfinished, Over, Ended, Results
<1>2. ASSUME NEW b \in Batches, batch' = b,
             IF b = <<>> THEN NoToolUse ELSE loop' = "dispatch" /\ UNCHANGED raw
      PROVE  LoopInv'
  <2>1. b \in Seq(Tools)
    BY BatchIsSeq
  <2>2. QED
    BY <1>2, <2>1 DEF Ask, LoopInv, RawTypeOK, BudgetIsHard, Unfinished, Over, NoToolUse, Ended, Results
<1>3. QED
  BY <1>1, <1>2 DEF Ask

\* An entry is numbered by its place.
LEMMA RecordGrows ==
  ASSUME NEW tool \in Tools, log \in Seq([seq : Nat, tool : Tools]),
         calls' = Len(log) + 1, Record(tool),
         \A i \in 1..Len(log) : log[i].seq = i /\ log[i].tool = "tool"
  PROVE  /\ log' \in Seq([seq : Nat, tool : Tools]) /\ Len(log') = Len(log) + 1
         /\ \A i \in 1..Len(log') :
              log'[i].seq = i /\ log'[i].tool = (IF i <= Len(log) THEN "tool" ELSE tool)
<1> DEFINE entry == [seq |-> calls', tool |-> tool]
<1>1. entry \in [seq : Nat, tool : Tools]
  OBVIOUS
<1>2. log' = Append(log, entry)
  BY DEF Record
<1> HIDE DEF entry
<1>3. /\ log' \in Seq([seq : Nat, tool : Tools]) /\ Len(log') = Len(log) + 1
      /\ \A i \in 1..Len(log) : log'[i] = log[i]
      /\ log'[Len(log) + 1] = entry
  BY <1>1, <1>2
<1>4. \A i \in 1..Len(log') :
         log'[i].seq = i /\ log'[i].tool = (IF i <= Len(log) THEN "tool" ELSE tool)
  <2> SUFFICES ASSUME NEW i \in 1..Len(log')
               PROVE  log'[i].seq = i /\ log'[i].tool = (IF i <= Len(log) THEN "tool" ELSE tool)
    OBVIOUS
  <2>1. CASE i <= Len(log)
    <3>1. Len(log) \in Nat /\ i \in 1..Len(log)
      BY <1>3, <2>1
    <3>2. log'[i] = log[i] /\ log[i].seq = i /\ log[i].tool = "tool"
      BY <1>3, <3>1
    <3>3. QED
      BY <2>1, <3>2
  <2>2. CASE i = Len(log) + 1
    BY <1>3, <2>2 DEF entry
  <2>3. QED
    BY <1>3, <2>1, <2>2
<1>5. QED
  BY <1>3, <1>4

\* A tool use is counted first, and then run, or found to be over the budget.
LEMMA DispatchKeeps == ASSUME LoopInv, Dispatch PROVE LoopInv'
<1> USE DEF Dispatch, Crosses
<1>1. /\ loop = "dispatch" /\ raw = Unfinished
      /\ calls \in Nat /\ ran = calls /\ Len(log) = calls /\ calls <= ToolBudget
      /\ log \in Seq([seq : Nat, tool : Tools])
      /\ \A i \in 1..Len(log) : log[i].seq = i /\ log[i].tool = "tool"
      /\ batch \in Seq(Tools) /\ batch # <<>> /\ batch' \in Seq(Tools)
  BY DEF LoopInv, RawTypeOK, BudgetIsHard
<1>2. CASE Crosses(calls') /\ Over(Ended("budget_exceeded")) /\ UNCHANGED <<ran, log>>
  BY <1>1, <1>2 DEF LoopInv, RawTypeOK, BudgetIsHard, Over, Ended, Results
<1>3. CASE /\ ~Crosses(calls') /\ Record("submit_result")
           /\ \E p \in Payloads : Over(Submitted(p))
           /\ UNCHANGED ran
  <2>1. /\ log' \in Seq([seq : Nat, tool : Tools]) /\ Len(log') = Len(log) + 1
        /\ \A i \in 1..Len(log') :
             log'[i].seq = i /\ log'[i].tool = (IF i <= Len(log) THEN "tool" ELSE "submit_result")
    BY <1>1, <1>3, RecordGrows DEF Tools
  <2>2. {i \in DOMAIN log' : log'[i].tool = "submit_result"} = {Len(log')}
    <3>1. DOMAIN log' = 1..Len(log') /\ Len(log') \in Nat \ {0} /\ Len(log') = Len(log) + 1
      BY <1>1, <2>1
    <3>2. \A i \in 1..Len(log') : log'[i].tool = "submit_result" <=> i = Len(log')
      BY <1>1, <2>1, <3>1
    <3>3. QED
      BY <3>1, <3>2
  <2>3. loop' = "over" /\ raw'.outcome = "submitted" /\ raw' \in Results
    BY <1>3 DEF Over, Submitted, Results
  <2>4. BudgetIsHard'
    BY <1>1, <1>3, <2>1, <2>2, <2>3, SMTT(30) DEF BudgetIsHard
  <2>5. QED
    BY <1>1, <1>3, <2>1, <2>3, <2>4 DEF LoopInv, RawTypeOK
<1>4. CASE /\ ~Crosses(calls') /\ ran' = ran + 1
           /\ Over(Ended("infra_error")) /\ UNCHANGED log
  BY <1>1, <1>4 DEF LoopInv, RawTypeOK, BudgetIsHard, Over, Ended, Results
<1>5. CASE /\ ~Crosses(calls') /\ ran' = ran + 1
           /\ Record("tool") /\ UNCHANGED <<loop, raw>>
  <2>1. /\ log' \in Seq([seq : Nat, tool : Tools]) /\ Len(log') = Len(log) + 1
        /\ \A i \in 1..Len(log') : log'[i].seq = i /\ log'[i].tool = "tool"
    BY <1>1, <1>5, RecordGrows DEF Tools
  <2>2. {i \in DOMAIN log' : log'[i].tool = "submit_result"} = {}
    BY <2>1
  <2>3. BudgetIsHard'
    BY <1>1, <1>5, <2>1, <2>2 DEF BudgetIsHard, Unfinished
  <2>4. QED
    BY <1>1, <1>5, <2>1, <2>3 DEF LoopInv, RawTypeOK
<1>6. QED
  BY <1>2, <1>3, <1>4, <1>5

\* The replies go back and the next turn begins.
LEMMA ReplyKeeps == ASSUME LoopInv, Reply PROVE LoopInv'
BY DEF Reply, LoopInv, RawTypeOK, BudgetIsHard

\* The invariant of the loop holds throughout, whatever the gate does beside it.
THEOREM LoopInvariant == Spec => []LoopInv
<1>1. Init => LoopInv
  BY LoopInitial DEF Init
<1>2. LoopInv /\ [Next]_vars => LoopInv'
  <2> SUFFICES ASSUME LoopInv, [Next]_vars PROVE LoopInv'
    OBVIOUS
  <2>1. CASE Gate
    BY <2>1 DEF Gate, rawVars, LoopInv, RawTypeOK, BudgetIsHard
  <2>2. CASE Smoke
    BY <2>2, StartRawKeeps DEF Smoke
  <2>3. CASE Loop
    BY <2>3, RawSetUpKeeps, AskKeeps, DispatchKeeps, ReplyKeeps DEF Loop, RawSteps
  <2>4. CASE UNCHANGED vars
    BY <2>4 DEF vars, rawVars, LoopInv, RawTypeOK, BudgetIsHard
  <2>5. QED
    BY <2>1, <2>2, <2>3, <2>4 DEF Next
<1>3. QED
  BY <1>1, <1>2, PTL DEF Spec

\* The budget of the raw loop is hard, whatever the budget and the size of a batch.
THEOREM BudgetHolds == Spec => []BudgetIsHard
<1>1. LoopInv => BudgetIsHard
  BY DEF LoopInv
<1>2. QED
  BY <1>1, LoopInvariant, PTL

-----------------------------------------------------------------------------
(***************************************************************************)
(* The bound on the raw loop: a measure that every step of it lowers.  A   *)
(* call costs three steps at the most: the turn that asks for it, its      *)
(* dispatch, and the reply.                                                *)
(***************************************************************************)
TurnLeft == CASE loop = "ask"                         -> 2
              [] loop = "dispatch" /\ batch # <<>>    -> 1
              [] OTHER                                -> 3
LoopLeft == IF loop \in {"off", "over"} THEN 0 ELSE 3 * (ToolBudget - calls) + TurnLeft

\* The measure is a number.
LEMMA LoopIsCounted == ASSUME LoopInv PROVE LoopLeft \in 0..(3 * ToolBudget + 3)
<1>1. TurnLeft \in 1..3
  BY DEF TurnLeft
<1>2. loop \notin {"off", "over"} => ToolBudget - calls \in 0..ToolBudget
  BY DEF LoopInv, RawTypeOK
<1>3. QED
  BY <1>1, <1>2 DEF LoopLeft

\* Every step of the loop lowers it: a turn without a tool use is the last, and a turn
\* with one is paid by the call that it makes.
LEMMA LoopLowers == ASSUME LoopInv, RawSteps PROVE LoopLeft' < LoopLeft
<1>1. /\ calls \in Nat /\ ToolBudget - calls \in Nat
      /\ loop \in {"setup", "ask", "dispatch"}
  BY DEF LoopInv, RawTypeOK, RawSteps, RawSetUp, Ask, Dispatch, Reply
<1>2. LoopLeft = 3 * (ToolBudget - calls) + TurnLeft /\ TurnLeft \in 1..3
  BY <1>1 DEF LoopLeft, TurnLeft
<1>3. CASE loop' = "over"
  BY <1>1, <1>2, <1>3 DEF LoopLeft
<1>4. CASE loop' # "over"
  <2>1. CASE RawSetUp
    BY <1>1, <1>4, <2>1 DEF RawSetUp, Over, LoopLeft, TurnLeft
  <2>2. CASE Ask
    <3>1. /\ loop = "ask" /\ loop' = "dispatch" /\ batch' # <<>> /\ calls' = calls
      BY <1>4, <2>2 DEF Ask, Over, NoToolUse
    <3>2. QED
      BY <1>1, <3>1 DEF LoopLeft, TurnLeft
  <2>3. CASE Dispatch
    <3>1. /\ loop = "dispatch" /\ batch # <<>> /\ calls' = calls + 1 /\ loop' = "dispatch"
      BY <1>4, <2>3 DEF Dispatch, Over
    <3>2. TurnLeft = 1 /\ TurnLeft' \in 1..3
      BY <3>1 DEF TurnLeft
    <3>3. LoopLeft' = 3 * (ToolBudget - (calls + 1)) + TurnLeft'
      BY <3>1 DEF LoopLeft
    <3>4. 3 * (ToolBudget - (calls + 1)) = 3 * (ToolBudget - calls) - 3
      BY <1>1
    <3>5. PICK spare \in Int : spare = 3 * (ToolBudget - calls)
      BY <1>1
    <3>6. LoopLeft = spare + 1 /\ LoopLeft' = (spare - 3) + TurnLeft'
      BY <1>2, <3>2, <3>3, <3>4, <3>5
    <3>7. TurnLeft' \in Int /\ TurnLeft' <= 3
      BY <3>2
    <3>8. QED
      BY <3>5, <3>6, <3>7
  <2>4. CASE Reply
    BY <1>1, <2>4 DEF Reply, LoopLeft, TurnLeft
  <2>5. QED
    BY <2>1, <2>2, <2>3, <2>4 DEF RawSteps
<1>5. QED
  BY <1>3, <1>4

\* Whatever the model asks for, in batches of any size, the episode takes no more than
\* three steps for each call of the budget and three besides.
THEOREM LoopIsBounded ==
  Spec => [](LoopLeft \in 0..(3 * ToolBudget + 3)) /\ [][Loop => LoopLeft' < LoopLeft]_vars
<1> DEFINE Lowers == Loop => LoopLeft' < LoopLeft
<1>1. LoopInv => LoopLeft \in 0..(3 * ToolBudget + 3)
  BY LoopIsCounted
<1>2. LoopInv => [Lowers]_vars
  BY LoopLowers DEF Loop
<1>3. QED
  BY <1>1, <1>2, LoopInvariant, PTL

-----------------------------------------------------------------------------
(***************************************************************************)
(* The host.  A second turn is there only because the first asked for the  *)
(* review, and what the driver hands over is a fault or its last turn.     *)
(***************************************************************************)
Reviewed == \/ Len(endings) = 1
            \/ Len(endings) = 2 /\ NeedsReviewFollowup(endings[1])

HostInv ==
  /\ HostTypeOK
  /\ host \in {"off", "setup"} => endings = <<>> /\ ~faulted
  /\ host = "turn" => ~faulted /\ (endings = <<>> \/ (Len(endings) = 1 /\ NeedsReviewFollowup(endings[1])))
  /\ host = "adapt" => ~faulted /\ Reviewed
  /\ host = "over" => \/ faulted /\ episode = Ended("infra_error")
                      \/ ~faulted /\ Reviewed /\ episode = ToEpisodeResult(endings[Len(endings)])

\* Every terminal message falls into one of four classes: an answer only where the turn was
\* a success, a budget only where it used up its turns, a fault only where it was Faulty.
LEMMA ClassOf ==
  ASSUME NEW t \in Terminal
  PROVE  /\ Classify(t) \in {"budget", "infra", "result", "no_result"}
         /\ Classify(t) = "result" <=> t.subtype = "success" /\ t.payload # "none"
         /\ Classify(t) = "budget" <=> t.subtype = "max_turns"
         /\ Classify(t) = "infra" <=> Faulty(t)
         /\ ToEpisodeResult(t) \in Results
<1>1. /\ t.subtype \in {"success", "max_turns", "error", "missing"} /\ t.payload \in Payload
      /\ t.hint \in BOOLEAN
  BY DEF Terminal
<1>2. Classify(t) \in {"budget", "infra", "result", "no_result"}
  BY <1>1 DEF Classify
<1>3. /\ Classify(t) = "result" <=> t.subtype = "success" /\ t.payload # "none"
      /\ Classify(t) = "budget" <=> t.subtype = "max_turns"
  BY <1>1 DEF Classify
<1>4. Classify(t) = "infra" <=> Faulty(t)
  BY <1>1 DEF Classify, Faulty
<1>5. ToEpisodeResult(t) \in Results
  BY <1>1, <1>2, <1>3 DEF ToEpisodeResult, Results, Payload
<1>6. QED
  BY <1>2, <1>3, <1>4, <1>5

\* An episode that has just started has no endings.
LEMMA NoTurnYet == <<>> \in Seq(Terminal) /\ Len(<<>>) = 0
OBVIOUS

\* The driver has not been started.
LEMMA HostInitial == ASSUME HostInit PROVE HostInv
<1>1. host = "off" /\ endings = <<>> /\ ~faulted /\ faulted \in BOOLEAN /\ episode = Unfinished
  BY DEF HostInit
<1>2. endings \in Seq(Terminal) /\ Len(endings) <= 2
  BY <1>1, NoTurnYet
<1>3. HostTypeOK
  BY <1>1, <1>2 DEF HostTypeOK
<1>4. QED
  BY <1>1, <1>3 DEF HostInv

\* A fresh episode has no endings and no fault.
LEMMA StartHostKeeps == ASSUME HostInv, StartHost PROVE HostInv'
BY DEF StartHost, HostInv, HostTypeOK

\* A driver that is stopped has no episode to blame anyone for.
LEMMA StopHostKeeps == ASSUME HostInv, StopHost PROVE HostInv'
<1>1. /\ host' = "off" /\ endings' = <<>> /\ ~faulted' /\ faulted' \in BOOLEAN
      /\ episode' = Unfinished
  BY DEF StopHost
<1>2. endings' \in Seq(Terminal) /\ Len(endings') <= 2
  BY <1>1, NoTurnYet
<1>3. HostTypeOK'
  BY <1>1, <1>2 DEF HostTypeOK
<1>4. QED
  BY <1>1, <1>3 DEF HostInv

\* A fault of the driver ends the episode as infra_error.
LEMMA FaultKeeps == ASSUME HostInv, Fault PROVE HostInv'
BY DEF Fault, HostInv, HostTypeOK, Ended, Results

\* The ending of one more turn.
LEMMA OneMore ==
  ASSUME NEW q \in Seq(Terminal), NEW t \in Terminal
  PROVE  /\ Append(q, t) \in Seq(Terminal) /\ Len(Append(q, t)) = Len(q) + 1
         /\ Append(q, t)[Len(q) + 1] = t
         /\ \A i \in 1..Len(q) : Append(q, t)[i] = q[i]
OBVIOUS

\* A turn is followed by one more just when it is the first and calls for a review.
LEMMA TurnKeeps == ASSUME HostInv, Turn PROVE HostInv'
<1>1. CASE Fault
  BY <1>1, FaultKeeps
<1>2. ASSUME NEW t \in Terminal, endings' = Append(endings, t),
             host' = (IF endings = <<>> /\ NeedsReviewFollowup(t) THEN "turn" ELSE "adapt"),
             UNCHANGED <<faulted, episode>>
      PROVE  HostInv'
  <2>1. /\ host = "turn" /\ ~faulted /\ faulted \in BOOLEAN /\ episode \in Results \cup {Unfinished}
        /\ endings \in Seq(Terminal)
        /\ endings = <<>> \/ (Len(endings) = 1 /\ NeedsReviewFollowup(endings[1]))
    BY DEF Turn, HostInv, HostTypeOK
  <2>2. CASE endings = <<>>
    <3>1. endings' \in Seq(Terminal) /\ Len(endings') = 1 /\ endings'[1] = t
      BY <1>2, <2>2
    <3>2. host' \in {"turn", "adapt"} /\ (host' = "turn" => NeedsReviewFollowup(t))
      BY <1>2
    <3>3. HostTypeOK'
      BY <1>2, <2>1, <3>1, <3>2 DEF HostTypeOK
    <3>4. QED
      BY <1>2, <2>1, <3>1, <3>2, <3>3 DEF HostInv, Reviewed, NeedsReviewFollowup, Classify
  <2>3. CASE Len(endings) = 1 /\ NeedsReviewFollowup(endings[1])
    <3>1. endings' \in Seq(Terminal) /\ Len(endings') = 2 /\ endings'[1] = endings[1]
      <4>1. /\ Append(endings, t) \in Seq(Terminal) /\ Len(Append(endings, t)) = Len(endings) + 1
            /\ \A i \in 1..Len(endings) : Append(endings, t)[i] = endings[i]
        BY <1>2, <2>1, OneMore
      <4>2. Len(endings) = 1 /\ endings' = Append(endings, t)
        BY <1>2, <2>3
      <4>3. endings' \in Seq(Terminal) /\ Len(endings') = 2
        BY <4>1, <4>2
      <4>4. endings'[1] = endings[1]
        BY <4>1, <4>2
      <4>5. QED
        BY <4>3, <4>4
    <3>2. host' = "adapt"
      BY <1>2, <2>3
    <3>3. HostTypeOK'
      BY <1>2, <2>1, <3>1, <3>2 DEF HostTypeOK
    <3>4. Reviewed'
      BY <2>3, <3>1 DEF Reviewed, NeedsReviewFollowup, Classify
    <3>5. QED
      BY <1>2, <2>1, <3>2, <3>3, <3>4 DEF HostInv
  <2>4. QED
    BY <2>1, <2>2, <2>3
<1>3. QED
  BY <1>1, <1>2 DEF Turn

\* The last turn alone decides what the episode ends with.
LEMMA AdaptKeeps == ASSUME HostInv, Adapt PROVE HostInv'
<1>1. CASE Fault
  BY <1>1, FaultKeeps
<1>2. CASE /\ episode' = ToEpisodeResult(endings[Len(endings)])
           /\ host' = "over" /\ UNCHANGED <<endings, faulted>>
  <2>1. ~faulted /\ Reviewed /\ endings \in Seq(Terminal)
    BY DEF Adapt, HostInv, HostTypeOK
  <2>2. endings[Len(endings)] \in Terminal
    BY <2>1 DEF Reviewed
  <2>3. episode' \in Results
    BY <1>2, <2>2, ClassOf
  <2>4. HostTypeOK'
    BY <1>2, <2>3 DEF HostInv, HostTypeOK
  <2>5. Reviewed' /\ episode' = ToEpisodeResult(endings'[Len(endings')])
    BY <1>2, <2>1 DEF Reviewed
  <2>6. QED
    BY <1>2, <2>1, <2>4, <2>5 DEF HostInv
<1>3. QED
  BY <1>1, <1>2 DEF Adapt

\* Every step of the driver.
LEMMA HostStepsKeep == ASSUME HostInv, HostSteps PROVE HostInv'
<1>1. CASE SetUp
  <2>1. CASE Fault
    BY <2>1, FaultKeeps
  <2>2. CASE host' = "turn" /\ UNCHANGED <<endings, faulted, episode>>
    BY <1>1, <2>2 DEF SetUp, HostInv, HostTypeOK
  <2>3. QED
    BY <1>1, <2>1, <2>2 DEF SetUp
<1>2. QED
  BY <1>1, TurnKeeps, AdaptKeeps DEF HostSteps

\* Who is to blame can be read off the turns.
LEMMA BlameFollows == ASSUME HostInv PROVE BlameIsRight
<1> SUFFICES ASSUME host = "over" PROVE BlameIsRight
  BY DEF BlameIsRight
<1>1. endings \in Seq(Terminal) /\ \A i \in DOMAIN endings : endings[i] \in Terminal
  BY DEF HostInv, HostTypeOK
<1>2. CASE faulted /\ episode = Ended("infra_error")
  BY <1>2 DEF BlameIsRight, Ended
<1>3. CASE ~faulted /\ Reviewed /\ episode = ToEpisodeResult(endings[Len(endings)])
  <2> DEFINE last == endings[Len(endings)]
  <2>1. last \in Terminal /\ Len(endings) \in DOMAIN endings
    BY <1>1, <1>3 DEF Reviewed
  <2>2. ASSUME NEW i \in DOMAIN endings, i # Len(endings)
        PROVE  NeedsReviewFollowup(endings[i])
    BY <1>1, <1>3, <2>2 DEF Reviewed
  <2> HIDE DEF last
  <2>3. ASSUME NEW i \in DOMAIN endings, endings[i].subtype = "success",
               endings[i].payload # "none", Envelope(endings[i].payload)
        PROVE  episode = Submitted(endings[i].payload)
    <3>1. Classify(endings[i]) = "result"
      BY <1>1, <2>3, ClassOf
    <3>2. i = Len(endings)
      BY <2>2, <2>3, <3>1 DEF NeedsReviewFollowup
    <3>3. QED
      BY <1>3, <3>1, <3>2 DEF ToEpisodeResult
  <2>4. ASSUME NEW i \in DOMAIN endings, Faulty(endings[i])
        PROVE  i = Len(endings)
    <3>1. Classify(endings[i]) = "infra"
      BY <1>1, <2>4, ClassOf
    <3>2. QED
      BY <2>2, <3>1 DEF NeedsReviewFollowup
  <2>5. ASSUME episode.outcome \in {"no_submit", "budget_exceeded"} PROVE ~Faulty(last)
    <3>1. Classify(last) # "infra"
      BY <1>3, <2>5 DEF ToEpisodeResult, Ended, last
    <3>2. QED
      BY <2>1, <3>1, ClassOf
  <2>6. ASSUME episode.outcome = "infra_error" PROVE Faulty(last)
    <3>1. Classify(last) \in {"budget", "infra", "result", "no_result"}
      BY <2>1, ClassOf
    <3>2. Classify(last) = "infra"
      BY <1>3, <2>6, <3>1 DEF ToEpisodeResult, Ended, Submitted, last
    <3>3. QED
      BY <2>1, <3>2, ClassOf
  <2>7. ASSUME episode.outcome = "budget_exceeded" PROVE last.subtype = "max_turns"
    <3>1. Classify(last) \in {"budget", "infra", "result", "no_result"}
      BY <2>1, ClassOf
    <3>2. Classify(last) = "budget"
      BY <1>3, <2>7, <3>1 DEF ToEpisodeResult, Ended, Submitted, last
    <3>3. QED
      BY <2>1, <3>2, ClassOf
  <2>8. QED
    BY <1>3, <2>1, <2>3, <2>4, <2>5, <2>6, <2>7 DEF BlameIsRight, last
<1>4. QED
  BY <1>2, <1>3 DEF HostInv

-----------------------------------------------------------------------------
(***************************************************************************)
(* The gate.  An episode that passes gave what is owed; the report that    *)
(* was not red is that of the fixtures that were run.                      *)
(***************************************************************************)
Earned ==
  /\ gate # "idle" => exit = "none"
  /\ gate # "idle" /\ update => only = Fixtures
  /\ gate \in {"episodes", "running", "baseline"} => only \subseteq Fixtures
  /\ gate = "running" => todo # {}
  /\ gate = "baseline" => update
  /\ gate = "baseline" \/ exit = "green" => only \subseteq Fixtures /\ ~Red

Fair == \A f \in Fixtures : count[f]["pass"] <= met[f]

GateInv == HostInv /\ GateTypeOK /\ Earned /\ Fair

\* A pass is given only for what the fixture asks for.
LEMMA PassIsOwed ==
  ASSUME NEW e \in Expects, NEW r \in Results \cup {Unfinished}, "pass" \in ScoreEpisode(e, r)
  PROVE  r = Submitted(Owed(e))
<1>1. r.outcome = "submitted"
  BY DEF ScoreEpisode
<1>2. PICK p \in Payloads : r = Submitted(p)
  BY <1>1 DEF Results, Unfinished, Ended
<1>3. r.submitted = p
  BY <1>2 DEF Submitted
<1>4. SchemaValid(p)
  BY <1>1, <1>3 DEF ScoreEpisode
<1>5. CASE e = "refuse"
  BY <1>1, <1>2, <1>3, <1>4, <1>5 DEF ScoreEpisode, Owed
<1>6. CASE e # "refuse"
  <2>1. Claims(p)
    BY <1>1, <1>3, <1>4, <1>6 DEF ScoreEpisode
  <2>2. PICK v \in Reverify(p) : "pass" = (CASE v = "matched" -> "pass" [] v = "rejected" -> "fail" [] OTHER -> "infra")
    BY <1>1, <1>3, <1>4, <1>6, <2>1 DEF ScoreEpisode
  <2>3. v = "matched"
    BY <2>2
  <2>4. p = "right"
    BY <2>3 DEF Reverify
  <2>5. QED
    BY <1>2, <1>6, <2>4 DEF Owed
<1>7. QED
  BY <1>5, <1>6

\* A majority, and what it says of the episodes.
LEMMA MajorityMeans ==
  ASSUME GateTypeOK, Fair, NEW f \in Fixtures
  PROVE  /\ Majority(f) \in Scores
         /\ Majority(f) = "infra" <=> Scored(f) = 0
         /\ Majority(f) = "pass" => Good(f)
<1>1. /\ count[f]["pass"] \in Nat /\ count[f]["fail"] \in Nat /\ met[f] \in Nat
      /\ count[f]["pass"] <= met[f]
  BY DEF GateTypeOK, Fair, Scores
<1>2. QED
  BY <1>1 DEF Majority, Scored, Good, Scores

\* A report that is not red, with passes that were earned, is a measurement.
LEMMA MeasuredFollows == ASSUME GateInv PROVE GreenIsMeasured
<1> SUFFICES ASSUME exit = "green" PROVE GreenIsMeasured
  BY DEF GreenIsMeasured
<1>1. only \subseteq Fixtures /\ ~Red /\ GateTypeOK /\ Fair
  BY DEF GateInv, Earned
<1>2. ASSUME NEW e \in Gating
      PROVE  LET skipped == {f \in Members(e) : Scored(f) = 0} IN
             /\ Members(e) # {}
             /\ 100 * Cardinality(skipped) <= InfraCap * Cardinality(Members(e))
             /\ 100 * Cardinality({f \in Members(e) : Good(f)})
                  >= Target[e] * Cardinality(Members(e) \ skipped)
  <2> DEFINE skipped == {f \in Members(e) : Scored(f) = 0}
             good    == {f \in Members(e) : Good(f)}
  <2>1. Members(e) \subseteq Fixtures
    BY <1>1 DEF Members
  <2>2. With(e, {"infra"}) = skipped /\ With(e, {"pass", "fail"}) = Members(e) \ skipped
    BY <1>1, <2>1, MajorityMeans DEF With, Scores
  <2>3. With(e, {"pass"}) \subseteq good
    BY <1>1, <2>1, MajorityMeans DEF With
  <2>4. IsFiniteSet(good)
    BY <2>1, FS_Subset
  <2> HIDE DEF skipped, good
  <2>5. Cardinality(good) \in Nat /\ Cardinality(With(e, {"pass"})) <= Cardinality(good)
        /\ Cardinality(With(e, {"pass"})) \in Nat
    BY <2>3, <2>4, FS_Subset, FS_CardinalityType
  <2>6. Cardinality(skipped) \in Nat /\ Cardinality(Members(e)) \in Nat /\ Cardinality(Members(e) \ skipped) \in Nat
    <3>1. IsFiniteSet(Members(e)) /\ IsFiniteSet(skipped) /\ IsFiniteSet(Members(e) \ skipped)
      BY <2>1, FS_Subset DEF skipped
    <3>2. QED
      BY <3>1, FS_CardinalityType
  <2>7. Members(e) # {} /\ ~OverCap(e) /\ ~TooLow(e)
    BY <1>1 DEF Red
  <2>8. Target[e] \in Nat /\ InfraCap \in Nat
    BY DEF Target, Gating
  <2>9. 100 * Cardinality(skipped) <= InfraCap * Cardinality(Members(e))
    <3>1. ~(100 * Cardinality(skipped) > InfraCap * Cardinality(Members(e)))
      BY <2>2, <2>7 DEF OverCap
    <3>2. 100 * Cardinality(skipped) \in Nat /\ InfraCap * Cardinality(Members(e)) \in Nat
      BY <2>6, <2>8
    <3>3. QED
      BY <3>1, <3>2
  <2>10. 100 * Cardinality(good) >= Target[e] * Cardinality(Members(e) \ skipped)
    <3>1. ~(100 * Cardinality(With(e, {"pass"})) < Target[e] * Cardinality(Members(e) \ skipped))
      BY <2>2, <2>7 DEF TooLow
    <3>2. Target[e] * Cardinality(Members(e) \ skipped) \in Nat
      BY <2>6, <2>8
    <3>3. QED
      BY <2>5, <3>1, <3>2
  <2>11. QED
    BY <2>7, <2>9, <2>10 DEF skipped, good
<1>3. ASSUME NEW f \in read \cap only PROVE Scored(f) = 0 \/ Good(f)
  <2>1. f \in Fixtures /\ Majority(f) # "fail"
    BY <1>1 DEF Red, Regressions
  <2>2. QED
    BY <1>1, <2>1, MajorityMeans DEF Scores
<1>4. QED
  BY <1>2, <1>3 DEF GreenIsMeasured

\* Before the first run of the gate.
LEMMA GateInitial == ASSUME GateInit PROVE GateInv
<1>1. HostInv
  BY HostInitial DEF GateInit
<1>2. GateTypeOK
  BY <1>1 DEF GateInit, GateTypeOK, HostInv, GateLabels, Exits, Scores
<1>3. Earned /\ Fair
  BY DEF GateInit, Earned, Fair, Scores
<1>4. QED
  BY <1>1, <1>2, <1>3 DEF GateInv

\* A fresh run has counted nothing; an update covers all fixtures.
LEMMA BeginKeeps == ASSUME GateInv, Begin PROVE GateInv'
<1>1. HostInv'
  BY DEF Begin, GateInv, HostInv, HostTypeOK, hostVars, Reviewed
<1>2. /\ probe' \in BOOLEAN /\ update' \in BOOLEAN /\ only' \in SUBSET (Fixtures \cup {Unknown})
      /\ ~probe' => only' = Fixtures
      /\ read' = {} /\ todo' = {} /\ UNCHANGED policy
      /\ \/ gate' = "idle" /\ exit' = "config"
         \/ gate' = "lint" /\ exit' = "none" /\ ~(probe' /\ update')
  BY DEF Begin, Exit
<1>3. /\ count' \in [Fixtures -> [Scores -> Nat]] /\ met' \in [Fixtures -> Nat]
      /\ \A f \in Fixtures : count'[f]["pass"] = 0 /\ met'[f] = 0
  BY DEF Begin, Scores
<1>4. GateTypeOK'
  BY <1>1, <1>2, <1>3 DEF GateTypeOK, GateInv, HostInv, GateLabels, Exits, policy
<1>5. Earned' /\ Fair'
  BY <1>2, <1>3 DEF Earned, Fair
<1>6. QED
  BY <1>1, <1>4, <1>5 DEF GateInv

\* What the report depends on.
LEMMA SameReport ==
  ASSUME UNCHANGED <<only, read, count>> PROVE (Red' <=> Red) /\ Passing' = Passing
BY DEF Red, Members, OverCap, TooLow, With, Regressions, Majority, Passing

\* What lint and load let through are fixtures.
LEMMA LintLoadKeep == ASSUME GateInv, Lint \/ Load PROVE GateInv'
<1>1. HostInv'
  BY DEF Lint, Load, GateInv, HostInv, HostTypeOK, hostVars, Reviewed
<1>2. /\ UNCHANGED <<policy, args, count, met>> /\ gate # "idle" /\ exit = "none"
      /\ read' \in SUBSET (Fixtures \cup {Unknown}) /\ todo' \subseteq Fixtures
      /\ gate' \in {"idle", "load", "episodes"} /\ exit' \in {"none", "red", "config"}
      /\ gate' # "idle" => exit' = "none"
      /\ gate' = "episodes" => only \subseteq Fixtures
  BY DEF Lint, Load, Exit, tally, GateInv, GateTypeOK, Earned
<1>3. GateTypeOK'
  BY <1>1, <1>2 DEF GateInv, GateTypeOK, HostInv, GateLabels, Exits, policy, args
<1>4. Earned' /\ Fair'
  BY <1>2 DEF GateInv, Earned, Fair, args
<1>5. QED
  BY <1>1, <1>3, <1>4 DEF GateInv

\* The host works; the counts stand still.
LEMMA RunFixtureKeeps == ASSUME GateInv, RunFixture \/ Host PROVE GateInv'
<1>1. HostInv'
  BY StartHostKeeps, HostStepsKeep DEF RunFixture, Host, GateInv
<1>2. /\ UNCHANGED <<policy, args, read, tally, exit>> /\ exit = "none" /\ gate \in {"episodes", "running"}
      /\ gate' = "running" /\ todo # {}
  BY DEF RunFixture, Host, gateVars, GateInv, Earned
<1>3. GateTypeOK'
  BY <1>1, <1>2 DEF GateInv, GateTypeOK, HostInv, GateLabels, Exits, policy, args, tally
<1>4. Earned' /\ Fair'
  BY <1>2 DEF GateInv, Earned, Fair, args, tally
<1>5. QED
  BY <1>1, <1>3, <1>4 DEF GateInv

\* An episode that is counted as a pass is counted as met.
LEMMA CollectKeeps == ASSUME GateInv, Collect PROVE GateInv'
<1> DEFINE f == Current
<1>1. f \in todo /\ f \in Fixtures /\ Expect[f] \in Expects
  BY DEF Collect, GateInv, Earned, GateTypeOK, Current
<1> HIDE DEF f
<1>2. HostInv'
  BY StopHostKeeps DEF Collect, GateInv
<1>3. PICK score \in ScoreEpisode(Expect[f], episode) : count' = [count EXCEPT ![f][score] = @ + 1]
  BY DEF Collect, f
<1>4. /\ met' = [met EXCEPT ![f] = IF episode = Submitted(Owed(Expect[f])) THEN @ + 1 ELSE @]
      /\ todo' \subseteq todo /\ gate = "running" /\ gate' = "episodes" /\ exit = "none"
      /\ UNCHANGED <<policy, args, read, exit>>
  BY DEF Collect, GateInv, Earned, f
<1>5. count \in [Fixtures -> [Scores -> Nat]] /\ met \in [Fixtures -> Nat]
  BY DEF GateInv, GateTypeOK
<1>6. score \in Scores
  BY DEF ScoreEpisode, Scores
<1>7. count' \in [Fixtures -> [Scores -> Nat]]
  BY <1>1, <1>3, <1>5, <1>6
<1>8. met' \in [Fixtures -> Nat]
  BY <1>1, <1>4, <1>5
<1>9. Fair'
  <2> SUFFICES ASSUME NEW g \in Fixtures PROVE count'[g]["pass"] <= met'[g]
    BY DEF Fair
  <2>1. count[g]["pass"] <= met[g] /\ count[g]["pass"] \in Nat /\ met[g] \in Nat
    BY <1>5 DEF GateInv, Fair, Scores
  <2>2. CASE g # f
    BY <1>1, <1>3, <1>4, <1>5, <2>1, <2>2
  <2>3. CASE g = f /\ score = "pass"
    <3>1. episode \in Results \cup {Unfinished}
      BY DEF GateInv, HostInv, HostTypeOK
    <3>2. episode = Submitted(Owed(Expect[f]))
      BY <1>1, <2>3, <3>1, PassIsOwed
    <3>3. met'[g] = met[g] + 1
      BY <1>1, <1>4, <1>5, <2>3, <3>2
    <3>4. count'[g]["pass"] = count[g]["pass"] + 1
      BY <1>1, <1>3, <1>5, <1>6, <2>3
    <3>5. QED
      BY <2>1, <3>3, <3>4
  <2>4. CASE g = f /\ score # "pass"
    <3>1. count'[g]["pass"] = count[g]["pass"]
      BY <1>1, <1>3, <1>5, <1>6, <2>4 DEF Scores
    <3>2. met'[g] >= met[g]
      BY <1>1, <1>4, <1>5, <2>4
    <3>3. QED
      BY <1>8, <2>1, <3>1, <3>2
  <2>5. QED
    BY <2>2, <2>3, <2>4
<1>10. GateTypeOK'
  BY <1>2, <1>4, <1>7, <1>8 DEF GateInv, GateTypeOK, HostInv, GateLabels, Exits, policy, args
<1>11. Earned'
  BY <1>4 DEF GateInv, Earned, args
<1>12. QED
  BY <1>2, <1>9, <1>10, <1>11 DEF GateInv

\* Green, and the baseline, come from a report that is not red.
LEMMA VerdictKeeps == ASSUME GateInv, Verdict \/ UpdateBaseline PROVE GateInv'
<1>1. HostInv'
  BY DEF Verdict, UpdateBaseline, GateInv, HostInv, HostTypeOK, hostVars, Reviewed
<1>2. /\ UNCHANGED <<args, read, tally>> /\ exit = "none" /\ only \subseteq Fixtures
      /\ \/ gate' = "idle" /\ exit' = "red"
         \/ gate' = "idle" /\ exit' = "green" /\ ~Red
         \/ gate' = "baseline" /\ exit' = "none" /\ ~Red /\ update
  BY DEF Verdict, UpdateBaseline, Exit, GateInv, Earned
<1>3. baseline' \in SUBSET (Fixtures \cup {Unknown}) /\ torn' \in BOOLEAN
  BY <1>2 DEF Verdict, UpdateBaseline, GateInv, GateTypeOK, policy, Passing
<1>4. GateTypeOK'
  BY <1>1, <1>2, <1>3 DEF GateInv, GateTypeOK, HostInv, GateLabels, Exits, args, tally
<1>5. Red' <=> Red
  BY <1>2, SameReport DEF args, tally
<1>6. Earned'
  <2>1. UNCHANGED <<probe, only, update>> /\ (update => only = Fixtures)
    BY <1>2 DEF GateInv, Earned, args, Verdict, UpdateBaseline
  <2>2. QED
    BY <1>2, <1>5, <2>1 DEF Earned
<1>7. Fair'
  BY <1>2 DEF GateInv, Fair, tally
<1>8. QED
  BY <1>1, <1>4, <1>6, <1>7 DEF GateInv

\* A kill, or a baseline written by somebody else.
LEMMA OthersKeepGate == ASSUME GateInv, Kill \/ Rebaseline PROVE GateInv'
<1>1. HostInv'
  BY StopHostKeeps DEF Kill, Rebaseline, GateInv, HostInv, HostTypeOK, hostVars, Reviewed
<1>2. /\ UNCHANGED <<args, read, tally>>
      /\ baseline' \in SUBSET (Fixtures \cup {Unknown}) /\ torn' \in BOOLEAN
      /\ UNCHANGED <<gate, exit>> \/ (gate' = "idle" /\ exit' = "killed")
  BY DEF Kill, Rebaseline, Exit, GateInv, GateTypeOK
<1>3. GateTypeOK'
  BY <1>1, <1>2 DEF GateInv, GateTypeOK, HostInv, GateLabels, Exits, args, tally
<1>4. Red' <=> Red
  BY <1>2, SameReport DEF args, tally
<1>5. Earned' /\ Fair'
  BY <1>2, <1>4 DEF GateInv, Earned, Fair, args, tally
<1>6. QED
  BY <1>1, <1>3, <1>5 DEF GateInv

\* Every step of the evaluation, and every stutter.
LEMMA NextGate == ASSUME GateInv, [Next]_vars PROVE GateInv'
<1>1. CASE UNCHANGED <<gateVars, hostVars>>
  <2>1. HostInv'
    BY <1>1 DEF GateInv, HostInv, HostTypeOK, hostVars, Reviewed
  <2>2. GateTypeOK' /\ Fair'
    BY <1>1, <2>1 DEF GateInv, GateTypeOK, Fair, HostInv, gateVars, policy, args, tally
  <2>3. Earned'
    BY <1>1, SameReport DEF GateInv, Earned, gateVars, policy, args, tally
  <2>4. QED
    BY <2>1, <2>2, <2>3 DEF GateInv
<1>2. CASE GateSteps
  BY <1>2, BeginKeeps, LintLoadKeep, RunFixtureKeeps, CollectKeeps, VerdictKeeps, OthersKeepGate
     DEF GateSteps
<1>3. QED
  BY <1>1, <1>2 DEF Next, Gate, Smoke, Loop, vars

\* The invariant of the gate holds throughout.
THEOREM GateInvariant == Spec => []GateInv
<1>1. Init => GateInv
  BY GateInitial DEF Init
<1>2. GateInv /\ [Next]_vars => GateInv'
  BY NextGate
<1>3. QED
  BY <1>1, <1>2, PTL DEF Spec

\* Every variable of the gate keeps its type, for any corpus and number of episodes.
THEOREM GateTypes == Spec => []GateTypeOK
<1>1. GateInv => GateTypeOK
  BY DEF GateInv
<1>2. QED
  BY <1>1, GateInvariant, PTL

\* Who is blamed can be read off the turns, whatever subtype, payload and hint of a fault each
\* of them ended with: an answer is scored, no_submit takes turns without a fault,
\* budget_exceeded a turn that used up its turns, infra_error a fault.
THEOREM BlameHolds == Spec => []BlameIsRight
<1>1. GateInv => BlameIsRight
  BY BlameFollows DEF GateInv
<1>2. QED
  BY <1>1, GateInvariant, PTL

\* A green run is a measurement, whatever the corpus, the targets and the cap.
THEOREM GreenHolds == Spec => []GreenIsMeasured
<1>1. GateInv => GreenIsMeasured
  BY MeasuredFollows
<1>2. QED
  BY <1>1, GateInvariant, PTL

\* Whatever a run writes into the baseline keeps what it has read and has been earned.
THEOREM EarnedHolds == Spec => BaselineIsEarned
<1> DEFINE Mint == gate = "baseline" /\ gate' = "idle" /\ baseline' # baseline =>
                     /\ only = Fixtures
                     /\ read \subseteq baseline'
                     /\ \A f \in baseline' \ read : f \in Fixtures /\ Good(f)
<1>1. ASSUME GateInv, [Next]_vars PROVE [Mint]_<<gateVars, hostVars>>
  <2> SUFFICES ASSUME gate = "baseline", gate' = "idle", baseline' # baseline
               PROVE  /\ only = Fixtures
                      /\ read \subseteq baseline'
                      /\ \A f \in baseline' \ read : f \in Fixtures /\ Good(f)
    OBVIOUS
  <2>1. GateSteps
    BY <1>1 DEF Next, Gate, Smoke, Loop, vars, gateVars, policy
  <2>2. UpdateBaseline
    BY <2>1 DEF GateSteps, Begin, Lint, Load, RunFixture, Collect, Verdict, Kill, Rebaseline, Host,
                gateVars, policy
  <2>3. baseline' = read \cup Passing
    BY <2>2 DEF UpdateBaseline
  <2>4. only = Fixtures
    BY <1>1 DEF GateInv, Earned
  <2>5. ASSUME NEW f \in Passing PROVE f \in Fixtures /\ Good(f)
    <3>1. f \in Fixtures /\ Majority(f) = "pass"
      BY <2>4 DEF Passing
    <3>2. QED
      BY <1>1, <3>1, MajorityMeans DEF GateInv
  <2>6. QED
    BY <2>3, <2>4, <2>5
<1>2. QED
  BY <1>1, GateInvariant, PTL DEF Spec, BaselineIsEarned
=============================================================================

------------------------------ MODULE RawEpisode ------------------------------
(***************************************************************************)
(* scripts/eval_harness.py: the raw tool loop, kept as an offline smoke    *)
(* run.  Each turn of the provider asks for a batch of tool uses, which    *)
(* are dispatched one by one against a budget; submit_result ends the      *)
(* episode.                                                                *)
(***************************************************************************)
EXTENDS Episodes, Sequences

CONSTANTS
  ToolBudget, \* runner.json tool_budget
  MaxBatch    \* bound on the tool uses of one turn

ASSUME BudgetAssumption == ToolBudget \in Nat /\ MaxBatch \in Nat

VARIABLES
  loop,       \* where the loop is: "off", "setup", "ask", "dispatch" or "over"
  batch,      \* the tool uses of the turn that are still to be looked at
  calls,      \* tool uses counted
  ran,        \* dispatches that were started (history)
  log,        \* the tool_call_log: the number and the tool of each entry
  raw         \* the EpisodeResult of the loop

rawVars == <<loop, batch, calls, ran, log, raw>>

\* A tool of the harness (or an unknown one, which is answered with an error), or the end.
Tools   == {"tool", "submit_result"}
Batches == UNION {[1..n -> Tools] : n \in 0..MaxBatch}

-----------------------------------------------------------------------------
StartRaw ==
  /\ loop \in {"off", "over"}
  /\ loop' = "setup"
  /\ batch' = <<>> /\ calls' = 0 /\ ran' = 0 /\ log' = <<>> /\ raw' = Unfinished

Over(result) == loop' = "over" /\ raw' = result

RawSetUp ==
  /\ loop = "setup"
  /\ \/ Over(Ended("infra_error"))
     \/ loop' = "ask" /\ UNCHANGED raw
  /\ UNCHANGED <<batch, calls, ran, log>>

\* A turn without a tool use ends the episode.
\* Mutation: the model is asked again.
NoToolUse_AsksAgain == loop' = "dispatch" /\ UNCHANGED raw
NoToolUse == Over(Ended("no_submit"))

\* create_turn: a fault of the transport, no tool use at all, or a batch.
Ask ==
  /\ loop = "ask"
  /\ \/ Over(Ended("infra_error")) /\ UNCHANGED batch
     \/ \E b \in Batches :
          /\ batch' = b
          /\ IF b = <<>> THEN NoToolUse ELSE loop' = "dispatch" /\ UNCHANGED raw
  /\ UNCHANGED <<calls, ran, log>>

Record(tool) == log' = Append(log, [seq |-> calls', tool |-> tool])

\* Mutation: the budget is compared with what was counted before.
Crosses_Late(n) == n > ToolBudget + 1
Crosses(n) == n > ToolBudget

\* The call that crosses the budget is counted, never executed and never logged; a tool
\* that raises (a timeout of its 300 seconds, an OS error) is a fault of the harness.
Dispatch ==
  /\ loop = "dispatch" /\ batch # <<>>
  /\ calls' = calls + 1
  /\ batch' = Tail(batch)
  /\ \/ Crosses(calls') /\ Over(Ended("budget_exceeded")) /\ UNCHANGED <<ran, log>>
     \/ /\ ~Crosses(calls') /\ Head(batch) = "submit_result"
        /\ Record("submit_result")
        /\ \E p \in Payloads : Over(Submitted(p))
        /\ UNCHANGED ran
     \/ /\ ~Crosses(calls') /\ Head(batch) = "tool"
        /\ ran' = ran + 1
        /\ \/ Over(Ended("infra_error")) /\ UNCHANGED log
           \/ Record("tool") /\ UNCHANGED <<loop, raw>>

\* All results go back in one message, and the provider is asked again.
Reply ==
  /\ loop = "dispatch" /\ batch = <<>>
  /\ loop' = "ask"
  /\ UNCHANGED <<batch, calls, ran, log, raw>>

RawInit == loop = "off" /\ batch = <<>> /\ calls = 0 /\ ran = 0 /\ log = <<>> /\ raw = Unfinished
RawSteps == RawSetUp \/ Ask \/ Dispatch \/ Reply

-----------------------------------------------------------------------------
RawTypeOK ==
  /\ loop \in {"off", "setup", "ask", "dispatch", "over"}
  /\ batch \in Seq(Tools)
  /\ calls \in Nat /\ ran \in Nat
  /\ log \in Seq([seq: Nat, tool: Tools])
  /\ raw \in Results \cup {Unfinished}

\* The budget is hard, also inside a batch that a turn asks for at once: no dispatch is
\* started beyond it, and the log has, numbered from 1, every call that was answered and
\* the submission, nothing else; only a dispatch that raised is missing from it.
BudgetIsHard ==
  LET submits == {i \in DOMAIN log : log[i].tool = "submit_result"} IN
  /\ ran + (IF submits = {} THEN 0 ELSE 1) <= ToolBudget
  /\ \A i \in DOMAIN log : log[i].seq = i
  /\ submits \subseteq {Len(log)} /\ (submits # {} => loop = "over" /\ raw.outcome = "submitted")
  /\ \/ Len(log) = ran + (IF submits = {} THEN 0 ELSE 1)
     \/ Len(log) = ran - 1 /\ raw.outcome = "infra_error"
  /\ raw.outcome = "budget_exceeded" => Len(log) = ToolBudget /\ calls = ToolBudget + 1
=============================================================================

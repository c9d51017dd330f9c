-------------------------------- MODULE EvalGate --------------------------------
(***************************************************************************)
(* The full run of scripts/check_evals.py: lint, credentials, the policy   *)
(* files, the episodes of every selected fixture, their scores, the gate   *)
(* report, and, after a green run that was asked to, the baseline.         *)
(*                                                                         *)
(* A run takes hours.  Meanwhile others (another run that was asked to, a  *)
(* commit) write the baseline; the run works with the one it read, and may *)
(* be killed anywhere.  What is printed and the artifacts of a run are     *)
(* left out: whether they can be written changes nothing else.             *)
(***************************************************************************)
EXTENDS HostEpisode, FiniteSets

CONSTANTS
  Fixtures,   \* evals/cases
  Expect,     \* what each fixture expects
  Unknown,    \* an id that no fixture has
  Baselines,  \* what others write into the baseline
  RunsPerFixture,
  AuthoringTarget, AdversarialTarget, \* percent
  InfraCap                            \* percent

Scores   == {"pass", "fail", "infra"}
Gating   == {"matched", "refuse"}   \* the correction bucket is reported only
Target   == [e \in Gating |-> IF e = "matched" THEN AuthoringTarget ELSE AdversarialTarget]

ASSUME CorpusAssumption ==
  /\ IsFiniteSet(Fixtures)
  /\ Expect \in [Fixtures -> Expects]
  /\ Unknown \notin Fixtures
  /\ Baselines \subseteq SUBSET (Fixtures \cup {Unknown})
ASSUME RunsAssumption == RunsPerFixture \in Nat \ {0}
ASSUME PercentAssumption ==
  AuthoringTarget \in 0..100 /\ AdversarialTarget \in 0..100 /\ InfraCap \in 0..100

VARIABLES
  baseline,   \* evals/baseline.json: the ids it lists
  torn,       \* was a run killed while it wrote that file?
  gate,       \* where the run is
  probe,      \* is there an --only?
  only,       \* the ids to run
  update,     \* is there an --update-baseline?
  read,       \* the baseline the run has read
  todo,       \* the selected fixtures that are not done
  count,      \* per fixture, how many of its episodes have which score
  met,        \* per fixture, how many of its episodes gave what is owed (history)
  exit        \* how the last run ended, "none" while one is running

policy   == <<baseline, torn>>
args     == <<probe, only, update>>
tally    == <<todo, count, met>>
gateVars == <<policy, gate, args, read, tally, exit>>

GateLabels == {"idle", "lint", "load", "episodes", "running", "baseline"}
Exits  == {"none", "killed", "green", "red", "config"}   \* exit code 0, 1 and 2

-----------------------------------------------------------------------------
(***************************************************************************)
(* The gate report: majorities, rates and what is red.                     *)
(***************************************************************************)
Majority(f) ==
  CASE count[f]["pass"] + count[f]["fail"] = 0 -> "infra"
    [] count[f]["pass"] + count[f]["fail"] # 0 -> IF count[f]["pass"] > count[f]["fail"] THEN "pass" ELSE "fail"

Members(e) == {f \in only : Expect[f] = e}
With(e, verdicts) == {f \in Members(e) : Majority(f) \in verdicts}
OverCap(e)  == 100 * Cardinality(With(e, {"infra"})) > InfraCap * Cardinality(Members(e))
TooLow(e)   == 100 * Cardinality(With(e, {"pass"})) < Target[e] * Cardinality(With(e, {"pass", "fail"}))
Regressions == {f \in read \cap only : Majority(f) = "fail"}
Red == \/ \E e \in Gating : Members(e) = {} \/ OverCap(e) \/ TooLow(e)
       \/ Regressions # {}

Passing == {f \in only : Majority(f) = "pass"}

-----------------------------------------------------------------------------
Exit(how) == gate' = "idle" /\ exit' = how

\* main: a given but empty --only, and an --only that would update, are refused.
Begin ==
  /\ gate = "idle"
  /\ probe' \in BOOLEAN /\ update' \in BOOLEAN
  /\ only' \in IF probe' THEN SUBSET (Fixtures \cup {Unknown}) ELSE {Fixtures}
  /\ IF probe' /\ (only' = {} \/ update') THEN Exit("config") ELSE gate' = "lint" /\ exit' = "none"
  /\ read' = {} /\ todo' = {}
  /\ count' = [f \in Fixtures |-> [s \in Scores |-> 0]] /\ met' = [f \in Fixtures |-> 0]
  /\ UNCHANGED <<policy, hostVars>>

\* lint_evals: the baseline must be whole and name fixtures only; something else in
\* evals/ may be red as well.
Lint ==
  /\ gate = "lint"
  /\ \/ Exit("red")
     \/ ~torn /\ baseline \subseteq Fixtures /\ gate' = "load" /\ UNCHANGED exit
  /\ UNCHANGED <<policy, args, read, tally, hostVars>>

\* No key, an unknown id, a host that cannot be built: configuration errors.  A baseline
\* torn since the lint ends the run with a traceback, which is exit code 1 as well.
Load ==
  /\ gate = "load"
  /\ \/ /\ Exit("config") \/ (torn /\ Exit("red"))
        /\ UNCHANGED <<read, todo>>
     \/ /\ ~torn /\ Unknown \notin only
        /\ read' = baseline
        /\ todo' = only
        /\ gate' = "episodes" /\ UNCHANGED exit
  /\ UNCHANGED <<policy, args, count, met, hostVars>>

\* One fixture after the other, in an order that matters to nothing.
Current == CHOOSE f \in todo : TRUE

RunFixture ==
  /\ gate = "episodes" /\ todo # {}
  /\ StartHost
  /\ gate' = "running"
  /\ UNCHANGED <<policy, args, read, tally, exit>>

Done(f) == count'[f]["pass"] + count'[f]["fail"] + count'[f]["infra"] = RunsPerFixture

\* The score depends on nothing but the fixture and the episode, so it is taken here and
\* not when the last episode has ended.
Collect ==
  /\ gate = "running" /\ host = "over"
  /\ LET f == Current IN
       /\ \E score \in ScoreEpisode(Expect[f], episode) : count' = [count EXCEPT ![f][score] = @ + 1]
       /\ met' = [met EXCEPT ![f] = IF episode = Submitted(Owed(Expect[f])) THEN @ + 1 ELSE @]
       /\ todo' = IF Done(f) THEN todo \ {f} ELSE todo
  /\ gate' = "episodes"
  /\ StopHost
  /\ UNCHANGED <<policy, args, read, exit>>

Verdict ==
  /\ gate = "episodes" /\ todo = {}
  /\ IF Red THEN Exit("red")
     ELSE IF update THEN gate' = "baseline" /\ UNCHANGED exit
     ELSE Exit("green")
  /\ UNCHANGED <<policy, args, read, tally, hostVars>>

\* Mutation: the passing ids of this run are written and nothing else.
UpdateBaseline_Replaces ==
  /\ gate = "baseline"
  /\ baseline' = Passing /\ torn' = FALSE
  /\ Exit("green")
  /\ UNCHANGED <<args, read, tally, hostVars>>
UpdateBaseline ==
  /\ gate = "baseline"
  /\ baseline' = read \cup Passing /\ torn' = FALSE
  /\ Exit("green")
  /\ UNCHANGED <<args, read, tally, hostVars>>

\* The file is written in place.
Kill ==
  /\ gate # "idle"
  /\ torn' \in {torn, gate = "baseline" \/ torn}
  /\ Exit("killed")
  /\ StopHost
  /\ UNCHANGED <<baseline, args, read, tally>>

\* Another run has updated, or a commit is checked out; the corpus stays.
Rebaseline ==
  /\ baseline' \in Baselines /\ torn' = FALSE
  /\ UNCHANGED <<gate, args, read, tally, exit, hostVars>>

Host == gate = "running" /\ HostSteps /\ UNCHANGED gateVars

GateInit ==
  /\ baseline \in Baselines /\ torn = FALSE
  /\ gate = "idle" /\ exit = "none"
  /\ probe = FALSE /\ only = Fixtures /\ update = FALSE
  /\ read = {} /\ todo = {}
  /\ count = [f \in Fixtures |-> [s \in Scores |-> 0]] /\ met = [f \in Fixtures |-> 0]
  /\ HostInit

GateSteps == \/ Begin \/ Lint \/ Load \/ RunFixture \/ Collect \/ Verdict \/ UpdateBaseline
             \/ Kill \/ Rebaseline \/ Host

GateSpec == GateInit /\ [][GateSteps]_<<gateVars, hostVars>>

-----------------------------------------------------------------------------
\* The type of every variable, and how far the counts of the fixtures have come.
GateTypeOK ==
  /\ HostTypeOK
  /\ baseline \in SUBSET (Fixtures \cup {Unknown}) /\ torn \in BOOLEAN
  /\ gate \in GateLabels /\ exit \in Exits
  /\ probe \in BOOLEAN /\ update \in BOOLEAN /\ only \in SUBSET (Fixtures \cup {Unknown})
  /\ read \in SUBSET (Fixtures \cup {Unknown})
  /\ todo \subseteq Fixtures
  /\ count \in [Fixtures -> [Scores -> Nat]] /\ met \in [Fixtures -> Nat]

Scored(f) == count[f]["pass"] + count[f]["fail"]

\* The fixtures that gave what is owed in most of the episodes that were scored.
Good(f) == 2 * met[f] > Scored(f)

\* NFR-010: green is never the absence of a measurement.  Every gating bucket has
\* fixtures; those that only ever met faults of the harness are no more than the cap;
\* of the others, as many as the target asks for gave what is owed most of the time, as
\* a template that does match or as a refusal, whatever the model claimed and whichever
\* faults hit which episode; and so did every fixture of the baseline that was read.
GreenIsMeasured ==
  exit = "green" =>
    /\ \A e \in Gating :
         LET skipped == {f \in Members(e) : Scored(f) = 0} IN
         /\ Members(e) # {}
         /\ 100 * Cardinality(skipped) <= InfraCap * Cardinality(Members(e))
         /\ 100 * Cardinality({f \in Members(e) : Good(f)})
              >= Target[e] * Cardinality(Members(e) \ skipped)
    /\ \A f \in read \cap only : Scored(f) = 0 \/ Good(f)

\* OQ-016f: the baseline is minted from full runs.  Whatever a run writes keeps all it
\* has read, and what it adds was run, and gave what is owed most of the time.
BaselineIsEarned ==
  [][gate = "baseline" /\ gate' = "idle" /\ baseline' # baseline =>
       /\ only = Fixtures
       /\ read \subseteq baseline'
       /\ \A f \in baseline' \ read : f \in Fixtures /\ Good(f)]_<<gateVars, hostVars>>
=============================================================================

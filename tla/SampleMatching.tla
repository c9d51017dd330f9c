---------------------------- MODULE SampleMatching ----------------------------
(***************************************************************************)
(* A case of a SampleSet meets a result of the engine.  The samples stage  *)
(* has seen to it that the expectations decode; the worker has encoded     *)
(* what the engine returned, or failed the case; the match stage compares. *)
(* The numbers of an expectation are finite here: on a LitRef that quotes  *)
(* another one the samples stage raises (CheckOutcome of CheckSamples),    *)
(* and bare ones are opaque values of the engine only.                     *)
(*                                                                         *)
(* It runs beside SampleEditing: a behaviour either edits a SampleSet or   *)
(* matches one case of it.                                                 *)
(***************************************************************************)
EXTENDS SampleEditing, MatchValues

CONSTANTS
  Depth,    \* how deep an expectation or a value of the engine may be nested
  Cases     \* what is expected of a case, and what the engine returns for it

ASSUME DepthAssumption == Depth \in Nat
ASSUME CasesAssumption ==
  Cases \subseteq [output : Json[Depth], writes : Maps(Json[Depth]),
                   result : Values[Depth], captured : Maps(Values[Depth])]

VARIABLES
  stage,    \* "editing", "given", "matched", "rejected" or "failed"
  case,     \* one of the cases
  diff      \* the entries of its diff

matchVars == <<stage, case, diff>>

-----------------------------------------------------------------------------
Decode(c) == [output |-> DecodeExpected[Depth][c.output],
              writes |-> Object(Each(DecodeExpected[Depth], c.writes))]
Result(c) == [output |-> Encode[Depth][c.result],
              writes |-> Object(Each(Encode[Depth], c.captured))]

\* Has decode_expected, or encode_engine_value, raised?
Failed(half) == Unless(half.writes.members, half.output) = Exception

\* A literal adds a level for every level, a sentinel one more, and so does the map of the writes.
Compare(expected, actual) == Walk[2 * Depth + 2][expected][actual]

\* The output, and at most one entry for all of the writes.
MatchCase(c) ==
  Compare(Decode(c).output, Result(c).output)
    \cup IF Compare(Decode(c).writes, Result(c).writes) = {} THEN {}
         ELSE {Entry(<<>>, "writes_mismatch")}

Match ==
  /\ stage = "given"
  /\ IF "schema_invalid" \in SampleCheck(ss).gaps THEN stage' = "rejected" /\ UNCHANGED diff
     ELSE IF Failed(Result(case)) THEN stage' = "failed" /\ UNCHANGED diff
     ELSE stage' = "matched" /\ diff' = MatchCase(case)
  /\ UNCHANGED <<ss, case>>

\* tagsOk says that the expectations of the set decode.
Given == /\ stage = "given" /\ case \in Cases /\ diff = {}
         /\ ss = Empty(~Failed(Decode(case)))
Edited == /\ stage = "editing" /\ case = [output |-> NoContent] /\ diff = {}
          /\ Init

MatchNext == Match \/ (stage = "editing" /\ Next /\ UNCHANGED matchVars)

MatchSpec == (Given \/ Edited) /\ [][MatchNext]_<<vars, matchVars>>

-----------------------------------------------------------------------------
\* What an expectation means: the value of the engine it stands for.
MeaningNode(meaning, e) ==
  CASE IsNoContentRef(e) -> Sentinel
    [] IsLitRef(e)       -> e.members["value"]
    [] e.type = "array"  -> Array(Each(meaning, e.items))
    [] e.type = "object" /\ ~IsNoContentRef(e) /\ ~IsLitRef(e) -> Object(Each(meaning, e.members))
    [] OTHER -> e
Meaning[n \in Nat] == [e \in Json[n] |-> MeaningNode(Meaning[n - 1], e)]

\* FR-005: a case has no diff just when the result is the very value the sample expects,
\* of the same types all the way down, and the writes likewise: no engine value can pass
\* for another by looking like a tag, not even one that holds the key of the tags.
MatchIsEquality ==
  stage = "matched" =>
    (diff = {} <=> /\ Meaning[Depth][case.output] = case.result
                   /\ Each(Meaning[Depth], case.writes) = case.captured)
=============================================================================

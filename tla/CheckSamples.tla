----------------------------- MODULE CheckSamples -----------------------------
(***************************************************************************)
(* check_samples: the decision whether a SampleSet may be verified         *)
(* against.  A pure function of the document; here as operators, one per   *)
(* step of the algorithm.                                                  *)
(*                                                                         *)
(* A SampleSet is a record                                                 *)
(*   coverage     sequence of obligations                                  *)
(*   cases        sequence of cases; input says, per JSON pointer, what    *)
(*                the pointer finds in the case's input (a shape)          *)
(*   waivers      sequence of waivers                                      *)
(*   includes     the include map, an opaque value                         *)
(*   tagsOk       no expectation holds an unknown authoring tag            *)
(*   finite       every number in the content is finite                    *)
(*   encodes      ... also in the LitRefs of its expectations, and every   *)
(*                string has a UTF-8 form                                  *)
(*   confirmation [confirmed, by, fp]                                      *)
(***************************************************************************)
EXTENDS Naturals, Sequences

CONSTANTS
  Ids,       \* obligation ids, those nobody declares included
  Pointers,  \* well-formed JSON pointers
  NoTarget,  \* an obligation without a target
  BadTarget  \* a target that is not a JSON pointer

ASSUME PointersAssumption == {NoTarget, BadTarget} \cap Pointers = {}

Shapes == {"missing", "other", "empty", "one", "many"}

\* _structural_check: the shapes that meet an obligation of a pointer kind.
Admits == [optional_present |-> Shapes \ {"missing"},
           optional_absent  |-> {"missing"},
           list_empty       |-> {"empty"},
           list_singleton   |-> {"one"},
           list_many        |-> {"many"}]
PointerKinds == DOMAIN Admits
FreeKinds == {"happy_path", "mode_choice", "custom"}

Items(s) == {s[k] : k \in DOMAIN s}

-----------------------------------------------------------------------------
(***************************************************************************)
(* content_fingerprint: sha256 over the content keys, taken as injective.  *)
(* json.dumps refuses a number that is not finite, and the fingerprint is  *)
(* then the empty string.                                                  *)
(***************************************************************************)
\* Mutation: the waivers are left out of what is hashed.
Hashed_NoWaivers(ss) == [coverage |-> ss.coverage, waivers |-> <<>>,
                         cases |-> ss.cases, includes |-> ss.includes]
Hashed(ss) == [coverage |-> ss.coverage, waivers |-> ss.waivers,
               cases |-> ss.cases, includes |-> ss.includes]

EmptyFingerprint == <<>>
Fingerprint(ss) == IF ss.finite THEN <<Hashed(ss)>> ELSE EmptyFingerprint

-----------------------------------------------------------------------------
(***************************************************************************)
(* Steps 2 to 5: ids, waivers, obligations, claims, coverage.              *)
(***************************************************************************)
Repeats(items) == \E j, k \in DOMAIN items : j # k /\ items[j].id = items[k].id

Known(ss) == {ob.id : ob \in Items(ss.coverage)}

\* Obligations an accepted waiver clears.
\* Mutation: a waiver that was not rejected clears, also one only proposed.
Cleared_Proposed(ss) ==
  {i \in Known(ss) : \E w \in Items(ss.waivers) : i \in w.clears /\ w.acceptance # "rejected"}
Cleared(ss) ==
  {i \in Known(ss) : \E w \in Items(ss.waivers) : i \in w.clears /\ w.acceptance = "accepted"}

\* An accepted obligation that no waiver clears has to be met by a case.
Pending(ss) == {ob \in Items(ss.coverage) : ob.acceptance = "accepted"
                                            /\ ob.id \notin Cleared(ss)}

MetBy(ob, case) ==
  /\ ob.id \in case.satisfies
  /\ ob.kind \in FreeKinds
       \/ (ob.target \in Pointers /\ case.input[ob.target] \in Admits[ob.kind])

\* Mutation: every case that claims the obligation has to meet it, not any.
Met_EveryClaim(ss, ob) ==
  /\ \E case \in Items(ss.cases) : ob.id \in case.satisfies
  /\ \A case \in Items(ss.cases) : ob.id \in case.satisfies => MetBy(ob, case)
Met(ss, ob) == \E case \in Items(ss.cases) : MetBy(ob, case)

Unmet(ss)    == {ob \in Pending(ss) : ~ Met(ss, ob)}
Proposed(ss) == {ob \in Items(ss.coverage) : ob.acceptance = "proposed"}

CoverageComplete(ss) == Unmet(ss) = {} /\ Proposed(ss) = {} /\ ss.cases # <<>>

\* The codes whose condition holds.
Raised(conditions) == {code \in DOMAIN conditions : conditions[code]}

CoverageGaps(ss) == Raised([
  duplicate_id            |-> \E items \in {ss.coverage, ss.cases, ss.waivers} :
                                Repeats(items),
  obligation_not_accepted |-> Proposed(ss) # {},
  target_required         |-> \E ob \in Pending(ss) :
                                ob.kind \in PointerKinds /\ ob.target = NoTarget,
  target_invalid          |-> \E ob \in Pending(ss) :
                                ob.kind \in PointerKinds /\ ob.target = BadTarget,
  unmet                   |-> Unmet(ss) # {},
  waiver_invalid          |-> \E w \in Items(ss.waivers) : ~ w.clears \subseteq Known(ss),
  case_satisfies_unknown  |-> \E case \in Items(ss.cases) :
                                ~ case.satisfies \subseteq Known(ss),
  no_cases                |-> ss.cases = <<>>])

-----------------------------------------------------------------------------
(***************************************************************************)
(* Step 6: the confirmation, and step 7.                                   *)
(***************************************************************************)
Attested(ss)  == ss.confirmation.confirmed /\ ss.confirmation.by \in {"user", "ci"}
FpMatches(ss) == ss.confirmation.fp = Fingerprint(ss)

\* Mutation: a confirmation by nobody is not reported.
ConfirmationGaps_FlagOnly(ss) == Raised([
  unconfirmed          |-> ~ ss.confirmation.confirmed,
  fingerprint_mismatch |-> ~ FpMatches(ss)])
ConfirmationGaps(ss) == Raised([
  unconfirmed          |-> ~ Attested(ss),
  fingerprint_mismatch |-> ~ FpMatches(ss)])

OkForVerify(ss) == /\ CoverageComplete(ss)
                   /\ Attested(ss) /\ FpMatches(ss)
                   /\ "duplicate_id" \notin CoverageGaps(ss)

\* The SampleCheck.  Step 1 returns early: all flags down, only its own gaps, but the
\* fingerprint all the same.
SampleCheck(ss) ==
  IF ~ ss.tagsOk
  THEN [coverage_complete |-> FALSE, confirmed |-> FALSE, ok_for_verify |-> FALSE,
        gaps |-> {"schema_invalid"}, fp |-> Fingerprint(ss)]
  ELSE [coverage_complete |-> CoverageComplete(ss),
        confirmed |-> Attested(ss) /\ FpMatches(ss),
        ok_for_verify |-> OkForVerify(ss),
        gaps |-> CoverageGaps(ss) \cup ConfirmationGaps(ss),
        fp |-> Fingerprint(ss)]

\* What check_samples comes to: hashing raises on a string without a UTF-8 form, and
\* the scan for unknown tags, which decodes every expectation and catches nothing but
\* an unknown tag, on a number in a LitRef that is not finite.
CheckOutcome(ss) == IF ~ ss.encodes THEN "raises"
                     ELSE IF SampleCheck(ss).ok_for_verify THEN "ok" ELSE "rejected"
=============================================================================

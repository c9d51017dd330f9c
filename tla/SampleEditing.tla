---------------------------- MODULE SampleEditing ----------------------------
(***************************************************************************)
(* How a SampleSet comes about: obligations and waivers are proposed and   *)
(* then accepted or rejected one by one, cases are added, and in the end   *)
(* the set is confirmed.  check_samples may be run at any point, so its    *)
(* answers are judged on every document on the way.  The documents are     *)
(* ones check_samples gives an answer on; that it may raise instead is     *)
(* followed where its callers are, in VerifyPipeline and AuthoringSession. *)
(***************************************************************************)
EXTENDS CheckSamples

CONSTANTS
  EditKinds,   \* kinds of obligation proposed
  EditShapes,  \* what pointers find in the inputs of the cases added
  MaxItems     \* bound on obligations, cases and waivers together

VARIABLE ss
vars == <<ss>>

ObligationDrafts ==
  {ob \in [id : Ids, kind : EditKinds, target : Pointers \cup {NoTarget, BadTarget},
           acceptance : {"proposed"}] : ob.kind \in FreeKinds => ob.target = NoTarget}
CaseDrafts == [id : {"c1", "c2"}, satisfies : SUBSET Ids, input : [Pointers -> EditShapes]]
WaiverDrafts == [id : {"w1"}, clears : SUBSET Ids \ {{}}, acceptance : {"proposed"}]

Unconfirmed == [confirmed |-> FALSE, by |-> "none", fp |-> EmptyFingerprint]
Empty(tagsOk) == [coverage |-> <<>>, cases |-> <<>>, waivers |-> <<>>,
                  includes |-> "none", tagsOk |-> tagsOk, finite |-> TRUE,
                  encodes |-> TRUE, confirmation |-> Unconfirmed]

Editable == ss.confirmation = Unconfirmed
Room == Editable /\ Len(ss.coverage) + Len(ss.cases) + Len(ss.waivers) < MaxItems

ProposeObligation == \E ob \in ObligationDrafts :
  Room /\ ss' = [ss EXCEPT !.coverage = Append(@, ob)]

AddCase == \E case \in CaseDrafts :
  Room /\ ss' = [ss EXCEPT !.cases = Append(@, case)]

ProposeWaiver == \E w \in WaiverDrafts :
  Room /\ ss' = [ss EXCEPT !.waivers = Append(@, w)]

\* The user's decision on one proposed item.
DecideObligation == \E k \in DOMAIN ss.coverage, d \in {"accepted", "rejected"} :
  /\ Editable /\ ss.coverage[k].acceptance = "proposed"
  /\ ss' = [ss EXCEPT !.coverage[k].acceptance = d]

DecideWaiver == \E k \in DOMAIN ss.waivers, d \in {"accepted", "rejected"} :
  /\ Editable /\ ss.waivers[k].acceptance = "proposed"
  /\ ss' = [ss EXCEPT !.waivers[k].acceptance = d]

\* The confirmation block is written, properly or not.
Confirm == \E by \in {"user", "none"}, flag \in BOOLEAN,
              fp \in {Fingerprint(ss), EmptyFingerprint} :
  /\ Editable
  /\ ss' = [ss EXCEPT !.confirmation = [confirmed |-> flag, by |-> by, fp |-> fp]]

Init == ss \in {Empty(ok) : ok \in BOOLEAN}
Next == \/ ProposeObligation \/ AddCase \/ ProposeWaiver
        \/ DecideObligation \/ DecideWaiver \/ Confirm
Spec == Init /\ [][Next]_vars

-----------------------------------------------------------------------------
\* The gap list tells the whole story: verification is allowed exactly when every gap
\* reported is one of the two warnings.  The flags and the gaps are computed apart in
\* check_samples; a reject without a reason, or a blocking reason without a reject,
\* would leave the sample loop with nothing to present or nothing to stop for.
Warnings == {"waiver_invalid", "case_satisfies_unknown"}
GapsDecide == LET check == SampleCheck(ss) IN
  check.ok_for_verify <=> check.gaps \subseteq Warnings

\* A set that may be verified against leaves nothing open (AC-016): every obligation
\* was decided, and each accepted one has its own evidence, an accepted waiver that
\* names it or a case that claims it and whose input has the shape asked for.
EvidenceForAll ==
  SampleCheck(ss).ok_for_verify =>
    \A k \in DOMAIN ss.coverage :
      LET ob == ss.coverage[k] IN
      /\ ob.acceptance \in {"accepted", "rejected"}
      /\ ob.acceptance = "accepted" =>
           \/ \E w \in Items(ss.waivers) : w.acceptance = "accepted" /\ ob.id \in w.clears
           \/ \E case \in Items(ss.cases) :
                /\ ob.id \in case.satisfies
                /\ ob.kind \in PointerKinds =>
                     ob.target \in Pointers /\ case.input[ob.target] \in Admits[ob.kind]

\* More evidence never hurts: adding a case, or accepting a waiver, never turns
\* complete coverage into incomplete coverage, so the sample loop cannot go backwards
\* while the user only adds and accepts.
EvidenceIsMonotone ==
  [][ss'.coverage = ss.coverage /\ CoverageComplete(ss) => CoverageComplete(ss')]_vars
=============================================================================

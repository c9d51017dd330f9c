-------------------------- MODULE SampleEditingProofs --------------------------
(***************************************************************************)
(* For any ids, pointers, kinds and length of a SampleSet: the gap list    *)
(* and the flags of check_samples agree, and what they let through is      *)
(* decided and evidenced, wherever the editing stands.                     *)
(*                                                                         *)
(* And for values of any depth, over any keys: a case that is matched has  *)
(* no diff just when the engine returned what the sample means.  The       *)
(* functions of MatchValues are recursive, so this goes in three parts:    *)
(* they exist (Recursion, and one lemma for each: EncodeIs, DecodeIs,      *)
(* MeaningIs, WalkIs); one step of each keeps what is claimed (the lemmas  *)
(* on nodes); and so it holds at every level (Climb).                      *)
(***************************************************************************)
EXTENDS SampleMatching, WellFoundedInduction, TLAPS

USE PointersAssumption

\* What editing makes of a SampleSet: a document with its fields, whose obligations and
\* waivers have been decided or are still proposed.
Acceptances == {"proposed", "accepted", "rejected"}
Obligations == [id : Ids, kind : EditKinds, target : Pointers \cup {NoTarget, BadTarget},
                acceptance : Acceptances]
Waivers == [id : {"w1"}, clears : SUBSET Ids \ {{}}, acceptance : Acceptances]
DocInv ==
  /\ {"coverage", "cases", "waivers", "confirmation"} \subseteq DOMAIN ss
  /\ ss.coverage \in Seq(Obligations)
  /\ ss.cases \in Seq(CaseDrafts)
  /\ ss.waivers \in Seq(Waivers)

-----------------------------------------------------------------------------
\* An item of a sequence over S is in S.
LEMMA ItemsOf == ASSUME NEW S, NEW q \in Seq(S), NEW k \in DOMAIN q PROVE q[k] \in S
OBVIOUS

\* A list with one more item has the items it had, and that one.
LEMMA OneMore ==
  ASSUME NEW S, NEW q \in Seq(S), NEW x \in S
  PROVE  /\ Append(q, x) \in Seq(S) /\ Append(q, x) # q
         /\ Items(Append(q, x)) = Items(q) \cup {x}
<1>1. /\ Append(q, x) \in Seq(S) /\ Len(Append(q, x)) = Len(q) + 1
      /\ DOMAIN q = 1..Len(q) /\ DOMAIN Append(q, x) = 1..Len(q) + 1 /\ Len(q) \in Nat
      /\ \A i \in 1..Len(q) : Append(q, x)[i] = q[i]
      /\ Append(q, x)[Len(q) + 1] = x
  OBVIOUS
<1>2. Append(q, x) # q
  <2>1. \A n \in Nat : n + 1 # n
    OBVIOUS
  <2>2. Len(q) + 1 # Len(q)
    BY <1>1, <2>1
  <2>3. QED
    BY <1>1, <2>2
<1>3. Items(Append(q, x)) = Items(q) \cup {x}
  <2>1. 1..Len(q) + 1 = (1..Len(q)) \cup {Len(q) + 1}
    BY <1>1
  <2>2. QED
    BY <1>1, <2>1 DEF Items
<1>4. QED
  BY <1>1, <1>2, <1>3

\* A list with one item changed.
LEMMA OneChanged ==
  ASSUME NEW S, NEW q \in Seq(S), NEW k \in DOMAIN q, NEW x \in S, x # q[k]
  PROVE  /\ [q EXCEPT ![k] = x] \in Seq(S) /\ [q EXCEPT ![k] = x] # q
         /\ Items([q EXCEPT ![k] = x]) \subseteq Items(q) \cup {x}
         /\ Items(q) \subseteq Items([q EXCEPT ![k] = x]) \cup {q[k]}
<1>1. DOMAIN [q EXCEPT ![k] = x] = DOMAIN q /\ [q EXCEPT ![k] = x] \in Seq(S)
  OBVIOUS
<1>2. [q EXCEPT ![k] = x][k] = x
  OBVIOUS
<1>3. \A j \in DOMAIN q : j # k => [q EXCEPT ![k] = x][j] = q[j]
  OBVIOUS
<1>4. QED
  BY <1>1, <1>2, <1>3 DEF Items

-----------------------------------------------------------------------------
\* A code is raised just when its condition holds.
LEMMA GapsAre ==
  ASSUME NEW d
  PROVE  /\ "duplicate_id" \in CoverageGaps(d) <=> \E items \in {d.coverage, d.cases, d.waivers} : Repeats(items)
         /\ "obligation_not_accepted" \in CoverageGaps(d) <=> Proposed(d) # {}
         /\ "unmet" \in CoverageGaps(d) <=> Unmet(d) # {}
         /\ "no_cases" \in CoverageGaps(d) <=> d.cases = <<>>
         /\ "target_required" \in CoverageGaps(d) <=>
              \E ob \in Pending(d) : ob.kind \in PointerKinds /\ ob.target = NoTarget
         /\ "target_invalid" \in CoverageGaps(d) <=>
              \E ob \in Pending(d) : ob.kind \in PointerKinds /\ ob.target = BadTarget
         /\ CoverageGaps(d) \subseteq {"duplicate_id", "obligation_not_accepted", "target_required",
              "target_invalid", "unmet", "waiver_invalid", "case_satisfies_unknown", "no_cases"}
         /\ "unconfirmed" \in ConfirmationGaps(d) <=> ~Attested(d)
         /\ "fingerprint_mismatch" \in ConfirmationGaps(d) <=> ~FpMatches(d)
         /\ ConfirmationGaps(d) \subseteq {"unconfirmed", "fingerprint_mismatch"}
<1>1. /\ "duplicate_id" \in CoverageGaps(d) <=> \E items \in {d.coverage, d.cases, d.waivers} : Repeats(items)
      /\ "obligation_not_accepted" \in CoverageGaps(d) <=> Proposed(d) # {}
      /\ "unmet" \in CoverageGaps(d) <=> Unmet(d) # {}
      /\ "no_cases" \in CoverageGaps(d) <=> d.cases = <<>>
  BY DEF CoverageGaps, Raised
<1>2. /\ "target_required" \in CoverageGaps(d) <=>
           \E ob \in Pending(d) : ob.kind \in PointerKinds /\ ob.target = NoTarget
      /\ "target_invalid" \in CoverageGaps(d) <=>
           \E ob \in Pending(d) : ob.kind \in PointerKinds /\ ob.target = BadTarget
  BY DEF CoverageGaps, Raised
<1>3. CoverageGaps(d) \subseteq {"duplicate_id", "obligation_not_accepted", "target_required",
        "target_invalid", "unmet", "waiver_invalid", "case_satisfies_unknown", "no_cases"}
  BY DEF CoverageGaps, Raised
<1>4. /\ "unconfirmed" \in ConfirmationGaps(d) <=> ~Attested(d)
      /\ "fingerprint_mismatch" \in ConfirmationGaps(d) <=> ~FpMatches(d)
      /\ ConfirmationGaps(d) \subseteq {"unconfirmed", "fingerprint_mismatch"}
  BY DEF ConfirmationGaps, Raised
<1>5. QED
  BY <1>1, <1>2, <1>3, <1>4

\* An obligation of a pointer kind is met only through a pointer.
LEMMA KindsApart == PointerKinds \cap FreeKinds = {}
BY DEF PointerKinds, FreeKinds, Admits

\* Whatever the document, it may be verified against just when its gaps are warnings.
LEMMA GapsDecideAlways == GapsDecide
<1> DEFINE report == SampleCheck(ss)
<1>1. CASE ~ss.tagsOk
  BY <1>1 DEF GapsDecide, SampleCheck, Warnings
<1>2. CASE ss.tagsOk
  <2>1. report.ok_for_verify = OkForVerify(ss) /\ report.gaps = CoverageGaps(ss) \cup ConfirmationGaps(ss)
    BY <1>2 DEF SampleCheck
  <2>2. ASSUME OkForVerify(ss) PROVE report.gaps \subseteq Warnings
    <3>1. /\ Unmet(ss) = {} /\ Proposed(ss) = {} /\ ss.cases # <<>>
          /\ Attested(ss) /\ FpMatches(ss) /\ "duplicate_id" \notin CoverageGaps(ss)
      BY <2>2 DEF OkForVerify, CoverageComplete
    <3>2. ASSUME NEW ob \in Pending(ss), ob.kind \in PointerKinds PROVE ob.target \in Pointers
      <4>1. Met(ss, ob)
        BY <3>1 DEF Unmet
      <4>2. ob.kind \notin FreeKinds
        BY <3>2, KindsApart
      <4>3. QED
        BY <4>1, <4>2 DEF Met, MetBy
    <3>3. "target_required" \notin CoverageGaps(ss) /\ "target_invalid" \notin CoverageGaps(ss)
      BY <3>2, GapsAre
    <3>4. CoverageGaps(ss) \subseteq Warnings
      BY <3>1, <3>3, GapsAre DEF Warnings
    <3>5. ConfirmationGaps(ss) = {}
      BY <3>1, GapsAre
    <3>6. QED
      BY <2>1, <3>4, <3>5
  <2>3. ASSUME report.gaps \subseteq Warnings PROVE OkForVerify(ss)
    <3>1. CoverageGaps(ss) \subseteq Warnings /\ ConfirmationGaps(ss) \subseteq Warnings
      BY <2>1, <2>3
    <3>2. /\ "duplicate_id" \notin CoverageGaps(ss) /\ "obligation_not_accepted" \notin CoverageGaps(ss)
          /\ "unmet" \notin CoverageGaps(ss) /\ "no_cases" \notin CoverageGaps(ss)
          /\ "unconfirmed" \notin ConfirmationGaps(ss) /\ "fingerprint_mismatch" \notin ConfirmationGaps(ss)
      BY <3>1 DEF Warnings
    <3>3. QED
      BY <3>2, GapsAre DEF OkForVerify, CoverageComplete
  <2>4. report.ok_for_verify <=> report.gaps \subseteq Warnings
    BY <2>1, <2>2, <2>3
  <2>5. QED
    BY <2>4 DEF GapsDecide
<1>3. QED
  BY <1>1, <1>2

\* Verification is allowed of complete, unambiguous documents only.
LEMMA OkMeans ==
  ASSUME SampleCheck(ss).ok_for_verify
  PROVE  Unmet(ss) = {} /\ Proposed(ss) = {} /\ ~Repeats(ss.coverage)
<1>1. OkForVerify(ss)
  BY DEF SampleCheck
<1>2. QED
  BY <1>1, GapsAre DEF OkForVerify, CoverageComplete

\* What may be verified against is decided and evidenced.
LEMMA EvidenceFollows == ASSUME DocInv PROVE EvidenceForAll
<1> SUFFICES ASSUME SampleCheck(ss).ok_for_verify, NEW k \in DOMAIN ss.coverage
             PROVE  LET ob == ss.coverage[k] IN
                    /\ ob.acceptance \in {"accepted", "rejected"}
                    /\ ob.acceptance = "accepted" =>
                         \/ \E w \in Items(ss.waivers) : w.acceptance = "accepted" /\ ob.id \in w.clears
                         \/ \E c \in Items(ss.cases) :
                              /\ ob.id \in c.satisfies
                              /\ ob.kind \in PointerKinds =>
                                   ob.target \in Pointers /\ c.input[ob.target] \in Admits[ob.kind]
  BY DEF EvidenceForAll
<1> DEFINE ob == ss.coverage[k]
<1>1. Unmet(ss) = {} /\ Proposed(ss) = {}
  BY OkMeans
<1>2. ob \in Items(ss.coverage) /\ ob.acceptance \in Acceptances
  <2>1. ob \in Items(ss.coverage)
    BY DEF Items
  <2>2. ob \in Obligations
    <3>1. ss.coverage \in Seq(Obligations)
      BY DEF DocInv
    <3>2. QED
      BY <3>1, ItemsOf
  <2>3. QED
    BY <2>1, <2>2 DEF Obligations
<1> HIDE DEF ob
<1>3. ob.acceptance \in {"accepted", "rejected"}
  BY <1>1, <1>2 DEF Proposed, Acceptances
<1>4. ASSUME ob.acceptance = "accepted", ob.id \in Cleared(ss)
      PROVE  \E w \in Items(ss.waivers) : w.acceptance = "accepted" /\ ob.id \in w.clears
  BY <1>4 DEF Cleared
<1>5. ASSUME ob.acceptance = "accepted", ob.id \notin Cleared(ss)
      PROVE  \E c \in Items(ss.cases) :
               /\ ob.id \in c.satisfies
               /\ ob.kind \in PointerKinds =>
                    ob.target \in Pointers /\ c.input[ob.target] \in Admits[ob.kind]
  <2>1. Met(ss, ob)
    BY <1>1, <1>2, <1>5 DEF Pending, Unmet
  <2>2. PICK c \in Items(ss.cases) : MetBy(ob, c)
    BY <2>1 DEF Met
  <2>3. ob.kind \in PointerKinds => ob.kind \notin FreeKinds
    BY KindsApart
  <2>4. QED
    BY <2>2, <2>3 DEF MetBy
<1>6. QED
  BY <1>3, <1>4, <1>5 DEF ob


-----------------------------------------------------------------------------
\* What each edit does to the lists.
LEMMA EditSteps ==
  ASSUME DocInv, Next
  PROVE  \/ \E ob \in ObligationDrafts : ss' = [ss EXCEPT !.coverage = Append(@, ob)]
         \/ \E c \in CaseDrafts : ss' = [ss EXCEPT !.cases = Append(@, c)]
         \/ \E w \in WaiverDrafts : ss' = [ss EXCEPT !.waivers = Append(@, w)]
         \/ \E k \in DOMAIN ss.coverage, x \in Obligations :
              ss.coverage[k].acceptance = "proposed" /\ x # ss.coverage[k]
              /\ ss' = [ss EXCEPT !.coverage = [ss.coverage EXCEPT ![k] = x]]
         \/ \E k \in DOMAIN ss.waivers, x \in Waivers :
              /\ ss.waivers[k].acceptance = "proposed"
              /\ x.clears = ss.waivers[k].clears /\ x.acceptance \in {"accepted", "rejected"}
              /\ ss' = [ss EXCEPT !.waivers = [ss.waivers EXCEPT ![k] = x]]
         \/ \E c : ss' = [ss EXCEPT !.confirmation = c]
<1>1. CASE ProposeObligation
  BY <1>1 DEF ProposeObligation
<1>2. CASE AddCase
  BY <1>2 DEF AddCase
<1>3. CASE ProposeWaiver
  BY <1>3 DEF ProposeWaiver
<1>4. CASE DecideObligation
  <2>1. PICK k \in DOMAIN ss.coverage, d \in {"accepted", "rejected"} :
          /\ ss.coverage[k].acceptance = "proposed"
          /\ ss' = [ss EXCEPT !.coverage[k].acceptance = d]
    BY <1>4 DEF DecideObligation
  <2> DEFINE x == [ss.coverage[k] EXCEPT !.acceptance = d]
  <2>2. ss.coverage[k] \in Obligations
    <3>1. ss.coverage \in Seq(Obligations)
      BY DEF DocInv
    <3>2. QED
      BY <3>1, ItemsOf
  <2>3. x \in Obligations /\ x.acceptance = d
    BY <2>2 DEF Obligations, Acceptances
  <2>4. x # ss.coverage[k]
    BY <2>1, <2>3
  <2>5. ss' = [ss EXCEPT !.coverage = [ss.coverage EXCEPT ![k] = x]]
    BY <2>1
  <2> HIDE DEF x
  <2>6. QED
    BY <2>1, <2>3, <2>4, <2>5
<1>5. CASE DecideWaiver
  <2>1. PICK k \in DOMAIN ss.waivers, d \in {"accepted", "rejected"} :
          /\ ss.waivers[k].acceptance = "proposed"
          /\ ss' = [ss EXCEPT !.waivers[k].acceptance = d]
    BY <1>5 DEF DecideWaiver
  <2> DEFINE x == [ss.waivers[k] EXCEPT !.acceptance = d]
  <2>2. ss.waivers[k] \in Waivers
    <3>1. ss.waivers \in Seq(Waivers)
      BY DEF DocInv
    <3>2. QED
      BY <3>1, ItemsOf
  <2>3. x \in Waivers /\ x.acceptance = d /\ x.clears = ss.waivers[k].clears
    BY <2>2 DEF Waivers, Acceptances
  <2>4. ss' = [ss EXCEPT !.waivers = [ss.waivers EXCEPT ![k] = x]]
    BY <2>1
  <2> HIDE DEF x
  <2>5. QED
    BY <2>1, <2>3, <2>4
<1>6. CASE Confirm
  BY <1>6 DEF Confirm
<1>7. QED
  BY <1>1, <1>2, <1>3, <1>4, <1>5, <1>6 DEF Next

\* An edit of one field leaves the others.
LEMMA FieldEdited ==
  ASSUME DocInv, NEW f \in {"coverage", "cases", "waivers", "confirmation"}, NEW v,
         ss' = [ss EXCEPT ![f] = v]
  PROVE  /\ DOMAIN ss' = DOMAIN ss /\ ss'[f] = v
         /\ \A g \in {"coverage", "cases", "waivers"} : g # f => ss'[g] = ss[g]
BY DEF DocInv

\* The empty SampleSet is one.
LEMMA DocInitial == Init => DocInv
<1> SUFFICES ASSUME NEW ok \in BOOLEAN, ss = Empty(ok) PROVE DocInv
  BY DEF Init
<1>1. <<>> \in Seq(Obligations) /\ <<>> \in Seq(CaseDrafts) /\ <<>> \in Seq(Waivers)
  OBVIOUS
<1>2. QED
  BY <1>1 DEF Empty, DocInv

\* Editing a SampleSet makes a SampleSet, and so does doing nothing.
LEMMA DocKept == ASSUME DocInv, [Next]_vars PROVE DocInv'
<1>1. CASE UNCHANGED vars
  BY <1>1 DEF vars, DocInv
<1>2. ASSUME NEW ob \in ObligationDrafts, ss' = [ss EXCEPT !.coverage = Append(@, ob)] PROVE DocInv'
  <2>1. ob \in Obligations /\ ss.coverage \in Seq(Obligations)
    BY DEF ObligationDrafts, Obligations, Acceptances, DocInv
  <2>2. Append(ss.coverage, ob) \in Seq(Obligations)
    BY <2>1, OneMore
  <2>3. QED
    BY <1>2, <2>2, FieldEdited DEF DocInv
<1>3. ASSUME NEW c \in CaseDrafts, ss' = [ss EXCEPT !.cases = Append(@, c)] PROVE DocInv'
  <2>1. Append(ss.cases, c) \in Seq(CaseDrafts)
    BY OneMore DEF DocInv
  <2>2. QED
    BY <1>3, <2>1, FieldEdited DEF DocInv
<1>4. ASSUME NEW w \in WaiverDrafts, ss' = [ss EXCEPT !.waivers = Append(@, w)] PROVE DocInv'
  <2>1. w \in Waivers /\ ss.waivers \in Seq(Waivers)
    BY DEF WaiverDrafts, Waivers, Acceptances, DocInv
  <2>2. Append(ss.waivers, w) \in Seq(Waivers)
    BY <2>1, OneMore
  <2>3. QED
    BY <1>4, <2>2, FieldEdited DEF DocInv
<1>5. ASSUME NEW k \in DOMAIN ss.coverage, NEW x \in Obligations,
             ss' = [ss EXCEPT !.coverage = [ss.coverage EXCEPT ![k] = x]]
      PROVE  DocInv'
  <2>1. [ss.coverage EXCEPT ![k] = x] \in Seq(Obligations)
    <3>1. ss.coverage \in Seq(Obligations)
      BY DEF DocInv
    <3>2. QED
      BY <3>1
  <2>2. QED
    BY <1>5, <2>1, FieldEdited DEF DocInv
<1>6. ASSUME NEW k \in DOMAIN ss.waivers, NEW x \in Waivers,
             ss' = [ss EXCEPT !.waivers = [ss.waivers EXCEPT ![k] = x]]
      PROVE  DocInv'
  <2>1. [ss.waivers EXCEPT ![k] = x] \in Seq(Waivers)
    <3>1. ss.waivers \in Seq(Waivers)
      BY DEF DocInv
    <3>2. QED
      BY <3>1
  <2>2. QED
    BY <1>6, <2>1, FieldEdited DEF DocInv
<1>7. ASSUME NEW c, ss' = [ss EXCEPT !.confirmation = c] PROVE DocInv'
  BY <1>7, FieldEdited DEF DocInv
<1>8. QED
  BY <1>1, <1>2, <1>3, <1>4, <1>5, <1>6, <1>7, EditSteps

\* What editing makes is a SampleSet.
THEOREM DocInvariant == Spec => []DocInv
<1>1. Init => DocInv
  BY DocInitial
<1>2. DocInv /\ [Next]_vars => DocInv'
  BY DocKept
<1>3. QED
  BY <1>1, <1>2, PTL DEF Spec

\* The gap list tells the whole story, wherever the editing stands.
THEOREM GapsTell == Spec => []GapsDecide
<1>1. GapsDecide
  BY GapsDecideAlways
<1>2. QED
  BY <1>1, PTL

\* What may be verified against is decided and evidenced.
THEOREM EvidenceHolds == Spec => []EvidenceForAll
<1>1. DocInv => EvidenceForAll
  BY EvidenceFollows
<1>2. QED
  BY <1>1, DocInvariant, PTL

-----------------------------------------------------------------------------
\* What is cleared and what is met grows with waivers accepted and with cases.
LEMMA MoreEvidence ==
  ASSUME ss'.coverage = ss.coverage, Items(ss.cases) \subseteq Items(ss'.cases),
         \A w \in Items(ss.waivers) : w.acceptance = "accepted" => w \in Items(ss'.waivers),
         CoverageComplete(ss), ss'.cases # <<>>
  PROVE  CoverageComplete(ss')
<1>1. Unmet(ss) = {} /\ Proposed(ss) = {}
  BY DEF CoverageComplete
<1>2. Cleared(ss) \subseteq Cleared(ss')
  BY DEF Cleared, Known
<1>3. Pending(ss') \subseteq Pending(ss)
  BY <1>2 DEF Pending
<1>4. \A ob : Met(ss, ob) => Met(ss', ob)
  BY DEF Met
<1>5. Unmet(ss') = {}
  BY <1>1, <1>3, <1>4 DEF Unmet
<1>6. Proposed(ss') = {}
  BY <1>1 DEF Proposed
<1>7. QED
  BY <1>5, <1>6 DEF CoverageComplete

\* The sample loop never goes backwards while the user only adds and accepts.
THEOREM LoopGoesForward == Spec => EvidenceIsMonotone
<1> DEFINE Forward == ss'.coverage = ss.coverage /\ CoverageComplete(ss) => CoverageComplete(ss')
<1>1. ASSUME DocInv, [Next]_vars PROVE [Forward]_vars
  <2> SUFFICES ASSUME Next, ss'.coverage = ss.coverage, CoverageComplete(ss)
               PROVE  CoverageComplete(ss')
    BY <1>1 DEF vars
  <2>1. ss.cases # <<>> /\ ss.cases \in Seq(CaseDrafts) /\ ss.waivers \in Seq(Waivers)
        /\ ss.coverage \in Seq(Obligations)
    BY <1>1 DEF CoverageComplete, DocInv
  <2>2. ASSUME NEW ob \in ObligationDrafts, ss' = [ss EXCEPT !.coverage = Append(@, ob)] PROVE FALSE
    <3>1. ob \in Obligations
      BY DEF ObligationDrafts, Obligations, Acceptances
    <3>2. Append(ss.coverage, ob) # ss.coverage
      BY <2>1, <3>1, OneMore
    <3>3. ss'.coverage = Append(ss.coverage, ob)
      BY <1>1, <2>2, FieldEdited
    <3>4. QED
      BY <3>2, <3>3
  <2>3. ASSUME NEW c \in CaseDrafts, ss' = [ss EXCEPT !.cases = Append(@, c)]
        PROVE  CoverageComplete(ss')
    <3>1. /\ ss'.cases = Append(ss.cases, c) /\ ss'.waivers = ss.waivers
      BY <1>1, <2>3, FieldEdited
    <3>2. Items(ss.cases) \subseteq Items(ss'.cases)
      BY <2>1, <3>1, OneMore
    <3>3. ss'.cases # <<>>
      BY <2>1, <3>1
    <3>4. QED
      BY <3>1, <3>2, <3>3, MoreEvidence
  <2>4. ASSUME NEW w \in WaiverDrafts, ss' = [ss EXCEPT !.waivers = Append(@, w)]
        PROVE  CoverageComplete(ss')
    <3>1. ss'.waivers = Append(ss.waivers, w) /\ ss'.cases = ss.cases
      BY <1>1, <2>4, FieldEdited
    <3>2. w \in Waivers
      BY DEF WaiverDrafts, Waivers, Acceptances
    <3>3. Items(ss.waivers) \subseteq Items(ss'.waivers)
      BY <2>1, <3>1, <3>2, OneMore
    <3>4. QED
      BY <2>1, <3>1, <3>3, MoreEvidence
  <2>5. ASSUME NEW k \in DOMAIN ss.coverage, NEW x \in Obligations, x # ss.coverage[k],
               ss' = [ss EXCEPT !.coverage = [ss.coverage EXCEPT ![k] = x]]
        PROVE  FALSE
    <3>1. ss'.coverage = [ss.coverage EXCEPT ![k] = x]
      BY <1>1, <2>5, FieldEdited
    <3>2. [ss.coverage EXCEPT ![k] = x] # ss.coverage
      BY <2>1, <2>5, OneChanged
    <3>3. QED
      BY <3>1, <3>2
  <2>6. ASSUME NEW k \in DOMAIN ss.waivers, NEW x \in Waivers,
               ss.waivers[k].acceptance = "proposed", x.acceptance \in {"accepted", "rejected"},
               ss' = [ss EXCEPT !.waivers = [ss.waivers EXCEPT ![k] = x]]
        PROVE  CoverageComplete(ss')
    <3>1. ss'.waivers = [ss.waivers EXCEPT ![k] = x] /\ ss'.cases = ss.cases
      BY <1>1, <2>6, FieldEdited
    <3>2. x # ss.waivers[k]
      BY <2>6
    <3>3. Items(ss.waivers) \subseteq Items(ss'.waivers) \cup {ss.waivers[k]}
      BY <2>1, <3>1, <3>2, OneChanged
    <3>4. \A w \in Items(ss.waivers) : w.acceptance = "accepted" => w \in Items(ss'.waivers)
      BY <2>6, <3>3
    <3>5. QED
      BY <2>1, <3>1, <3>4, MoreEvidence
  <2>7. ASSUME NEW c, ss' = [ss EXCEPT !.confirmation = c] PROVE CoverageComplete(ss')
    <3>1. ss'.cases = ss.cases /\ ss'.waivers = ss.waivers
      BY <1>1, <2>7, FieldEdited
    <3>2. QED
      BY <2>1, <3>1, MoreEvidence
  <2>8. QED
    BY <1>1, <2>2, <2>3, <2>4, <2>5, <2>6, <2>7, EditSteps
<1>2. QED
  BY <1>1, DocInvariant, PTL DEF Spec, EvidenceIsMonotone

-----------------------------------------------------------------------------
USE KeysAssumption

\* A set of numbers that holds zero and with every number the next one holds them all.
LEMMA Climb ==
  ASSUME NEW P \in SUBSET Nat, 0 \in P, \A n \in P : n + 1 \in P
  PROVE  P = Nat
<1> SUFFICES ASSUME Nat \ P # {} PROVE FALSE
  OBVIOUS
<1>1. PICK m \in Nat \ P : \A j \in Nat \ P : ~(<<j, m>> \in OpToRel(<, Nat))
  BY NatLessThanWellFounded, WFMin, Zenon
<1>2. \A j \in Nat \ P : ~(j < m)
  BY <1>1, Zenon DEF OpToRel
<1>3. m # 0 /\ m - 1 \in Nat /\ m - 1 < m
  OBVIOUS
<1>4. m - 1 \in P
  BY <1>2, <1>3
<1>5. (m - 1) + 1 = m
  BY <1>3
<1>6. QED
  BY <1>1, <1>4, <1>5

\* What is built step by step exists: the values so far, of a length that grows.
Builds(g, n, x, s) == g = [i \in 0..n |-> IF i = 0 THEN x ELSE s[i - 1][g[i - 1]]]

\* A function on the numbers that is built step by step exists, and stays within its sets.
LEMMA Recursion ==
  ASSUME NEW D, NEW x \in D[0], NEW s, \A n \in Nat : s[n] \in [D[n] -> D[n + 1]]
  PROVE  \E f : /\ f = [n \in Nat |-> IF n = 0 THEN x ELSE s[n - 1][f[n - 1]]]
                /\ \A n \in Nat : f[n] \in D[n]
<1>1. ASSUME NEW n \in Nat PROVE \E g : Builds(g, n, x, s)
  <2> DEFINE P == {k \in Nat : \E g : Builds(g, k, x, s)}
  <2>1. 0 \in P
    <3> DEFINE g == [i \in 0..0 |-> x]
    <3>1. Builds(g, 0, x, s)
      BY DEF Builds
    <3>2. QED
      BY <3>1
  <2>2. ASSUME NEW k \in P PROVE k + 1 \in P
    <3>1. PICK g : Builds(g, k, x, s)
      OBVIOUS
    <3> DEFINE h == [i \in 0..(k + 1) |-> IF i <= k THEN g[i] ELSE s[k][g[k]]]
    <3>2. ASSUME NEW i \in 0..(k + 1) PROVE h[i] = IF i = 0 THEN x ELSE s[i - 1][h[i - 1]]
      <4>1. CASE i <= k
        <5>1. h[i] = g[i] /\ (i # 0 => i - 1 \in 0..k /\ h[i - 1] = g[i - 1])
          BY <4>1
        <5>2. g[i] = IF i = 0 THEN x ELSE s[i - 1][g[i - 1]]
          BY <3>1, <4>1 DEF Builds
        <5>3. QED
          BY <5>1, <5>2
      <4>2. CASE i = k + 1
        <5>1. h[i] = s[k][g[k]] /\ i # 0 /\ i - 1 = k /\ h[k] = g[k]
          BY <4>2
        <5>2. QED
          BY <5>1
      <4>3. QED
        BY <4>1, <4>2
    <3>3. Builds(h, k + 1, x, s)
      BY <3>2 DEF Builds
    <3>4. QED
      BY <3>3
  <2> HIDE DEF P
  <2>3. P \in SUBSET Nat
    BY DEF P
  <2>4. P = Nat
    BY <2>1, <2>2, <2>3, Climb
  <2>5. QED
    BY <2>4 DEF P
<1>2. ASSUME NEW n \in Nat, NEW m \in Nat, NEW g, NEW h, Builds(g, n, x, s), Builds(h, m, x, s)
      PROVE  \A i \in Nat : i <= n /\ i <= m => g[i] = h[i] /\ g[i] \in D[i]
  <2> DEFINE P == {i \in Nat : i <= n /\ i <= m => g[i] = h[i] /\ g[i] \in D[i]}
  <2>1. 0 \in P
    BY <1>2 DEF Builds
  <2>2. ASSUME NEW i \in P PROVE i + 1 \in P
    <3> SUFFICES ASSUME i + 1 <= n, i + 1 <= m PROVE g[i + 1] = h[i + 1] /\ g[i + 1] \in D[i + 1]
      OBVIOUS
    <3>1. g[i] = h[i] /\ g[i] \in D[i]
      OBVIOUS
    <3>2. i + 1 \in 0..n /\ i + 1 \in 0..m /\ i + 1 # 0 /\ (i + 1) - 1 = i
      OBVIOUS
    <3>3. g[i + 1] = s[i][g[i]] /\ h[i + 1] = s[i][h[i]]
      BY <1>2, <3>2 DEF Builds
    <3>4. QED
      BY <3>1, <3>3
  <2> HIDE DEF P
  <2>3. P = Nat
    <3>1. P \in SUBSET Nat
      BY DEF P
    <3>2. QED
      BY <2>1, <2>2, <3>1, Climb
  <2>4. QED
    BY <2>3 DEF P
<1> DEFINE g(n) == CHOOSE h : Builds(h, n, x, s)
           f == [n \in Nat |-> g(n)[n]]
<1>3. ASSUME NEW n \in Nat PROVE Builds(g(n), n, x, s)
  BY <1>1
<1>4. ASSUME NEW n \in Nat PROVE f[n] = IF n = 0 THEN x ELSE s[n - 1][f[n - 1]]
  <2>1. f[n] = g(n)[n]
    OBVIOUS
  <2>2. CASE n = 0
    <3>1. Builds(g(0), 0, x, s)
      BY <1>3
    <3> HIDE DEF g
    <3>2. g(0)[0] = x
      BY <3>1 DEF Builds
    <3>3. QED
      BY <2>1, <2>2, <3>2
  <2>3. CASE n # 0
    <3>1. n - 1 \in Nat /\ n - 1 \in 0..n /\ n \in 0..n
      BY <2>3
    <3>2. Builds(g(n), n, x, s) /\ Builds(g(n - 1), n - 1, x, s)
      BY <1>3, <3>1
    <3> HIDE DEF g
    <3>3. g(n)[n] = s[n - 1][g(n)[n - 1]]
      BY <2>3, <3>1, <3>2 DEF Builds
    <3>4. g(n)[n - 1] = g(n - 1)[n - 1]
      BY <1>2, <3>1, <3>2
    <3>5. QED
      BY <2>1, <2>3, <3>1, <3>3, <3>4
  <2>4. QED
    BY <2>2, <2>3
<1>5. ASSUME NEW n \in Nat PROVE f[n] \in D[n]
  <2>1. Builds(g(n), n, x, s)
    BY <1>3
  <2> HIDE DEF g
  <2>2. g(n)[n] \in D[n]
    BY <1>2, <2>1
  <2>3. QED
    BY <2>2
<1>6. f = [n \in Nat |-> IF n = 0 THEN x ELSE s[n - 1][f[n - 1]]]
  <2> HIDE DEF g
  <2>1. \A n \in Nat : f[n] = IF n = 0 THEN x ELSE s[n - 1][f[n - 1]]
    BY <1>4
  <2>2. f = [n \in Nat |-> f[n]]
    OBVIOUS
  <2> HIDE DEF f
  <2>3. [n \in Nat |-> f[n]] = [n \in Nat |-> IF n = 0 THEN x ELSE s[n - 1][f[n - 1]]]
    BY <2>1
  <2>4. QED
    BY <2>2, <2>3
<1>7. QED
  <2> HIDE DEF f
  <2>1. QED
    BY <1>5, <1>6

-----------------------------------------------------------------------------
\* Levels of values: what a level is made of.
Grows(g, n, leaves) == g = [i \in 0..n |-> IF i = 0 THEN leaves ELSE leaves \cup Nested(g[i - 1])]

\* Trees holds the leaves at the bottom, and one level more of nesting at every step.
LEMMA TreesGrow ==
  ASSUME NEW leaves
  PROVE  /\ Trees(leaves)[0] = leaves
         /\ \A n \in Nat : Trees(leaves)[n + 1] = leaves \cup Nested(Trees(leaves)[n])
<1>1. ASSUME NEW n \in Nat PROVE \E g : Grows(g, n, leaves)
  <2> DEFINE P == {k \in Nat : \E g : Grows(g, k, leaves)}
  <2>1. 0 \in P
    <3> DEFINE g == [i \in 0..0 |-> leaves]
    <3>1. Grows(g, 0, leaves)
      BY DEF Grows
    <3>2. QED
      BY <3>1
  <2>2. ASSUME NEW k \in P PROVE k + 1 \in P
    <3>1. PICK g : Grows(g, k, leaves)
      OBVIOUS
    <3> DEFINE h == [i \in 0..(k + 1) |-> IF i <= k THEN g[i] ELSE leaves \cup Nested(g[k])]
    <3>2. ASSUME NEW i \in 0..(k + 1)
          PROVE  h[i] = IF i = 0 THEN leaves ELSE leaves \cup Nested(h[i - 1])
      <4>1. CASE i <= k
        <5>1. h[i] = g[i] /\ (i # 0 => i - 1 \in 0..k /\ h[i - 1] = g[i - 1])
          BY <4>1
        <5>2. g[i] = IF i = 0 THEN leaves ELSE leaves \cup Nested(g[i - 1])
          <6>1. i \in 0..k
            BY <4>1
          <6>2. QED
            BY <3>1, <6>1 DEF Grows
        <5>3. QED
          BY <5>1, <5>2
      <4>2. CASE i = k + 1
        <5>1. h[i] = leaves \cup Nested(g[k]) /\ i # 0 /\ i - 1 = k /\ h[k] = g[k]
          BY <4>2
        <5>2. QED
          BY <5>1
      <4>3. QED
        BY <4>1, <4>2
    <3>3. Grows(h, k + 1, leaves)
      BY <3>2 DEF Grows
    <3>4. QED
      BY <3>3
  <2> HIDE DEF P
  <2>3. P \in SUBSET Nat
    BY DEF P
  <2>4. P = Nat
    BY <2>1, <2>2, <2>3, Climb
  <2>5. QED
    BY <2>4 DEF P
<1>2. ASSUME NEW n \in Nat, NEW m \in Nat, NEW g, NEW h, Grows(g, n, leaves), Grows(h, m, leaves)
      PROVE  \A i \in Nat : i <= n /\ i <= m => g[i] = h[i]
  <2> DEFINE P == {i \in Nat : i <= n /\ i <= m => g[i] = h[i]}
  <2>1. 0 \in P
    BY <1>2 DEF Grows
  <2>2. ASSUME NEW i \in P PROVE i + 1 \in P
    <3> SUFFICES ASSUME i + 1 <= n, i + 1 <= m PROVE g[i + 1] = h[i + 1]
      OBVIOUS
    <3>1. g[i] = h[i]
      OBVIOUS
    <3>2. i + 1 \in 0..n /\ i + 1 \in 0..m /\ i + 1 # 0 /\ (i + 1) - 1 = i
      OBVIOUS
    <3>3. g[i + 1] = leaves \cup Nested(g[i]) /\ h[i + 1] = leaves \cup Nested(h[i])
      BY <1>2, <3>2 DEF Grows
    <3>4. QED
      BY <3>1, <3>3
  <2> HIDE DEF P
  <2>3. P = Nat
    <3>1. P \in SUBSET Nat
      BY DEF P
    <3>2. QED
      BY <2>1, <2>2, <3>1, Climb
  <2>4. QED
    BY <2>3 DEF P
<1> DEFINE g(n) == CHOOSE h : Grows(h, n, leaves)
           f == [n \in Nat |-> g(n)[n]]
           t == CHOOSE t : t = [n \in Nat |-> IF n = 0 THEN leaves ELSE leaves \cup Nested(t[n - 1])]
<1>3. ASSUME NEW n \in Nat PROVE Grows(g(n), n, leaves)
  BY <1>1
<1>4. ASSUME NEW n \in Nat PROVE f[n] = IF n = 0 THEN leaves ELSE leaves \cup Nested(f[n - 1])
  <2>1. f[n] = g(n)[n]
    OBVIOUS
  <2>2. CASE n = 0
    <3>1. Grows(g(0), 0, leaves)
      BY <1>3
    <3> HIDE DEF g
    <3>2. g(0)[0] = leaves
      BY <3>1 DEF Grows
    <3>3. QED
      BY <2>1, <2>2, <3>2
  <2>3. CASE n # 0
    <3>1. n - 1 \in Nat /\ n - 1 \in 0..n /\ n \in 0..n
      BY <2>3
    <3>2. Grows(g(n), n, leaves) /\ Grows(g(n - 1), n - 1, leaves)
      BY <1>3, <3>1
    <3> HIDE DEF g
    <3>3. g(n)[n] = leaves \cup Nested(g(n)[n - 1])
      BY <2>3, <3>1, <3>2 DEF Grows
    <3>4. g(n)[n - 1] = g(n - 1)[n - 1]
      BY <1>2, <3>1, <3>2
    <3>5. QED
      BY <2>1, <2>3, <3>1, <3>3, <3>4
  <2>4. QED
    BY <2>2, <2>3
<1>5. f = [n \in Nat |-> IF n = 0 THEN leaves ELSE leaves \cup Nested(f[n - 1])]
  <2> HIDE DEF g
  <2>1. \A n \in Nat : f[n] = IF n = 0 THEN leaves ELSE leaves \cup Nested(f[n - 1])
    BY <1>4
  <2>2. f = [n \in Nat |-> f[n]]
    OBVIOUS
  <2> HIDE DEF f
  <2>3. [n \in Nat |-> f[n]] = [n \in Nat |-> IF n = 0 THEN leaves ELSE leaves \cup Nested(f[n - 1])]
    BY <2>1
  <2>4. QED
    BY <2>2, <2>3
<1>6. t = [n \in Nat |-> IF n = 0 THEN leaves ELSE leaves \cup Nested(t[n - 1])]
  <2> HIDE DEF f
  <2>1. QED
    BY <1>5, Zenon
<1>7. Trees(leaves) = t
  BY DEF Trees
<1>8. QED
  <2> HIDE DEF t
  <2>1. t[0] = leaves
    BY <1>6
  <2>2. ASSUME NEW n \in Nat PROVE t[n + 1] = leaves \cup Nested(t[n])
    <3>1. n + 1 \in Nat /\ n + 1 # 0 /\ (n + 1) - 1 = n
      OBVIOUS
    <3>2. t[n + 1] = IF n + 1 = 0 THEN leaves ELSE leaves \cup Nested(t[(n + 1) - 1])
      BY <1>6, <3>1
    <3>3. QED
      BY <3>1, <3>2
  <2>3. QED
    BY <1>7, <2>1, <2>2

ScalarTypes == {"null", "boolean", "int", "float", "string"}
Leaves == Scalars \cup {Sentinel, Opaque}

\* The levels of JSON and of the values of the engine.
LEMMA Levels ==
  /\ Json[0] = Scalars /\ Values[0] = Leaves
  /\ \A n \in Nat : Json[n + 1] = Scalars \cup Nested(Json[n])
  /\ \A n \in Nat : Values[n + 1] = Leaves \cup Nested(Values[n])
BY TreesGrow DEF Json, Values, Leaves

\* Nesting more nests at least as much.
LEMMA NestedGrows == ASSUME NEW S, NEW T, S \subseteq T PROVE Nested(S) \subseteq Nested(T)
<1>1. Seq(S) \subseteq Seq(T)
  OBVIOUS
<1>2. Maps(S) \subseteq Maps(T)
  BY DEF Maps
<1>3. QED
  BY <1>1, <1>2 DEF Nested

\* Every level holds the level below, and a document is a value of the engine.
LEMMA Deeper ==
  ASSUME NEW n \in Nat
  PROVE  Json[n] \subseteq Json[n + 1] /\ Values[n] \subseteq Values[n + 1] /\ Json[n] \subseteq Values[n]
<1> DEFINE P == {k \in Nat : /\ Json[k] \subseteq Json[k + 1] /\ Values[k] \subseteq Values[k + 1]
                             /\ Json[k] \subseteq Values[k]}
<1>1. 0 \in P
  <2>1. 0 \in Nat /\ 0 + 1 \in Nat
    OBVIOUS
  <2>2. Json[0] \subseteq Json[0 + 1] /\ Values[0] \subseteq Values[0 + 1] /\ Json[0] \subseteq Values[0]
    BY <2>1, Levels DEF Leaves
  <2>3. QED
    BY <2>2
<1>2. ASSUME NEW k \in P PROVE k + 1 \in P
  <2>1. k + 1 \in Nat /\ (k + 1) + 1 \in Nat
    OBVIOUS
  <2>2. /\ Nested(Json[k]) \subseteq Nested(Json[k + 1])
        /\ Nested(Values[k]) \subseteq Nested(Values[k + 1])
        /\ Nested(Json[k]) \subseteq Nested(Values[k])
    BY NestedGrows
  <2>3. /\ Json[k + 1] = Scalars \cup Nested(Json[k]) /\ Values[k + 1] = Leaves \cup Nested(Values[k])
        /\ Json[(k + 1) + 1] = Scalars \cup Nested(Json[k + 1])
        /\ Values[(k + 1) + 1] = Leaves \cup Nested(Values[k + 1])
    BY <2>1, Levels
  <2>4. QED
    BY <2>1, <2>2, <2>3 DEF Leaves
<1> HIDE DEF P
<1>3. P = Nat
  <2>1. P \in SUBSET Nat
    BY DEF P
  <2>2. QED
    BY <1>1, <1>2, <2>1, Climb
<1>4. QED
  BY <1>3 DEF P

\* A document of one level is a document of every higher level.
LEMMA DeeperStill ==
  ASSUME NEW n \in Nat, NEW m \in Nat, n <= m
  PROVE  Json[n] \subseteq Json[m]
<1> DEFINE P == {k \in Nat : n <= k => Json[n] \subseteq Json[k]}
<1>1. 0 \in P
  OBVIOUS
<1>2. ASSUME NEW k \in P PROVE k + 1 \in P
  BY Deeper
<1> HIDE DEF P
<1>3. P = Nat
  <2>1. P \in SUBSET Nat
    BY DEF P
  <2>2. QED
    BY <1>1, <1>2, <2>1, Climb
<1>4. QED
  BY <1>3 DEF P

\* What a value is, one level up.
LEMMA ValueIs ==
  ASSUME NEW n \in Nat, NEW v \in Values[n + 1]
  PROVE  \/ v \in Scalars /\ v.type \in ScalarTypes
         \/ v = Sentinel /\ v.type = "sentinel"
         \/ v = Opaque /\ v.type = "opaque"
         \/ v = Array(v.items) /\ v.type = "array" /\ v.items \in Seq(Values[n])
         \/ v = Object(v.members) /\ v.type = "object" /\ v.members \in Maps(Values[n])
BY Levels DEF Leaves, Scalars, ScalarTypes, Nested, Array, Object, Sentinel, Opaque

\* What a leaf is.
LEMMA LeafIs ==
  ASSUME NEW v \in Leaves
  PROVE  \/ v \in Scalars /\ v.type \in ScalarTypes
         \/ v = Sentinel /\ v.type = "sentinel"
         \/ v = Opaque /\ v.type = "opaque"
BY DEF Leaves, Scalars, ScalarTypes, Sentinel, Opaque

\* What a document is, one level up.
LEMMA DocumentIs ==
  ASSUME NEW n \in Nat, NEW v \in Json[n + 1]
  PROVE  \/ v \in Scalars /\ v.type \in ScalarTypes
         \/ v = Array(v.items) /\ v.type = "array" /\ v.items \in Seq(Json[n])
         \/ v = Object(v.members) /\ v.type = "object" /\ v.members \in Maps(Json[n])
BY Levels DEF Scalars, ScalarTypes, Nested, Array, Object

\* A value is there, and is not an exception.
LEMMA Regular ==
  ASSUME NEW n \in Nat
  PROVE  /\ Absent \notin Values[n] /\ Exception \notin Values[n]
         /\ Absent \notin Json[n] /\ Exception \notin Json[n]
<1>1. ASSUME NEW v \in Values[n] PROVE v # Absent /\ v # Exception
  <2>1. v \in Values[n + 1]
    BY Deeper
  <2>2. v.type \in ScalarTypes \cup {"sentinel", "opaque", "array", "object"}
    BY <2>1, ValueIs
  <2>3. QED
    BY <2>2 DEF ScalarTypes, Absent, Exception
<1>2. QED
  BY <1>1, Deeper

-----------------------------------------------------------------------------
\* What Each makes of the parts of an array, and of those of an object.
LEMMA EachItem ==
  ASSUME NEW S, NEW T, NEW f \in [S -> T], Absent \notin S, Absent \notin T, NEW p \in Seq(S)
  PROVE  /\ Each(f, p) \in Seq(T) /\ DOMAIN Each(f, p) = DOMAIN p
         /\ \A key \in DOMAIN p : p[key] \in S /\ Each(f, p)[key] = f[p[key]]
         /\ Present(p) = DOMAIN p
<1>1. Len(p) \in Nat /\ DOMAIN p = 1..Len(p) /\ \A key \in DOMAIN p : p[key] \in S
  OBVIOUS
<1>2. /\ DOMAIN Each(f, p) = DOMAIN p
      /\ \A key \in DOMAIN p : Each(f, p)[key] = f[p[key]]
  BY <1>1 DEF Each
<1>3. Each(f, p) = [key \in 1..Len(p) |-> f[p[key]]]
  BY <1>1 DEF Each
<1>4. [key \in 1..Len(p) |-> f[p[key]]] \in Seq(T)
  BY <1>1
<1>5. Present(p) = DOMAIN p
  BY <1>1 DEF Present
<1>6. QED
  BY <1>1, <1>2, <1>3, <1>4, <1>5

\* An object has the same members as before, and each is what the work on it yields.
LEMMA EachMember ==
  ASSUME NEW S, NEW T, NEW f \in [S -> T], Absent \notin S, Absent \notin T, NEW p \in Maps(S)
  PROVE  /\ Each(f, p) \in Maps(T) /\ DOMAIN Each(f, p) = DOMAIN p /\ DOMAIN p = Keys
         /\ \A key \in Keys : /\ p[key] # Absent => p[key] \in S /\ Each(f, p)[key] = f[p[key]]
                              /\ p[key] = Absent => Each(f, p)[key] = Absent
         /\ Present(Each(f, p)) = Present(p)
<1>1. DOMAIN p = Keys /\ \A key \in Keys : p[key] \in S \cup {Absent}
  BY DEF Maps
<1>2. Each(f, p) = [key \in Keys |-> IF p[key] = Absent THEN Absent ELSE f[p[key]]]
  BY <1>1 DEF Each
<1>3. \A key \in Keys : (IF p[key] = Absent THEN Absent ELSE f[p[key]]) \in T \cup {Absent}
  BY <1>1
<1>4. Each(f, p) \in Maps(T) /\ DOMAIN Each(f, p) = Keys
  BY <1>2, <1>3 DEF Maps
<1>5. \A key \in Keys : /\ p[key] # Absent => p[key] \in S /\ Each(f, p)[key] = f[p[key]]
                        /\ p[key] = Absent => Each(f, p)[key] = Absent
  BY <1>1, <1>2
<1>6. Present(Each(f, p)) = Present(p)
  BY <1>1, <1>4, <1>5 DEF Present
<1>7. QED
  BY <1>1, <1>4, <1>5, <1>6

\* What is there has no exception among its parts.
LEMMA UnlessIs ==
  ASSUME NEW T, NEW parts, NEW whole
  PROVE  /\ Unless(parts, whole) \in {whole, Exception}
         /\ Unless(parts, whole) # Exception =>
              /\ Unless(parts, whole) = whole
              /\ \A key \in DOMAIN parts : parts[key] # Exception
              /\ parts \in Seq(T \cup {Exception}) => parts \in Seq(T)
              /\ parts \in Maps(T \cup {Exception}) => parts \in Maps(T)
<1>1. Unless(parts, whole) \in {whole, Exception}
  BY DEF Unless
<1>2. ASSUME Unless(parts, whole) # Exception
      PROVE  Unless(parts, whole) = whole /\ \A key \in DOMAIN parts : parts[key] # Exception
  BY <1>2 DEF Unless
<1>3. ASSUME \A key \in DOMAIN parts : parts[key] # Exception, parts \in Seq(T \cup {Exception})
      PROVE  parts \in Seq(T)
  <2>1. parts = [key \in 1..Len(parts) |-> parts[key]] /\ Len(parts) \in Nat
    BY <1>3
  <2>2. \A key \in 1..Len(parts) : parts[key] \in T
    BY <1>3
  <2>3. [key \in 1..Len(parts) |-> parts[key]] \in Seq(T)
    BY <2>1, <2>2
  <2>4. QED
    BY <2>1, <2>3
<1>4. ASSUME \A key \in DOMAIN parts : parts[key] # Exception, parts \in Maps(T \cup {Exception})
      PROVE  parts \in Maps(T)
  BY <1>4 DEF Maps
<1>5. QED
  BY <1>1, <1>2, <1>3, <1>4

-----------------------------------------------------------------------------
\* A level of documents: an array and an object of the level below, and the references.
LEMMA MakesDocument ==
  ASSUME NEW n \in Nat
  PROVE  /\ \A items \in Seq(Json[n]) : Array(items) \in Json[n + 1]
         /\ \A members \in Maps(Json[n]) : Object(members) \in Json[n + 1]
         /\ \A v \in Json[n] : LitRef(v) \in Json[n + 1]
         /\ NoContentRef \in Json[n + 1]
<1>1. Nested(Json[n]) \subseteq Json[n + 1]
  BY Levels
<1>2. ASSUME NEW members \in Maps(Json[n]) PROVE Object(members) \in Json[n + 1]
  BY <1>1 DEF Nested, Object
<1>3. NoContent \in Json[n] /\ Lit \in Json[n]
  <2>1. NoContent \in Json[0] /\ Lit \in Json[0]
    BY Levels DEF Scalars, NoContent, Lit, Scalar
  <2>2. Json[0] \subseteq Json[n]
    BY DeeperStill
  <2>3. QED
    BY <2>1, <2>2
<1>4. \A v \in Json[n] : LitRef(v) \in Json[n + 1]
  <2> SUFFICES ASSUME NEW v \in Json[n] PROVE LitRef(v) \in Json[n + 1]
    OBVIOUS
  <2>1. Only([tag |-> Lit, value |-> v]) \in Maps(Json[n])
    BY <1>3 DEF Only, Maps
  <2>2. QED
    BY <1>2, <2>1 DEF LitRef
<1>5. NoContentRef \in Json[n + 1]
  <2>1. Only([tag |-> NoContent]) \in Maps(Json[n])
    BY <1>3 DEF Only, Maps
  <2>2. QED
    BY <1>2, <2>1 DEF NoContentRef
<1>6. \A items \in Seq(Json[n]) : Array(items) \in Json[n + 1]
  BY <1>1 DEF Nested, Array
<1>7. QED
  BY <1>2, <1>4, <1>5, <1>6

\* How deep the encoding of a value is.
Deep(n) == Json[2 * n + 1]

\* What is as deep as an encoding, and what may be built of it one level up.
LEMMA DeepIs ==
  ASSUME NEW n \in Nat
  PROVE  /\ Absent \notin Deep(n) /\ Exception \notin Deep(n)
         /\ Scalars \subseteq Deep(n) /\ NoContentRef \in Deep(n)
         /\ \A m \in Nat : m <= n => Json[m] \subseteq Deep(n) /\ Deep(m) \subseteq Deep(n)
         /\ \A items \in Seq(Deep(n)) : Array(items) \in Deep(n + 1)
         /\ \A members \in Maps(Deep(n)) :
              Object(members) \in Deep(n + 1) /\ LitRef(Object(members)) \in Deep(n + 1)
<1>1. 2 * n \in Nat /\ 2 * n + 1 \in Nat /\ 2 * n + 2 \in Nat /\ 2 * n + 3 \in Nat
  OBVIOUS
<1>2. 2 * (n + 1) + 1 = 2 * n + 3 /\ (2 * n + 2) + 1 = 2 * n + 3 /\ (2 * n + 1) + 1 = 2 * n + 2
  OBVIOUS
<1>3. Deep(n) = Json[2 * n + 1] /\ Deep(n + 1) = Json[2 * n + 3]
  BY <1>2 DEF Deep
<1>4. Absent \notin Deep(n) /\ Exception \notin Deep(n)
  BY <1>1, <1>3, Regular
<1>5. NoContentRef \in Deep(n)
  BY <1>1, <1>3, MakesDocument
<1>6. Json[2 * n + 2] \subseteq Json[2 * n + 3]
  BY <1>1, <1>2, Deeper
<1>7. \A items \in Seq(Deep(n)) : Array(items) \in Deep(n + 1)
  <2>1. \A items \in Seq(Deep(n)) : Array(items) \in Json[2 * n + 2]
    BY <1>1, <1>2, <1>3, MakesDocument
  <2>2. QED
    BY <1>3, <1>6, <2>1
<1>8. \A members \in Maps(Deep(n)) :
        Object(members) \in Deep(n + 1) /\ LitRef(Object(members)) \in Deep(n + 1)
  <2> SUFFICES ASSUME NEW members \in Maps(Deep(n))
               PROVE  Object(members) \in Deep(n + 1) /\ LitRef(Object(members)) \in Deep(n + 1)
    OBVIOUS
  <2>1. Object(members) \in Json[2 * n + 2]
    BY <1>1, <1>2, <1>3, MakesDocument
  <2>2. LitRef(Object(members)) \in Json[2 * n + 3]
    BY <1>1, <1>2, <2>1, MakesDocument
  <2>3. QED
    BY <1>3, <1>6, <2>1, <2>2
<1>9. ASSUME NEW m \in Nat, m <= n PROVE Json[m] \subseteq Deep(n) /\ Deep(m) \subseteq Deep(n)
  <2>1. m <= 2 * n + 1 /\ 2 * m + 1 <= 2 * n + 1 /\ 2 * m + 1 \in Nat
    BY <1>9
  <2>2. QED
    BY <1>1, <2>1, DeeperStill DEF Deep
<1>10. Scalars \subseteq Deep(n)
  <2>1. Json[0] \subseteq Json[2 * n + 1]
    BY <1>1, DeeperStill
  <2>2. QED
    BY <1>3, <2>1, Levels
<1>11. QED
  BY <1>4, <1>5, <1>7, <1>8, <1>9, <1>10

\* The encoding of a leaf does not look further.
LEMMA EncodedLeaf ==
  ASSUME NEW f, NEW v \in Leaves
  PROVE  EncodeNode(f, v) = CASE v.type = "sentinel" -> NoContentRef
                              [] v.type = "opaque"   -> Exception
                              [] OTHER -> v
<1>1. v.type \in ScalarTypes \cup {"sentinel", "opaque"}
  BY LeafIs
<1>2. QED
  BY <1>1 DEF EncodeNode, ScalarTypes

\* A step of the encoding is as deep as allowed, or an exception.
LEMMA EncodedNode ==
  ASSUME NEW n \in Nat, NEW f \in [Values[n] -> Deep(n) \cup {Exception}], NEW v \in Values[n + 1]
  PROVE  EncodeNode(f, v) \in Deep(n + 1) \cup {Exception}
<1>1. Absent \notin Values[n] /\ Absent \notin Deep(n) \cup {Exception}
  BY Regular, DeepIs DEF Absent, Exception
<1>2. n + 1 \in Nat
  OBVIOUS
<1>3. CASE v \in Leaves
  <2>1. EncodeNode(f, v) \in {NoContentRef, Exception} \/ (v \in Scalars /\ EncodeNode(f, v) = v)
    BY <1>3, LeafIs, EncodedLeaf DEF ScalarTypes
  <2>2. QED
    BY <1>2, <2>1, DeepIs
<1>4. CASE v = Array(v.items) /\ v.type = "array" /\ v.items \in Seq(Values[n])
  <2> DEFINE items == Each(f, v.items)
  <2>1. items \in Seq(Deep(n) \cup {Exception})
    BY <1>1, <1>4, EachItem
  <2>2. EncodeNode(f, v) = Unless(items, Array(items))
    BY <1>4 DEF EncodeNode
  <2> HIDE DEF items
  <2>3. Unless(items, Array(items)) # Exception =>
          Unless(items, Array(items)) = Array(items) /\ items \in Seq(Deep(n))
    BY <2>1, UnlessIs
  <2>4. QED
    BY <2>2, <2>3, DeepIs
<1>5. CASE v = Object(v.members) /\ v.type = "object" /\ v.members \in Maps(Values[n])
  <2> DEFINE members == Each(f, v.members)
             whole   == IF "tag" \in Present(v.members) THEN LitRef(Object(members)) ELSE Object(members)
  <2>1. members \in Maps(Deep(n) \cup {Exception})
    BY <1>1, <1>5, EachMember
  <2>2. EncodeNode(f, v) = Unless(members, whole)
    BY <1>5 DEF EncodeNode
  <2> HIDE DEF members
  <2>3. Unless(members, whole) # Exception =>
          Unless(members, whole) = whole /\ members \in Maps(Deep(n))
    BY <2>1, UnlessIs
  <2>4. members \in Maps(Deep(n)) => whole \in Deep(n + 1)
    BY DeepIs
  <2> HIDE DEF whole
  <2>5. QED
    BY <2>2, <2>3, <2>4
<1>6. QED
  BY <1>3, <1>4, <1>5, ValueIs DEF Leaves

\* The encoding is defined at every level.
LEMMA EncodeIs ==
  \A n \in Nat :
    /\ Encode[n] \in [Values[n] -> Deep(n) \cup {Exception}]
    /\ \A v \in Values[n] : Encode[n][v] = EncodeNode(Encode[n - 1], v)
<1> DEFINE D == [n \in Nat |-> [Values[n] -> Deep(n) \cup {Exception}]]
           x == [v \in Values[0] |-> EncodeNode(<<>>, v)]
           s == [n \in Nat |-> [f \in D[n] |-> [v \in Values[n + 1] |-> EncodeNode(f, v)]]]
           t == CHOOSE t : t = [n \in Nat |-> [v \in Values[n] |-> EncodeNode(t[n - 1], v)]]
<1>1. x \in D[0]
  <2>1. ASSUME NEW v \in Values[0] PROVE EncodeNode(<<>>, v) \in Deep(0) \cup {Exception}
    <3>1. v \in Leaves
      BY Levels
    <3>2. EncodeNode(<<>>, v) \in {NoContentRef, Exception} \/ (v \in Scalars /\ EncodeNode(<<>>, v) = v)
      BY <3>1, LeafIs, EncodedLeaf DEF ScalarTypes
    <3>3. QED
      BY <3>2, DeepIs
  <2>2. QED
    BY <2>1
<1>2. ASSUME NEW n \in Nat PROVE s[n] \in [D[n] -> D[n + 1]]
  <2>1. n + 1 \in Nat /\ D[n] = [Values[n] -> Deep(n) \cup {Exception}]
        /\ D[n + 1] = [Values[n + 1] -> Deep(n + 1) \cup {Exception}]
    OBVIOUS
  <2>2. ASSUME NEW f \in D[n] PROVE [v \in Values[n + 1] |-> EncodeNode(f, v)] \in D[n + 1]
    BY <2>1, EncodedNode
  <2>3. QED
    BY <2>2
<1>3. PICK f : /\ f = [n \in Nat |-> IF n = 0 THEN x ELSE s[n - 1][f[n - 1]]]
               /\ \A n \in Nat : f[n] \in D[n]
  <2>1. x \in D[0]
    BY <1>1
  <2> HIDE DEF D, x, s
  <2>2. QED
    BY <1>2, <2>1, Recursion
<1>4. ASSUME NEW n \in Nat PROVE f[n] = [v \in Values[n] |-> EncodeNode(f[n - 1], v)]
  <2>1. f[n] = IF n = 0 THEN x ELSE s[n - 1][f[n - 1]]
    <3> HIDE DEF D, x, s
    <3>1. f = [k \in Nat |-> IF k = 0 THEN x ELSE s[k - 1][f[k - 1]]]
      BY <1>3
    <3>2. QED
      BY <3>1
  <2>2. CASE n = 0
    <3>1. \A v \in Values[0] : EncodeNode(<<>>, v) = EncodeNode(f[0 - 1], v)
      BY Levels, EncodedLeaf
    <3>2. QED
      BY <2>1, <2>2, <3>1
  <2>3. CASE n # 0
    <3>1. n - 1 \in Nat /\ (n - 1) + 1 = n /\ f[n - 1] \in D[n - 1]
      <4>1. n - 1 \in Nat /\ (n - 1) + 1 = n
        BY <2>3
      <4>2. \A k \in Nat : f[k] \in D[k]
        BY <1>3
      <4> HIDE DEF D
      <4>3. QED
        BY <4>1, <4>2
    <3>2. s[n - 1][f[n - 1]] = [v \in Values[(n - 1) + 1] |-> EncodeNode(f[n - 1], v)]
      <4> HIDE DEF D
      <4>1. QED
        BY <3>1
    <3>3. QED
      BY <2>1, <2>3, <3>1, <3>2
  <2>4. QED
    BY <2>2, <2>3
<1>5. f = [n \in Nat |-> [v \in Values[n] |-> EncodeNode(f[n - 1], v)]]
  <2> HIDE DEF x, s, D
  <2>1. f = [n \in Nat |-> f[n]]
    BY <1>3
  <2>2. [n \in Nat |-> f[n]] = [n \in Nat |-> [v \in Values[n] |-> EncodeNode(f[n - 1], v)]]
    BY <1>4
  <2>3. QED
    BY <2>1, <2>2
<1>6. t = [n \in Nat |-> [v \in Values[n] |-> EncodeNode(t[n - 1], v)]]
  BY <1>5, Zenon
<1>7. Encode = t
  BY DEF Encode
<1>8. ASSUME NEW n \in Nat PROVE \A v \in Values[n] : Encode[n][v] = EncodeNode(Encode[n - 1], v)
  <2> HIDE DEF t
  <2>1. t[n] = [v \in Values[n] |-> EncodeNode(t[n - 1], v)]
    BY <1>6
  <2>2. QED
    BY <1>7, <2>1
<1>9. ASSUME NEW n \in Nat PROVE Encode[n] \in D[n]
  <2> DEFINE P == {k \in Nat : t[k] \in D[k]}
  <2>1. 0 \in P
    <3> HIDE DEF t
    <3>1. t[0] = [v \in Values[0] |-> EncodeNode(t[0 - 1], v)]
      BY <1>6
    <3>2. \A v \in Values[0] : EncodeNode(<<>>, v) = EncodeNode(t[0 - 1], v)
      BY Levels, EncodedLeaf
    <3>3. t[0] = x
      BY <3>1, <3>2
    <3>4. QED
      BY <1>1, <3>3
  <2>2. ASSUME NEW k \in P PROVE k + 1 \in P
    <3> HIDE DEF t
    <3>1. k \in Nat /\ k + 1 \in Nat /\ (k + 1) - 1 = k /\ t[k] \in [Values[k] -> Deep(k) \cup {Exception}]
      OBVIOUS
    <3>2. t[k + 1] = [v \in Values[k + 1] |-> EncodeNode(t[k], v)]
      <4>1. t[k + 1] = [v \in Values[k + 1] |-> EncodeNode(t[(k + 1) - 1], v)]
        BY <1>6, <3>1
      <4>2. QED
        BY <3>1, <4>1
    <3>3. t[k + 1] \in [Values[k + 1] -> Deep(k + 1) \cup {Exception}]
      BY <3>1, <3>2, EncodedNode
    <3>4. QED
      BY <3>1, <3>3
  <2> HIDE DEF P
  <2>3. P = Nat
    <3>1. P \in SUBSET Nat
      BY DEF P
    <3>2. QED
      BY <2>1, <2>2, <3>1, Climb
  <2> HIDE DEF D
  <2>4. QED
    BY <1>7, <2>3 DEF P
<1>10. QED
  BY <1>8, <1>9

-----------------------------------------------------------------------------
\* What a document is to the decoding.
Plain(e)     == e \in Scalars /\ e.type \in ScalarTypes
Listed(e, S) == e = Array(e.items) /\ e.type = "array" /\ e.items \in Seq(S)
Keyed(e, S)  == e = Object(e.members) /\ e.type = "object" /\ e.members \in Maps(S)

\* No value is two references at once, and one with the key of the tags is something of a tag.
LEMMA Tags ==
  ASSUME NEW e
  PROVE  /\ e.type # "object" => ~IsNoContentRef(e) /\ ~IsLitRef(e) /\ ~IsUnknownTag(e)
         /\ e.type = "object" =>
              /\ "tag" \notin Present(e.members) => ~IsNoContentRef(e) /\ ~IsLitRef(e) /\ ~IsUnknownTag(e)
              /\ "tag" \in Present(e.members) => IsNoContentRef(e) \/ IsLitRef(e) \/ IsUnknownTag(e)
         /\ IsNoContentRef(e) => ~IsLitRef(e) /\ ~IsUnknownTag(e)
         /\ IsLitRef(e) => ~IsNoContentRef(e) /\ ~IsUnknownTag(e)
BY DEF IsNoContentRef, IsLitRef, IsUnknownTag, Has

\* A reference is the very object that stands for it.
LEMMA References ==
  ASSUME NEW S, NEW e, Keyed(e, S)
  PROVE  /\ IsNoContentRef(e) => e = NoContentRef
         /\ IsLitRef(e) => e.members["value"] \in S
<1>1. DOMAIN e.members = Keys /\ \A key \in Keys : e.members[key] \in S \cup {Absent}
  BY DEF Keyed, Maps
<1>2. ASSUME IsNoContentRef(e) PROVE e = NoContentRef
  <2>1. \A key \in Keys : e.members[key] # Absent <=> key = "tag"
    BY <1>1, <1>2 DEF IsNoContentRef, Has, Present
  <2>2. e.members["tag"] = NoContent
    BY <1>2 DEF IsNoContentRef
  <2>3. e.members = [key \in Keys |-> IF key = "tag" THEN NoContent ELSE Absent]
    BY <1>1, <2>1, <2>2 DEF Keyed, Maps
  <2>4. Only([tag |-> NoContent]) = [key \in Keys |-> IF key = "tag" THEN NoContent ELSE Absent]
    BY DEF Only
  <2>5. QED
    BY <2>3, <2>4 DEF Keyed, NoContentRef
<1>3. ASSUME IsLitRef(e) PROVE e.members["value"] \in S
  BY <1>1, <1>3 DEF IsLitRef, Has, Present
<1>4. QED
  BY <1>2, <1>3

\* What the decoding yields, for each kind of document.
LEMMA Decoded ==
  ASSUME NEW f, NEW g, NEW e, NEW S, Plain(e) \/ Listed(e, S) \/ Keyed(e, S)
  PROVE  /\ Plain(e) => DecodeNode(f, g, e) = e
         /\ Listed(e, S) => DecodeNode(f, g, e) = Unless(Each(f, e.items), Array(Each(f, e.items)))
         /\ Keyed(e, S) =>
              /\ IsNoContentRef(e) => DecodeNode(f, g, e) = NoContentRef
              /\ IsLitRef(e) => DecodeNode(f, g, e) = g[e.members["value"]]
              /\ IsUnknownTag(e) => DecodeNode(f, g, e) = Exception
              /\ "tag" \notin Present(e.members) =>
                   DecodeNode(f, g, e) = Unless(Each(f, e.members), Object(Each(f, e.members)))
<1>1. CASE Plain(e)
  <2>1. e.type \notin {"array", "object"}
    BY <1>1 DEF Plain, ScalarTypes
  <2>2. QED
    BY <1>1, <2>1, Tags DEF DecodeNode, Listed, Keyed
<1>2. CASE Listed(e, S)
  <2>1. e.type = "array"
    BY <1>2 DEF Listed
  <2>2. QED
    BY <1>2, <2>1, Tags DEF DecodeNode, Plain, ScalarTypes, Keyed
<1>3. CASE Keyed(e, S)
  <2>1. e.type = "object"
    BY <1>3 DEF Keyed
  <2>2. IsNoContentRef(e) => DecodeNode(f, g, e) = NoContentRef
    BY <2>1, Tags DEF DecodeNode
  <2>3. IsLitRef(e) => DecodeNode(f, g, e) = g[e.members["value"]]
    BY <2>1, Tags DEF DecodeNode
  <2>4. IsUnknownTag(e) => DecodeNode(f, g, e) = Exception
    BY <2>1, Tags DEF DecodeNode
  <2>5. "tag" \notin Present(e.members) =>
          DecodeNode(f, g, e) = Unless(Each(f, e.members), Object(Each(f, e.members)))
    BY <2>1, Tags DEF DecodeNode
  <2>6. ~Plain(e) /\ ~Listed(e, S)
    BY <2>1 DEF Plain, ScalarTypes, Listed
  <2>7. QED
    BY <2>2, <2>3, <2>4, <2>5, <2>6
<1>4. QED
  BY <1>1, <1>2, <1>3

\* A step of the decoding is as deep as an encoding, or an exception.
LEMMA DecodedNode ==
  ASSUME NEW n \in Nat, NEW f \in [Json[n] -> Deep(n) \cup {Exception}], NEW e \in Json[n + 1]
  PROVE  DecodeNode(f, Encode[n], e) \in Deep(n + 1) \cup {Exception}
<1>1. Absent \notin Json[n] /\ Absent \notin Deep(n) \cup {Exception}
  BY Regular, DeepIs DEF Absent, Exception
<1>2. n + 1 \in Nat
  OBVIOUS
<1>3. CASE Plain(e)
  <2>1. DecodeNode(f, Encode[n], e) = e
    BY <1>3, Decoded
  <2>2. QED
    BY <1>2, <1>3, <2>1, DeepIs DEF Plain
<1>4. CASE Listed(e, Json[n])
  <2> DEFINE items == Each(f, e.items)
  <2>1. items \in Seq(Deep(n) \cup {Exception})
    BY <1>1, <1>4, EachItem DEF Listed
  <2>2. DecodeNode(f, Encode[n], e) = Unless(items, Array(items))
    BY <1>4, Decoded
  <2> HIDE DEF items
  <2>3. Unless(items, Array(items)) # Exception =>
          Unless(items, Array(items)) = Array(items) /\ items \in Seq(Deep(n))
    BY <2>1, UnlessIs
  <2>4. QED
    BY <2>2, <2>3, DeepIs
<1>5. CASE Keyed(e, Json[n])
  <2>1. CASE IsNoContentRef(e)
    <3>1. DecodeNode(f, Encode[n], e) = NoContentRef
      BY <1>5, <2>1, Decoded
    <3>2. QED
      BY <1>2, <3>1, DeepIs
  <2>2. CASE IsLitRef(e)
    <3>1. e.members["value"] \in Values[n]
      BY <1>5, <2>2, References, Deeper
    <3>2. Encode[n][e.members["value"]] \in Deep(n) \cup {Exception}
      BY <3>1, EncodeIs
    <3>3. Deep(n) \subseteq Deep(n + 1)
      BY <1>2, DeepIs
    <3>4. QED
      BY <1>5, <2>2, <3>2, <3>3, Decoded
  <2>3. CASE IsUnknownTag(e)
    BY <1>5, <2>3, Decoded
  <2>4. CASE "tag" \notin Present(e.members)
    <3> DEFINE members == Each(f, e.members)
    <3>1. members \in Maps(Deep(n) \cup {Exception})
      BY <1>1, <1>5, EachMember DEF Keyed
    <3>2. DecodeNode(f, Encode[n], e) = Unless(members, Object(members))
      BY <1>5, <2>4, Decoded
    <3> HIDE DEF members
    <3>3. Unless(members, Object(members)) # Exception =>
            Unless(members, Object(members)) = Object(members) /\ members \in Maps(Deep(n))
      BY <3>1, UnlessIs
    <3>4. QED
      BY <3>2, <3>3, DeepIs
  <2>5. QED
    BY <1>5, <2>1, <2>2, <2>3, <2>4, Tags DEF Keyed
<1>6. QED
  BY <1>3, <1>4, <1>5, DocumentIs DEF Plain, Listed, Keyed
\* The decoding is defined at every level.
LEMMA DecodeIs ==
  \A n \in Nat :
    /\ DecodeExpected[n] \in [Json[n] -> Deep(n) \cup {Exception}]
    /\ \A e \in Json[n] : DecodeExpected[n][e] = DecodeNode(DecodeExpected[n - 1], Encode[n - 1], e)
<1> DEFINE D == [n \in Nat |-> [Json[n] -> Deep(n) \cup {Exception}]]
           x == [e \in Json[0] |-> DecodeNode(<<>>, Encode[0], e)]
           s == [n \in Nat |-> [f \in D[n] |-> [e \in Json[n + 1] |-> DecodeNode(f, Encode[n], e)]]]
           t == CHOOSE t : t = [n \in Nat |-> [e \in Json[n] |-> DecodeNode(t[n - 1], Encode[n - 1], e)]]
<1>1. x \in D[0] /\ \A f : \A e \in Json[0] : DecodeNode(<<>>, Encode[0], e) = DecodeNode(f, Encode[0 - 1], e)
  <2>1. ASSUME NEW e \in Json[0]
        PROVE  /\ \A f, g : DecodeNode(f, g, e) = e
               /\ e \in Deep(0)
    <3>1. e \in Scalars
      BY Levels
    <3>2. Plain(e)
      BY <3>1 DEF Plain, Scalars, ScalarTypes
    <3>3. QED
      BY <3>1, <3>2, Decoded, DeepIs
  <2>2. QED
    BY <2>1
<1>2. ASSUME NEW n \in Nat PROVE s[n] \in [D[n] -> D[n + 1]]
  <2>1. n + 1 \in Nat /\ D[n] = [Json[n] -> Deep(n) \cup {Exception}] /\ D[n + 1] = [Json[n + 1] -> Deep(n + 1) \cup {Exception}]
    OBVIOUS
  <2>2. ASSUME NEW f \in D[n] PROVE [e \in Json[n + 1] |-> DecodeNode(f, Encode[n], e)] \in D[n + 1]
    BY <2>1, DecodedNode
  <2>3. QED
    BY <2>2
<1>3. PICK f : /\ f = [n \in Nat |-> IF n = 0 THEN x ELSE s[n - 1][f[n - 1]]]
               /\ \A n \in Nat : f[n] \in D[n]
  <2>1. x \in D[0]
    BY <1>1
  <2> HIDE DEF D, x, s
  <2>2. QED
    BY <1>2, <2>1, Recursion
<1>4. ASSUME NEW n \in Nat PROVE f[n] = [e \in Json[n] |-> DecodeNode(f[n - 1], Encode[n - 1], e)]
  <2>1. f[n] = IF n = 0 THEN x ELSE s[n - 1][f[n - 1]]
    <3> HIDE DEF D, x, s
    <3>1. f = [k \in Nat |-> IF k = 0 THEN x ELSE s[k - 1][f[k - 1]]]
      BY <1>3
    <3>2. QED
      BY <3>1
  <2>2. CASE n = 0
    <3>1. \A e \in Json[0] : DecodeNode(<<>>, Encode[0], e) = DecodeNode(f[0 - 1], Encode[0 - 1], e)
      BY <1>1
    <3>2. QED
      BY <2>1, <2>2, <3>1
  <2>3. CASE n # 0
    <3>1. n - 1 \in Nat /\ (n - 1) + 1 = n /\ f[n - 1] \in D[n - 1]
      <4>1. n - 1 \in Nat /\ (n - 1) + 1 = n
        BY <2>3
      <4>2. \A k \in Nat : f[k] \in D[k]
        BY <1>3
      <4> HIDE DEF D
      <4>3. QED
        BY <4>1, <4>2
    <3>2. s[n - 1][f[n - 1]] = [e \in Json[(n - 1) + 1] |-> DecodeNode(f[n - 1], Encode[n - 1], e)]
      <4> HIDE DEF D
      <4>1. QED
        BY <3>1
    <3>3. QED
      BY <2>1, <2>3, <3>1, <3>2
  <2>4. QED
    BY <2>2, <2>3
<1>5. f = [n \in Nat |-> [e \in Json[n] |-> DecodeNode(f[n - 1], Encode[n - 1], e)]]
  <2> HIDE DEF x, s, D
  <2>1. f = [n \in Nat |-> f[n]]
    BY <1>3
  <2>2. [n \in Nat |-> f[n]] = [n \in Nat |-> [e \in Json[n] |-> DecodeNode(f[n - 1], Encode[n - 1], e)]]
    BY <1>4
  <2>3. QED
    BY <2>1, <2>2
<1>6. t = [n \in Nat |-> [e \in Json[n] |-> DecodeNode(t[n - 1], Encode[n - 1], e)]]
  BY <1>5, Zenon
<1>7. DecodeExpected = t
  BY DEF DecodeExpected
<1>8. ASSUME NEW n \in Nat PROVE \A e \in Json[n] : DecodeExpected[n][e] = DecodeNode(DecodeExpected[n - 1], Encode[n - 1], e)
  <2> HIDE DEF t
  <2>1. t[n] = [e \in Json[n] |-> DecodeNode(t[n - 1], Encode[n - 1], e)]
    BY <1>6
  <2>2. QED
    BY <1>7, <2>1
<1>9. ASSUME NEW n \in Nat PROVE DecodeExpected[n] \in D[n]
  <2> DEFINE P == {k \in Nat : t[k] \in D[k]}
  <2>1. 0 \in P
    <3> HIDE DEF t
    <3>1. t[0] = [e \in Json[0] |-> DecodeNode(t[0 - 1], Encode[0 - 1], e)]
      BY <1>6
    <3>2. t[0] = x
      BY <1>1, <3>1
    <3>3. QED
      BY <1>1, <3>2
  <2>2. ASSUME NEW k \in P PROVE k + 1 \in P
    <3> HIDE DEF t
    <3>1. k \in Nat /\ k + 1 \in Nat /\ (k + 1) - 1 = k /\ t[k] \in [Json[k] -> Deep(k) \cup {Exception}]
      OBVIOUS
    <3>2. t[k + 1] = [e \in Json[k + 1] |-> DecodeNode(t[k], Encode[k], e)]
      <4>1. t[k + 1] = [e \in Json[k + 1] |-> DecodeNode(t[(k + 1) - 1], Encode[(k + 1) - 1], e)]
        BY <1>6, <3>1
      <4>2. QED
        BY <3>1, <4>1
    <3>3. t[k + 1] \in [Json[k + 1] -> Deep(k + 1) \cup {Exception}]
      BY <3>1, <3>2, DecodedNode
    <3>4. QED
      BY <3>1, <3>3
  <2> HIDE DEF P
  <2>3. P = Nat
    <3>1. P \in SUBSET Nat
      BY DEF P
    <3>2. QED
      BY <2>1, <2>2, <3>1, Climb
  <2> HIDE DEF D
  <2>4. QED
    BY <1>7, <2>3 DEF P
<1>10. QED
  BY <1>8, <1>9
-----------------------------------------------------------------------------
\* What a document means, by what it is to the decoding.
LEMMA Meant ==
  ASSUME NEW f, NEW e, NEW S, Plain(e) \/ Listed(e, S) \/ Keyed(e, S)
  PROVE  /\ Plain(e) => MeaningNode(f, e) = e
         /\ Listed(e, S) => MeaningNode(f, e) = Array(Each(f, e.items))
         /\ Keyed(e, S) =>
              /\ IsNoContentRef(e) => MeaningNode(f, e) = Sentinel
              /\ IsLitRef(e) => MeaningNode(f, e) = e.members["value"]
              /\ ~IsNoContentRef(e) /\ ~IsLitRef(e) => MeaningNode(f, e) = Object(Each(f, e.members))
<1>1. CASE Plain(e)
  <2>1. e.type \notin {"array", "object"}
    BY <1>1 DEF Plain, ScalarTypes
  <2>2. QED
    BY <1>1, <2>1, Tags DEF MeaningNode, Listed, Keyed
<1>2. CASE Listed(e, S)
  <2>1. e.type = "array"
    BY <1>2 DEF Listed
  <2>2. QED
    BY <1>2, <2>1, Tags DEF MeaningNode, Plain, ScalarTypes, Keyed
<1>3. CASE Keyed(e, S)
  <2>1. e.type = "object"
    BY <1>3 DEF Keyed
  <2>2. IsNoContentRef(e) => MeaningNode(f, e) = Sentinel
    BY <2>1, Tags DEF MeaningNode
  <2>3. IsLitRef(e) => MeaningNode(f, e) = e.members["value"]
    BY <2>1, Tags DEF MeaningNode
  <2>4. ~IsNoContentRef(e) /\ ~IsLitRef(e) => MeaningNode(f, e) = Object(Each(f, e.members))
    BY <2>1, Tags DEF MeaningNode
  <2>5. ~Plain(e) /\ ~Listed(e, S)
    BY <2>1 DEF Plain, ScalarTypes, Listed
  <2>6. QED
    BY <2>2, <2>3, <2>4, <2>5
<1>4. QED
  BY <1>1, <1>2, <1>3

\* A level of values: the leaves, an array and an object of the level below.
LEMMA MakesValue ==
  ASSUME NEW n \in Nat
  PROVE  /\ Leaves \subseteq Values[n + 1] /\ Values[n] \subseteq Values[n + 1]
         /\ \A items \in Seq(Values[n]) : Array(items) \in Values[n + 1]
         /\ \A members \in Maps(Values[n]) : Object(members) \in Values[n + 1]
<1>1. Values[n + 1] = Leaves \cup Nested(Values[n])
  BY Levels
<1>2. QED
  BY <1>1, Deeper DEF Nested, Array, Object

\* A document means a value of its own level.
LEMMA MeantNode ==
  ASSUME NEW n \in Nat, NEW f \in [Json[n] -> Values[n]], NEW e \in Json[n + 1]
  PROVE  MeaningNode(f, e) \in Values[n + 1]
<1>1. Absent \notin Json[n] /\ Absent \notin Values[n]
  BY Regular
<1>2. CASE Plain(e)
  <2>1. MeaningNode(f, e) = e
    BY <1>2, Meant
  <2>2. QED
    BY <1>2, <2>1, MakesValue DEF Plain, Leaves
<1>3. CASE Listed(e, Json[n])
  <2>1. Each(f, e.items) \in Seq(Values[n])
    BY <1>1, <1>3, EachItem DEF Listed
  <2>2. QED
    BY <1>3, <2>1, Meant, MakesValue
<1>4. CASE Keyed(e, Json[n])
  <2>1. Each(f, e.members) \in Maps(Values[n])
    BY <1>1, <1>4, EachMember DEF Keyed
  <2>2. CASE IsNoContentRef(e)
    <3>1. MeaningNode(f, e) = Sentinel
      BY <1>4, <2>2, Meant
    <3>2. QED
      BY <3>1, MakesValue DEF Leaves
  <2>3. CASE IsLitRef(e)
    <3>1. MeaningNode(f, e) = e.members["value"]
      BY <1>4, <2>3, Meant
    <3>2. e.members["value"] \in Values[n]
      BY <1>4, <2>3, References, Deeper
    <3>3. QED
      BY <3>1, <3>2, MakesValue
  <2>4. CASE ~IsNoContentRef(e) /\ ~IsLitRef(e)
    <3>1. MeaningNode(f, e) = Object(Each(f, e.members))
      BY <1>4, <2>4, Meant
    <3>2. QED
      BY <2>1, <3>1, MakesValue
  <2>5. QED
    BY <2>2, <2>3, <2>4
<1>5. QED
  BY <1>2, <1>3, <1>4, DocumentIs DEF Plain, Listed, Keyed

\* The meaning is defined at every level.
LEMMA MeaningIs ==
  \A n \in Nat :
    /\ Meaning[n] \in [Json[n] -> Values[n]]
    /\ \A e \in Json[n] : Meaning[n][e] = MeaningNode(Meaning[n - 1], e)
<1> DEFINE D == [n \in Nat |-> [Json[n] -> Values[n]]]
           x == [e \in Json[0] |-> MeaningNode(<<>>, e)]
           s == [n \in Nat |-> [f \in D[n] |-> [e \in Json[n + 1] |-> MeaningNode(f, e)]]]
           t == CHOOSE t : t = [n \in Nat |-> [e \in Json[n] |-> MeaningNode(t[n - 1], e)]]
<1>1. x \in D[0] /\ \A f : \A e \in Json[0] : MeaningNode(<<>>, e) = MeaningNode(f, e)
  <2>1. ASSUME NEW e \in Json[0]
        PROVE  (\A f : MeaningNode(f, e) = e) /\ e \in Values[0]
    <3>1. e \in Scalars
      BY Levels
    <3>2. Plain(e)
      BY <3>1 DEF Plain, Scalars, ScalarTypes
    <3>3. QED
      BY <3>1, <3>2, Meant, Levels DEF Leaves
  <2>2. QED
    BY <2>1
<1>2. ASSUME NEW n \in Nat PROVE s[n] \in [D[n] -> D[n + 1]]
  <2>1. n + 1 \in Nat /\ D[n] = [Json[n] -> Values[n]] /\ D[n + 1] = [Json[n + 1] -> Values[n + 1]]
    OBVIOUS
  <2>2. ASSUME NEW f \in D[n] PROVE [e \in Json[n + 1] |-> MeaningNode(f, e)] \in D[n + 1]
    BY <2>1, MeantNode
  <2>3. QED
    BY <2>2
<1>3. PICK f : /\ f = [n \in Nat |-> IF n = 0 THEN x ELSE s[n - 1][f[n - 1]]]
               /\ \A n \in Nat : f[n] \in D[n]
  <2>1. x \in D[0]
    BY <1>1
  <2> HIDE DEF D, x, s
  <2>2. QED
    BY <1>2, <2>1, Recursion
<1>4. ASSUME NEW n \in Nat PROVE f[n] = [e \in Json[n] |-> MeaningNode(f[n - 1], e)]
  <2>1. f[n] = IF n = 0 THEN x ELSE s[n - 1][f[n - 1]]
    <3> HIDE DEF D, x, s
    <3>1. f = [k \in Nat |-> IF k = 0 THEN x ELSE s[k - 1][f[k - 1]]]
      BY <1>3
    <3>2. QED
      BY <3>1
  <2>2. CASE n = 0
    <3>1. \A e \in Json[0] : MeaningNode(<<>>, e) = MeaningNode(f[0 - 1], e)
      BY <1>1
    <3>2. QED
      BY <2>1, <2>2, <3>1
  <2>3. CASE n # 0
    <3>1. n - 1 \in Nat /\ (n - 1) + 1 = n /\ f[n - 1] \in D[n - 1]
      <4>1. n - 1 \in Nat /\ (n - 1) + 1 = n
        BY <2>3
      <4>2. \A k \in Nat : f[k] \in D[k]
        BY <1>3
      <4> HIDE DEF D
      <4>3. QED
        BY <4>1, <4>2
    <3>2. s[n - 1][f[n - 1]] = [e \in Json[(n - 1) + 1] |-> MeaningNode(f[n - 1], e)]
      <4> HIDE DEF D
      <4>1. QED
        BY <3>1
    <3>3. QED
      BY <2>1, <2>3, <3>1, <3>2
  <2>4. QED
    BY <2>2, <2>3
<1>5. f = [n \in Nat |-> [e \in Json[n] |-> MeaningNode(f[n - 1], e)]]
  <2> HIDE DEF x, s, D
  <2>1. f = [n \in Nat |-> f[n]]
    BY <1>3
  <2>2. [n \in Nat |-> f[n]] = [n \in Nat |-> [e \in Json[n] |-> MeaningNode(f[n - 1], e)]]
    BY <1>4
  <2>3. QED
    BY <2>1, <2>2
<1>6. t = [n \in Nat |-> [e \in Json[n] |-> MeaningNode(t[n - 1], e)]]
  BY <1>5, Zenon
<1>7. Meaning = t
  BY DEF Meaning
<1>8. ASSUME NEW n \in Nat PROVE \A e \in Json[n] : Meaning[n][e] = MeaningNode(Meaning[n - 1], e)
  <2> HIDE DEF t
  <2>1. t[n] = [e \in Json[n] |-> MeaningNode(t[n - 1], e)]
    BY <1>6
  <2>2. QED
    BY <1>7, <2>1
<1>9. ASSUME NEW n \in Nat PROVE Meaning[n] \in D[n]
  <2> DEFINE P == {k \in Nat : t[k] \in D[k]}
  <2>1. 0 \in P
    <3> HIDE DEF t
    <3>1. t[0] = [e \in Json[0] |-> MeaningNode(t[0 - 1], e)]
      BY <1>6
    <3>2. t[0] = x
      BY <1>1, <3>1
    <3>3. QED
      BY <1>1, <3>2
  <2>2. ASSUME NEW k \in P PROVE k + 1 \in P
    <3> HIDE DEF t
    <3>1. k \in Nat /\ k + 1 \in Nat /\ (k + 1) - 1 = k /\ t[k] \in [Json[k] -> Values[k]]
      OBVIOUS
    <3>2. t[k + 1] = [e \in Json[k + 1] |-> MeaningNode(t[k], e)]
      <4>1. t[k + 1] = [e \in Json[k + 1] |-> MeaningNode(t[(k + 1) - 1], e)]
        BY <1>6, <3>1
      <4>2. QED
        BY <3>1, <4>1
    <3>3. t[k + 1] \in [Json[k + 1] -> Values[k + 1]]
      BY <3>1, <3>2, MeantNode
    <3>4. QED
      BY <3>1, <3>3
  <2> HIDE DEF P
  <2>3. P = Nat
    <3>1. P \in SUBSET Nat
      BY DEF P
    <3>2. QED
      BY <2>1, <2>2, <3>1, Climb
  <2> HIDE DEF D
  <2>4. QED
    BY <1>7, <2>3 DEF P
<1>10. QED
  BY <1>8, <1>9

-----------------------------------------------------------------------------
Entries == [path : Seq(Keys \cup Nat), kind : {"missing", "extra", "type_mismatch", "value_mismatch"}]

\* The entries below a key are entries, and there are some if there were some.
LEMMA BelowIs ==
  ASSUME NEW key \in Keys \cup Nat, NEW entries \in SUBSET Entries
  PROVE  Below(key, entries) \in SUBSET Entries /\ (Below(key, entries) = {} <=> entries = {})
<1>1. ASSUME NEW entry \in entries PROVE Entry(<<key>> \o entry.path, entry.kind) \in Entries
  <2>1. entry.path \in Seq(Keys \cup Nat) /\ entry \in Entries
    BY DEF Entries
  <2>2. <<key>> \o entry.path \in Seq(Keys \cup Nat)
    BY <2>1
  <2>3. QED
    BY <2>1, <2>2 DEF Entries, Entry
<1>2. QED
  BY <1>1 DEF Below

\* Two parts are compared where both are present; what only one has is an entry.
Between(walk, e, a) ==
  {Entry(<<key>>, "missing") : key \in Present(e) \ Present(a)}
    \cup {Entry(<<key>>, "extra") : key \in Present(a) \ Present(e)}
    \cup UNION {Below(key, walk[e[key]][a[key]]) : key \in Present(e) \cap Present(a)}

\* Parts yield no entry just when the same ones are present and none of them yields any.
LEMMA BetweenIs ==
  ASSUME NEW S, NEW walk \in [S -> [S -> SUBSET Entries]], NEW e, NEW a,
         Present(e) \subseteq Keys \cup Nat, Present(a) \subseteq Keys \cup Nat,
         \A key \in Present(e) : e[key] \in S, \A key \in Present(a) : a[key] \in S
  PROVE  /\ Between(walk, e, a) \in SUBSET Entries
         /\ Between(walk, e, a) = {} <=>
              /\ Present(e) = Present(a)
              /\ \A key \in Present(e) : walk[e[key]][a[key]] = {}
<1>1. \A key \in Keys \cup Nat, kind \in {"missing", "extra"} : Entry(<<key>>, kind) \in Entries
  <2> SUFFICES ASSUME NEW key \in Keys \cup Nat, NEW kind \in {"missing", "extra"}
               PROVE  Entry(<<key>>, kind) \in Entries
    OBVIOUS
  <2>1. <<key>> \in Seq(Keys \cup Nat)
    OBVIOUS
  <2>2. QED
    BY <2>1 DEF Entries, Entry
<1>2. \A key \in Present(e) \cap Present(a) :
        /\ walk[e[key]][a[key]] \in SUBSET Entries
        /\ Below(key, walk[e[key]][a[key]]) \in SUBSET Entries
        /\ Below(key, walk[e[key]][a[key]]) = {} <=> walk[e[key]][a[key]] = {}
  <2> SUFFICES ASSUME NEW key \in Present(e) \cap Present(a)
               PROVE  /\ walk[e[key]][a[key]] \in SUBSET Entries
                      /\ Below(key, walk[e[key]][a[key]]) \in SUBSET Entries
                      /\ Below(key, walk[e[key]][a[key]]) = {} <=> walk[e[key]][a[key]] = {}
    OBVIOUS
  <2>1. walk[e[key]][a[key]] \in SUBSET Entries /\ key \in Keys \cup Nat
    OBVIOUS
  <2>2. QED
    BY <2>1, BelowIs
<1> DEFINE M == {Entry(<<key>>, "missing") : key \in Present(e) \ Present(a)}
           X == {Entry(<<key>>, "extra") : key \in Present(a) \ Present(e)}
           B == {Below(key, walk[e[key]][a[key]]) : key \in Present(e) \cap Present(a)}
<1>3. M \in SUBSET Entries /\ (M = {} <=> Present(e) \subseteq Present(a))
  BY <1>1
<1>4. X \in SUBSET Entries /\ (X = {} <=> Present(a) \subseteq Present(e))
  BY <1>1
<1>5. UNION B \in SUBSET Entries
  BY <1>2
<1>6. UNION B = {} <=> \A key \in Present(e) \cap Present(a) : walk[e[key]][a[key]] = {}
  <2>1. UNION B = {} <=> \A key \in Present(e) \cap Present(a) : Below(key, walk[e[key]][a[key]]) = {}
    <3>1. (\A b \in B : b = {}) <=>
            \A key \in Present(e) \cap Present(a) : Below(key, walk[e[key]][a[key]]) = {}
      BY Zenon
    <3> HIDE DEF B
    <3>2. UNION B = {} <=> \A b \in B : b = {}
      OBVIOUS
    <3>3. QED
      BY <3>1, <3>2
  <2>2. QED
    BY <1>2, <2>1
<1>7. Between(walk, e, a) = M \cup X \cup UNION B
  BY DEF Between
<1> HIDE DEF M, X, B
<1>8. Between(walk, e, a) = {} <=> M = {} /\ X = {} /\ UNION B = {}
  BY <1>7
<1>9. QED
  BY <1>3, <1>4, <1>5, <1>6, <1>7, <1>8
-----------------------------------------------------------------------------
\* The walk over two scalars.
LEMMA WalkedLeaf ==
  ASSUME NEW walk, NEW a \in Scalars, NEW b \in Scalars
  PROVE  WalkNode(walk, a, b) = IF a.type # b.type THEN {Entry(<<>>, "type_mismatch")}
                                ELSE IF a.is = b.is THEN {} ELSE {Entry(<<>>, "value_mismatch")}
<1>1. a.type \in ScalarTypes /\ b.type \in ScalarTypes
  BY DEF Scalars, ScalarTypes
<1>2. ~IsNoContentRef(a) /\ ~IsNoContentRef(b)
  BY <1>1, Tags DEF ScalarTypes
<1>3. TypeOf(a) = a.type /\ TypeOf(b) = b.type
  BY <1>2 DEF TypeOf
<1>4. TypeOf(a) \notin {"no_content", "array", "object"}
  BY <1>1, <1>3 DEF ScalarTypes
<1>5. QED
  BY <1>3, <1>4 DEF WalkNode

\* The type of a document in the walk says what it is.
LEMMA TypesAre ==
  ASSUME NEW n \in Nat, NEW e \in Json[n + 1]
  PROVE  \/ /\ TypeOf(e) = "no_content" /\ e = NoContentRef
         \/ /\ TypeOf(e) \in ScalarTypes /\ e \in Scalars /\ e.type = TypeOf(e)
         \/ /\ TypeOf(e) = "array" /\ e = Array(e.items) /\ e.items \in Seq(Json[n]) /\ Parts(e) = e.items
         \/ /\ TypeOf(e) = "object" /\ e = Object(e.members) /\ e.members \in Maps(Json[n])
            /\ Parts(e) = e.members
<1>1. CASE Plain(e)
  BY <1>1, Tags DEF Plain, TypeOf, ScalarTypes
<1>2. CASE Listed(e, Json[n])
  BY <1>2, Tags DEF Listed, TypeOf, Parts
<1>3. CASE Keyed(e, Json[n])
  <2>1. IsNoContentRef(e) => e = NoContentRef
    BY <1>3, References
  <2>2. QED
    BY <1>3, <2>1 DEF Keyed, TypeOf, Parts
<1>4. QED
  BY <1>1, <1>2, <1>3, DocumentIs DEF Plain, Listed, Keyed

\* The two mismatches are entries.
LEMMA MismatchIsEntry ==
  /\ {Entry(<<>>, "type_mismatch")} \in SUBSET Entries
  /\ {Entry(<<>>, "value_mismatch")} \in SUBSET Entries
<1>1. <<>> \in Seq(Keys \cup Nat)
  OBVIOUS
<1>2. QED
  BY <1>1 DEF Entry, Entries

Tells(walk, n) == \A u, v \in Json[n] : walk[u][v] = {} <=> u = v

\* One step of the walk: when it tells the parts apart, it tells the whole apart.
LEMMA WalkedNode ==
  ASSUME NEW n \in Nat, NEW walk \in [Json[n] -> [Json[n] -> SUBSET Entries]],
         NEW a \in Json[n + 1], NEW b \in Json[n + 1]
  PROVE  /\ WalkNode(walk, a, b) \in SUBSET Entries
         /\ Tells(walk, n) => (WalkNode(walk, a, b) = {} <=> a = b)
<1>1. Absent \notin Json[n]
  BY Regular
<1>2. CASE TypeOf(a) # TypeOf(b)
  <2>1. WalkNode(walk, a, b) = {Entry(<<>>, "type_mismatch")}
    BY <1>2 DEF WalkNode
  <2>2. a # b
    BY <1>2
  <2>3. QED
    BY <2>1, <2>2, MismatchIsEntry
<1>3. CASE TypeOf(a) = TypeOf(b) /\ TypeOf(a) = "no_content"
  <2>1. WalkNode(walk, a, b) = {}
    BY <1>3 DEF WalkNode
  <2>2. a = b
    BY <1>3, TypesAre DEF ScalarTypes
  <2>3. QED
    BY <2>1, <2>2
<1>4. CASE TypeOf(a) = TypeOf(b) /\ TypeOf(a) \in ScalarTypes
  <2>1. a \in Scalars /\ b \in Scalars /\ a.type = b.type
    BY <1>4, TypesAre DEF ScalarTypes
  <2>2. a.is = b.is => a = b
    BY <2>1 DEF Scalars
  <2>3. WalkNode(walk, a, b) = IF a.is = b.is THEN {} ELSE {Entry(<<>>, "value_mismatch")}
    BY <2>1, WalkedLeaf
  <2>4. QED
    BY <2>2, <2>3, MismatchIsEntry
<1>5. CASE TypeOf(a) = TypeOf(b) /\ TypeOf(a) = "array"
  <2>1. /\ a = Array(a.items) /\ a.items \in Seq(Json[n]) /\ Parts(a) = a.items
        /\ b = Array(b.items) /\ b.items \in Seq(Json[n]) /\ Parts(b) = b.items
    BY <1>5, TypesAre DEF ScalarTypes
  <2>2. WalkNode(walk, a, b) = Between(walk, a.items, b.items)
    BY <1>5, <2>1 DEF WalkNode, Between
  <2>3. /\ Present(a.items) = 1..Len(a.items) /\ Len(a.items) \in Nat
        /\ \A key \in 1..Len(a.items) : a.items[key] \in Json[n]
        /\ Present(b.items) = 1..Len(b.items) /\ Len(b.items) \in Nat
        /\ \A key \in 1..Len(b.items) : b.items[key] \in Json[n]
    BY <1>1, <2>1 DEF Present
  <2>4. Present(a.items) \subseteq Keys \cup Nat /\ Present(b.items) \subseteq Keys \cup Nat
    BY <2>3
  <2>5. /\ Between(walk, a.items, b.items) \in SUBSET Entries
        /\ Between(walk, a.items, b.items) = {} <=>
             /\ Present(a.items) = Present(b.items)
             /\ \A key \in Present(a.items) : walk[a.items[key]][b.items[key]] = {}
    BY <2>3, <2>4, BetweenIs
  <2>6. ASSUME Tells(walk, n),
               Between(walk, a.items, b.items) = {}
        PROVE  a = b
    <3>1. Present(a.items) = Present(b.items)
      BY <2>5, <2>6
    <3>2. Len(a.items) = Len(b.items)
      BY <2>3, <3>1
    <3>3. \A key \in 1..Len(a.items) : a.items[key] = b.items[key]
      <4> SUFFICES ASSUME NEW key \in 1..Len(a.items) PROVE a.items[key] = b.items[key]
        OBVIOUS
      <4>1. walk[a.items[key]][b.items[key]] = {}
        BY <2>3, <2>5, <2>6
      <4>2. a.items[key] \in Json[n] /\ b.items[key] \in Json[n]
        BY <2>3, <3>2
      <4>3. QED
        BY <2>6, <4>1, <4>2 DEF Tells
    <3>4. a.items = b.items
      <4>1. /\ a.items = [key \in 1..Len(a.items) |-> a.items[key]]
            /\ b.items = [key \in 1..Len(b.items) |-> b.items[key]]
        BY <2>1
      <4>2. [key \in 1..Len(a.items) |-> a.items[key]] = [key \in 1..Len(b.items) |-> b.items[key]]
        BY <3>2, <3>3
      <4>3. QED
        BY <4>1, <4>2
    <3>5. QED
      BY <2>1, <3>4
  <2>7. ASSUME Tells(walk, n), a = b
        PROVE  Between(walk, a.items, b.items) = {}
    BY <2>3, <2>5, <2>7 DEF Tells
  <2>8. QED
    BY <2>2, <2>5, <2>6, <2>7
<1>6. CASE TypeOf(a) = TypeOf(b) /\ TypeOf(a) = "object"
  <2>1. /\ a = Object(a.members) /\ a.members \in Maps(Json[n]) /\ Parts(a) = a.members
        /\ b = Object(b.members) /\ b.members \in Maps(Json[n]) /\ Parts(b) = b.members
    BY <1>6, TypesAre DEF ScalarTypes
  <2>2. WalkNode(walk, a, b) = Between(walk, a.members, b.members)
    BY <1>6, <2>1 DEF WalkNode, Between
  <2>3. /\ DOMAIN a.members = Keys /\ \A key \in Present(a.members) : a.members[key] \in Json[n]
        /\ DOMAIN b.members = Keys /\ \A key \in Present(b.members) : b.members[key] \in Json[n]
        /\ \A key \in Keys : key \notin Present(a.members) => a.members[key] = Absent
        /\ \A key \in Keys : key \notin Present(b.members) => b.members[key] = Absent
    BY <2>1 DEF Present, Maps
  <2>4. Present(a.members) \subseteq Keys \cup Nat /\ Present(b.members) \subseteq Keys \cup Nat
    BY <2>3 DEF Present
  <2>5. /\ Between(walk, a.members, b.members) \in SUBSET Entries
        /\ Between(walk, a.members, b.members) = {} <=>
             /\ Present(a.members) = Present(b.members)
             /\ \A key \in Present(a.members) : walk[a.members[key]][b.members[key]] = {}
    BY <2>3, <2>4, BetweenIs
  <2>6. ASSUME Tells(walk, n),
               Between(walk, a.members, b.members) = {}
        PROVE  a = b
    <3>1. Present(a.members) = Present(b.members)
      BY <2>5, <2>6
    <3>2. \A key \in Present(a.members) : a.members[key] = b.members[key]
      BY <2>3, <2>5, <2>6, <3>1 DEF Tells
    <3>3. \A key \in Keys : a.members[key] = b.members[key]
      BY <2>3, <3>1, <3>2
    <3>4. a.members = b.members
      BY <2>1, <3>3 DEF Maps
    <3>5. QED
      BY <2>1, <3>4
  <2>7. ASSUME Tells(walk, n), a = b
        PROVE  Between(walk, a.members, b.members) = {}
    BY <2>3, <2>5, <2>7 DEF Tells
  <2>8. QED
    BY <2>2, <2>5, <2>6, <2>7
<1>7. QED
  BY <1>2, <1>3, <1>4, <1>5, <1>6, TypesAre

\* The walk is defined at every level.
LEMMA WalkIs ==
  \A n \in Nat :
    /\ Walk[n] \in [Json[n] -> [Json[n] -> SUBSET Entries]]
    /\ \A e \in Json[n] : Walk[n][e] = [a \in Json[n] |-> WalkNode(Walk[n - 1], e, a)]
<1> DEFINE D == [n \in Nat |-> [Json[n] -> [Json[n] -> SUBSET Entries]]]
           x == [e \in Json[0] |-> [a \in Json[0] |-> WalkNode(<<>>, e, a)]]
           s == [n \in Nat |-> [f \in D[n] |-> [e \in Json[n + 1] |-> [a \in Json[n + 1] |-> WalkNode(f, e, a)]]]]
           t == CHOOSE t : t = [n \in Nat |-> [e \in Json[n] |-> [a \in Json[n] |-> WalkNode(t[n - 1], e, a)]]]
<1>1. x \in D[0] /\ \A f : \A e \in Json[0] : [a \in Json[0] |-> WalkNode(<<>>, e, a)] = [a \in Json[0] |-> WalkNode(f, e, a)]
  <2>1. ASSUME NEW e \in Json[0], NEW a \in Json[0]
        PROVE  (\A f : WalkNode(<<>>, e, a) = WalkNode(f, e, a)) /\ WalkNode(<<>>, e, a) \in SUBSET Entries
    <3>1. e \in Scalars /\ a \in Scalars
      BY Levels
    <3>2. \A f : WalkNode(f, e, a) = IF e.type # a.type THEN {Entry(<<>>, "type_mismatch")}
                                     ELSE IF e.is = a.is THEN {} ELSE {Entry(<<>>, "value_mismatch")}
      BY <3>1, WalkedLeaf
    <3>3. QED
      BY <3>2, MismatchIsEntry
  <2>2. QED
    BY <2>1
<1>2. ASSUME NEW n \in Nat PROVE s[n] \in [D[n] -> D[n + 1]]
  <2>1. n + 1 \in Nat /\ D[n] = [Json[n] -> [Json[n] -> SUBSET Entries]] /\ D[n + 1] = [Json[n + 1] -> [Json[n + 1] -> SUBSET Entries]]
    OBVIOUS
  <2>2. ASSUME NEW f \in D[n] PROVE [e \in Json[n + 1] |-> [a \in Json[n + 1] |-> WalkNode(f, e, a)]] \in D[n + 1]
    BY <2>1, WalkedNode
  <2>3. QED
    BY <2>2
<1>3. PICK f : /\ f = [n \in Nat |-> IF n = 0 THEN x ELSE s[n - 1][f[n - 1]]]
               /\ \A n \in Nat : f[n] \in D[n]
  <2>1. x \in D[0]
    BY <1>1
  <2> HIDE DEF D, x, s
  <2>2. QED
    BY <1>2, <2>1, Recursion
<1>4. ASSUME NEW n \in Nat PROVE f[n] = [e \in Json[n] |-> [a \in Json[n] |-> WalkNode(f[n - 1], e, a)]]
  <2>1. f[n] = IF n = 0 THEN x ELSE s[n - 1][f[n - 1]]
    <3> HIDE DEF D, x, s
    <3>1. f = [k \in Nat |-> IF k = 0 THEN x ELSE s[k - 1][f[k - 1]]]
      BY <1>3
    <3>2. QED
      BY <3>1
  <2>2. CASE n = 0
    <3>1. \A e \in Json[0] : [a \in Json[0] |-> WalkNode(<<>>, e, a)] = [a \in Json[0] |-> WalkNode(f[0 - 1], e, a)]
      BY <1>1
    <3>2. QED
      BY <2>1, <2>2, <3>1
  <2>3. CASE n # 0
    <3>1. n - 1 \in Nat /\ (n - 1) + 1 = n /\ f[n - 1] \in D[n - 1]
      <4>1. n - 1 \in Nat /\ (n - 1) + 1 = n
        BY <2>3
      <4>2. \A k \in Nat : f[k] \in D[k]
        BY <1>3
      <4> HIDE DEF D
      <4>3. QED
        BY <4>1, <4>2
    <3>2. s[n - 1][f[n - 1]] = [e \in Json[(n - 1) + 1] |-> [a \in Json[n] |-> WalkNode(f[n - 1], e, a)]]
      <4> HIDE DEF D
      <4>1. QED
        BY <3>1
    <3>3. QED
      BY <2>1, <2>3, <3>1, <3>2
  <2>4. QED
    BY <2>2, <2>3
<1>5. f = [n \in Nat |-> [e \in Json[n] |-> [a \in Json[n] |-> WalkNode(f[n - 1], e, a)]]]
  <2> HIDE DEF x, s, D
  <2>1. f = [n \in Nat |-> f[n]]
    BY <1>3
  <2>2. [n \in Nat |-> f[n]] = [n \in Nat |-> [e \in Json[n] |-> [a \in Json[n] |-> WalkNode(f[n - 1], e, a)]]]
    BY <1>4
  <2>3. QED
    BY <2>1, <2>2
<1>6. t = [n \in Nat |-> [e \in Json[n] |-> [a \in Json[n] |-> WalkNode(t[n - 1], e, a)]]]
  BY <1>5, Zenon
<1>7. Walk = t
  BY DEF Walk
<1>8. ASSUME NEW n \in Nat PROVE \A e \in Json[n] : Walk[n][e] = [a \in Json[n] |-> WalkNode(Walk[n - 1], e, a)]
  <2> HIDE DEF t
  <2>1. t[n] = [e \in Json[n] |-> [a \in Json[n] |-> WalkNode(t[n - 1], e, a)]]
    BY <1>6
  <2>2. QED
    BY <1>7, <2>1
<1>9. ASSUME NEW n \in Nat PROVE Walk[n] \in D[n]
  <2> DEFINE P == {k \in Nat : t[k] \in D[k]}
  <2>1. 0 \in P
    <3> HIDE DEF t
    <3>1. t[0] = [e \in Json[0] |-> [a \in Json[0] |-> WalkNode(t[0 - 1], e, a)]]
      BY <1>6
    <3>2. t[0] = x
      BY <1>1, <3>1
    <3>3. QED
      BY <1>1, <3>2
  <2>2. ASSUME NEW k \in P PROVE k + 1 \in P
    <3> HIDE DEF t
    <3>1. k \in Nat /\ k + 1 \in Nat /\ (k + 1) - 1 = k /\ t[k] \in [Json[k] -> [Json[k] -> SUBSET Entries]]
      OBVIOUS
    <3>2. t[k + 1] = [e \in Json[k + 1] |-> [a \in Json[k + 1] |-> WalkNode(t[k], e, a)]]
      <4>1. t[k + 1] = [e \in Json[k + 1] |-> [a \in Json[k + 1] |-> WalkNode(t[(k + 1) - 1], e, a)]]
        BY <1>6, <3>1
      <4>2. QED
        BY <3>1, <4>1
    <3>3. t[k + 1] \in [Json[k + 1] -> [Json[k + 1] -> SUBSET Entries]]
      <4>1. \A e \in Json[k + 1], a \in Json[k + 1] : WalkNode(t[k], e, a) \in SUBSET Entries
        BY <3>1, WalkedNode
      <4>2. QED
        BY <3>2, <4>1
    <3>4. QED
      BY <3>1, <3>3
  <2> HIDE DEF P
  <2>3. P = Nat
    <3>1. P \in SUBSET Nat
      BY DEF P
    <3>2. QED
      BY <2>1, <2>2, <3>1, Climb
  <2> HIDE DEF D
  <2>4. QED
    BY <1>7, <2>3 DEF P
<1>10. QED
  BY <1>8, <1>9
-----------------------------------------------------------------------------
\* What a value is to the encoding.
LEMMA Encoded ==
  ASSUME NEW f, NEW v, NEW S
  PROVE  /\ Listed(v, S) => EncodeNode(f, v) = Unless(Each(f, v.items), Array(Each(f, v.items)))
         /\ Keyed(v, S) =>
              /\ "tag" \in Present(v.members) =>
                   EncodeNode(f, v) = Unless(Each(f, v.members), LitRef(Object(Each(f, v.members))))
              /\ "tag" \notin Present(v.members) =>
                   EncodeNode(f, v) = Unless(Each(f, v.members), Object(Each(f, v.members)))
<1>1. ASSUME Listed(v, S) PROVE EncodeNode(f, v) = Unless(Each(f, v.items), Array(Each(f, v.items)))
  <2>1. v.type = "array"
    BY <1>1 DEF Listed
  <2>2. QED
    BY <2>1 DEF EncodeNode
<1>2. ASSUME Keyed(v, S)
      PROVE  /\ "tag" \in Present(v.members) =>
                  EncodeNode(f, v) = Unless(Each(f, v.members), LitRef(Object(Each(f, v.members))))
             /\ "tag" \notin Present(v.members) =>
                  EncodeNode(f, v) = Unless(Each(f, v.members), Object(Each(f, v.members)))
  <2>1. v.type = "object"
    BY <1>2 DEF Keyed
  <2>2. QED
    BY <2>1 DEF EncodeNode
<1>3. QED
  BY <1>1, <1>2

\* A value is a leaf, an array or an object.
LEMMA ValueKinds ==
  ASSUME NEW n \in Nat, NEW v \in Values[n + 1]
  PROVE  v \in Leaves \/ Listed(v, Values[n]) \/ Keyed(v, Values[n])
BY ValueIs DEF Leaves, Listed, Keyed

\* What works alike on the parts makes the same of the whole.
LEMMA EachAlike ==
  ASSUME NEW f, NEW g, NEW p, \A key \in DOMAIN p : p[key] # Absent => f[p[key]] = g[p[key]]
  PROVE  Each(f, p) = Each(g, p)
BY DEF Each

\* The level does not matter to the encoding.
LEMMA EncodingKeeps ==
  ASSUME NEW n \in Nat
  PROVE  \A v \in Values[n] : Encode[n + 1][v] = Encode[n][v]
<1> DEFINE P == {k \in Nat : \A v \in Values[k] : Encode[k + 1][v] = Encode[k][v]}
<1>1. 0 \in P
  <2>1. ASSUME NEW v \in Values[0] PROVE Encode[0 + 1][v] = Encode[0][v]
    <3>1. 0 \in Nat /\ 0 + 1 \in Nat /\ v \in Values[0 + 1] /\ v \in Leaves
      BY Deeper, Levels
    <3>2. /\ Encode[0][v] = EncodeNode(Encode[0 - 1], v)
          /\ Encode[0 + 1][v] = EncodeNode(Encode[(0 + 1) - 1], v)
      BY <3>1, EncodeIs
    <3>3. EncodeNode(Encode[0 - 1], v) = EncodeNode(Encode[(0 + 1) - 1], v)
      BY <3>1, EncodedLeaf
    <3>4. QED
      BY <3>2, <3>3
  <2>2. QED
    BY <2>1
<1>2. ASSUME NEW k \in P PROVE k + 1 \in P
  <2>1. k \in Nat /\ k + 1 \in Nat /\ (k + 1) + 1 \in Nat /\ (k + 1) - 1 = k /\ ((k + 1) + 1) - 1 = k + 1
    OBVIOUS
  <2>2. ASSUME NEW v \in Values[k + 1] PROVE Encode[(k + 1) + 1][v] = Encode[k + 1][v]
    <3>1. v \in Values[(k + 1) + 1]
      BY <2>1, Deeper
    <3>2. Encode[k + 1][v] = EncodeNode(Encode[k], v)
      BY <2>1, EncodeIs
    <3>3. Encode[(k + 1) + 1][v] = EncodeNode(Encode[k + 1], v)
      BY <2>1, <3>1, EncodeIs
    <3>4. \A u \in Values[k] : Encode[k + 1][u] = Encode[k][u]
      OBVIOUS
    <3> HIDE DEF P
    <3>5. CASE v \in Leaves
      BY <3>2, <3>3, <3>5, EncodedLeaf
    <3>6. CASE Listed(v, Values[k])
      <4>1. \A key \in DOMAIN v.items : v.items[key] \in Values[k]
        BY <3>6 DEF Listed
      <4>2. Each(Encode[k + 1], v.items) = Each(Encode[k], v.items)
        BY <3>4, <4>1, EachAlike
      <4>3. QED
        BY <3>2, <3>3, <3>6, <4>2, Encoded
    <3>7. CASE Keyed(v, Values[k])
      <4>1. \A key \in DOMAIN v.members : v.members[key] # Absent => v.members[key] \in Values[k]
        BY <3>7 DEF Keyed, Maps
      <4>2. Each(Encode[k + 1], v.members) = Each(Encode[k], v.members)
        BY <3>4, <4>1, EachAlike
      <4>3. QED
        BY <3>2, <3>3, <3>7, <4>2, Encoded
    <3>8. QED
      BY <2>1, <3>5, <3>6, <3>7, ValueKinds
  <2>3. QED
    BY <2>1, <2>2
<1> HIDE DEF P
<1>3. P = Nat
  <2>1. P \in SUBSET Nat
    BY DEF P
  <2>2. QED
    BY <1>1, <1>2, <2>1, Climb
<1>4. QED
  BY <1>3 DEF P

\* Nothing but an exception comes from two different values.
OneToOne(f, S) == \A u, v \in S : f[u] # Exception /\ f[u] = f[v] => u = v
Clean(parts)   == \A key \in DOMAIN parts : parts[key] # Exception

\* Items that a one-to-one work makes equal were equal.
LEMMA SameItems ==
  ASSUME NEW S, NEW T, NEW f \in [S -> T], Absent \notin S, Absent \notin T, OneToOne(f, S),
         NEW p \in Seq(S), NEW q \in Seq(S), Each(f, p) = Each(f, q), Clean(Each(f, p))
  PROVE  p = q
<1>1. /\ DOMAIN Each(f, p) = DOMAIN p
      /\ \A key \in DOMAIN p : p[key] \in S /\ Each(f, p)[key] = f[p[key]]
  BY EachItem
<1>2. /\ DOMAIN Each(f, q) = DOMAIN q
      /\ \A key \in DOMAIN q : q[key] \in S /\ Each(f, q)[key] = f[q[key]]
  BY EachItem
<1>3. DOMAIN p = DOMAIN q
  BY <1>1, <1>2
<1>4. ASSUME NEW key \in DOMAIN p PROVE p[key] = q[key]
  <2>1. f[p[key]] = f[q[key]] /\ f[p[key]] # Exception
    BY <1>1, <1>2, <1>3 DEF Clean
  <2>2. p[key] \in S /\ q[key] \in S
    BY <1>1, <1>2, <1>3
  <2>3. QED
    BY <2>1, <2>2 DEF OneToOne
<1>5. p = [key \in DOMAIN p |-> p[key]] /\ q = [key \in DOMAIN q |-> q[key]]
  OBVIOUS
<1>6. [key \in DOMAIN p |-> p[key]] = [key \in DOMAIN q |-> q[key]]
  BY <1>3, <1>4
<1>7. QED
  BY <1>5, <1>6

\* The members, likewise.
LEMMA SameMembers ==
  ASSUME NEW S, NEW T, NEW f \in [S -> T], Absent \notin S, Absent \notin T, OneToOne(f, S),
         NEW p \in Maps(S), NEW q \in Maps(S), Each(f, p) = Each(f, q), Clean(Each(f, p))
  PROVE  p = q
<1>1. /\ DOMAIN Each(f, p) = Keys
      /\ \A key \in Keys : /\ p[key] # Absent => p[key] \in S /\ Each(f, p)[key] = f[p[key]]
                           /\ p[key] = Absent => Each(f, p)[key] = Absent
  BY EachMember
<1>2. /\ DOMAIN Each(f, q) = Keys
      /\ \A key \in Keys : /\ q[key] # Absent => q[key] \in S /\ Each(f, q)[key] = f[q[key]]
                           /\ q[key] = Absent => Each(f, q)[key] = Absent
  BY EachMember
<1>3. ASSUME NEW key \in Keys PROVE p[key] = q[key]
  <2>1. \A u \in S : f[u] # Absent
    OBVIOUS
  <2>2. CASE p[key] = Absent
    BY <1>1, <1>2, <2>1, <2>2
  <2>3. CASE p[key] # Absent
    <3>1. p[key] \in S /\ Each(f, p)[key] = f[p[key]]
      BY <1>1, <2>3
    <3>2. q[key] # Absent
      BY <1>2, <2>1, <3>1
    <3>3. q[key] \in S /\ Each(f, q)[key] = f[q[key]]
      BY <1>2, <3>2
    <3>4. f[p[key]] = f[q[key]] /\ f[p[key]] # Exception
      BY <1>1, <3>1, <3>3 DEF Clean
    <3>5. QED
      BY <3>1, <3>3, <3>4 DEF OneToOne
  <2>4. QED
    BY <2>2, <2>3
<1>4. QED
  BY <1>3 DEF Maps
\* What an encoding looks like, for each kind of value: no two kinds look alike.
Shape(f, n, v, w) ==
  \/ v \in Scalars /\ w = v /\ w.type \in ScalarTypes
  \/ v = Sentinel /\ w.type = "object" /\ w.members["tag"] # Absent /\ w.members["value"] = Absent
  \/ /\ Listed(v, Values[n]) /\ w = Array(Each(f, v.items)) /\ w.type = "array" /\ Clean(Each(f, v.items))
  \/ /\ Keyed(v, Values[n]) /\ Clean(Each(f, v.members))
     /\ w = Object(Each(f, v.members)) /\ w.type = "object" /\ w.members["tag"] = Absent
  \/ /\ Keyed(v, Values[n]) /\ Clean(Each(f, v.members))
     /\ w.type = "object" /\ w.members["tag"] # Absent /\ w.members["value"] # Absent
     /\ w.members["value"] = Object(Each(f, v.members))

\* An encoding has the looks of what it encodes.
LEMMA EncodingLooks ==
  ASSUME NEW n \in Nat, NEW f \in [Values[n] -> Deep(n) \cup {Exception}], NEW v \in Values[n + 1],
         EncodeNode(f, v) # Exception
  PROVE  Shape(f, n, v, EncodeNode(f, v))
<1>1. Absent \notin Values[n] /\ Absent \notin Deep(n) \cup {Exception}
  BY Regular, DeepIs DEF Absent, Exception
<1>2. NoContentRef.type = "object" /\ NoContentRef.members["tag"] # Absent /\ NoContentRef.members["value"] = Absent
  BY DEF NoContentRef, Object, Only, NoContent, Scalar, Absent
<1>3. CASE v \in Leaves
  BY <1>2, <1>3, LeafIs, EncodedLeaf DEF ScalarTypes, Shape
<1>4. CASE Listed(v, Values[n])
  <2>1. EncodeNode(f, v) = Unless(Each(f, v.items), Array(Each(f, v.items)))
    BY <1>4, Encoded
  <2>2. EncodeNode(f, v) = Array(Each(f, v.items)) /\ Clean(Each(f, v.items))
    BY <2>1, UnlessIs DEF Clean
  <2>3. Array(Each(f, v.items)).type = "array"
    BY DEF Array
  <2>4. QED
    BY <1>4, <2>2, <2>3 DEF Shape
<1>5. CASE Keyed(v, Values[n])
  <2> DEFINE members == Each(f, v.members)
  <2>1. v.members \in Maps(Values[n])
    BY <1>5 DEF Keyed
  <2>2. Present(members) = Present(v.members) /\ members \in Maps(Deep(n) \cup {Exception}) /\ DOMAIN members = Keys
    BY <1>1, <2>1, EachMember
  <2>3. "tag" \notin Present(v.members) => members["tag"] = Absent
    BY <2>2 DEF Present
  <2>4. CASE "tag" \notin Present(v.members)
    <3>1. EncodeNode(f, v) = Unless(members, Object(members))
      BY <1>5, <2>4, Encoded
    <3> HIDE DEF members
    <3>2. EncodeNode(f, v) = Object(members) /\ Clean(members)
      BY <3>1, UnlessIs DEF Clean
    <3>3. Object(members).type = "object" /\ Object(members).members = members
      BY DEF Object
    <3>4. QED
      BY <1>5, <2>3, <2>4, <3>2, <3>3 DEF Shape, members
  <2>5. CASE "tag" \in Present(v.members)
    <3>1. EncodeNode(f, v) = Unless(members, LitRef(Object(members)))
      BY <1>5, <2>5, Encoded
    <3> HIDE DEF members
    <3>2. EncodeNode(f, v) = LitRef(Object(members)) /\ Clean(members)
      BY <3>1, UnlessIs DEF Clean
    <3>3. /\ LitRef(Object(members)).type = "object" /\ LitRef(Object(members)).members["tag"] # Absent
          /\ LitRef(Object(members)).members["value"] # Absent
          /\ LitRef(Object(members)).members["value"] = Object(members)
      BY DEF LitRef, Only, Lit, Scalar, Absent, Object
    <3>4. QED
      BY <1>5, <3>2, <3>3 DEF Shape, members
  <2>6. QED
    BY <2>4, <2>5
<1>6. QED
  BY <1>3, <1>4, <1>5, ValueKinds

\* A step of the encoding is one-to-one when the encoding of the parts is.
LEMMA OneToOneNode ==
  ASSUME NEW n \in Nat, NEW f \in [Values[n] -> Deep(n) \cup {Exception}], OneToOne(f, Values[n]),
         NEW u \in Values[n + 1], NEW v \in Values[n + 1],
         EncodeNode(f, u) # Exception, EncodeNode(f, u) = EncodeNode(f, v)
  PROVE  u = v
<1> DEFINE w == EncodeNode(f, u)
<1>1. Shape(f, n, u, w) /\ Shape(f, n, v, w)
  BY EncodingLooks
<1>2. Absent \notin Values[n] /\ Absent \notin Deep(n) \cup {Exception}
  BY Regular, DeepIs DEF Absent, Exception
<1> HIDE DEF w
<1>3. ASSUME Listed(u, Values[n]), Listed(v, Values[n]), Clean(Each(f, u.items)),
             Array(Each(f, u.items)) = Array(Each(f, v.items))
      PROVE  u = v
  <2>1. Each(f, u.items) = Each(f, v.items)
    BY <1>3 DEF Array
  <2>2. u.items = v.items
    BY <1>2, <1>3, <2>1, SameItems DEF Listed
  <2>3. QED
    BY <1>3, <2>2 DEF Listed
<1>4. ASSUME Keyed(u, Values[n]), Keyed(v, Values[n]), Clean(Each(f, u.members)),
             Object(Each(f, u.members)) = Object(Each(f, v.members))
      PROVE  u = v
  <2>1. Each(f, u.members) = Each(f, v.members)
    BY <1>4 DEF Object
  <2>2. u.members = v.members
    BY <1>2, <1>4, <2>1, SameMembers DEF Keyed
  <2>3. QED
    BY <1>4, <2>2 DEF Keyed
<1>5. QED
  BY <1>1, <1>3, <1>4 DEF Shape, ScalarTypes

\* Two values of the engine have the same encoding only when they are the same.
LEMMA EncodingTells ==
  ASSUME NEW n \in Nat
  PROVE  OneToOne(Encode[n], Values[n])
<1> DEFINE P == {k \in Nat : OneToOne(Encode[k], Values[k])}
<1>1. 0 \in P
  <2>1. ASSUME NEW u \in Values[0], NEW v \in Values[0], Encode[0][u] # Exception, Encode[0][u] = Encode[0][v]
        PROVE  u = v
    <3>1. u \in Leaves /\ v \in Leaves
      BY Levels
    <3>2. Encode[0][u] = EncodeNode(Encode[0 - 1], u) /\ Encode[0][v] = EncodeNode(Encode[0 - 1], v)
      BY EncodeIs
    <3>3. NoContentRef.type = "object"
      BY DEF NoContentRef, Object
    <3>4. /\ Encode[0][u] = (CASE u.type = "sentinel" -> NoContentRef
                               [] u.type = "opaque"   -> Exception
                               [] OTHER -> u)
          /\ Encode[0][v] = (CASE v.type = "sentinel" -> NoContentRef
                               [] v.type = "opaque"   -> Exception
                               [] OTHER -> v)
      BY <3>1, <3>2, EncodedLeaf
    <3>5. /\ (u \in Scalars /\ u.type \in ScalarTypes) \/ (u = Sentinel /\ u.type = "sentinel")
          /\ (v \in Scalars /\ v.type \in ScalarTypes) \/ (v = Sentinel /\ v.type = "sentinel")
      <4>1. Encode[0][u] # Exception /\ Encode[0][v] # Exception
        BY <2>1
      <4>2. u.type # "opaque" /\ v.type # "opaque"
        <5>1. u.type = "opaque" => Encode[0][u] = Exception
          BY <3>4
        <5>2. v.type = "opaque" => Encode[0][v] = Exception
          BY <3>4
        <5>3. QED
          BY <4>1, <5>1, <5>2
      <4>3. QED
        BY <3>1, <4>2, LeafIs
    <3>6. QED
      BY <2>1, <3>3, <3>4, <3>5 DEF ScalarTypes
  <2>2. QED
    BY <2>1 DEF OneToOne
<1>2. ASSUME NEW k \in P PROVE k + 1 \in P
  <2>1. k \in Nat /\ k + 1 \in Nat /\ (k + 1) - 1 = k
    OBVIOUS
  <2>2. ASSUME NEW u \in Values[k + 1], NEW v \in Values[k + 1],
               Encode[k + 1][u] # Exception, Encode[k + 1][u] = Encode[k + 1][v]
        PROVE  u = v
    <3>1. OneToOne(Encode[k], Values[k])
      OBVIOUS
    <3>2. Encode[k + 1][u] = EncodeNode(Encode[k], u) /\ Encode[k + 1][v] = EncodeNode(Encode[k], v)
      BY <2>1, EncodeIs
    <3>3. Encode[k] \in [Values[k] -> Deep(k) \cup {Exception}]
      BY EncodeIs
    <3>4. EncodeNode(Encode[k], u) # Exception /\ EncodeNode(Encode[k], u) = EncodeNode(Encode[k], v)
      BY <2>2, <3>2
    <3> HIDE DEF P
    <3>5. QED
      BY <2>1, <3>1, <3>3, <3>4, OneToOneNode
  <2>3. QED
    BY <2>1, <2>2 DEF OneToOne
<1> HIDE DEF P
<1>3. P = Nat
  <2>1. P \in SUBSET Nat
    BY DEF P
  <2>2. QED
    BY <1>1, <1>2, <2>1, Climb
<1>4. QED
  BY <1>3 DEF P

\* The decoding agrees, at a level, with the encoding of what is meant.
Agrees(n) == \A e \in Json[n] : DecodeExpected[n][e] # Exception => DecodeExpected[n][e] = Encode[n][Meaning[n][e]]

\* The items, encoded by way of what they mean, are the items as decoded.
LEMMA ItemsThrough ==
  ASSUME NEW n \in Nat, Agrees(n), NEW p \in Seq(Json[n]), Clean(Each(DecodeExpected[n], p))
  PROVE  Each(Meaning[n], p) \in Seq(Values[n]) /\ Each(Encode[n], Each(Meaning[n], p)) = Each(DecodeExpected[n], p)
<1> DEFINE f == DecodeExpected[n]
           g == Encode[n]
           h == Meaning[n]
<1>1. \A e \in Json[n] : h[e] \in Values[n] /\ h[e] # Absent /\ (f[e] # Exception => f[e] = g[h[e]])
  BY MeaningIs, Regular DEF Agrees
<1>2. Len(p) \in Nat /\ DOMAIN p = 1..Len(p) /\ \A key \in DOMAIN p : p[key] \in Json[n] /\ p[key] # Absent
  BY Regular
<1> HIDE DEF f, g, h
<1>3. Each(h, p) = [key \in 1..Len(p) |-> h[p[key]]] /\ Each(f, p) = [key \in 1..Len(p) |-> f[p[key]]]
  BY <1>2 DEF Each
<1>4. [key \in 1..Len(p) |-> h[p[key]]] \in Seq(Values[n])
  BY <1>1, <1>2
<1>5. Each(g, Each(h, p)) = [key \in 1..Len(p) |-> g[h[p[key]]]]
  BY <1>1, <1>2, <1>3 DEF Each
<1>6. \A key \in 1..Len(p) : f[p[key]] # Exception
  BY <1>3 DEF Clean, f
<1>7. \A key \in 1..Len(p) : g[h[p[key]]] = f[p[key]]
  BY <1>1, <1>2, <1>6
<1>8. QED
  BY <1>3, <1>4, <1>5, <1>7 DEF f, g, h

\* The members, likewise.
LEMMA MembersThrough ==
  ASSUME NEW n \in Nat, Agrees(n), NEW p \in Maps(Json[n]), Clean(Each(DecodeExpected[n], p))
  PROVE  /\ Each(Meaning[n], p) \in Maps(Values[n]) /\ Present(Each(Meaning[n], p)) = Present(p)
         /\ Each(Encode[n], Each(Meaning[n], p)) = Each(DecodeExpected[n], p)
<1> DEFINE f == DecodeExpected[n]
           g == Encode[n]
           h == Meaning[n]
<1>1. \A e \in Json[n] : h[e] \in Values[n] /\ h[e] # Absent /\ (f[e] # Exception => f[e] = g[h[e]])
  BY MeaningIs, Regular DEF Agrees
<1>2. DOMAIN p = Keys /\ \A key \in Keys : p[key] # Absent => p[key] \in Json[n]
  BY DEF Maps
<1> HIDE DEF f, g, h
<1>3. /\ Each(h, p) = [key \in Keys |-> IF p[key] = Absent THEN Absent ELSE h[p[key]]]
      /\ Each(f, p) = [key \in Keys |-> IF p[key] = Absent THEN Absent ELSE f[p[key]]]
  BY <1>2 DEF Each
<1>4. Each(h, p) \in Maps(Values[n]) /\ Present(Each(h, p)) = Present(p)
  BY <1>1, <1>2, <1>3 DEF Maps, Present
<1>5. Each(g, Each(h, p)) = [key \in Keys |-> IF p[key] = Absent THEN Absent ELSE g[h[p[key]]]]
  BY <1>1, <1>2, <1>3 DEF Each
<1>6. \A key \in Keys : p[key] # Absent => f[p[key]] # Exception
  BY <1>3 DEF Clean, f
<1>7. \A key \in Keys : p[key] # Absent => g[h[p[key]]] = f[p[key]]
  BY <1>1, <1>2, <1>6
<1>8. QED
  BY <1>3, <1>4, <1>5, <1>7 DEF f, g, h

\* What a decoded expectation is: the encoding of the value it means.
LEMMA DecodingMeans ==
  ASSUME NEW n \in Nat
  PROVE  Agrees(n)
<1> DEFINE P == {k \in Nat : Agrees(k)}
<1>1. 0 \in P
  <2>1. ASSUME NEW e \in Json[0] PROVE DecodeExpected[0][e] = Encode[0][Meaning[0][e]]
    <3>1. e \in Scalars /\ e \in Leaves /\ e \in Values[0]
      BY Levels DEF Leaves
    <3>2. Plain(e) /\ e.type \notin {"sentinel", "opaque"}
      BY <3>1 DEF Plain, Scalars, ScalarTypes
    <3>3. DecodeExpected[0][e] = e /\ Meaning[0][e] = e
      <4>1. /\ DecodeExpected[0][e] = DecodeNode(DecodeExpected[0 - 1], Encode[0 - 1], e)
            /\ Meaning[0][e] = MeaningNode(Meaning[0 - 1], e)
        BY DecodeIs, MeaningIs
      <4>2. DecodeNode(DecodeExpected[0 - 1], Encode[0 - 1], e) = e
        BY <3>2, Decoded
      <4>3. MeaningNode(Meaning[0 - 1], e) = e
        BY <3>2, Meant
      <4>4. QED
        BY <4>1, <4>2, <4>3
    <3>4. Encode[0][e] = e
      BY <3>1, <3>2, EncodeIs, EncodedLeaf
    <3>5. QED
      BY <3>3, <3>4
  <2>2. QED
    BY <2>1 DEF Agrees
<1>2. ASSUME NEW k \in P PROVE k + 1 \in P
  <2>1. k \in Nat /\ k + 1 \in Nat /\ (k + 1) - 1 = k
    OBVIOUS
  <2> DEFINE f == DecodeExpected[k]
             g == Encode[k]
             h == Meaning[k]
  <2>2. /\ f \in [Json[k] -> Deep(k) \cup {Exception}] /\ g \in [Values[k] -> Deep(k) \cup {Exception}]
        /\ h \in [Json[k] -> Values[k]]
    BY DecodeIs, EncodeIs, MeaningIs
  <2>3. Agrees(k)
    OBVIOUS
  <2>4. ASSUME NEW e \in Json[k + 1], DecodeExpected[k + 1][e] # Exception
        PROVE  DecodeExpected[k + 1][e] = Encode[k + 1][Meaning[k + 1][e]]
    <3>1. DecodeExpected[k + 1][e] = DecodeNode(f, g, e) /\ Meaning[k + 1][e] = MeaningNode(h, e)
      BY <2>1, DecodeIs, MeaningIs
    <3> DEFINE v == MeaningNode(h, e)
    <3>2. v \in Values[k + 1]
      BY <2>2, MeantNode
    <3>3. Encode[k + 1][v] = EncodeNode(g, v)
      BY <2>1, <3>2, EncodeIs
    <3>4. DecodeNode(f, g, e) # Exception
      BY <2>4, <3>1
    <3>5. Absent \notin Json[k] /\ Absent \notin Values[k] /\ Absent \notin Deep(k) \cup {Exception}
      BY <2>1, Regular, DeepIs DEF Absent, Exception
    <3> HIDE DEF P, f, g, h
    <3>6. CASE Plain(e)
      <4>1. DecodeNode(f, g, e) = e /\ v = e
        BY <3>6, Decoded, Meant
      <4>2. e \in Leaves /\ e.type \notin {"sentinel", "opaque"}
        BY <3>6 DEF Plain, Leaves, ScalarTypes
      <4>3. EncodeNode(g, e) = e
        BY <4>2, EncodedLeaf
      <4>4. QED
        BY <3>1, <3>3, <4>1, <4>3
    <3>7. CASE Listed(e, Json[k])
      <4>1. /\ DecodeNode(f, g, e) = Unless(Each(f, e.items), Array(Each(f, e.items)))
            /\ v = Array(Each(h, e.items))
        BY <3>7, Decoded, Meant
      <4>2. DecodeNode(f, g, e) = Array(Each(f, e.items)) /\ Clean(Each(f, e.items))
        BY <3>4, <4>1, UnlessIs DEF Clean
      <4>3. Each(h, e.items) \in Seq(Values[k]) /\ Each(g, Each(h, e.items)) = Each(f, e.items)
        <5>1. e.items \in Seq(Json[k])
          BY <3>7 DEF Listed
        <5>2. QED
          BY <2>1, <2>3, <4>2, <5>1, ItemsThrough DEF f, g, h
      <4>4. Listed(v, Values[k]) /\ v.items = Each(h, e.items)
        BY <4>1, <4>3 DEF Listed, Array
      <4>5. EncodeNode(g, v) = Unless(Each(f, e.items), Array(Each(f, e.items)))
        BY <4>3, <4>4, Encoded
      <4>6. QED
        BY <3>1, <3>3, <4>1, <4>5
    <3>8. CASE Keyed(e, Json[k])
      <4>1. CASE IsNoContentRef(e)
        <5>1. DecodeNode(f, g, e) = NoContentRef /\ v = Sentinel
          BY <3>8, <4>1, Decoded, Meant
        <5>2. Sentinel \in Leaves /\ Sentinel.type = "sentinel"
          BY DEF Leaves, Sentinel
        <5>3. EncodeNode(g, Sentinel) = NoContentRef
          BY <5>2, EncodedLeaf
        <5>4. QED
          BY <3>1, <3>3, <5>1, <5>3
      <4>2. CASE IsLitRef(e)
        <5>1. DecodeNode(f, g, e) = g[e.members["value"]] /\ v = e.members["value"]
          BY <3>8, <4>2, Decoded, Meant
        <5>2. e.members["value"] \in Values[k]
          BY <2>1, <3>8, <4>2, References, Deeper
        <5>3. Encode[k + 1][e.members["value"]] = g[e.members["value"]]
          BY <2>1, <5>2, EncodingKeeps DEF g
        <5>4. QED
          BY <3>1, <5>1, <5>3
      <4>3. CASE IsUnknownTag(e)
        BY <3>4, <3>8, <4>3, Decoded
      <4>4. CASE "tag" \notin Present(e.members)
        <5>1. e.type = "object" /\ e.members \in Maps(Json[k])
          BY <3>8 DEF Keyed
        <5>2. /\ DecodeNode(f, g, e) = Unless(Each(f, e.members), Object(Each(f, e.members)))
              /\ v = Object(Each(h, e.members))
          BY <3>8, <4>4, <5>1, Decoded, Meant, Tags
        <5>3. DecodeNode(f, g, e) = Object(Each(f, e.members)) /\ Clean(Each(f, e.members))
          BY <3>4, <5>2, UnlessIs DEF Clean
        <5>4. /\ Each(h, e.members) \in Maps(Values[k]) /\ Each(g, Each(h, e.members)) = Each(f, e.members)
              /\ Present(Each(h, e.members)) = Present(e.members)
          BY <2>1, <2>3, <5>1, <5>3, MembersThrough DEF f, g, h
        <5>5. Keyed(v, Values[k]) /\ v.members = Each(h, e.members)
          BY <5>2, <5>4 DEF Keyed, Object
        <5>6. EncodeNode(g, v) = Unless(Each(f, e.members), Object(Each(f, e.members)))
          BY <4>4, <5>4, <5>5, Encoded
        <5>7. QED
          BY <3>1, <3>3, <5>2, <5>6
      <4>5. QED
        BY <3>8, <4>1, <4>2, <4>3, <4>4, Tags DEF Keyed
    <3>9. QED
      BY <2>1, <3>6, <3>7, <3>8, DocumentIs DEF Plain, Listed, Keyed
  <2>5. QED
    BY <2>1, <2>4 DEF Agrees
<1> HIDE DEF P
<1>3. P = Nat
  <2>1. P \in SUBSET Nat
    BY DEF P
  <2>2. QED
    BY <1>1, <1>2, <2>1, Climb
<1>4. QED
  BY <1>3 DEF P

-----------------------------------------------------------------------------
\* The walk over two documents of a level is a step over walks of the level below.
LEMMA WalkAt ==
  ASSUME NEW n \in Nat, NEW a \in Json[n], NEW b \in Json[n]
  PROVE  Walk[n][a][b] = WalkNode(Walk[n - 1], a, b)
<1>1. \A e \in Json[n] : Walk[n][e] = [c \in Json[n] |-> WalkNode(Walk[n - 1], e, c)]
  BY WalkIs
<1>2. Walk[n][a] = [c \in Json[n] |-> WalkNode(Walk[n - 1], a, c)]
  BY <1>1
<1>3. QED
  BY <1>2

\* The walk tells scalars apart.
LEMMA ScalarsTold ==
  ASSUME NEW walk, NEW a \in Scalars, NEW b \in Scalars
  PROVE  WalkNode(walk, a, b) = {} <=> a = b
<1>1. a.type = b.type /\ a.is = b.is => a = b
  BY DEF Scalars
<1>2. WalkNode(walk, a, b) = IF a.type # b.type THEN {Entry(<<>>, "type_mismatch")}
                             ELSE IF a.is = b.is THEN {} ELSE {Entry(<<>>, "value_mismatch")}
  BY WalkedLeaf
<1>3. QED
  BY <1>1, <1>2

\* The walk over two documents yields no entry just when they are the same.
LEMMA ComparisonTells ==
  ASSUME NEW n \in Nat
  PROVE  Tells(Walk[n], n)
<1> DEFINE P == {k \in Nat : Tells(Walk[k], k)}
<1>1. 0 \in P
  <2>1. ASSUME NEW a \in Json[0], NEW b \in Json[0] PROVE Walk[0][a][b] = {} <=> a = b
    <3>1. a \in Scalars /\ b \in Scalars
      BY Levels
    <3>2. Walk[0][a][b] = WalkNode(Walk[0 - 1], a, b)
      BY WalkAt
    <3>3. QED
      BY <3>1, <3>2, ScalarsTold
  <2>2. QED
    BY <2>1 DEF Tells
<1>2. ASSUME NEW k \in P PROVE k + 1 \in P
  <2>1. k \in Nat /\ k + 1 \in Nat /\ (k + 1) - 1 = k
    OBVIOUS
  <2>2. Tells(Walk[k], k)
    OBVIOUS
  <2>3. ASSUME NEW a \in Json[k + 1], NEW b \in Json[k + 1] PROVE Walk[k + 1][a][b] = {} <=> a = b
    <3>1. Walk[k + 1][a][b] = WalkNode(Walk[k], a, b)
      <4>1. Walk[k + 1][a][b] = WalkNode(Walk[(k + 1) - 1], a, b)
        BY <2>1, WalkAt
      <4>2. QED
        BY <2>1, <4>1
    <3>2. Walk[k] \in [Json[k] -> [Json[k] -> SUBSET Entries]]
      BY WalkIs
    <3>3. Tells(Walk[k], k) => (WalkNode(Walk[k], a, b) = {} <=> a = b)
      BY <2>1, <3>2, WalkedNode
    <3>4. QED
      BY <2>2, <3>1, <3>3
  <2>4. QED
    BY <2>1, <2>3 DEF Tells
<1> HIDE DEF P
<1>3. P = Nat
  <2>1. P \in SUBSET Nat
    BY DEF P
  <2>2. QED
    BY <1>1, <1>2, <2>1, Climb
<1>4. QED
  BY <1>3 DEF P

\* A case whose two halves are there has no diff just when they mean the same.
LEMMA MatchTells ==
  ASSUME NEW c \in Cases, ~Failed(Decode(c)), ~Failed(Result(c))
  PROVE  MatchCase(c) = {} <=> /\ Meaning[Depth][c.output] = c.result
                               /\ Each(Meaning[Depth], c.writes) = c.captured
<1>1. /\ c.output \in Json[Depth] /\ c.writes \in Maps(Json[Depth])
      /\ c.result \in Values[Depth] /\ c.captured \in Maps(Values[Depth]) /\ Depth \in Nat
  BY CasesAssumption, DepthAssumption
<1> DEFINE f == DecodeExpected[Depth]
           g == Encode[Depth]
           h == Meaning[Depth]
<1>2. f[c.output] # Exception /\ Clean(Each(f, c.writes))
  BY UnlessIs DEF Failed, Decode, Object, Clean, Unless
<1>3. g[c.result] # Exception /\ Clean(Each(g, c.captured))
  BY UnlessIs DEF Failed, Result, Object, Clean, Unless
<1>4. f[c.output] = g[h[c.output]] /\ h[c.output] \in Values[Depth]
  BY <1>1, <1>2, DecodingMeans, MeaningIs DEF Agrees
<1>5. Each(h, c.writes) \in Maps(Values[Depth]) /\ Each(g, Each(h, c.writes)) = Each(f, c.writes)
  BY <1>1, <1>2, DecodingMeans, MembersThrough
<1>6. Absent \notin Values[Depth] /\ Absent \notin Deep(Depth) \cup {Exception}
  BY <1>1, Regular, DeepIs DEF Absent, Exception
<1>7. g \in [Values[Depth] -> Deep(Depth) \cup {Exception}] /\ OneToOne(g, Values[Depth])
  BY <1>1, EncodeIs, EncodingTells
<1> HIDE DEF f, g, h
<1>8. f[c.output] = g[c.result] <=> h[c.output] = c.result
  BY <1>1, <1>3, <1>4, <1>7 DEF OneToOne
<1>9. Each(f, c.writes) = Each(g, c.captured) <=> Each(h, c.writes) = c.captured
  BY <1>1, <1>3, <1>5, <1>6, <1>7, SameMembers
<1>10. /\ f[c.output] \in Deep(Depth) /\ g[c.result] \in Deep(Depth)
       /\ Each(f, c.writes) \in Maps(Deep(Depth)) /\ Each(g, c.captured) \in Maps(Deep(Depth))
  <2>1. Each(g, c.captured) \in Maps(Deep(Depth) \cup {Exception})
    BY <1>1, <1>6, <1>7, EachMember
  <2>2. Each(g, Each(h, c.writes)) \in Maps(Deep(Depth) \cup {Exception})
    BY <1>5, <1>6, <1>7, EachMember
  <2>3. \A p \in Maps(Deep(Depth) \cup {Exception}) : Clean(p) => p \in Maps(Deep(Depth))
    BY DEF Clean, Maps
  <2>4. QED
    BY <1>1, <1>2, <1>3, <1>4, <1>5, <1>7, <2>1, <2>2, <2>3
<1> DEFINE n == 2 * Depth + 2
<1>11. n \in Nat /\ Deep(Depth) \subseteq Json[n] /\ \A p \in Maps(Deep(Depth)) : Object(p) \in Json[n]
  <2>1. 2 * Depth + 1 \in Nat /\ (2 * Depth + 1) + 1 = n /\ n \in Nat
    BY <1>1
  <2>2. QED
    BY <2>1, Deeper, MakesDocument DEF Deep
<1>12. \A a, b \in Json[n] : Compare(a, b) = {} <=> a = b
  <2>1. \A a, b \in Json[n] : Walk[n][a][b] = {} <=> a = b
    BY <1>11, ComparisonTells DEF Tells
  <2>2. QED
    BY <2>1 DEF Compare
<1> HIDE DEF n
<1>13. Compare(f[c.output], g[c.result]) = {} <=> f[c.output] = g[c.result]
  BY <1>10, <1>11, <1>12
<1>14. Compare(Object(Each(f, c.writes)), Object(Each(g, c.captured))) = {} <=>
         Each(f, c.writes) = Each(g, c.captured)
  <2>1. Object(Each(f, c.writes)) \in Json[n] /\ Object(Each(g, c.captured)) \in Json[n]
    BY <1>10, <1>11
  <2>2. Object(Each(f, c.writes)) = Object(Each(g, c.captured)) <=> Each(f, c.writes) = Each(g, c.captured)
    BY DEF Object
  <2>3. QED
    BY <1>12, <2>1, <2>2
<1>15. MatchCase(c) = {} <=> /\ Compare(f[c.output], g[c.result]) = {}
                             /\ Compare(Object(Each(f, c.writes)), Object(Each(g, c.captured))) = {}
  BY DEF MatchCase, Decode, Result, f, g
<1>16. QED
  BY <1>8, <1>9, <1>13, <1>14, <1>15 DEF h

\* What is matched has decoded, and has a result.
Matching ==
  /\ stage = "given" => case \in Cases /\ ss = Empty(~Failed(Decode(case)))
  /\ stage = "matched" => /\ case \in Cases /\ ~Failed(Decode(case)) /\ ~Failed(Result(case))
                          /\ diff = MatchCase(case)

\* No step matches what has not decoded, or has no result.
LEMMA MatchStep == ASSUME Matching, [MatchNext]_<<vars, matchVars>> PROVE Matching'
<1>1. CASE Match
  <2>1. stage = "given" /\ case \in Cases /\ ss = Empty(~Failed(Decode(case))) /\ case' = case
    BY <1>1 DEF Match, Matching
  <2>2. stage' # "given"
    BY <1>1 DEF Match
  <2>3. ASSUME stage' = "matched" PROVE Matching'
    <3>1. /\ "schema_invalid" \notin SampleCheck(ss).gaps /\ ~Failed(Result(case))
          /\ diff' = MatchCase(case)
      BY <1>1, <2>3 DEF Match
    <3>2. ss.tagsOk
      BY <3>1 DEF SampleCheck
    <3>3. ~Failed(Decode(case))
      BY <2>1, <3>2 DEF Empty
    <3>4. QED
      BY <2>1, <2>2, <3>1, <3>3 DEF Matching
  <2>4. QED
    BY <2>2, <2>3 DEF Matching
<1>2. CASE stage = "editing" /\ Next /\ UNCHANGED matchVars
  BY <1>2 DEF Matching, matchVars
<1>3. CASE UNCHANGED <<vars, matchVars>>
  BY <1>3 DEF Matching, vars, matchVars
<1>4. QED
  BY <1>1, <1>2, <1>3 DEF MatchNext

\* The match stage tells equality (match.py, _tags.py): at any depth, over any keys, a case
\* that is matched has no diff just when the engine returned and wrote what the sample means.
THEOREM MatchingIsEquality == MatchSpec => []MatchIsEquality
<1>1. Given \/ Edited => Matching
  BY DEF Given, Edited, Matching
<1>2. Matching /\ [MatchNext]_<<vars, matchVars>> => Matching'
  BY MatchStep
<1>3. Matching => MatchIsEquality
  BY MatchTells DEF Matching, MatchIsEquality
<1>4. QED
  BY <1>1, <1>2, <1>3, PTL DEF MatchSpec

\* To the SampleSet, matching is nothing: whoever looks at the document alone sees it being
\* edited, so that what is proved of Spec holds beside any matching as well.
THEOREM MatchingOnlyEdits == MatchSpec => Spec
<1>1. Given \/ Edited => Init
  BY DEF Given, Edited, Init, Failed
<1>2. [MatchNext]_<<vars, matchVars>> => [Next]_vars
  BY DEF MatchNext, Match, vars, matchVars
<1>3. QED
  BY <1>1, <1>2, PTL DEF MatchSpec, Spec

\* What is shown of the check while a SampleSet is edited, in the behaviours that also match.
THEOREM CheckStandsBesideMatching ==
  MatchSpec => [](GapsDecide /\ EvidenceForAll) /\ EvidenceIsMonotone
BY MatchingOnlyEdits, GapsTell, EvidenceHolds, LoopGoesForward, PTL
=============================================================================

---------------------------- MODULE IdLedgerProofs ----------------------------
(***************************************************************************)
(* For any families, any bound on the ids, any number of processes and     *)
(* edits: no gap ever becomes history.  With at most one updater at a time *)
(* the ledger is append-only and the gate forgets nothing.                 *)
(***************************************************************************)
EXTENDS IdLedger, TLAPS

USE MaxIdAssumption, ProcessAssumption

Writing  == {"create", "creating", "write", "writing"}
Updating == Writing \cup {"look", "recheck"}

\* What is in the ledger, or on its way into it, is numbered 1..n.
AllContiguous(d) == \A f \in Families : Contiguous(d[f])
WritesContiguous ==
  \A p \in Processes : pc[p] \in Writing => AllContiguous(pending[p])
LInv == TypeOK /\ AllContiguous(ids) /\ WritesContiguous

-----------------------------------------------------------------------------
\* The greatest of the numbers 1..n is n.
LEMMA TopOfRange ==
  ASSUME NEW n \in Nat
  PROVE  Top(1..n) = n
<1>1. CASE n = 0
  BY <1>1 DEF Top
<1>2. CASE n # 0
  <2>1. n \in 1..n /\ \A k \in 1..n : k <= n
    BY <1>2
  <2>2. \A m \in 1..n : (\A k \in 1..n : k <= m) => m = n
    BY <2>1
  <2>3. 1..n # {}
    BY <2>1
  <2>4. (CHOOSE m \in 1..n : \A k \in 1..n : k <= m) = n
    BY <2>1, <2>2
  <2>5. QED
    BY <2>3, <2>4 DEF Top
<1>3. QED
  BY <1>1, <1>2

\* Registering what Extends allows keeps every family contiguous.
LEMMA UnionContiguous ==
  ASSUME NEW l \in IdSets, NEW d \in IdSets, AllContiguous(l), Extends(d, l)
  PROVE  AllContiguous(Union(l, d))
<1> SUFFICES ASSUME NEW f \in Families
             PROVE  Contiguous(Union(l, d)[f])
  BY DEF AllContiguous
<1> DEFINE new == d[f] \ l[f]
<1>1. New(d, l)[f] = new /\ Union(l, d)[f] = l[f] \cup new
  BY DEF New, Union
<1>2. l[f] \subseteq 0..MaxId /\ d[f] \subseteq 0..MaxId
  BY DEF IdSets
<1>3. PICK n \in 0..MaxId : l[f] = 1..n
  BY DEF AllContiguous, Contiguous
<1>4. CASE new = {}
  BY <1>1, <1>3, <1>4 DEF Contiguous
<1>5. CASE new # {}
  <2>1. Top(l[f]) = n
    BY <1>3, TopOfRange
  <2>2. PICK m \in new : new = (n + 1)..m
    BY <1>1, <1>5, <2>1 DEF Extends
  <2>3. m \in 0..MaxId
    BY <1>2, <2>2
  <2>4. l[f] \cup new = 1..m
    <3>1. n \in Nat /\ m \in Nat /\ n + 1 <= m
      BY <1>3, <2>2, <2>3
    <3>2. \A k : k \in l[f] \cup new <=> k \in 1..n \/ k \in (n + 1)..m
      BY <1>3, <2>2
    <3>3. \A k : k \in 1..n \/ k \in (n + 1)..m <=> k \in 1..m
      BY <3>1
    <3>4. QED
      BY <3>2, <3>3
  <2>5. QED
    BY <1>1, <2>3, <2>4 DEF Contiguous
<1>6. QED
  BY <1>4, <1>5

\* Union and difference of ids, family by family.
LEMMA UnionTyped ==
  ASSUME NEW l \in IdSets, NEW d \in IdSets
  PROVE  Union(l, d) \in IdSets /\ New(l, d) \in IdSets
BY DEF IdSets, Union, New

\* The empty ledger is free of gaps.
LEMMA NoIdsFacts == NoIds \in IdSets /\ AllContiguous(NoIds)
<1>1. {} = 1..0 /\ 0 \in 0..MaxId
  OBVIOUS
<1>2. QED
  BY <1>1 DEF NoIds, IdSets, AllContiguous, Contiguous

-----------------------------------------------------------------------------
\* Before any process has started.
THEOREM InitLInv == Init => LInv
<1> SUFFICES ASSUME Init PROVE LInv
  OBVIOUS
<1> USE DEF Init
<1>1. TypeOK
  BY NoIdsFacts DEF TypeOK, Processes, Labels
<1>2. AllContiguous(ids) /\ WritesContiguous
  BY NoIdsFacts DEF WritesContiguous, Writing
<1>3. QED
  BY <1>1, <1>2 DEF LInv

\* Steps of the environment: no process moves, no id enters the ledger.
LEMMA EnvironmentSteps ==
  ASSUME LInv, RestoreFromGit \/ \E f \in Families, n \in 0..MaxId : EditDocs(f, n)
  PROVE  LInv'
<1>1. UNCHANGED <<ids, pc, defined, pending, verdict, issued, missed>>
  BY DEF RestoreFromGit, EditDocs
<1>2. docs' \in IdSets /\ edits' \in Nat /\ file' \in {"missing", "torn", "whole"}
  <2>1. CASE RestoreFromGit
    BY <2>1 DEF RestoreFromGit, LInv, TypeOK, Labels
  <2>2. ASSUME NEW f \in Families, NEW n \in 0..MaxId, EditDocs(f, n)
        PROVE  docs' \in IdSets /\ edits' \in Nat /\ file' \in {"missing", "torn", "whole"}
    BY <2>2 DEF EditDocs, IdSets, LInv, TypeOK, Labels
  <2>3. QED
    BY <2>1, <2>2
<1>3. QED
  BY <1>1, <1>2 DEF LInv, TypeOK, WritesContiguous, Labels, Writing

\* Steps that leave the disk, and what is to be written, alone.
LEMMA ReadingSteps ==
  ASSUME LInv, NEW p \in Processes,
         Start(p) \/ RefuseTorn(p) \/ Recheck(p) \/ Check(p) \/ Count(p) \/ Crash(p)
  PROVE  LInv'
<1>1. UNCHANGED <<docs, file, ids, issued, edits, pending>>
  BY DEF Start, RefuseTorn, Recheck, Check, Count, Crash, disk
<1>2. \/ pc' = [pc EXCEPT ![p] = "idle"]
      \/ pc' = [pc EXCEPT ![p] = "look"]
      \/ pc' = [pc EXCEPT ![p] = "check"]
      \/ pc' = [pc EXCEPT ![p] = "count"]
  BY DEF Start, RefuseTorn, Recheck, Check, Count, Crash, Exit
<1>3. defined' \in [Processes -> IdSets]
  BY DEF Start, RefuseTorn, Recheck, Check, Count, Crash, LInv, TypeOK, Labels
<1>4. missed' \in IdSets
  BY UnionTyped DEF Start, RefuseTorn, Recheck, Check, Count, Crash, LInv, TypeOK, Labels
<1>5. verdict' \in [Processes -> {"none", "ok", "refused"}]
  <2>1. \/ UNCHANGED verdict
        \/ \E r \in {"none", "ok", "refused"} : verdict' = [verdict EXCEPT ![p] = r]
    BY DEF Start, RefuseTorn, Recheck, Check, Count, Crash, Exit
  <2>2. QED
    BY <2>1 DEF LInv, TypeOK, Labels
<1>6. \A c \in Checkers : pc'[c] \in {"idle", "check", "count"}
  <2>1. pc \in [Processes -> Labels]
        /\ \A c \in Checkers : pc[c] \in {"idle", "check", "count"}
    BY DEF LInv, TypeOK, Labels
  <2>2. pc' = [pc EXCEPT ![p] = "look"] => p \in Updaters
    BY <2>1 DEF Start, RefuseTorn, Recheck, Check, Count, Crash, Exit
  <2>3. Checkers \subseteq Processes
    BY DEF Processes
  <2>4. QED
    BY <1>2, <2>1, <2>2, <2>3
<1>7. TypeOK'
  BY <1>1, <1>2, <1>3, <1>4, <1>5, <1>6 DEF LInv, TypeOK, Labels
<1>8. WritesContiguous'
  BY <1>1, <1>2 DEF LInv, TypeOK, WritesContiguous, Labels, Writing
<1>9. QED
  BY <1>1, <1>7, <1>8 DEF LInv

\* A step that may set out to write.
LEMMA DecidingSteps ==
  ASSUME LInv, NEW p \in Processes, Initialize(p) \/ Register(p)
  PROVE  LInv'
<1>1. UNCHANGED <<docs, file, ids, issued, edits, defined, missed>>
  BY DEF Initialize, Register, disk
<1>2. ids \in IdSets /\ defined[p] \in IdSets /\ AllContiguous(ids)
  BY DEF LInv, TypeOK, Labels
<1>3. \/ /\ pc' = [pc EXCEPT ![p] = "idle"] /\ verdict' = [verdict EXCEPT ![p] = "refused"]
         /\ UNCHANGED pending
      \/ pc' = [pc EXCEPT ![p] = "recheck"] /\ UNCHANGED <<pending, verdict>>
      \/ \E new \in IdSets : /\ AllContiguous(new)
                             /\ pending' = [pending EXCEPT ![p] = new]
                             /\ \E label \in {"create", "write"} : pc' = [pc EXCEPT ![p] = label]
                             /\ UNCHANGED verdict
  <2>1. CASE Initialize(p)
    BY <1>2, <2>1 DEF Initialize, Write, Exit, Initializable, AllContiguous
  <2>2. CASE Register(p) /\ Extends(defined[p], ids)
    <3>1. Union(ids, defined[p]) \in IdSets /\ AllContiguous(Union(ids, defined[p]))
      BY <1>2, <2>2, UnionContiguous, UnionTyped
    <3>2. QED
      BY <2>2, <3>1 DEF Register, Write, Exit
  <2>3. CASE Register(p) /\ ~ Extends(defined[p], ids)
    BY <2>3 DEF Register, Exit
  <2>4. QED
    BY <2>1, <2>2, <2>3
<1>4. TypeOK'
  <2>1. p \notin Checkers
    BY DEF Initialize, Register, LInv, TypeOK, Labels
  <2>2. QED
    BY <1>1, <1>3, <2>1 DEF LInv, TypeOK, Processes, Labels
<1>5. WritesContiguous'
  BY <1>3 DEF LInv, TypeOK, WritesContiguous, Labels, Writing
<1>6. QED
  BY <1>1, <1>4, <1>5 DEF LInv

\* Truncating, then filling: the ledger gets what its writer has made of it.
LEMMA WritingSteps ==
  ASSUME LInv, NEW p \in Processes, Truncate(p) \/ Fill(p)
  PROVE  LInv'
<1>1. CASE Truncate(p)
  <2>1. TypeOK'
    BY <1>1 DEF Truncate, LInv, TypeOK, Labels
  <2>2. WritesContiguous'
    BY <1>1 DEF Truncate, LInv, TypeOK, WritesContiguous, Labels, Writing
  <2>3. QED
    BY <1>1, <2>1, <2>2 DEF Truncate, LInv
<1>2. CASE Fill(p)
  <2>1. pending[p] \in IdSets /\ AllContiguous(pending[p])
    BY <1>2 DEF Fill, LInv, TypeOK, WritesContiguous, Labels, Writing
  <2>2. ids' \in IdSets /\ AllContiguous(ids')
    BY <1>2, <2>1 DEF Fill, LInv, TypeOK, Labels
  <2>3. issued' \in IdSets
    BY <1>2, <2>1, UnionTyped DEF Fill, LInv, TypeOK, Labels
  <2>4. file' \in {"missing", "torn", "whole"}
    BY <1>2 DEF Fill
  <2>5. /\ UNCHANGED <<docs, defined, pending, missed, edits>>
        /\ \/ pc' = [pc EXCEPT ![p] = "idle"] /\ verdict' = [verdict EXCEPT ![p] = "ok"]
           \/ pc' = [pc EXCEPT ![p] = "recheck"] /\ UNCHANGED verdict
    BY <1>2 DEF Fill, Exit
  <2>6. p \notin Checkers
    BY <1>2 DEF Fill, LInv, TypeOK
  <2>7. TypeOK'
    BY <2>2, <2>3, <2>4, <2>5, <2>6 DEF LInv, TypeOK, Labels, Processes
  <2>8. WritesContiguous'
    BY <2>5 DEF LInv, TypeOK, WritesContiguous, Labels, Writing
  <2>9. QED
    BY <2>2, <2>7, <2>8 DEF LInv, AllContiguous
<1>3. QED
  BY <1>1, <1>2

\* Every step of a process or an author, and every stutter.
THEOREM StepLInv == LInv /\ [Next]_vars => LInv'
<1> SUFFICES ASSUME LInv, [Next]_vars PROVE LInv'
  OBVIOUS
<1>1. CASE \E p \in Processes : Step(p)
  BY <1>1, ReadingSteps, DecidingSteps, WritingSteps DEF Step, Update
<1>2. CASE RestoreFromGit \/ \E f \in Families, n \in 0..MaxId : EditDocs(f, n)
  BY <1>2, EnvironmentSteps
<1>3. CASE UNCHANGED vars
  BY <1>3 DEF vars, LInv, TypeOK, WritesContiguous, Labels, Writing
<1>4. QED
  BY <1>1, <1>2, <1>3 DEF Next

\* The invariant holds throughout, for any number of updaters.
THEOREM LedgerInvariant == Spec => []LInv
<1>1. QED
  BY InitLInv, StepLInv, PTL DEF Spec

\* The ledger model is type correct.
THEOREM LedgerTyped == Spec => []TypeOK
<1>1. LInv => TypeOK
  BY DEF LInv
<1>2. QED
  BY <1>1, LedgerInvariant, PTL

\* No gap becomes history, for any number of updaters, crashes and edits.
THEOREM NoGapEver == Spec => []LedgerContiguous
<1>1. LInv => LedgerContiguous
  BY DEF LInv, LedgerContiguous, AllContiguous
<1>2. QED
  BY <1>1, LedgerInvariant, PTL

-----------------------------------------------------------------------------
(***************************************************************************)
(* One updater at a time.  What it is about to write holds all that was    *)
(* ever issued, because nobody else changes the ledger meanwhile.          *)
(***************************************************************************)
OneUpdater == \A p, q \in Updaters : p = q
Covers(new) == \A f \in Families : ids[f] \subseteq new[f]

WritesCover ==
  \A p \in Processes :
    /\ pc[p] \in Updating => p \in Updaters
    /\ pc[p] \in Writing => Covers(pending[p])
SInv == /\ LInv /\ WritesCover
        /\ file = "missing" => ids = NoIds
        /\ \A f \in Families : issued[f] \subseteq ids[f]
        /\ missed = NoIds

\* Before the only updater has started.
LEMMA InitSInv == Init => SInv
<1> SUFFICES ASSUME Init PROVE SInv
  OBVIOUS
<1>1. WritesCover /\ missed = NoIds /\ ids = NoIds /\ issued = NoIds
  BY DEF Init, WritesCover, Writing, Updating
<1>2. QED
  BY <1>1, InitLInv DEF SInv, NoIds

\* Every step but the updater's own Fill leaves ids and issued alone.
LEMMA OnlyFillWrites ==
  ASSUME [Next]_vars, ~ \E p \in Processes : Fill(p)
  PROVE  UNCHANGED <<ids, issued>>
BY DEF Next, Step, Start, Update, Initialize, RefuseTorn, Register, Truncate, Recheck, Check,
       Count, Crash, EditDocs, RestoreFromGit, disk, vars

\* Filling the file takes no id from it, and all that was issued is in it.
LEMMA FillCovers ==
  ASSUME SInv, NEW p \in Processes, Fill(p)
  PROVE  /\ \A f \in Families : ids[f] \subseteq ids'[f]
         /\ \A f \in Families : issued'[f] \subseteq ids'[f]
         /\ file' # "missing"
<1>1. Covers(pending[p]) /\ \A f \in Families : issued[f] \subseteq ids[f]
  BY DEF SInv, WritesCover, Writing, Updating, Fill
<1>2. QED
  BY <1>1 DEF Fill, Covers, Union

\* No step takes an id from the ledger or issues one it has not.
LEMMA LedgerGrows ==
  ASSUME SInv, [Next]_vars
  PROVE  /\ \A f \in Families : ids[f] \subseteq ids'[f]
         /\ \A f \in Families : issued'[f] \subseteq ids'[f]
<1>1. CASE \E p \in Processes : Fill(p)
  BY <1>1, FillCovers
<1>2. CASE ~ \E p \in Processes : Fill(p)
  BY <1>2, OnlyFillWrites DEF SInv
<1>3. QED
  BY <1>1, <1>2

\* A ledger never goes missing again.
LEMMA MissingIsEmpty ==
  ASSUME SInv, [Next]_vars, file' = "missing"
  PROVE  ids' = NoIds
<1>1. file = "missing" /\ UNCHANGED ids
  BY DEF Next, Step, Start, Update, Initialize, RefuseTorn, Register, Truncate, Fill, Recheck,
         Check, Count, Crash, EditDocs, RestoreFromGit, disk, vars
<1>2. QED
  BY <1>1 DEF SInv

\* A gate that passes has read docs equal to a ledger that covers all that was issued.
LEMMA NothingMissed ==
  ASSUME SInv, [Next]_vars
  PROVE  missed' = NoIds
<1>1. CASE \E p \in Processes : Check(p) /\ Passes(p)
  <2>1. PICK p \in Processes : Check(p) /\ Passes(p)
    BY <1>1
  <2>2. missed' = New(issued, ids) /\ \A f \in Families : issued[f] \ ids[f] = {}
    BY <2>1 DEF Check, Passes, SInv
  <2>3. QED
    BY <2>2 DEF New, NoIds
<1>2. CASE ~ \E p \in Processes : Check(p) /\ Passes(p)
  <2>1. UNCHANGED missed
    BY <1>2 DEF Next, Step, Start, Update, Initialize, RefuseTorn, Register, Truncate, Fill,
                Recheck, Check, Count, Crash, EditDocs, RestoreFromGit, vars
  <2>2. QED
    BY <2>1 DEF SInv
<1>3. QED
  BY <1>1, <1>2

\* What covers the ledger goes on covering it while nobody else writes.
LEMMA CoverKept ==
  ASSUME OneUpdater, SInv, [Next]_vars
  PROVE  WritesCover'
<1>1. pc \in [Processes -> Labels]
      /\ pending \in [Processes -> IdSets] /\ defined \in [Processes -> IdSets]
      /\ ids \in IdSets
  BY DEF SInv, LInv, TypeOK, Labels
<1>2. ASSUME NEW p \in Processes,
             Start(p) \/ RefuseTorn(p) \/ Recheck(p) \/ Check(p) \/ Count(p) \/ Crash(p)
      PROVE  WritesCover'
  <2>1. UNCHANGED <<ids, pending>>
    BY <1>2 DEF Start, RefuseTorn, Recheck, Check, Count, Crash, disk
  <2>2. \/ pc' = [pc EXCEPT ![p] = "idle"]
        \/ pc' = [pc EXCEPT ![p] = "check"]
        \/ pc' = [pc EXCEPT ![p] = "count"]
        \/ pc' = [pc EXCEPT ![p] = "look"] /\ p \in Updaters
    BY <1>2 DEF Start, RefuseTorn, Recheck, Check, Count, Crash, Exit
  <2>3. QED
    BY <1>1, <2>1, <2>2 DEF SInv, WritesCover, Covers, Writing, Updating
<1>3. ASSUME NEW p \in Processes, Initialize(p) \/ Register(p)
      PROVE  WritesCover'
  <2>1. UNCHANGED ids /\ p \in Updaters
    BY <1>3 DEF Initialize, Register, disk, SInv, WritesCover, Writing, Updating
  <2>2. \/ pc' = [pc EXCEPT ![p] = "idle"] /\ UNCHANGED pending
        \/ pc' = [pc EXCEPT ![p] = "recheck"] /\ UNCHANGED pending
        \/ \E new : /\ Covers(new)
                    /\ pending' = [pending EXCEPT ![p] = new]
                    /\ \E label \in {"create", "write"} : pc' = [pc EXCEPT ![p] = label]
    <3>1. CASE Initialize(p)
      <4>1. Covers(defined[p])
        BY <3>1 DEF Initialize, SInv, Covers, NoIds
      <4>2. QED
        BY <3>1, <4>1 DEF Initialize, Write, Exit
    <3>2. CASE Register(p)
      <4>1. Covers(Union(ids, defined[p]))
        BY DEF Covers, Union
      <4>2. QED
        BY <3>2, <4>1 DEF Register, Write, Exit
    <3>3. QED
      BY <1>3, <3>1, <3>2
  <2>3. QED
    BY <1>1, <2>1, <2>2 DEF SInv, WritesCover, Covers, Writing, Updating
<1>4. ASSUME NEW p \in Processes, Truncate(p)
      PROVE  WritesCover'
  BY <1>1, <1>4 DEF Truncate, SInv, WritesCover, Covers, Writing, Updating
<1>5. ASSUME NEW p \in Processes, Fill(p)
      PROVE  WritesCover'
  <2>1. /\ \E label \in {"idle", "recheck"} : pc' = [pc EXCEPT ![p] = label]
        /\ UNCHANGED pending /\ p \in Updaters
    BY <1>5 DEF Fill, Exit, SInv, WritesCover, Writing, Updating
  <2>2. ASSUME NEW q \in Processes, q # p
        PROVE  pc'[q] = pc[q] /\ pc[q] \notin Updating
    BY <1>1, <2>1, <2>2 DEF SInv, WritesCover, Updating, OneUpdater
  <2>3. pc'[p] \in {"idle", "recheck"}
    BY <1>1, <2>1
  <2>4. QED
    BY <2>1, <2>2, <2>3 DEF WritesCover, Writing, Updating
<1>6. CASE \/ RestoreFromGit \/ UNCHANGED vars
           \/ \E f \in Families, n \in 0..MaxId : EditDocs(f, n)
  <2>1. UNCHANGED <<ids, pc, pending>>
    BY <1>6 DEF RestoreFromGit, EditDocs, vars
  <2>2. QED
    BY <2>1 DEF SInv, WritesCover, Covers, Writing, Updating
<1>7. QED
  BY <1>2, <1>3, <1>4, <1>5, <1>6 DEF Next, Step, Update

\* Every step with at most one updater.
LEMMA StepSInv ==
  ASSUME OneUpdater, SInv, [Next]_vars
  PROVE  SInv'
<1>1. LInv'
  BY StepLInv DEF SInv
<1>2. QED
  BY <1>1, CoverKept, MissingIsEmpty, LedgerGrows, NothingMissed DEF SInv

\* With one updater at a time, no readable ledger ever loses an id.
THEOREM LedgerIsAppendOnly ==
  ASSUME OneUpdater
  PROVE  Spec => AppendOnly
<1>1. SInv /\ [Next]_vars => SInv'
  BY StepSInv
<1>2. SInv /\ [Next]_vars =>
        [file' = "whole" => \A f \in Families : ids[f] \subseteq ids'[f]]_vars
  BY LedgerGrows
<1>3. QED
  BY <1>1, <1>2, InitSInv, PTL DEF Spec, AppendOnly

\* With one updater at a time, a gate that passes has forgotten no id ever issued.
THEOREM GateForgetsNothing ==
  ASSUME OneUpdater
  PROVE  Spec => []NothingForgotten
<1>1. SInv /\ [Next]_vars => SInv'
  BY StepSInv
<1>2. SInv => NothingForgotten
  BY DEF SInv, NothingForgotten
<1>3. QED
  BY <1>1, <1>2, InitSInv, PTL DEF Spec
=============================================================================

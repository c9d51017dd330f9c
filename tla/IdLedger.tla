------------------------------- MODULE IdLedger -------------------------------
(***************************************************************************)
(* The append-only requirement-ID gate: the contract docs define ids per   *)
(* family, docs/id-ledger.json remembers every id ever issued, `--update`  *)
(* registers new ids and the gate compares the two.                        *)
(*                                                                         *)
(* Several processes may run at once (a developer and a commit hook), docs *)
(* are edited while they run, and a process may die between truncating the *)
(* ledger file and writing it.                                             *)
(***************************************************************************)
EXTENDS Naturals

CONSTANTS
  Families,   \* FR, NFR, AC, ...
  MaxId,      \* bound on the numbers the docs use
  Updaters,   \* processes running --update
  Checkers,   \* processes running the gate
  MaxEdits    \* bound on edits of the docs

ASSUME MaxIdAssumption == MaxId \in Nat
ASSUME ProcessAssumption == Updaters \cap Checkers = {}

Processes == Updaters \cup Checkers
IdSets == [Families -> SUBSET (0..MaxId)]
NoIds  == [f \in Families |-> {}]
Labels == {"idle", "look", "create", "creating", "write", "writing", "recheck", "check",
           "count"}

VARIABLES
  docs,      \* ids the contract docs mention
  file,      \* the ledger file: "missing", "torn" (not JSON) or "whole"
  ids,       \* ids in the ledger when it was last whole (git history has them too)
  pc,        \* where each process is
  defined,   \* what each process has read from the docs
  pending,   \* what each updater is about to write
  verdict,   \* exit of the last run of each process: "none", "ok" or "refused"
  issued,    \* history: ids any ledger ever held
  missed,    \* history: ids issued but not defined when a gate last passed
  edits      \* counter of the bound

vars == <<docs, file, ids, pc, defined, pending, verdict, issued, missed, edits>>
disk == <<docs, file, ids, issued, edits>>

-----------------------------------------------------------------------------
Top(S) == IF S = {} THEN 0 ELSE CHOOSE m \in S : \A k \in S : k <= m
Union(a, b) == [f \in Families |-> a[f] \cup b[f]]
New(d, l)   == [f \in Families |-> d[f] \ l[f]]

\* Initialization blesses no numbering gap.
Contiguous(S)    == \E m \in 0..MaxId : S = 1..m
Initializable(d) == \A f \in Families : Contiguous(d[f])

\* Next free number: the new ids of every family extend its ledger contiguously.
\* Mutation: only the first new id is compared with the next free number.
Extends_FirstOnly(d, l) ==
  \A f \in Families : LET new == New(d, l)[f] IN
    new # {} => Top(l[f]) + 1 \in new
Extends(d, l) ==
  \A f \in Families : LET new == New(d, l)[f] IN
    new # {} => \E m \in new : new = (Top(l[f]) + 1)..m

-----------------------------------------------------------------------------
Exit(p, result) == /\ pc' = [pc EXCEPT ![p] = "idle"]
                   /\ verdict' = [verdict EXCEPT ![p] = result]

\* Both modes read the docs first.
\* Mutation: the flag is ignored, every run updates.
Start_AlwaysUpdates(p) ==
  /\ pc[p] = "idle"
  /\ defined' = [defined EXCEPT ![p] = docs]
  /\ pc' = [pc EXCEPT ![p] = "look"]
  /\ UNCHANGED <<disk, pending, verdict, missed>>
Start(p) ==
  /\ pc[p] = "idle"
  /\ defined' = [defined EXCEPT ![p] = docs]
  /\ pc' = [pc EXCEPT ![p] = IF p \in Updaters THEN "look" ELSE "check"]
  /\ UNCHANGED <<disk, pending, verdict, missed>>

Write(p, new, label) == /\ pending' = [pending EXCEPT ![p] = new]
                        /\ pc' = [pc EXCEPT ![p] = label]
                        /\ UNCHANGED verdict

\* update(): no ledger yet.
Initialize(p) ==
  /\ pc[p] = "look" /\ file = "missing"
  /\ IF Initializable(defined[p]) THEN Write(p, defined[p], "create")
                                  ELSE Exit(p, "refused") /\ UNCHANGED pending
  /\ UNCHANGED <<disk, defined, missed>>

\* update(): an existing ledger that is not readable is never rebuilt.
RefuseTorn(p) ==
  /\ pc[p] = "look" /\ file = "torn"
  /\ Exit(p, "refused")
  /\ UNCHANGED <<disk, defined, pending, missed>>

\* update(): one family out of order keeps every family from being registered.
\* Mutation: the ledger is replaced by what the docs define now.
Register_Replaces(p) ==
  /\ pc[p] = "look" /\ file = "whole"
  /\ \/ ~ Extends(defined[p], ids) /\ Exit(p, "refused") /\ UNCHANGED pending
     \/ /\ Extends(defined[p], ids) /\ New(defined[p], ids) # NoIds
        /\ Write(p, defined[p], "write")
     \/ /\ Extends(defined[p], ids) /\ New(defined[p], ids) = NoIds
        /\ pc' = [pc EXCEPT ![p] = "recheck"] /\ UNCHANGED <<pending, verdict>>
  /\ UNCHANGED <<disk, defined, missed>>
Register(p) ==
  /\ pc[p] = "look" /\ file = "whole"
  /\ \/ ~ Extends(defined[p], ids) /\ Exit(p, "refused") /\ UNCHANGED pending
     \/ /\ Extends(defined[p], ids) /\ New(defined[p], ids) # NoIds
        /\ Write(p, Union(ids, defined[p]), "write")
     \/ /\ Extends(defined[p], ids) /\ New(defined[p], ids) = NoIds
        /\ pc' = [pc EXCEPT ![p] = "recheck"] /\ UNCHANGED <<pending, verdict>>
  /\ UNCHANGED <<disk, defined, missed>>

\* _write_ledger: write_text truncates the file, then writes it.
Truncate(p) ==
  /\ pc[p] \in {"create", "write"}
  /\ file' = "torn"
  /\ pc' = [pc EXCEPT ![p] = IF @ = "create" THEN "creating" ELSE "writing"]
  /\ UNCHANGED <<docs, ids, defined, pending, verdict, issued, missed, edits>>

\* A file somebody else has written since it was truncated may keep its tail.  An
\* initializing run is over then, a registering one goes on to check().
Fill(p) ==
  /\ pc[p] \in {"creating", "writing"}
  /\ file' \in {"whole"} \cup {s \in {"torn"} : file = "whole"}
  /\ ids' = IF file' = "whole" THEN pending[p] ELSE ids
  /\ issued' = IF file' = "whole" THEN Union(issued, pending[p]) ELSE issued
  /\ IF pc[p] = "creating" THEN Exit(p, "ok")
     ELSE pc' = [pc EXCEPT ![p] = "recheck"] /\ UNCHANGED verdict
  /\ UNCHANGED <<docs, defined, pending, missed, edits>>

\* A registering run ends with check(), which reads the docs anew.
Recheck(p) ==
  /\ pc[p] = "recheck"
  /\ defined' = [defined EXCEPT ![p] = docs]
  /\ pc' = [pc EXCEPT ![p] = "check"]
  /\ UNCHANGED <<disk, pending, verdict, missed>>

\* check(): docs without ids, no ledger, or an unreadable one are problems, and so is
\* every difference.
\* Mutation: ids that left the docs are not compared.
Passes_Additions(p) == /\ defined[p] # NoIds /\ file = "whole"
                       /\ New(defined[p], ids) = NoIds
Passes(p) == defined[p] # NoIds /\ file = "whole" /\ defined[p] = ids

Check(p) ==
  /\ pc[p] = "check"
  /\ IF Passes(p) /\ p \in Checkers
     THEN pc' = [pc EXCEPT ![p] = "count"] /\ UNCHANGED verdict
     ELSE Exit(p, IF Passes(p) THEN "ok" ELSE "refused")
  /\ missed' = IF Passes(p) THEN New(issued, defined[p]) ELSE missed
  /\ UNCHANGED <<disk, defined, pending>>

\* A gate that found no problem reads the ledger once more to say how many ids there
\* are; an unreadable one raises there.
Count(p) ==
  /\ pc[p] = "count"
  /\ Exit(p, IF file = "whole" THEN "ok" ELSE "refused")
  /\ UNCHANGED <<disk, defined, pending, missed>>

Crash(p) ==
  /\ pc[p] # "idle"
  /\ Exit(p, "none")
  /\ UNCHANGED <<disk, defined, pending, missed>>

-----------------------------------------------------------------------------
\* Authors issue ids, and at times drop or renumber them.
EditDocs(f, n) ==
  /\ edits < MaxEdits
  /\ docs' = [docs EXCEPT ![f] = IF n \in @ THEN @ \ {n} ELSE @ \cup {n}]
  /\ edits' = edits + 1
  /\ UNCHANGED <<file, ids, pc, defined, pending, verdict, issued, missed>>

\* What the tool asks for when the ledger is unreadable.
RestoreFromGit ==
  /\ file = "torn" /\ issued # NoIds
  /\ file' = "whole"
  /\ UNCHANGED <<docs, ids, pc, defined, pending, verdict, issued, missed, edits>>

Init ==
  /\ docs \in IdSets
  /\ file = "missing" /\ ids = NoIds
  /\ pc = [p \in Processes |-> "idle"]
  /\ defined = [p \in Processes |-> NoIds]
  /\ pending = [p \in Processes |-> NoIds]
  /\ verdict = [p \in Processes |-> "none"]
  /\ issued = NoIds /\ missed = NoIds /\ edits = 0

Update(p) == Initialize(p) \/ RefuseTorn(p) \/ Register(p) \/ Truncate(p) \/ Fill(p)
                \/ Recheck(p)
Step(p) == Start(p) \/ Update(p) \/ Check(p) \/ Count(p) \/ Crash(p)

Next == \/ \E p \in Processes : Step(p)
        \/ \E f \in Families, n \in 0..MaxId : EditDocs(f, n)
        \/ RestoreFromGit

Spec == Init /\ [][Next]_vars

-----------------------------------------------------------------------------
\* The type of every variable; a process started without --update never gets to the
\* code that writes the ledger.
TypeOK ==
  /\ docs \in IdSets /\ ids \in IdSets /\ issued \in IdSets /\ missed \in IdSets
  /\ file \in {"missing", "torn", "whole"}
  /\ pc \in [Processes -> Labels]
  /\ \A c \in Checkers : pc[c] \in {"idle", "check", "count"}
  /\ defined \in [Processes -> IdSets]
  /\ pending \in [Processes -> IdSets]
  /\ verdict \in [Processes -> {"none", "ok", "refused"}]
  /\ edits \in Nat

\* No gap becomes history: a readable ledger numbers every family 1..n, whatever was
\* edited, raced or crashed before.
LedgerContiguous == file = "whole" => \A f \in Families : Contiguous(ids[f])

\* The ledger is append-only: from one readable ledger to the next no id is lost.
AppendOnly ==
  [][file' = "whole" => \A f \in Families : ids[f] \subseteq ids'[f]]_vars

\* The gate remembers: when it passes, the docs it has read still define every id that
\* any ledger ever held, however long ago and whatever crashed in between.
NothingForgotten == missed = NoIds
=============================================================================

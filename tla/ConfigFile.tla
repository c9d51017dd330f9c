------------------------------ MODULE ConfigFile ------------------------------
(***************************************************************************)
(* init-config: concurrent runs that write .transon-authoring.json in the  *)
(* same directory.  A plain run creates the file exclusively and then      *)
(* fills it; a --force run fills a temporary file and renames it over the  *)
(* target.  A run may be killed between any two system calls, a write may  *)
(* fail, and a person may take any time to answer the layout prompt.       *)
(*                                                                         *)
(* Every run makes one file (inode) and writes its own config into it, so  *)
(* files and configs are named by the run.                                 *)
(***************************************************************************)
EXTENDS Integers

CONSTANTS
  Runs,    \* invocations of init-config
  Prior,   \* a config written long before
  NoFile

ASSUME FilesAssumption == Prior \notin Runs /\ NoFile \notin Runs \cup {Prior}

VARIABLES
  forced,   \* runs with --force
  layout,   \* how each run gets its layout: "flag", "tty" (ask) or "none"
  target,   \* the file that has the name .transon-authoring.json, or NoFile
  temps,    \* runs whose temporary file has a name
  whole,    \* files whose payload is complete
  pc,       \* where each run is
  exit      \* exit code of each run, Running until it ends

vars  == <<forced, layout, target, temps, whole, pc, exit>>
flags == <<forced, layout>>
files == <<target, temps, whole>>

Running == -1
Labels == {"look", "prompt", "build", "create", "fill", "temp", "fillTemp", "replace",
           "unlink", "fail", "emit", "done", "dead"}

-----------------------------------------------------------------------------
Go(r, label)  == pc' = [pc EXCEPT ![r] = label]
End(r, code)  == Go(r, "done") /\ exit' = [exit EXCEPT ![r] = code]
Refuse(r)     == End(r, 2) /\ UNCHANGED <<flags, files>>
Pass(r, label) == Go(r, label) /\ UNCHANGED <<flags, files, exit>>

\* The collision check comes first, so that an existing config shows no prompt.
Look(r) ==
  /\ pc[r] = "look"
  /\ \/ target # NoFile /\ r \notin forced /\ Refuse(r)
     \/ /\ target = NoFile \/ r \in forced
        /\ \/ layout[r] = "flag" /\ Pass(r, "build")
           \/ layout[r] = "tty" /\ Pass(r, "prompt")
           \/ layout[r] = "none" /\ Refuse(r)

\* The person types a layout, or something else (end of file included).
Prompt(r) ==
  /\ pc[r] = "prompt"
  /\ Pass(r, "build") \/ Refuse(r)

\* build_config: the schema and the pattern rules may refuse the values.
Build(r) ==
  /\ pc[r] = "build"
  /\ Pass(r, IF r \in forced THEN "temp" ELSE "create") \/ Refuse(r)

\* os.open with O_CREAT and O_EXCL.
\* Mutation: O_EXCL is missing, the early check is trusted and the file truncated.
Create_Trusting(r) ==
  /\ pc[r] = "create"
  /\ target' = r
  /\ Go(r, "fill")
  /\ UNCHANGED <<flags, temps, whole, exit>>
Create(r) ==
  /\ pc[r] = "create"
  /\ \/ target # NoFile /\ Refuse(r)
     \/ /\ target = NoFile
        /\ target' = r
        /\ Go(r, "fill")
        /\ UNCHANGED <<flags, temps, whole, exit>>

\* The payload reaches the file, or the write fails half-way and main() answers 3; the
\* file then stays where it is.
\* Mutation: a failed write is taken for a success.
Fill_Blind(r) ==
  /\ pc[r] = "fill"
  /\ Go(r, "emit")
  /\ whole' \in {whole, whole \cup {r}}
  /\ UNCHANGED <<flags, target, temps, exit>>
Fill(r) ==
  /\ pc[r] = "fill"
  /\ \/ End(r, 3) /\ UNCHANGED whole
     \/ Go(r, "emit") /\ whole' = whole \cup {r} /\ UNCHANGED exit
  /\ UNCHANGED <<flags, target, temps>>

-----------------------------------------------------------------------------
(***************************************************************************)
(* --force: mkstemp, write, os.replace, and a finally that unlinks.        *)
(***************************************************************************)
MakeTemp(r) ==
  /\ pc[r] = "temp"
  /\ \/ End(r, 3) /\ UNCHANGED temps
     \/ Go(r, "fillTemp") /\ temps' = temps \cup {r} /\ UNCHANGED exit
  /\ UNCHANGED <<flags, target, whole>>

\* Mutation: the rename does not wait for the payload (a write still in the buffer).
FillTemp_Unflushed(r) ==
  /\ pc[r] = "fillTemp"
  /\ Pass(r, "replace")
FillTemp(r) ==
  /\ pc[r] = "fillTemp"
  /\ \/ Pass(r, "fail")
     \/ Go(r, "replace") /\ whole' = whole \cup {r}
        /\ UNCHANGED <<flags, target, temps, exit>>

\* Mutation: the temporary file is copied over the target, not renamed.
Replace_Copies(r) ==
  /\ pc[r] = "replace"
  /\ \/ Pass(r, "fail")
     \/ target' = r /\ Go(r, "unlink") /\ UNCHANGED <<flags, temps, whole, exit>>
Replace(r) ==
  /\ pc[r] = "replace"
  /\ \/ Pass(r, "fail")
     \/ /\ target' = r /\ temps' = temps \ {r}
        /\ Go(r, "unlink")
        /\ UNCHANGED <<flags, whole, exit>>

\* unlink(missing_ok=True) runs on both ways out.
\* Mutation: a run that failed forgets its temporary file.
Unlink_OnSuccess(r) ==
  /\ \/ pc[r] = "unlink" /\ Go(r, "emit") /\ UNCHANGED exit /\ temps' = temps \ {r}
     \/ pc[r] = "fail" /\ End(r, 3) /\ UNCHANGED temps
  /\ UNCHANGED <<flags, target, whole>>
Unlink(r) ==
  /\ \/ pc[r] = "unlink" /\ Go(r, "emit") /\ UNCHANGED exit
     \/ pc[r] = "fail" /\ End(r, 3)
  /\ temps' = temps \ {r}
  /\ UNCHANGED <<flags, target, whole>>

-----------------------------------------------------------------------------
Emit(r) ==
  /\ pc[r] = "emit"
  /\ End(r, 0)
  /\ UNCHANGED <<flags, files>>

Kill(r) ==
  /\ pc[r] \notin {"done", "dead"}
  /\ Pass(r, "dead")

Init ==
  /\ forced \in SUBSET Runs
  /\ layout \in [Runs -> {"flag", "tty", "none"}]
  /\ target \in {NoFile, Prior}
  /\ temps = {} /\ whole = {Prior}
  /\ pc = [r \in Runs |-> "look"]
  /\ exit = [r \in Runs |-> Running]

Step(r) == \/ Look(r) \/ Prompt(r) \/ Build(r) \/ Create(r) \/ Fill(r)
           \/ MakeTemp(r) \/ FillTemp(r) \/ Replace(r) \/ Unlink(r)
           \/ Emit(r) \/ Kill(r)

Next == \E r \in Runs : Step(r)

Spec == Init /\ [][Next]_vars

-----------------------------------------------------------------------------
\* The type of every variable; the file in place was made by a run, and a name in the
\* directory is never both the target's and a temporary one.
TypeOK ==
  /\ forced \subseteq Runs
  /\ layout \in [Runs -> {"flag", "tty", "none"}]
  /\ target \in Runs \cup {Prior, NoFile}
  /\ temps \subseteq Runs \ {target}
  /\ whole \subseteq Runs \cup {Prior}
  /\ pc \in [Runs -> Labels]
  /\ exit \in [Runs -> {Running, 0, 2, 3}]

\* Collisions (SPEC 11.9): a config in place is replaced by a --force run only, however
\* many plain runs passed the early check together or waited at the prompt.
NoClobber == [][target # NoFile /\ target' # target => target' \in forced]_vars

Readable == target \in whole

\* Once a readable config is in place, no reader ever finds a torn one, also when the
\* replacing run fails or is killed at the worst moment.
WholeStaysWhole == [][Readable => Readable']_vars

\* A run that ended by itself, in success or failure, leaves no temporary file behind.
NoLitter == \A r \in Runs : pc[r] = "done" => r \notin temps

\* Exit 0 means written: the run's payload was written in full, and it is in place
\* unless a --force run replaced it.
SuccessStands ==
  \A r \in Runs : exit[r] = 0 => r \in whole /\ (target = r \/ target \in forced)

\* Seen by those who read it, the file is a register: configs come whole and at once, and
\* over one another only by --force, though runs create, fill, rename and die in any order.
Found == IF Readable THEN target ELSE NoFile
Told  == {r \in Runs : exit[r] = 0}
Register == INSTANCE ConfigRegister WITH config <- Found, told <- Told
ImplementsRegister == Register!Spec
=============================================================================

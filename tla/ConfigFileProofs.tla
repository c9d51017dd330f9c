--------------------------- MODULE ConfigFileProofs ---------------------------
(***************************************************************************)
(* init-config, for any number of concurrent runs, plain or forced: what   *)
(* is in place is only replaced by a --force run, a readable config stays  *)
(* readable, and exit 0 is the truth.  In one word: for its readers the    *)
(* file is a ConfigRegister.                                               *)
(***************************************************************************)
EXTENDS ConfigFile, TLAPS

USE FilesAssumption

\* The run's own file is in place, or a forced one has replaced it.
InPlace(r) == target = r \/ target \in forced

\* Places before the run's file gets the target's name.
Early == {"look", "prompt", "build", "create", "temp", "fillTemp", "replace"}

\* What a run at each place of the program knows of the directory.
PlacesKnow ==
  \A r \in Runs :
    /\ pc[r] \in Early => target # r
    /\ pc[r] \in {"temp", "fillTemp", "replace"} => r \in forced
    /\ r \in temps => pc[r] \in {"fillTemp", "replace", "fail", "dead"}
    /\ pc[r] = "replace" => r \in whole
    /\ pc[r] = "fill" => InPlace(r)
    /\ pc[r] \in {"unlink", "emit"} \/ exit[r] = 0 => r \in whole /\ InPlace(r)

CInv == TypeOK /\ PlacesKnow

-----------------------------------------------------------------------------
\* Before any run has started.
THEOREM InitCInv == Init => CInv
<1> SUFFICES ASSUME Init PROVE CInv
  OBVIOUS
<1>1. TypeOK
  BY DEF Init, TypeOK, Labels, Running
<1>2. ASSUME NEW r \in Runs
      PROVE  pc[r] = "look" /\ exit[r] # 0 /\ target # r /\ r \notin temps
  BY DEF Init, Running
<1>3. PlacesKnow
  BY <1>2 DEF PlacesKnow
<1>4. QED
  BY <1>1, <1>3 DEF CInv

\* Steps that leave the directory as it is: the run moves on, or ends with 2.
LEMMA DecidingSteps ==
  ASSUME CInv, NEW r \in Runs, Look(r) \/ Prompt(r) \/ Build(r) \/ Kill(r)
  PROVE  CInv'
<1> USE DEF Look, Prompt, Build, Kill, Pass, Refuse, End, Go
<1>1. UNCHANGED <<forced, layout, target, temps, whole>>
  BY DEF flags, files
<1>2. CASE /\ pc' = [pc EXCEPT ![r] = "done"] /\ exit' = [exit EXCEPT ![r] = 2]
           /\ pc[r] \in {"look", "prompt", "build"}
  BY <1>1, <1>2 DEF CInv, TypeOK, PlacesKnow, InPlace, Labels, Early
<1>3. CASE /\ \E l \in {"prompt", "build", "create", "dead"} : pc' = [pc EXCEPT ![r] = l]
           /\ UNCHANGED exit
  BY <1>1, <1>3 DEF CInv, TypeOK, PlacesKnow, InPlace, Labels, Early
<1>4. CASE /\ pc' = [pc EXCEPT ![r] = "temp"] /\ r \in forced /\ pc[r] = "build"
           /\ UNCHANGED exit
  BY <1>1, <1>4 DEF CInv, TypeOK, PlacesKnow, InPlace, Labels, Early
<1>5. QED
  BY <1>2, <1>3, <1>4

\* The plain way: exclusive create, then fill.
LEMMA PlainSteps ==
  ASSUME CInv, NEW r \in Runs, Create(r) \/ Fill(r)
  PROVE  CInv'
<1> USE DEF Refuse, End, Go, flags, files
<1>1. CASE Create(r) /\ target # NoFile
  BY <1>1 DEF Create, CInv, TypeOK, PlacesKnow, InPlace, Labels, Early
<1>2. CASE Create(r) /\ target = NoFile
  <2>1. r \notin temps /\ pc[r] = "create"
    BY <1>2 DEF Create, CInv, PlacesKnow
  <2>2. \A q \in Runs : ~ InPlace(q)
    BY <1>2 DEF InPlace, CInv, TypeOK
  <2>3. /\ target' = r /\ pc' = [pc EXCEPT ![r] = "fill"]
        /\ UNCHANGED <<forced, layout, temps, whole, exit>>
    BY <1>2 DEF Create
  <2>4. TypeOK'
    BY <2>1, <2>3 DEF CInv, TypeOK, Labels
  <2>5. PlacesKnow'
    BY <2>1, <2>2, <2>3 DEF CInv, TypeOK, PlacesKnow, InPlace, Early
  <2>6. QED
    BY <2>4, <2>5 DEF CInv
<1>3. CASE Fill(r)
  BY <1>3 DEF Fill, CInv, TypeOK, PlacesKnow, InPlace, Labels, Early
<1>4. QED
  BY <1>1, <1>2, <1>3

\* The --force way: temporary file, fill, rename, unlink.
LEMMA ForcedSteps ==
  ASSUME CInv, NEW r \in Runs, MakeTemp(r) \/ FillTemp(r) \/ Replace(r) \/ Unlink(r)
  PROVE  CInv'
<1> USE DEF Pass, End, Go, flags, files
<1>1. CASE MakeTemp(r)
  BY <1>1 DEF MakeTemp, CInv, TypeOK, PlacesKnow, InPlace, Labels, Early
<1>2. CASE FillTemp(r)
  BY <1>2 DEF FillTemp, CInv, TypeOK, PlacesKnow, InPlace, Labels, Early
<1>3. CASE Replace(r) /\ target' = r
  <2>1. r \in forced /\ r \in whole
    BY <1>3 DEF Replace, CInv, PlacesKnow
  <2>2. CASE pc' = [pc EXCEPT ![r] = "fail"]
    BY <1>3, <2>2 DEF Replace, CInv, TypeOK, PlacesKnow, InPlace, Labels, Early
  <2>3. CASE /\ temps' = temps \ {r} /\ pc' = [pc EXCEPT ![r] = "unlink"]
             /\ UNCHANGED <<forced, layout, whole, exit>>
    <3>1. TypeOK'
      BY <1>3, <2>3 DEF CInv, TypeOK, Labels
    <3>2. \A q \in Runs : InPlace(q)'
      BY <1>3, <2>1, <2>3 DEF InPlace
    <3>3. \A q \in Runs : q # r => pc'[q] = pc[q]
      BY <2>3 DEF CInv, TypeOK
    <3>4. pc'[r] = "unlink"
      BY <2>3 DEF CInv, TypeOK
    <3>5. PlacesKnow'
      BY <1>3, <2>1, <2>3, <3>2, <3>3, <3>4 DEF CInv, PlacesKnow, Early
    <3>6. QED
      BY <3>1, <3>5 DEF CInv
  <2>4. QED
    BY <1>3, <2>2, <2>3 DEF Replace
<1>4. CASE Replace(r) /\ target' # r
  BY <1>4 DEF Replace, CInv, TypeOK, PlacesKnow, InPlace, Labels, Early
<1>5. CASE Unlink(r)
  BY <1>5 DEF Unlink, CInv, TypeOK, PlacesKnow, InPlace, Labels, Early
<1>6. QED
  BY <1>1, <1>2, <1>3, <1>4, <1>5

\* A run reports success with its file in place and nothing left to unlink.
LEMMA EmitStep ==
  ASSUME CInv, NEW r \in Runs, Emit(r)
  PROVE  CInv'
BY DEF Emit, End, Go, flags, files, CInv, TypeOK, PlacesKnow, InPlace, Labels, Early

\* Every step of a run, and every stutter.
THEOREM StepCInv == CInv /\ [Next]_vars => CInv'
<1> SUFFICES ASSUME CInv, [Next]_vars PROVE CInv'
  OBVIOUS
<1>1. CASE Next
  BY <1>1, DecidingSteps, PlainSteps, ForcedSteps, EmitStep DEF Next, Step
<1>2. CASE UNCHANGED vars
  BY <1>2 DEF vars, CInv, TypeOK, PlacesKnow, InPlace
<1>3. QED
  BY <1>1, <1>2

\* The places of the program keep knowing what they know.
THEOREM ConfigInvariant == Spec => []CInv
<1>1. QED
  BY InitCInv, StepCInv, PTL DEF Spec

-----------------------------------------------------------------------------
\* The model is type correct; no name is the target's and a temporary one.
THEOREM ConfigTyped == Spec => []TypeOK
<1>1. CInv => TypeOK
  BY DEF CInv
<1>2. QED
  BY <1>1, ConfigInvariant, PTL

\* A run that ended by itself leaves no temporary file.
THEOREM NothingLittered == Spec => []NoLitter
<1>1. CInv => NoLitter
  BY DEF CInv, PlacesKnow, NoLitter
<1>2. QED
  BY <1>1, ConfigInvariant, PTL

\* Exit 0 is the truth, whatever raced.
THEOREM SuccessIsTrue == Spec => []SuccessStands
<1>1. CInv => SuccessStands
  BY DEF CInv, PlacesKnow, InPlace, SuccessStands
<1>2. QED
  BY <1>1, ConfigInvariant, PTL

\* Only these two actions change what is in place, and how.
LEMMA TargetChanges ==
  ASSUME CInv, [Next]_vars, target' # target
  PROVE  \/ target = NoFile
         \/ target' \in forced' /\ target' \in whole'
<1>1. PICK r \in Runs : Create(r) \/ Replace(r)
  BY DEF Next, Step, Look, Prompt, Build, Fill, MakeTemp, FillTemp, Unlink, Emit, Kill,
         Pass, Refuse, flags, files, vars
<1>2. CASE Create(r)
  BY <1>2 DEF Create, Refuse, files
<1>3. CASE Replace(r)
  <2>1. r \in forced /\ r \in whole
    BY <1>3 DEF Replace, CInv, PlacesKnow
  <2>2. target' = r /\ UNCHANGED <<forced, whole>>
    BY <1>3 DEF Replace, Pass, flags, files
  <2>3. QED
    BY <2>1, <2>2
<1>4. QED
  BY <1>1, <1>2, <1>3

\* A config in place is replaced by a --force run only.
THEOREM PlainNeverClobbers == Spec => NoClobber
<1>1. UNCHANGED forced \/ ~ [Next]_vars
  BY DEF Next, Step, Look, Prompt, Build, Create, Fill, MakeTemp, FillTemp, Replace, Unlink,
         Emit, Kill, Pass, Refuse, flags, vars
<1>2. CInv /\ [Next]_vars =>
        [target # NoFile /\ target' # target => target' \in forced]_vars
  BY <1>1, TargetChanges
<1>3. QED
  BY <1>2, ConfigInvariant, PTL DEF Spec, NoClobber

\* A readable config stays readable.
THEOREM ReadableForever == Spec => WholeStaysWhole
<1>1. CInv /\ [Next]_vars => whole \subseteq whole'
  BY DEF Next, Step, Look, Prompt, Build, Create, Fill, MakeTemp, FillTemp, Replace, Unlink,
         Emit, Kill, Pass, Refuse, flags, files, vars
<1>2. CInv => NoFile \notin whole
  BY DEF CInv, TypeOK
<1>3. CInv /\ [Next]_vars => [Readable => Readable']_vars
  BY <1>1, <1>2, TargetChanges DEF Readable
<1>4. QED
  BY <1>3, ConfigInvariant, PTL DEF Spec, WholeStaysWhole

-----------------------------------------------------------------------------
(***************************************************************************)
(* The register.  A reader sees three steps of a run at most: the end of a *)
(* plain write into a file that has its name, the rename of a forced one,  *)
(* and the answer; the rest is silent.                                     *)
(***************************************************************************)
\* Beside what the places know: the plain way is for plain runs, no run has an exit code
\* before it ends, and what a forced run has put in place is whole.
RegisterKnows ==
  /\ \A r \in Runs : /\ pc[r] = "create" => r \notin forced
                     /\ exit[r] # Running => pc[r] = "done"
  /\ target \in forced => target \in whole

\* Every step of every run keeps what RegisterKnows says.
LEMMA RegisterLearns ==
  ASSUME CInv, RegisterKnows, [Next]_vars
  PROVE  RegisterKnows'
<1>1. CASE UNCHANGED vars
  BY <1>1 DEF vars, RegisterKnows
<1>2. ASSUME NEW r \in Runs, Step(r) PROVE RegisterKnows'
  <2>1. forced' = forced /\ whole \subseteq whole'
    BY <1>2 DEF Step, Look, Prompt, Build, Create, Fill, MakeTemp, FillTemp, Replace, Unlink,
                Emit, Kill, Pass, Refuse, flags, files
  <2>2. pc \in [Runs -> Labels] /\ exit \in [Runs -> {Running, 0, 2, 3}] /\ forced \subseteq Runs
    BY DEF CInv, TypeOK
  <2>3. /\ \A q \in Runs : q # r => pc'[q] = pc[q] /\ exit'[q] = exit[q]
        /\ exit'[r] # exit[r] => pc'[r] = "done"
        /\ pc[r] # "done"
        /\ pc'[r] = "create" => r \notin forced
    BY <1>2, <2>2 DEF Step, Look, Prompt, Build, Create, Fill, MakeTemp, FillTemp, Replace, Unlink,
                      Emit, Kill, Pass, Refuse, End, Go, flags, files, RegisterKnows
  <2>4. ASSUME NEW q \in Runs
        PROVE  (pc'[q] = "create" => q \notin forced') /\ (exit'[q] # Running => pc'[q] = "done")
    BY <2>1, <2>3 DEF RegisterKnows
  <2>5. target' \in forced' => target' \in whole'
    <3>1. CASE target' = target
      BY <2>1, <3>1 DEF RegisterKnows
    <3>2. CASE target' # target /\ Create(r)
      BY <2>1, <3>2 DEF Create, Refuse, files, RegisterKnows
    <3>3. CASE target' # target /\ Replace(r)
      BY <2>1, <3>3 DEF Replace, Pass, flags, files, CInv, PlacesKnow
    <3>4. QED
      BY <1>2, <3>1, <3>2, <3>3 DEF Step, Look, Prompt, Build, Fill, MakeTemp, FillTemp, Unlink,
                                    Emit, Kill, Pass, Refuse, flags, files
  <2>6. QED
    BY <2>4, <2>5 DEF RegisterKnows
<1>3. QED
  BY <1>1, <1>2 DEF Next

\* A step that leaves the files alone and tells nobody of success is silent.
LEMMA SilentStep ==
  ASSUME CInv, UNCHANGED <<forced, target, whole>>, \A r \in Runs : exit'[r] = 0 <=> exit[r] = 0
  PROVE  UNCHANGED Register!vars
BY DEF Register!vars, Found, Readable, Told

\* A step of a run puts its config in place, tells of success, or shows nothing to a reader.
LEMMA RegisterStep ==
  ASSUME CInv, RegisterKnows, NEW r \in Runs, Step(r)
  PROVE  [Register!Next]_(Register!vars)
<1>1. /\ pc \in [Runs -> Labels] /\ exit \in [Runs -> {Running, 0, 2, 3}] /\ forced \subseteq Runs
      /\ NoFile \notin whole /\ forced' = forced
  BY DEF CInv, TypeOK, Step, Look, Prompt, Build, Create, Fill, MakeTemp, FillTemp, Replace,
         Unlink, Emit, Kill, Pass, Refuse, flags, files
<1>2. pc[r] # "done" /\ exit[r] = Running /\ r \notin Told
  BY DEF Step, Look, Prompt, Build, Create, Fill, MakeTemp, FillTemp, Replace, Unlink, Emit,
         Kill, RegisterKnows, Told, Running
<1>3. CASE Look(r) \/ Prompt(r) \/ Build(r) \/ MakeTemp(r) \/ Unlink(r) \/ Kill(r)
  <2>1. UNCHANGED <<forced, target, whole>>
    BY <1>3 DEF Look, Prompt, Build, MakeTemp, Unlink, Kill, Pass, Refuse, flags, files
  <2>2. UNCHANGED exit \/ \E code \in {2, 3} : exit' = [exit EXCEPT ![r] = code]
    BY <1>3 DEF Look, Prompt, Build, MakeTemp, Unlink, Kill, Pass, Refuse, End
  <2>3. \A q \in Runs : exit'[q] = 0 <=> exit[q] = 0
    BY <1>1, <1>2, <2>2 DEF Running
  <2>4. QED
    BY <2>1, <2>3, SilentStep
<1>4. CASE Create(r) \/ Fill(r)
  <2>1. UNCHANGED exit \/ \E code \in {2, 3} : exit' = [exit EXCEPT ![r] = code]
    BY <1>4 DEF Create, Fill, Refuse, End
  <2>2. Told' = Told
    BY <1>1, <1>2, <2>1 DEF Told, Running
  <2>3. Found' = Found \/ (Found = NoFile /\ Found' = r)
    <3>1. CASE Create(r)
      BY <1>1, <3>1 DEF Create, Refuse, flags, files, Found, Readable
    <3>2. CASE Fill(r)
      BY <1>1, <3>2 DEF Fill, End, Go, flags, Found, Readable
    <3>3. QED
      BY <1>4, <3>1, <3>2
  <2>4. QED
    BY <1>1, <1>2, <2>2, <2>3 DEF Register!vars, Register!Next, Register!Put
<1>5. CASE FillTemp(r)
  <2>1. target # r /\ UNCHANGED <<forced, target, exit>> /\ (whole' = whole \/ whole' = whole \cup {r})
    BY <1>5 DEF FillTemp, Pass, Go, flags, files, CInv, PlacesKnow, Early
  <2>2. Found' = Found /\ Told' = Told
    BY <2>1 DEF Found, Readable, Told
  <2>3. QED
    BY <1>1, <2>2 DEF Register!vars
<1>6. CASE Replace(r)
  <2>1. r \in forced /\ r \in whole /\ UNCHANGED <<whole, exit>>
    BY <1>6 DEF Replace, Pass, flags, files, CInv, PlacesKnow
  <2>2. target' \in {target, r}
    BY <1>6 DEF Replace, Pass, files
  <2>3. Found' \in {Found, r} /\ Told' = Told
    BY <2>1, <2>2 DEF Found, Readable, Told
  <2>4. QED
    BY <1>1, <1>2, <2>1, <2>3 DEF Register!vars, Register!Next, Register!Put
<1>7. CASE Emit(r)
  <2>1. r \in whole /\ InPlace(r) /\ UNCHANGED <<forced, target, whole>> /\ exit' = [exit EXCEPT ![r] = 0]
    BY <1>7 DEF Emit, End, flags, files, CInv, PlacesKnow
  <2>2. Told' = Told \cup {r}
    BY <1>1, <2>1 DEF Told
  <2>3. Found' = Found /\ Found \in {r} \cup forced
    BY <2>1 DEF Found, Readable, InPlace, RegisterKnows
  <2>4. QED
    BY <1>1, <1>2, <2>2, <2>3 DEF Register!vars, Register!Next, Register!Tell
<1>8. QED
  BY <1>3, <1>4, <1>5, <1>6, <1>7 DEF Step

\* Runs of init-config implement the register, however many there are: to its readers the
\* file takes whole configs at once, and only --force puts one over another.
THEOREM FileIsARegister == Spec => ImplementsRegister
<1>1. Init => Register!Init
  <2> SUFFICES ASSUME Init PROVE Register!Init
    OBVIOUS
  <2>1. Told = {}
    BY DEF Init, Told, Running
  <2>2. Found = target
    BY DEF Init, Found, Readable
  <2>3. QED
    BY <2>1, <2>2 DEF Init, Register!Init
<1>2. Init => RegisterKnows
  BY DEF Init, RegisterKnows
<1>3. CInv /\ RegisterKnows /\ [Next]_vars => RegisterKnows'
  BY RegisterLearns
<1>4. CInv /\ RegisterKnows /\ [Next]_vars => [Register!Next]_(Register!vars)
  <2> SUFFICES ASSUME CInv, RegisterKnows, [Next]_vars PROVE [Register!Next]_(Register!vars)
    OBVIOUS
  <2>1. CASE Next
    BY <2>1, RegisterStep DEF Next
  <2>2. CASE UNCHANGED vars
    BY <2>2 DEF vars, Register!vars, Found, Readable, Told
  <2>3. QED
    BY <2>1, <2>2
<1>5. QED
  BY <1>1, <1>2, <1>3, <1>4, ConfigInvariant, PTL DEF Spec, ImplementsRegister, Register!Spec
=============================================================================

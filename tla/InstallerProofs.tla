---------------------------- MODULE InstallerProofs ----------------------------
(***************************************************************************)
(* For any releases, lists of files and strays: no copy is ever stranded,  *)
(* a manifest is only ever written over a complete copy, and the files of  *)
(* the user stay, unless a link leads from a listed name to one of them    *)
(* in the directory itself (see DeletesOnlyManifestPaths).  And the        *)
(* rehearsal of a tree gives a finding just when the tree is damaged.      *)
(***************************************************************************)
EXTENDS Integers, Installer, TLAPS

USE ReleasesAssumption, NamesAssumption DEF Fixed, Torn

\* What the running installer has still to do.
Pending == {todo[i] : i \in DOMAIN todo}

\* A link that leads elsewhere stands under a listed name, and leads to no listed one.
LinksLead ==
  \A n \in Names : link[n] # n => n \in Files /\ link[n] \in Links /\ disk[n] = "link"

\* An install may add copies of the release it works on; an uninstall has removed all
\* but what is pending, and drops the manifest after the last of them.
Ownership ==
  /\ pc = "idle"   => Copies \subseteq Owned \cup loose
  /\ pc = "copy"   => Copies \subseteq Owned \cup loose \cup Listed(plan)
  /\ pc = "unlink" => manifest = plan /\ Copies \subseteq loose \cup Pending
  /\ pc = "rmdir"  => manifest = "none" /\ Copies \subseteq loose

\* Where no link leads to a stray, an installer past its checks works on the very files
\* it lists, and an install has copied those that are no longer pending.
Confined ==
  Links \subseteq {Outside} =>
    /\ pc \in {"copy", "unlink"} => \A f \in Listed(plan) : link[f] = f
    /\ pc = "copy" => \A f \in Listed(plan) \ Pending : disk[f] = plan

IInv == TypeOK /\ LinksLead /\ Ownership /\ Confined

-----------------------------------------------------------------------------
\* The list of a release is a list of files.
LEMMA ListedFiles ==
  ASSUME NEW r \in Releases
  PROVE  /\ Lists[r] \in Seq(Files) /\ Listed(r) \subseteq Files
         /\ Listed(r) = {Lists[r][i] : i \in DOMAIN Lists[r]}
BY DEF Listed, Files

\* Files and strays are names; what is outside is none.
LEMMA FilesAreNames == Files \subseteq Names /\ Strays \subseteq Names /\ Outside \notin Names
BY DEF Names

\* One name is taken off the list.
LEMMA OneLess ==
  ASSUME TypeOK, todo # <<>>, todo' = Tail(todo)
  PROVE  /\ Head(todo) \in Listed(plan) /\ Head(todo) \in Files
         /\ Head(todo) \in Pending /\ Pending = {Head(todo)} \cup Pending'
         /\ todo' \in Seq(Files) /\ \A i \in DOMAIN todo' : todo'[i] \in Listed(plan)
<1>1. todo \in Seq(Files) /\ Len(todo) \in Nat /\ Len(todo) > 0 /\ DOMAIN todo = 1..Len(todo)
  BY DEF TypeOK
<1>2. /\ todo' \in Seq(Files) /\ Len(todo') = Len(todo) - 1 /\ DOMAIN todo' = 1..Len(todo')
      /\ \A i \in 1..Len(todo') : todo'[i] = todo[i + 1]
  BY <1>1
<1>3. Head(todo) = todo[1] /\ 1 \in DOMAIN todo
  BY <1>1
<1>4. \A i \in DOMAIN todo : i = 1 \/ (i - 1 \in DOMAIN todo' /\ todo'[i - 1] = todo[i])
  BY <1>1, <1>2
<1>5. Pending = {Head(todo)} \cup Pending'
  <2>1. ASSUME NEW i \in DOMAIN todo PROVE todo[i] \in {Head(todo)} \cup Pending'
    <3>1. CASE i = 1
      BY <1>3, <3>1
    <3>2. CASE i # 1
      <4>1. i - 1 \in DOMAIN todo' /\ todo'[i - 1] = todo[i]
        BY <1>4, <3>2
      <4>2. QED
        BY <4>1 DEF Pending
    <3>3. QED
      BY <3>1, <3>2
  <2>2. Pending' \subseteq Pending
    BY <1>1, <1>2 DEF Pending
  <2>3. QED
    BY <1>3, <2>1, <2>2 DEF Pending
<1>6. Head(todo) \in Files /\ Head(todo) \in Listed(plan)
  <2>1. todo[1] \in Files
    BY <1>1
  <2>2. todo[1] \in Listed(plan)
    BY <1>3 DEF TypeOK
  <2>3. QED
    BY <1>3, <2>1, <2>2
<1>7. \A i \in DOMAIN todo' : todo'[i] \in Listed(plan)
  BY <1>1, <1>2 DEF TypeOK
<1>8. Head(todo) \in Pending
  BY <1>5
<1>9. todo' \in Seq(Files)
  BY <1>2
<1>10. QED
  BY <1>5, <1>6, <1>7, <1>8, <1>9

\* A write through a listed name: to the name itself, or through a link to no file.
LEMMA WriteThrough ==
  ASSUME TypeOK, LinksLead, NEW f \in Files, NEW v \in Releases \cup Fixed, Write(f, v)
  PROVE  /\ disk' \in [Names \cup {Outside} -> Releases \cup Fixed]
         /\ \A n \in Names \cup {Outside} : n # link[f] => disk'[n] = disk[n]
         /\ link[f] \in Names \cup {Outside} => disk'[link[f]] = v
         /\ link[f] = f \/ (link[f] \notin Files /\ disk[f] = "link" /\ link[f] \in Links)
         /\ \A n \in Names : link[n] # n => disk'[n] = "link"
<1>1. f \in Names /\ disk \in [Names \cup {Outside} -> Releases \cup Fixed]
  BY FilesAreNames DEF TypeOK
<1>2. disk' = [disk EXCEPT ![link[f]] = v]
  BY DEF Write, Resolve
<1>3. link[f] = f \/ (link[f] \notin Files /\ disk[f] = "link" /\ link[f] \in Links)
  BY <1>1, FilesAreNames DEF LinksLead
<1>4. \A n \in Names \cup {Outside} : n # link[f] => disk'[n] = disk[n]
  BY <1>1, <1>2
<1>5. \A n \in Names : link[n] # n => disk'[n] = "link"
  <2> SUFFICES ASSUME NEW n \in Names, link[n] # n PROVE disk'[n] = "link"
    OBVIOUS
  <2>1. n \in Files /\ disk[n] = "link"
    BY DEF LinksLead
  <2>2. n # link[f]
    BY <1>3, <2>1
  <2>3. QED
    BY <1>4, <2>1, <2>2
<1>6. QED
  BY <1>1, <1>2, <1>3, <1>4, <1>5

-----------------------------------------------------------------------------
(***************************************************************************)
(* Each action preserves the invariant.                                    *)
(***************************************************************************)
\* Refusals and the uninstall without a manifest change the answer alone.
LEMMA RefusalsKeep ==
  ASSUME IInv, InstallRefused \/ UninstallNoop \/ UninstallRefused
  PROVE  IInv'
<1>1. /\ pc = "idle" /\ pc' = "idle" /\ todo' = <<>> /\ plan' = plan
      /\ answer' \in Answers
      /\ UNCHANGED <<source, content, loose, gate>>
  BY DEF InstallRefused, UninstallNoop, UninstallRefused, Finish, May, Answers
<1>2. TypeOK'
  BY <1>1 DEF IInv, TypeOK, source, content, gate
<1>3. LinksLead'
  BY <1>1 DEF IInv, LinksLead, content
<1>4. Ownership'
  BY <1>1 DEF IInv, Ownership, Copies, Owned, Listed, content
<1>5. Confined'
  BY <1>1 DEF Confined
<1>6. QED
  BY <1>2, <1>3, <1>4, <1>5 DEF IInv

\* Past its checks an install has its whole list before it.
LEMMA InstallPlanKeeps ==
  ASSUME IInv, InstallPlan PROVE IInv'
<1>1. /\ pc = "idle" /\ pc' = "copy" /\ plan' = checkout /\ checkout \in Releases
      /\ todo' = Lists[checkout] /\ UNCHANGED <<disk, link, manifest, loose>>
  BY DEF InstallPlan, May, IInv, TypeOK
<1>2. /\ Lists[checkout] \in Seq(Files)
      /\ \A i \in DOMAIN todo' : todo'[i] \in Listed(plan')
      /\ Pending' = Listed(plan')
  BY <1>1, ListedFiles DEF Pending
<1>3. TypeOK'
  <2>1. plan' \in Releases /\ pc' \in Labels /\ answer' \in Answers /\ dir' \in BOOLEAN
    BY <1>1 DEF InstallPlan, Labels, Answers
  <2>2. todo' \in Seq(Files)
    BY <1>1, <1>2
  <2>3. QED
    BY <1>1, <1>2, <2>1, <2>2 DEF IInv, TypeOK, InstallPlan, source, gate
<1>4. LinksLead'
  BY <1>1 DEF IInv, LinksLead
<1>5. Ownership'
  BY <1>1 DEF IInv, Ownership, Copies, Owned, Listed
<1>6. Confined'
  <2>1. ASSUME Links \subseteq {Outside}, NEW f \in Listed(checkout) PROVE link[f] = f
    <3>1. f \in Names /\ link[f] # Outside
      BY <1>1, ListedFiles, FilesAreNames DEF InstallPlan, Escapes, Resolve
    <3>2. QED
      BY <2>1, <3>1 DEF IInv, LinksLead
  <2>2. QED
    BY <1>1, <1>2, <2>1 DEF Confined
<1>7. QED
  BY <1>3, <1>4, <1>5, <1>6 DEF IInv

\* A copy lands on the list of its release, or behind a link that is no copy.
LEMMA CopyKeeps ==
  ASSUME IInv, Copy PROVE IInv'
<1> DEFINE f == Head(todo)
<1>1. /\ pc = "copy" /\ todo # <<>> /\ todo' = Tail(todo) /\ Write(f, plan)
      /\ UNCHANGED <<source, link, dir, manifest, pc, plan, answer, loose, gate>>
  BY DEF Copy
<1>2. TypeOK /\ LinksLead /\ plan \in Releases
  BY DEF IInv, TypeOK
<1>3. /\ f \in Listed(plan) /\ f \in Files /\ Pending = {f} \cup Pending'
      /\ todo' \in Seq(Files) /\ \A i \in DOMAIN todo' : todo'[i] \in Listed(plan)
  BY <1>1, <1>2, OneLess
<1> HIDE DEF f
<1>4. /\ disk' \in [Names \cup {Outside} -> Releases \cup Fixed]
      /\ \A n \in Names \cup {Outside} : n # link[f] => disk'[n] = disk[n]
      /\ link[f] \in Names \cup {Outside} => disk'[link[f]] = plan
      /\ link[f] = f \/ link[f] \notin Files
      /\ \A n \in Names : link[n] # n => disk'[n] = "link"
  BY <1>1, <1>2, <1>3, WriteThrough
<1>5. TypeOK'
  BY <1>1, <1>2, <1>3, <1>4 DEF TypeOK, source, gate
<1>6. LinksLead'
  BY <1>1, <1>2, <1>4 DEF LinksLead
<1>7. Ownership'
  <2>1. Copies' \subseteq Copies \cup {f}
    BY <1>3, <1>4, FilesAreNames DEF Copies
  <2>2. QED
    BY <1>1, <1>3, <2>1 DEF IInv, Ownership, Owned, Listed
<1>8. Confined'
  <2> SUFFICES ASSUME Links \subseteq {Outside}
               PROVE  /\ \A g \in Listed(plan) : link[g] = g
                      /\ \A g \in Listed(plan) \ Pending' : disk'[g] = plan
    BY <1>1 DEF Confined, Listed
  <2>1. \A g \in Listed(plan) : link[g] = g
    BY <1>1 DEF IInv, Confined
  <2>2. ASSUME NEW g \in Listed(plan) \ Pending' PROVE disk'[g] = plan
    <3>1. g \in Names
      BY <1>2, ListedFiles, FilesAreNames
    <3>2. CASE g = f
      BY <1>3, <1>4, <2>1, <3>1, <3>2
    <3>3. CASE g # f
      <4>1. g \in Listed(plan) \ Pending
        BY <1>3, <3>3
      <4>2. disk[g] = plan
        BY <1>1, <4>1 DEF IInv, Confined
      <4>3. g # link[f]
        BY <1>3, <2>1, <3>3
      <4>4. QED
        BY <1>4, <3>1, <4>2, <4>3
    <3>4. QED
      BY <3>2, <3>3
  <2>3. QED
    BY <2>1, <2>2
<1>9. QED
  BY <1>5, <1>6, <1>7, <1>8 DEF IInv

\* The manifest takes over what the install has copied.
LEMMA RecordKeeps ==
  ASSUME IInv, Record PROVE IInv'
<1>1. /\ pc = "copy" /\ pc' = "idle" /\ todo' = <<>> /\ plan' = plan /\ manifest' = plan
      /\ plan \in Releases /\ answer' = "installed" /\ loose' = (loose \cup Owned) \ Listed(plan)
      /\ UNCHANGED <<source, disk, link, dir, gate>>
  BY DEF Record, Finish, IInv, TypeOK
<1>2. Owned \subseteq Files /\ Owned' = Listed(plan)
  BY <1>1, ListedFiles DEF Owned, Listed
<1>3. TypeOK'
  BY <1>1, <1>2 DEF IInv, TypeOK, Labels, Answers, source, gate
<1>4. LinksLead'
  BY <1>1 DEF IInv, LinksLead
<1>5. Ownership'
  BY <1>1, <1>2 DEF IInv, Ownership, Copies
<1>6. Confined'
  BY <1>1 DEF Confined
<1>7. QED
  BY <1>3, <1>4, <1>5, <1>6 DEF IInv

\* What is left of an uninstall is what the manifest lists.
LEMMA UninstallPlanKeeps ==
  ASSUME IInv, UninstallPlan PROVE IInv'
<1>1. /\ pc = "idle" /\ pc' = "unlink" /\ plan' = manifest /\ manifest \in Releases
      /\ todo' = Lists[manifest] /\ UNCHANGED <<disk, link, manifest, loose>>
  BY DEF UninstallPlan, May, content
<1>2. /\ Lists[manifest] \in Seq(Files)
      /\ \A i \in DOMAIN todo' : todo'[i] \in Listed(plan')
      /\ Pending' = Listed(plan')
  BY <1>1, ListedFiles DEF Pending
<1>3. TypeOK'
  <2>1. plan' \in Releases /\ pc' \in Labels /\ answer' \in Answers /\ UNCHANGED dir
    BY <1>1 DEF UninstallPlan, Labels, Answers, content
  <2>2. todo' \in Seq(Files)
    BY <1>1, <1>2
  <2>3. QED
    BY <1>1, <1>2, <2>1, <2>2 DEF IInv, TypeOK, UninstallPlan, source, gate
<1>4. LinksLead'
  BY <1>1 DEF IInv, LinksLead
<1>5. Ownership'
  <2>1. Copies' \subseteq Listed(manifest) \cup loose
    BY <1>1 DEF IInv, Ownership, Copies, Owned, Listed
  <2>2. Listed(plan') = Listed(manifest)
    BY <1>1 DEF Listed
  <2>3. QED
    BY <1>1, <1>2, <2>1, <2>2 DEF Ownership
<1>6. Confined'
  <2>1. ASSUME Links \subseteq {Outside}, NEW f \in Listed(manifest) PROVE link[f] = f
    <3>1. f \in Names /\ link[f] # Outside
      BY <1>1, ListedFiles, FilesAreNames DEF UninstallPlan, Escapes, Resolve
    <3>2. QED
      BY <2>1, <3>1 DEF IInv, LinksLead
  <2>2. QED
    BY <1>1, <2>1 DEF Confined, Listed
<1>7. QED
  BY <1>3, <1>4, <1>5, <1>6 DEF IInv

\* The file is gone, or there was a link in its place and no copy.
LEMMA UnlinkKeeps ==
  ASSUME IInv, Unlink PROVE IInv'
<1> DEFINE f == Head(todo)
<1>1. /\ pc = "unlink" /\ todo # <<>> /\ todo' = Tail(todo) /\ Write(f, "none")
      /\ UNCHANGED <<source, link, dir, manifest, pc, plan, answer, loose, gate>>
  BY DEF Unlink
<1>2. TypeOK /\ LinksLead /\ plan \in Releases
  BY DEF IInv, TypeOK
<1>3. /\ f \in Listed(plan) /\ f \in Files /\ Pending = {f} \cup Pending'
      /\ todo' \in Seq(Files) /\ \A i \in DOMAIN todo' : todo'[i] \in Listed(plan)
  BY <1>1, <1>2, OneLess
<1> HIDE DEF f
<1>4. /\ disk' \in [Names \cup {Outside} -> Releases \cup Fixed]
      /\ \A n \in Names \cup {Outside} : n # link[f] => disk'[n] = disk[n]
      /\ link[f] \in Names \cup {Outside} => disk'[link[f]] = "none"
      /\ link[f] = f \/ (link[f] \notin Files /\ disk[f] = "link")
      /\ \A n \in Names : link[n] # n => disk'[n] = "link"
  BY <1>1, <1>2, <1>3, WriteThrough
<1>5. TypeOK'
  BY <1>1, <1>2, <1>3, <1>4 DEF TypeOK, source, gate
<1>6. LinksLead'
  BY <1>1, <1>2, <1>4 DEF LinksLead
<1>7. Ownership'
  <2>1. disk'[f] \notin Releases \cup {Torn}
    <3>1. CASE link[f] = f
      BY <1>3, <1>4, <3>1, FilesAreNames
    <3>2. CASE link[f] # f
      BY <1>3, <1>4, <3>2, FilesAreNames
    <3>3. QED
      BY <3>1, <3>2
  <2>2. Copies' \subseteq Copies \ {f}
    <3>1. ASSUME NEW g \in Copies' PROVE g \in Copies /\ g # f
      <4>1. g \in Files /\ g \in Names /\ disk'[g] \in Releases \cup {Torn}
        BY FilesAreNames DEF Copies
      <4>2. g # f
        BY <2>1, <4>1
      <4>3. g # link[f]
        BY <1>4, <4>1, <4>2
      <4>4. QED
        BY <1>4, <4>1, <4>2, <4>3 DEF Copies
    <3>2. QED
      BY <3>1
  <2>3. QED
    BY <1>1, <1>3, <2>2 DEF IInv, Ownership
<1>8. Confined'
  BY <1>1 DEF IInv, Confined, Listed
<1>9. QED
  BY <1>5, <1>6, <1>7, <1>8 DEF IInv

\* The manifest goes when nothing is pending.
LEMMA DropKeeps ==
  ASSUME IInv, Drop PROVE IInv'
<1>1. /\ pc = "unlink" /\ pc' = "rmdir" /\ todo = <<>> /\ manifest' = "none"
      /\ UNCHANGED <<source, disk, link, dir, todo, plan, answer, loose, gate>>
  BY DEF Drop
<1>2. Pending = {}
  BY <1>1 DEF Pending
<1>3. TypeOK'
  BY <1>1 DEF IInv, TypeOK, Labels, source, gate
<1>4. LinksLead'
  BY <1>1 DEF IInv, LinksLead
<1>5. Ownership'
  BY <1>1, <1>2 DEF IInv, Ownership, Copies
<1>6. Confined'
  BY <1>1 DEF Confined
<1>7. QED
  BY <1>3, <1>4, <1>5, <1>6 DEF IInv

\* The end of an uninstall.
LEMMA RemoveDirKeeps ==
  ASSUME IInv, RemoveDir PROVE IInv'
<1>1. /\ pc = "rmdir" /\ pc' = "idle" /\ todo' = <<>> /\ plan' = plan
      /\ answer' \in Answers /\ dir' \in BOOLEAN
      /\ UNCHANGED <<source, disk, link, manifest, loose, gate>>
  BY DEF RemoveDir, Finish, Answers
<1>2. TypeOK'
  BY <1>1 DEF IInv, TypeOK, Labels, source, gate
<1>3. LinksLead'
  BY <1>1 DEF IInv, LinksLead
<1>4. Ownership'
  BY <1>1 DEF IInv, Ownership, Copies, Owned, Listed
<1>5. Confined'
  BY <1>1 DEF Confined
<1>6. QED
  BY <1>2, <1>3, <1>4, <1>5 DEF IInv

\* An install that stops leaves loose copies; an uninstall leaves what the manifest owns.
LEMMA InterruptKeeps ==
  ASSUME IInv, Interrupt PROVE IInv'
<1>1. /\ pc # "idle" /\ pc' = "idle" /\ todo' = <<>> /\ plan' = plan /\ answer' = "died"
      /\ UNCHANGED <<source, link, dir, gate>>
      /\ loose' = IF pc = "copy" THEN loose \cup Listed(plan) \cup Owned ELSE loose
  BY DEF Interrupt, Finish
<1>2. TypeOK /\ LinksLead /\ Ownership /\ plan \in Releases /\ manifest \in Releases \cup {"none", Torn}
  BY DEF IInv, TypeOK
<1>3. Owned \subseteq Files /\ Listed(plan) \subseteq Files /\ Pending \subseteq Listed(plan)
  <2>1. Owned \subseteq Files /\ Listed(plan) \subseteq Files
    BY <1>2, ListedFiles DEF Owned
  <2>2. Pending \subseteq Listed(plan)
    BY <1>2 DEF TypeOK, Pending
  <2>3. QED
    BY <2>1, <2>2
<1>4. loose' \subseteq Files
  BY <1>1, <1>2, <1>3 DEF TypeOK
<1>5. CASE UNCHANGED <<disk, manifest>>
  <2>1. TypeOK'
    BY <1>1, <1>2, <1>4, <1>5 DEF TypeOK, Labels, Answers, source, gate
  <2>2. LinksLead'
    BY <1>1, <1>2, <1>5 DEF LinksLead
  <2>3. Copies \subseteq Owned \cup loose'
    <3>1. CASE pc = "copy"
      BY <1>1, <1>2, <3>1 DEF Ownership
    <3>2. CASE pc = "unlink"
      <4>1. Owned = Listed(plan)
        BY <1>2, <3>2 DEF Ownership, Owned
      <4>2. QED
        BY <1>1, <1>2, <1>3, <3>2, <4>1 DEF Ownership
    <3>3. CASE pc = "rmdir"
      BY <1>1, <1>2, <3>3 DEF Ownership
    <3>4. QED
      BY <1>1, <1>2, <3>1, <3>2, <3>3 DEF TypeOK, Labels
  <2>4. Ownership'
    BY <1>1, <1>5, <2>3 DEF Ownership, Copies, Owned, Listed
  <2>5. QED
    BY <1>1, <2>1, <2>2, <2>4 DEF IInv, Confined
<1>6. CASE pc = "copy" /\ todo # <<>> /\ Write(Head(todo), Torn) /\ UNCHANGED manifest
  <2> DEFINE f == Head(todo)
  <2>1. f \in Files /\ f \in Listed(plan)
    <3>1. Len(todo) > 0 /\ 1 \in DOMAIN todo /\ f = todo[1] /\ todo[1] \in Files
      BY <1>2, <1>6 DEF TypeOK
    <3>2. QED
      BY <1>2, <3>1 DEF TypeOK
  <2> HIDE DEF f
  <2>2. /\ disk' \in [Names \cup {Outside} -> Releases \cup Fixed]
        /\ \A n \in Names \cup {Outside} : n # link[f] => disk'[n] = disk[n]
        /\ link[f] = f \/ link[f] \notin Files
        /\ \A n \in Names : link[n] # n => disk'[n] = "link"
    <3>1. Write(f, Torn) /\ Torn \in Releases \cup Fixed
      BY <1>6 DEF f
    <3>2. QED
      BY <1>2, <2>1, <3>1, WriteThrough
  <2>3. TypeOK'
    BY <1>1, <1>2, <1>4, <1>6, <2>2 DEF TypeOK, Labels, Answers, source, gate
  <2>4. LinksLead'
    BY <1>1, <1>2, <2>2 DEF LinksLead
  <2>5. Copies' \subseteq Copies \cup {f}
    BY <2>1, <2>2, FilesAreNames DEF Copies
  <2>6. Ownership'
    BY <1>1, <1>2, <1>6, <2>1, <2>5 DEF Ownership
  <2>7. QED
    BY <1>1, <2>3, <2>4, <2>6 DEF IInv, Confined
<1>7. CASE pc = "copy" /\ todo = <<>> /\ manifest' = Torn /\ UNCHANGED disk
  <2>1. TypeOK'
    BY <1>1, <1>2, <1>4, <1>7 DEF TypeOK, Labels, Answers, source, gate
  <2>2. LinksLead'
    BY <1>1, <1>2, <1>7 DEF LinksLead
  <2>3. Ownership'
    BY <1>1, <1>2, <1>7 DEF Ownership, Copies
  <2>4. QED
    BY <1>1, <2>1, <2>2, <2>3 DEF IInv, Confined
<1>8. QED
  BY <1>5, <1>6, <1>7 DEF Interrupt

\* The user makes no copies, and links only under a listed name.
LEMMA EditKeeps ==
  ASSUME IInv, NEW n \in Names, NEW v, NEW to, Edit(n, v, to),
         v \in {"user", "none", "link"},
         to = n \/ (n \in Files /\ to \in Links /\ v = "link")
  PROVE  IInv'
<1>1. /\ pc = "idle" /\ answer' = "none"
      /\ disk' = [disk EXCEPT ![n] = v] /\ link' = [link EXCEPT ![n] = to]
      /\ UNCHANGED <<source, dir, manifest, pc, todo, plan, loose, gate>>
  BY DEF Edit, UserActs
<1>2. TypeOK /\ LinksLead /\ Ownership
  BY DEF IInv
<1>3. /\ disk' \in [Names \cup {Outside} -> Releases \cup Fixed]
      /\ link' \in [Names -> Names \cup {Outside}]
      /\ disk'[n] = v /\ link'[n] = to
      /\ \A m \in Names : m # n => disk'[m] = disk[m] /\ link'[m] = link[m]
  <2>1. v \in Releases \cup Fixed /\ to \in Names \cup {Outside}
    BY DEF Names
  <2>2. QED
    BY <1>1, <1>2, <2>1 DEF TypeOK
<1>4. TypeOK'
  BY <1>1, <1>2, <1>3 DEF TypeOK, Answers, source, gate
<1>5. LinksLead'
  <2> SUFFICES ASSUME NEW m \in Names, link'[m] # m
               PROVE  m \in Files /\ link'[m] \in Links /\ disk'[m] = "link"
    BY DEF LinksLead
  <2>1. CASE m = n
    BY <1>3, <2>1
  <2>2. CASE m # n
    BY <1>2, <1>3, <2>2 DEF LinksLead
  <2>3. QED
    BY <2>1, <2>2
<1>6. Ownership'
  <2>1. Copies' \subseteq Copies
    BY <1>3, FilesAreNames DEF Copies
  <2>2. QED
    BY <1>1, <1>2, <2>1 DEF Ownership, Owned, Listed
<1>7. QED
  BY <1>1, <1>4, <1>5, <1>6 DEF IInv, Confined

\* Whatever the user does between runs.
LEMMA UserKeeps ==
  ASSUME IInv, User PROVE IInv'
<1>1. CASE UserWrites
  BY <1>1, EditKeeps DEF UserWrites
<1>2. CASE UserRemoves
  BY <1>2, EditKeeps DEF UserRemoves
<1>3. CASE UserLinks
  <2>1. PICK f \in Files, g \in Links : Edit(f, "link", g)
    BY <1>3 DEF UserLinks
  <2>2. f \in Names
    BY FilesAreNames
  <2>3. QED
    BY <2>1, <2>2, EditKeeps
<1>4. CASE Checkout
  <2>1. /\ pc = "idle" /\ answer' = "none" /\ checkout' \in Releases /\ sound' \in BOOLEAN
        /\ UNCHANGED <<disk, link, dir, manifest, pc, todo, plan, loose, gate>>
    BY <1>4 DEF Checkout, UserActs, content
  <2>2. TypeOK' /\ LinksLead'
    BY <2>1 DEF IInv, TypeOK, LinksLead, Answers, gate
  <2>3. Ownership'
    BY <2>1 DEF IInv, Ownership, Copies, Owned, Listed
  <2>4. QED
    BY <2>1, <2>2, <2>3 DEF IInv, Confined
<1>5. QED
  BY <1>1, <1>2, <1>3, <1>4 DEF User

\* The rehearsal puts a stray file of its own into the directory, or takes it out.
LEMMA RehearsalKeeps ==
  ASSUME IInv, Stage \/ Judge PROVE IInv'
<1>1. CASE Stage
  <2>1. UNCHANGED <<source, content, run, loose>>
    BY <1>1 DEF Stage
  <2>2. phase' \in Phases /\ findings' \subseteq Phases \cup {"missing", "copies"}
    BY <1>1 DEF Stage, Found, Phases, IInv, TypeOK
  <2>3. TypeOK'
    BY <2>1, <2>2 DEF IInv, TypeOK, source, content, run
  <2>4. LinksLead' /\ Ownership' /\ Confined'
    BY <2>1 DEF IInv, LinksLead, Ownership, Confined, Copies, Owned, Pending, Listed, content, run
  <2>5. QED
    BY <2>3, <2>4 DEF IInv
<1>2. CASE Judge
  <2>1. /\ pc = "idle" /\ answer' = "none" /\ dir' \in BOOLEAN
        /\ UNCHANGED <<source, link, manifest, pc, todo, plan, loose>>
    BY <1>2 DEF Judge
  <2>2. phase' \in Phases /\ findings' \subseteq Phases \cup {"missing", "copies"}
    <3>1. phase \in {"install", "again", "clean", "refill", "kept", "noop"}
      BY <1>2 DEF Judge, Following
    <3>2. Following[phase] \in Phases /\ phase \in Phases
      BY <3>1 DEF Following, Phases
    <3>3. QED
      BY <1>2, <3>2 DEF Judge, Found, Phases, IInv, TypeOK
  <2>3. /\ disk' \in [Names \cup {Outside} -> Releases \cup Fixed]
        /\ \A n \in Files : disk'[n] = disk[n]
    <3>1. disk \in [Names \cup {Outside} -> Releases \cup Fixed]
      BY DEF IInv, TypeOK
    <3>2. DOMAIN disk = Names \cup {Outside}
      BY <3>1
    <3>3. disk' = [n \in DOMAIN disk |->
                     IF n \in Strays /\ Passed /\ phase \in {"refill", "noop"}
                       THEN (IF phase = "refill" THEN "user" ELSE "none")
                       ELSE disk[n]]
      BY <1>2 DEF Judge
    <3>4. QED
      BY <3>1, <3>2, <3>3, FilesAreNames
  <2>4. TypeOK'
    BY <2>1, <2>2, <2>3 DEF IInv, TypeOK, Answers, source
  <2>5. LinksLead'
    BY <2>1, <2>3 DEF IInv, LinksLead
  <2>6. Ownership'
    BY <2>1, <2>3 DEF IInv, Ownership, Copies, Owned, Listed
  <2>7. QED
    BY <2>1, <2>4, <2>5, <2>6 DEF IInv, Confined
<1>3. QED
  BY <1>1, <1>2

-----------------------------------------------------------------------------
\* The invariant holds before the first run.
LEMMA InitIInv == Init => IInv
<1> SUFFICES ASSUME Init PROVE IInv
  OBVIOUS
<1>1. TypeOK
  <2>1. <<>> \in Seq(Files) /\ DOMAIN <<>> = {}
    OBVIOUS
  <2>2. disk \in [Names \cup {Outside} -> Releases \cup Fixed] /\ link \in [Names -> Names \cup {Outside}]
    BY DEF Init
  <2>3. QED
    BY <2>1, <2>2 DEF Init, TypeOK, Labels, Answers, Phases
<1>2. LinksLead
  BY DEF Init, LinksLead
<1>3. Ownership
  BY FilesAreNames DEF Init, Ownership, Copies
<1>4. QED
  BY <1>1, <1>2, <1>3 DEF Init, IInv, Confined

\* Every step of an installer, of the user and of the rehearsal keeps it.
LEMMA NextIInv == IInv /\ [Next]_vars => IInv'
<1> SUFFICES ASSUME IInv, [Next]_vars PROVE IInv'
  OBVIOUS
<1>1. CASE Install
  BY <1>1, RefusalsKeep, InstallPlanKeeps, CopyKeeps, RecordKeeps DEF Install
<1>2. CASE Uninstall
  BY <1>2, RefusalsKeep, UninstallPlanKeeps, UnlinkKeeps, DropKeeps, RemoveDirKeeps DEF Uninstall
<1>3. CASE Interrupt
  BY <1>3, InterruptKeeps
<1>4. CASE User
  BY <1>4, UserKeeps
<1>5. CASE Stage \/ Judge
  BY <1>5, RehearsalKeeps
<1>6. CASE UNCHANGED vars
  BY <1>6 DEF vars, source, content, run, gate, IInv, TypeOK, LinksLead, Ownership, Confined,
              Copies, Owned, Pending, Listed
<1>7. QED
  BY <1>1, <1>2, <1>3, <1>4, <1>5, <1>6 DEF Next

\* The invariant holds throughout.
THEOREM InstallerInvariant == Spec => []IInv
<1>1. Init => IInv
  BY InitIInv
<1>2. IInv /\ [Next]_vars => IInv'
  BY NextIInv
<1>3. QED
  BY <1>1, <1>2, PTL DEF Spec

\* Every variable keeps its type, for any releases and lists of files.
THEOREM TypeCorrect == Spec => []TypeOK
<1>1. IInv => TypeOK
  BY DEF IInv
<1>2. QED
  BY <1>1, InstallerInvariant, PTL

\* No sequence of installs, uninstalls, interruptions and edits strands a copy: what no
\* manifest owns is known to be left of an install that stopped or of a longer list.
THEOREM NothingStranded == Spec => []EveryFileIsOwned
<1>1. IInv => EveryFileIsOwned
  BY DEF IInv, Ownership, EveryFileIsOwned
<1>2. QED
  BY <1>1, InstallerInvariant, PTL

\* Where links only lead outside, a manifest is written only over a complete copy of its
\* release.
THEOREM CommitIsComplete ==
  ASSUME Links \subseteq {Outside} PROVE Spec => RecordedMeansCopied
<1> DEFINE Commit == manifest' \in Releases /\ (manifest' # manifest \/ (answer' = "installed" /\ answer # answer'))
                       => \A f \in Listed(manifest') : disk'[f] = manifest'
<1>1. ASSUME IInv, [Next]_vars PROVE [Commit]_vars
  <2> SUFFICES ASSUME manifest' \in Releases,
                      manifest' # manifest \/ (answer' = "installed" /\ answer # answer')
               PROVE  \A f \in Listed(manifest') : disk'[f] = manifest'
    OBVIOUS
  <2>1. manifest' \in Releases /\ ~UNCHANGED <<manifest, answer>>
    OBVIOUS
  <2>2. Record
    <3>1. ~(InstallRefused \/ InstallPlan \/ Copy)
      BY <2>1 DEF InstallRefused, InstallPlan, Copy, Finish, content
    <3>2. ~Uninstall
      BY <2>1 DEF Uninstall, UninstallNoop, UninstallRefused, UninstallPlan, Unlink, Drop, RemoveDir,
                  Finish, content
    <3>3. ~Interrupt
      BY <2>1 DEF Interrupt, Finish
    <3>4. ~User
      BY <2>1 DEF User, UserWrites, UserRemoves, UserLinks, Edit, Checkout, UserActs, content
    <3>5. ~(Stage \/ Judge)
      BY <2>1 DEF Stage, Judge, content, run
    <3>6. ~UNCHANGED vars
      BY <2>1 DEF vars, content, run
    <3>7. QED
      BY <1>1, <3>1, <3>2, <3>3, <3>4, <3>5, <3>6 DEF Next, Install
  <2>3. pc = "copy" /\ todo = <<>> /\ manifest' = plan /\ UNCHANGED disk
    BY <2>2 DEF Record
  <2>4. Pending = {}
    BY <2>3 DEF Pending
  <2>5. \A f \in Listed(plan) : disk[f] = plan
    BY <1>1, <2>3, <2>4 DEF IInv, Confined
  <2>6. QED
    BY <2>3, <2>5 DEF Listed
<1>2. QED
  BY <1>1, InstallerInvariant, PTL DEF Spec, RecordedMeansCopied

\* Where links only lead outside, an installer touches nothing but the files of its list.
THEOREM OnlyItsOwnFiles ==
  ASSUME Links \subseteq {Outside} PROVE Spec => OnlyListedPaths
<1> DEFINE Own == pc # "idle" => \A n \in Names \cup {Outside} : disk'[n] # disk[n] => n \in Listed(plan)
<1>1. ASSUME IInv, [Next]_vars PROVE [Own]_vars
  <2> SUFFICES ASSUME pc # "idle", NEW n \in Names \cup {Outside}, disk'[n] # disk[n]
               PROVE  n \in Listed(plan)
    OBVIOUS
  <2>1. TypeOK /\ LinksLead
    BY <1>1 DEF IInv
  <2>2. pc \in {"copy", "unlink"} /\ todo # <<>> /\ \E v \in Releases \cup Fixed : Write(Head(todo), v)
    <3>1. CASE Install
      BY <2>1, <3>1 DEF Install, InstallRefused, InstallPlan, Copy, Record, May, TypeOK
    <3>2. CASE Uninstall
      BY <3>2 DEF Uninstall, UninstallNoop, UninstallRefused, UninstallPlan, Unlink, Drop, RemoveDir,
                  May
    <3>3. CASE Interrupt
      BY <3>3 DEF Interrupt
    <3>4. CASE User
      BY <3>4 DEF User, UserWrites, UserRemoves, UserLinks, Edit, Checkout, UserActs
    <3>5. CASE Stage \/ Judge
      BY <3>5 DEF Stage, Judge, content
    <3>6. CASE UNCHANGED vars
      BY <3>6 DEF vars, content
    <3>7. QED
      BY <1>1, <3>1, <3>2, <3>3, <3>4, <3>5, <3>6 DEF Next
  <2>3. Head(todo) \in Listed(plan) /\ Head(todo) \in Files
    <3>1. Len(todo) > 0 /\ 1 \in DOMAIN todo /\ Head(todo) = todo[1] /\ todo[1] \in Files
      BY <2>1, <2>2 DEF TypeOK
    <3>2. QED
      BY <2>1, <3>1 DEF TypeOK
  <2>4. link[Head(todo)] = Head(todo)
    BY <1>1, <2>2, <2>3 DEF IInv, Confined
  <2>5. PICK v \in Releases \cup Fixed : Write(Head(todo), v)
    BY <2>2
  <2>6. n = link[Head(todo)]
    BY <2>1, <2>3, <2>5, WriteThrough
  <2>7. QED
    BY <2>3, <2>4, <2>6
<1>2. QED
  BY <1>1, InstallerInvariant, PTL DEF Spec, OnlyListedPaths

-----------------------------------------------------------------------------
(***************************************************************************)
(* The rehearsal.  It has the directory to itself, so that after each of   *)
(* its steps the whole directory is known.                                 *)
(***************************************************************************)
\* A tree without a copy, and one with exactly the copies of the release checked out.
Cleared  == manifest = "none" /\ \A f \in Files : disk[f] = "none"
Due(f)   == IF f \in Listed(checkout) THEN checkout ELSE "none"
Complete == sound /\ dir /\ manifest = checkout /\ \A f \in Files : disk[f] = Due(f)

\* What the rehearsal holds under the names of strays.
Guest == IF phase \in {"kept", "noop"} THEN "user" ELSE "none"

\* A step of the rehearsal, where its run of the installer is, and how that run ended.
At(steps, label, answers) == phase \in steps /\ pc = label /\ answer \in answers

\* The tree at each point of the rehearsal.
Situation ==
  \/ At({"stage"}, "idle", {"none"}) /\ Cleared /\ ~dir
  \/ At({"install", "refill"}, "idle", {"none"}) /\ Cleared /\ ~dir /\ (phase = "refill" => sound)
  \/ At({"install"}, "idle", {"refused"}) /\ ~sound
  \/ /\ At({"install", "refill"}, "copy", {"none"}) /\ sound /\ dir
     /\ \A f \in Files \ Pending : disk[f] = Due(f)
  \/ At({"install", "refill"}, "idle", {"installed"}) /\ Complete
  \/ At({"again"}, "idle", {"none", "installed"}) /\ Complete /\ tree = Tree
  \/ At({"again"}, "copy", {"none"}) /\ Complete /\ tree = Tree
  \/ At({"clean", "kept"}, "idle", {"none"}) /\ Complete
  \/ /\ At({"clean", "kept"}, "unlink", {"none"}) /\ sound /\ dir /\ manifest = checkout
     /\ \A f \in Files \ Pending : disk[f] = "none"
  \/ At({"clean", "kept"}, "rmdir", {"none"}) /\ sound /\ Cleared
  \/ At({"clean", "kept"}, "idle", {"uninstalled"}) /\ sound /\ Cleared /\ (dir <=> phase = "kept")
  \/ At({"noop"}, "idle", {"none", "noop"}) /\ sound /\ Cleared
  \/ phase = "over" /\ pc = "idle" /\ (findings = {} <=> sound)

\* No link is made, the installer works on what is checked out, and nothing is found
\* before the end.
Rehearsing ==
  phase # "user" =>
    /\ \A n \in Names : link[n] = n
    /\ pc # "idle" => plan = checkout
    /\ phase # "over" => findings = {} /\ \A s \in Strays : disk[s] = Guest
    /\ Situation

\* Without links nothing listed escapes the directory.
LEMMA NothingEscapes ==
  ASSUME TypeOK, \A n \in Names : link[n] = n, NEW r \in Releases
  PROVE  ~Escapes(Listed(r)) /\ \A f \in Listed(r) : f \in Files /\ f \in Names /\ link[f] = f
BY ListedFiles, FilesAreNames DEF Escapes, Resolve

\* The rehearsal begins with an empty directory.
LEMMA InitRehearsing == Init => Rehearsing
<1> SUFFICES ASSUME Init, phase # "user" PROVE Rehearsing
  BY DEF Rehearsing
<1>1. phase = "stage" /\ pc = "idle" /\ answer = "none" /\ manifest = "none" /\ ~dir /\ findings = {}
  BY DEF Init
<1>2. \A n \in Names : link[n] = n /\ disk[n] = "none"
  BY FilesAreNames DEF Init
<1>3. \A f \in Files \cup Strays : disk[f] = "none"
  BY <1>2, FilesAreNames
<1>4. Situation
  BY <1>1, <1>3 DEF Situation, At, Cleared
<1>5. QED
  BY <1>1, <1>2, <1>3, <1>4 DEF Rehearsing, Guest

\* Only a damaged source tree is refused, and only by the first install.
LEMMA RefusedOnce ==
  ASSUME TypeOK, Rehearsing, InstallRefused PROVE Rehearsing'
<1> SUFFICES ASSUME phase # "user" PROVE Rehearsing'
  BY DEF InstallRefused, gate, Rehearsing
<1>1. /\ pc = "idle" /\ pc' = "idle" /\ answer = "none" /\ answer' = "refused"
      /\ phase \in {"install", "again", "refill"}
      /\ UNCHANGED <<source, content, loose, gate>>
  BY DEF InstallRefused, May, Commands, Finish
<1>2. ~sound
  <2>1. checkout \in Releases /\ \A n \in Names : link[n] = n
    BY DEF TypeOK, Rehearsing
  <2>2. ~Escapes(Listed(checkout))
    BY <2>1, NothingEscapes
  <2>3. QED
    BY <2>2 DEF InstallRefused
<1>3. phase = "install"
  BY <1>1, <1>2 DEF Rehearsing, Situation, At, Complete
<1>4. Situation'
  BY <1>1, <1>2, <1>3 DEF Situation, At, source, gate
<1>5. QED
  BY <1>1, <1>4 DEF Rehearsing, Guest, source, content, gate

\* An install of the rehearsal begins on a cleared tree, or on a complete one.
LEMMA PlanRehearsed ==
  ASSUME TypeOK, Rehearsing, InstallPlan PROVE Rehearsing'
<1> SUFFICES ASSUME phase # "user" PROVE Rehearsing'
  BY DEF InstallPlan, gate, Rehearsing
<1>1. /\ pc = "idle" /\ pc' = "copy" /\ answer = "none" /\ answer' = "none" /\ sound /\ dir' = TRUE
      /\ phase \in {"install", "again", "refill"} /\ plan' = checkout /\ todo' = Lists[checkout]
      /\ UNCHANGED <<checkout, sound, disk, link, manifest, phase, tree, findings>>
  BY DEF InstallPlan, May, Commands, source, gate
<1>2. Pending' = Listed(checkout)
  BY <1>1 DEF Pending, Listed
<1>3. Situation'
  <2>1. CASE phase = "again"
    <3>1. Complete /\ tree = Tree
      BY <1>1, <2>1 DEF Rehearsing, Situation, At
    <3>2. Complete' /\ tree' = Tree'
      BY <1>1, <3>1 DEF Complete, Due, Listed, Tree
    <3>3. QED
      BY <1>1, <2>1, <3>2 DEF Situation, At
  <2>2. CASE phase # "again"
    <3>1. Cleared
      BY <1>1, <2>2 DEF Rehearsing, Situation, At
    <3>2. \A f \in Files \ Pending' : disk'[f] = Due(f)'
      BY <1>1, <1>2, <3>1 DEF Cleared, Due, Listed
    <3>3. QED
      BY <1>1, <2>2, <3>2 DEF Situation, At
  <2>3. QED
    BY <2>1, <2>2
<1>4. QED
  BY <1>1, <1>3 DEF Rehearsing, Guest

\* Where no name is a link, a write changes one file, and no stray.
LEMMA WriteRehearsed ==
  ASSUME TypeOK, Rehearsing, phase # "user", pc # "idle", todo # <<>>, NEW v, Write(Head(todo), v),
         todo' = Tail(todo)
  PROVE  /\ Head(todo) \in Listed(checkout) /\ Head(todo) \in Files
         /\ Pending = {Head(todo)} \cup Pending'
         /\ disk' = [disk EXCEPT ![Head(todo)] = v]
         /\ \A f \in Files : disk'[f] = IF f = Head(todo) THEN v ELSE disk[f]
         /\ \A s \in Strays : disk'[s] = disk[s]
<1>1. plan = checkout /\ \A n \in Names : link[n] = n
  BY DEF Rehearsing
<1>2. Head(todo) \in Listed(checkout) /\ Head(todo) \in Files /\ Pending = {Head(todo)} \cup Pending'
  BY <1>1, OneLess
<1>3. link[Head(todo)] = Head(todo) /\ Head(todo) \notin Strays
  BY <1>1, <1>2, FilesAreNames
<1>4. disk' = [disk EXCEPT ![Head(todo)] = v]
  BY <1>3 DEF Write, Resolve
<1>5. Files \subseteq DOMAIN disk /\ Strays \subseteq DOMAIN disk
  BY FilesAreNames DEF TypeOK
<1>6. QED
  BY <1>2, <1>3, <1>4, <1>5

\* A copy settles one more file; on a complete tree it changes nothing.
LEMMA CopyRehearsed ==
  ASSUME TypeOK, Rehearsing, Copy PROVE Rehearsing'
<1> SUFFICES ASSUME phase # "user" PROVE Rehearsing'
  BY DEF Copy, gate, Rehearsing
<1> DEFINE h == Head(todo)
<1>1. /\ pc = "copy" /\ todo # <<>> /\ todo' = Tail(todo) /\ Write(h, plan) /\ plan = checkout
      /\ UNCHANGED <<checkout, sound, link, dir, manifest, pc, plan, answer, phase, tree, findings>>
  BY DEF Copy, Rehearsing, source, gate
<1>2. /\ h \in Listed(checkout) /\ h \in Files /\ Pending = {h} \cup Pending'
      /\ disk' = [disk EXCEPT ![h] = checkout]
      /\ \A f \in Files : disk'[f] = IF f = h THEN checkout ELSE disk[f]
      /\ \A s \in Strays : disk'[s] = disk[s]
  BY <1>1, WriteRehearsed
<1> HIDE DEF h
<1>3. Situation'
  <2>1. CASE phase = "again"
    <3>1. answer = "none" /\ Complete /\ tree = Tree
      BY <1>1, <2>1 DEF Rehearsing, Situation, At
    <3>2. disk[h] = checkout
      BY <1>2, <3>1 DEF Complete, Due
    <3>3. disk' = disk
      BY <1>2, <3>2 DEF TypeOK
    <3>4. Complete' /\ tree' = Tree'
      BY <1>1, <3>1, <3>3 DEF Complete, Due, Listed, Tree
    <3>5. QED
      BY <1>1, <2>1, <3>1, <3>4 DEF Situation, At
  <2>2. CASE phase # "again"
    <3>1. /\ At({"install", "refill"}, "copy", {"none"}) /\ sound /\ dir
          /\ \A f \in Files \ Pending : disk[f] = Due(f)
      BY <1>1, <2>2 DEF Rehearsing, Situation, At
    <3>2. ASSUME NEW f \in Files \ Pending' PROVE disk'[f] = Due(f)'
      <4>1. Due(f)' = Due(f) /\ Due(h) = checkout
        BY <1>1, <1>2 DEF Due, Listed
      <4>2. QED
        BY <1>2, <3>1, <4>1
    <3>3. QED
      BY <1>1, <3>1, <3>2 DEF Situation, At
  <2>3. QED
    BY <2>1, <2>2
<1>4. QED
  BY <1>1, <1>2, <1>3 DEF Rehearsing, Guest

\* With the manifest the tree is complete.
LEMMA RecordRehearsed ==
  ASSUME TypeOK, Rehearsing, Record PROVE Rehearsing'
<1> SUFFICES ASSUME phase # "user" PROVE Rehearsing'
  BY DEF Record, gate, Rehearsing
<1>1. /\ pc = "copy" /\ todo = <<>> /\ plan = checkout /\ manifest' = checkout
      /\ pc' = "idle" /\ answer' = "installed"
      /\ UNCHANGED <<checkout, sound, disk, link, dir, phase, tree, findings>>
  BY DEF Record, Finish, Rehearsing, source, gate
<1>2. Pending = {}
  BY <1>1 DEF Pending
<1>3. Situation'
  <2>1. CASE phase = "again"
    <3>1. Complete /\ tree = Tree
      BY <1>1, <2>1 DEF Rehearsing, Situation, At
    <3>2. Complete' /\ tree' = Tree'
      BY <1>1, <3>1 DEF Complete, Due, Listed, Tree
    <3>3. QED
      BY <1>1, <2>1, <3>2 DEF Situation, At
  <2>2. CASE phase # "again"
    <3>1. /\ At({"install", "refill"}, "copy", {"none"}) /\ sound /\ dir
          /\ \A f \in Files \ Pending : disk[f] = Due(f)
      BY <1>1, <2>2 DEF Rehearsing, Situation, At
    <3>2. Complete'
      BY <1>1, <1>2, <3>1 DEF Complete, Due, Listed
    <3>3. QED
      BY <1>1, <3>1, <3>2 DEF Situation, At
  <2>3. QED
    BY <2>1, <2>2
<1>4. QED
  BY <1>1, <1>3 DEF Rehearsing, Guest

\* An uninstall finds no manifest only when it is run a second time.
LEMMA NoopRehearsed ==
  ASSUME TypeOK, Rehearsing, UninstallNoop PROVE Rehearsing'
<1> SUFFICES ASSUME phase # "user" PROVE Rehearsing'
  BY DEF UninstallNoop, gate, Rehearsing
<1>1. /\ pc = "idle" /\ pc' = "idle" /\ answer = "none" /\ answer' = "noop" /\ manifest = "none"
      /\ phase \in {"clean", "kept", "noop"}
      /\ UNCHANGED <<source, content, loose, gate>>
  BY DEF UninstallNoop, May, Commands, Finish
<1>2. manifest # checkout
  BY <1>1 DEF TypeOK
<1>3. phase = "noop" /\ sound /\ Cleared
  BY <1>1, <1>2 DEF Rehearsing, Situation, At, Complete
<1>4. Situation'
  BY <1>1, <1>3 DEF Situation, At, Cleared, source, content, gate
<1>5. QED
  BY <1>1, <1>4 DEF Rehearsing, Guest, source, content, gate

\* Where an uninstall of the rehearsal finds a manifest, the tree is complete.
LEMMA ManifestRehearsed ==
  ASSUME TypeOK, Rehearsing, phase # "user", May("uninstall"), manifest # "none"
  PROVE  /\ phase \in {"clean", "kept"} /\ pc = "idle" /\ answer = "none" /\ Complete
         /\ manifest \in Releases /\ manifest # Torn /\ ~Escapes(Listed(manifest))
<1>1. pc = "idle" /\ answer = "none" /\ phase \in {"clean", "kept", "noop"}
  BY DEF May, Commands
<1>2. phase \in {"clean", "kept"} /\ Complete
  BY <1>1 DEF Rehearsing, Situation, At, Cleared
<1>3. manifest \in Releases
  BY <1>2 DEF Complete, TypeOK
<1>4. ~Escapes(Listed(manifest))
  BY <1>3, NothingEscapes DEF Rehearsing
<1>5. QED
  BY <1>1, <1>2, <1>3, <1>4

\* No uninstall of the rehearsal is refused.
LEMMA NotRefused ==
  ASSUME TypeOK, Rehearsing, UninstallRefused PROVE Rehearsing'
<1>1. May("uninstall") /\ manifest # "none" /\ UNCHANGED gate
  BY DEF UninstallRefused
<1>2. phase = "user"
  BY <1>1, ManifestRehearsed DEF UninstallRefused
<1>3. QED
  BY <1>1, <1>2 DEF Rehearsing, gate

\* All that is listed is to be removed.
LEMMA RemovalRehearsed ==
  ASSUME TypeOK, Rehearsing, UninstallPlan PROVE Rehearsing'
<1> SUFFICES ASSUME phase # "user" PROVE Rehearsing'
  BY DEF UninstallPlan, gate, Rehearsing
<1>1. /\ May("uninstall") /\ manifest \in Releases
      /\ plan' = manifest /\ todo' = Lists[manifest] /\ pc' = "unlink" /\ answer' = "none"
      /\ UNCHANGED <<checkout, sound, disk, link, dir, manifest, phase, tree, findings>>
  BY DEF UninstallPlan, source, content, gate
<1>2. phase \in {"clean", "kept"} /\ Complete
  BY <1>1, ManifestRehearsed
<1>3. Pending' = Listed(checkout) /\ plan' = checkout
  BY <1>1, <1>2 DEF Pending, Listed, Complete
<1>4. \A f \in Files \ Pending' : disk'[f] = "none"
  BY <1>1, <1>2, <1>3 DEF Complete, Due
<1>5. Situation'
  BY <1>1, <1>2, <1>4 DEF Situation, At, Complete
<1>6. QED
  BY <1>1, <1>3, <1>5 DEF Rehearsing, Guest

\* What has been removed stays removed.
LEMMA UnlinkRehearsed ==
  ASSUME TypeOK, Rehearsing, Unlink PROVE Rehearsing'
<1> SUFFICES ASSUME phase # "user" PROVE Rehearsing'
  BY DEF Unlink, gate, Rehearsing
<1> DEFINE h == Head(todo)
<1>1. /\ pc = "unlink" /\ todo # <<>> /\ todo' = Tail(todo) /\ Write(h, "none") /\ plan = checkout
      /\ UNCHANGED <<checkout, sound, link, dir, manifest, pc, plan, answer, phase, tree, findings>>
  BY DEF Unlink, Rehearsing, source, gate
<1>2. /\ h \in Files /\ Pending = {h} \cup Pending'
      /\ \A f \in Files : disk'[f] = IF f = h THEN "none" ELSE disk[f]
      /\ \A s \in Strays : disk'[s] = disk[s]
  BY <1>1, WriteRehearsed
<1> HIDE DEF h
<1>3. /\ At({"clean", "kept"}, "unlink", {"none"}) /\ sound /\ dir /\ manifest = checkout
      /\ \A f \in Files \ Pending : disk[f] = "none"
  BY <1>1 DEF Rehearsing, Situation, At
<1>4. \A f \in Files \ Pending' : disk'[f] = "none"
  BY <1>2, <1>3
<1>5. Situation'
  BY <1>1, <1>3, <1>4 DEF Situation, At
<1>6. QED
  BY <1>1, <1>2, <1>5 DEF Rehearsing, Guest

\* With the manifest the last trace of the install is gone.
LEMMA DropRehearsed ==
  ASSUME TypeOK, Rehearsing, Drop PROVE Rehearsing'
<1> SUFFICES ASSUME phase # "user" PROVE Rehearsing'
  BY DEF Drop, gate, Rehearsing
<1>1. /\ pc = "unlink" /\ todo = <<>> /\ plan = checkout /\ manifest' = "none" /\ pc' = "rmdir"
      /\ UNCHANGED <<checkout, sound, disk, link, dir, plan, answer, phase, tree, findings>>
  BY DEF Drop, Rehearsing, source, gate
<1>2. Pending = {}
  BY <1>1 DEF Pending
<1>3. At({"clean", "kept"}, "unlink", {"none"}) /\ sound /\ \A f \in Files \ Pending : disk[f] = "none"
  BY <1>1 DEF Rehearsing, Situation, At
<1>4. Cleared'
  BY <1>1, <1>2, <1>3 DEF Cleared
<1>5. Situation'
  BY <1>1, <1>3, <1>4 DEF Situation, At
<1>6. QED
  BY <1>1, <1>5 DEF Rehearsing, Guest

\* The directory goes with the last file, and stays with the stray one.
LEMMA RemoveDirRehearsed ==
  ASSUME Strays # {}, TypeOK, Rehearsing, RemoveDir PROVE Rehearsing'
<1> SUFFICES ASSUME phase # "user" PROVE Rehearsing'
  BY DEF RemoveDir, gate, Rehearsing
<1>1. /\ pc = "rmdir" /\ pc' = "idle" /\ answer' = "uninstalled" /\ dir' = ~Empty
      /\ UNCHANGED <<checkout, sound, disk, link, manifest, phase, tree, findings>>
  BY DEF RemoveDir, Finish, source, gate
<1>2. At({"clean", "kept"}, "rmdir", {"none"}) /\ sound /\ Cleared
  BY <1>1 DEF Rehearsing, Situation, At
<1>3. \A s \in Strays : disk[s] = Guest
  BY <1>2 DEF Rehearsing, At
<1>4. Empty <=> phase = "clean"
  <2>1. CASE phase = "clean"
    <3>1. \A n \in Names : disk[n] = "none"
      BY <1>2, <1>3, <2>1 DEF Cleared, Guest, Names
    <3>2. QED
      BY <1>2, <2>1, <3>1 DEF Cleared, Empty, Left
  <2>2. CASE phase = "kept"
    <3>1. PICK s \in Strays : disk[s] = "user"
      BY <1>3, <2>2 DEF Guest
    <3>2. s \in Left(Names)
      BY <3>1, FilesAreNames DEF Left
    <3>3. QED
      BY <2>2, <3>2 DEF Empty
  <2>3. QED
    BY <1>2, <2>1, <2>2 DEF At
<1>5. Cleared'
  BY <1>1, <1>2 DEF Cleared
<1>6. Situation'
  BY <1>1, <1>2, <1>4, <1>5 DEF Situation, At
<1>7. QED
  BY <1>1, <1>6 DEF Rehearsing, Guest

\* The staged tree is rehearsed, or found to be damaged.
LEMMA StageRehearsed ==
  ASSUME TypeOK, Rehearsing, Stage PROVE Rehearsing'
<1>1. /\ phase = "stage" /\ UNCHANGED <<source, content, run, loose>>
      /\ \/ ~sound /\ phase' = "over" /\ findings' = findings \cup {"missing"}
         \/ phase' = "install" /\ findings' = findings
  BY DEF Stage, Found
<1>2. /\ \A n \in Names : link[n] = n
      /\ pc = "idle" /\ answer = "none" /\ Cleared /\ ~dir /\ findings = {}
      /\ \A s \in Strays : disk[s] = "none"
  BY <1>1 DEF Rehearsing, Situation, At, Guest
<1>3. Cleared' /\ pc' = "idle" /\ answer' = "none" /\ ~dir' /\ sound' = sound
  BY <1>1, <1>2 DEF Cleared, source, content, run
<1>4. Situation' /\ (phase' # "over" => findings' = {})
  BY <1>1, <1>2, <1>3 DEF Situation, At
<1>5. QED
  BY <1>1, <1>2, <1>3, <1>4 DEF Rehearsing, Guest, content

\* Of a damaged source tree the first run is found not to have installed.
LEMMA JudgeFinds ==
  ASSUME TypeOK, Rehearsing, Judge, ~sound PROVE Rehearsing'
<1>1. phase # "user" /\ phase # "over" /\ phase # "stage" /\ pc = "idle" /\ answer # "none"
  BY DEF Judge, Following
<1>2. phase = "install" /\ answer = "refused"
  BY <1>1 DEF Rehearsing, Situation, At, Complete
<1>3. ~Passed
  BY <1>2 DEF Passed
<1>4. /\ phase' = "over" /\ findings' = findings \cup {"install"}
      /\ pc' = "idle" /\ sound' = sound /\ link' = link
  BY <1>1, <1>2, <1>3 DEF Judge, Found, source
<1>5. Situation'
  BY <1>4 DEF Situation
<1>6. QED
  BY <1>1, <1>4, <1>5 DEF Rehearsing

\* Of a sound one every run of the rehearsal passes.
LEMMA JudgePasses ==
  ASSUME TypeOK, Rehearsing, Judge, sound
  PROVE  /\ Passed /\ pc = "idle" /\ findings = {}
         /\ \/ phase \in {"install", "again", "refill"} /\ Complete
            \/ phase \in {"clean", "kept", "noop"} /\ Cleared /\ (phase = "clean" => ~dir)
<1>1. /\ phase \in {"install", "again", "clean", "refill", "kept", "noop"}
      /\ pc = "idle" /\ answer # "none"
  BY DEF Judge, Following
<1>2. /\ Situation /\ findings = {} /\ \A s \in Strays : disk[s] = Guest
  BY <1>1 DEF Rehearsing
<1>3. CASE phase \in {"install", "refill"}
  <2>1. answer = "installed" /\ Complete
    BY <1>1, <1>2, <1>3 DEF Situation, At
  <2>2. QED
    BY <1>1, <1>2, <1>3, <2>1 DEF Passed, Complete
<1>4. CASE phase = "again"
  <2>1. answer = "installed" /\ Complete /\ tree = Tree
    BY <1>1, <1>2, <1>4 DEF Situation, At
  <2>2. QED
    BY <1>1, <1>2, <1>4, <2>1 DEF Passed
<1>5. CASE phase \in {"clean", "kept"}
  <2>1. answer = "uninstalled" /\ Cleared /\ (dir <=> phase = "kept")
    BY <1>1, <1>2, <1>5 DEF Situation, At
  <2>2. Left(Listed(checkout)) = {} /\ manifest = "none"
    BY <2>1, ListedFiles DEF Left, Cleared, TypeOK
  <2>3. phase = "kept" => \A s \in Strays : disk[s] = "user"
    BY <1>2 DEF Guest
  <2>4. QED
    BY <1>1, <1>2, <1>5, <2>1, <2>2, <2>3 DEF Passed
<1>6. CASE phase = "noop"
  <2>1. answer = "noop" /\ Cleared
    BY <1>1, <1>2, <1>6 DEF Situation, At
  <2>2. QED
    BY <1>1, <1>2, <1>6, <2>1 DEF Passed
<1>7. QED
  BY <1>1, <1>3, <1>4, <1>5, <1>6

\* A step that passed leads to the next one, with its stray file where it has one.
LEMMA JudgeGoesOn ==
  ASSUME TypeOK, Rehearsing, Judge, sound PROVE Rehearsing'
<1>1. /\ phase \in {"install", "again", "clean", "refill", "kept", "noop"}
      /\ \A s \in Strays : disk[s] = Guest
      /\ \A n \in Names : link[n] = n
  BY DEF Judge, Following, Rehearsing
<1>2. /\ Passed /\ pc = "idle" /\ findings = {}
      /\ \/ phase \in {"install", "again", "refill"} /\ Complete
         \/ phase \in {"clean", "kept", "noop"} /\ Cleared /\ (phase = "clean" => ~dir)
  BY JudgePasses
<1>3. /\ phase' = Following[phase] /\ tree' = Tree /\ answer' = "none"
      /\ dir' = (dir /\ phase # "noop")
      /\ UNCHANGED <<checkout, sound, link, manifest, pc, todo, plan, loose>>
  BY <1>2 DEF Judge, Found, source
<1>4. findings' = {}
  <2>1. phase = "install" => AllInstalled
    BY <1>2, ListedFiles DEF Complete, Due, AllInstalled, CopiedWell, TypeOK
  <2>2. QED
    BY <1>2, <2>1 DEF Judge
<1>5. /\ \A f \in Files : disk'[f] = disk[f]
      /\ \A s \in Strays : disk'[s] = IF phase = "refill" THEN "user"
                                      ELSE IF phase = "noop" THEN "none" ELSE disk[s]
      /\ phase \in {"install", "again"} => disk' = disk
  <2>1. disk' = [n \in DOMAIN disk |->
                   IF n \in Strays /\ Passed /\ phase \in {"refill", "noop"}
                     THEN (IF phase = "refill" THEN "user" ELSE "none")
                     ELSE disk[n]]
    BY DEF Judge
  <2>2. /\ DOMAIN disk = Names \cup {Outside} /\ Files \subseteq DOMAIN disk /\ Strays \subseteq DOMAIN disk
        /\ disk = [n \in DOMAIN disk |-> disk[n]]
    BY FilesAreNames DEF TypeOK
  <2>3. \A f \in Files : f \notin Strays
    OBVIOUS
  <2>4. phase \in {"install", "again"} => disk' = disk
    BY <2>1, <2>2
  <2>5. QED
    BY <1>2, <2>1, <2>2, <2>3, <2>4
<1>6. /\ Cleared => Cleared'
      /\ Complete /\ phase # "noop" => Complete'
  <2>1. Cleared => Cleared'
    BY <1>3, <1>5 DEF Cleared
  <2>2. ASSUME Complete, phase # "noop" PROVE Complete'
    <3>1. sound' /\ dir' /\ manifest' = checkout'
      BY <1>3, <2>2 DEF Complete
    <3>2. \A f \in Files : Due(f)' = Due(f)
      BY <1>3 DEF Due
    <3>3. \A f \in Files : disk'[f] = Due(f)'
      BY <1>5, <2>2, <3>2 DEF Complete
    <3>4. QED
      BY <3>1, <3>3 DEF Complete
  <2>3. QED
    BY <2>1, <2>2
<1>7. Situation'
  <2>1. CASE phase = "install"
    <3>1. Complete' /\ tree' = Tree' /\ phase' = "again"
      BY <1>2, <1>3, <1>5, <1>6, <2>1 DEF Tree, Following
    <3>2. QED
      BY <1>2, <1>3, <3>1 DEF Situation, At
  <2>2. CASE phase \in {"again", "refill"}
    <3>1. Complete' /\ phase' \in {"clean", "kept"}
      BY <1>2, <1>6, <1>3, <2>2 DEF Following
    <3>2. QED
      BY <1>2, <1>3, <3>1 DEF Situation, At
  <2>3. CASE phase = "clean"
    <3>1. Cleared' /\ ~dir' /\ phase' = "refill"
      BY <1>2, <1>6, <1>3, <2>3 DEF Following
    <3>2. QED
      BY <1>2, <1>3, <3>1 DEF Situation, At
  <2>4. CASE phase = "kept"
    <3>1. Cleared' /\ phase' = "noop"
      BY <1>2, <1>6, <1>3, <2>4 DEF Following
    <3>2. QED
      BY <1>2, <1>3, <3>1 DEF Situation, At
  <2>5. CASE phase = "noop"
    <3>1. phase' = "over"
      BY <1>3, <2>5 DEF Following
    <3>2. QED
      BY <1>2, <1>3, <1>4, <3>1 DEF Situation
  <2>6. QED
    BY <1>1, <2>1, <2>2, <2>3, <2>4, <2>5
<1>8. phase' # "over" => \A s \in Strays : disk'[s] = Guest'
  BY <1>1, <1>3, <1>5 DEF Guest, Following
<1>9. QED
  BY <1>2, <1>1, <1>3, <1>4, <1>7, <1>8 DEF Rehearsing

\* What the user does, and what stops a run, is no part of the rehearsal.
LEMMA OthersStayOut ==
  ASSUME Rehearsing, Interrupt \/ User \/ UNCHANGED vars PROVE Rehearsing'
<1>1. CASE Interrupt \/ User
  BY <1>1 DEF Interrupt, User, UserWrites, UserRemoves, UserLinks, Edit, Checkout, UserActs, gate,
              Rehearsing
<1>2. CASE UNCHANGED vars
  BY <1>2 DEF vars, source, content, run, gate, Rehearsing, Situation, At, Cleared, Complete, Due,
              Guest, Listed, Pending, Tree
<1>3. QED
  BY <1>1, <1>2

\* Every step keeps what is known of the rehearsal.
LEMMA NextRehearsing ==
  ASSUME Strays # {}, TypeOK, Rehearsing, [Next]_vars PROVE Rehearsing'
<1>1. CASE Install
  BY <1>1, RefusedOnce, PlanRehearsed, CopyRehearsed, RecordRehearsed DEF Install
<1>2. CASE Uninstall
  BY <1>2, NoopRehearsed, NotRefused, RemovalRehearsed, UnlinkRehearsed, DropRehearsed,
     RemoveDirRehearsed DEF Uninstall
<1>3. CASE Stage
  BY <1>3, StageRehearsed
<1>4. CASE Judge
  BY <1>4, JudgeFinds, JudgeGoesOn
<1>5. QED
  BY <1>1, <1>2, <1>3, <1>4, OthersStayOut DEF Next

\* A rehearsal that has a stray file to add (check_install always does) finds nothing in a
\* complete source tree, whatever releases list, and always finds something in another one.
THEOREM RehearsalIsSound ==
  ASSUME Strays # {} PROVE Spec => []RehearsalJudges
<1>1. TypeOK /\ Rehearsing /\ [Next]_vars => Rehearsing'
  BY NextRehearsing
<1>2. Rehearsing => RehearsalJudges
  BY DEF Rehearsing, Situation, At, RehearsalJudges
<1>3. QED
  BY <1>1, <1>2, InitRehearsing, TypeCorrect, PTL DEF Spec
=============================================================================

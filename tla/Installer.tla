------------------------------- MODULE Installer -------------------------------
(***************************************************************************)
(* install/claude.py and install/cursor.py: install and uninstall of the   *)
(* skill files in one destination directory.  A run may stop between any   *)
(* two of its file operations and in the middle of a write.  Between runs  *)
(* the user edits the directory and checks out another release.            *)
(*                                                                         *)
(* The same module holds the rehearsal of scripts/check_install.py, which  *)
(* drives the installer through a fixed series of runs in a directory of   *)
(* its own and judges the directory after each of them.                    *)
(***************************************************************************)
EXTENDS Sequences, FiniteSets

CONSTANTS
  Releases,   \* releases of the skill
  Lists,      \* the `files` of the adapter, per release
  Strays,     \* names in the directory that no release lists
  Links,      \* where a link made by the user may lead: Outside, or a stray
  Outside     \* a file of the user's that is not in the directory

Listed(r) == {Lists[r][i] : i \in DOMAIN Lists[r]}
Files     == UNION {Listed(r) : r \in Releases}
Names     == Files \cup Strays
Torn      == "torn"
Fixed     == {"none", "user", Torn, "link"}

ASSUME ReleasesAssumption ==
  /\ Lists \in [Releases -> Seq(Files)]
  /\ Releases \cap Fixed = {}
ASSUME NamesAssumption ==
  /\ Strays \cap Files = {}
  /\ Outside \notin Names
  /\ Links \subseteq Strays \cup {Outside}

VARIABLES
  checkout,   \* the release in the source tree
  sound,      \* does the source tree have all that an install reads?
  disk,       \* per name, what the directory holds under it
  link,       \* per name, where its link leads (itself when it is no link)
  dir,        \* does the directory exist?
  manifest,   \* the release .install-manifest.json records, "none" or Torn
  pc,         \* where the running installer is
  todo,       \* names it has still to copy or to remove
  plan,       \* the release whose payloads it has read, or whose files it removes
  answer,     \* how the last run ended
  loose,      \* names that may hold a copy no manifest owns, and why is known
  phase,      \* "user", or the step of the rehearsal
  tree,       \* the directory as the rehearsal saw it before installing again
  findings    \* what the rehearsal has found

source  == <<checkout, sound>>
content == <<disk, link, dir, manifest>>
run     == <<pc, todo, plan, answer>>
gate    == <<phase, tree, findings>>
vars    == <<source, content, run, loose, gate>>

Labels  == {"idle", "copy", "unlink", "rmdir"}
Answers == {"none", "installed", "uninstalled", "noop", "refused", "died"}
Phases  == {"user", "stage", "install", "again", "clean", "refill", "kept", "noop", "over"}

-----------------------------------------------------------------------------
\* _confine: the entry resolved, links followed; Outside is refused.
Resolve(f) == link[f]
Escapes(S) == \E f \in S : Resolve(f) = Outside

Left(S)  == {f \in S : disk[f] # "none"}
Empty    == Left(Names) = {} /\ manifest = "none"
Tree     == <<disk, manifest>>
Owned    == IF manifest \in Releases THEN Listed(manifest) ELSE {}
Copies   == {f \in Files : disk[f] \in Releases \cup {Torn}}

\* Which command may start: any in the hands of a user, the next one in the rehearsal.
Commands(p) == CASE p = "user" -> {"install", "uninstall"}
                 [] p \in {"install", "again", "refill"} -> {"install"}
                 [] p \in {"clean", "kept", "noop"} -> {"uninstall"}
                 [] OTHER -> {}
May(command) == pc = "idle" /\ command \in Commands(phase) /\ (phase # "user" => answer = "none")

Finish(how) == pc' = "idle" /\ todo' = <<>> /\ answer' = how /\ UNCHANGED plan

-----------------------------------------------------------------------------
(***************************************************************************)
(* install: every check and every read comes before the first write, the   *)
(* files follow one by one, and the manifest is last.                      *)
(***************************************************************************)
InstallRefused ==
  /\ May("install")
  /\ ~sound \/ Escapes(Listed(checkout))
  /\ Finish("refused")
  /\ UNCHANGED <<source, content, loose, gate>>

\* Mutation: the destinations are not confined.
InstallPlan_Unconfined ==
  /\ May("install")
  /\ sound
  /\ dir' = TRUE
  /\ plan' = checkout /\ todo' = Lists[checkout] /\ pc' = "copy" /\ answer' = "none"
  /\ UNCHANGED <<source, disk, link, manifest, loose, gate>>
InstallPlan ==
  /\ May("install")
  /\ sound /\ ~Escapes(Listed(checkout))
  /\ dir' = TRUE
  /\ plan' = checkout /\ todo' = Lists[checkout] /\ pc' = "copy" /\ answer' = "none"
  /\ UNCHANGED <<source, disk, link, manifest, loose, gate>>

Write(name, value) == disk' = [disk EXCEPT ![Resolve(name)] = value]

\* Mutation: a file that is already there is left alone.
Copy_OnlyMissing ==
  /\ pc = "copy" /\ todo # <<>>
  /\ IF disk[Resolve(Head(todo))] = "none" THEN Write(Head(todo), plan) ELSE UNCHANGED disk
  /\ todo' = Tail(todo)
  /\ UNCHANGED <<source, link, dir, manifest, pc, plan, answer, loose, gate>>
Copy ==
  /\ pc = "copy" /\ todo # <<>>
  /\ Write(Head(todo), plan)
  /\ todo' = Tail(todo)
  /\ UNCHANGED <<source, link, dir, manifest, pc, plan, answer, loose, gate>>

Record ==
  /\ pc = "copy" /\ todo = <<>>
  /\ manifest' = plan
  /\ Finish("installed")
  /\ loose' = (loose \cup Owned) \ Listed(plan)
  /\ UNCHANGED <<source, disk, link, dir, gate>>

-----------------------------------------------------------------------------
(***************************************************************************)
(* uninstall: what the manifest lists, and the manifest last.              *)
(***************************************************************************)
\* Mutation: an uninstall that finds no manifest is an error.
UninstallNoop_Refused ==
  /\ May("uninstall")
  /\ manifest = "none"
  /\ Finish("refused")
  /\ UNCHANGED <<source, content, loose, gate>>
UninstallNoop ==
  /\ May("uninstall")
  /\ manifest = "none"
  /\ Finish("noop")
  /\ UNCHANGED <<source, content, loose, gate>>

\* A torn manifest is no JSON and the run dies; a file outside is never removed.
UninstallRefused ==
  /\ May("uninstall")
  /\ manifest # "none"
  /\ \/ manifest = Torn /\ Finish("died")
     \/ manifest \in Releases /\ Escapes(Listed(manifest)) /\ Finish("refused")
  /\ UNCHANGED <<source, content, loose, gate>>

UninstallPlan ==
  /\ May("uninstall")
  /\ manifest \in Releases /\ ~Escapes(Listed(manifest))
  /\ plan' = manifest /\ todo' = Lists[manifest] /\ pc' = "unlink" /\ answer' = "none"
  /\ UNCHANGED <<source, content, loose, gate>>

\* The resolved path is unlinked: of a link, what it leads to.
\* Mutation: the manifest goes first, and then the files.
Unlink_ManifestFirst ==
  /\ pc = "unlink" /\ todo # <<>>
  /\ Write(Head(todo), "none")
  /\ manifest' = "none"
  /\ todo' = Tail(todo)
  /\ UNCHANGED <<source, link, dir, pc, plan, answer, loose, gate>>
Unlink ==
  /\ pc = "unlink" /\ todo # <<>>
  /\ Write(Head(todo), "none")
  /\ todo' = Tail(todo)
  /\ UNCHANGED <<source, link, dir, manifest, pc, plan, answer, loose, gate>>

Drop ==
  /\ pc = "unlink" /\ todo = <<>>
  /\ manifest' = "none"
  /\ pc' = "rmdir"
  /\ UNCHANGED <<source, disk, link, dir, todo, plan, answer, loose, gate>>

\* rmdir fails on a directory that still holds something, and the failure is ignored.
RemoveDir ==
  /\ pc = "rmdir"
  /\ dir' = ~Empty
  /\ Finish("uninstalled")
  /\ UNCHANGED <<source, disk, link, manifest, loose, gate>>

\* Killed, or a file operation failed: everything done so far stays, a file being
\* written may be left torn.
Interrupt ==
  /\ phase = "user" /\ pc # "idle"
  /\ \/ UNCHANGED <<disk, manifest>>
     \/ pc = "copy" /\ todo # <<>> /\ Write(Head(todo), Torn) /\ UNCHANGED manifest
     \/ pc = "copy" /\ todo = <<>> /\ manifest' = Torn /\ UNCHANGED disk
  /\ loose' = IF pc = "copy" THEN loose \cup Listed(plan) \cup Owned ELSE loose
  /\ Finish("died")
  /\ UNCHANGED <<source, link, dir, gate>>
-----------------------------------------------------------------------------
(***************************************************************************)
(* The user, between runs: files made, edited, removed or replaced by a    *)
(* link, and another release checked out, whole or damaged.                *)
(***************************************************************************)
UserActs == phase = "user" /\ pc = "idle" /\ answer' = "none"

Edit(name, value, to) ==
  /\ UserActs /\ dir
  /\ disk' = [disk EXCEPT ![name] = value]
  /\ link' = [link EXCEPT ![name] = to]
  /\ UNCHANGED <<source, dir, manifest, pc, todo, plan, loose, gate>>

UserWrites == \E n \in Names : Edit(n, "user", n)
UserRemoves == \E n \in Names : Edit(n, "none", n)
UserLinks == \E f \in Files, g \in Links : Edit(f, "link", g)

Checkout ==
  /\ UserActs
  /\ checkout' \in Releases /\ sound' \in BOOLEAN
  /\ UNCHANGED <<content, pc, todo, plan, loose, gate>>

-----------------------------------------------------------------------------
(***************************************************************************)
(* The rehearsal: install, install again, uninstall, install, add a stray  *)
(* file, uninstall, uninstall again, clean up.  A step that went wrong     *)
(* ends it; a wrong copy or manifest is noted, and the rehearsal goes on.  *)
(***************************************************************************)
Found(what) == phase' = "over" /\ findings' = findings \cup {what} /\ UNCHANGED tree

\* stage_source copies what the installer reads; of what is missing it notices some
\* itself and leaves the rest (a file the adapter lists, the pin) to the installer.
Stage ==
  /\ phase = "stage"
  /\ \/ ~sound /\ Found("missing")
     \/ phase' = "install" /\ UNCHANGED <<tree, findings>>
  /\ UNCHANGED <<source, content, run, loose>>

CopiedWell == \A f \in Listed(checkout) : disk[f] = checkout
AllInstalled == CopiedWell /\ manifest = checkout

Passed == CASE phase = "install" -> answer = "installed" /\ dir
            [] phase = "again"   -> answer = "installed" /\ Tree = tree
            [] phase = "clean"   -> answer = "uninstalled" /\ ~dir
            [] phase = "refill"  -> answer = "installed"
            [] phase = "kept"    -> /\ answer = "uninstalled" /\ dir
                                    /\ \A n \in Strays : disk[n] = "user"
                                    /\ Left(Listed(checkout)) = {} /\ manifest = "none"
            [] phase = "noop"    -> answer = "noop"
            [] OTHER -> FALSE

Following == [install |-> "again", again |-> "clean", clean |-> "refill",
              refill |-> "kept", kept |-> "noop", noop |-> "over"]

Judge ==
  /\ phase \in DOMAIN Following /\ pc = "idle" /\ answer # "none"
  /\ \/ ~Passed /\ Found(phase)
     \/ /\ Passed /\ phase' = Following[phase] /\ tree' = Tree
        /\ findings' = IF phase = "install" /\ ~AllInstalled THEN findings \cup {"copies"} ELSE findings
  /\ disk' = [n \in DOMAIN disk |->
               IF n \in Strays /\ Passed /\ phase \in {"refill", "noop"}
                 THEN (IF phase = "refill" THEN "user" ELSE "none")
                 ELSE disk[n]]
  /\ dir' = (dir /\ ~(Passed /\ phase = "noop"))
  /\ answer' = "none"
  /\ UNCHANGED <<source, link, manifest, pc, todo, plan, loose>>

-----------------------------------------------------------------------------
Init ==
  /\ checkout \in Releases /\ sound \in BOOLEAN
  /\ disk = [n \in Names \cup {Outside} |-> IF n = Outside THEN "user" ELSE "none"]
  /\ link = [n \in Names |-> n]
  /\ dir = FALSE /\ manifest = "none"
  /\ pc = "idle" /\ todo = <<>> /\ plan = checkout /\ answer = "none"
  /\ loose = {}
  /\ phase \in {"user", "stage"} /\ tree = Tree /\ findings = {}

Install   == InstallRefused \/ InstallPlan \/ Copy \/ Record
Uninstall == UninstallNoop \/ UninstallRefused \/ UninstallPlan \/ Unlink \/ Drop \/ RemoveDir
User      == UserWrites \/ UserRemoves \/ UserLinks \/ Checkout

Next == Install \/ Uninstall \/ Interrupt \/ User \/ Stage \/ Judge

Spec == Init /\ [][Next]_vars

-----------------------------------------------------------------------------
\* The type of every variable; a running installer works off the list of one release.
TypeOK ==
  /\ checkout \in Releases /\ sound \in BOOLEAN
  /\ disk \in [Names \cup {Outside} -> Releases \cup Fixed]
  /\ link \in [Names -> Names \cup {Outside}]
  /\ dir \in BOOLEAN /\ manifest \in Releases \cup {"none", Torn}
  /\ pc \in Labels /\ plan \in Releases /\ answer \in Answers
  /\ todo \in Seq(Files) /\ \A i \in DOMAIN todo : todo[i] \in Listed(plan)
  /\ loose \subseteq Files
  /\ phase \in Phases /\ findings \subseteq Phases \cup {"missing", "copies"}

\* Every copy in the directory belongs to the manifest in place, so that an uninstall
\* finds it, except the copies known to be loose: those of an install that stopped
\* half-way, and those only an older release listed.
EveryFileIsOwned == pc = "idle" => Copies \subseteq Owned \cup loose

\* The manifest is the commit record of an install: it is written, and success is
\* reported, only over a complete copy of its release, whatever an earlier run that
\* stopped half-way or the user left in the directory.
RecordedMeansCopied ==
  [][manifest' \in Releases /\ (manifest' # manifest \/ (answer' = "installed" /\ answer # answer'))
     => \A f \in Listed(manifest') : disk'[f] = manifest']_vars

\* FR-016: an installer changes the files its release lists and an uninstall those of
\* the manifest; strays, and files outside that a link leads to, stay as they are.
OnlyListedPaths ==
  [][pc # "idle" => \A n \in Names \cup {Outside} : disk'[n] # disk[n] => n \in Listed(plan)]_vars

\* "Uninstall deletes only manifest paths" (install/_shared.py:15, SPEC FR-016): a file
\* that an uninstall removes was one the manifest lists.
DeletesOnlyManifestPaths ==
  [][pc = "unlink" => \A n \in Names \cup {Outside} :
                        disk[n] # "none" /\ disk'[n] = "none" => n \in Listed(plan)]_vars

\* check_install rehearses a complete source tree without a finding and any other one
\* with a finding.
RehearsalJudges == phase = "over" => (findings = {} <=> sound)
=============================================================================

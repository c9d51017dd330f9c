----------------------------- MODULE ReleaseRecord -----------------------------
(***************************************************************************)
(* The release gate of scripts/check_install.py: license, plugin manifest, *)
(* marketplace entry and the topmost entry of CHANGELOG.md, compared with  *)
(* pyproject.toml and with the provenance that MetadataSync publishes; and *)
(* the version triplet that an install writes into its manifest.           *)
(***************************************************************************)
EXTENDS MetadataSync, Naturals, Sequences

CONSTANTS
  Versions,   \* versions of the skill
  Levels,     \* levels of Markdown headings
  MaxLines    \* bound on the length of a changelog

ASSUME LinesAssumption == MaxLines \in Nat /\ None \notin Versions /\ Levels \subseteq Nat

VARIABLES
  log,        \* CHANGELOG.md, line by line
  drafting    \* does this behaviour write the changelog, or sync the files?

-----------------------------------------------------------------------------
(***************************************************************************)
(* find_release_entry.  A line is a fence, text, or a heading; a heading   *)
(* that names no release, or opens with "Unreleased" or "In progress", has *)
(* version None.                                                           *)
(***************************************************************************)
Headings == [kind: {"heading"}, level: Levels, version: Versions \cup {None}]
Lines    == Headings \cup [kind: {"fence", "text"}]

Draft ==
  /\ drafting /\ Len(log) < MaxLines
  /\ \E line \in Lines : log' = Append(log, line)
  /\ UNCHANGED <<drafting, vars>>

\* The flag `fenced` as it stands when a line is looked at; a fence toggles it.
Fenced ==
  LET fenced[i \in 1..Len(log) + 1] ==
        i > 1 /\ IF log[i - 1].kind = "fence" THEN ~fenced[i - 1] ELSE fenced[i - 1]
  IN fenced

Heading(i) == log[i].kind = "heading" /\ ~Fenced[i]
Least(S) == CHOOSE i \in S : \A j \in S : i <= j

\* The lines of the entry: from the first heading that names a release up to the next
\* heading of its level or a higher one.  The scan for the end starts outside a fence.
\* Mutation: only a heading of the same level ends the entry.
Closes_SameLevel(i, j) == log[j].level = log[i].level
Closes(i, j) == log[j].level <= log[i].level

Entry ==
  LET starts  == {i \in DOMAIN log : Heading(i) /\ log[i].version # None}
      ends(i) == {j \in i + 1 .. Len(log) : Heading(j) /\ Closes(i, j)}
  IN IF starts = {} THEN {}
     ELSE LET i == Least(starts) IN i .. (IF ends(i) = {} THEN Len(log) ELSE Least(ends(i)) - 1)

-----------------------------------------------------------------------------
(***************************************************************************)
(* The gate over what the maintainer has written: the version in           *)
(* pyproject.toml, in plugin.json and of the topmost changelog entry, the  *)
(* pins and the snapshot hashes that entry states, and whether license and *)
(* plugin tree are in order.                                               *)
(***************************************************************************)
Records == [project: Versions \cup {None}, plugin: Versions, entry: Versions \cup {None},
            pins: SUBSET Engines, hashes: SUBSET Engines, licensed: BOOLEAN, packaged: BOOLEAN]

ReleaseFails(r) ==
  LET found == r.entry # None IN
  [license |-> ~r.licensed,
   entry   |-> ~found,
   version |-> found /\ (r.project = None \/ pin = None \/ r.entry # r.project),
   pin     |-> found /\ (r.project = None \/ pin = None \/ pin \notin r.pins),
   hash    |-> found /\ (provenance = None \/ provenance.snapshot \notin r.hashes),
   plugin  |-> r.project = None \/ r.plugin # r.project,
   package |-> ~r.packaged]

Releasable(r) == \A check \in DOMAIN ReleaseFails(r) : ~ReleaseFails(r)[check]

\* What an install of this tree records: versions from pyproject.toml, and the hash of
\* the snapshot file itself.
InstallTriplet(r) == [skill_version |-> r.project, engine_pin |-> pin, snapshot_sha256 |-> snapshot]

\* The changelog and the published files meet in the gate alone, where the entry is any
\* of Records: a behaviour changes the one or the others.
RecordInit == Init /\ log = <<>> /\ drafting \in BOOLEAN
RecordNext == Draft \/ (~drafting /\ Next /\ UNCHANGED <<log, drafting>>)
RecordSpec == RecordInit /\ [][RecordNext]_<<vars, log, drafting>>

-----------------------------------------------------------------------------
\* A changelog line belongs to the entry just when a heading names a release above it,
\* no earlier one does, and no heading of that level or a higher one stands between;
\* what an older entry or a fenced block says never counts for the newest release.
EntryIsTopmost ==
  LET Fences(i)  == Cardinality({j \in 1 .. i - 1 : log[j].kind = "fence"})
      Open(i)    == log[i].kind = "heading" /\ Fences(i) % 2 = 0
      Names(i)   == Open(i) /\ log[i].version # None
      Belongs(i) == \E top \in 1 .. i :
        /\ Names(top) /\ \A j \in 1 .. top - 1 : ~Names(j)
        /\ \A j \in top + 1 .. i : Open(j) => log[j].level > log[top].level
  IN \A i \in DOMAIN log : i \in Entry <=> Belongs(i)

\* NFR-008: of a tree on which both gates are green, an install records the very triplet
\* that the topmost changelog entry states, though the release gate takes the hash from
\* the provenance and the installer from the snapshot.
GreenIsReleased ==
  (\E e \in Engines : Green(e)) =>
    \A r \in Records : Releasable(r) =>
      /\ InstallTriplet(r).skill_version \in {r.entry} \cap {r.plugin}
      /\ InstallTriplet(r).engine_pin \in r.pins
      /\ InstallTriplet(r).snapshot_sha256 \in r.hashes
=============================================================================

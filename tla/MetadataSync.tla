------------------------------ MODULE MetadataSync ------------------------------
(***************************************************************************)
(* scripts/sync_metadata.py: publishes the metadata snapshot, the language *)
(* reference, the sidecar skeleton and, last, the provenance file with the *)
(* hashes of what it finds on disk.  Several syncs may run, each in an     *)
(* environment with its own engine, and stop anywhere; the pin and the     *)
(* sidecar are edited while they run.                                      *)
(*                                                                         *)
(* What an engine serves is a function of its version, so a snapshot or a  *)
(* reference is named by the engine it was taken from, and a hash by what  *)
(* was hashed.  Publishing is one step: a temporary file and a rename (or  *)
(* a hard link, which does not replace).                                   *)
(***************************************************************************)
EXTENDS FiniteSets

CONSTANTS
  Engines,    \* versions of the engine
  Served,     \* those with a language reference of a supported major
  Version3,   \* those whose metadata_version is "3.0"
  Examples,   \* per engine, the names of docs.examples
  Syncs,      \* processes that run sync_metadata
  None        \* no file, no pin, no engine installed, nobody

Intents   == UNION {Examples[e] : e \in Engines}
Sidecars  == [intents: SUBSET Intents]   \* the names it describes
Skeleton  == [intents |-> {}]
Provenance == [by: Engines, snapshot: Engines, sidecar: Sidecars, reference: Engines]

ASSUME EnginesAssumption ==
  /\ Served \subseteq Engines /\ Version3 \subseteq Engines
  /\ DOMAIN Examples = Engines
ASSUME NoneAssumption == None \notin Engines \cup Syncs \cup Sidecars \cup Provenance

VARIABLES
  pin,        \* the engine pinned by pyproject.toml
  snapshot,   \* metadata-snapshot.json
  reference,  \* language-reference.json
  sidecar,    \* nl-intents.json
  provenance, \* metadata-snapshot.md
  pc,         \* where each sync is
  engine,     \* the engine each sync took its data from
  hashed,     \* the hashes each sync has taken
  alone       \* the sync since whose start nobody else has acted, or None

files == <<snapshot, reference, sidecar, provenance>>
vars  == <<pin, files, pc, engine, hashed, alone>>

Running == {"snapshot", "reference", "sidecar", "hashSnapshot", "hashSidecar",
            "hashReference", "provenance"}
Blank == [snapshot |-> None, sidecar |-> None, reference |-> None]

-----------------------------------------------------------------------------
Go(s, label) == pc' = [pc EXCEPT ![s] = label]
Steps(s) == alone' = IF alone = s THEN s ELSE None

\* Everything that can be refused is refused before the first file is touched.
Start(s) ==
  /\ pc[s] \notin Running
  /\ \E installed \in Engines \cup {None} :
       \/ /\ installed # pin \/ installed \notin Served
          /\ engine' = [engine EXCEPT ![s] = None]
          /\ Go(s, "idle")
          /\ Steps(s)
       \/ /\ installed = pin /\ installed \in Served
          /\ engine' = [engine EXCEPT ![s] = installed]
          /\ Go(s, "snapshot")
          /\ alone' = IF \A t \in Syncs \ {s} : pc[t] \notin Running THEN s ELSE None
  /\ hashed' = [hashed EXCEPT ![s] = Blank]
  /\ UNCHANGED <<pin, files>>

PublishSnapshot(s) ==
  /\ pc[s] = "snapshot"
  /\ snapshot' = engine[s]
  /\ Go(s, "reference") /\ Steps(s)
  /\ UNCHANGED <<pin, reference, sidecar, provenance, engine, hashed>>

PublishReference(s) ==
  /\ pc[s] = "reference"
  /\ reference' = engine[s]
  /\ Go(s, "sidecar") /\ Steps(s)
  /\ UNCHANGED <<pin, snapshot, sidecar, provenance, engine, hashed>>

\* os.link creates the name or fails: the first writer wins.
\* Mutation: the skeleton is renamed into place like the other files.
PublishSkeleton_Replaces(s) ==
  /\ pc[s] = "sidecar"
  /\ sidecar' = Skeleton
  /\ Go(s, "hashSnapshot") /\ Steps(s)
  /\ UNCHANGED <<pin, snapshot, reference, provenance, engine, hashed>>
PublishSkeleton(s) ==
  /\ pc[s] = "sidecar"
  /\ sidecar' = IF sidecar = None THEN Skeleton ELSE sidecar
  /\ Go(s, "hashSnapshot") /\ Steps(s)
  /\ UNCHANGED <<pin, snapshot, reference, provenance, engine, hashed>>

\* The hashes are those of the bytes on disk, which another sync may have replaced.
Hash(s) ==
  /\ \/ /\ pc[s] = "hashSnapshot" /\ Go(s, "hashSidecar")
        /\ hashed' = [hashed EXCEPT ![s].snapshot = snapshot]
     \/ /\ pc[s] = "hashSidecar" /\ Go(s, "hashReference")
        /\ hashed' = [hashed EXCEPT ![s].sidecar = sidecar]
     \/ /\ pc[s] = "hashReference" /\ Go(s, "provenance")
        /\ hashed' = [hashed EXCEPT ![s].reference = reference]
  /\ Steps(s)
  /\ UNCHANGED <<pin, files, engine>>

\* The versions come from the engine in memory.
\* Mutation: the sidecar is taken to be the skeleton that was to be published.
Described_Skeleton(s) == [by |-> engine[s], snapshot |-> hashed[s].snapshot,
                          sidecar |-> Skeleton, reference |-> hashed[s].reference]
Described(s) == [by |-> engine[s], snapshot |-> hashed[s].snapshot,
                 sidecar |-> hashed[s].sidecar, reference |-> hashed[s].reference]

PublishProvenance(s) ==
  /\ pc[s] = "provenance"
  /\ provenance' = Described(s)
  /\ Go(s, "synced") /\ Steps(s)
  /\ hashed' = [hashed EXCEPT ![s] = Blank]
  /\ UNCHANGED <<pin, snapshot, reference, sidecar, engine>>

\* Killed, or a write failed.
Stop(s) ==
  /\ pc[s] \in Running
  /\ Go(s, "idle") /\ Steps(s)
  /\ engine' = [engine EXCEPT ![s] = None]
  /\ hashed' = [hashed EXCEPT ![s] = Blank]
  /\ UNCHANGED <<pin, files>>

\* A maintainer bumps the pin (or breaks the line), an author writes intents.
Repin ==
  /\ pin' \in Engines \cup {None}
  /\ alone' = None
  /\ UNCHANGED <<files, pc, engine, hashed>>
Describe ==
  /\ sidecar' \in Sidecars
  /\ alone' = None
  /\ UNCHANGED <<pin, snapshot, reference, provenance, pc, engine, hashed>>

Sync(s) == \/ Start(s) \/ PublishSnapshot(s) \/ PublishReference(s) \/ PublishSkeleton(s)
           \/ Hash(s) \/ PublishProvenance(s) \/ Stop(s)

Init ==
  /\ pin \in Engines
  /\ snapshot = None /\ reference = None /\ sidecar = None /\ provenance = None
  /\ pc = [s \in Syncs |-> "idle"]
  /\ engine = [s \in Syncs |-> None]
  /\ hashed = [s \in Syncs |-> Blank]
  /\ alone = None

Next == (\E s \in Syncs : Sync(s)) \/ Repin \/ Describe

Spec == Init /\ [][Next]_vars

-----------------------------------------------------------------------------
(***************************************************************************)
(* scripts/check_snapshot.py, run where `installed` is the engine: every   *)
(* check runs, and the gate is green when none fails.  Files are replaced  *)
(* whole, so they always parse.                                            *)
(***************************************************************************)
\* What the provenance says of the snapshot: its bytes and its versions.
\* Mutation: the bytes are not hashed again.
OtherSnapshot_Trusted == FALSE
OtherSnapshot == provenance.snapshot # snapshot
\* Mutation: the versions are not compared.
OtherVersions_Trusted == FALSE
OtherVersions == provenance.by # snapshot

Fails(installed) ==
  LET snap == snapshot # None  prov == provenance # None
      side == sidecar # None   ref  == reference # None IN
  [pin            |-> pin = None,
   off_pin        |-> installed = None \/ (pin # None /\ installed # pin),
   snapshot       |-> ~snap \/ (installed # None /\ snapshot # installed),
   metadata_3     |-> snap /\ snapshot \notin Version3,
   engine_version |-> snap /\ pin # None /\ snapshot # pin,
   sidecar        |-> ~side,
   provenance     |-> ~prov,
   hash_snapshot  |-> prov /\ snap /\ OtherSnapshot,
   hash_sidecar   |-> prov /\ side /\ provenance.sidecar # sidecar,
   versions       |-> prov /\ snap /\ OtherVersions,
   dangling       |-> side /\ snap /\ ~(sidecar.intents \subseteq Examples[snapshot]),
   reference      |-> ~ref \/ (installed # None /\ reference # installed),
   hash_reference |-> prov /\ ref /\ provenance.reference # reference,
   major          |-> prov /\ provenance.by \notin Served]

Findings(installed) == {check \in DOMAIN Fails(installed) : Fails(installed)[check]}
Green(installed)    == Findings(installed) = {}

-----------------------------------------------------------------------------
\* The type of every variable; a sync past its checks has an engine it can serve.
TypeOK ==
  /\ pin \in Engines \cup {None}
  /\ snapshot \in Engines \cup {None} /\ reference \in Engines \cup {None}
  /\ sidecar \in Sidecars \cup {None}
  /\ provenance \in Provenance \cup {None}
  /\ pc \in [Syncs -> Running \cup {"idle", "synced"}]
  /\ engine \in [Syncs -> Served \cup {None}]
  /\ hashed \in [Syncs -> [snapshot: Engines \cup {None}, sidecar: Sidecars \cup {None},
                           reference: Engines \cup {None}]]
  /\ alone \in Syncs \cup {None}

\* The four files describe one engine: the pinned one, whose reference version the
\* provenance states, though no check compares that version with the reference.
OneEngine(e) ==
  /\ snapshot = e /\ reference = e
  /\ provenance = [by |-> e, snapshot |-> e, sidecar |-> sidecar, reference |-> e]
  /\ sidecar.intents \subseteq Examples[e]

\* However syncs in different environments interleave, whatever they leave when they
\* stop half-way, and whoever edits pin and sidecar meanwhile: a green drift gate means
\* that all four files are of the one pinned engine.
GreenIsOneEngine == \A e \in Engines \cup {None} : Green(e) => e \in Engines /\ pin = e /\ OneEngine(e)

\* Re-running sync repairs: a sync that ended well while nobody else acted leaves a
\* green gate, but for intents that name no example and metadata of another version.
SyncedIsGreen ==
  \A s \in Syncs : alone = s /\ pc[s] = "synced" => Findings(engine[s]) \subseteq {"dangling", "metadata_3"}

\* FR-010: no sync ever changes a sidecar that exists, also when an author made it
\* after the sync had started.
SidecarSurvives == [][sidecar # None /\ sidecar' # sidecar => pc' = pc]_vars
=============================================================================

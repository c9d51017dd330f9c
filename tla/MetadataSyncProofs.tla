-------------------------- MODULE MetadataSyncProofs --------------------------
(***************************************************************************)
(* For any engines, examples and number of syncs: a green drift gate means *)
(* one engine, a sync that nobody disturbs repairs whatever it finds, no   *)
(* sync changes a sidecar, and what is released is what gets installed.    *)
(* For a changelog of any length: the release gate reads its topmost       *)
(* entry.                                                                  *)
(***************************************************************************)
EXTENDS ReleaseRecord, FiniteSetTheorems, TLAPS

USE EnginesAssumption, NoneAssumption, LinesAssumption

\* How far a sync has come: what it has published, and what it has hashed.
Published(file) ==
  CASE file = "snapshot"  -> (Running \cup {"synced"}) \ {"snapshot"}
    [] file = "reference" -> (Running \cup {"synced"}) \ {"snapshot", "reference"}
    [] file = "sidecar"   -> (Running \cup {"synced"}) \ {"snapshot", "reference", "sidecar"}
Hashed(file) ==
  CASE file = "snapshot"  -> {"hashSidecar", "hashReference", "provenance"}
    [] file = "sidecar"   -> {"hashReference", "provenance"}
    [] file = "reference" -> {"provenance"}

\* A sync has an engine from its checks on; no file it published goes away again, and
\* so it has something to hash.
Progress(s) ==
  /\ pc[s] \in Running => engine[s] \in Served
  /\ pc[s] \in Published("snapshot")  => snapshot # None
  /\ pc[s] \in Published("reference") => reference # None
  /\ pc[s] \in Published("sidecar")   => sidecar # None
  /\ pc[s] \in Hashed("snapshot")  => hashed[s].snapshot # None
  /\ pc[s] \in Hashed("sidecar")   => hashed[s].sidecar # None
  /\ pc[s] \in Hashed("reference") => hashed[s].reference # None

\* While nobody else acts, what a sync has published and hashed is what is on disk.
Undisturbed(s) ==
  alone = s /\ pc[s] # "idle" =>
    /\ engine[s] = pin /\ pin \in Served
    /\ pc[s] \in Published("snapshot")  => snapshot = pin
    /\ pc[s] \in Published("reference") => reference = pin
    /\ pc[s] \in Hashed("snapshot")  => hashed[s].snapshot = snapshot
    /\ pc[s] \in Hashed("sidecar")   => hashed[s].sidecar = sidecar
    /\ pc[s] \in Hashed("reference") => hashed[s].reference = reference
    /\ pc[s] = "synced" => provenance = [by |-> pin, snapshot |-> snapshot,
                                         sidecar |-> sidecar, reference |-> reference]

SyncInv == TypeOK /\ \A s \in Syncs : Progress(s) /\ Undisturbed(s)

-----------------------------------------------------------------------------
\* Nothing has been published and nobody is under way.
LEMMA InitSync == Init => SyncInv
<1> SUFFICES ASSUME Init PROVE SyncInv
  OBVIOUS
<1>1. TypeOK
  BY DEF Init, TypeOK, Running, Blank
<1>2. \A s \in Syncs : Progress(s) /\ Undisturbed(s)
  BY DEF Init, Progress, Undisturbed, Published, Hashed, Running
<1>3. QED
  BY <1>1, <1>2 DEF SyncInv

\* Of the syncs, only the one that acts changes its place, its engine and its hashes;
\* and when it acts none of the others is alone.
Alone(s) ==
  /\ \A t \in Syncs \ {s} : pc'[t] = pc[t] /\ engine'[t] = engine[t] /\ hashed'[t] = hashed[t]
  /\ \A t \in Syncs \ {s} : alone' # t

\* The others have lost nothing, for no published file goes away.
LEMMA OthersKeep ==
  ASSUME SyncInv, NEW s \in Syncs, Alone(s), NEW t \in Syncs, t # s,
         snapshot # None => snapshot' # None,
         reference # None => reference' # None,
         sidecar # None => sidecar' # None
  PROVE  Progress(t)' /\ Undisturbed(t)'
<1>1. pc'[t] = pc[t] /\ engine'[t] = engine[t] /\ hashed'[t] = hashed[t] /\ alone' # t
  BY DEF Alone
<1>2. Progress(t)
  BY DEF SyncInv
<1>3. Progress(t)'
  BY <1>1, <1>2 DEF Progress
<1>4. Undisturbed(t)'
  BY <1>1 DEF Undisturbed
<1>5. QED
  BY <1>3, <1>4

\* A start has published and hashed nothing; it is refused or has a served engine.
LEMMA StartKeeps == ASSUME SyncInv, NEW s \in Syncs, Start(s) PROVE SyncInv'
<1>1. TypeOK /\ Progress(s) /\ UNCHANGED <<pin, files>> /\ hashed' = [hashed EXCEPT ![s] = Blank]
  BY DEF SyncInv, Start
<1>2. \/ pc' = [pc EXCEPT ![s] = "idle"] /\ engine' = [engine EXCEPT ![s] = None]
      \/ /\ pc' = [pc EXCEPT ![s] = "snapshot"] /\ engine' = [engine EXCEPT ![s] = pin]
         /\ pin \in Served
  BY DEF Start, Go
<1>3. alone' \in {s, None}
  BY DEF Start, Steps
<1>4. TypeOK'
  <2>1. Blank \in [snapshot: Engines \cup {None}, sidecar: Sidecars \cup {None}, reference: Engines \cup {None}]
    BY DEF Blank
  <2>2. hashed' \in [Syncs -> [snapshot: Engines \cup {None}, sidecar: Sidecars \cup {None},
                               reference: Engines \cup {None}]]
    BY <1>1, <2>1 DEF TypeOK
  <2>3. pc' \in [Syncs -> Running \cup {"idle", "synced"}] /\ engine' \in [Syncs -> Served \cup {None}]
    BY <1>1, <1>2 DEF TypeOK, Running
  <2>4. QED
    BY <1>1, <1>3, <2>2, <2>3 DEF TypeOK, files
<1>5. Alone(s)
  BY <1>1, <1>2, <1>3 DEF Alone, TypeOK
<1>6. Progress(s)'
  BY <1>1, <1>2 DEF Progress, Published, Hashed, Running, TypeOK
<1>7. Undisturbed(s)'
  BY <1>1, <1>2 DEF Undisturbed, Published, Hashed, Running, TypeOK
<1>8. QED
  BY <1>1, <1>4, <1>5, <1>6, <1>7, OthersKeep DEF SyncInv, files

\* The first file published.
LEMMA SnapshotKeeps == ASSUME SyncInv, NEW s \in Syncs, PublishSnapshot(s) PROVE SyncInv'
<1>1. /\ TypeOK /\ Progress(s) /\ Undisturbed(s)
      /\ pc[s] = "snapshot" /\ pc' = [pc EXCEPT ![s] = "reference"]
      /\ snapshot' = engine[s] /\ alone' \in {alone, None} \cap {s, None}
      /\ UNCHANGED <<pin, reference, sidecar, provenance, engine, hashed>>
  BY DEF SyncInv, PublishSnapshot, Go, Steps
<1>2. engine[s] \in Engines /\ engine[s] # None
  BY <1>1 DEF Progress, Running
<1>3. TypeOK'
  BY <1>1, <1>2 DEF TypeOK, Running
<1>4. Alone(s)
  BY <1>1 DEF Alone, TypeOK
<1>5. Progress(s)'
  BY <1>1, <1>2 DEF Progress, Published, Hashed, Running, TypeOK
<1>6. Undisturbed(s)'
  BY <1>1 DEF Undisturbed, Published, Hashed, Running, TypeOK
<1>7. QED
  BY <1>1, <1>2, <1>3, <1>4, <1>5, <1>6, OthersKeep DEF SyncInv

\* The second file published.
LEMMA ReferenceKeeps == ASSUME SyncInv, NEW s \in Syncs, PublishReference(s) PROVE SyncInv'
<1>1. /\ TypeOK /\ Progress(s) /\ Undisturbed(s)
      /\ pc[s] = "reference" /\ pc' = [pc EXCEPT ![s] = "sidecar"]
      /\ reference' = engine[s] /\ alone' \in {alone, None} \cap {s, None}
      /\ UNCHANGED <<pin, snapshot, sidecar, provenance, engine, hashed>>
  BY DEF SyncInv, PublishReference, Go, Steps
<1>2. engine[s] \in Engines /\ engine[s] # None
  BY <1>1 DEF Progress, Running
<1>3. TypeOK'
  BY <1>1, <1>2 DEF TypeOK, Running
<1>4. Alone(s)
  BY <1>1 DEF Alone, TypeOK
<1>5. Progress(s)'
  BY <1>1, <1>2 DEF Progress, Published, Hashed, Running, TypeOK
<1>6. Undisturbed(s)'
  BY <1>1 DEF Undisturbed, Published, Hashed, Running, TypeOK
<1>7. QED
  BY <1>1, <1>2, <1>3, <1>4, <1>5, <1>6, OthersKeep DEF SyncInv

\* The sidecar is there afterwards, old or new.
LEMMA SkeletonKeeps == ASSUME SyncInv, NEW s \in Syncs, PublishSkeleton(s) PROVE SyncInv'
<1>1. /\ TypeOK /\ Progress(s) /\ Undisturbed(s)
      /\ pc[s] = "sidecar" /\ pc' = [pc EXCEPT ![s] = "hashSnapshot"]
      /\ sidecar' = (IF sidecar = None THEN Skeleton ELSE sidecar)
      /\ alone' \in {alone, None} \cap {s, None}
      /\ UNCHANGED <<pin, snapshot, reference, provenance, engine, hashed>>
  BY DEF SyncInv, PublishSkeleton, Go, Steps
<1>2. sidecar' \in Sidecars /\ sidecar' # None
  <2>1. Skeleton \in Sidecars
    BY DEF Skeleton, Sidecars
  <2>2. QED
    BY <1>1, <2>1 DEF TypeOK
<1>3. TypeOK'
  BY <1>1, <1>2 DEF TypeOK, Running
<1>4. Alone(s)
  BY <1>1 DEF Alone, TypeOK
<1>5. Progress(s)'
  BY <1>1, <1>2 DEF Progress, Published, Hashed, Running, TypeOK
<1>6. Undisturbed(s)'
  BY <1>1 DEF Undisturbed, Published, Hashed, Running, TypeOK
<1>7. QED
  BY <1>1, <1>2, <1>3, <1>4, <1>5, <1>6, OthersKeep DEF SyncInv

\* A hash is of a file that is there.
LEMMA HashKeeps == ASSUME SyncInv, NEW s \in Syncs, Hash(s) PROVE SyncInv'
<1>1. /\ TypeOK /\ Progress(s) /\ Undisturbed(s)
      /\ alone' \in {alone, None} \cap {s, None}
      /\ UNCHANGED <<pin, files, engine>>
  BY DEF SyncInv, Hash, Steps
<1>2. \/ /\ pc[s] = "hashSnapshot" /\ pc' = [pc EXCEPT ![s] = "hashSidecar"]
         /\ hashed' = [hashed EXCEPT ![s].snapshot = snapshot]
      \/ /\ pc[s] = "hashSidecar" /\ pc' = [pc EXCEPT ![s] = "hashReference"]
         /\ hashed' = [hashed EXCEPT ![s].sidecar = sidecar]
      \/ /\ pc[s] = "hashReference" /\ pc' = [pc EXCEPT ![s] = "provenance"]
         /\ hashed' = [hashed EXCEPT ![s].reference = reference]
  BY DEF Hash, Go
<1>3. TypeOK'
  BY <1>1, <1>2 DEF TypeOK, Running, files
<1>4. Alone(s)
  BY <1>1, <1>2 DEF Alone, TypeOK
<1>5. Progress(s)'
  BY <1>1, <1>2 DEF Progress, Published, Hashed, Running, TypeOK, files
<1>6. Undisturbed(s)'
  BY <1>1, <1>2 DEF Undisturbed, Published, Hashed, Running, TypeOK, files
<1>7. QED
  BY <1>1, <1>3, <1>4, <1>5, <1>6, OthersKeep DEF SyncInv, files

\* What is published states the hashes that were taken.
LEMMA ProvenanceKeeps == ASSUME SyncInv, NEW s \in Syncs, PublishProvenance(s) PROVE SyncInv'
<1>1. /\ TypeOK /\ Progress(s) /\ Undisturbed(s)
      /\ pc[s] = "provenance" /\ pc' = [pc EXCEPT ![s] = "synced"]
      /\ provenance' = Described(s) /\ hashed' = [hashed EXCEPT ![s] = Blank]
      /\ alone' \in {alone, None} \cap {s, None}
      /\ UNCHANGED <<pin, snapshot, reference, sidecar, engine>>
  BY DEF SyncInv, PublishProvenance, Go, Steps
<1>2. Described(s) \in Provenance
  <2>1. engine[s] \in Engines
    BY <1>1 DEF Progress, Running
  <2>2. /\ hashed[s].snapshot \in Engines /\ hashed[s].sidecar \in Sidecars
        /\ hashed[s].reference \in Engines
    BY <1>1 DEF Progress, Hashed, TypeOK
  <2>3. QED
    BY <2>1, <2>2 DEF Described, Provenance
<1>3. TypeOK'
  BY <1>1, <1>2 DEF TypeOK, Running, Blank
<1>4. Alone(s)
  BY <1>1 DEF Alone, TypeOK
<1>5. Progress(s)'
  BY <1>1 DEF Progress, Published, Hashed, Running, TypeOK
<1>6. Undisturbed(s)'
  <2> SUFFICES ASSUME alone' = s PROVE Undisturbed(s)'
    BY DEF Undisturbed
  <2>1. alone = s
    BY <1>1
  <2>2. /\ engine[s] = pin /\ pin \in Served /\ snapshot = pin /\ reference = pin
        /\ hashed[s].snapshot = snapshot /\ hashed[s].sidecar = sidecar
        /\ hashed[s].reference = reference
    BY <1>1, <2>1 DEF Undisturbed, Published, Hashed, Running
  <2>3. pc'[s] = "synced"
    BY <1>1 DEF TypeOK
  <2>4. provenance' = [by |-> pin, snapshot |-> snapshot, sidecar |-> sidecar, reference |-> reference]
    BY <1>1, <2>2 DEF Described
  <2>5. QED
    BY <1>1, <2>2, <2>3, <2>4 DEF Undisturbed, Hashed
<1>7. QED
  BY <1>1, <1>3, <1>4, <1>5, <1>6, OthersKeep DEF SyncInv

\* A sync that stops forgets what it has hashed; its files stay.
LEMMA StopKeeps == ASSUME SyncInv, NEW s \in Syncs, Stop(s) PROVE SyncInv'
<1>1. /\ TypeOK /\ Progress(s)
      /\ pc' = [pc EXCEPT ![s] = "idle"] /\ engine' = [engine EXCEPT ![s] = None]
      /\ hashed' = [hashed EXCEPT ![s] = Blank] /\ alone' \in {alone, None} \cap {s, None}
      /\ UNCHANGED <<pin, files>>
  BY DEF SyncInv, Stop, Go, Steps
<1>2. TypeOK'
  BY <1>1 DEF TypeOK, Running, Blank, files
<1>3. Alone(s)
  BY <1>1 DEF Alone, TypeOK
<1>4. Progress(s)' /\ Undisturbed(s)'
  BY <1>1 DEF Progress, Undisturbed, Published, Hashed, Running, TypeOK
<1>5. QED
  BY <1>1, <1>2, <1>3, <1>4, OthersKeep DEF SyncInv, files

\* Nobody is alone when the pin or the sidecar is edited.
LEMMA OthersEdit == ASSUME SyncInv, Repin \/ Describe PROVE SyncInv'
<1>1. /\ TypeOK /\ alone' = None /\ pin' \in Engines \cup {None}
      /\ sidecar' = sidecar \/ sidecar' \in Sidecars
      /\ UNCHANGED <<snapshot, reference, provenance, pc, engine, hashed>>
  BY DEF Repin, Describe, SyncInv, TypeOK, files
<1>2. TypeOK'
  BY <1>1 DEF TypeOK
<1>3. ASSUME NEW s \in Syncs PROVE Progress(s)' /\ Undisturbed(s)'
  <2>1. Progress(s) /\ sidecar # None => sidecar' # None
    BY <1>1 DEF SyncInv
  <2>2. s # None
    OBVIOUS
  <2>3. QED
    BY <1>1, <2>1, <2>2 DEF SyncInv, Progress, Undisturbed
<1>4. QED
  BY <1>2, <1>3 DEF SyncInv

\* Every step of a sync, an author or a maintainer, and every stutter.
LEMMA NextSync == ASSUME SyncInv, [RecordNext]_<<vars, log, drafting>> PROVE SyncInv'
<1>1. CASE Next
  <2>1. CASE \E s \in Syncs : Sync(s)
    BY <2>1, StartKeeps, SnapshotKeeps, ReferenceKeeps, SkeletonKeeps, HashKeeps, ProvenanceKeeps,
       StopKeeps DEF Sync
  <2>2. QED
    BY <1>1, <2>1, OthersEdit DEF Next
<1>2. CASE UNCHANGED vars
  BY <1>2 DEF vars, files, SyncInv, TypeOK, Progress, Undisturbed
<1>3. QED
  BY <1>1, <1>2 DEF RecordNext, Draft

\* The invariant holds throughout.
THEOREM SyncInvariant == RecordSpec => []SyncInv
<1>1. RecordInit => SyncInv
  BY InitSync DEF RecordInit
<1>2. SyncInv /\ [RecordNext]_<<vars, log, drafting>> => SyncInv'
  BY NextSync
<1>3. QED
  BY <1>1, <1>2, PTL DEF RecordSpec

\* Every variable keeps its type: no provenance states a file that was not there.
THEOREM SyncTypes == RecordSpec => []TypeOK
<1>1. SyncInv => TypeOK
  BY DEF SyncInv
<1>2. QED
  BY <1>1, SyncInvariant, PTL

-----------------------------------------------------------------------------
\* The checks of the drift gate by name.
Checks == {"pin", "off_pin", "snapshot", "metadata_3", "engine_version", "sidecar", "provenance",
           "hash_snapshot", "hash_sidecar", "versions", "dangling", "reference", "hash_reference",
           "major"}

\* The checks of the gate, by name.
LEMMA ChecksAreAll == ASSUME NEW e PROVE DOMAIN Fails(e) = Checks
BY DEF Fails, Checks

\* A green gate has seen none of its checks fail.
LEMMA GreenMeansNone == ASSUME NEW e, Green(e), NEW c \in Checks PROVE ~Fails(e)[c]
BY ChecksAreAll DEF Green, Findings

\* A green gate leaves one engine that all files can be of.
LEMMA OneEngineOnly ==
  ASSUME TypeOK, NEW e \in Engines \cup {None}, Green(e)
  PROVE  e \in Engines /\ pin = e /\ OneEngine(e)
<1>1. pin # None /\ e # None /\ e = pin
  <2>1. ~Fails(e)["pin"] /\ ~Fails(e)["off_pin"]
    BY GreenMeansNone DEF Checks
  <2>2. QED
    BY <2>1 DEF Fails
<1>2. snapshot = e /\ reference = e
  <2>1. ~Fails(e)["snapshot"] /\ ~Fails(e)["reference"]
    BY GreenMeansNone DEF Checks
  <2>2. QED
    BY <1>1, <2>1 DEF Fails
<1>3. sidecar # None /\ provenance # None
  <2>1. ~Fails(e)["sidecar"] /\ ~Fails(e)["provenance"]
    BY GreenMeansNone DEF Checks
  <2>2. QED
    BY <2>1 DEF Fails
<1>4. /\ provenance.snapshot = snapshot /\ provenance.by = snapshot
      /\ provenance.sidecar = sidecar /\ provenance.reference = reference
  <2>1. /\ ~Fails(e)["hash_snapshot"] /\ ~Fails(e)["versions"]
        /\ ~Fails(e)["hash_sidecar"] /\ ~Fails(e)["hash_reference"]
    BY GreenMeansNone DEF Checks
  <2>2. QED
    BY <1>1, <1>2, <1>3, <2>1 DEF Fails, OtherSnapshot, OtherVersions
<1>5. sidecar.intents \subseteq Examples[e]
  <2>1. ~Fails(e)["dangling"]
    BY GreenMeansNone DEF Checks
  <2>2. QED
    BY <1>1, <1>2, <1>3, <2>1 DEF Fails
<1>6. provenance \in Provenance
  BY <1>3 DEF TypeOK
<1>7. provenance = [by |-> e, snapshot |-> e, sidecar |-> sidecar, reference |-> e]
  BY <1>2, <1>4, <1>6 DEF Provenance
<1>8. QED
  BY <1>1, <1>2, <1>5, <1>7 DEF OneEngine

\* However syncs interleave and stop, a green drift gate means that all four files are of
\* the one pinned engine.
THEOREM DriftGateIsSound == RecordSpec => []GreenIsOneEngine
<1>1. TypeOK => GreenIsOneEngine
  BY OneEngineOnly DEF GreenIsOneEngine
<1>2. QED
  BY <1>1, SyncTypes, PTL

\* A sync that nobody disturbs leaves a green gate, but for what only an author or the
\* engine can repair.
THEOREM SyncRepairs == RecordSpec => []SyncedIsGreen
<1>1. ASSUME SyncInv PROVE SyncedIsGreen
  <2> SUFFICES ASSUME NEW s \in Syncs, alone = s, pc[s] = "synced",
                      NEW c \in Findings(engine[s])
               PROVE  c \in {"dangling", "metadata_3"}
    BY DEF SyncedIsGreen
  <2>1. Progress(s) /\ Undisturbed(s) /\ TypeOK
    BY <1>1 DEF SyncInv
  <2>2. /\ engine[s] = pin /\ pin \in Served /\ snapshot = pin /\ reference = pin
        /\ sidecar # None
        /\ provenance = [by |-> pin, snapshot |-> snapshot, sidecar |-> sidecar, reference |-> reference]
    <3>1. pc[s] \in Published("snapshot") /\ pc[s] \in Published("reference") /\ pc[s] \in Published("sidecar")
      BY DEF Published, Running
    <3>2. sidecar # None
      BY <2>1, <3>1 DEF Progress
    <3>3. /\ engine[s] = pin /\ pin \in Served /\ snapshot = pin /\ reference = pin
          /\ provenance = [by |-> pin, snapshot |-> snapshot, sidecar |-> sidecar, reference |-> reference]
      BY <2>1, <3>1 DEF Undisturbed
    <3>4. QED
      BY <3>2, <3>3
  <2>3. pin # None /\ pin \in Engines
    BY <2>2
  <2>4. provenance # None
    <3>1. sidecar \in Sidecars
      BY <2>1, <2>2 DEF TypeOK
    <3>2. provenance \in Provenance
      BY <2>2, <2>3, <3>1 DEF Provenance
    <3>3. QED
      BY <3>2
  <2>5. /\ provenance.by = pin /\ provenance.snapshot = snapshot
        /\ provenance.sidecar = sidecar /\ provenance.reference = reference
    BY <2>2
  <2>6. c \in Checks /\ Fails(engine[s])[c]
    BY ChecksAreAll DEF Findings
  <2>7. /\ ~Fails(engine[s])["pin"] /\ ~Fails(engine[s])["off_pin"]
        /\ ~Fails(engine[s])["snapshot"] /\ ~Fails(engine[s])["engine_version"]
        /\ ~Fails(engine[s])["sidecar"] /\ ~Fails(engine[s])["provenance"]
    BY <2>2, <2>3, <2>4 DEF Fails
  <2>8. /\ ~Fails(engine[s])["hash_snapshot"] /\ ~Fails(engine[s])["hash_sidecar"]
        /\ ~Fails(engine[s])["versions"] /\ ~Fails(engine[s])["reference"]
        /\ ~Fails(engine[s])["hash_reference"] /\ ~Fails(engine[s])["major"]
    BY <2>2, <2>3, <2>4, <2>5 DEF Fails, OtherSnapshot, OtherVersions
  <2>9. QED
    BY <2>6, <2>7, <2>8 DEF Checks
<1>2. QED
  BY <1>1, SyncInvariant, PTL

\* No sync changes a sidecar that exists.
THEOREM SidecarIsKept == RecordSpec => SidecarSurvives
<1> DEFINE Kept == sidecar # None /\ sidecar' # sidecar => pc' = pc
<1>1. ASSUME [RecordNext]_<<vars, log, drafting>> PROVE [Kept]_vars
  <2> SUFFICES ASSUME sidecar # None, sidecar' # sidecar PROVE pc' = pc
    OBVIOUS
  <2>1. Next
    BY <1>1 DEF RecordNext, Draft, vars, files
  <2>2. ASSUME NEW s \in Syncs, Sync(s) PROVE FALSE
    BY <2>2 DEF Sync, Start, PublishSnapshot, PublishReference, PublishSkeleton, Hash,
                PublishProvenance, Stop, files
  <2>3. QED
    BY <2>1, <2>2 DEF Next, Repin, Describe, files
<1>2. QED
  BY <1>1, PTL DEF RecordSpec, SidecarSurvives

\* Of a tree on which both gates are green, an install records what the topmost entry of
\* the changelog states.
THEOREM WhatIsReleased == RecordSpec => []GreenIsReleased
<1>1. ASSUME TypeOK PROVE GreenIsReleased
  <2> SUFFICES ASSUME NEW e \in Engines, Green(e), NEW r \in Records, Releasable(r)
               PROVE  /\ InstallTriplet(r).skill_version \in {r.entry} \cap {r.plugin}
                      /\ InstallTriplet(r).engine_pin \in r.pins
                      /\ InstallTriplet(r).snapshot_sha256 \in r.hashes
    BY DEF GreenIsReleased
  <2>1. pin = e /\ snapshot = e /\ provenance.snapshot = e
    <3>1. pin = e /\ OneEngine(e)
      BY <1>1, OneEngineOnly
    <3>2. QED
      BY <3>1 DEF OneEngine
  <2>2. /\ ~ReleaseFails(r)["entry"] /\ ~ReleaseFails(r)["version"] /\ ~ReleaseFails(r)["pin"]
        /\ ~ReleaseFails(r)["hash"] /\ ~ReleaseFails(r)["plugin"]
    BY DEF Releasable, ReleaseFails
  <2>3. r.entry = r.project /\ r.plugin = r.project /\ pin \in r.pins /\ provenance.snapshot \in r.hashes
    BY <2>2 DEF ReleaseFails
  <2>4. QED
    BY <2>1, <2>3 DEF InstallTriplet
<1>2. QED
  BY <1>1, SyncTypes, PTL

-----------------------------------------------------------------------------
(***************************************************************************)
(* The topmost entry of the changelog.                                     *)
(***************************************************************************)
\* A set of natural numbers that is not empty has a least element.
LEMMA LeastIsLeast ==
  ASSUME NEW S \in SUBSET Nat, S # {}
  PROVE  Least(S) \in S /\ \A j \in S : Least(S) <= j
<1>1. PICK i \in S : \A j \in S : ~(<<j, i>> \in OpToRel(<, Nat))
  BY NatLessThanWellFounded, WFMin, Zenon
<1>2. \A j \in S : ~(j < i)
  BY <1>1, Zenon DEF OpToRel
<1>3. \A j \in S : i <= j
  BY <1>2
<1>4. QED
  BY <1>3 DEF Least

\* The fences above a line, and how many they are.
FencesAbove(i) == {j \in 1 .. i - 1 : log[j].kind = "fence"}
Fences(i)      == Cardinality(FencesAbove(i))

\* The fences are counted line by line.
LEMMA FencesCount ==
  ASSUME NEW i \in Nat, i > 0
  PROVE  /\ Fences(i) \in Nat
         /\ Fences(1) = 0
         /\ Fences(i + 1) = IF log[i].kind = "fence" THEN Fences(i) + 1 ELSE Fences(i)
<1>1. FencesAbove(1) = {}
  BY DEF FencesAbove
<1>2. IsFiniteSet(FencesAbove(i))
  <2>1. IsFiniteSet(1 .. i - 1)
    BY FS_Interval
  <2>2. FencesAbove(i) \in SUBSET (1 .. i - 1)
    BY DEF FencesAbove
  <2>3. QED
    BY <2>1, <2>2, FS_Subset
<1>3. i \notin FencesAbove(i)
  BY DEF FencesAbove
<1>4. FencesAbove(i + 1) = IF log[i].kind = "fence" THEN FencesAbove(i) \cup {i} ELSE FencesAbove(i)
  BY DEF FencesAbove
<1>5. Fences(1) = 0
  BY <1>1, FS_EmptySet DEF Fences
<1>6. Fences(i) \in Nat
  BY <1>2, FS_CardinalityType DEF Fences
<1>7. Fences(i + 1) = IF log[i].kind = "fence" THEN Fences(i) + 1 ELSE Fences(i)
  <2>1. Cardinality(FencesAbove(i) \cup {i}) = Cardinality(FencesAbove(i)) + 1
    BY <1>2, <1>3, FS_AddElement
  <2>2. QED
    BY <1>4, <2>1 DEF Fences
<1>8. QED
  BY <1>5, <1>6, <1>7

\* One line: the flag is toggled by a fence and kept by any other line.
Toggled(f, i) == i > 1 /\ IF log[i - 1].kind = "fence" THEN ~f[i - 1] ELSE f[i - 1]

\* The flag of the scan says whether the fences above a line are odd in number: that many
\* is a solution of its recursive definition, and it has no other.
LEMMA FencedIsOdd ==
  ASSUME log \in Seq(Lines), NEW i \in 1 .. Len(log) + 1
  PROVE  Fenced[i] <=> Fences(i) % 2 = 1
<1> DEFINE D == 1 .. Len(log) + 1
           odd == [k \in D |-> Fences(k) % 2 = 1]
<1>1. Len(log) \in Nat
  OBVIOUS
<1>2. ASSUME NEW k \in D PROVE odd[k] = Toggled(odd, k)
  <2>1. CASE k = 1
    <3>1. Fences(1) = 0
      BY FencesCount
    <3>2. Fences(k) % 2 # 1
      BY <2>1, <3>1
    <3>3. QED
      BY <2>1, <3>2 DEF Toggled
  <2>2. CASE k > 1
    <3> DEFINE h == k - 1
    <3>1. h \in Nat /\ h > 0 /\ h \in D /\ k = h + 1
      BY <1>1, <2>2
    <3> HIDE DEF h
    <3>2. /\ Fences(h) \in Nat
          /\ Fences(k) = IF log[h].kind = "fence" THEN Fences(h) + 1 ELSE Fences(h)
      BY <3>1, FencesCount
    <3>3. (Fences(k) % 2 = 1) = IF log[h].kind = "fence" THEN ~(Fences(h) % 2 = 1) ELSE Fences(h) % 2 = 1
      BY <3>2
    <3>4. k - 1 = h
      BY <3>1
    <3>5. odd[k] = (Fences(k) % 2 = 1) /\ odd[h] = (Fences(h) % 2 = 1)
      BY <3>1
    <3> HIDE DEF odd
    <3>6. QED
      BY <2>2, <3>3, <3>4, <3>5 DEF Toggled
  <2>3. QED
    BY <1>1, <2>1, <2>2
<1>3. odd = [k \in D |-> Toggled(odd, k)]
  <2>1. [k \in D |-> odd[k]] = [k \in D |-> Toggled(odd, k)]
    BY <1>2, Zenon
  <2>2. odd = [k \in D |-> odd[k]]
    OBVIOUS
  <2>3. QED
    BY <2>1, <2>2
<1>4. Fenced = CHOOSE f : f = [k \in D |-> Toggled(f, k)]
  BY Zenon DEF Fenced, Toggled
<1> HIDE DEF odd
<1>5. Fenced = [k \in D |-> Toggled(Fenced, k)]
  BY <1>3, <1>4, Zenon
<1>6. \A k \in D : Fenced[k] = Toggled(Fenced, k)
  BY <1>5, Zenon
<1>7. \A k \in D : Fenced[k] = odd[k]
  <2> DEFINE Differ == {k \in D : Fenced[k] # odd[k]}
  <2> SUFFICES ASSUME Differ # {} PROVE FALSE
    BY Zenon
  <2>1. PICK m \in Differ : \A j \in Differ : m <= j
    <3>1. Differ \in SUBSET Nat
      BY <1>1
    <3>2. Least(Differ) \in Differ /\ \A j \in Differ : Least(Differ) <= j
      BY <3>1, LeastIsLeast
    <3>3. QED
      BY <3>2
  <2>2. m \in D /\ Fenced[m] # odd[m]
    BY <2>1
  <2>3. CASE m = 1
    <3>1. Toggled(Fenced, 1) = FALSE /\ Toggled(odd, 1) = FALSE
      BY DEF Toggled
    <3>2. QED
      BY <1>2, <1>6, <2>2, <2>3, <3>1, Zenon
  <2>4. CASE m # 1
    <3>1. m > 1 /\ m - 1 \in D /\ ~(m <= m - 1)
      BY <1>1, <2>2, <2>4
    <3>2. Fenced[m - 1] = odd[m - 1]
      BY <2>1, <3>1, Zenon
    <3>3. Toggled(Fenced, m) = Toggled(odd, m)
      BY <3>2, Zenon DEF Toggled
    <3>4. QED
      BY <1>2, <1>6, <2>2, <3>3, Zenon
  <2>5. QED
    BY <2>3, <2>4
<1>8. odd[i] = (Fences(i) % 2 = 1)
  BY DEF odd
<1>9. QED
  BY <1>7, <1>8, Zenon

\* A line is a heading, a fence or text; a heading that is not fenced has an even number
\* of fences above it.
LEMMA HeadingIsOpen ==
  ASSUME log \in Seq(Lines), NEW i \in DOMAIN log
  PROVE  /\ Heading(i) <=> log[i].kind = "heading" /\ Fences(i) % 2 = 0
         /\ Heading(i) => log[i].level \in Nat
<1>1. Len(log) \in Nat /\ DOMAIN log = 1 .. Len(log) /\ i \in 1 .. Len(log) + 1 /\ i \in Nat /\ i > 0
  OBVIOUS
<1>2. Fenced[i] <=> Fences(i) % 2 = 1
  BY <1>1, FencedIsOdd
<1>3. Fences(i) \in Nat
  BY <1>1, FencesCount
<1>4. Fences(i) % 2 = 0 <=> ~(Fences(i) % 2 = 1)
  BY <1>3
<1>5. log[i] \in Lines
  OBVIOUS
<1>6. log[i].kind = "heading" => log[i].level \in Nat
  BY <1>5 DEF Lines, Headings
<1>7. QED
  BY <1>2, <1>4, <1>6 DEF Heading

\* The lines that could open the entry, and those that would end it.
Starts   == {i \in DOMAIN log : Heading(i) /\ log[i].version # None}
Ends(i)  == {j \in i + 1 .. Len(log) : Heading(j) /\ Closes(i, j)}
Last(i)  == IF Ends(i) = {} THEN Len(log) ELSE Least(Ends(i)) - 1

\* A line has a heading that may open the entry, none before, and none since of its level
\* or a higher one.
Belonging(i) ==
  \E top \in 1 .. i :
    /\ top \in Starts /\ \A j \in 1 .. top - 1 : j \notin Starts
    /\ \A j \in top + 1 .. i : Heading(j) => ~Closes(top, j)

\* The two scans of find_release_entry, for its start and for its end, find these lines.
LEMMA ScansAgree ==
  ASSUME log \in Seq(Lines), NEW i \in DOMAIN log
  PROVE  i \in Entry <=> Belonging(i)
<1>1. Len(log) \in Nat /\ DOMAIN log = 1 .. Len(log) /\ i \in 1 .. Len(log)
  OBVIOUS
<1>2. CASE Starts = {}
  <2>1. Entry = {}
    BY <1>2 DEF Entry, Starts
  <2>2. QED
    BY <1>2, <2>1 DEF Belonging
<1>3. CASE Starts # {}
  <2> DEFINE m == Least(Starts)
  <2>1. m \in Starts /\ \A j \in Starts : m <= j
    <3>1. Starts \in SUBSET Nat
      BY <1>1 DEF Starts
    <3>2. QED
      BY <1>3, <3>1, LeastIsLeast
  <2>2. Entry = m .. Last(m)
    BY <1>3 DEF Entry, Starts, Ends, Last
  <2> HIDE DEF m
  <2>3. m \in 1 .. Len(log)
    BY <1>1, <2>1 DEF Starts
  <2>4. i \in m .. Last(m) <=> m <= i /\ \A j \in m + 1 .. i : j \notin Ends(m)
    <3>1. CASE Ends(m) = {}
      BY <1>1, <2>3, <3>1 DEF Last
    <3>2. CASE Ends(m) # {}
      <4> DEFINE l == Least(Ends(m))
      <4>1. l \in Ends(m) /\ \A j \in Ends(m) : l <= j
        <5>1. Ends(m) \in SUBSET Nat
          BY <1>1, <2>3 DEF Ends
        <5>2. QED
          BY <3>2, <5>1, LeastIsLeast
      <4>2. Last(m) = l - 1
        BY <3>2 DEF Last
      <4> HIDE DEF l
      <4>3. l \in m + 1 .. Len(log)
        BY <4>1 DEF Ends
      <4>4. ASSUME i <= l - 1, NEW j \in m + 1 .. i PROVE j \notin Ends(m)
        <5>1. ~(l <= j)
          BY <1>1, <2>3, <4>3, <4>4
        <5>2. QED
          BY <4>1, <5>1
      <4>5. ASSUME m <= i, ~(i <= l - 1) PROVE l \in m + 1 .. i
        BY <1>1, <2>3, <4>3, <4>5
      <4>6. QED
        BY <1>1, <2>3, <4>1, <4>2, <4>3, <4>4, <4>5
    <3>3. QED
      BY <3>1, <3>2
  <2>5. \A j \in m + 1 .. i : j \notin Ends(m) <=> (Heading(j) => ~Closes(m, j))
    BY <1>1, <2>3 DEF Ends
  <2>6. ASSUME m <= i, \A j \in m + 1 .. i : j \notin Ends(m) PROVE Belonging(i)
    <3>1. m \in 1 .. i
      BY <1>1, <2>3, <2>6
    <3>2. \A j \in 1 .. m - 1 : j \notin Starts
      BY <2>1, <2>3
    <3>3. QED
      BY <2>1, <2>5, <2>6, <3>1, <3>2 DEF Belonging
  <2>7. ASSUME Belonging(i) PROVE m <= i /\ \A j \in m + 1 .. i : j \notin Ends(m)
    <3>1. PICK top \in 1 .. i :
            /\ top \in Starts /\ \A j \in 1 .. top - 1 : j \notin Starts
            /\ \A j \in top + 1 .. i : Heading(j) => ~Closes(top, j)
      BY <2>7 DEF Belonging
    <3>2. m <= top /\ ~(m \in 1 .. top - 1)
      BY <2>1, <3>1
    <3>3. top = m
      BY <1>1, <2>3, <3>1, <3>2
    <3>4. QED
      BY <1>1, <2>5, <3>1, <3>3
  <2>8. QED
    BY <2>2, <2>4, <2>6, <2>7
<1>4. QED
  BY <1>2, <1>3

\* The changelog stays a sequence of lines.
LEMMA LogTypes == RecordSpec => [](log \in Seq(Lines))
<1>1. RecordInit => log \in Seq(Lines)
  BY DEF RecordInit
<1>2. log \in Seq(Lines) /\ [RecordNext]_<<vars, log, drafting>> => (log \in Seq(Lines))'
  BY DEF RecordNext, Draft
<1>3. QED
  BY <1>1, <1>2, PTL DEF RecordSpec

\* Whatever a changelog holds, the entry that the release gate reads is the newest one: its
\* lines are those from the topmost heading of a release up to the next heading of its level
\* or a higher one, and a heading in a fenced block is none.
THEOREM NewestEntryIsRead == RecordSpec => []EntryIsTopmost
<1>1. ASSUME log \in Seq(Lines) PROVE EntryIsTopmost
  <2>1. ASSUME NEW i \in DOMAIN log
        PROVE  Belonging(i) <=>
                 \E top \in 1 .. i :
                   /\ log[top].kind = "heading" /\ Fences(top) % 2 = 0 /\ log[top].version # None
                   /\ \A j \in 1 .. top - 1 :
                        ~(log[j].kind = "heading" /\ Fences(j) % 2 = 0 /\ log[j].version # None)
                   /\ \A j \in top + 1 .. i :
                        log[j].kind = "heading" /\ Fences(j) % 2 = 0 => log[j].level > log[top].level
    <3>1. Len(log) \in Nat /\ DOMAIN log = 1 .. Len(log) /\ \A j \in 1 .. i : j \in DOMAIN log
      BY <1>1, <2>1
    <3>2. ASSUME NEW j \in 1 .. i
          PROVE  j \in Starts <=> log[j].kind = "heading" /\ Fences(j) % 2 = 0 /\ log[j].version # None
      BY <1>1, <3>1, HeadingIsOpen DEF Starts
    <3>3. ASSUME NEW top \in 1 .. i, top \in Starts, NEW j \in top + 1 .. i
          PROVE  (Heading(j) => ~Closes(top, j)) <=>
                 (log[j].kind = "heading" /\ Fences(j) % 2 = 0 => log[j].level > log[top].level)
      <4>1. j \in DOMAIN log /\ top \in DOMAIN log /\ Heading(top)
        BY <3>1, <3>3 DEF Starts
      <4>2. /\ Heading(j) <=> log[j].kind = "heading" /\ Fences(j) % 2 = 0
            /\ Heading(j) => log[j].level \in Nat
        BY <1>1, <4>1, HeadingIsOpen
      <4>3. log[top].level \in Nat
        BY <1>1, <4>1, HeadingIsOpen
      <4>4. Heading(j) => (~Closes(top, j) <=> log[j].level > log[top].level)
        BY <4>2, <4>3 DEF Closes
      <4>5. QED
        BY <4>2, <4>4
    <3>4. \A top \in 1 .. i : \A j \in 1 .. top - 1 : j \in 1 .. i
      BY <3>1, <2>1
    <3>5. QED
      BY <3>2, <3>3, <3>4 DEF Belonging
  <2>2. QED
    BY <1>1, <2>1, ScansAgree DEF EntryIsTopmost, Fences, FencesAbove
<1>2. QED
  BY <1>1, LogTypes, PTL
=============================================================================

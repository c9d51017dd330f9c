# A verification development for transon-authoring

The repository ships a skill with which an agent authors Transon templates together with a
user, and the Python module `transon_authoring` that decides, mechanically, whether a template
does what confirmed samples say. Around them: installers, scripts that vendor the engine's
metadata, an evaluation harness, and gates for the project's own documents. This directory
holds TLA+ models of the parts whose order of steps matters, the TLC runs that check them, and
TLAPS proofs of the results that matter most.

Paths below are relative to the repository root. `PROJECT.json` maps every definition to the
lines it stands for.

## 1. Inventory

| Part | Code | State it keeps | Operations | Interacts with |
|---|---|---|---|---|
| Command line | `src/transon_authoring/__main__.py` | none between runs; stdout and exit code | `check-samples`, `validate`, `dry-run`, `verify`, `result`, `init-config`, lookups | everything below; called by the agent |
| Ingress | `_ingress.py` | none | strict JSON, schema version, JSON Schema | called before each handler |
| Sample check | `samples.py` | none (pure) | `check_samples`, `content_fingerprint` | first stage of `verify` |
| Verify pipeline | `verify.py` | results and errors of one run | four stages, one worker per case | starts workers, waits, kills, reaps |
| Dry-run worker | `_worker.py` | one request, one answer | `run_request` | pipes and exit status of the parent |
| Value tags and matcher | `_tags.py`, `match.py` | none (pure, recursive) | encode, decode, walk | worker and match stage |
| Config file | `config.py`, `init-config` | `.transon-authoring.json` | create, replace, load, resolve | concurrent runs in one directory |
| Skill | `skills/transon-authoring/SKILL.md` | SampleSet file, template file, repair count | sample loop, draft, verify and repair, review, result | user, command line, other editors of the files |
| Id ledger gate | `harness/scripts/check_append_only_ids.py` | `docs/id-ledger.json` | gate, `--update` | contract docs, git, other runs |
| Installers | `install/_shared.py`, `claude.py`, `cursor.py` | files and manifest in a host directory | install, upgrade, uninstall | user of the directory, source tree, rehearsal |
| Install and release checks | `scripts/check_install.py` | a temporary directory; findings | rehearsal of the installer, release record | installers, changelog, provenance |
| Snapshot sync | `scripts/sync_metadata.py`, `check_snapshot.py` | snapshot, reference, sidecar, provenance | publish, hash, compare | engine, pin, other syncs, authors |
| Eval host and harness | `scripts/host_harness.py`, `eval_harness.py`, `local_eval.py` | one episode, its budget and log | turns, tools, review follow-up | model provider, command line, eval gates |
| Eval gates | `scripts/check_evals.py` | `evals/baseline.json` | lint, score, aggregate, record | fixtures, episodes |
| Fixture generator | `scripts/gen_fixtures.py` | none (pure) | regenerate fixtures from seeds | lint of the eval gates |
| Other checks | `check_parity.py`, `check_traceability.py`, `update_memory.py`, key proxy, run summaries | none, or an agent's note file | compare, report | |

What is hard about it:

* **Two processes and a clock.** Each case runs in its own process; it may answer, crash, hang,
  write nonsense, or finish just when its five seconds run out.
* **Files shared without locks.** SampleSet, template, config, ledger and snapshot are read,
  thought about, and written back; somebody else may write in between, or the writer may die.
* **A long protocol with a memory.** What is delivered at the end of a session must rest on a
  confirmation given long before, through edits, repairs and reviews.
* **Two computations of one decision.** `check_samples` computes flags and gaps apart.

What makes each part correct:

* *Pipeline*: success is earned; no engine run behind a failed stage; every case accounted for
  once; errors blame the right party; no process left behind; one answer, always.
* *Sample check*: nothing counts as evidence that is not; every stop has a reason to present;
  adding evidence never hurts.
* *Session*: what is delivered as matched was shown and confirmed (but for the gap of section 6)
  and is true of the delivered pair; the budget holds; a run without a user ends.
* *Config file*: never clobbered without `--force`, never torn once readable, no litter, exit 0
  is the truth.
* *Ledger*: append-only, free of gaps, and the gate forgets nothing.
* *Tags and matcher*: a diff is empty just when the values are the same, types included.
* *Installers*: no file without an owner; the manifest commits a complete copy; nothing but
  listed files is touched; the rehearsal judges the tree rightly.
* *Sync and release*: a green gate means one engine, all through; a sync repairs; authored work
  is never overwritten; what is released is what the changelog states.
* *Eval*: who is blamed for an episode; a green run is a measurement; the baseline is earned; the
  budget is hard.

## 2. Modules

```
Verdicts                 vocabulary: requests, outcomes, answers, permitted answers
 |- VerdictContract      abstract: one permitted answer, once, and it comes
 |- VerifyPipeline       detailed: parent, stages, worker process, clock
 |    |- VerifyPipelineProofs
 |    '- MCVerify
CheckSamples             check_samples and the fingerprint, as operators
 |- SampleEditing        every document the sample loop can produce
 |    '- SampleMatching  (with MatchValues) one case of it meets a result
 |         |- SampleEditingProofs
 |         '- MCSamples
 '- AuthoringSession     (with Verdicts) the whole session: agent, user, files, commands
      |- AuthoringSessionProofs
      '- MCSession
MatchValues              tags, encoding, decoding and the match walk, as operators
IdLedger                 the append-only gate   -> IdLedgerProofs, MCLedger
ConfigRegister           abstract: the config as its readers see it
 '- ConfigFile           init-config            -> ConfigFileProofs, MCConfig
Installer                install, uninstall and their rehearsal -> InstallerProofs, MCInstaller
MetadataSync             concurrent syncs and the drift gate
 '- ReleaseRecord        changelog and release gate -> MetadataSyncProofs, MCSync
Episodes                 what an episode ends with, and its score
 |- HostEpisode          one fixture in a real host
 |    '- EvalGate        a full run: lint, episodes, report, baseline
 '- RawEpisode           the raw tool loop
      '- EvalRun         (with EvalGate) both ways of running fixtures -> EvalProofs, MCEval
```

### Verdicts, VerdictContract, VerifyPipeline

A *request* is the command, how ingress judges its inputs, what `check_samples` comes to (it
passes the samples, rejects them, or raises), whether the template is valid, and for each case
what executing it really comes to: an encoded value, an engine error, a value that cannot be
encoded, a worker that hangs, dies, or writes something that is not an envelope. `VerifyPipeline`
executes the request. Its `pc` follows `main()`, the handler, the stages of `verify()` and, in
`wait` and `reap`, `run_dry_run_case`; `worker` is the process that exists and is not yet reaped.
`TimeOut` is enabled at any moment of the wait, also after the worker has exited, since
`communicate()` may lose the race. `WorkerStopped` and `ParentKilled` are the operating system's.
A template and an input are abstracted to their outcome, the walk of `match.py` to equality of
values, which `MatchIsEquality` of `SampleMatching` justifies.

`PermittedAnswers(request)` in `Verdicts` says, without stages or processes, which answers are
true of a request. `VerdictContract` delivers one of them, once. `VerifyPipeline` is shown to
implement it under the mapping `answer <- [docs |-> stdout, code |-> exit]` at the end of the
process: safety (also proved) and, under its fairness, that the answer comes.

### CheckSamples, SampleEditing

`check_samples` is one operator per step of its algorithm. A JSON pointer is abstracted to what it
finds in an input: nothing, a non-list, or a list of none, one, or more items. Schema violations
and unknown tags are one flag. sha256 is injective, and a content that holds a number that is not
finite has the empty fingerprint, as in the code. `CheckOutcome` says what becomes of a call: it
raises where the content does not encode (a `LitRef` quotes a number that is not finite, or a
string holds a lone surrogate), because only an unknown tag is caught while tags are decoded.
`VerifyPipeline` and `AuthoringSession` follow that exception to its exit 3. Gaps are a set of
codes; all codes of an unmet obligation are `unmet`. `SampleEditing` proposes, decides, adds and
confirms, so that the properties of the check are judged on every document on the way, unordered
or careless edits included.

### MatchValues, SampleMatching

The walk of `match.py` and the tags of `_tags.py` over values as records with their type: TRUE,
1 and 1.0 differ by type alone, as in JSON, while Python holds them equal. Whatever is not JSON
(NaN, other Python types, keys that are no strings) is one opaque value, which encoding refuses.
An object is a function on the keys, `Absent` where it has no such member. The code recurses on
values; the model has recursive functions of the level, `Encode[n]` on what is nested no more than
`n` deep. They are given by what they do to one node (`EncodeNode`, `DecodeNode`, `WalkNode`) and
by the level below, so they can be proved about. The diff is the set of its entries; their order
is left out. `SampleMatching` gives a case any expectation and any result of `Depth` levels,
objects that look like tags or hold their key included, and matches them behind the samples check
and the encoding. What an expectation means (`Meaning`) is stated apart from both. The comparison
is of level `2 * Depth + 2`: an encoded literal adds a level for every level, and a sentinel, which
becomes an object of its own, one more.

A behaviour either edits a SampleSet or matches a case of one: the two share the check and
nothing else.

### AuthoringSession

The agent of `SKILL.md` sections 3 to 7, step by step; the user's decisions; the two files; and
other editors who may change either file at any moment. A command judges what it has read: the
template first, the SampleSet second, as `_cmd_verify` does. Its answer is any that `Verdicts`
permits for that request, so timeouts and broken workers are included without modelling the
processes again; this composition is sound because the pipeline implements the contract. `check` is
the content the agent's last `check-samples` was run on, which is what an interactive user is shown.
Section 3.3 of the skill has the user confirm first, then runs `check-samples` once more, and
records the fingerprint that this prints. The user's word is therefore kept apart from it: the
history variable `attested` holds what the user was shown and confirmed (or what a CI fixture was
confirmed for), and `slipped` what somebody put into the file between the showing and the fetch. The
template `Behaviour[t][c]` is a constant: what truly happens to template `t` on content `c`.

### IdLedger

Any number of `--update` and gate processes, each reading the docs first, then the ledger, then
writing. `_write_ledger` is two steps: the file is truncated (`torn`), then filled. Authors edit
the docs at any time, also dropping and renumbering ids, and a process may die anywhere. `issued`
and `missed` are history variables. The three docs are read as one snapshot.

### ConfigFile

Concurrent `init-config` runs at the granularity of system calls: the early `exists()`, the
prompt, `O_EXCL` create and write, or `mkstemp`, write, `os.replace`, `unlink`. Any of the
writes may fail and any run may be killed between two calls. Each run makes one file, so files
are named by the run. Links, directories in the way, and deletion by hand are not modelled.

`ConfigRegister` says what all of that is for, without temporary files or prompts: a config comes
whole and at once (`Put`), over another one only by `--force`, and a run tells of success (`Tell`)
with its own config in place or that of a `--force` run. `ConfigFile` implements it, mapping
`config` to what a reader finds (a file that is torn is no config) and `told` to the runs that
ended with 0.

### Installer

Install and uninstall in one destination, one step per file operation: an install makes all its
checks and reads first, then copies (`Copy`), then writes the manifest (`Record`); an uninstall
removes what the manifest lists (`Unlink`), then the manifest (`Drop`), then the directory.
`Interrupt` stops a run anywhere and may leave the file being written torn. Between runs the user
writes, removes and links files and checks out another release, whole or damaged (`sound`).
`Resolve` is `_confine`: the entry with all links followed. `loose` is a history variable, the
names that may hold a copy no manifest owns for a known reason: an interrupted install, or an
upgrade to a shorter list. The same module holds the rehearsal of `check_install.py` (`Stage`,
`Judge`), which drives the same actions through its series of runs.

Simplifications: the user acts only between runs and does not touch the manifest; the adapters
list the same files and differ in the destination alone; file names are flat. An install
overwrites a user's file of a listed name, and a later uninstall removes it; that is what the code
does, and no property says otherwise.

### MetadataSync, ReleaseRecord

Any number of `sync_metadata` processes, each in an environment with its own engine, one step per
file published and one per file hashed. Publishing is atomic in the code (`mkstemp` and rename,
or `os.link` for the skeleton, which does not replace), so it is one step; the temporary file a
killed sync leaves is not modelled. Snapshot and reference are named by the engine they were
taken from, a hash by what was hashed. The pin and the sidecar are edited at any moment; the
sidecar is edited into valid JSON. `Fails` has one field per check of `check_snapshot.py` and is
evaluated on the files as they stand at one moment. `alone` is a history variable: the sync since
whose start nobody else has acted. `metadata_3` and `dangling` are the two checks that a sync
alone cannot turn green: one needs another engine, the other an author.

`ReleaseRecord` adds the changelog, line by line, with `find_release_entry` as the set `Entry`,
the checks of the release record, and the version triplet an install writes. A behaviour either
drafts a changelog or syncs, since neither reads what the other writes until the gate, which looks
at records of every kind in every state of the files.

### Episodes, HostEpisode, RawEpisode, EvalGate, EvalRun

`Episodes` abstracts what a model hands in to six kinds of payload and gives the scores
`score_episode` may give. `Reverify` counts any nonzero exit of the verify process against the
model, also one the machine is to blame for, because the code does. `HostEpisode` is the driver of
`host_harness.py`: set-up, a turn that ends with any subtype, payload and hint of a fault (only a
turn without a terminal message hands in nothing), the classification, at most one follow-up, the
adapter. A turn that used up its turns is the budget's before its hint is looked at, so such a
turn counts against the model also where the stream shows a fault; `BlameIsRight` says so.
`RawEpisode` is the loop of `eval_harness.py`, dispatch by dispatch. `EvalGate` is a full run of
`check_evals.py`, from the arguments to the baseline; other processes replace
`evals/baseline.json` meanwhile (`Rebaseline`) and the run may be killed at any step, also in the
middle of the write. A score is taken when the episode ends, as it depends on the fixture and the
episode alone. `met`, the episodes that truly gave what is owed, is a history variable. `EvalRun`
puts both ways of running fixtures side by side; the raw loop is the retired, non-gating smoke run
(`smoke`).

The baseline is read at the start of a run of hours and written at its end, without a lock: two
updating runs lose each other's ids. `BaselineIsEarned` therefore promises only that a run keeps
what it has *read*, which is as much as `check_evals.py` line 1180 ("existing baseline ids are
kept") can mean.

## 3. Runs

| Run | Checks | Instance | What it shows |
|---|---|---|---|
| `verify` | `TypeOK`, `MatchedIsEarned`, `EngineGated`, `CasesAccounted`, `NothingLingers`, `ErrorsAreHonest`, `ImplementsContract` | 2 cases, 2 values, all commands, requests and outcomes | The pipeline keeps its promises in every interleaving of parent, worker and clock, and answers. 714 312 states. |
| `samples` | `GapsDecide`, `EvidenceForAll`, `EvidenceIsMonotone`, `MatchIsEquality` | 3 items, 2 obligation ids, 1 pointer, 3 kinds; values over 4 atoms and 3 keys, up to 2 wide, each also as a literal, and within an array or an object | The decision and its reasons agree on every SampleSet of that size, and a match is equality. 1 485 784 states. |
| `session` | `TypeOK`, `MatchedIsAttested`, `BudgetKept`, `EditsUnconfirm`, `RunsEnd` | 6 contents, 2 templates, budget 2, 2 outside edits, 3 rounds | A delivered match is earned, and about a content the user was shown and confirmed or one that slipped in before the fetch of its fingerprint. 247 452 states. |
| `confirm_race` | `OnlyConfirmedIsDelivered` (violated) | 2 contents, 1 outside edit | See section 6. |
| `nonfinite` | `EditsUnconfirm` (violated) | contents with a number that is not finite | See section 6. |
| `ledger` | `TypeOK`, `LedgerContiguous`, `NothingForgotten`, `AppendOnly` | 2 families, numbers 0 to 2, 1 updater, 1 gate, 2 edits | With one updater the ledger is what its comments say, crashes included. |
| `ledger_race` | `AppendOnly` (violated) | the same, 2 updaters | See section 6. |
| `config` | `TypeOK`, `NoLitter`, `SuccessStands`, `NoClobber`, `ImplementsRegister` | 3 runs | Plain and forced runs race as intended, and readers find a register. |
| `install` | `EveryFileIsOwned`, `RehearsalJudges`, `RecordedMeansCopied`, `OnlyListedPaths` | 2 releases that share one file and own one each, 1 stray, links to the outside | Whatever is installed, cut off, edited and upgraded, every copy has an owner or a known reason. 51 044 states. |
| `install_alias` | `DeletesOnlyManifestPaths` (violated) | the same, links to the stray as well | See section 6. |
| `sync` | `GreenIsOneEngine`, `SyncedIsGreen`, `EntryIsTopmost`, `GreenIsReleased`, `SidecarSurvives` | 2 syncs, 3 engines of which 2 can be served, 1 example; changelogs of 4 lines | The gates can be trusted however syncs interleave and stop. 178 987 states. |
| `gate` | `GreenIsMeasured`, `BlameIsRight`, `BudgetIsHard`, `BaselineIsEarned`, `LoopEnds` | 1 matched and 1 refuse fixture, 2 episodes each, budget 3, batches of 2 | Green is a measurement, blame is right, the raw loop ends. 1 361 942 states. |

**Bounds.** *verify*: two cases are enough for one to fail while the other succeeds, in either
order, and for a result to equal the wrong case's expectation; the proofs lift the bound.
*samples*: `MaxItems = 3` gives an obligation, its case and its waiver, or a repeated id and a
claim; the kinds are one met by absence, one by shape, one by a claim alone, because the other
kinds differ from these only in a row of a table. *session*: `RepairAttempts = 2` distinguishes
the first, the middle and the exhausted repair; `MaxEdits = 2` lets an edit strike and be taken
back; `MaxRounds = 3` allows confirm, revise and confirm again. Of the contents one holds a number
that is not finite, and one quotes it in a `LitRef`, on which every check raises; the run
`nonfinite` has two of the first kind, which share a fingerprint. *ledger*: numbers 0 to 2 give a
gap, a number below 1, a removal and a renumbering; the proofs lift all bounds. *config*: two
plain runs race for the create while a third, forced, one replaces what the winner made;
`SYMMETRY` permutes the runs, all properties are safety. *install*: two releases whose lists
overlap give a kept, a shed and a new file, hence upgrade and downgrade; one stray is one file the
installer must not know; the proofs lift the bounds. *sync*: two syncs in different environments,
an engine without a reference, and an example that only one engine has; four lines hold a fence, a
heading inside it, and the end of an entry; the proofs lift the bounds. *gate*: two episodes give
a tie, two buckets a green one beside a red one, and the baselines a regression and an id without
a fixture; a budget of 3 is crossed in the middle of a batch of 2; the correction bucket, which is
reported only, has no fixture here. *samples*, the values: three levels hold a literal inside an
array or an object, and what it quotes; the two atoms 1 and TRUE are the pair Python holds equal;
the proof lifts the bounds.

Every run allows deadlock: a process, a session or a set of runs ends, and the bounds end the
rest.

**Fairness.** `VerifyPipeline` assumes that the parent keeps running (`WF(Parent)`) and that its
clock does (`WF(TimeOut)`, the `timeout=` of `communicate`). Nothing is assumed of the worker: it
may never answer. `AuthoringSession` assumes that the agent goes on by itself
(`WF(AgentAlone)`), and nothing of users or editors; so `RunsEnd` is about runs without a user,
where every phase belongs to the agent. Each answer it waits for comes by `ImplementsContract`.
`EvalRun` assumes that the raw loop runs on (`WF(Loop)`): each turn answers or raises, in code that
waits for one call at a time. `LoopEnds` then is not for free, since the number of turns has no
bound but the tool budget. Of the eval gate no liveness is claimed: a turn of the host may last for
ever, and the driver puts no bound on it. The other modules have no liveness property: nothing in
the code retries or waits there.

Each property also has a mutant, a plausible bug kept beside the definition it changes
(`Mutation:` in the comments), under which the property fails in the same run.

## 4. Proofs

All constants are arbitrary, up to the named assumptions of the modules: at least one case, engine
values that are different from the names of faults, disjoint sets of updaters and gates, a `Prior`
config and a `NoFile` that are not runs, lists of files that are sequences, percentages in 0..100,
finitely many fixtures, the two keys of the tags among the keys of objects. Each is evaluated by
TLC in the runs.

* **VerifyPipelineProofs**. The inductive invariant `IInv` joins the type invariant with
  `ControlInv` (which stages are passed where the parent stands), `WorkerInv` (a live worker
  belongs to the current case and holds no reply but that case's), `LoopInv` (the two lists
  together account for the cases visited; without errors, results and cases agree position by
  position) and `VerdictInv`. `MatchedIsEarned` alone is not inductive: it needs to know, at the
  match stage, that the results are those of their own cases, and that is a fact about the loop
  and the worker. From `IInv`: `TypeCorrect`, `SuccessIsEarned`, `NoExecutionOnReject`,
  `NoWorkerLingers`, `EveryCaseAccounted`, `HonestErrors`, and `ContractSafety`, that the
  pipeline implements the safety part of `VerdictContract`: every step is silent but the last
  one, and what that one shows is permitted. `EveryStepCounts` gives the liveness half what can be
  proved of it: `StepsLeft` starts at no more than five for each case and six, and every step,
  of the parent, a worker, the clock or the killer, lowers it. So no schedule runs longer.
* **IdLedgerProofs**. `LInv`, that the ledger and whatever is on its way into it number each
  family 1..n, holds for any number of updaters (`NoGapEver`). `SInv` adds, *for at most one
  updater*, that what it is about to write holds all ids in the ledger, because nobody else
  changes the ledger since it was read; from it `LedgerIsAppendOnly` and `GateForgetsNothing`.
  The assumption `OneUpdater` cannot be dropped: `ledger_race` is the counterexample.
* **ConfigFileProofs**. `CInv` says what a run knows of the directory at each point: its own
  file is not yet in place before the create or the rename; a temporary file has an owner who
  will still unlink it, unless killed; a run about to rename has written its whole payload; a
  run past the create is in place unless a forced run replaced it. From it `NothingLittered`,
  `SuccessIsTrue`, `PlainNeverClobbers`, `ReadableForever`, and, with `RegisterKnows` (what a
  forced run has put in place is whole; the plain way is for plain runs), the refinement
  `FileIsARegister`: of the steps of a run a reader sees the end of a plain write into the file
  that has its name, the rename of a forced run, and the answer; `RegisterStep` takes them one by
  one.
* **SampleEditingProofs**. `DocInv` says that editing only ever makes SampleSets: sequences of
  obligations, cases and waivers of the right kinds. `GapsTell` needs nothing else: flags and gaps
  agree on any document at all. `EvidenceHolds` follows from `DocInv`, and `LoopGoesForward` from it
  for every step that leaves the obligations alone. These are about
  `Spec` of `SampleEditing`; `MatchingOnlyEdits` shows that `MatchSpec`, which the run `samples`
  checks, refines it, so that they hold there too.

  `MatchingIsEquality` is the result on values, for any `Depth` and any keys. tlapm knows nothing
  of a recursive function beyond its text, so the lemma `Recursion` first shows, from the
  well-foundedness of the numbers (`Climb`), that for any base and step the function of the levels
  exists, and one lemma each that `Encode`, `DecodeExpected`, `Meaning` and `Walk` are such
  functions (`EncodeIs` and so on). Then, again level by level: encoding tells any two values it
  accepts apart (`EncodingTells`, which rests on the escape of the objects that hold the key of
  the tags); decoding an expectation is encoding what it means (`DecodingMeans`); and the walk
  finds nothing just between equal documents (`ComparisonTells`). Why the comparison needs level
  `2 * Depth + 2` is what this proof brought out: one level less, and a sentinel at the bottom of
  the deepest literal would be out of its reach.
* **AuthoringSessionProofs**. `SessionInv` adds to the properties what the agent has in hand where
  it stands (`Places`), and that *whatever confirmation is in the file is that of an attested
  content, or of one that slipped in* (`Vouched`); without the second, a success could rest on a
  fingerprint nobody vouched for. From it `SessionTypes`, `SuccessIsAttested`,
  `RepairsAreBounded`, and, where every number is finite, `EditsTakeConfirmation`; that hypothesis
  cannot be dropped, as the run `nonfinite` shows. `SuccessIsAttested` does without it:
  `ContentsAssumption` says that whether the tags of a content decode follows from the rest of it
  (so that what is hashed determines a finite content, lemma `HashDetermines`), and that an
  expectation that is not finite is never met. `UnattendedRunsAreBounded` is the variant behind
  `RunsEnd`: without a user, whatever the agent does lowers a number that starts at no more than
  four for each attempt of the budget and seven, and no edit of the files raises it.
* **InstallerProofs**. `IInv` has three parts. `LinksLead`: a link stands under a listed name and
  leads to an unlisted one. `Ownership`: at each point of a run, who owns the copies, which for
  an uninstall is the list of what it has still to remove. `Confined`: where no link leads into
  the directory, a run past its checks works on the very files it lists. From it `TypeCorrect` and
  `NothingStranded` for any links, and `CommitIsComplete` and `OnlyItsOwnFiles` under
  `Links \subseteq {Outside}`; the run `install_alias` shows why. `RehearsalIsSound` is about the
  series of runs of `check_install.py`: `Rehearsing` says what the directory holds, and what has
  been refused or found, at each stage and at each step of the installer within it, with one lemma
  for every action; a complete tree then gives no finding and any other tree gives one.
* **MetadataSyncProofs**. `DriftGateIsSound` and `WhatIsReleased` follow from the types and the
  checks of the gates alone: that is the point, no assumption on how the files came about is
  needed. `SyncRepairs` needs `SyncInv`: what a sync has published and hashed at each point
  (`Progress`), and that, while nobody else acts, this is what is on disk (`Undisturbed`).
  `SidecarIsKept` is a fact about every step. `NewestEntryIsRead` is about the changelog alone:
  the code scans it line by line and flips a flag at every fence, the property counts the fences;
  `FencedIsOdd` shows, at the least line where they would differ, that the flag is the parity of
  the count, and `ScansAgree` that both then end the entry at the same line.
* **EvalProofs**. For the raw loop `LoopInv` relates the three counts (tool uses, dispatches,
  log entries) while it runs; `BudgetHolds`. For the gate `GateInv` joins the types, the history of
  the turns of an episode (`HostInv`), `Fair` (no fixture has more passes than episodes that gave
  what is owed) and `Earned` (where a run is green or about to write, the report was not red, and
  an update covers all fixtures). From it `GateTypes`, `BlameHolds`, `GreenHolds`, `EarnedHolds`.
  `LoopIsBounded` is the variant behind `LoopEnds`: every step of the raw loop lowers a number that
  starts at no more than three for each call of the budget and three, though a batch may be of any
  size.

**Only model-checked**: the liveness half of `ImplementsContract`, `RunsEnd` and `LoopEnds`.
Fairness and ENABLED are out of this prover's reach, so that a step which may be taken is taken
stays with TLC; that only so many can be taken is proved. Every invariant and every action property
of a passing run is proved.

## 5. Not modelled, and why

* JSON syntax, schemas, message texts, the order of gaps within the list, file permissions: data
  or library code the properties do not tell apart.
* The Transon engine: external; what it does with a template is a constant.
* Lookups (`metadata`, `examples`, `language`, `load_config`, `resolve_samples_path`): they read
  files and keep no state.
* `gen_fixtures.py`: one process that regenerates files from seeds; what it must guarantee (each
  derived expectation is what the engine returns) is a statement about the engine.
* `check_parity.py`, `local_eval.py`: line-by-line scans and a layout of workspaces; the score of
  the latter is the modelled `ScoreEpisode`.
* The key proxy, the run summaries and the transcript scan, the traceability check and the memory
  update: text and I/O, outside what is shipped.
* In the modelled checks: the front matter lint, the cursor smoke and the wording of plugin and
  marketplace files are flags or left out; the lint of `evals/`, other than of the baseline, is one
  choice; artifacts, telemetry and failure modes of a run gate nothing.
* Strings with lone surrogates outside the SampleSet's content (in a template that a verdict echoes,
  or in a message of the engine): the print raises `UnicodeEncodeError`, which ends in exit 3 like
  the escapes that are modelled; if stdout itself cannot take the internal-error document either,
  there is none.
* AC-018 promises the same verdict for the same inputs. With a clock in the loop that cannot
  hold of verdicts at the edge of five seconds: `dry_run` is permitted for every runnable
  request, and the runs claim no determinism.
* A first `--update` whose write is torn, with no ledger in git history yet, leaves a file that
  no run rebuilds and git cannot restore; a person has to delete it. A plain `init-config` whose
  write fails or is killed leaves a torn config that later plain runs refuse; `--force` mends it.
* Section 2 of the skill (can the request be grounded at all) is a judgement.

## 6. Where the code and its words disagree

1. `nonfinite`. `1e999` passes strict ingress and becomes an infinite float; every such content
   has the fingerprint `""`. A confirmation that records `""` survives edits from one such
   content to another, although AC-029 says any edit flips it. No false match follows: an
   infinite expectation is never met, and the run `session`, whose contents include one with a
   number that is not finite, shows `MatchedIsAttested`.
2. `confirm_race`. `SKILL.md` 3.3 (and SPEC 849-853) let the user confirm what they were shown and
   fetch the fingerprint afterwards, from whatever is in the file by then. A content that another
   editor puts there in between is recorded as confirmed by the user, verified and delivered as
   matched, although "only after the user EXPLICITLY confirms the SampleSet" and "never returns one
   until [...] verified it against a user-confirmed set" say otherwise. From the fetch on the
   fingerprint protects the content, as `MatchedIsAttested` shows; fetching it from the SampleCheck
   the user was shown would close the window.
3. `ledger_race`. Two overlapping `--update` runs that have read different docs: the later writer
   drops ids the earlier one registered, although "--update never deletes from the ledger".
4. `install_alias`. "Uninstall deletes only manifest paths" (`install/_shared.py:15`, SPEC
   FR-016). `_confine` returns the path with its links followed and accepts any result inside the
   destination. Where the user has replaced a listed file by a link to another file of the
   directory, uninstall removes that other file, which no manifest lists, and leaves the link.

No run is needed for two more. `SKILL.md` 5.1 (229-231) asks for `repair_count`, `verdict` and
`last_candidate` in a `repair-exhausted` envelope, and section 7 forbids writing it by hand; `result
--refuse` builds it without them and rejects `--repair-count` (`__main__.py` 325-328, 340-347). And
SPEC 846-847 takes numbers that are not finite to be rejected at ingress, while `1e999` inside a
`LitRef` passes it and makes `check-samples`, `verify` and `result` end in exit 3
(`samples.py` 153-157, `_tags.py` 127-131): the contract of `Verdicts` permits this answer, since
the code gives it.

## 7. What could come next

The modelled parts of the plan are complete: pipeline and contract, sample check, session, ledger,
config file, installer, sync and release, eval, with proofs for all of them. Left for whoever
changes this code next:

* a refinement of `AuthoringSession` in which its commands are `VerifyPipeline` processes rather
  than permitted answers (today the two meet in `Verdicts`);
* two updating runs of the eval gate at once, with the lost update as a run that shows it;
* the user at work while an installer runs;
* a drift gate that reads the files one by one while a sync publishes them.

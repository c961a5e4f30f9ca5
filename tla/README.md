# migra-Q: a verification project

migra-Q migrates SQL between dialects and decides, from deterministic evidence, whether the
migrated query may be called **VERIFIED**. This directory holds TLA+ models of the part that
makes that decision, of the requests that lead to it, and of the phases that produce its
evidence (language-model calls, sandbox executions over datasets on disk, the comparison of their
results, repairs and their verification), the TLC configurations that check them, and TLAPS
proofs of what must hold for every instance. `PROJECT.json` lists the
components, the runs, the lines each definition models, the hazards and the findings.

    tlc -workers 2 -config EvidencePhases.cfg EvidencePhases
    tlc -workers 2 -config MCMigrationPipeline_serial.cfg MCMigrationPipeline
    tlc -workers 2 -config MCSandboxExecution.cfg MCSandboxExecution
    tlapm MigrationPipelineProofs.tla

## 1. The system

| component | state it keeps | operations | what makes it correct |
|---|---|---|---|
| Assurance API (`api/assurance.py`) | none; a thread per request | run, edit candidate, edit source, execute, reads | requests about one migration may overlap |
| Orchestrator (`orchestrator/`) | locals of one request | `preflight_check`, `run`, `execute_migration` | phase order, early exits, what is passed on to the evaluation |
| Assurance service (`assurance/service.py`) | rows of four tables | `evaluate_assurance`, `reset_downstream_pipeline_state`, versions | a verdict belongs to the evidence and the candidate it names |
| Gates, engine, lineage (`assurance/{gates,decision,lineage}.py`) | none | pure | VERIFIED exactly for sufficient evidence |
| State machine (`assurance/state.py`) | none; called by nothing | the declared graph | the phases in their order, and the state the record ends in, follow it but for three endings |
| Consistency validator (`core/`) | none | raises on impossible artifacts | no impossible report is saved |
| Repository (`assurance/repository.py`, `db/`) | PostgreSQL, or files | one session per call | record and report agree |
| Preflight (`preflight/`) | none | a text's columns against the dataset | what a pass checks and rejects, that pass does not execute |
| Translator (`translator/`) | artifacts | LLM call with retries, static checks | the call ends; an answer that is unsafe or invalid is not SUCCESS |
| Datasets (`datasets/`, `api/datasets.py`) | directories, `_custom_datasets` | seeding by every constructor, upload, delete | a manifest stands for a complete dataset |
| Execution (`execution/`) | files and rows per execution, a worker thread | refusals, DuckDB runs, dialect transforms | honest status and confidence; a SUCCESS has its result |
| Validation (`validation/`) | reports | five validators and their aggregation | PASS only for results whose rows match one to one |
| Diagnosis (`diagnosis/`, `diagnosis_ai/`) | reports; proposals in memory and database | classification, LLM repair, proposal checks | a provider failure is not a repair; only checked proposals run |
| Repair verification (`repair_verification/`) | results in memory and database | recheck, re-run, re-validate, compare | VERIFIED only for a resolved discrepancy; what was answered is found again |
| Analyzer, lab, frontend, command lines | files | parsing, fixtures, views | not part of the verdict |

How they interact. An endpoint runs in FastAPI's thread pool, calls the orchestrator, which
calls the phases one after the other and passes their artifacts, all held in memory, to
`evaluate_assurance`. Requests about a migration share the tables; requests about any share the
datasets' directories, which every constructed registry may regenerate, and the two in-memory
stores of proposals and verifications. An execution runs in a worker thread that its request
waits for. Each read or write of them is a
database session of its own (READ COMMITTED, no row locks, no version check on update), so two
requests about the same migration interleave between any two sessions, and a request that dies
leaves what it has committed.

The hard behaviours are therefore: interleavings of requests between sessions and between
directory entries; a worker that answers after its request gave up; outages of the database and
restarts between an answer and its record; retries within a budget; state read,
used and overwritten many sessions later; writes split over several sessions; the version
insert, whose transactions do not see each other; and, inside one pass, the many early exits
and the four layers (gates, engine, overrides, confidence) that each rewrite the status. The
hazards in `PROJECT.json` give each one's line.

## 2. The modules

| module | models | role |
|---|---|---|
| `AssuranceDecision` | gates, engine, overrides, lineage, confidence gate, consistency validator | pure operators over an evidence record; no variables |
| `MigrationStateMachine` | `assurance/state.py` | abstract specification |
| `EvidencePhases` | one pass: `run`, `execute_migration`, each phase's outcomes, repair verification, the verdict | state machine; follows `MigrationStateMachine` but for three endings (section 4) |
| `MigrationPipeline` | the requests about one migration, session by session | state machine; composes `AssuranceDecision` with the tables and the endpoints |
| `VersionHistory` | what a version table promises its readers | abstract specification, implemented by both tables of `MigrationPipeline` |
| `MCMigrationPipeline` | instances of it | texts, outcomes, failures, symmetry |
| `ProviderCalls` | the attempt loop of both language-model providers, and what the two services save | one call is one `Translate` or `DiagnoseAI` step of `EvidencePhases` |
| `RepairProposal` | `diagnose_discrepancy` after the provider's answer, the proposal's storage | state machine, extended by the next |
| `RepairVerification` | `verify_repair`, the discrepancy diff, the status rules, the result's storage | one verification is one step of `EvidencePhases`' repair phase |
| `MCRepairVerification` | instances of it | records, statements, regions, claims |
| `DatasetStore` | `DatasetRegistry`, uploads, deletions, entry by entry | state machine, extended by the next |
| `SandboxExecution` | both executions of a pass: request thread, worker, files, row | two executions are one `Execute` step |
| `MCSandboxExecution` | instances of it | statements |
| `ResultComparison` | values, types, statistics and boundary values of two results | pure operators; no variables |
| `Validation` | the five validators, the row comparison step by step, the report | state machine |
| `MCValidation` | instances of it | families of small results |
| `*Proofs` | theorems | section 5 |

**Evidence.** `EvidenceSpace` has one field per thing a gate, an override or the validator can
tell apart; an artifact that is `None` in Python has status `NOT_RUN`. The translation fields
stand for the result or, when there is none, for the summary the report kept, as in the code.
`FinalStatus` is the whole of steps 3 to 9 of `evaluate_assurance`, in its order; `Consistent`
is the validator called in step 10, without which nothing is saved. `DetermineVerified` is the
second definition of VERIFIED that `decision.py` contains and nothing calls: the code gives
the specification itself, and the two are compared.

**EvidencePhases.** `stage` is the phase, `halted` an early exit to the evaluation, `blocked`
a failed preflight, `prior` that a candidate is active already (of an earlier pass, or of a user
through POST `/candidate`), `ev` the evidence so far, `verdict` the saved status. `Kept` is what
the report may keep of a translation when a pass begins: nothing, one that succeeded, what POST
`/execute` rebuilt of one, or one that failed without SQL; beside an active candidate the text of
the candidate counts as the SQL of one that failed. `PhaseRaises` is an exception outside every
handler of the phases: a provider that cannot be constructed, a diagnosis that a strict database
does not store, a dataset the sandbox cannot resolve, an artifact that was not persisted, a
comparison of contexts that cannot be made; the pass ends without a report.
`ShownState` is the state by the graph's names: the phase while a pass runs (the record itself
shows none of them), and at its end what `evaluate_assurance` writes to `current_state`, which
the BLOCKED of a failed preflight does not touch.
`repaired` records what the re-execution showed and the decision does not read. Counts of
mismatches and discrepancies are abstracted to numbers up to `MaxDiscs`; the discrepancy diff
of a repair is abstracted to what the status rules read (resolved, zero rows, reduced, how many
remain, how many are new), with the constraints the diff imposes between them. `verify_repair`
diagnoses the first report again, without the ASTs, so its own earlier count (`before`) is not
the pipeline's.

**MigrationPipeline.** `record` and `report` are the migration's rows, `sources` and
`candidates` the version tables in order of commit, `kind`, `pc` and `loc` what each request
is, the session it opens next, and what its thread remembers. One action is one session:

* The version transaction reads the latest version, deactivates and inserts. `InsertX` fixes
  the rows it sees (`seen`) and so the new number; `CommitX` makes its effect visible. Under
  READ COMMITTED the deactivating UPDATE has a snapshot of its own: it clears what was committed
  by some moment between the read and the commit, so a row may be cleared and not counted, and a
  row committed after the UPDATE stays active.
* `get_migration` followed by `save_migration` (`SaveRecord`, `ResetRecord`) is one step: both
  mutable fields are overwritten and nothing of the read survives into the write. Adjacent reads
  that decide one thing are one step (`CheckLineage`). The UPDATE in `BlockRecord` touches
  `final_status` alone, as in the code.
* `RunPhases` is what runs between two sessions and touches no table of the four; its outcomes
  are the constant `Outcomes`, a subset of what `EvidencePhases` can produce.
* Hashes of source texts are the texts (equal hash, equal text); `Strip` is `str.strip`, so
  that padded texts hash differently from what is stored.
* `Crash` ends a request at any session boundary: a killed process, or an exception.
* `ReadFault` is a database error in `get_migration` or `get_assurance_report`, which log it and
  answer `None`: the record is created again over the old one, the hash check, the earlier
  report, the reset of the report or the update of the record is left out, and the request goes
  on. Where the caller raises or ends on `None`, a failing read is a `Crash`.

**How the parts fit.** `EvidencePhases` takes each phase's outcome from a set. The four modules
about phases say where those outcomes come from, and each carries a refinement mapping
(`Phases == INSTANCE EvidencePhases WITH ...`) under which everything it does is one step of
that phase, an exception that ends the pass (`PhaseRaises`), or a stutter: `CallIsOnePhase`,
`ExecutionIsOnePhase`, `VerificationIsOnePhase`. `MigrationPipeline` draws on the same evidence.
So a verdict proved for `EvidencePhases` holds of what these components can produce.

**VersionHistory.** A version table is a history that only grows: rows never change their number
or text, a commit makes its version active and clears the others up to some older one, and
nothing but a commit activates a version. Of serial requests (`Serial`) it asks more: the next number,
and every other version cleared. `VersionsAreHistory` maps the numbers, texts and active
positions of both tables to it; the preflight verdict, which `save_candidate` stores late and over
whatever was committed since, must not show.

**ProviderCalls.** Time is counted in seconds of `perf_counter`; `attempt`, `delay` and `wait`
are the loop's. `Plain` and `Limited` are the classes of answers the two providers tell apart;
a 429 carries whether its body can be read and which words it has, since the type of the body
decides which of them count. `client` is the service, whose error codes differ.

**RepairProposal.** A proposed statement is described by what it does to the candidate: its
kind, whether outputs and tables stay, which parts change (`changed`). A region is a text in
which the checks look for words, so it is the set of the words found. `mode` is the three ways
a failed save is treated: raised, logged, or no database at all. `row` is what is read back, and
`Loaded` prefers the memory, as the code does.

**RepairVerification.** A report is the sequence of its discrepancies in the order of their
signatures, which gives them their ids. `Outcome` is the targeted analysis with its order of
comparison (signature, then region, then category), `RemainsAs`, `Remaining` and `NewIn` the
categorisation, `StatusAfter` the rules in their order. `live` says that the pass which asked
for the diagnosis still runs; `entry` whether the pipeline or the endpoint asks.

**DatasetStore.** `store` is what each entry of the built-in dataset is: absent, written by
other code, torn, current. Every action changes one entry; `shutil.rmtree` is a listing
(`BeginWipe`), unlinks in any order, and the removal of the directory, each of which may fail.
A constructor returns after a failed seeding, and so does the module's import: the server then
serves. `StopStore` kills it anywhere.

**SandboxExecution.** `run[s]` is an execution: where its request and its worker are, what the
worker computed (`outcome`), what the request answered (`status`), and what is stored (`parquet`,
`meta`, `row`). The request hashes the manifest it resolved (`hashed`) and the worker reads the
files it finds (`seen`). The module extends `DatasetStore`, whose constructors and crashes run
at the same time; uploads, which the sandbox never reads, are left out of its next-state
relation.

**Validation.** A value is described by what the comparisons ask of it: its kind, what `float()`
and `str()` make of it. `left`, `spare` and `open` are the lists of `_match_group_rows`, by
position, and `pairs` the rows compared so far; `CompareColumns` is the vectorised path for
unique keys, whose `pairs` are the rows its two sorts put side by side. The two paths do not
compare the same things: the grouped one passes `values_equal` Python objects, the vectorised one
the scalars numpy takes out of a column. `Scalar` is that conversion by what it does: a NULL of a
single-precision column of an artifact is no `float`, a value of a column of booleans without a
NULL no `bool`, and `isinstance` sends both down another branch. `SameScalars` is the vectorised comparison, `ValuesEqual` the
grouped one, and `ScalarsAlike` says of two results when they cannot differ: single precision
faces single precision and BOOLEAN faces BOOLEAN. The pairing is the
code's, greedy and in order, and `Agree` says what it is for: that there is a one-to-one
matching. Comparison keys and aggregate specifications come from the pipeline, which gives none,
so the key is the first column; results have a column. Scores and evidence items are left out.
`Contexts` is a sequence of sets so that families of results of different columns need not be
compared with one another. The report's status is what the `Validate` step of `EvidencePhases`
chooses; that module also reads a count per cause, so no mapping is stated between the two.

## 3. The runs

| run | instance | shows |
|---|---|---|
| `phases` | every outcome of every phase, `MaxDiscs` 2; 105,046 states | `DecisionMatchesDefinition`, `VerifiedIsEarned`, `RepairFailureBlocks`, `SchemaMismatchBlocks`, `SucceededTranslationReported`, `FollowsStateMachine` (the phases and the state the record ends in are a path of the declared graph but for three endings) |
| `serial` | 4 requests, one at a time, 4 sources (padded, rejected, unresolvable), 2 targets, 5 outcomes; 74,826 states | `OneActiveVersion`, `VerifiedIsCurrent`, `RecordAgreesWithReport`, `OnlyRunsVerify` |
| `two` | 2 requests at once, failures, a crash or a failing read; 437,453 states | `VerifiedIsEarned`, `ExecutedAsChecked` (what a pass executes its preflight let through, though it is read again later), `VersionsAreHistory` |
| `three` | 3 requests, 2 at once; 1,387,631 states | `CandidateBinding`, `SomeActive` |
| `provider` | limits 0 to 3, budget 60 s, answers after 0, 31 or 60 s, retry-after none, 0 or 45 s; 11,165 states | `OverrunBounded`, `NothingGivenUpEarly`, `DefinitiveAnswerEndsCall`, `CallIsOnePhase`, `CallEnds` |
| `repair` | reports of up to 2 of 9 discrepancies, 10 statements, an outage, a restart, three modes; 230,910 states | `ProposalSurvivesRecheck`, `AcknowledgedIsFound`, `ExecutedWithinScope`, `VerifiedMeansGone`, `PartialMeansFewer`, `VerificationIsOnePhase` |
| `store` | 2 tables, the import as the only constructor, every leftover, kills; 1,940 states | `RegisteredIsReal`, `UploadIsWhole` |
| `sandbox` | 1 table, 2 constructors, 3 statements, kills, outages; 632,300 states | `SuccessIsReadable`, `SuccessHasItsResult`, `ExecutionIsOnePhase`, `ExecutionReturns` |
| `validation` | rows of one key with values within and beyond the tolerance, up to 3; two rows of integer or NULL keys and two compared columns; one-row results of other types, names, orders, storage, among them NULLs of single and double precision and booleans beside texts, on the vectorised path; analyses; 447,586 states | `PassIsAgreement`, `FailIsReal`, `CountIsDifferences` |
| `race`, `seeding`, `timeout` | the smallest instances of three disagreements | section 4 |

Bounds. Two discrepancies distinguish none, one resolved, and one resolved while another
remains. `Outcomes` has one member per verdict the decision can give (pass, broken target,
mismatch, verified repair, approximated). Two targets distinguish a candidate from the one that
replaces it; two, with two requests in flight, is the least number for a lost update, and a
third request gives the migration it needs (runs and edits require an existing record). Four
serial requests allow run, edit, edit, execute. `serial` checks one at a time because its
properties do fail under overlap (the `race` run); they are what the code gives a single user.
`MaxInFlight` and `MaxFaults` only bound the instances: the theorems hold for all values.

The limits 0 to 3 of `provider` cover no attempt, one, a retry and a retry after a retry, at
which the delay has doubled; 31 s twice passes the budget, 60 s reaches it, and 45 s of
retry-after overruns it. Two discrepancies in each report of `repair` (`MaxReport`) tell apart a target and a
bystander; the nine differ in signature, category, path (equal, nested, none) and row counts
(unknown, zero, one row apart in 30000, where the percentage rounds to 0). A single outage and
restart suffice to lose the memory while the row is stale. One table in `sandbox` is enough,
since the properties speak of each table by itself, and two constructors are enough for a
manifest to change under a worker. Three rows are the least in which being within the tolerance
(one unit, the values one apart) is not transitive; two rows of one key on one side and one on the
other leave a row over; two compared columns give pairs that differ in one and in both. A sample
limit of 2 under three rows stands for 500 under more. For the properties proved in section 5,
what these bounds cut off is covered: the proofs have none of them.

Deadlock is not checked: requests are finitely many, a pass and a call end.

Fairness is assumed where a thread of the program alone decides, and nowhere of the
environment: no answer, failure, outage, crash or client is ever fair.

* `ProviderCalls!FairSpec` is weak fairness of the loop. It runs in the request's thread, its
  sockets have timeouts (an answer or a failure comes after at most `LongestAnswer`), a sleep
  ends, and it waits for nothing else. `CallEnds` holds for every answer the provider may give.
* `SandboxExecution!FairSpec` is weak fairness of the request and worker threads, each step
  without a simultaneous crash of the server, and of the query. That queries end is an
  assumption: DuckDB is not interrupted. `BoundedSpec` assumes instead what the code provides,
  the threads and the timer; `ExecutionReturns` fails under it (run `timeout`).

The safety properties hold without fairness.

Symmetry: requests are interchangeable, no definition singles one out.

## 4. Where documents and code disagree

Three have a run that ends in a violation, with a finding in `PROJECT.json`:

* `race` (`EditRestartsPipeline`): an edit that completes while a run is between execution and
  save is undone; the migration ends VERIFIED for the older candidate.
* `seeding` (`RegisteredIsReal` with two constructors): wiping and seeding interleave, and a
  current manifest is left over tables that are missing.
* `timeout` (`ExecutionReturns` without the assumption that queries end): the executor joins its
  worker on leaving, so the timeout bounds nothing.

Others are stated as definitions that TLC refutes when they are added to the configuration of
their module (findings without a run):

* `LineageIntegrity`, `CleanExecutionVerifies` (`MigrationPipeline`): the executed source is not
  compared with the translated one; POST `/execute` rebuilds a translation without its validation
  status, so it can never verify, which `OnlyRunsVerify` states as a fact of the code.
* `SourcePassedPreflight` (`MigrationPipeline`): POST `/execute` checks no source, so the text of a
  source edit that ended BLOCKED, which is active since, is executed.
* `SchemaMismatchReported`, `BlockedPreflightShown` (`EvidencePhases`): a missing column in a source
  edited beside a user's candidate and a failed translation raises in the consistency validator
  and leaves no BLOCKED report (the exception in `SchemaMismatchBlocks`); a preflight that fails
  sets `final_status` to BLOCKED and leaves `current_state` FAILED.
* `ZeroToZeroRejected`, `RepairedPassVerified`, `RepairedConfidenceGated`,
  `FailedTranslationReported` (`EvidencePhases`): a repair is VERIFIED although the verification
  found no discrepancy to repair; the schema gate reads the report of the unrepaired candidate;
  the repaired execution's confidence is not gated; a failed translation that carries SQL raises
  and leaves no report.
* `PersistenceReported` (`RepairVerification`): a target whose row count is unknown and persists
  raises a TypeError instead of ending in FAILED_VERIFICATION.
* `QuotaReported` (`ProviderCalls`): an exhausted quota is only recognised by some of the words
  in some of the bodies; the rest are retried as rate limits and end FAILED.

* `ReorderedRowsPass`, `IdenticalResultsPass`, `RowCountsMatch`, `TextsCompared` (`Validation`):
  the greedy pairing may leave rows over that another order would pair, since near is not
  transitive; an infinite value equals nothing, not even itself; a lost artifact is replaced by
  500 kept rows; texts that `float()` reads are compared as numbers and others stripped.
* `NullsNormalized`, `BooleansCompared` (`Validation`): on the vectorised path a NULL of a FLOAT
  column differs from a NULL of a DOUBLE one, although the document has NULLs normalised, and a
  boolean is compared with a text by its name and not by its truth.

Noted without a property: the dead branch for an exhausted quota of the AI diagnosis; a sandbox
limitation is INCONCLUSIVE and not BLOCKED; nothing calls the state machine, and four kinds
of step leave its graph (a failed preflight ends in FAILED, from ANALYZING for a source and from
PREFLIGHTING for a candidate, INCONCLUSIVE is shown as FAILED from VALIDATING, edits leave
terminal states), of which `FollowsStateMachine` names the first three as `UndeclaredEnding` and
the fourth is no step of a pass; two overlapping
inserts leave two active versions with one number; a crash after an evaluation leaves FAILED
where BLOCKED was to follow; an execution that timed out is read back as SUCCESS from its
metadata; an edit that cannot read the report answers as if it had reset it; uploads are
accepted by the preflight and unknown to the sandbox; every built-in dataset has the same hash;
a deleted upload stays listed; validations never reach the database; the verification endpoint
cannot succeed; no validator looks at the order of rows; column names are compared with their
case; a DECIMAL with its size is not aggregated; the pipeline's validation always skips the
business rules. Each has its lines in a finding.

## 5. What is proved

With TLAPS, for every value of the constants that satisfies `PhasesAssumption`,
`PipelineAssumption`, `NoneAssumption`, `ProviderAssumption`, `ProposalAssumption`,
`VerificationAssumption`, `StoreAssumption`, `SandboxAssumption`, `ComparisonAssumption` and
`ContextsAssumption` (results have finitely many rows and columns, and the numbers in them are
whole multiples of a unit, the one tolerances are counted in): any number of requests,
texts, outcomes, crashes and failing reads, any `MaxInFlight`; any limits and durations of a call; any
responses, statements and discrepancies, in reports of any length; any tables and statements;
any results, tolerances and limits of a validation.
Any number of constructors too, except in `AloneRegisteredIsReal`, whose hypothesis
`Builders = {Main}` is exactly what the run `seeding` shows to be needed. The four serial theorems
about the pipeline assume `MaxInFlight <= 1`, and all but `SerialVersions` also `MaxFaults = 0`:
what they say fails when requests overlap (section 4) or die between two writes.

* `AssuranceDecisionProofs`: `DecisionSound` (VERIFIED implies `DetermineVerified`, for any
  evidence at all, because every gate is a conjunct and everything after the engine only
  lowers), `DecisionComplete` (the converse on well-formed evidence).
* `EvidencePhasesProofs`: `TypeCorrect`, `DecisionCorrect`, `VerdictEarned`,
  `FailedRepairBlocks`, `SucceededReported`, `MismatchBlocks` (BLOCKED for a missing column, or an exception if a candidate
  is active beside a translation that did not succeed), `PassFollowsGraph`. The verdict
  properties are not inductive: they speak of the evidence at the end, and say nothing of a pass
  under way. `PhaseInv` adds what each stage has already collected (`StageEvidence`), that the evidence is well formed, and that a verdict is the
  decision taken on it. `Arrival` adds when each kind of evidence can be there, from which the
  consistency validator's conjuncts follow (`SucceededConsistent`, `EmptyConsistent`).
  `PassFitsRequest` composes the two modules: `HandedOver` says of a pass that is handed over to
  `evaluate_assurance` that its evidence is what a request of `MigrationPipeline` holds there:
  none, a failed translation that module assumes of `Failures`, or executions it assumes of
  `Outcomes` under a translation that succeeded. `Carried` is what every phase passes on of it.
  `PassFollowsGraph` is the refinement of the declared graph: `EarlyExit` says in which stage and
  on what a pass that goes no further stopped, `VerdictShown` what `FinalStatus` makes of the evidence
  there, which is the state the record is left in (a preflight's BLOCKED is not), and
  `StepShape` that any other step enters the next phase.
* `MigrationPipelineProofs`: `TypeCorrect`. `TypeOK` alone is not inductive: `sources[loc[r].row]`
  needs the row to exist and a version number needs a latest one. `TypeInv` adds `Locality`
  (what a request at each label relies on in its memory) and `HasLatest` of both tables. Then
  `VerdictEarnedForever`, `ActiveForever`,
  `CandidateBoundForever`, `PreflightForever`. Each strengthens its property from the tables to
  what requests hold in flight: `EarnedInv` (a report about to be saved is earned), `BindingInv`
  (the text a thread executes is the text of the candidate it remembers), `PreflightInv` (a
  candidate marked PASS is not a rejected text, and neither is a text a thread holds). Of the
  source `PreflightForever` (`ExecutedAsChecked`) says less, as the code does: `SourceInv` follows the
  version a run has checked through the later sessions (`CheckedSource` names the labels), and
  the text read for the execution is that version's as long as no other is active; a commit makes
  another active, so it is then no longer alone. `/execute`, which checks no source, is outside it. Steps that
  keep the report, the candidates and the memory of them are dealt with once (`Plain`).
  `VersionsAlwaysHistory` is the refinement of `VersionHistory` by each version table, for any
  number of requests: a commit is one step (`HistoryCommitted`, with `InBounds`: no number
  exceeds the count of versions), a stored preflight verdict is a stutter, and the serial half
  comes from `OrderInv`, below.
  `RequestsRunOut` is an action property: each session takes one request nearer to its end and
  moves no other. A source edit runs the pipeline a second time and could go round
  for ever if it inserted its source again; `RouteInv` says that it has committed one, and with
  `SomeActive` that it finds one. A request takes at most 26 steps (`SessionsLeft`).
  Of requests served one at a time: `SerialVersions`, from `OrderInv` (only one request is under
  way, and a transaction about to commit has seen every version), and `SerialAgreement`,
  `SerialVerifiedIsCurrent` and `SerialExecuteNeverVerifies`, from `SerialInv`. The properties
  speak of the tables between requests, and the tables disagree all along a request: `Tables` says
  how far at each of its places (a report saved before its record, a version committed before the
  reset), `Memory` what the request must remember for its verdict to be about the active versions,
  with one lemma per action (`ServeMove` and `ServeFinish` do the bookkeeping).
* `ProviderCallsProofs`: `TypeCorrect`, `OverrunAlwaysBounded`, `AttemptsAllUsed`,
  `DefinitiveAlwaysEnds`, `CallsAreOnePhase`. `LoopInv` says
  what each place of the loop knows of the time and of the last answer: a request is only sent
  within the budget, so a sleep begins at most one answer after it. For the refinement,
  `SavesReckoned` goes through the results a call can save and finds each among the outcomes of
  `Translate` or `DiagnoseAI`; before it is saved the phases see nothing. `CallsRunOut`: `StepsLeft`
  starts at most at `3 * limit + 3` and every step takes one of it.
* `RepairVerificationProofs`: `RepairTypeCorrect`, `RecheckRedundant`, `AcknowledgedSurvives`,
  `VerifiedLeavesNothing`, `PartialAlwaysFewer`, `ExecutionInScope`,
  `VerificationsAreOnePhase`, `VerificationRunsDown`. A proposal is `Passed` in all three places it can be (memory, row, the
  verification's copy), and `Passed` implies every clause of the second check. `Acknowledged` ties
  what was answered to the row under a strict mode. `Decided` ties a result to the two reports it
  was computed from, which the diff's lemmas then read: `PartialRule` is the one behind
  `PartialAlwaysFewer` (an outcome that persists, with nothing new, is a record counted as
  remaining). `Accepted`: a verification that executes has passed the checks, so its statement
  is `InScope`. For the refinement, `Explained` keeps the result tied to its reports up to the
  answer, and `CountsAllowed` shows that the diff's counts are those `CompareRepair` allows: a
  record remains as one record at most (`RemainsAsOne`, because no two discrepancies of a report
  share a signature), so what remains is the image of the records that do, and there is no more
  of it than there were records, and less once the target is gone (`RemainsFew`). That a set of
  positions has a first one is `LeastPosition`, from the well-foundedness of the naturals.
  `VerificationRunsDown`: `TurnsLeft` adds up what is left of the diagnosis, of the verification
  and of the outages, and 6 for the restart, which may set a verification back by 5: at most
  `13 + 2 * MaxOutages` steps in all.
* `DatasetStoreProofs`: `NothingOldServed` (`FreshInv`: nothing old outlives the first wipe, and
  the server serves only after it or over a current manifest), `AloneRegisteredIsReal`
  (`WholeInv`: while the only constructor is at work the manifest is not current, and its copied
  tables are), `UploadAlwaysWhole` (`UploadInv`: what is on the disk at each place of the upload).
* `SandboxExecutionProofs`: `SandboxTypeCorrect`, `SuccessAlwaysReadable`,
  `SuccessAlwaysHasItsResult`, `ExecutionsAreOnePhase`. `SandboxInv` is `FreshInv` and, of each execution, `Sound`: SUCCESS
  is only said by a worker that has closed its metadata, and what it read and what was hashed
  are both current, because requests are served over entries none of which is old. For the refinement, `Answered`
  adds that what a worker or a timer leaves is a status; an execution that is over never changes
  (`OneSide`, `StopSides`), so the phases see one step, when the last one returns or one raises.
  `ExecutionsRunDown`: `WorkLeft` counts what is left to the request and to its worker; every
  step, the timer's and a crash included, leaves less of it for one execution and no more for the
  other.
* `ValidationProofs`: `TypesHold`, `PassAlwaysAgrees`. While no mismatch was counted, `Accounted`
  says that every row of either side is in a group to come, in the group at hand, or in a pair,
  and `PairsOK` that the pairs are a matching of what they hold; when the groups are used up the
  pairs are the matching `Agree` asks for. On the vectorised path the unique keys give each row
  its one counterpart by a cardinality argument. There the code's comparison is `SameScalars`, and
  scalars that agree stand for values that do only if the columns are of the same families or
  `ScalarsAlike` (`Trusted`, `ScalarsAgree`). `ResultsOK` carries what PASS meant to the end, and a
  report that passes had its schema checked, which gives the families: `PassAlwaysAgrees` needs no
  hypothesis on the scalars. The three theorems below do need `ScalarsAlike`, and `NullsNormalized`
  and `BooleansCompared` are refuted without it.
  `FailAlwaysReal` is the converse. While rows are taken, `Fitting` says that if the results
  agree at all, what is left of a group can still be matched: taking the first row that agrees
  keeps it so by an exchange (`Separated`: the row that loses its counterpart is equal to the one
  that took it, so it gets that row's). `RowVerdictAlwaysExact` joins the two directions.
  `CountAlwaysDifferences`: `Counting` says that what was counted is the missing and extra keys and
  the differences of the pairs made so far, and that every other pair of equal keys is still to
  come; a group of unique keys has one row a side and adds the differences of one new pair.
  What the hypotheses are worth is proved too: `ExactIsSeparated` (columns of NULLs and
  integers, or of NULLs and texts, are `Separated` without an absolute tolerance),
  `SeparatedReorderedAlwaysPass` and `IdenticalAlwaysPass` state how much is true of the two
  promises that TLC refutes in section 4.
  `ValidationProgresses`: every step ends a check, takes up a key, closes its group, or takes a
  row, and undoes nothing of the loops around it (`NextIsProgress`), so no comparison runs on.

Only model-checked: the liveness properties `CallEnds` and `ExecutionReturns`. What their
systems' own steps contribute is proved (`CallsRunOut`, `ExecutionsRunDown`: no infinite behaviour of steps);
that a step is enabled and taken is a matter of fairness and ENABLED, which this prover does not
reason about. Also out of its reach: induction over data, and modules with RECURSIVE operators
(there are none here).

## 6. What is not modelled, and the plan

Not modelled: SQL itself (parsing, rewriting, tree comparison), DuckDB, prompts, the lab and
its fixtures, views and command lines; the file-backed repository of the assurance records;
event logs and summary texts; the scores and evidence items of a validation, and the structural
comparison of two analyses. Sets of outcomes stand for them where the verdict depends on them.
Next, in this order:

1. `Scoring`: the weights and the coverage, as pure operators; bounds proved.
2. `Diagnosis`: the consolidation of signals into discrepancies with their signatures, which
   `RepairVerification` takes as given.
3. Uploads under the preflight: the registry's listing as the source of its schema, over
   `DatasetStore`.
4. Proofs: a step measure for one constructor of `DatasetStore`, the last module that has none
   (requests construct again and again, so the measure is of one construction, not of the module),
   and the bounds of `Scoring` once it is written.

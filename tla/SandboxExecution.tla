--------------------------- MODULE SandboxExecution ---------------------------
(***************************************************************************)
(* Phase 3: the source and then the target statement of a pass are run by  *)
(* ExecutionService.execute over the built-in dataset of DatasetStore.     *)
(*                                                                         *)
(* The thread of the request refuses a statement, or hands it to a worker  *)
(* and waits ten seconds for it; leaving the executor joins the worker in  *)
(* any case.  The worker resolves the dataset again, mounts its files as   *)
(* views, runs the query, and writes result.parquet and metadata.json      *)
(* under the execution's id.  The request thread then adds a row to the    *)
(* database, if it is healthy.  get_execution reads the row, or else the   *)
(* metadata.                                                               *)
(*                                                                         *)
(* A statement is described by what the runner tells apart.                *)
(***************************************************************************)
EXTENDS AssuranceDecision, DatasetStore, FiniteSetsExt

CONSTANTS
  Statements,        \* the statements a pass may run
  RequirePostgres    \* settings.PERSISTENCE_MODE = "postgres"

Dialects == {"oracle", "snowflake", "teradata", "bigquery", "duckdb"}

(* The constructs an adapter of dialect_transforms rewrites.               *)
Constructs == {"keep_rank", "array_agg_first", "numeric_mask", "date_mask", "zeroifnull"}

Faults == {"none", "transpilation", "missing_function", "proprietary_signature",
           "standard_signature", "other"}

Statement ==
  [ upload    : BOOLEAN,            \* the dataset_id is an uploaded dataset's
    readOnly  : BOOLEAN,            \* passes validate_read_only_query
    parses    : BOOLEAN,            \* in its dialect
    unknown   : BOOLEAN,            \* calls a function its dialect does not know,
    claimed   : BOOLEAN,            \* which the translator claimed
    dialect   : Dialects,
    contains  : SUBSET Constructs,
    fault     : Faults ]            \* how SQLGlot or DuckDB fails on it

ASSUME SandboxAssumption ==
  /\ Statements \subseteq Statement
  /\ RequirePostgres \in BOOLEAN

VARIABLE run

vars == <<storeVars, run>>

Sides == {"SOURCE", "TARGET"}

RequestPc == {"ready", "waiting", "expired", "answered", "returned", "raised", "lost"}

WorkerPc == {"none", "resolving", "mounting", "querying", "exporting", "recording", "ended"}

Status == ExecutionStatus \cup {"NONE"}

(* hashed: the manifest execute resolved; seen: what the query read from   *)
(* each table; parquet, meta, row: what is stored under the execution id.  *)
Execution ==
  [ pc : RequestPc, fault : Faults, worker : WorkerPc, outcome : Status, status : Status,
    conf : Confidence, hashed : Contents, seen : SUBSET Contents,
    parquet : BOOLEAN, meta : {"absent", "torn", "SUCCESS"}, row : Status ]

Fresh ==
  [ pc |-> "ready", fault |-> "none", worker |-> "none", outcome |-> "NONE", status |-> "NONE",
    conf |-> "EXACT", hashed |-> "absent", seen |-> {},
    parquet |-> FALSE, meta |-> "absent", row |-> "NONE" ]

TypeOK ==
  /\ StoreTypeOK
  /\ run \in [Sides -> Execution]

Init ==
  /\ StoreInit
  /\ run = [s \in Sides |-> Fresh]
------------------------------------------------------------------------------
(* dialect_transforms: an adapter declares the risk of each rewriting, and *)
(* leaves every other node alone, as EXACT.                                *)
NodeRisk(dialect, construct) ==
  CASE dialect = "snowflake" /\ construct = "numeric_mask"                -> 2
    [] dialect = "snowflake" /\ construct = "date_mask"                   -> 1
    [] dialect = "oracle"    /\ construct = "keep_rank"                   -> 1
    [] dialect = "bigquery"  /\ construct = "array_agg_first"             -> 1
    [] OTHER                                                              -> 0

RiskName == [r \in 0..3 |-> <<"EXACT", "SAFE_EQUIVALENT", "APPROXIMATION", "UNKNOWN">>[r + 1]]

(* analyze_and_transform: the greatest risk of any node.  No adapter says  *)
(* that a node is not executable, so the analysis never refuses.           *)
Aggregate(q) == RiskName[Max({0} \cup {NodeRisk(q.dialect, n) : n \in q.contains})]

(* What run_duckdb_execution answers before it starts a worker.            *)
Refusal(side, q) ==
  CASE ~q.readOnly                                      -> "SECURITY_ERROR"
    [] q.readOnly /\ ~q.parses                          -> "EXECUTION_ERROR"
    [] q.readOnly /\ q.parses /\ side = "TARGET"
         /\ q.unknown /\ ~q.claimed                     -> "TARGET_CAPABILITY_UNSUPPORTED"
    [] q.readOnly /\ q.parses
         /\ (side = "SOURCE" \/ ~q.unknown \/ q.claimed)
         /\ q.fault = "transpilation"                    -> "EXECUTION_ERROR"
    [] OTHER                                            -> "NONE"

(* How the message of DuckDB's error is classified: a missing function, or *)
(* a signature of one that the dialect alone knows, is the sandbox's gap.  *)
FailureStatus(fault) ==
  IF fault \in {"missing_function", "proprietary_signature"} THEN "SANDBOX_LIMITATION"
  ELSE "EXECUTION_ERROR"
------------------------------------------------------------------------------
(* The thread of the request.                                              *)

Update(s, e) == run' = [run EXCEPT ![s] = e]

(* Mutant: the datasets are prepared while requests are taken already.     *)
TurnEarly(s) == run[s].pc = "ready" /\ (s = "TARGET" => run["SOURCE"].pc = "returned")

(* The orchestrator runs the target statement whatever became of the       *)
(* source statement, but not if an exception left execute.                 *)
Turn(s) == serving /\ run[s].pc = "ready" /\ (s = "TARGET" => run["SOURCE"].pc = "returned")

(* resolve_dataset: a directory of generated data with a manifest that can *)
(* be parsed; it does not look into uploads.                               *)
Resolvable(q) == ~q.upload /\ Readable

(* Mutant: the DatasetError is swallowed.                                  *)
UnresolvedSwallowed(s, q) ==
  /\ Turn(s) /\ ~Resolvable(q)
  /\ Update(s, [run[s] EXCEPT !.pc = "returned"])

(* The DatasetError of SandboxExecutor.execute is caught by nobody.        *)
Unresolved(s, q) ==
  /\ Turn(s) /\ ~Resolvable(q)
  /\ Update(s, [run[s] EXCEPT !.pc = "raised"])

Refuse(s, q) ==
  /\ Turn(s) /\ Resolvable(q) /\ Refusal(s, q) # "NONE"
  /\ Update(s, [run[s] EXCEPT !.pc = "answered", !.status = Refusal(s, q)])

Dispatch(s, q) ==
  /\ Turn(s) /\ Resolvable(q) /\ Refusal(s, q) = "NONE"
  /\ Update(s, [run[s] EXCEPT !.pc = "waiting", !.worker = "resolving", !.fault = q.fault,
                              !.conf = Aggregate(q), !.hashed = store[Manifest]])

(* The worker's locals go when it has been joined.                         *)
Joined(s) == [run[s] EXCEPT !.pc = "answered", !.worker = "none", !.outcome = "NONE",
                            !.fault = "none"]

(* Mutant: an exception of the worker is not taken for a result.           *)
CollectSuccess(s) ==
  /\ run[s].pc = "waiting" /\ run[s].outcome = "SUCCESS"
  /\ Update(s, [Joined(s) EXCEPT !.status = run[s].outcome])

Collect(s) ==
  /\ run[s].pc = "waiting" /\ run[s].worker = "ended"
  /\ Update(s, [Joined(s) EXCEPT !.status = run[s].outcome])

(* Ten seconds are over: the status is TIMEOUT, but the with statement of  *)
(* the executor waits for the worker.                                      *)
Expire(s) ==
  /\ run[s].pc = "waiting" /\ run[s].worker # "ended"
  /\ Update(s, [run[s] EXCEPT !.pc = "expired", !.status = "TIMEOUT"])

JoinWorker(s) ==
  /\ run[s].pc = "expired" /\ run[s].worker = "ended"
  /\ Update(s, Joined(s))

(* _persist_to_db: a database that is not healthy is passed over.          *)
ReturnResult(s) ==
  /\ run[s].pc = "answered"
  /\ Update(s, [run[s] EXCEPT !.pc = "returned"])

PersistRow(s) ==
  /\ run[s].pc = "answered"
  /\ Update(s, [run[s] EXCEPT !.pc = "returned", !.row = run[s].status])

(* Mutant: the error code takes the place of the status.                   *)
PersistFailsAsCode(s) ==
  /\ run[s].pc = "answered" /\ RequirePostgres
  /\ Update(s, [run[s] EXCEPT !.pc = "returned", !.status = "PERSISTENCE_FAILED"])

(* The commit fails: without PostgreSQL as a requirement that is logged.   *)
PersistFails(s) ==
  /\ run[s].pc = "answered" /\ RequirePostgres
  /\ Update(s, [run[s] EXCEPT !.pc = "returned", !.status = "EXECUTION_ERROR"])
------------------------------------------------------------------------------
(* The worker, _raw_execute_task.  The dataset may have changed since the  *)
(* request resolved it.                                                    *)

WorkerAt(s, pc) == run[s].worker = pc
Ended(s, status) == [run[s] EXCEPT !.worker = "ended", !.outcome = status]
AllFiles == \A t \in Tables : store[t] # "absent"

WorkerResolves(s) ==
  /\ WorkerAt(s, "resolving") /\ Readable
  /\ Update(s, [run[s] EXCEPT !.worker = "mounting"])

(* register_views binds every view to its file.                            *)
RegisterViews(s) ==
  /\ WorkerAt(s, "mounting") /\ AllFiles
  /\ Update(s, [run[s] EXCEPT !.worker = "querying"])

DatasetGone(s) ==
  /\ \/ WorkerAt(s, "resolving") /\ ~Readable
     \/ WorkerAt(s, "mounting") /\ ~AllFiles
  /\ Update(s, Ended(s, "DATASET_ERROR"))

(* The views read the files now.                                           *)
QuerySucceeds(s) ==
  /\ WorkerAt(s, "querying") /\ run[s].fault = "none" /\ AllFiles
  /\ Update(s, [run[s] EXCEPT !.worker = "exporting", !.seen = {store[t] : t \in Tables}])

QueryFails(s) ==
  /\ WorkerAt(s, "querying")
  /\ run[s].fault # "none" \/ ~AllFiles
  /\ Update(s, Ended(s, FailureStatus(run[s].fault)))

ExportParquet(s) ==
  /\ WorkerAt(s, "exporting")
  /\ Update(s, [run[s] EXCEPT !.parquet = TRUE, !.worker = "recording"])

(* metadata.json is opened for writing, filled and closed.                 *)
OpenMetadata(s) ==
  /\ WorkerAt(s, "recording") /\ run[s].meta = "absent"
  /\ Update(s, [run[s] EXCEPT !.meta = "torn"])

WriteMetadata(s) ==
  /\ WorkerAt(s, "recording") /\ run[s].meta = "torn"
  /\ Update(s, [Ended(s, "SUCCESS") EXCEPT !.meta = "SUCCESS"])

(* Mutant: a failure to write the metadata is logged and passed over.      *)
CaptureFailsQuietly(s) ==
  /\ run[s].worker \in {"exporting", "recording"}
  /\ Update(s, Ended(s, IF WorkerAt(s, "recording") THEN "SUCCESS" ELSE "EXECUTION_ERROR"))

(* A write to the results directory fails.                                 *)
CaptureFails(s) ==
  /\ run[s].worker \in {"exporting", "recording"}
  /\ Update(s, Ended(s, "EXECUTION_ERROR"))
------------------------------------------------------------------------------
InFlight(s) == run[s].pc \in {"waiting", "expired", "answered"}

(* The pass and its worker die with their process; files and rows stay.    *)
Stop ==
  /\ StopStore
  /\ run' = [s \in Sides |-> IF InFlight(s) \/ (run[s].pc = "ready" /\ run["SOURCE"].pc # "ready")
                             THEN [Joined(s) EXCEPT !.pc = "lost"]
                             ELSE run[s]]

RequestStep(s) == Collect(s) \/ JoinWorker(s) \/ ReturnResult(s) \/ PersistRow(s) \/ PersistFails(s)
QueryStep(s)   == QuerySucceeds(s) \/ QueryFails(s)
WorkerStep(s)  == \/ WorkerResolves(s) \/ RegisterViews(s) \/ DatasetGone(s)
                  \/ ExportParquet(s) \/ OpenMetadata(s) \/ WriteMetadata(s) \/ CaptureFails(s)

ExecutionStep(s) ==
  \/ \E q \in Statements : Unresolved(s, q) \/ Refuse(s, q) \/ Dispatch(s, q)
  \/ Expire(s) \/ RequestStep(s) \/ QueryStep(s) \/ WorkerStep(s)

Next ==
  \/ \E b \in Builders : BuilderStep(b) /\ UNCHANGED run
  \/ \E s \in Sides : ExecutionStep(s) /\ UNCHANGED storeVars
  \/ Stop

Spec == Init /\ [][Next]_vars

(* The threads run, and at most one of the two executions is in flight.    *)
(* Nothing makes a query end: FairSpec assumes it, BoundedSpec does not.   *)
ThreadStep == \E s \in Sides : RequestStep(s) \/ WorkerStep(s)
Timer      == \E s \in Sides : Expire(s)

BoundedSpec == Spec /\ WF_vars(ThreadStep /\ UNCHANGED storeVars)
                    /\ WF_vars(Timer /\ UNCHANGED storeVars)

FairSpec == Spec /\ WF_vars((ThreadStep \/ \E s \in Sides : QueryStep(s)) /\ UNCHANGED storeVars)
------------------------------------------------------------------------------
(* What get_execution may answer: the row, if the database answers it and  *)
(* has one, or else complete metadata.                                     *)
Answers(s) ==
  (IF run[s].meta = "SUCCESS" THEN {"SUCCESS"} ELSE {"NONE"})
    \cup (IF run[s].row # "NONE" THEN {run[s].row} ELSE {})

(* An execution reported as SUCCESS is found as SUCCESS for ever after,    *)
(* whatever becomes of the database and the server.                        *)
SuccessIsReadable ==
  \A s \in Sides : run[s].pc = "returned" /\ run[s].status = "SUCCESS"
                     => Answers(s) = {"SUCCESS"}

(* A SUCCESS that can be read, also after a crash in the middle, has its   *)
(* result, and the result is of the dataset that was hashed: every table   *)
(* in the version of the manifest the request resolved.                    *)
SuccessHasItsResult ==
  \A s \in Sides : "SUCCESS" \in Answers(s)
                     => run[s].parquet /\ run[s].seen = {run[s].hashed}

(* sandbox.py, guarantee 5: "Process/thread timeout bounds prevent         *)
(* infinite execution loops", so every request is answered.                *)
ExecutionReturns == (\E s \in Sides : InFlight(s)) ~> (\A s \in Sides : ~InFlight(s))

(* Both executions are one Execute step of EvidencePhases, or an exception *)
(* that ends the pass without a report.                                    *)
BothReturned == \A s \in Sides : run[s].pc = "returned"
BothSucceeded == BothReturned /\ \A s \in Sides : run[s].status = "SUCCESS"

Phases == INSTANCE EvidencePhases
  WITH stage <- IF BothSucceeded THEN "validate" ELSE "execute",
       halted <- BothReturned /\ ~BothSucceeded, blocked <- FALSE, prior <- FALSE,
       ev <- IF ~BothReturned THEN NoEvidence
             ELSE [NoEvidence EXCEPT !.src = run["SOURCE"].status, !.tgt = run["TARGET"].status,
                     !.srcConf = run["SOURCE"].conf, !.tgtConf = run["TARGET"].conf],
       repaired <- [conf |-> "EXACT", val |-> "NOT_RUN", before |-> 0],
       verdict <- IF \E s \in Sides : run[s].pc = "raised" THEN "RAISED" ELSE "NONE",
       SourcePreflights <- BOOLEAN, Confidences <- Confidence, MaxDiscs <- 0

ExecutionIsOnePhase ==
  [][\/ LET e == run' IN
        /\ \A s \in Sides : e[s].status \in ExecutionStatus /\ e[s].conf \in Confidence
        /\ Phases!Execute(e["SOURCE"].status, e["TARGET"].status,
                          e["SOURCE"].conf, e["TARGET"].conf)
     \/ Phases!PhaseRaises]_(Phases!vars)
==============================================================================

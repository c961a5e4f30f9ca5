------------------------ MODULE SandboxExecutionProofs ------------------------
(***************************************************************************)
(* Proofs about SandboxExecution, for every set of tables, of statements   *)
(* and of threads that construct registries.  The argument: requests are   *)
(* served over entries none of which is old (FreshInv), so the manifest    *)
(* that is hashed and the tables that are read are current; and SUCCESS is *)
(* only said by a worker that has closed its metadata.                     *)
(***************************************************************************)
EXTENDS SandboxExecution, DatasetStoreProofs

(* What is true of one execution at any time, up: the server is serving.   *)
Sound(e, up) ==
  /\ e.pc = "ready" => e = Fresh
  /\ e.worker # "none" => up /\ e.pc \in {"waiting", "expired"} /\ e.hashed = "current"
  /\ e.worker \in {"exporting", "recording"} => e.seen = {"current"}
  /\ e.worker = "recording" => e.parquet
  /\ e.worker \in {"resolving", "mounting", "querying", "exporting"} => e.meta = "absent"
  /\ e.meta = "SUCCESS" => /\ e.parquet /\ e.seen = {"current"} /\ e.hashed = "current"
                           /\ e.worker \in {"none", "ended"}
  /\ "SUCCESS" \in {e.outcome, e.status, e.row} => e.meta = "SUCCESS"
  /\ e.row # "NONE" => e.pc = "returned" /\ e.row = e.status

SandboxInv ==
  /\ FreshInv
  /\ run \in [Sides -> Execution]
  /\ \A s \in Sides : Sound(run[s], serving)

(* The greatest risk of an adapter's nodes is one of the declared ones, so *)
(* the confidence of a result has a name.                                  *)
LEMMA AggregateType == ASSUME NEW q \in Statement PROVE Aggregate(q) \in Confidence
<1> DEFINE S == {0} \cup {NodeRisk(q.dialect, n) : n \in q.contains}
<1>1. \A n : NodeRisk(q.dialect, n) \in {0, 1, 2}
  BY DEF NodeRisk
<1>2. S \subseteq {0, 1, 2} /\ 0 \in S
  BY <1>1
<1>3. \E x \in S : \A y \in S : x >= y
  <2>1. CASE 2 \in S
    BY <1>2, <2>1
  <2>2. CASE 2 \notin S /\ 1 \in S
    BY <1>2, <2>2
  <2>3. CASE 2 \notin S /\ 1 \notin S
    BY <1>2, <2>3
  <2> QED
    BY <2>1, <2>2, <2>3
<1>4. Max(S) \in {0, 1, 2}
  <2> HIDE DEF S
  <2> QED
    BY <1>2, <1>3 DEF Max
<1>5. RiskName[0] = "EXACT" /\ RiskName[1] = "SAFE_EQUIVALENT" /\ RiskName[2] = "APPROXIMATION"
  BY DEF RiskName
<1> QED
  BY <1>4, <1>5 DEF Aggregate, Confidence

(* A refusal has a status of its own, which is never SUCCESS.              *)
LEMMA RefusalType ==
  ASSUME NEW s, NEW q, Refusal(s, q) # "NONE"
  PROVE  Refusal(s, q) \in Status \ {"SUCCESS"}
BY DEF Refusal, Status, ExecutionStatus

(* A step that changes one execution, and leaves it sound.                 *)
LEMMA UpdateKeeps ==
  ASSUME run \in [Sides -> Execution], \A x \in Sides : Sound(run[x], serving),
         NEW s \in Sides, NEW e \in Execution, Sound(e, serving), run' = [run EXCEPT ![s] = e],
         UNCHANGED serving
  PROVE  run' \in [Sides -> Execution] /\ (\A x \in Sides : Sound(run'[x], serving'))
<1>1. \A x \in Sides : run'[x] = IF x = s THEN e ELSE run[x]
  OBVIOUS
<1> QED
  BY <1>1

(* What the request thread does leaves its execution sound: it only passes *)
(* on what the worker said.                                                *)
LEMMA RequestKeeps ==
  ASSUME SandboxInv, NEW s \in Sides, UNCHANGED serving,
         RequestStep(s) \/ Expire(s) \/ (\E q \in Statements :
                                            Unresolved(s, q) \/ Refuse(s, q) \/ Dispatch(s, q))
  PROVE  run' \in [Sides -> Execution] /\ (\A x \in Sides : Sound(run'[x], serving'))
<1> DEFINE Kept == run' \in [Sides -> Execution] /\ (\A x \in Sides : Sound(run'[x], serving'))
<1>0. run[s] \in Execution /\ Sound(run[s], serving)
  BY DEF SandboxInv
<1>k. ASSUME NEW e \in Execution, Sound(e, serving), run' = [run EXCEPT ![s] = e] PROVE Kept
  BY <1>k, UpdateKeeps DEF SandboxInv
<1>t. /\ {"NONE", "EXECUTION_ERROR", "TIMEOUT"} \subseteq Status
      /\ {"answered", "returned", "expired", "waiting", "raised"} \subseteq RequestPc
      /\ {"none", "resolving"} \subseteq WorkerPc
      /\ "none" \in Faults
  BY DEF Status, ExecutionStatus, RequestPc, WorkerPc, Faults
<1> HIDE DEF Kept
<1>1. CASE Collect(s)
  <2> DEFINE e == [Joined(s) EXCEPT !.status = run[s].outcome]
  <2>1. run' = [run EXCEPT ![s] = e]
    BY <1>1 DEF Update, Collect
  <2>2. e \in Execution
    BY <1>0, <1>t DEF Execution, Joined
  <2>3. Sound(e, serving)
    BY <1>1, <1>0 DEF Sound, Execution, Collect, Joined
  <2> HIDE DEF e
  <2> QED
    BY <2>1, <2>2, <2>3, <1>k DEF Kept
<1>2. CASE JoinWorker(s)
  <2> DEFINE e == Joined(s)
  <2>1. run' = [run EXCEPT ![s] = e]
    BY <1>2 DEF Update, JoinWorker
  <2>2. e \in Execution
    BY <1>0, <1>t DEF Execution, Joined
  <2>3. Sound(e, serving)
    BY <1>2, <1>0 DEF Sound, Execution, JoinWorker, Joined
  <2> HIDE DEF e
  <2> QED
    BY <2>1, <2>2, <2>3, <1>k DEF Kept
<1>3. CASE ReturnResult(s)
  <2> DEFINE e == [run[s] EXCEPT !.pc = "returned"]
  <2>1. run' = [run EXCEPT ![s] = e]
    BY <1>3 DEF Update, ReturnResult
  <2>2. e \in Execution
    BY <1>0, <1>t DEF Execution
  <2>3. Sound(e, serving)
    BY <1>3, <1>0 DEF Sound, Execution, ReturnResult
  <2> HIDE DEF e
  <2> QED
    BY <2>1, <2>2, <2>3, <1>k DEF Kept
<1>4. CASE PersistRow(s)
  <2> DEFINE e == [run[s] EXCEPT !.pc = "returned", !.row = run[s].status]
  <2>1. run' = [run EXCEPT ![s] = e]
    BY <1>4 DEF Update, PersistRow
  <2>2. e \in Execution
    BY <1>0, <1>t DEF Execution
  <2>3. Sound(e, serving)
    BY <1>4, <1>0 DEF Sound, Execution, PersistRow
  <2> HIDE DEF e
  <2> QED
    BY <2>1, <2>2, <2>3, <1>k DEF Kept
<1>5. CASE PersistFails(s)
  <2> DEFINE e == [run[s] EXCEPT !.pc = "returned", !.status = "EXECUTION_ERROR"]
  <2>1. run' = [run EXCEPT ![s] = e]
    BY <1>5 DEF Update, PersistFails
  <2>2. e \in Execution
    BY <1>0, <1>t DEF Execution
  <2>3. Sound(e, serving)
    BY <1>5, <1>0 DEF Sound, Execution, PersistFails
  <2> HIDE DEF e
  <2> QED
    BY <2>1, <2>2, <2>3, <1>k DEF Kept
<1>6. CASE Expire(s)
  <2> DEFINE e == [run[s] EXCEPT !.pc = "expired", !.status = "TIMEOUT"]
  <2>1. run' = [run EXCEPT ![s] = e]
    BY <1>6 DEF Update, Expire
  <2>2. e \in Execution
    BY <1>0, <1>t DEF Execution
  <2>3. Sound(e, serving)
    BY <1>6, <1>0 DEF Sound, Execution, Expire
  <2> HIDE DEF e
  <2> QED
    BY <2>1, <2>2, <2>3, <1>k DEF Kept
<1>7. ASSUME NEW q \in Statements, Unresolved(s, q) \/ Refuse(s, q) \/ Dispatch(s, q) PROVE Kept
  <2>0. serving /\ run[s].pc = "ready" /\ run[s] = Fresh
    BY <1>7, <1>0 DEF Unresolved, Refuse, Dispatch, Turn, Sound
  <2>1. CASE Unresolved(s, q)
    <3> DEFINE e == [run[s] EXCEPT !.pc = "raised"]
    <3>1. run' = [run EXCEPT ![s] = e]
      BY <2>1 DEF Update, Unresolved
    <3>2. e \in Execution
      BY <1>0, <1>t DEF Execution
    <3>3. Sound(e, serving)
      BY <2>0 DEF Sound, Fresh
    <3> HIDE DEF e
    <3> QED
      BY <3>1, <3>2, <3>3, <1>k
  <2>2. CASE Refuse(s, q)
    <3> DEFINE e == [run[s] EXCEPT !.pc = "answered", !.status = Refusal(s, q)]
    <3>0. Refusal(s, q) \in Status \ {"SUCCESS"}
      BY <2>2, RefusalType DEF Refuse
    <3>1. run' = [run EXCEPT ![s] = e]
      BY <2>2 DEF Update, Refuse
    <3>2. e \in Execution
      BY <1>0, <1>t, <3>0 DEF Execution
    <3>3. Sound(e, serving)
      BY <2>0, <3>0 DEF Sound, Fresh
    <3> HIDE DEF e
    <3> QED
      BY <3>1, <3>2, <3>3, <1>k
  <2>3. CASE Dispatch(s, q)
    <3> DEFINE e == [run[s] EXCEPT !.pc = "waiting", !.worker = "resolving", !.fault = q.fault,
                                   !.conf = Aggregate(q), !.hashed = store[Manifest]]
    <3>0. q \in Statement /\ q.fault \in Faults
      BY SandboxAssumption DEF Statement
    <3>1. Aggregate(q) \in Confidence
      BY <3>0, AggregateType
    <3>2. store[Manifest] = "current"
      BY <2>0, <2>3 DEF Dispatch, Resolvable, Readable, SandboxInv, FreshInv, NoOld, Entries
    <3>3. e \in Execution
      BY <1>0, <1>t, <3>0, <3>1, <3>2 DEF Execution, Contents
    <3>4. Sound(e, serving)
      BY <2>0, <3>2 DEF Sound, Fresh
    <3>5. run' = [run EXCEPT ![s] = e]
      BY <2>3 DEF Update, Dispatch
    <3> HIDE DEF e
    <3> QED
      BY <3>3, <3>4, <3>5, <1>k
  <2> QED
    BY <1>7, <2>1, <2>2, <2>3
<1> QED
  BY <1>1, <1>2, <1>3, <1>4, <1>5, <1>6, <1>7 DEF RequestStep, Kept

(* The worker reads entries that are current, and says SUCCESS when it has *)
(* closed its metadata and not before.                                     *)
LEMMA WorkerKeeps ==
  ASSUME SandboxInv, NEW s \in Sides, UNCHANGED serving, WorkerStep(s) \/ QueryStep(s)
  PROVE  run' \in [Sides -> Execution] /\ (\A x \in Sides : Sound(run'[x], serving'))
<1> DEFINE Kept == run' \in [Sides -> Execution] /\ (\A x \in Sides : Sound(run'[x], serving'))
<1>0. run[s] \in Execution /\ Sound(run[s], serving)
  BY DEF SandboxInv
<1>k. ASSUME NEW e \in Execution, Sound(e, serving), run' = [run EXCEPT ![s] = e] PROVE Kept
  BY <1>k, UpdateKeeps DEF SandboxInv
<1>t. /\ {"SUCCESS", "EXECUTION_ERROR", "DATASET_ERROR", "SANDBOX_LIMITATION"} \subseteq Status
      /\ {"mounting", "querying", "exporting", "recording", "ended"} \subseteq WorkerPc
      /\ \A f : FailureStatus(f) \in Status \ {"SUCCESS"}
  BY DEF Status, ExecutionStatus, WorkerPc, FailureStatus
<1> HIDE DEF Kept
<1>1. CASE WorkerResolves(s)
  <2> DEFINE e == [run[s] EXCEPT !.worker = "mounting"]
  <2>1. run' = [run EXCEPT ![s] = e]
    BY <1>1 DEF WorkerResolves, Update
  <2>2. e \in Execution
    BY <1>0, <1>t DEF Execution
  <2>3. Sound(e, serving)
    BY <1>1, <1>0, <1>t DEF Sound, Execution, WorkerResolves, WorkerAt
  <2> HIDE DEF e
  <2> QED
    BY <2>1, <2>2, <2>3, <1>k DEF Kept
<1>2. CASE RegisterViews(s)
  <2> DEFINE e == [run[s] EXCEPT !.worker = "querying"]
  <2>1. run' = [run EXCEPT ![s] = e]
    BY <1>2 DEF RegisterViews, Update
  <2>2. e \in Execution
    BY <1>0, <1>t DEF Execution
  <2>3. Sound(e, serving)
    BY <1>2, <1>0, <1>t DEF Sound, Execution, RegisterViews, WorkerAt
  <2> HIDE DEF e
  <2> QED
    BY <2>1, <2>2, <2>3, <1>k DEF Kept
<1>3. CASE DatasetGone(s)
  <2> DEFINE e == Ended(s, "DATASET_ERROR")
  <2>1. run' = [run EXCEPT ![s] = e]
    BY <1>3 DEF DatasetGone, Update
  <2>2. e \in Execution
    BY <1>0, <1>t DEF Execution, Ended
  <2>3. Sound(e, serving)
    BY <1>3, <1>0, <1>t DEF Sound, Execution, DatasetGone, WorkerAt, Ended
  <2> HIDE DEF e
  <2> QED
    BY <2>1, <2>2, <2>3, <1>k DEF Kept
<1>4. CASE QueryFails(s)
  <2> DEFINE e == Ended(s, FailureStatus(run[s].fault))
  <2>1. run' = [run EXCEPT ![s] = e]
    BY <1>4 DEF QueryFails, Update
  <2>2. e \in Execution
    BY <1>0, <1>t DEF Execution, Ended
  <2>3. Sound(e, serving)
    BY <1>4, <1>0, <1>t DEF Sound, Execution, QueryFails, WorkerAt, Ended
  <2> HIDE DEF e
  <2> QED
    BY <2>1, <2>2, <2>3, <1>k DEF Kept
<1>5. CASE ExportParquet(s)
  <2> DEFINE e == [run[s] EXCEPT !.parquet = TRUE, !.worker = "recording"]
  <2>1. run' = [run EXCEPT ![s] = e]
    BY <1>5 DEF ExportParquet, Update
  <2>2. e \in Execution
    BY <1>0, <1>t DEF Execution
  <2>3. Sound(e, serving)
    BY <1>5, <1>0, <1>t DEF Sound, Execution, ExportParquet, WorkerAt
  <2> HIDE DEF e
  <2> QED
    BY <2>1, <2>2, <2>3, <1>k DEF Kept
<1>6. CASE OpenMetadata(s)
  <2> DEFINE e == [run[s] EXCEPT !.meta = "torn"]
  <2>1. run' = [run EXCEPT ![s] = e]
    BY <1>6 DEF OpenMetadata, Update
  <2>2. e \in Execution
    BY <1>0, <1>t DEF Execution
  <2>3. Sound(e, serving)
    BY <1>6, <1>0, <1>t DEF Sound, Execution, OpenMetadata, WorkerAt
  <2> HIDE DEF e
  <2> QED
    BY <2>1, <2>2, <2>3, <1>k DEF Kept
<1>7. CASE WriteMetadata(s)
  <2> DEFINE e == [Ended(s, "SUCCESS") EXCEPT !.meta = "SUCCESS"]
  <2>1. run' = [run EXCEPT ![s] = e]
    BY <1>7 DEF WriteMetadata, Update
  <2>2. e \in Execution
    BY <1>0, <1>t DEF Execution, Ended
  <2>3. Sound(e, serving)
    BY <1>7, <1>0, <1>t DEF Sound, Execution, WriteMetadata, WorkerAt, Ended
  <2> HIDE DEF e
  <2> QED
    BY <2>1, <2>2, <2>3, <1>k DEF Kept
<1>8. CASE CaptureFails(s)
  <2> DEFINE e == Ended(s, "EXECUTION_ERROR")
  <2>1. run' = [run EXCEPT ![s] = e]
    BY <1>8 DEF CaptureFails, Update
  <2>2. e \in Execution
    BY <1>0, <1>t DEF Execution, Ended
  <2>3. Sound(e, serving)
    BY <1>8, <1>0, <1>t DEF Sound, Execution, CaptureFails, WorkerAt, Ended
  <2> HIDE DEF e
  <2> QED
    BY <2>1, <2>2, <2>3, <1>k DEF Kept
<1>9. CASE QuerySucceeds(s)
  <2> DEFINE e == [run[s] EXCEPT !.worker = "exporting", !.seen = {store[t] : t \in Tables}]
  <2>1. run' = [run EXCEPT ![s] = e]
    BY <1>9 DEF QuerySucceeds, Update
  <2>2. \A t \in Tables : store[t] = "current"
    <3>1. serving
      BY <1>9, <1>0 DEF QuerySucceeds, WorkerAt, Sound
    <3>2. \A t \in Tables : store[t] \in Contents \ {"old", "torn", "absent"}
      BY <1>9, <3>1 DEF QuerySucceeds, AllFiles, SandboxInv, FreshInv, StoreTypeOK, NoOld, Entries
    <3> QED
      BY <3>2 DEF Contents
  <2>3. {store[t] : t \in Tables} = {"current"}
    BY <2>2, StoreAssumption
  <2>4. e \in Execution
    BY <1>0, <1>t, <2>3 DEF Execution, Contents
  <2>5. Sound(e, serving)
    BY <1>9, <1>0, <2>3 DEF Sound, Execution, QuerySucceeds, WorkerAt
  <2> HIDE DEF e
  <2> QED
    BY <2>1, <2>4, <2>5, <1>k DEF Kept
<1> QED
  BY <1>1, <1>2, <1>3, <1>4, <1>5, <1>6, <1>7, <1>8, <1>9 DEF WorkerStep, QueryStep, Kept

(* A crash takes the workers with it; what they had stored stays.          *)
LEMMA StopKeeps ==
  ASSUME SandboxInv, Stop
  PROVE  run' \in [Sides -> Execution] /\ (\A x \in Sides : Sound(run'[x], serving'))
<1>1. ASSUME NEW s \in Sides PROVE run'[s] \in Execution /\ Sound(run'[s], serving')
  <2>0. run[s] \in Execution /\ Sound(run[s], serving)
    BY DEF SandboxInv
  <2>t. /\ {"answered", "lost"} \subseteq RequestPc /\ "none" \in WorkerPc
        /\ "NONE" \in Status /\ "none" \in Faults
    BY DEF RequestPc, WorkerPc, Status, Faults
  <2>1. CASE InFlight(s) \/ (run[s].pc = "ready" /\ run["SOURCE"].pc # "ready")
    <3>1. run'[s] = [Joined(s) EXCEPT !.pc = "lost"]
      BY <2>1 DEF Stop
    <3>2. [Joined(s) EXCEPT !.pc = "lost"] \in Execution
      BY <2>0, <2>t DEF Execution, Joined
    <3>3. Sound([Joined(s) EXCEPT !.pc = "lost"], serving')
      BY <2>0, <2>1 DEF Sound, Execution, Joined, InFlight, Fresh
    <3> QED
      BY <3>1, <3>2, <3>3
  <2>2. CASE ~(InFlight(s) \/ (run[s].pc = "ready" /\ run["SOURCE"].pc # "ready"))
    <3>1. run'[s] = run[s]
      BY <2>2 DEF Stop
    <3>2. run[s].worker = "none"
      BY <2>0, <2>2 DEF Sound, InFlight
    <3> QED
      BY <2>0, <3>1, <3>2 DEF Sound
  <2> QED
    BY <2>1, <2>2
<1>2. run' = [s \in Sides |-> run'[s]]
  BY DEF Stop
<1> QED
  BY <1>1, <1>2

(* Every step keeps SandboxInv.                                            *)
LEMMA SandboxNext == SandboxInv /\ [Next]_vars => SandboxInv'
<1> SUFFICES ASSUME SandboxInv, [Next]_vars PROVE SandboxInv'
  OBVIOUS
<1> USE DEF SandboxInv
<1>1. CASE UNCHANGED vars
  <2>1. FreshInv'
    BY <1>1, FreshNext DEF vars
  <2> QED
    BY <1>1, <2>1 DEF vars, storeVars
<1>2. ASSUME NEW b \in Builders, BuilderStep(b), UNCHANGED run PROVE SandboxInv'
  <2>1. FreshInv'
    BY <1>2, FreshBuilderStep
  <2>2. serving => serving'
    BY <1>2 DEF BuilderStep, Construct, BeginWipe, RemoveDir, WipeRaises, MakeDir,
                OpenManifest, WriteManifest, SeedFails, Unlink, CopyTable
  <2> QED
    BY <1>2, <2>1, <2>2 DEF Sound
<1>3. ASSUME NEW s \in Sides, ExecutionStep(s), UNCHANGED storeVars PROVE SandboxInv'
  <2>1. FreshInv'
    BY <1>3, FreshNext
  <2>2. run' \in [Sides -> Execution] /\ (\A x \in Sides : Sound(run'[x], serving'))
    BY <1>3, RequestKeeps, WorkerKeeps DEF ExecutionStep, storeVars
  <2> QED
    BY <2>1, <2>2
<1>4. CASE Stop
  <2>1. FreshInv'
    BY <1>4, FreshStop DEF Stop
  <2> QED
    BY <1>4, <2>1, StopKeeps
<1> QED
  BY <1>1, <1>2, <1>3, <1>4 DEF Next

(* The invariant holds in every behaviour.                                 *)
LEMMA SandboxAlways == Spec => []SandboxInv
<1>1. Init => SandboxInv
  <2> SUFFICES ASSUME Init PROVE SandboxInv
    OBVIOUS
  <2>1. FreshInv
    BY FreshInit DEF Init
  <2>2. Fresh \in Execution /\ Sound(Fresh, serving)
    BY DEF Fresh, Execution, RequestPc, WorkerPc, Faults, Status, ExecutionStatus,
           Confidence, Contents, Sound
  <2> QED
    BY <2>1, <2>2 DEF Init, SandboxInv
<1>2. SandboxInv /\ [Next]_vars => SandboxInv'
  BY SandboxNext
<1> QED
  BY <1>1, <1>2, PTL DEF Spec

(* Every execution is of its type, over every dataset.                     *)
THEOREM SandboxTypeCorrect == Spec => []TypeOK
<1>1. SandboxInv => TypeOK
  BY DEF SandboxInv, FreshInv, TypeOK
<1> QED
  BY <1>1, SandboxAlways, PTL

(* Whatever thread constructs a registry meanwhile, and whatever the       *)
(* database does: an execution reported as SUCCESS is found as SUCCESS.    *)
THEOREM SuccessAlwaysReadable == Spec => []SuccessIsReadable
<1>1. SandboxInv => SuccessIsReadable
  BY DEF SandboxInv, Sound, SuccessIsReadable, Answers
<1> QED
  BY <1>1, SandboxAlways, PTL

(* A SUCCESS that can be read has its result, and the result is of the     *)
(* dataset that was hashed, however many registries are being constructed. *)
THEOREM SuccessAlwaysHasItsResult == Spec => []SuccessHasItsResult
<1>1. SandboxInv => SuccessHasItsResult
  BY DEF SandboxInv, Sound, SuccessHasItsResult, Answers
<1> QED
  BY <1>1, SandboxAlways, PTL
------------------------------------------------------------------------------
(* An answer that is ready is one of the statuses of an execution.         *)
Answered(e) ==
  /\ e.worker = "ended" => e.outcome \in ExecutionStatus
  /\ e.pc \in {"expired", "answered", "returned"} => e.status \in ExecutionStatus

(* An execution that has returned, or has raised, is over.                 *)
Over(e) == e.pc \in {"returned", "raised"}

(* A step of one execution leaves the other alone, starts from one that is *)
(* not over, and only gives answers that are statuses.                     *)
LEMMA OneSide ==
  ASSUME SandboxInv, NEW s \in Sides, Answered(run[s]), ExecutionStep(s)
  PROVE  /\ \A x \in Sides \ {s} : run'[x] = run[x]
         /\ ~Over(run[s]) /\ Answered(run'[s])
<1> DEFINE Good(e) == ~Over(run[s]) /\ Answered(e)
<1>0. run \in [Sides -> Execution] /\ run[s] \in Execution /\ Sound(run[s], serving)
  BY DEF SandboxInv
<1>k. ASSUME NEW e, Update(s, e), Good(e)
      PROVE  /\ \A x \in Sides \ {s} : run'[x] = run[x]
             /\ ~Over(run[s]) /\ Answered(run'[s])
  BY <1>0, <1>k DEF Update
<1>1. ASSUME NEW q \in Statements, Unresolved(s, q) \/ Refuse(s, q) \/ Dispatch(s, q)
      PROVE  \E e : Update(s, e) /\ Good(e)
  <2>0. run[s].pc = "ready" /\ run[s] = Fresh
    BY <1>1, <1>0 DEF Unresolved, Refuse, Dispatch, Turn, Sound
  <2>1. CASE Unresolved(s, q)
    <3>1. Good([run[s] EXCEPT !.pc = "raised"])
      BY <2>0 DEF Answered, Over, Fresh
    <3> QED
      BY <2>1, <3>1 DEF Unresolved
  <2>2. CASE Refuse(s, q)
    <3>1. Refusal(s, q) \in ExecutionStatus
      BY <2>2 DEF Refuse, Refusal, ExecutionStatus
    <3>2. Good([run[s] EXCEPT !.pc = "answered", !.status = Refusal(s, q)])
      BY <2>0, <3>1 DEF Answered, Over, Fresh
    <3> QED
      BY <2>2, <3>2 DEF Refuse
  <2>3. CASE Dispatch(s, q)
    <3>1. Good([run[s] EXCEPT !.pc = "waiting", !.worker = "resolving", !.fault = q.fault,
                              !.conf = Aggregate(q), !.hashed = store[Manifest]])
      BY <2>0 DEF Answered, Over, Fresh
    <3> QED
      BY <2>3, <3>1 DEF Dispatch
  <2> QED
    BY <1>1, <2>1, <2>2, <2>3
<1>2. ASSUME RequestStep(s) \/ Expire(s) PROVE \E e : Update(s, e) /\ Good(e)
  <2>1. CASE Collect(s)
    <3>1. Good([Joined(s) EXCEPT !.status = run[s].outcome])
      BY <2>1, <1>0 DEF Collect, Joined, Answered, Over, Execution
    <3> QED
      BY <2>1, <3>1 DEF Collect
  <2>2. CASE Expire(s)
    <3>1. Good([run[s] EXCEPT !.pc = "expired", !.status = "TIMEOUT"])
      BY <2>2, <1>0 DEF Expire, Answered, Over, Execution, ExecutionStatus
    <3> QED
      BY <2>2, <3>1 DEF Expire
  <2>3. CASE JoinWorker(s)
    <3>1. Good(Joined(s))
      BY <2>3, <1>0 DEF JoinWorker, Joined, Answered, Over, Execution
    <3> QED
      BY <2>3, <3>1 DEF JoinWorker
  <2>4. CASE ReturnResult(s)
    <3>1. Good([run[s] EXCEPT !.pc = "returned"])
      BY <2>4, <1>0 DEF ReturnResult, Answered, Over, Execution
    <3> QED
      BY <2>4, <3>1 DEF ReturnResult
  <2>5. CASE PersistRow(s)
    <3>1. Good([run[s] EXCEPT !.pc = "returned", !.row = run[s].status])
      BY <2>5, <1>0 DEF PersistRow, Answered, Over, Execution
    <3> QED
      BY <2>5, <3>1 DEF PersistRow
  <2>6. CASE PersistFails(s)
    <3>1. Good([run[s] EXCEPT !.pc = "returned", !.status = "EXECUTION_ERROR"])
      BY <2>6, <1>0 DEF PersistFails, Answered, Over, Execution, ExecutionStatus
    <3> QED
      BY <2>6, <3>1 DEF PersistFails
  <2> QED
    BY <1>2, <2>1, <2>2, <2>3, <2>4, <2>5, <2>6 DEF RequestStep
<1>3. ASSUME WorkerStep(s) \/ QueryStep(s) PROVE \E e : Update(s, e) /\ Good(e)
  <2>0. run[s].pc \in {"waiting", "expired"}
    BY <1>3, <1>0 DEF WorkerStep, QueryStep, WorkerAt, WorkerResolves, RegisterViews,
                      DatasetGone, ExportParquet, OpenMetadata, WriteMetadata, CaptureFails,
                      QuerySucceeds, QueryFails, Sound
  <2>1. ASSUME NEW w \in ExecutionStatus
        PROVE  /\ Good(Ended(s, w))
               /\ Good([Ended(s, w) EXCEPT !.meta = "SUCCESS"])
    BY <2>0, <1>0 DEF Ended, Answered, Over, Execution
  <2>2. /\ {"SUCCESS", "EXECUTION_ERROR", "DATASET_ERROR"} \subseteq ExecutionStatus
        /\ \A f : FailureStatus(f) \in ExecutionStatus
    BY DEF ExecutionStatus, FailureStatus
  <2>3. CASE WorkerResolves(s)
    <3>1. Good([run[s] EXCEPT !.worker = "mounting"])
      BY <2>0, <1>0 DEF Answered, Over, Execution
    <3> QED
      BY <2>3, <3>1 DEF WorkerResolves
  <2>4. CASE RegisterViews(s)
    <3>1. Good([run[s] EXCEPT !.worker = "querying"])
      BY <2>0, <1>0 DEF Answered, Over, Execution
    <3> QED
      BY <2>4, <3>1 DEF RegisterViews
  <2>5. CASE ExportParquet(s)
    <3>1. Good([run[s] EXCEPT !.parquet = TRUE, !.worker = "recording"])
      BY <2>0, <1>0 DEF Answered, Over, Execution
    <3> QED
      BY <2>5, <3>1 DEF ExportParquet
  <2>6. CASE OpenMetadata(s)
    <3>1. Good([run[s] EXCEPT !.meta = "torn"])
      BY <2>0, <1>0 DEF Answered, Over, Execution
    <3> QED
      BY <2>6, <3>1 DEF OpenMetadata
  <2>7. CASE QuerySucceeds(s)
    <3>1. Good([run[s] EXCEPT !.worker = "exporting", !.seen = {store[t] : t \in Tables}])
      BY <2>0, <1>0 DEF Answered, Over, Execution
    <3> QED
      BY <2>7, <3>1 DEF QuerySucceeds
  <2>8. CASE WriteMetadata(s)
    BY <2>1, <2>2, <2>8 DEF WriteMetadata
  <2>9. CASE DatasetGone(s) \/ CaptureFails(s) \/ QueryFails(s)
    BY <2>1, <2>2, <2>9 DEF DatasetGone, CaptureFails, QueryFails
  <2> QED
    BY <1>3, <2>3, <2>4, <2>5, <2>6, <2>7, <2>8, <2>9 DEF WorkerStep, QueryStep
<1> HIDE DEF Good
<1>4. \E e : Update(s, e) /\ Good(e)
  BY <1>1, <1>2, <1>3 DEF ExecutionStep
<1> QED
  BY <1>4, <1>k

(* A crash ends nothing that was not over, and leaves what was.            *)
LEMMA StopSides ==
  ASSUME SandboxInv, \A x \in Sides : Answered(run[x]), Stop, NEW s \in Sides
  PROVE  /\ Over(run[s]) => run'[s] = run[s]
         /\ ~Over(run[s]) => ~Over(run'[s])
         /\ Answered(run'[s])
<1>0. run[s] \in Execution /\ Answered(run[s])
  BY DEF SandboxInv
<1>1. run'[s] = IF InFlight(s) \/ (run[s].pc = "ready" /\ run["SOURCE"].pc # "ready")
                THEN [Joined(s) EXCEPT !.pc = "lost"] ELSE run[s]
  BY DEF Stop
<1>2. /\ ~Over([Joined(s) EXCEPT !.pc = "lost"])
      /\ Answered([Joined(s) EXCEPT !.pc = "lost"])
  BY <1>0 DEF Over, Answered, Joined, Execution
<1> QED
  BY <1>0, <1>1, <1>2 DEF InFlight, Over

(* Whatever step is taken, its answers are statuses.                       *)
LEMMA AnsweredStep ==
  ASSUME SandboxInv, \A x \in Sides : Answered(run[x]), [Next]_vars
  PROVE  \A x \in Sides : Answered(run'[x])
<1>1. ASSUME NEW s \in Sides, ExecutionStep(s) PROVE \A x \in Sides : Answered(run'[x])
  BY <1>1, OneSide
<1>2. CASE Stop
  BY <1>2, StopSides
<1>3. CASE run' = run
  BY <1>3
<1> QED
  BY <1>1, <1>2, <1>3 DEF Next, vars

(* Nothing that is over changes, so a step either shows nothing, or makes  *)
(* the last of the two executions return, or raises.                       *)
LEMMA OnePhaseStep ==
  ASSUME SandboxInv, \A x \in Sides : Answered(run[x]), [Next]_vars
  PROVE  [\/ LET e == run' IN
             /\ \A s \in Sides : e[s].status \in ExecutionStatus /\ e[s].conf \in Confidence
             /\ Phases!Execute(e["SOURCE"].status, e["TARGET"].status,
                               e["SOURCE"].conf, e["TARGET"].conf)
          \/ Phases!PhaseRaises]_(Phases!vars)
<1> DEFINE Raised == \E s \in Sides : run[s].pc = "raised"
           Step == \/ LET e == run' IN
                      /\ \A s \in Sides : /\ e[s].status \in ExecutionStatus
                                          /\ e[s].conf \in Confidence
                      /\ Phases!Execute(e["SOURCE"].status, e["TARGET"].status,
                                        e["SOURCE"].conf, e["TARGET"].conf)
                   \/ Phases!PhaseRaises
<1>0. /\ Sides = {"SOURCE", "TARGET"}
      /\ \A x \in Sides : run[x] \in Execution /\ run'[x] \in Execution
      /\ \A x \in Sides : Answered(run'[x])
  BY SandboxNext, AnsweredStep DEF SandboxInv, Sides
<1>1. ASSUME \A x \in Sides : Over(run[x]) => run'[x] = run[x],
             \A x \in Sides : ~Over(run[x]) => ~Over(run'[x])
      PROVE  UNCHANGED Phases!vars
  <2>1. BothReturned' = BothReturned /\ Raised' = Raised
    BY <1>0, <1>1 DEF Over, BothReturned
  <2>2. CASE BothReturned
    <3>1. run'["SOURCE"] = run["SOURCE"] /\ run'["TARGET"] = run["TARGET"]
      BY <1>0, <1>1, <2>2 DEF Over, BothReturned
    <3>2. BothSucceeded' = BothSucceeded
      BY <1>0, <2>1, <3>1 DEF BothSucceeded
    <3> QED
      BY <2>1, <3>1, <3>2 DEF Phases!vars
  <2>3. CASE ~BothReturned
    BY <2>1, <2>3 DEF Phases!vars, BothSucceeded
  <2> QED
    BY <2>2, <2>3
<1>2. CASE Stop
  BY <1>1, <1>2, StopSides
<1>3. CASE run' = run
  BY <1>1, <1>3
<1>4. ASSUME NEW s \in Sides, ExecutionStep(s) PROVE Step \/ UNCHANGED Phases!vars
  <2>0. /\ \A x \in Sides \ {s} : run'[x] = run[x]
        /\ ~Over(run[s])
    BY <1>4, OneSide
  <2>1. ~BothReturned /\ ~BothSucceeded
    BY <2>0 DEF BothReturned, BothSucceeded, Over
  <2>2. CASE ~Over(run'[s])
    BY <1>1, <2>0, <2>2
  <2>3. CASE run'[s].pc = "raised"
    <3>1. ~BothReturned' /\ ~BothSucceeded' /\ Raised'
      BY <2>3 DEF BothReturned, BothSucceeded
    <3>2. CASE Raised
      BY <2>1, <3>1, <3>2 DEF Phases!vars
    <3>3. CASE ~Raised
      BY <2>1, <3>1, <3>3 DEF Phases!PhaseRaises, Phases!Running
    <3> QED
      BY <3>2, <3>3
  <2>4. CASE run'[s].pc = "returned" /\ ~BothReturned'
    <3>1. Raised' = Raised
      BY <2>0, <2>4 DEF Over
    <3> QED
      BY <2>1, <2>4, <3>1 DEF Phases!vars, BothSucceeded
  <2>5. CASE BothReturned'
    <3>1. ~Raised /\ ~Raised'
      BY <2>0, <2>5 DEF BothReturned, Over
    <3>2. \A x \in Sides : run'[x].status \in ExecutionStatus /\ run'[x].conf \in Confidence
      BY <1>0, <2>5 DEF Answered, BothReturned, Execution
    <3>3. BothSucceeded' <=> run'["SOURCE"].status = "SUCCESS" /\ run'["TARGET"].status = "SUCCESS"
      BY <1>0, <2>5 DEF BothSucceeded
    <3>4. Phases!Execute(run'["SOURCE"].status, run'["TARGET"].status,
                         run'["SOURCE"].conf, run'["TARGET"].conf)
      BY <2>1, <2>5, <3>1, <3>3 DEF Phases!Execute, Phases!Running, Phases!Enter, Phases!Halt
    <3> QED
      BY <3>2, <3>4
  <2> QED
    BY <2>2, <2>3, <2>4, <2>5 DEF Over
<1> QED
  BY <1>2, <1>3, <1>4 DEF Next, vars

(* The two executions, their workers, timers, crashes and the registries   *)
(* that are constructed meanwhile are together one Execute of the phases.  *)
THEOREM ExecutionsAreOnePhase == Spec => ExecutionIsOnePhase
<1> DEFINE AllAnswered == \A x \in Sides : Answered(run[x])
<1>1. Init => AllAnswered
  BY DEF Init, Fresh, Answered
<1>2. SandboxInv /\ AllAnswered /\ [Next]_vars => AllAnswered'
  BY AnsweredStep
<1>3. Spec => []AllAnswered
  BY <1>1, <1>2, SandboxAlways, PTL DEF Spec
<1>4. SandboxInv /\ AllAnswered /\ [Next]_vars
        => [\/ LET e == run' IN
               /\ \A s \in Sides : e[s].status \in ExecutionStatus /\ e[s].conf \in Confidence
               /\ Phases!Execute(e["SOURCE"].status, e["TARGET"].status,
                                 e["SOURCE"].conf, e["TARGET"].conf)
            \/ Phases!PhaseRaises]_(Phases!vars)
  BY OnePhaseStep
<1> QED
  BY <1>3, <1>4, SandboxAlways, PTL DEF Spec, ExecutionIsOnePhase
------------------------------------------------------------------------------
(* What an execution still has to do: the places its request thread has    *)
(* left, and those of its worker.                                          *)
RequestLeft(e) ==
  CASE e.pc = "ready"    -> 10
    [] e.pc = "waiting"  -> 3
    [] e.pc = "expired"  -> 2
    [] e.pc = "answered" -> 1
    [] OTHER             -> 0

WorkerLeft(e) ==
  CASE e.worker = "resolving" -> 6
    [] e.worker = "mounting"  -> 5
    [] e.worker = "querying"  -> 4
    [] e.worker = "exporting" -> 3
    [] e.worker = "recording" -> IF e.meta = "absent" THEN 2 ELSE 1
    [] OTHER                  -> 0

WorkLeft(e) == RequestLeft(e) + WorkerLeft(e)

WorkLess ==
  /\ \A s \in Sides : WorkLeft(run'[s]) <= WorkLeft(run[s])
  /\ \E s \in Sides : WorkLeft(run'[s]) < WorkLeft(run[s])

LEMMA WorkNat == \A e : WorkLeft(e) \in 0..16
BY DEF WorkLeft, RequestLeft, WorkerLeft

(* Nothing a thread of an execution does is done twice.                    *)
LEMMA SideWorksLess ==
  ASSUME SandboxInv, NEW s \in Sides, ExecutionStep(s)
  PROVE  /\ \A x \in Sides \ {s} : run'[x] = run[x]
         /\ WorkLeft(run'[s]) < WorkLeft(run[s])
<1> DEFINE Less == /\ \A x \in Sides \ {s} : run'[x] = run[x]
                   /\ WorkLeft(run'[s]) < WorkLeft(run[s])
<1>0. run[s] \in Execution /\ Sound(run[s], serving)
  BY DEF SandboxInv
<1>k. ASSUME NEW e, Update(s, e), WorkLeft(e) < WorkLeft(run[s]) PROVE Less
  <2>1. run' = [run EXCEPT ![s] = e] /\ DOMAIN run = Sides
    BY <1>k DEF Update, SandboxInv
  <2> QED  BY <1>k, <2>1
<1> SUFFICES Less
  OBVIOUS
<1> HIDE DEF Less
<1>1. ASSUME NEW q \in Statements, Unresolved(s, q) \/ Refuse(s, q) \/ Dispatch(s, q)
      PROVE  Less
  <2>0. run[s].pc = "ready" /\ run[s].worker = "none"
    BY <1>0, <1>1 DEF Unresolved, Refuse, Dispatch, Turn, Sound, Fresh
  <2>1. CASE Unresolved(s, q)
    <3> DEFINE e == [run[s] EXCEPT !.pc = "raised"]
    <3>1. Update(s, e)
      BY <2>1 DEF Unresolved
    <3>2. e.pc = "raised" /\ e.worker = "none"
      BY <1>0, <2>0 DEF Execution, RequestPc
    <3> HIDE DEF e
    <3>3. WorkLeft(e) < WorkLeft(run[s])
      BY <3>2, <2>0 DEF WorkLeft, RequestLeft, WorkerLeft
    <3> QED  BY <1>k, <3>1, <3>3
  <2>2. CASE Refuse(s, q)
    <3> DEFINE e == [run[s] EXCEPT !.pc = "answered", !.status = Refusal(s, q)]
    <3>1. Update(s, e)
      BY <2>2 DEF Refuse
    <3>2. e.pc = "answered" /\ e.worker = "none"
      BY <1>0, <2>0 DEF Execution, RequestPc
    <3> HIDE DEF e
    <3>3. WorkLeft(e) < WorkLeft(run[s])
      BY <3>2, <2>0 DEF WorkLeft, RequestLeft, WorkerLeft
    <3> QED  BY <1>k, <3>1, <3>3
  <2>3. CASE Dispatch(s, q)
    <3> DEFINE e == [run[s] EXCEPT !.pc = "waiting", !.worker = "resolving", !.fault = q.fault,
                                   !.conf = Aggregate(q), !.hashed = store[Manifest]]
    <3>1. Update(s, e)
      BY <2>3 DEF Dispatch
    <3>2. e.pc = "waiting" /\ e.worker = "resolving"
      BY <1>0, <2>0 DEF Execution, RequestPc
    <3> HIDE DEF e
    <3>3. WorkLeft(e) < WorkLeft(run[s])
      BY <3>2, <2>0 DEF WorkLeft, RequestLeft, WorkerLeft
    <3> QED  BY <1>k, <3>1, <3>3
  <2> QED  BY <1>1, <2>1, <2>2, <2>3
<1>2. CASE Collect(s)
  <2> DEFINE e == [Joined(s) EXCEPT !.status = run[s].outcome]
  <2>1. Update(s, e)
    BY <1>2 DEF Collect
  <2>2. e.pc = "answered" /\ e.worker = "none" /\ run[s].pc = "waiting"
    BY <1>0, <1>2 DEF Execution, Joined, Collect
  <2> HIDE DEF e
  <2>3. WorkLeft(e) < WorkLeft(run[s])
    BY <2>2, <1>2 DEF WorkLeft, RequestLeft, WorkerLeft
  <2> QED  BY <1>k, <2>1, <2>3
<1>3. CASE JoinWorker(s)
  <2> DEFINE e == Joined(s)
  <2>1. Update(s, e)
    BY <1>3 DEF JoinWorker
  <2>2. e.pc = "answered" /\ e.worker = "none" /\ run[s].pc = "expired"
    BY <1>0, <1>3 DEF Execution, Joined, JoinWorker
  <2> HIDE DEF e
  <2>3. WorkLeft(e) < WorkLeft(run[s])
    BY <2>2, <1>3 DEF WorkLeft, RequestLeft, WorkerLeft
  <2> QED  BY <1>k, <2>1, <2>3
<1>4. CASE Expire(s)
  <2> DEFINE e == [run[s] EXCEPT !.pc = "expired", !.status = "TIMEOUT"]
  <2>1. Update(s, e)
    BY <1>4 DEF Expire
  <2>2. /\ e.pc = "expired" /\ run[s].pc = "waiting"
        /\ e.worker = run[s].worker /\ e.meta = run[s].meta
    BY <1>0, <1>4 DEF Execution, Expire
  <2> HIDE DEF e
  <2>3. WorkLeft(e) < WorkLeft(run[s])
    BY <2>2, <1>4 DEF WorkLeft, RequestLeft, WorkerLeft
  <2> QED  BY <1>k, <2>1, <2>3
<1>5. CASE ReturnResult(s) \/ PersistRow(s) \/ PersistFails(s)
  <2>0. run[s].pc = "answered" /\ run[s].worker = "none"
    BY <1>0, <1>5 DEF ReturnResult, PersistRow, PersistFails, Sound
  <2>1. CASE ReturnResult(s)
    <3> DEFINE e == [run[s] EXCEPT !.pc = "returned"]
    <3>1. Update(s, e)
      BY <2>1 DEF ReturnResult
    <3>2. e.pc = "returned" /\ e.worker = "none"
      BY <1>0, <2>0 DEF Execution, RequestPc
    <3> HIDE DEF e
    <3>3. WorkLeft(e) < WorkLeft(run[s])
      BY <3>2, <2>0 DEF WorkLeft, RequestLeft, WorkerLeft
    <3> QED  BY <1>k, <3>1, <3>3
  <2>2. CASE PersistRow(s)
    <3> DEFINE e == [run[s] EXCEPT !.pc = "returned", !.row = run[s].status]
    <3>1. Update(s, e)
      BY <2>2 DEF PersistRow
    <3>2. e.pc = "returned" /\ e.worker = "none"
      BY <1>0, <2>0 DEF Execution, RequestPc
    <3> HIDE DEF e
    <3>3. WorkLeft(e) < WorkLeft(run[s])
      BY <3>2, <2>0 DEF WorkLeft, RequestLeft, WorkerLeft
    <3> QED  BY <1>k, <3>1, <3>3
  <2>3. CASE PersistFails(s)
    <3> DEFINE e == [run[s] EXCEPT !.pc = "returned", !.status = "EXECUTION_ERROR"]
    <3>1. Update(s, e)
      BY <2>3 DEF PersistFails
    <3>2. e.pc = "returned" /\ e.worker = "none"
      BY <1>0, <2>0 DEF Execution, RequestPc
    <3> HIDE DEF e
    <3>3. WorkLeft(e) < WorkLeft(run[s])
      BY <3>2, <2>0 DEF WorkLeft, RequestLeft, WorkerLeft
    <3> QED  BY <1>k, <3>1, <3>3
  <2> QED  BY <1>5, <2>1, <2>2, <2>3
<1>6. CASE WorkerStep(s) \/ QueryStep(s)
  <2>0. run[s].worker \in {"resolving", "mounting", "querying", "exporting"}
          => run[s].meta = "absent"
    BY <1>0 DEF Sound
  <2>1. ASSUME NEW e, Update(s, e), e.pc = run[s].pc, WorkerLeft(e) < WorkerLeft(run[s])
        PROVE  Less
    <3>1. RequestLeft(e) = RequestLeft(run[s])
      BY <2>1 DEF RequestLeft
    <3>2. RequestLeft(run[s]) \in Nat /\ WorkerLeft(e) \in Nat /\ WorkerLeft(run[s]) \in Nat
      BY DEF RequestLeft, WorkerLeft
    <3>3. WorkLeft(e) < WorkLeft(run[s])
      BY <2>1, <3>1, <3>2 DEF WorkLeft
    <3> QED  BY <1>k, <2>1, <3>3
  <2>2. ASSUME NEW e, Update(s, e), e.pc = run[s].pc, e.worker = "ended",
               run[s].worker \in {"resolving", "mounting", "querying", "exporting", "recording"}
        PROVE  Less
    <3>1. WorkerLeft(e) < WorkerLeft(run[s])
      BY <2>2 DEF WorkerLeft
    <3> QED  BY <2>1, <2>2, <3>1
  <2>3. ASSUME NEW x PROVE Ended(s, x).pc = run[s].pc /\ Ended(s, x).worker = "ended"
    BY <1>0 DEF Ended, Execution
  <2>4. CASE DatasetGone(s) \/ QueryFails(s) \/ CaptureFails(s)
    <3>1. PICK x : Update(s, Ended(s, x))
      BY <2>4 DEF DatasetGone, QueryFails, CaptureFails
    <3>2. run[s].worker \in {"resolving", "mounting", "querying", "exporting", "recording"}
      BY <2>4 DEF DatasetGone, QueryFails, CaptureFails, WorkerAt
    <3> QED  BY <2>2, <2>3, <3>1, <3>2
  <2>5. CASE WriteMetadata(s)
    <3> DEFINE e == [Ended(s, "SUCCESS") EXCEPT !.meta = "SUCCESS"]
    <3>1. Update(s, e) /\ run[s].worker = "recording"
      BY <2>5 DEF WriteMetadata, WorkerAt
    <3>2. e.pc = run[s].pc /\ e.worker = "ended"
      BY <1>0 DEF Ended, Execution
    <3> HIDE DEF e
    <3> QED  BY <2>2, <3>1, <3>2
  <2>6. CASE WorkerResolves(s)
    <3> DEFINE e == [run[s] EXCEPT !.worker = "mounting"]
    <3>1. Update(s, e)
      BY <2>6 DEF WorkerResolves
    <3>2. e.pc = run[s].pc /\ e.worker = "mounting" /\ run[s].worker = "resolving"
      BY <1>0, <2>0, <2>6 DEF Execution, WorkerResolves, WorkerAt
    <3> HIDE DEF e
    <3>3. WorkerLeft(e) < WorkerLeft(run[s])
      BY <3>2 DEF WorkerLeft
    <3> QED  BY <2>1, <3>1, <3>2, <3>3
  <2>7. CASE RegisterViews(s)
    <3> DEFINE e == [run[s] EXCEPT !.worker = "querying"]
    <3>1. Update(s, e)
      BY <2>7 DEF RegisterViews
    <3>2. e.pc = run[s].pc /\ e.worker = "querying" /\ run[s].worker = "mounting"
      BY <1>0, <2>0, <2>7 DEF Execution, RegisterViews, WorkerAt
    <3> HIDE DEF e
    <3>3. WorkerLeft(e) < WorkerLeft(run[s])
      BY <3>2 DEF WorkerLeft
    <3> QED  BY <2>1, <3>1, <3>2, <3>3
  <2>8. CASE QuerySucceeds(s)
    <3> DEFINE e == [run[s] EXCEPT !.worker = "exporting", !.seen = {store[t] : t \in Tables}]
    <3>1. Update(s, e)
      BY <2>8 DEF QuerySucceeds
    <3>2. e.pc = run[s].pc /\ e.worker = "exporting" /\ run[s].worker = "querying"
      BY <1>0, <2>0, <2>8 DEF Execution, QuerySucceeds, WorkerAt
    <3> HIDE DEF e
    <3>3. WorkerLeft(e) < WorkerLeft(run[s])
      BY <3>2 DEF WorkerLeft
    <3> QED  BY <2>1, <3>1, <3>2, <3>3
  <2>9. CASE ExportParquet(s)
    <3> DEFINE e == [run[s] EXCEPT !.parquet = TRUE, !.worker = "recording"]
    <3>1. Update(s, e)
      BY <2>9 DEF ExportParquet
    <3>2. e.pc = run[s].pc /\ e.worker = "recording" /\ run[s].worker = "exporting"
      BY <1>0, <2>0, <2>9 DEF Execution, ExportParquet, WorkerAt
    <3> HIDE DEF e
    <3>3. WorkerLeft(e) < WorkerLeft(run[s])
      BY <3>2 DEF WorkerLeft
    <3> QED  BY <2>1, <3>1, <3>2, <3>3
  <2>10. CASE OpenMetadata(s)
    <3> DEFINE e == [run[s] EXCEPT !.meta = "torn"]
    <3>1. Update(s, e)
      BY <2>10 DEF OpenMetadata
    <3>2. /\ e.pc = run[s].pc /\ e.worker = "recording" /\ e.meta = "torn"
          /\ run[s].worker = "recording" /\ run[s].meta = "absent"
      BY <1>0, <2>0, <2>10 DEF Execution, OpenMetadata, WorkerAt
    <3> HIDE DEF e
    <3>3. WorkerLeft(e) < WorkerLeft(run[s])
      BY <3>2 DEF WorkerLeft
    <3> QED  BY <2>1, <3>1, <3>2, <3>3
  <2> QED
    BY <1>6, <2>4, <2>5, <2>6, <2>7, <2>8, <2>9, <2>10 DEF WorkerStep, QueryStep
<1> QED
  BY <1>1, <1>2, <1>3, <1>4, <1>5, <1>6 DEF ExecutionStep, RequestStep

(* A crash leaves nothing to do for what it takes, and the rest alone.     *)
LEMMA StopWorksLess ==
  ASSUME SandboxInv, Stop
  PROVE  WorkLess \/ run' = run
<1> DEFINE Dies(s) == InFlight(s) \/ (run[s].pc = "ready" /\ run["SOURCE"].pc # "ready")
<1>1. /\ \A s \in Sides : run'[s] = IF Dies(s) THEN [Joined(s) EXCEPT !.pc = "lost"] ELSE run[s]
      /\ run' = [s \in Sides |-> run'[s]] /\ run = [s \in Sides |-> run[s]]
  BY DEF Stop, SandboxInv
<1>2. ASSUME NEW s \in Sides, Dies(s)
      PROVE  WorkLeft([Joined(s) EXCEPT !.pc = "lost"]) < WorkLeft(run[s])
  <2>1. [Joined(s) EXCEPT !.pc = "lost"].pc = "lost" /\ [Joined(s) EXCEPT !.pc = "lost"].worker = "none"
    BY DEF SandboxInv, Joined, Execution
  <2>2. RequestLeft(run[s]) > 0
    BY <1>2 DEF InFlight, RequestLeft
  <2>3. RequestLeft(run[s]) \in Nat /\ WorkerLeft(run[s]) \in Nat
    BY DEF RequestLeft, WorkerLeft
  <2>4. WorkLeft([Joined(s) EXCEPT !.pc = "lost"]) = 0
    BY <2>1 DEF WorkLeft, RequestLeft, WorkerLeft
  <2> QED  BY <2>2, <2>3, <2>4 DEF WorkLeft
<1>3. CASE \E s \in Sides : Dies(s)
  <2> HIDE DEF Dies
  <2>1. \A s \in Sides : WorkLeft(run[s]) \in Int
    BY WorkNat
  <2>2. \A s \in Sides : Dies(s) => WorkLeft(run'[s]) < WorkLeft(run[s])
    BY <1>1, <1>2
  <2>3. \A s \in Sides : ~Dies(s) => WorkLeft(run'[s]) = WorkLeft(run[s])
    BY <1>1
  <2>4. \A s \in Sides : WorkLeft(run'[s]) \in Int
    BY WorkNat
  <2> QED  BY <1>3, <2>1, <2>2, <2>3, <2>4 DEF WorkLess
<1>4. CASE \A s \in Sides : ~Dies(s)
  <2> HIDE DEF Dies
  <2>1. \A s \in Sides : run'[s] = run[s]
    BY <1>1, <1>4
  <2> QED  BY <1>1, <2>1
<1> QED  BY <1>3, <1>4

(* Neither the request threads nor the workers, nor the timer, nor crashes *)
(* ever bring an execution back to a place it has left: both are over      *)
(* after at most 20 steps of their own, unless one of their threads never  *)
(* runs again, and the query is the only place where it might not.         *)
THEOREM ExecutionsRunDown == Spec => [][WorkLess]_run
<1>1. ASSUME SandboxInv, [Next]_vars PROVE [WorkLess]_run
  <2>1. ASSUME NEW s \in Sides, ExecutionStep(s) PROVE WorkLess
    <3>1. \A x \in Sides : WorkLeft(run[x]) \in Int /\ WorkLeft(run'[x]) \in Int
      BY WorkNat
    <3>2. \A x \in Sides \ {s} : WorkLeft(run'[x]) = WorkLeft(run[x])
      BY <1>1, <2>1, SideWorksLess
    <3>3. WorkLeft(run'[s]) < WorkLeft(run[s])
      BY <1>1, <2>1, SideWorksLess
    <3> QED  BY <3>1, <3>2, <3>3 DEF WorkLess
  <2>2. CASE Stop
    BY <1>1, <2>2, StopWorksLess
  <2>3. CASE run' = run
    BY <2>3
  <2> QED  BY <1>1, <2>1, <2>2, <2>3 DEF Next, vars
<1> QED
  BY <1>1, SandboxAlways, PTL DEF Spec
==============================================================================

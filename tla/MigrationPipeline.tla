-------------------------- MODULE MigrationPipeline --------------------------
(***************************************************************************)
(* Requests about one migration, interleaved at the granularity of the     *)
(* database sessions they open.  The endpoints of api/assurance.py run in  *)
(* FastAPI's thread pool and share nothing but the tables:                 *)
(*                                                                         *)
(*   record      its row of migration_records (final status, state, hash)  *)
(*   report      its row of assurance_reports                              *)
(*   sources     sql_source_candidate_versions, in order of commit         *)
(*   candidates  sql_candidate_versions, in order of commit                *)
(*                                                                         *)
(* A request is a run (POST /run), an edit_candidate, an edit_source or an *)
(* execute.  pc[r] is the session it opens next and loc[r] what its thread *)
(* remembers of the sessions before.  What runs between two sessions and   *)
(* touches no table (analysis, sandbox execution, validation, diagnosis,   *)
(* repair) is one step, RunPhases, whose outcomes are a constant; the      *)
(* module EvidencePhases shows how they come about.                        *)
(***************************************************************************)
EXTENDS AssuranceDecision, Sequences, FiniteSets

CONSTANTS
  Requests,
  Sources,          \* source SQL texts; two texts have the same hash only if equal
  Targets,          \* target SQL texts
  Strip,            \* str.strip on Sources
  Unresolvable,     \* sources whose tables the dataset lacks (preflight_check raises)
  Rejected,         \* texts that fail the schema preflight
  Outcomes,         \* evidence the execution phases may bring
  Failures,         \* failed translations: [status, valid, error, sql]
  MaxInFlight,      \* bound on the requests served at the same time
  MaxFaults,        \* bound on the requests that die half way and the reads that fail
  None

ASSUME PipelineAssumption ==
  /\ Strip \in [Sources -> Sources]
  /\ Unresolvable \subseteq Sources /\ Rejected \subseteq Sources \cup Targets
  /\ Outcomes \subseteq EvidenceSpace
  /\ \A o \in Outcomes : o.trStatus = "NOT_RUN" /\ o.src # "NOT_RUN" /\ o.tgt # "NOT_RUN"
  /\ Failures \subseteq [status : TranslationStatus \ {"SUCCESS"},
                         valid : (CandidateValidationStatus \ {"VALID_SYNTAX"}) \cup {"NONE"},
                         error : TranslationError, sql : Targets \cup {None}]
  /\ MaxInFlight \in Nat /\ MaxFaults \in Nat
  /\ None \notin Sources \cup Targets

VARIABLES record, report, sources, candidates, kind, pc, loc, faults

vars == <<record, report, sources, candidates, kind, pc, loc, faults>>

Kinds == {"none", "run", "edit_candidate", "edit_source", "execute"}

(* A translation as the report keeps it: hash is the source hash it claims *)
(* in its metadata, of the text it was made from.                          *)
Translation ==
  [ status : TranslationStatus \cup {"NOT_RUN"},
    valid  : CandidateValidationStatus \cup {"NONE"},
    error  : TranslationError,
    sql    : Targets \cup {None},
    hash   : Sources \cup {None},
    of     : Sources \cup {None} ]

NoTranslation ==
  [ status |-> "NOT_RUN", valid |-> "NONE", error |-> "NONE",
    sql |-> None, hash |-> None, of |-> None ]

Record == [hash : Sources, current : MigrationState, final : MigrationFinalStatus]

(* src and tgt are the texts whose executions execution_summary describes.  *)
Report ==
  [ cand : Nat, final : MigrationFinalStatus, tr : Translation,
    src : Sources \cup {None}, tgt : Targets \cup {None}, ev : EvidenceSpace ]

(* The absence of a row is not a row.                                      *)
ASSUME NoneAssumption == None \notin Record /\ None \notin Report

NoReport ==
  [ cand |-> 0, final |-> "IN_PROGRESS", tr |-> NoTranslation,
    src |-> None, tgt |-> None, ev |-> NoEvidence ]

SourceRow == [version : Nat, text : Sources, active : BOOLEAN,
              preflight : {"NONE", "PASS", "FAILED"}]
CandidateRow == [version : Nat, text : Targets, active : BOOLEAN,
                 preflight : {"NONE", "PASS", "FAILED"}, source : {"AI", "USER"}]

Locals ==
  [ text : Sources \cup Targets \cup {None},  \* the request's SQL
    row : Nat,                                \* its source row
    cand : Nat,                               \* its candidate row
    seen : Nat,                               \* rows its open transaction sees
    tr : Translation,
    src : Sources \cup {None}, tgt : Targets \cup {None},
    ev : EvidenceSpace,
    old : Report,                             \* the report it read
    exists : BOOLEAN,                         \* it read one
    out : Report,                             \* the report it will save
    blocked : BOOLEAN ]

NoLocals ==
  [ text |-> None, row |-> 0, cand |-> 0, seen |-> 0, tr |-> NoTranslation,
    src |-> None, tgt |-> None, ev |-> NoEvidence,
    old |-> NoReport, exists |-> FALSE, out |-> NoReport, blocked |-> FALSE ]

Labels ==
  {"idle", "insertSource", "commitSource", "insertCandidate", "commitCandidate",
   "createRecord", "resolveSource", "sourcePreflight", "translate",
   "candidatePreflight", "loadCandidate", "loadSource", "rebuildTranslation",
   "runPhases", "checkLineage", "decide", "saveReport", "saveRecord",
   "blockReport", "blockRecord", "readReport", "resetReport", "resetRecord", "done"}

Idle(r) == pc[r] \in {"idle", "done"}
Quiescent == \A r \in Requests : Idle(r)
InFlight == {r \in Requests : ~Idle(r)}

Active(rows) == {i \in DOMAIN rows : rows[i].active}
(* Mutant: a preflight status no reader of the row knows.                  *)
PreflightUnknown(text) == IF text \in Rejected THEN "BLOCKED" ELSE "PASS"

Preflight(text) == IF text \in Rejected THEN "FAILED" ELSE "PASS"

Init ==
  /\ record = None /\ report = None
  /\ sources = <<>> /\ candidates = <<>>
  /\ kind = [r \in Requests |-> "none"]
  /\ pc = [r \in Requests |-> "idle"]
  /\ loc = [r \in Requests |-> NoLocals]
  /\ faults = 0

Goto(r, l, locals) ==
  /\ pc' = [pc EXCEPT ![r] = l]
  /\ loc' = [loc EXCEPT ![r] = locals]

Finish(r) == Goto(r, "done", NoLocals)

At(r, l) == pc[r] = l /\ UNCHANGED <<kind, faults>>
------------------------------------------------------------------------------
(* Requests arriving.                                                      *)

Start(r, k, l, text) ==
  /\ pc[r] = "idle"
  /\ Cardinality(InFlight) < MaxInFlight
  /\ kind' = [kind EXCEPT ![r] = k]
  /\ Goto(r, l, [NoLocals EXCEPT !.text = text])
  /\ UNCHANGED <<record, report, sources, candidates, faults>>

(* POST /run creates a fresh migration id, so one run per migration; it    *)
(* answers 400 before any write if the source names unknown tables.        *)
StartRun(r, text) ==
  /\ \A q \in Requests : kind[q] # "run"
  /\ Strip[text] \notin Unresolvable
  /\ Start(r, "run", "createRecord", Strip[text])

(* The other endpoints answer 404 unless the record exists.                *)
StartEditCandidate(r, text) ==
  record # None /\ Start(r, "edit_candidate", "insertCandidate", text)

StartEditSource(r, text) ==
  record # None /\ Start(r, "edit_source", "insertSource", text)

StartExecute(r) ==
  record # None /\ Start(r, "execute", "loadCandidate", None)
------------------------------------------------------------------------------
(* Version rows.  The transaction of create_*_version reads the latest     *)
(* version, clears is_active and inserts; under READ COMMITTED each of the *)
(* three sees the rows committed before it, and nothing stops two of these *)
(* transactions at once: what was committed between the read and the       *)
(* UPDATE is cleared, and not counted.                                     *)

NextVersion(rows, n) ==
  IF n = 0 THEN 1
  ELSE 1 + CHOOSE v \in {rows[i].version : i \in 1..n} :
             \A i \in 1..n : rows[i].version <= v

(* Mutant: the earlier versions are left active.                           *)
DeactivatedNone(rows, n) == rows

Deactivated(rows, n) ==
  [i \in DOMAIN rows |-> IF i <= n THEN [rows[i] EXCEPT !.active = FALSE] ELSE rows[i]]

InsertSource(r) ==
  /\ At(r, "insertSource")
  /\ Goto(r, "commitSource", [loc[r] EXCEPT !.seen = Len(sources)])
  /\ UNCHANGED <<record, report, sources, candidates>>

(* After the commit a run goes on to the source preflight, an edit to the  *)
(* reset of the downstream state.                                          *)
CommitSource(r) ==
  LET row == [version |-> NextVersion(sources, loc[r].seen), text |-> loc[r].text,
              active |-> TRUE, preflight |-> "NONE"]
  IN  /\ At(r, "commitSource")
      /\ \E n \in loc[r].seen..Len(sources) : sources' = Append(Deactivated(sources, n), row)
      /\ Goto(r, IF kind[r] = "run" THEN "sourcePreflight" ELSE "readReport",
              [loc[r] EXCEPT !.row = Len(sources) + 1])
      /\ UNCHANGED <<record, report, candidates>>

InsertCandidate(r) ==
  /\ At(r, "insertCandidate")
  /\ Goto(r, "commitCandidate", [loc[r] EXCEPT !.seen = Len(candidates)])
  /\ UNCHANGED <<record, report, sources, candidates>>

(* Mutant: the insert is flushed before the earlier versions are cleared.  *)
CommitCandidateThenClear(r) ==
  LET n    == loc[r].seen
      user == kind[r] = "edit_candidate"
  IN  /\ At(r, "commitCandidate")
      /\ candidates' = Deactivated(Append(candidates,
                              [version |-> NextVersion(candidates, n),
                               text |-> IF user THEN loc[r].text ELSE loc[r].tr.sql,
                               active |-> TRUE, preflight |-> "NONE",
                               source |-> IF user THEN "USER" ELSE "AI"]), n + 1)
      /\ Goto(r, "candidatePreflight", [loc[r] EXCEPT !.cand = Len(candidates) + 1])
      /\ UNCHANGED <<record, report, sources>>

CommitCandidate(r) ==
  LET user == kind[r] = "edit_candidate"
      row  == [version |-> NextVersion(candidates, loc[r].seen),
               text |-> IF user THEN loc[r].text ELSE loc[r].tr.sql,
               active |-> TRUE, preflight |-> "NONE",
               source |-> IF user THEN "USER" ELSE "AI"]
  IN  /\ At(r, "commitCandidate")
      /\ \E n \in loc[r].seen..Len(candidates) :
           candidates' = Append(Deactivated(candidates, n), row)
      /\ Goto(r, "candidatePreflight", [loc[r] EXCEPT !.cand = Len(candidates) + 1])
      /\ UNCHANGED <<record, report, sources>>
------------------------------------------------------------------------------
(* MigrationOrchestrator.run.                                              *)

Created(text) == [hash |-> text, current |-> "CREATED", final |-> "IN_PROGRESS"]

CreateRecord(r) ==
  /\ At(r, "createRecord")
  /\ record' = IF record = None THEN Created(loc[r].text) ELSE record
  /\ Goto(r, "resolveSource", loc[r])
  /\ UNCHANGED <<report, sources, candidates>>

(* get_active_source_candidate takes any first active row.                 *)
ResolveSource(r) ==
  /\ At(r, "resolveSource")
  /\ \/ /\ Active(sources) = {}
        /\ Goto(r, "insertSource", loc[r])
     \/ \E i \in Active(sources) :
          Goto(r, "sourcePreflight", [loc[r] EXCEPT !.row = i])
  /\ UNCHANGED <<record, report, sources, candidates>>

SourcePreflight(r) ==
  LET i == loc[r].row
      p == Preflight(sources[i].text)
  IN  /\ At(r, "sourcePreflight")
      /\ sources' = [sources EXCEPT ![i].preflight = p]
      /\ IF p = "PASS" THEN Goto(r, "translate", loc[r])
         ELSE Goto(r, "checkLineage", [loc[r] EXCEPT !.blocked = TRUE])
      /\ UNCHANGED <<record, report, candidates>>

(* The active source is translated; the artifact's source_sql_hash is      *)
(* overwritten with the hash of the request's own text.                    *)
TranslateOk(r, sql) ==
  /\ At(r, "translate")
  /\ Goto(r, "insertCandidate",
          [loc[r] EXCEPT !.tr = [status |-> "SUCCESS", valid |-> "VALID_SYNTAX",
                                 error |-> "NONE", sql |-> sql, hash |-> loc[r].text,
                                 of |-> sources[loc[r].row].text]])
  /\ UNCHANGED <<record, report, sources, candidates>>

TranslateFails(r, f) ==
  /\ At(r, "translate")
  /\ Goto(r, "checkLineage",
          [loc[r] EXCEPT !.tr = [status |-> f.status, valid |-> f.valid,
                                 error |-> f.error, sql |-> f.sql, hash |-> loc[r].text,
                                 of |-> sources[loc[r].row].text]])
  /\ UNCHANGED <<record, report, sources, candidates>>

(* Mutant: the row is written back as the thread remembers it, active.     *)
CandidatePreflightStale(r) ==
  LET i == loc[r].cand
      p == Preflight(candidates[i].text)
  IN  /\ At(r, "candidatePreflight")
      /\ candidates' = [candidates EXCEPT ![i].preflight = p, ![i].active = TRUE]
      /\ \/ /\ kind[r] = "edit_candidate"
            /\ Goto(r, "readReport", loc[r])
         \/ /\ kind[r] # "edit_candidate"
            /\ IF p = "PASS" THEN Goto(r, "loadCandidate", [loc[r] EXCEPT !.cand = 0])
               ELSE Goto(r, "checkLineage", [loc[r] EXCEPT !.blocked = TRUE, !.cand = 0])
      /\ UNCHANGED <<record, report, sources>>

(* Shared by run and edit_candidate: the verdict on the new row is stored; *)
(* an edit then resets the downstream state whatever the verdict was.      *)
CandidatePreflight(r) ==
  LET i == loc[r].cand
      p == Preflight(candidates[i].text)
  IN  /\ At(r, "candidatePreflight")
      /\ candidates' = [candidates EXCEPT ![i].preflight = p]
      /\ \/ /\ kind[r] = "edit_candidate"
            /\ Goto(r, "readReport", loc[r])
         \/ /\ kind[r] # "edit_candidate"
            /\ IF p = "PASS" THEN Goto(r, "loadCandidate", [loc[r] EXCEPT !.cand = 0])
               ELSE Goto(r, "checkLineage", [loc[r] EXCEPT !.blocked = TRUE, !.cand = 0])
      /\ UNCHANGED <<record, report, sources>>
------------------------------------------------------------------------------
(* MigrationOrchestrator.execute_migration.                                *)

(* Mutant: the stored preflight is not looked at.                          *)
LoadCandidateUnchecked(r) ==
  /\ At(r, "loadCandidate")
  /\ \/ /\ Active(candidates) = {}
        /\ Finish(r)
     \/ \E i \in Active(candidates) :
          Goto(r, "loadSource", [loc[r] EXCEPT !.cand = i, !.tgt = candidates[i].text])
  /\ UNCHANGED <<record, report, sources, candidates>>

(* Any first active candidate, provided its stored preflight is PASS.      *)
LoadCandidate(r) ==
  /\ At(r, "loadCandidate")
  /\ \/ /\ Active(candidates) = {}
        /\ Finish(r)
     \/ \E i \in Active(candidates) :
          IF candidates[i].preflight = "PASS"
          THEN Goto(r, "loadSource",
                    [loc[r] EXCEPT !.cand = i, !.tgt = candidates[i].text])
          ELSE Finish(r)
  /\ UNCHANGED <<record, report, sources, candidates>>

(* The active source; the record's own text if there is no source row.     *)
ActiveSourceTexts ==
  IF Active(sources) = {} THEN {record.hash}
  ELSE {sources[i].text : i \in Active(sources)}

(* POST /execute passes no translation, so it is rebuilt from the report.  *)
LoadSource(r) ==
  /\ At(r, "loadSource")
  /\ \E text \in ActiveSourceTexts :
       Goto(r, IF kind[r] = "execute" THEN "rebuildTranslation" ELSE "runPhases",
            [loc[r] EXCEPT !.src = text])
  /\ UNCHANGED <<record, report, sources, candidates>>

(* Mutant: the rebuilt result inherits the summary's validation status.    *)
RebuildTranslationValid(r) ==
  /\ At(r, "rebuildTranslation")
  /\ Goto(r, "runPhases",
          IF report = None \/ report.tr.status = "NOT_RUN" THEN loc[r]
          ELSE [loc[r] EXCEPT !.tr = [report.tr EXCEPT !.hash = record.hash]])
  /\ UNCHANGED <<record, report, sources, candidates>>

(* The rebuilt result has the summary's status and the record's hash, but  *)
(* neither its candidate_validation_status nor a response.                 *)
RebuildTranslation(r) ==
  /\ At(r, "rebuildTranslation")
  /\ Goto(r, "runPhases",
          IF report = None \/ report.tr.status = "NOT_RUN" THEN loc[r]
          ELSE [loc[r] EXCEPT !.tr = [NoTranslation EXCEPT !.status = report.tr.status,
                                                           !.hash = record.hash,
                                                           !.of = report.tr.of]])
  /\ UNCHANGED <<record, report, sources, candidates>>

RunPhases(r, outcome) ==
  /\ At(r, "runPhases")
  /\ Goto(r, "checkLineage", [loc[r] EXCEPT !.ev = outcome])
  /\ UNCHANGED <<record, report, sources, candidates>>
------------------------------------------------------------------------------
(* AssuranceService.evaluate_assurance.                                    *)

(* Step 0 compares the translation's hash with the active source and step  *)
(* 1 reads the existing report.  The executions carry no hash to compare.  *)
CheckLineage(r) ==
  /\ At(r, "checkLineage")
  /\ \E expected \in ActiveSourceTexts :
       IF loc[r].tr.hash \in {None, expected}
       THEN Goto(r, "decide",
                 [loc[r] EXCEPT !.exists = report # None,
                                !.old = IF report = None THEN NoReport ELSE report])
       ELSE Finish(r)
  /\ UNCHANGED <<record, report, sources, candidates>>

(* The report keeps the earlier translation when none is passed in.        *)
EffectiveTranslation(l) ==
  IF l.tr.status # "NOT_RUN" THEN l.tr ELSE [l.old.tr EXCEPT !.error = "NONE"]

WithTranslation(e, t) ==
  [e EXCEPT !.trStatus = t.status, !.trValid = t.valid,
            !.trSql = (t.sql # None), !.trError = t.error]

(* Mutant: the existing report's candidate wins over the executed one.     *)
VerdictOldCandidate(l) ==
  LET t == EffectiveTranslation(l)
      e == WithTranslation(l.ev, t)
  IN  [ cand  |-> IF l.old.cand # 0 THEN l.old.cand ELSE l.cand,
        final |-> FinalStatus(e), tr |-> t, src |-> l.src, tgt |-> l.tgt, ev |-> e ]

Verdict(l) ==
  LET t == EffectiveTranslation(l)
      e == WithTranslation(l.ev, t)
  IN  [ cand  |-> IF l.cand # 0 THEN l.cand ELSE l.old.cand,
        final |-> FinalStatus(e), tr |-> t, src |-> l.src, tgt |-> l.tgt, ev |-> e ]

(* Steps 2 to 12; step 10 reads the active candidate of the moment.        *)
Decide(r) ==
  LET out == Verdict(loc[r])
  IN  /\ At(r, "decide")
      /\ IF Consistent(out.ev, Active(candidates) # {})
         THEN Goto(r, "saveReport", [loc[r] EXCEPT !.out = out])
         ELSE Finish(r)
      /\ UNCHANGED <<record, report, sources, candidates>>

SaveReport(r) ==
  /\ At(r, "saveReport")
  /\ report' = loc[r].out
  /\ Goto(r, "saveRecord", loc[r])
  /\ UNCHANGED <<record, sources, candidates>>

AfterSave(r) == IF loc[r].blocked THEN Goto(r, "blockReport", loc[r]) ELSE Finish(r)

SaveRecord(r) ==
  LET final == loc[r].out.final
  IN  /\ At(r, "saveRecord")
      /\ record' = [record EXCEPT !.final = final, !.current = StatusToState(final)]
      /\ AfterSave(r)
      /\ UNCHANGED <<report, sources, candidates>>

(* After a failed preflight the orchestrator overwrites the report it just *)
(* evaluated, then the record's final status; current_state stays.         *)
BlockReport(r) ==
  /\ At(r, "blockReport")
  /\ report' = [loc[r].out EXCEPT !.final = "BLOCKED"]
  /\ Goto(r, "blockRecord", loc[r])
  /\ UNCHANGED <<record, sources, candidates>>

(* Mutant: the record keeps the status the evaluation gave it.             *)
BlockRecordForgotten(r) ==
  /\ At(r, "blockRecord")
  /\ Finish(r)
  /\ UNCHANGED <<record, report, sources, candidates>>

BlockRecord(r) ==
  /\ At(r, "blockRecord")
  /\ record' = [record EXCEPT !.final = "BLOCKED"]
  /\ Finish(r)
  /\ UNCHANGED <<report, sources, candidates>>
------------------------------------------------------------------------------
(* AssuranceService.reset_downstream_pipeline_state, called by both edits. *)

ReadReport(r) ==
  /\ At(r, "readReport")
  /\ IF report = None THEN Goto(r, "resetRecord", loc[r])
     ELSE Goto(r, "resetReport", [loc[r] EXCEPT !.old = report])
  /\ UNCHANGED <<record, report, sources, candidates>>

(* Mutant: the evidence is wiped and the verdict stays.                    *)
ResetReportKeepsStatus(r) ==
  /\ At(r, "resetReport")
  /\ report' = [NoReport EXCEPT
                  !.cand = IF kind[r] = "edit_candidate" THEN loc[r].cand ELSE 0,
                  !.final = loc[r].old.final,
                  !.tr = loc[r].old.tr,
                  !.ev = WithTranslation(NoEvidence, loc[r].old.tr)]
  /\ Goto(r, "resetRecord", [loc[r] EXCEPT !.old = NoReport])
  /\ UNCHANGED <<record, sources, candidates>>

(* The translation and the candidate's preflight stay; a FAILED preflight  *)
(* is never "BLOCKED", so the report is IN_PROGRESS in any case.           *)
ResetReport(r) ==
  /\ At(r, "resetReport")
  /\ report' = [NoReport EXCEPT
                  !.cand = IF kind[r] = "edit_candidate" THEN loc[r].cand ELSE 0,
                  !.tr = loc[r].old.tr,
                  !.ev = WithTranslation(NoEvidence, loc[r].old.tr)]
  /\ Goto(r, "resetRecord", [loc[r] EXCEPT !.old = NoReport])
  /\ UNCHANGED <<record, sources, candidates>>

(* A source edit then runs the whole pipeline again on the edited text,    *)
(* stripped; preflight_check may raise first.                              *)
AfterReset(r) ==
  IF kind[r] = "edit_source" /\ Strip[loc[r].text] \notin Unresolvable
  THEN Goto(r, "createRecord", [NoLocals EXCEPT !.text = Strip[loc[r].text]])
  ELSE Finish(r)

(* Mutant: the state is reset and the final status is not.                 *)
ResetRecordStateOnly(r) ==
  /\ At(r, "resetRecord")
  /\ record' = [record EXCEPT !.current = "CREATED"]
  /\ AfterReset(r)
  /\ UNCHANGED <<report, sources, candidates>>

ResetRecord(r) ==
  /\ At(r, "resetRecord")
  /\ record' = [record EXCEPT !.final = "IN_PROGRESS", !.current = "CREATED"]
  /\ AfterReset(r)
  /\ UNCHANGED <<report, sources, candidates>>
------------------------------------------------------------------------------
(* A request may die between two sessions: the process is killed or an     *)
(* exception (a database error, a failing phase) leaves the handler.       *)
Crash(r) ==
  /\ ~Idle(r)
  /\ faults < MaxFaults
  /\ faults' = faults + 1
  /\ Finish(r)
  /\ UNCHANGED <<record, report, sources, candidates, kind>>

(* get_migration and get_assurance_report log a database error and answer  *)
(* None, as if there were no row.  Where that makes the caller raise, or   *)
(* end without another write, it is a Crash.                               *)
ReadFails(r, l) ==
  /\ pc[r] = l
  /\ faults < MaxFaults
  /\ faults' = faults + 1
  /\ UNCHANGED <<sources, candidates, kind>>

(* The record is created again, over the one that could not be read.       *)
RecreateRecord(r) ==
  /\ ReadFails(r, "createRecord")
  /\ record' = Created(loc[r].text)
  /\ Goto(r, "resolveSource", loc[r])
  /\ UNCHANGED report

RebuildNothing(r) ==
  /\ ReadFails(r, "rebuildTranslation")
  /\ Goto(r, "runPhases", loc[r])
  /\ UNCHANGED <<record, report>>

(* Without the record no hash is compared.                                 *)
SkipLineage(r) ==
  /\ ReadFails(r, "checkLineage")
  /\ Goto(r, "decide", [loc[r] EXCEPT !.exists = report # None,
                                      !.old = IF report = None THEN NoReport ELSE report])
  /\ UNCHANGED <<record, report>>

(* Without the report nothing earlier is preserved.                        *)
ForgetReport(r) ==
  /\ ReadFails(r, "checkLineage")
  /\ loc[r].tr.hash \in {None} \cup ActiveSourceTexts
  /\ Goto(r, "decide", loc[r])
  /\ UNCHANGED <<record, report>>

(* The evaluation, or the reset, goes on without its row.                  *)
SkipReset(r) ==
  /\ ReadFails(r, "readReport")
  /\ Goto(r, "resetRecord", loc[r])
  /\ UNCHANGED <<record, report>>

SkipRecord(r) ==
  /\ \/ ReadFails(r, "saveRecord") /\ AfterSave(r)
     \/ ReadFails(r, "resetRecord") /\ AfterReset(r)
  /\ UNCHANGED <<record, report>>

ReadFault(r) ==
  \/ RecreateRecord(r) \/ RebuildNothing(r)
  \/ SkipLineage(r) \/ ForgetReport(r)
  \/ SkipReset(r) \/ SkipRecord(r)

Step(r) ==
  \/ InsertSource(r) \/ CommitSource(r)
  \/ InsertCandidate(r) \/ CommitCandidate(r)
  \/ CreateRecord(r) \/ ResolveSource(r) \/ SourcePreflight(r)
  \/ \E t \in Targets : TranslateOk(r, t)
  \/ \E f \in Failures : TranslateFails(r, f)
  \/ CandidatePreflight(r)
  \/ LoadCandidate(r) \/ LoadSource(r) \/ RebuildTranslation(r)
  \/ \E o \in Outcomes : RunPhases(r, o)
  \/ CheckLineage(r) \/ Decide(r) \/ SaveReport(r) \/ SaveRecord(r)
  \/ BlockReport(r) \/ BlockRecord(r)
  \/ ReadReport(r) \/ ResetReport(r) \/ ResetRecord(r)

Arrive(r) ==
  \/ \E s \in Sources : StartRun(r, s) \/ StartEditSource(r, s)
  \/ \E t \in Targets : StartEditCandidate(r, t)
  \/ StartExecute(r)

Next == \E r \in Requests : Arrive(r) \/ Step(r) \/ Crash(r) \/ ReadFault(r)

Spec == Init /\ [][Next]_vars
------------------------------------------------------------------------------
TypeOK ==
  /\ record \in Record \cup {None}
  /\ report \in Report \cup {None}
  /\ sources \in Seq(SourceRow)
  /\ candidates \in Seq(CandidateRow)
  /\ kind \in [Requests -> Kinds]
  /\ pc \in [Requests -> Labels]
  /\ loc \in [Requests -> Locals]
  /\ faults \in Nat
------------------------------------------------------------------------------
(* Properties of every interleaving.                                       *)

(* A VERIFIED report carries the evidence that earned it: no other request *)
(* can wipe, replace or inherit a part of the evidence and leave the       *)
(* verdict, and neither can a crash.                                       *)
VerifiedIsEarned ==
  report # None /\ report.final = "VERIFIED" => DetermineVerified(report.ev)

(* The candidate a report names is the one whose text was executed.        *)
CandidateBinding ==
  report # None /\ report.tgt # None =>
    /\ report.cand \in DOMAIN candidates
    /\ candidates[report.cand].text = report.tgt

(* A migration never loses its active version, whatever writes race.       *)
SomeActive ==
  /\ sources # <<>> => Active(sources) # {}
  /\ candidates # <<>> => Active(candidates) # {}

(* Both version tables are histories that only grow: no preflight verdict  *)
(* stored late and no racing commit rewrites, renumbers or revives a       *)
(* version, and without overlap a commit leaves its own alone active.      *)
History(rows) ==
  [i \in DOMAIN rows |-> [version |-> rows[i].version, text |-> rows[i].text]]

SourceHistory == INSTANCE VersionHistory
  WITH Texts <- Sources, Serial <- (MaxInFlight <= 1),
       history <- History(sources), active <- Active(sources)

CandidateHistory == INSTANCE VersionHistory
  WITH Texts <- Targets, Serial <- (MaxInFlight <= 1),
       history <- History(candidates), active <- Active(candidates)

VersionsAreHistory == SourceHistory!Spec /\ CandidateHistory!Spec

(* What a pass executes is what the schema preflight let through, although *)
(* the texts are read again in later sessions: the candidate in any pass,  *)
(* and the source in a pass that checks it (a run, or what a source edit   *)
(* starts) while the version it checked is alone active.  POST /execute    *)
(* checks no source, see SourcePassedPreflight.                            *)
ExecutedAsChecked ==
  \A r \in Requests : pc[r] = "runPhases" =>
    /\ loc[r].tgt \notin Rejected
    /\ kind[r] # "execute" /\ Active(sources) = {loc[r].row} => loc[r].src \notin Rejected
------------------------------------------------------------------------------
(* Properties of requests served one at a time (MaxInFlight = 1).          *)

(* One active version at a time, and versions number 1, 2, 3...            *)
OneActiveVersion ==
  \A rows \in {sources, candidates} :
    rows # <<>> =>
      /\ Quiescent => Active(rows) = {Len(rows)}
      /\ \A i \in DOMAIN rows : rows[i].version = i

(* A VERIFIED migration is verified for what is active now: its report     *)
(* names the active candidate, the active source was executed, and the     *)
(* candidate is the translation of that source.                            *)
VerifiedIsCurrent ==
  Quiescent /\ record # None /\ record.final = "VERIFIED" =>
    /\ report # None
    /\ Active(candidates) = {report.cand}
    /\ ActiveSourceTexts = {report.src}
    /\ report.tr.sql = report.tgt
    /\ report.tr.of = report.src

(* Between requests the record and the report tell the same final status.  *)
RecordAgreesWithReport ==
  Quiescent /\ report # None => record.final = report.final

(* POST /execute cannot verify: the translation it rebuilds has lost its   *)
(* validation status, so GATE-002 fails.                                   *)
OnlyRunsVerify ==
  [][\A r \in Requests :
        pc[r] = "saveReport" /\ pc'[r] = "saveRecord" /\ report'.final = "VERIFIED"
          => kind[r] # "execute"]_vars
------------------------------------------------------------------------------
(* What a comment, a document or a test says and the code does not do.     *)

(* api/assurance.py: an edit "atomically" restarts the state downstream    *)
(* and binds it to the new candidate, so no older candidate's verdict      *)
(* outlives it.                                                            *)
EditRestartsPipeline ==
  /\ Quiescent /\ record # None /\ record.final = "VERIFIED"
  /\ candidates # <<>> /\ candidates[Len(candidates)].source = "USER"
  => report.cand = Len(candidates)

(* docs/architecture.md: an execution result whose source hash is not that *)
(* of the migration is refused.  Refuted by three requests of which two    *)
(* overlap: a source edited away and back while a run executes.            *)
LineageIntegrity ==
  report # None /\ report.final = "VERIFIED" => report.src = report.tr.hash

(* README.md: a query that references a missing dataset column is BLOCKED, *)
(* so none is executed as the source.  Refuted by three serial requests:   *)
(* run, an edit_source whose new text is BLOCKED, execute.                 *)
SourcePassedPreflight ==
  \A r \in Requests : pc[r] = "runPhases" => loc[r].src \notin Rejected

(* tests/orchestrator/test_candidate_execution_invariants.py: a corrected  *)
(* candidate that executes cleanly and validates resumes to VERIFIED.      *)
(* Refuted by three serial requests: run, edit, execute.                   *)
CleanExecutionVerifies ==
  /\ report # None /\ report.tgt # None
  /\ candidates[report.cand].source = "USER"
  /\ report.ev.val = "PASS" /\ report.ev.tgtConf = "EXACT"
  => report.final = "VERIFIED"
==============================================================================

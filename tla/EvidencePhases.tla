---------------------------- MODULE EvidencePhases ----------------------------
(***************************************************************************)
(* One pass of the pipeline, from MigrationOrchestrator.run to the verdict *)
(* of evaluate_assurance, by itself: the order of the phases, what each of *)
(* them may produce, the early exits, and the decision made on what was    *)
(* collected.  Requests that interfere are MigrationPipeline's subject.    *)
(*                                                                         *)
(* stage is the phase the pass is in; halted says that it goes no further  *)
(* and evaluate_assurance is next.  ev collects the evidence; repaired is  *)
(* what the re-execution of a repair showed, which the decision never      *)
(* reads.  verdict is the final status of the saved report, "NONE" before, *)
(* "RAISED" if an exception left the pass without a report.                *)
(***************************************************************************)
EXTENDS AssuranceDecision

CONSTANTS
  SourcePreflights,   \* outcomes of the source preflight: a subset of BOOLEAN
  Confidences,        \* semantic confidence the dialect adapters report
  MaxDiscs            \* bound on the discrepancies of one diagnosis

ASSUME PhasesAssumption ==
  /\ SourcePreflights \subseteq BOOLEAN
  /\ Confidences \subseteq Confidence
  /\ MaxDiscs \in Nat

VARIABLES stage, halted, blocked, prior, ev, repaired, verdict

vars == <<stage, halted, blocked, prior, ev, repaired, verdict>>

Stages == {"created", "analyze", "translate", "preflight", "execute", "validate",
           "classify", "diagnose", "proposed", "verify"}

(* before: the discrepancies the verification itself found in the report   *)
(* of the unrepaired candidate.                                            *)
RepairSpace == [conf : Confidence, val : ValidationStatus \cup {"NOT_RUN"}, before : Nat]

NotRepaired == [conf |-> "EXACT", val |-> "NOT_RUN", before |-> 0]

TypeOK ==
  /\ stage \in Stages
  /\ halted \in BOOLEAN
  /\ blocked \in BOOLEAN
  /\ prior \in BOOLEAN
  /\ ev \in EvidenceSpace
  /\ repaired \in RepairSpace
  /\ verdict \in MigrationFinalStatus \cup {"NONE", "RAISED"}

Translated(status, valid, sql, error) ==
  [NoEvidence EXCEPT !.trStatus = status, !.trValid = valid,
                     !.trSql = sql, !.trError = error]

PriorTranslation == Translated("SUCCESS", "VALID_SYNTAX", TRUE, "NONE")

(* STEP 2: every outcome TranslationService.translate returns.             *)
TranslationOutcomes ==
  {PriorTranslation}
  \cup {Translated("REJECTED", "UNSAFE_SQL", TRUE, "OTHER"),
        Translated("FAILED", "SCHEMA_MISMATCH", TRUE, "OTHER"),
        Translated("FAILED", "NONE", FALSE, "OTHER"),
        Translated("INVALID_OUTPUT", "NONE", FALSE, "OTHER"),
        Translated("UNSUPPORTED_DIALECT", "NONE", FALSE, "OTHER")}
  \cup {Translated("FAILED", "INVALID_SYNTAX", sql, "OTHER") : sql \in BOOLEAN}
  \cup {Translated("PROVIDER_ERROR", "NONE", FALSE, error) :
          error \in TranslationError \ {"NONE"}}

(* What the report may keep of a translation when the pass begins: nothing *)
(* (a first pass, or one after a blocked one), the one of an earlier pass, *)
(* what POST /execute rebuilt of it, or one that failed.  A failed one     *)
(* with SQL was never saved; the error it failed with is not read back.    *)
Kept ==
  {NoEvidence, PriorTranslation, Translated("SUCCESS", "NONE", FALSE, "NONE")}
  \cup {[o EXCEPT !.trError = "NONE"] :
          o \in {t \in TranslationOutcomes : t.trStatus # "SUCCESS" /\ ~t.trSql}}

(* prior: there is an active candidate already, of an earlier pass or of a *)
(* user (POST /candidate).  A successful translation always left one.      *)
Init ==
  /\ stage = "created" /\ halted = FALSE /\ blocked = FALSE
  /\ prior \in BOOLEAN
  /\ ev \in Kept /\ (ev.trStatus = "SUCCESS" => prior)
  /\ repaired = NotRepaired
  /\ verdict = "NONE"

Running(s) == stage = s /\ ~halted /\ verdict = "NONE"
Enter(s)   == stage' = s /\ UNCHANGED <<halted, blocked>>
Halt       == halted' = TRUE /\ UNCHANGED <<stage, blocked>>
HaltBlocked == halted' = TRUE /\ blocked' = TRUE /\ UNCHANGED stage
------------------------------------------------------------------------------
CreateRecord ==
  /\ Running("created")
  /\ Enter("analyze")
  /\ UNCHANGED <<prior, ev, repaired, verdict>>

(* STEP 1.5.  A source that fails its preflight is evaluated with whatever *)
(* translation summary the report still has.                               *)
SourcePreflight(allowed) ==
  /\ Running("analyze")
  /\ IF allowed THEN Enter("translate") ELSE HaltBlocked
  /\ UNCHANGED <<prior, ev, repaired, verdict>>

(* Its own translation replaces whatever the report kept.                  *)
Translate(outcome) ==
  /\ Running("translate")
  /\ ev' = outcome
  /\ IF outcome.trStatus = "SUCCESS" THEN Enter("preflight") ELSE Halt
  /\ UNCHANGED <<prior, repaired, verdict>>

(* STEP 2.2 and 2.5: the candidate is stored, then checked.                *)
Preflight(allowed) ==
  /\ Running("preflight")
  /\ IF allowed THEN Enter("execute") ELSE HaltBlocked
  /\ UNCHANGED <<prior, ev, repaired, verdict>>

(* Mutant: the pass goes on although only the source side ran.             *)
ExecuteOnward(src, tgt, srcConf, tgtConf) ==
  /\ Running("execute")
  /\ ev' = [ev EXCEPT !.src = src, !.tgt = tgt, !.srcConf = srcConf, !.tgtConf = tgtConf]
  /\ IF src = "SUCCESS" THEN Enter("validate") ELSE Halt
  /\ UNCHANGED <<prior, repaired, verdict>>

Execute(src, tgt, srcConf, tgtConf) ==
  /\ Running("execute")
  /\ ev' = [ev EXCEPT !.src = src, !.tgt = tgt, !.srcConf = srcConf, !.tgtConf = tgtConf]
  /\ IF src = "SUCCESS" /\ tgt = "SUCCESS" THEN Enter("validate") ELSE Halt
  /\ UNCHANGED <<prior, repaired, verdict>>

(* STEP 4.  A failed schema check makes the report FAIL; only failed       *)
(* checks count mismatches, and a check may fail on none.                  *)
Validate(status, schemaFail, mismatches) ==
  /\ Running("validate")
  /\ status # "FAIL" => ~schemaFail /\ mismatches = 0
  /\ ev' = [ev EXCEPT !.val = status, !.schemaFail = schemaFail, !.mismatches = mismatches]
  /\ IF status = "PASS" THEN Halt ELSE Enter("classify")
  /\ UNCHANGED <<prior, repaired, verdict>>

(* STEP 5.  Signals come from the evidence of checks that did not pass and *)
(* from AST differences, so a report that is not PASS may classify to      *)
(* nothing.                                                                *)
Classify(n, critical) ==
  /\ Running("classify")
  /\ critical => n > 0
  /\ ev' = [ev EXCEPT !.diagnosed = TRUE, !.discs = n, !.critical = critical]
  /\ IF n = 0 THEN Halt ELSE Enter("diagnose")
  /\ UNCHANGED <<prior, repaired, verdict>>

(* STEP 6.  A provider failure, the exhausted quota included, comes back   *)
(* as a FAILED proposal without SQL.                                       *)
DiagnoseAI(status) ==
  /\ Running("diagnose")
  /\ ev' = [ev EXCEPT !.repair = status]
  /\ IF status = "PROPOSED" THEN Enter("proposed") ELSE Halt
  /\ UNCHANGED <<prior, repaired, verdict>>
------------------------------------------------------------------------------
(* STEP 7: RepairVerificationService.verify_repair.                        *)

StartVerification ==
  /\ Running("proposed")
  /\ Enter("verify")
  /\ UNCHANGED <<prior, ev, repaired, verdict>>

(* verify_repair diagnoses the first validation report once more, by       *)
(* DiagnosisService, and without the AST analyses (an ExecutionResult      *)
(* carries no SQL): before, the number of discrepancies it starts from,    *)
(* need not be ev.discs, and is 0 if all of those came from the AST.       *)

(* The candidate integrity checks or the sandbox refuse the repair: all    *)
(* earlier discrepancies remain.                                           *)
RejectRepair(status, before) ==
  /\ Running("verify")
  /\ status \in {"CANDIDATE_REJECTED", "EXECUTION_FAILED"}
  /\ ev' = [ev EXCEPT !.ver = status, !.remaining = before]
  /\ Halt
  /\ UNCHANGED <<prior, repaired, verdict>>

(* VerificationStatusDeterminer, rules 5 to 8, for an executed repair.     *)
DetermineStatus(resolved, zeroRows, reduced, new) ==
  IF new > 0 THEN "NEW_DISCREPANCIES"
  ELSE IF resolved THEN IF zeroRows THEN "FAILED_VERIFICATION" ELSE "VERIFIED"
  ELSE IF reduced THEN "PARTIALLY_RESOLVED"
  ELSE "FAILED_VERIFICATION"

(* Mutant: the remaining count is netted against the new discrepancies.    *)
CompareRepairNet(conf, val, before, resolved, zeroRows, reduced, remaining, new) ==
  /\ Running("verify")
  /\ remaining <= before
  /\ resolved /\ before > 0 => remaining < before
  /\ ~resolved => remaining + new > 0
  /\ reduced => ~resolved
  /\ before = 0 => ~zeroRows /\ ~reduced
  /\ repaired' = [conf |-> conf, val |-> val, before |-> before]
  /\ ev' = [ev EXCEPT !.ver = DetermineStatus(resolved, zeroRows, reduced, new),
                      !.remaining = remaining - new, !.new = new]
  /\ Halt
  /\ UNCHANGED <<prior, verdict>>

(* The repair ran, was re-validated and re-classified.  The status of the  *)
(* second validation report is not looked at: only the discrepancies that  *)
(* were classified count, and an errored validator has none.  With none    *)
(* before, the target is a placeholder whose row count is unknown, which   *)
(* the zero-rows rule lets through.                                        *)
CompareRepair(conf, val, before, resolved, zeroRows, reduced, remaining, new) ==
  /\ Running("verify")
  /\ remaining <= before
  /\ resolved /\ before > 0 => remaining < before
  /\ ~resolved => remaining + new > 0
  /\ reduced => ~resolved
  /\ before = 0 => ~zeroRows /\ ~reduced
  /\ repaired' = [conf |-> conf, val |-> val, before |-> before]
  /\ ev' = [ev EXCEPT !.ver = DetermineStatus(resolved, zeroRows, reduced, new),
                      !.remaining = remaining, !.new = new]
  /\ Halt
  /\ UNCHANGED <<prior, verdict>>

(* Both AI services construct their provider outside of the try (a missing *)
(* key raises), and the diagnosis persists its proposal there; the sandbox *)
(* raises when it cannot resolve the dataset; the validation service when  *)
(* an execution artifact was not persisted; compare_context when the       *)
(* dataset changed under the repair and on unknown row counts.  Nothing    *)
(* above catches: no report is saved.                                      *)
PhaseRaises ==
  /\ \E s \in {"translate", "execute", "validate", "diagnose", "verify"} : Running(s)
  /\ verdict' = "RAISED"
  /\ UNCHANGED <<stage, halted, blocked, prior, ev, repaired>>
------------------------------------------------------------------------------
(* evaluate_assurance.  A blocked preflight overwrites the saved report's  *)
(* status with BLOCKED, but only if the evaluation did not raise.          *)
HasCandidate == prior \/ ev.trStatus = "SUCCESS"

(* Mutant: the orchestrator does not overwrite a blocked report's status.  *)
EvaluateUnblocked ==
  /\ halted /\ verdict = "NONE"
  /\ verdict' = IF ~Consistent(ev, HasCandidate) THEN "RAISED" ELSE FinalStatus(ev)
  /\ UNCHANGED <<stage, halted, blocked, prior, ev, repaired>>

Evaluate ==
  /\ halted /\ verdict = "NONE"
  /\ verdict' = IF ~Consistent(ev, HasCandidate) THEN "RAISED"
                ELSE IF blocked THEN "BLOCKED"
                ELSE FinalStatus(ev)
  /\ UNCHANGED <<stage, halted, blocked, prior, ev, repaired>>

Count == 0..MaxDiscs

Next ==
  \/ CreateRecord
  \/ \E a \in SourcePreflights : SourcePreflight(a)
  \/ \E o \in TranslationOutcomes : Translate(o)
  \/ \E a \in BOOLEAN : Preflight(a)
  \/ \E s, t \in ExecutionStatus, sc, tc \in Confidences : Execute(s, t, sc, tc)
  \/ \E v \in ValidationStatus, f \in BOOLEAN, m \in Count : Validate(v, f, m)
  \/ \E n \in Count, c \in BOOLEAN : Classify(n, c)
  \/ \E r \in RepairStatus : DiagnoseAI(r)
  \/ StartVerification
  \/ \E v \in VerificationStatus, b \in Count : RejectRepair(v, b)
  \/ \E c \in Confidences, v \in ValidationStatus, res, z, red \in BOOLEAN, b, m, n \in Count :
        CompareRepair(c, v, b, res, z, red, m, n)
  \/ PhaseRaises
  \/ Evaluate

Spec == Init /\ [][Next]_vars
------------------------------------------------------------------------------
Decided == verdict \in MigrationFinalStatus

(* The eleven gates, the engine and its overrides agree with the one-line  *)
(* definition of VERIFIED in decision.determine_verified, plus the         *)
(* confidence gate, on every evidence the phases can collect.              *)
DecisionMatchesDefinition ==
  Decided /\ ~blocked =>
    (verdict = "VERIFIED" <=>
       /\ DetermineVerified(ev)
       /\ {ev.srcConf, ev.tgtConf} \subseteq {"EXACT", "SAFE_EQUIVALENT"})

(* VERIFIED is earned: both sides ran, the translation is valid SQL, and   *)
(* either the validators passed or a proposed repair was verified with     *)
(* nothing left over and nothing new.                                      *)
VerifiedIsEarned ==
  verdict = "VERIFIED" =>
    /\ ev.trStatus = "SUCCESS" /\ ev.trValid = "VALID_SYNTAX"
    /\ ev.src = "SUCCESS" /\ ev.tgt = "SUCCESS"
    /\ \/ ev.val = "PASS"
       \/ /\ ev.repair = "PROPOSED" /\ ev.ver = "VERIFIED"
          /\ ev.remaining = 0 /\ ev.new = 0 /\ ~ev.schemaFail

(* README.md: "Repair verification fails" ends BLOCKED, whichever of the   *)
(* failing verification statuses it was.                                   *)
RepairFailureBlocks ==
  Decided /\ ev.ver \notin {"NOT_RUN", "VERIFIED"} => verdict = "BLOCKED"

(* README.md: a query that references a missing dataset column is BLOCKED, *)
(* and the pass that finds it executes nothing.  The exception is a source *)
(* whose report keeps no translation that succeeded, beside a candidate    *)
(* that is active: its text counts as the SQL of a failed translation, and *)
(* the consistency validator raises before a report is saved.              *)
SchemaMismatchBlocks ==
  blocked /\ verdict # "NONE" =>
    /\ ev.src = "NOT_RUN" /\ ev.tgt = "NOT_RUN"
    /\ verdict = IF prior /\ ev.trStatus # "SUCCESS" THEN "RAISED" ELSE "BLOCKED"

(* Once the translation has succeeded the consistency validator refuses    *)
(* nothing the phases can collect: a pass that reaches the evaluation then *)
(* ends in a saved report, whichever phase it left early.                  *)
SucceededTranslationReported ==
  halted /\ ev.trStatus = "SUCCESS" => verdict # "RAISED"

(* The phases by their names in the graph.  The record itself shows none   *)
(* of them: it stays CREATED until evaluate_assurance writes the state of  *)
(* its verdict, which a blocked preflight's BLOCKED leaves as it is.       *)
StageState ==
  [ created |-> "CREATED", analyze |-> "ANALYZING", translate |-> "TRANSLATING",
    preflight |-> "PREFLIGHTING", execute |-> "EXECUTING", validate |-> "VALIDATING",
    classify |-> "DISCREPANCIES_FOUND", diagnose |-> "DIAGNOSING",
    proposed |-> "REPAIR_PROPOSED", verify |-> "REPAIR_VERIFYING" ]

ShownState == IF Decided THEN StatusToState(FinalStatus(ev)) ELSE StageState[stage]

Machine == INSTANCE MigrationStateMachine WITH state <- ShownState

(* A preflight that fails, in ANALYZING or in PREFLIGHTING, leaves the     *)
(* record in state FAILED with the status BLOCKED, and an INCONCLUSIVE     *)
(* verdict after VALIDATING is shown as FAILED: the graph of               *)
(* assurance/state.py has none of these three edges.                       *)
UndeclaredEnding ==
  \/ /\ ShownState \in {"ANALYZING", "PREFLIGHTING"} /\ ShownState' = "FAILED"
     /\ blocked' /\ verdict' = "BLOCKED"
  \/ ShownState = "VALIDATING" /\ verdict' = "INCONCLUSIVE"

(* But for those three endings the phases in their order, and the state    *)
(* the record ends in, follow the transition graph of assurance/state.py.  *)
FollowsStateMachine ==
  Machine!Init /\ [][Machine!Next \/ UndeclaredEnding]_ShownState
------------------------------------------------------------------------------
(* What the documentation says and the code does not do: TLC refutes each  *)
(* of these when it is added to EvidencePhases.cfg.                        *)

(* README.md: "Query references missing dataset column" is BLOCKED.  So it *)
(* is in no report if a candidate is active beside a failed translation.   *)
SchemaMismatchReported ==
  blocked /\ verdict # "NONE" => verdict = "BLOCKED"

(* assurance/state.py: PREFLIGHTING goes to EXECUTING, BLOCKED or ERROR.   *)
BlockedPreflightShown ==
  Decided /\ blocked /\ stage = "preflight" => ShownState = "BLOCKED"

(* docs/APPROACH.md: a repair is VERIFIED only if the confidence of its    *)
(* re-execution is at least SAFE_EQUIVALENT.                               *)
RepairedConfidenceGated ==
  verdict = "VERIFIED" => repaired.conf \in {"EXACT", "SAFE_EQUIVALENT"}

(* tests/repair_verification: zero to zero cannot be VERIFIED, so a repair *)
(* is VERIFIED only if there was a discrepancy to repair.                  *)
ZeroToZeroRejected ==
  verdict = "VERIFIED" /\ ev.ver = "VERIFIED" => repaired.before > 0

(* docs/architecture.md: TRANSLATING goes to PREFLIGHTING or to FAILED, so *)
(* a failed translation ends in a report that says so.                     *)
FailedTranslationReported ==
  halted /\ ev.trStatus \notin {"NOT_RUN", "SUCCESS"} => verdict # "RAISED"

(* docs/TERMINOLOGY.md: a Repaired Pass is a migration that failed         *)
(* validation, was patched and passed re-verification.                     *)
RepairedPassVerified ==
  Decided /\ ev.ver = "VERIFIED" /\ ev.remaining = 0 => verdict # "BLOCKED"
==============================================================================

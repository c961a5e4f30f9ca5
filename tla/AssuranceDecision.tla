-------------------------- MODULE AssuranceDecision --------------------------
(***************************************************************************)
(* The Phase 9 decision: how AssuranceService.evaluate_assurance turns the *)
(* artifacts of one evaluation into a final status.  Pure operators, used  *)
(* by the specifications that collect the artifacts (EvidencePhases) and   *)
(* that interleave whole requests (MigrationPipeline).                     *)
(*                                                                         *)
(* An evidence record holds what the gates can tell apart.  An artifact    *)
(* that was not produced (a Python None) has status "NOT_RUN".  The fields *)
(* about the translation stand for the TranslationResult or, when there is *)
(* none, for the TranslationSummary of the existing report: the code reads *)
(* the summary exactly where the result is missing.                        *)
(***************************************************************************)
EXTENDS Naturals

TranslationStatus == {"SUCCESS", "FAILED", "REJECTED", "INVALID_OUTPUT",
                      "UNSUPPORTED_DIALECT", "TIMEOUT", "PROVIDER_ERROR"}

CandidateValidationStatus == {"VALID_SYNTAX", "INVALID_SYNTAX", "UNSAFE_SQL",
                              "SCHEMA_MISMATCH", "NOT_EVALUATED", "NOT_APPLICABLE"}

TranslationError == {"NONE", "PROVIDER_TOKEN_EXHAUSTED", "PROVIDER_TIMEOUT", "OTHER"}

ExecutionStatus == {"SUCCESS", "EXECUTION_ERROR", "DATASET_ERROR", "SECURITY_ERROR",
                    "TIMEOUT", "INTERNAL_ERROR", "SANDBOX_LIMITATION",
                    "TARGET_CAPABILITY_UNSUPPORTED"}

Confidence == {"EXACT", "SAFE_EQUIVALENT", "APPROXIMATION", "UNKNOWN"}

ValidationStatus == {"PASS", "WARN", "FAIL", "ERROR"}

RepairStatus == {"PROPOSED", "NO_REPAIR", "FAILED"}

VerificationStatus == {"VERIFIED", "FAILED_VERIFICATION", "PARTIALLY_RESOLVED",
                       "NEW_DISCREPANCIES", "EXECUTION_FAILED", "CANDIDATE_REJECTED",
                       "INSUFFICIENT_EVIDENCE"}

MigrationFinalStatus == {"VERIFIED", "BLOCKED", "BLOCKED_PROVIDER_LIMIT", "FAILED",
                         "INCONCLUSIVE", "ERROR", "IN_PROGRESS"}

MigrationState == {"CREATED", "ANALYZING", "TRANSLATING", "PREFLIGHTING", "EXECUTING",
                   "VALIDATING", "DISCREPANCIES_FOUND", "DIAGNOSING", "REPAIR_PROPOSED",
                   "REPAIR_VERIFYING", "VERIFIED", "FAILED", "BLOCKED", "ERROR"}

EvidenceSpace ==
  [ trStatus  : TranslationStatus \cup {"NOT_RUN"},
    trValid   : CandidateValidationStatus \cup {"NONE"},
    trSql     : BOOLEAN,            \* a non-empty target_sql came with it
    trError   : TranslationError,
    src       : ExecutionStatus \cup {"NOT_RUN"},
    tgt       : ExecutionStatus \cup {"NOT_RUN"},
    srcConf   : Confidence,
    tgtConf   : Confidence,
    val       : ValidationStatus \cup {"NOT_RUN"},
    schemaFail: BOOLEAN,            \* the SchemaValidator check is FAIL
    mismatches: Nat,                \* summed over the failed checks
    diagnosed : BOOLEAN,            \* a DiscrepancyReport exists
    discs     : Nat,
    critical  : BOOLEAN,
    repair    : RepairStatus \cup {"NOT_RUN"},
    ver       : VerificationStatus \cup {"NOT_RUN"},
    remaining : Nat,
    new       : Nat,
    dsSame    : BOOLEAN,
    cfgSame   : BOOLEAN ]

NoEvidence ==
  [ trStatus |-> "NOT_RUN", trValid |-> "NONE", trSql |-> FALSE, trError |-> "NONE",
    src |-> "NOT_RUN", tgt |-> "NOT_RUN", srcConf |-> "EXACT", tgtConf |-> "EXACT",
    val |-> "NOT_RUN", schemaFail |-> FALSE, mismatches |-> 0,
    diagnosed |-> FALSE, discs |-> 0, critical |-> FALSE, repair |-> "NOT_RUN",
    ver |-> "NOT_RUN", remaining |-> 0, new |-> 0, dsSame |-> TRUE, cfgSame |-> TRUE ]
------------------------------------------------------------------------------
(* Gate inputs (evaluate_assurance, steps 3 to 6).                         *)

RepairAttempted(e) == e.repair # "NOT_RUN"
VerificationRan(e)  == RepairAttempted(e) /\ e.ver # "NOT_RUN"

VerificationPath(e) ==
  IF e.val = "PASS" THEN "DIRECT_PASS"
  ELSE IF ~RepairAttempted(e) THEN "REPAIR_NOT_EXECUTED"
  ELSE IF e.ver = "VERIFIED" THEN "REPAIRED_PASS"
  ELSE IF e.ver = "FAILED_VERIFICATION" \/ e.repair = "FAILED" THEN "REPAIR_FAILED"
  ELSE "REPAIR_NOT_EXECUTED"

(* Mutant: a verification settles the discrepancies, however many remain.  *)
RemainingCountSettled(e) ==
  IF VerificationRan(e) THEN e.new
  ELSE IF e.diagnosed THEN e.discs
  ELSE IF e.val \notin {"NOT_RUN", "PASS"}
       THEN IF e.mismatches = 0 THEN 1 ELSE e.mismatches
  ELSE 0

RemainingCount(e) ==
  IF VerificationRan(e) THEN e.remaining
  ELSE IF e.diagnosed THEN e.discs
  ELSE IF e.val \notin {"NOT_RUN", "PASS"}
       THEN IF e.mismatches = 0 THEN 1 ELSE e.mismatches
  ELSE 0

BaseArtifacts(e) ==
  /\ e.trStatus # "NOT_RUN"
  /\ e.src # "NOT_RUN"
  /\ e.tgt # "NOT_RUN"
  /\ e.val # "NOT_RUN"

LineageComplete(e) ==
  /\ BaseArtifacts(e)
  /\ \/ VerificationPath(e) = "DIRECT_PASS"
     \/ /\ VerificationPath(e) = "REPAIRED_PASS"
        /\ e.diagnosed
        /\ e.repair # "NOT_RUN"
        /\ e.ver # "NOT_RUN"

SchemaValid(e) == e.val # "NOT_RUN" /\ ~e.schemaFail

UnresolvedCritical(e) == e.diagnosed /\ e.critical /\ e.ver # "VERIFIED"
------------------------------------------------------------------------------
(* The eleven hard gates and the decision engine.                          *)

HardGate == 1..11

PassIf(b) == IF b THEN "PASS" ELSE "FAIL"
PassIfRepair(e, b) == IF RepairAttempted(e) THEN PassIf(b) ELSE "NOT_APPLICABLE"

Gate(e, g) ==
  CASE g = 1  -> PassIf(e.src = "SUCCESS")
    [] g = 2  -> PassIf(e.trValid = "VALID_SYNTAX")
    [] g = 3  -> PassIf(e.tgt = "SUCCESS")
    [] g = 4  -> PassIf(SchemaValid(e))
    [] g = 5  -> PassIf(~UnresolvedCritical(e))
    [] g = 6  -> PassIfRepair(e, e.ver = "NOT_RUN" \/ e.new = 0)
    [] g = 7  -> PassIfRepair(e, e.ver = "VERIFIED")
    [] g = 8  -> PassIfRepair(e, VerificationRan(e) /\ e.dsSame)
    [] g = 9  -> PassIfRepair(e, VerificationRan(e) /\ e.cfgSame)
    [] g = 10 -> PassIf(LineageComplete(e))
    [] g = 11 -> PassIf(RemainingCount(e) = 0)

FailedGates(e) == {g \in HardGate : Gate(e, g) = "FAIL"}
(* Mutant: a failed re-verification counts as a technical failure.         *)
TechnicalGatesWithRepair == {1, 2, 3, 7}
TechnicalGates == {1, 2, 3}

DetermineFinalStatus(e) ==
  IF FailedGates(e) = {} THEN "VERIFIED"
  ELSE IF FailedGates(e) \cap TechnicalGates # {} THEN "FAILED"
  ELSE "BLOCKED"

(* A failed translation or execution overrides the engine's verdict.       *)
TechnicalOverride(e) ==
  IF e.trStatus \notin {"NOT_RUN", "SUCCESS"}
  THEN IF e.trError = "PROVIDER_TOKEN_EXHAUSTED" THEN "BLOCKED_PROVIDER_LIMIT"
       ELSE "FAILED"
  ELSE IF e.src = "SUCCESS" /\ e.tgt = "SUCCESS" THEN DetermineFinalStatus(e)
  ELSE IF "TARGET_CAPABILITY_UNSUPPORTED" \in {e.src, e.tgt} THEN "FAILED"
  ELSE IF "SANDBOX_LIMITATION" \in {e.src, e.tgt} THEN "INCONCLUSIVE"
  ELSE "FAILED"

(* The confidence gate: approximated semantics on a side that ran cannot   *)
(* be VERIFIED.                                                            *)
RiskySide(status, conf) == status # "NOT_RUN" /\ conf \in {"APPROXIMATION", "UNKNOWN"}

(* Mutant: the confidence gate looks at the source side only.              *)
FinalStatusSourceOnly(e) ==
  LET status == TechnicalOverride(e)
  IN  IF /\ status \notin {"FAILED", "BLOCKED", "BLOCKED_PROVIDER_LIMIT"}
         /\ RiskySide(e.src, e.srcConf)
      THEN "INCONCLUSIVE"
      ELSE status

FinalStatus(e) ==
  LET status == TechnicalOverride(e)
  IN  IF /\ status \notin {"FAILED", "BLOCKED", "BLOCKED_PROVIDER_LIMIT"}
         /\ RiskySide(e.src, e.srcConf) \/ RiskySide(e.tgt, e.tgtConf)
      THEN "INCONCLUSIVE"
      ELSE status

(* Mutant: an inconclusive migration is shown as blocked.                  *)
StatusToStateBlocked(status) ==
  CASE status \in {"VERIFIED", "BLOCKED", "FAILED", "ERROR"}     -> status
    [] status \in {"BLOCKED_PROVIDER_LIMIT", "INCONCLUSIVE"}     -> "BLOCKED"
    [] status = "IN_PROGRESS"                                    -> "VALIDATING"

StatusToState(status) ==
  CASE status \in {"VERIFIED", "BLOCKED", "FAILED", "ERROR"}     -> status
    [] status \in {"BLOCKED_PROVIDER_LIMIT", "INCONCLUSIVE"}     -> "FAILED"
    [] status = "IN_PROGRESS"                                    -> "VALIDATING"
------------------------------------------------------------------------------
(* ArtifactStateConsistencyValidator: evaluate_assurance raises, and saves *)
(* nothing, unless this holds.  candidate: the migration has an active     *)
(* candidate, whose text stands in for the translated target SQL.          *)

HasTargetSql(e, candidate) == candidate \/ e.trSql

Scored(e) == e.val # "NOT_RUN" \/ e.ver = "VERIFIED"

Consistent(e, candidate) ==
  /\ e.trStatus # "SUCCESS" =>
       e.trValid # "VALID_SYNTAX" /\ ~HasTargetSql(e, candidate)
  /\ e.tgt = "SUCCESS" => HasTargetSql(e, candidate)
  /\ e.val \in {"PASS", "FAIL", "WARN"} => e.tgt = "SUCCESS"
  /\ IF e.val = "NOT_RUN"
     THEN ~Scored(e) /\ FinalStatus(e) # "VERIFIED"
     ELSE FinalStatus(e) = "VERIFIED" => Scored(e)
------------------------------------------------------------------------------
(* decision.determine_verified: the one-function statement of VERIFIED     *)
(* that decision.py gives beside the gates.                                *)
DetermineVerified(e) ==
  /\ e.trValid = "VALID_SYNTAX"
  /\ e.src = "SUCCESS"
  /\ e.tgt = "SUCCESS"
  /\ SchemaValid(e)
  /\ RemainingCount(e) = 0
  /\ VerificationRan(e) => e.new = 0
  /\ RepairAttempted(e) => e.ver = "VERIFIED" /\ e.dsSame /\ e.cfgSame
  /\ LineageComplete(e)
==============================================================================

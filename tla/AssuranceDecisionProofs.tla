------------------------ MODULE AssuranceDecisionProofs ------------------------
(* Facts about the decision of evaluate_assurance, for every evidence.      *)
EXTENDS AssuranceDecision, TLAPS

(* An evaluation without artifacts is evidence.                             *)
LEMMA NoEvidenceType == NoEvidence \in EvidenceSpace
BY DEF NoEvidence, EvidenceSpace, TranslationStatus, CandidateValidationStatus,
       TranslationError, ExecutionStatus, Confidence, ValidationStatus,
       RepairStatus, VerificationStatus

(* The decision is total: some final status comes out of any evidence.      *)
LEMMA FinalStatusType ==
  ASSUME NEW e
  PROVE  FinalStatus(e) \in MigrationFinalStatus
BY DEF FinalStatus, TechnicalOverride, DetermineFinalStatus, MigrationFinalStatus

(* Every final status maps to a migration state.                            *)
LEMMA StatusToStateType ==
  ASSUME NEW status \in MigrationFinalStatus
  PROVE  StatusToState(status) \in MigrationState
BY DEF MigrationFinalStatus, MigrationState, StatusToState

(* The engine alone says VERIFIED exactly when no hard gate fails.          *)
LEMMA EngineVerified ==
  ASSUME NEW e
  PROVE  DetermineFinalStatus(e) = "VERIFIED" <=> \A g \in HardGate : Gate(e, g) # "FAIL"
BY DEF DetermineFinalStatus, FailedGates

(* Nothing after the engine turns another verdict into VERIFIED.            *)
LEMMA OverridesOnlyLower ==
  ASSUME NEW e, FinalStatus(e) = "VERIFIED"
  PROVE  /\ DetermineFinalStatus(e) = "VERIFIED"
         /\ e.trStatus \in {"NOT_RUN", "SUCCESS"}
         /\ ~RiskySide(e.src, e.srcConf) /\ ~RiskySide(e.tgt, e.tgtConf)
BY DEF FinalStatus, TechnicalOverride

(* The eleven gates passing imply determine_verified, whatever the          *)
(* evidence.                                                                *)
LEMMA GatesImplyVerified ==
  ASSUME NEW e, \A g \in HardGate : Gate(e, g) # "FAIL"
  PROVE  DetermineVerified(e)
<1>1. \A g \in {1, 2, 3, 4, 5, 6, 7, 8, 9, 10, 11} : Gate(e, g) # "FAIL"
  BY DEF HardGate
<1>2. e.src = "SUCCESS" /\ e.trValid = "VALID_SYNTAX" /\ e.tgt = "SUCCESS"
  <2>1. e.src = "SUCCESS"             BY <1>1 DEF Gate, PassIf
  <2>2. e.trValid = "VALID_SYNTAX"    BY <1>1 DEF Gate, PassIf
  <2>3. e.tgt = "SUCCESS"             BY <1>1 DEF Gate, PassIf
  <2> QED  BY <2>1, <2>2, <2>3
<1>3. SchemaValid(e) /\ LineageComplete(e) /\ RemainingCount(e) = 0
  <2>1. SchemaValid(e)                BY <1>1 DEF Gate, PassIf
  <2>2. LineageComplete(e)            BY <1>1 DEF Gate, PassIf
  <2>3. RemainingCount(e) = 0         BY <1>1 DEF Gate, PassIf
  <2> QED  BY <2>1, <2>2, <2>3
<1>4. RepairAttempted(e) => e.ver = "VERIFIED" /\ e.new = 0 /\ e.dsSame /\ e.cfgSame
  <2> SUFFICES ASSUME RepairAttempted(e)
               PROVE  e.ver = "VERIFIED" /\ e.new = 0 /\ e.dsSame /\ e.cfgSame
    OBVIOUS
  <2>1. e.ver = "VERIFIED"            BY <1>1 DEF Gate, PassIf, PassIfRepair
  <2>2. e.ver = "NOT_RUN" \/ e.new = 0  BY <1>1 DEF Gate, PassIf, PassIfRepair
  <2>3. e.dsSame                      BY <1>1 DEF Gate, PassIf, PassIfRepair
  <2>4. e.cfgSame                     BY <1>1 DEF Gate, PassIf, PassIfRepair
  <2> QED  BY <2>1, <2>2, <2>3, <2>4
<1> QED  BY <1>2, <1>3, <1>4 DEF DetermineVerified, VerificationRan

(* What the pipeline collects: a critical discrepancy is a discrepancy, and *)
(* a verification repairs one.                                              *)
WellFormed(e) ==
  /\ e.critical => e.discs > 0
  /\ e.diagnosed => e.val # "PASS" /\ e.discs \in Nat
  /\ ~e.diagnosed => ~e.critical
  /\ e.ver # "NOT_RUN" => e.diagnosed /\ e.repair = "PROPOSED"

(* Conversely, no gate blocks well-formed evidence of a verified migration. *)
LEMMA VerifiedImpliesGates ==
  ASSUME NEW e, WellFormed(e), DetermineVerified(e)
  PROVE  \A g \in HardGate : Gate(e, g) # "FAIL"
<1>1. ~UnresolvedCritical(e)
  BY DEF UnresolvedCritical, DetermineVerified, WellFormed, RemainingCount,
         VerificationRan, RepairAttempted
<1>2. SUFFICES ASSUME NEW g \in {1, 2, 3, 4, 5, 6, 7, 8, 9, 10, 11}
               PROVE  Gate(e, g) # "FAIL"
  BY DEF HardGate
<1>3. CASE g \in {1, 2, 3, 4, 10, 11}
  BY <1>3 DEF Gate, PassIf, DetermineVerified
<1>4. CASE g = 5
  BY <1>1, <1>4 DEF Gate, PassIf
<1>5. CASE g \in {6, 7, 8, 9}
  BY <1>5 DEF Gate, PassIf, PassIfRepair, DetermineVerified, VerificationRan,
              RepairAttempted
<1> QED  BY <1>2, <1>3, <1>4, <1>5

(* The decision is sound: a VERIFIED verdict meets determine_verified       *)
(* whatever evidence it is taken on, which is why no interleaving of        *)
(* requests can make the verdict and its own evidence disagree.             *)
THEOREM DecisionSound ==
  ASSUME NEW e, FinalStatus(e) = "VERIFIED"
  PROVE  DetermineVerified(e)
BY OverridesOnlyLower, EngineVerified, GatesImplyVerified

(* The decision is complete on well-formed evidence of a translation that   *)
(* did not fail and of executions with proved semantics.                    *)
THEOREM DecisionComplete ==
  ASSUME NEW e, WellFormed(e), DetermineVerified(e),
         e.trStatus \in {"NOT_RUN", "SUCCESS"},
         ~RiskySide(e.src, e.srcConf), ~RiskySide(e.tgt, e.tgtConf)
  PROVE  FinalStatus(e) = "VERIFIED"
<1>1. DetermineFinalStatus(e) = "VERIFIED"
  BY VerifiedImpliesGates, EngineVerified
<1>2. e.src = "SUCCESS" /\ e.tgt = "SUCCESS"
  BY DEF DetermineVerified
<1> QED  BY <1>1, <1>2 DEF FinalStatus, TechnicalOverride

================================================================================

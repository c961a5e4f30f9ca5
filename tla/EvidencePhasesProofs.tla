------------------------- MODULE EvidencePhasesProofs -------------------------
(* The verdict of one pass, proved for any confidences the adapters report  *)
(* and any number of discrepancies.                                         *)
EXTENDS EvidencePhases, AssuranceDecisionProofs

(* What the evidence holds in each stage, whether or not the pass halted.   *)
StageEvidence ==
  /\ stage \in {"created", "analyze", "translate", "preflight", "execute", "validate"}
       => ~ev.diagnosed /\ ev.repair = "NOT_RUN" /\ ev.ver = "NOT_RUN"
  /\ stage \in {"preflight", "execute", "validate", "classify", "diagnose",
                "proposed", "verify"}
       => ev.trStatus = "SUCCESS" /\ ev.trValid = "VALID_SYNTAX"
  /\ stage \in {"validate", "classify", "diagnose", "proposed", "verify"}
       => ev.src = "SUCCESS" /\ ev.tgt = "SUCCESS"
  /\ stage \in {"classify", "diagnose", "proposed", "verify"}
       => ev.val # "PASS"
  /\ stage \in {"classify", "diagnose", "proposed"}
       => ev.ver = "NOT_RUN"
  /\ stage \in {"diagnose", "proposed", "verify"}
       => ev.diagnosed
  /\ stage \in {"proposed", "verify"}
       => ev.repair = "PROPOSED"

PhaseInv ==
  /\ TypeOK
  /\ WellFormed(ev)
  /\ StageEvidence
  /\ ev.trValid = "VALID_SYNTAX" => ev.trStatus = "SUCCESS"
  /\ Decided => verdict = IF blocked THEN "BLOCKED" ELSE FinalStatus(ev)

------------------------------------------------------------------------------
(* What a translation result alone amounts to.                              *)
TranslationOnly(o) ==
  /\ o \in EvidenceSpace
  /\ WellFormed(o)
  /\ ~o.diagnosed /\ o.repair = "NOT_RUN" /\ o.ver = "NOT_RUN"
  /\ o.src = "NOT_RUN" /\ o.tgt = "NOT_RUN" /\ o.val = "NOT_RUN"
  /\ o.trValid = "VALID_SYNTAX" <=> o.trStatus = "SUCCESS"

(* A translation is valid SQL exactly when it succeeded, and brings no      *)
(* other evidence.                                                          *)
LEMMA TranslatedShape ==
  ASSUME NEW status \in TranslationStatus, NEW sql \in BOOLEAN,
         NEW valid \in CandidateValidationStatus \cup {"NONE"},
         NEW error \in TranslationError,
         valid = "VALID_SYNTAX" <=> status = "SUCCESS"
  PROVE  TranslationOnly(Translated(status, valid, sql, error))
<1> DEFINE o == Translated(status, valid, sql, error)
<1>1. o \in EvidenceSpace
  BY NoEvidenceType DEF Translated, EvidenceSpace
<1> QED  BY <1>1 DEF Translated, NoEvidence, WellFormed, TranslationOnly

(* Every outcome of the translation is evidence of a translation only.      *)
LEMMA OutcomeShape ==
  ASSUME NEW o \in TranslationOutcomes
  PROVE  TranslationOnly(o)
<1> USE DEF TranslationStatus, CandidateValidationStatus, TranslationError
<1>1. CASE o = PriorTranslation
  BY <1>1, TranslatedShape DEF PriorTranslation
<1>2. CASE o = Translated("REJECTED", "UNSAFE_SQL", TRUE, "OTHER")
  BY <1>2, TranslatedShape
<1>3. CASE o = Translated("FAILED", "SCHEMA_MISMATCH", TRUE, "OTHER")
  BY <1>3, TranslatedShape
<1>4. CASE o \in {Translated(st, "NONE", FALSE, "OTHER") :
                    st \in {"FAILED", "INVALID_OUTPUT", "UNSUPPORTED_DIALECT"}}
  BY <1>4, TranslatedShape
<1>5. CASE \E sql \in BOOLEAN : o = Translated("FAILED", "INVALID_SYNTAX", sql, "OTHER")
  BY <1>5, TranslatedShape
<1>6. CASE \E error \in TranslationError \ {"NONE"} :
             o = Translated("PROVIDER_ERROR", "NONE", FALSE, error)
  BY <1>6, TranslatedShape
<1> QED
  BY <1>1, <1>2, <1>3, <1>4, <1>5, <1>6 DEF TranslationOutcomes

(* What a report keeps is a translation only, too, and valid SQL only of    *)
(* one that succeeded; without success it has no SQL.                       *)
LEMMA KeptShape ==
  ASSUME NEW k \in Kept
  PROVE  /\ k \in EvidenceSpace /\ WellFormed(k)
         /\ ~k.diagnosed /\ k.repair = "NOT_RUN" /\ k.ver = "NOT_RUN"
         /\ k.src = "NOT_RUN" /\ k.tgt = "NOT_RUN" /\ k.val = "NOT_RUN"
         /\ k.trValid = "VALID_SYNTAX" => k.trStatus = "SUCCESS"
         /\ k.trStatus # "SUCCESS" => k.trSql = FALSE
         /\ \A x \in DOMAIN NoEvidence \ {"trStatus", "trValid", "trSql", "trError"} :
               k[x] = NoEvidence[x]
<1> USE DEF TranslationStatus, CandidateValidationStatus, TranslationError
<1>1. CASE k = NoEvidence
  BY <1>1, NoEvidenceType DEF NoEvidence, WellFormed
<1>2. CASE k = PriorTranslation
  <2>1. TranslationOnly(k) /\ k.trStatus = "SUCCESS"
    BY <1>2, TranslatedShape DEF PriorTranslation, Translated, NoEvidence
  <2>2. \A x \in DOMAIN NoEvidence \ {"trStatus", "trValid", "trSql", "trError"} :
           k[x] = NoEvidence[x]
    BY <1>2 DEF PriorTranslation, Translated, NoEvidence
  <2> QED  BY <2>1, <2>2 DEF TranslationOnly
<1>3. CASE k = Translated("SUCCESS", "NONE", FALSE, "NONE")
  <2>1. k \in EvidenceSpace
    BY <1>3, NoEvidenceType DEF Translated, EvidenceSpace
  <2> QED  BY <1>3, <2>1 DEF Translated, NoEvidence, WellFormed
<1>4. ASSUME NEW o \in TranslationOutcomes, o.trStatus # "SUCCESS", ~o.trSql,
             k = [o EXCEPT !.trError = "NONE"]
      PROVE  /\ k \in EvidenceSpace
             /\ \A x \in DOMAIN NoEvidence : x # "trError" => k[x] = o[x]
  BY <1>4, OutcomeShape DEF TranslationOnly, EvidenceSpace, NoEvidence
<1>5. ASSUME NEW o \in TranslationOutcomes
      PROVE  \A x \in DOMAIN NoEvidence \ {"trStatus", "trValid", "trSql", "trError"} :
               o[x] = NoEvidence[x]
  <2>1. ASSUME NEW status, NEW valid, NEW sql, NEW error,
               o = Translated(status, valid, sql, error)
        PROVE  \A x \in DOMAIN NoEvidence \ {"trStatus", "trValid", "trSql", "trError"} :
                 o[x] = NoEvidence[x]
    BY <2>1 DEF Translated, NoEvidence
  <2> QED  BY <2>1 DEF TranslationOutcomes, PriorTranslation
<1>6. CASE \E o \in TranslationOutcomes :
             o.trStatus # "SUCCESS" /\ ~o.trSql /\ k = [o EXCEPT !.trError = "NONE"]
  <2>1. PICK o \in TranslationOutcomes :
               o.trStatus # "SUCCESS" /\ ~o.trSql /\ k = [o EXCEPT !.trError = "NONE"]
    BY <1>6
  <2>2. TranslationOnly(o) /\ k \in EvidenceSpace
        /\ \A x \in DOMAIN NoEvidence : x # "trError" => k[x] = o[x]
    BY <1>4, <2>1, OutcomeShape
  <2>3. /\ k.trStatus = o.trStatus /\ k.trValid = o.trValid /\ k.trSql = o.trSql
        /\ k.diagnosed = o.diagnosed /\ k.repair = o.repair /\ k.ver = o.ver
        /\ k.src = o.src /\ k.tgt = o.tgt /\ k.val = o.val /\ k.critical = o.critical
        /\ k.discs = o.discs
    BY <2>2 DEF NoEvidence
  <2>4. WellFormed(k)
    BY <2>2, <2>3 DEF TranslationOnly, WellFormed
  <2>5. k.trSql = FALSE
    BY <2>1, <2>2, <2>3 DEF EvidenceSpace
  <2>6. \A x \in DOMAIN NoEvidence \ {"trStatus", "trValid", "trSql", "trError"} :
           k[x] = NoEvidence[x]
    BY <1>5, <2>2
  <2> QED  BY <2>1, <2>2, <2>3, <2>4, <2>5, <2>6 DEF TranslationOnly
<1> QED  BY <1>1, <1>2, <1>3, <1>6 DEF Kept

(* And it is a translation that ran.                                        *)
LEMMA OutcomeRan == ASSUME NEW o \in TranslationOutcomes PROVE o.trStatus # "NOT_RUN"
<1>1. ASSUME NEW status \in TranslationStatus, NEW valid, NEW sql, NEW error,
             o = Translated(status, valid, sql, error)
      PROVE  o.trStatus # "NOT_RUN"
  BY <1>1 DEF Translated, NoEvidence, TranslationStatus
<1> QED
  BY <1>1 DEF TranslationOutcomes, PriorTranslation, TranslationStatus

(* The verdict is the last step: while the pass runs there is none.         *)
LEMMA NoneUndecided == "NONE" \notin MigrationFinalStatus /\ "RAISED" \notin MigrationFinalStatus
BY DEF MigrationFinalStatus

(* The fields a validation report sets, one after the other.                *)
LEMMA WithVal ==
  ASSUME NEW e \in EvidenceSpace, NEW v \in ValidationStatus
  PROVE  [e EXCEPT !.val = v] \in EvidenceSpace
BY DEF EvidenceSpace

(* The schema check of the validation may be set.                           *)
LEMMA WithSchemaFail ==
  ASSUME NEW e \in EvidenceSpace, NEW f \in BOOLEAN
  PROVE  [e EXCEPT !.schemaFail = f] \in EvidenceSpace
BY DEF EvidenceSpace

(* The mismatches of the validation may be set.                             *)
LEMMA WithMismatches ==
  ASSUME NEW e \in EvidenceSpace, NEW m \in Nat
  PROVE  [e EXCEPT !.mismatches = m] \in EvidenceSpace
BY DEF EvidenceSpace

(* A validation report added to evidence gives evidence.                    *)
LEMMA ValidatedType ==
  ASSUME NEW e \in EvidenceSpace, NEW v \in ValidationStatus, NEW f \in BOOLEAN,
         NEW m \in Nat
  PROVE  [e EXCEPT !.val = v, !.schemaFail = f, !.mismatches = m] \in EvidenceSpace
BY WithVal, WithSchemaFail, WithMismatches

(* The bounded counts are natural numbers.                                  *)
LEMMA CountNat == Count \subseteq Nat
BY PhasesAssumption DEF Count

(* The inductive invariant of one pass: every stage holds the evidence of   *)
(* the phases before it, and a verdict is the decision on the evidence.     *)
THEOREM PhaseInvariant == Spec => []PhaseInv
<1>1. Init => PhaseInv
  <2> SUFFICES ASSUME Init
               PROVE  PhaseInv
    OBVIOUS
  <2>0. ev \in Kept
    BY DEF Init
  <2>1. TypeOK
    BY <2>0, KeptShape DEF Init, TypeOK, Stages, NotRepaired, RepairSpace, Confidence
  <2>2. /\ WellFormed(ev) /\ StageEvidence
        /\ ev.trValid = "VALID_SYNTAX" => ev.trStatus = "SUCCESS"
    BY <2>0, KeptShape DEF Init, StageEvidence
  <2> QED
    BY <2>1, <2>2, NoneUndecided DEF Init, PhaseInv, Decided
<1>2. PhaseInv /\ [Next]_vars => PhaseInv'
  <2> SUFFICES ASSUME PhaseInv, [Next]_vars
               PROVE  PhaseInv'
    OBVIOUS
  <2> USE PhasesAssumption, NoneUndecided
  <2>0. TypeOK /\ WellFormed(ev) /\ StageEvidence
    BY DEF PhaseInv
  <2>1. CASE CreateRecord
    BY <2>0, <2>1 DEF CreateRecord, Running, Enter, PhaseInv, TypeOK, Stages,
                      StageEvidence, Decided
  <2>2. ASSUME NEW a \in SourcePreflights, SourcePreflight(a)
        PROVE  PhaseInv'
    <3>1. /\ ev' = ev /\ ~ev.diagnosed /\ ev.repair = "NOT_RUN" /\ ev.ver = "NOT_RUN"
          /\ (ev.trValid = "VALID_SYNTAX" => ev.trStatus = "SUCCESS")
      BY <2>0, <2>2 DEF SourcePreflight, Running, PhaseInv, StageEvidence
    <3>2. stage' \in {"analyze", "translate"} /\ halted' \in BOOLEAN /\ blocked' \in BOOLEAN
      BY <2>0, <2>2 DEF SourcePreflight, Running, Enter, HaltBlocked, TypeOK
    <3>3. verdict' = "NONE" /\ UNCHANGED <<prior, repaired>>
      BY <2>2 DEF SourcePreflight, Running
    <3> QED
      BY <2>0, <3>1, <3>2, <3>3 DEF PhaseInv, TypeOK, Stages, StageEvidence, Decided
  <2>3. ASSUME NEW o \in TranslationOutcomes, Translate(o)
        PROVE  PhaseInv'
    <3>1. ev' = o /\ verdict' = "NONE" /\ UNCHANGED <<prior, repaired, blocked>>
      BY <2>3 DEF Translate, Running, Enter, Halt
    <3>2. \/ stage' = "preflight" /\ halted' \in BOOLEAN /\ o.trStatus = "SUCCESS"
          \/ stage' = "translate" /\ halted' = TRUE
      BY <2>0, <2>3 DEF Translate, Running, Enter, Halt, TypeOK
    <3> QED
      BY <2>0, <3>1, <3>2, OutcomeShape
         DEF TranslationOnly, PhaseInv, TypeOK, Stages, StageEvidence, Decided
  <2>4. ASSUME NEW a \in BOOLEAN, Preflight(a)
        PROVE  PhaseInv'
    BY <2>0, <2>4 DEF Preflight, Running, Enter, HaltBlocked, PhaseInv, TypeOK, Stages,
                      StageEvidence, Decided
  <2>5. ASSUME NEW src \in ExecutionStatus, NEW tgt \in ExecutionStatus,
               NEW srcConf \in Confidences, NEW tgtConf \in Confidences,
               Execute(src, tgt, srcConf, tgtConf)
        PROVE  PhaseInv'
    <3>1. ev' \in EvidenceSpace
      BY <2>0, <2>5 DEF Execute, TypeOK, EvidenceSpace
    <3>2. /\ ev'.src = src /\ ev'.tgt = tgt
          /\ \A f \in {"trStatus", "trValid", "diagnosed", "repair", "ver", "critical",
                        "discs", "val"} : ev'[f] = ev[f]
      BY <2>0, <2>5 DEF Execute, TypeOK, EvidenceSpace
    <3>3. WellFormed(ev')
      BY <2>0, <3>2 DEF WellFormed
    <3>4. stage = "execute" /\ verdict' = "NONE"
          /\ UNCHANGED <<prior, repaired, blocked>>
      BY <2>5 DEF Execute, Running, Enter, Halt
    <3>5. \/ stage' = "validate" /\ halted' \in BOOLEAN /\ src = "SUCCESS" /\ tgt = "SUCCESS"
          \/ stage' = "execute" /\ halted' = TRUE
      BY <2>0, <2>5 DEF Execute, Running, Enter, Halt, TypeOK
    <3> QED
      BY <2>0, <3>1, <3>2, <3>3, <3>4, <3>5
         DEF PhaseInv, TypeOK, Stages, StageEvidence, Decided
  <2>6. ASSUME NEW v \in ValidationStatus, NEW f \in BOOLEAN, NEW m \in Count,
               Validate(v, f, m)
        PROVE  PhaseInv'
    <3>0. m \in Nat /\ ev' = [ev EXCEPT !.val = v, !.schemaFail = f, !.mismatches = m]
      BY <2>6, CountNat DEF Validate
    <3>1. ev' \in EvidenceSpace
      BY <2>0, <3>0, ValidatedType DEF TypeOK
    <3>2. /\ ev'.val = v
          /\ \A g \in {"trStatus", "trValid", "diagnosed", "repair", "ver", "critical",
                        "discs", "src", "tgt"} : ev'[g] = ev[g]
      BY <2>0, <2>6 DEF Validate, TypeOK, EvidenceSpace
    <3>3. stage = "validate" /\ verdict' = "NONE"
          /\ UNCHANGED <<prior, repaired, blocked>>
      BY <2>6 DEF Validate, Running, Enter, Halt
    <3>4. ~ev.diagnosed
      BY <2>0, <3>3 DEF StageEvidence
    <3>5. WellFormed(ev')
      BY <2>0, <3>2, <3>4 DEF WellFormed
    <3>6. \/ stage' = "classify" /\ halted' \in BOOLEAN /\ v # "PASS"
          \/ stage' = "validate" /\ halted' = TRUE
      BY <2>0, <2>6 DEF Validate, Running, Enter, Halt, TypeOK
    <3> QED
      BY <2>0, <3>1, <3>2, <3>3, <3>5, <3>6
         DEF PhaseInv, TypeOK, Stages, StageEvidence, Decided
  <2>7. ASSUME NEW n \in Count, NEW c \in BOOLEAN, Classify(n, c)
        PROVE  PhaseInv'
    <3>1. ev' \in EvidenceSpace /\ n \in Nat
      BY <2>0, <2>7, CountNat DEF Classify, TypeOK, EvidenceSpace
    <3>2. /\ ev'.diagnosed /\ ev'.discs = n /\ ev'.critical = c
          /\ \A g \in {"trStatus", "trValid", "repair", "ver", "val", "src", "tgt"} :
               ev'[g] = ev[g]
      BY <2>0, <2>7 DEF Classify, TypeOK, EvidenceSpace
    <3>3. stage = "classify" /\ verdict' = "NONE" /\ (c => n > 0)
          /\ UNCHANGED <<prior, repaired, blocked>>
      BY <2>7 DEF Classify, Running, Enter, Halt
    <3>4. ev.val # "PASS" /\ ev.ver = "NOT_RUN"
      BY <2>0, <3>3 DEF StageEvidence
    <3>5. WellFormed(ev')
      BY <3>1, <3>2, <3>3, <3>4 DEF WellFormed
    <3>6. stage' \in {"classify", "diagnose"} /\ halted' \in BOOLEAN
      BY <2>0, <2>7 DEF Classify, Running, Enter, Halt, TypeOK
    <3> QED
      BY <2>0, <3>1, <3>2, <3>3, <3>5, <3>6
         DEF PhaseInv, TypeOK, Stages, StageEvidence, Decided
  <2>8. ASSUME NEW s \in RepairStatus, DiagnoseAI(s)
        PROVE  PhaseInv'
    <3>1. ev' \in EvidenceSpace
      BY <2>0, <2>8 DEF DiagnoseAI, TypeOK, EvidenceSpace
    <3>2. /\ ev'.repair = s
          /\ \A g \in {"trStatus", "trValid", "diagnosed", "critical", "discs", "ver", "val",
                        "src", "tgt"} : ev'[g] = ev[g]
      BY <2>0, <2>8 DEF DiagnoseAI, TypeOK, EvidenceSpace
    <3>3. stage = "diagnose" /\ verdict' = "NONE"
          /\ UNCHANGED <<prior, repaired, blocked>>
      BY <2>8 DEF DiagnoseAI, Running, Enter, Halt
    <3>4. ev.ver = "NOT_RUN"
      BY <2>0, <3>3 DEF StageEvidence
    <3>5. WellFormed(ev')
      BY <2>0, <3>2, <3>4 DEF WellFormed
    <3>6. \/ stage' = "proposed" /\ halted' \in BOOLEAN /\ s = "PROPOSED"
          \/ stage' = "diagnose" /\ halted' = TRUE
      BY <2>0, <2>8 DEF DiagnoseAI, Running, Enter, Halt, TypeOK
    <3> QED
      BY <2>0, <3>1, <3>2, <3>3, <3>5, <3>6
         DEF PhaseInv, TypeOK, Stages, StageEvidence, Decided
  <2>9. CASE StartVerification
    BY <2>0, <2>9 DEF StartVerification, Running, Enter, PhaseInv, TypeOK, Stages,
                      StageEvidence, Decided
  <2>10. ASSUME stage = "verify", verdict = "NONE",
                UNCHANGED <<stage, blocked, verdict, prior>>,
                halted' = TRUE, repaired' \in RepairSpace,
                NEW w \in VerificationStatus, NEW m \in Nat, NEW n \in Nat,
                ev' = [ev EXCEPT !.ver = w, !.remaining = m, !.new = n]
         PROVE  PhaseInv'
    <3>1. ev' \in EvidenceSpace
      BY <2>0, <2>10 DEF TypeOK, EvidenceSpace
    <3>2. \A g \in {"trStatus", "trValid", "diagnosed", "critical", "discs", "repair", "val",
                     "src", "tgt"} : ev'[g] = ev[g]
      BY <2>0, <2>10 DEF TypeOK, EvidenceSpace
    <3>3. ev.diagnosed /\ ev.repair = "PROPOSED"
      BY <2>0, <2>10 DEF StageEvidence
    <3>4. WellFormed(ev')
      BY <2>0, <3>2, <3>3 DEF WellFormed
    <3> QED
      BY <2>0, <2>10, <3>1, <3>2, <3>4
         DEF PhaseInv, TypeOK, Stages, StageEvidence, Decided
  <2>11. ASSUME NEW w \in VerificationStatus, NEW b \in Count, RejectRepair(w, b)
         PROVE  PhaseInv'
    <3>1. b \in Nat /\ ev.new \in Nat /\ ev \in EvidenceSpace
      BY <2>0, CountNat DEF TypeOK, EvidenceSpace
    <3>2. ev' = [ev EXCEPT !.ver = w, !.remaining = b, !.new = ev.new]
      BY <2>11, <3>1 DEF RejectRepair, EvidenceSpace
    <3>3. /\ stage = "verify" /\ verdict = "NONE" /\ halted' = TRUE
          /\ UNCHANGED <<stage, blocked, verdict, prior, repaired>>
      BY <2>11 DEF RejectRepair, Running, Halt
    <3>4. repaired' \in RepairSpace
      BY <2>0, <3>3 DEF TypeOK
    <3> QED
      BY <2>10, <3>1, <3>2, <3>3, <3>4
  <2>12. ASSUME NEW conf \in Confidences, NEW val \in ValidationStatus,
                NEW resolved \in BOOLEAN, NEW zeroRows \in BOOLEAN, NEW reduced \in BOOLEAN,
                NEW b \in Count, NEW m \in Count, NEW n \in Count,
                CompareRepair(conf, val, b, resolved, zeroRows, reduced, m, n)
         PROVE  PhaseInv'
    <3>1. DetermineStatus(resolved, zeroRows, reduced, n) \in VerificationStatus
      BY DEF DetermineStatus, VerificationStatus
    <3>2. b \in Nat /\ m \in Nat /\ n \in Nat
      BY CountNat
    <3>3. repaired' \in RepairSpace
      BY <2>12, <3>2 DEF CompareRepair, RepairSpace
    <3> QED
      BY <2>0, <2>10, <2>12, <3>1, <3>2, <3>3 DEF CompareRepair, Running, Halt
  <2>13. CASE PhaseRaises
    BY <2>0, <2>13 DEF PhaseRaises, PhaseInv, TypeOK, StageEvidence, Decided
  <2>14. CASE Evaluate
    <3>1. verdict' \in MigrationFinalStatus \cup {"RAISED"}
      BY <2>14, FinalStatusType DEF Evaluate, MigrationFinalStatus
    <3>2. verdict' \in MigrationFinalStatus
            => verdict' = IF blocked THEN "BLOCKED" ELSE FinalStatus(ev)
      BY <2>14 DEF Evaluate
    <3> QED
      BY <2>0, <2>14, <3>1, <3>2 DEF Evaluate, PhaseInv, TypeOK, StageEvidence, Decided
  <2>15. CASE UNCHANGED vars
    BY <2>0, <2>15 DEF vars, PhaseInv, TypeOK, StageEvidence, Decided
  <2> QED
    BY <2>1, <2>2, <2>3, <2>4, <2>5, <2>6, <2>7, <2>8, <2>9, <2>11, <2>12, <2>13, <2>14,
       <2>15 DEF Next
<1> QED  BY <1>1, <1>2, PTL DEF Spec
------------------------------------------------------------------------------
(* Every variable keeps its type.                                           *)
THEOREM TypeCorrect == Spec => []TypeOK
<1>1. PhaseInv => TypeOK
  BY DEF PhaseInv
<1> QED  BY <1>1, PhaseInvariant, PTL

(* The gates, the engine and its overrides decide VERIFIED exactly where    *)
(* decision.determine_verified and the confidence gate do.                  *)
THEOREM DecisionCorrect == Spec => []DecisionMatchesDefinition
<1> DEFINE Safe == {ev.srcConf, ev.tgtConf} \subseteq {"EXACT", "SAFE_EQUIVALENT"}
<1>1. PhaseInv => DecisionMatchesDefinition
  <2> SUFFICES ASSUME PhaseInv, Decided, ~blocked
               PROVE  verdict = "VERIFIED" <=> DetermineVerified(ev) /\ Safe
    BY DEF DecisionMatchesDefinition
  <2>1. verdict = FinalStatus(ev)
    BY DEF PhaseInv
  <2>2. {ev.srcConf, ev.tgtConf} \subseteq Confidence
    BY DEF PhaseInv, TypeOK, EvidenceSpace
  <2>3. ASSUME verdict = "VERIFIED"
        PROVE  DetermineVerified(ev) /\ Safe
    <3>1. DetermineVerified(ev)
      BY <2>1, <2>3, DecisionSound
    <3>2. ev.src = "SUCCESS" /\ ev.tgt = "SUCCESS"
      BY <3>1 DEF DetermineVerified
    <3>3. ~RiskySide(ev.src, ev.srcConf) /\ ~RiskySide(ev.tgt, ev.tgtConf)
      BY <2>1, <2>3, OverridesOnlyLower
    <3> QED  BY <2>2, <3>1, <3>2, <3>3 DEF RiskySide, Confidence
  <2>4. ASSUME DetermineVerified(ev), Safe
        PROVE  verdict = "VERIFIED"
    <3>1. WellFormed(ev) /\ ev.trStatus = "SUCCESS"
      BY <2>4 DEF PhaseInv, DetermineVerified
    <3>2. ~RiskySide(ev.src, ev.srcConf) /\ ~RiskySide(ev.tgt, ev.tgtConf)
      BY <2>4 DEF RiskySide
    <3> QED  BY <2>1, <2>4, <3>1, <3>2, DecisionComplete
  <2> QED  BY <2>3, <2>4
<1> QED  BY <1>1, PhaseInvariant, PTL

(* VERIFIED is earned by executions of both sides and by validators that    *)
(* passed or a repair that was verified with nothing left over.             *)
THEOREM VerdictEarned == Spec => []VerifiedIsEarned
<1>1. PhaseInv => VerifiedIsEarned
  <2> SUFFICES ASSUME PhaseInv, verdict = "VERIFIED"
               PROVE  /\ ev.trStatus = "SUCCESS" /\ ev.trValid = "VALID_SYNTAX"
                      /\ ev.src = "SUCCESS" /\ ev.tgt = "SUCCESS"
                      /\ \/ ev.val = "PASS"
                         \/ /\ ev.repair = "PROPOSED" /\ ev.ver = "VERIFIED"
                            /\ ev.remaining = 0 /\ ev.new = 0 /\ ~ev.schemaFail
    BY DEF VerifiedIsEarned
  <2>1. FinalStatus(ev) = "VERIFIED"
    BY DEF PhaseInv, Decided, MigrationFinalStatus
  <2>2. DetermineVerified(ev)
    BY <2>1, DecisionSound
  <2>3. ev.trValid = "VALID_SYNTAX" /\ ev.src = "SUCCESS" /\ ev.tgt = "SUCCESS"
        /\ ev.trStatus = "SUCCESS"
    BY <2>2 DEF DetermineVerified, PhaseInv
  <2>4. ASSUME ev.val # "PASS"
        PROVE  /\ ev.repair = "PROPOSED" /\ ev.ver = "VERIFIED"
               /\ ev.remaining = 0 /\ ev.new = 0 /\ ~ev.schemaFail
    <3>1. ev.ver = "VERIFIED" /\ RepairAttempted(ev)
      BY <2>2, <2>4 DEF DetermineVerified, LineageComplete, VerificationPath
    <3>2. ev.repair = "PROPOSED"
      BY <3>1 DEF PhaseInv, WellFormed
    <3>3. VerificationRan(ev)
      BY <3>1 DEF VerificationRan
    <3> QED
      BY <2>2, <3>1, <3>2, <3>3 DEF DetermineVerified, RemainingCount, SchemaValid
  <2> QED  BY <2>3, <2>4
<1> QED  BY <1>1, PhaseInvariant, PTL

(* A repair whose verification did not succeed ends BLOCKED, never FAILED   *)
(* or INCONCLUSIVE.                                                         *)
THEOREM FailedRepairBlocks == Spec => []RepairFailureBlocks
<1>1. PhaseInv => RepairFailureBlocks
  <2> SUFFICES ASSUME PhaseInv, Decided, ev.ver \notin {"NOT_RUN", "VERIFIED"}
               PROVE  verdict = "BLOCKED"
    BY DEF RepairFailureBlocks
  <2>1. stage = "verify"
    BY DEF PhaseInv, TypeOK, Stages, StageEvidence
  <2>2. /\ ev.trStatus = "SUCCESS" /\ ev.trValid = "VALID_SYNTAX"
        /\ ev.src = "SUCCESS" /\ ev.tgt = "SUCCESS" /\ ev.repair = "PROPOSED"
    BY <2>1 DEF PhaseInv, StageEvidence
  <2>3. Gate(ev, 1) = "PASS" /\ Gate(ev, 2) = "PASS" /\ Gate(ev, 3) = "PASS"
    BY <2>2 DEF Gate, PassIf
  <2>4. Gate(ev, 7) = "FAIL"
    BY <2>2 DEF Gate, PassIf, PassIfRepair, RepairAttempted
  <2>5. DetermineFinalStatus(ev) = "BLOCKED"
    BY <2>3, <2>4 DEF DetermineFinalStatus, FailedGates, TechnicalGates, HardGate
  <2>6. FinalStatus(ev) = "BLOCKED"
    BY <2>2, <2>5 DEF FinalStatus, TechnicalOverride
  <2> QED  BY <2>6 DEF PhaseInv
<1> QED  BY <1>1, PhaseInvariant, PTL
------------------------------------------------------------------------------
(* When each kind of evidence comes, and what a pass that halted early      *)
(* without a translation of its own is evaluated with.                      *)
Arrival ==
  /\ stage \in {"created", "analyze", "translate", "preflight"}
       => ev.src = "NOT_RUN" /\ ev.tgt = "NOT_RUN"
  /\ stage \in {"created", "analyze", "translate", "preflight", "execute"}
       => ev.val = "NOT_RUN"
  /\ stage \in {"classify", "diagnose", "proposed", "verify"} => ev.val # "NOT_RUN"
  /\ stage \in {"created", "analyze"} /\ ev.trStatus # "SUCCESS" => ~ev.trSql
  /\ blocked => halted /\ stage \in {"analyze", "preflight"}
  /\ halted /\ (ev.trStatus = "SUCCESS" \/ (blocked /\ ~prior)) => verdict # "RAISED"
  /\ blocked /\ prior /\ ev.trStatus # "SUCCESS" => verdict \in {"NONE", "RAISED"}

(* The validator accepts whatever the phases collect after a translation    *)
(* that succeeded.                                                          *)
LEMMA SucceededConsistent ==
  ASSUME PhaseInv, Arrival, ev.trStatus = "SUCCESS"
  PROVE  Consistent(ev, HasCandidate)
<1>1. HasTargetSql(ev, HasCandidate)
  BY DEF HasTargetSql, HasCandidate
<1>2. CASE ev.val = "NOT_RUN"
  <2>1. stage \in {"created", "analyze", "translate", "preflight", "execute", "validate"}
    BY <1>2 DEF PhaseInv, TypeOK, Stages, Arrival
  <2>2. ev.ver = "NOT_RUN"
    BY <2>1 DEF PhaseInv, StageEvidence
  <2>3. FinalStatus(ev) # "VERIFIED"
    BY <1>2, DecisionSound DEF DetermineVerified, SchemaValid
  <2> QED
    BY <1>1, <1>2, <2>2, <2>3 DEF Consistent, Scored
<1>3. CASE ev.val # "NOT_RUN"
  <2>1. stage \in {"validate", "classify", "diagnose", "proposed", "verify"}
    BY <1>3 DEF PhaseInv, TypeOK, Stages, Arrival
  <2>2. ev.tgt = "SUCCESS"
    BY <2>1 DEF PhaseInv, StageEvidence
  <2> QED
    BY <1>1, <1>3, <2>2 DEF Consistent, Scored
<1> QED  BY <1>2, <1>3

(* Without an active candidate the validator accepts a rejected source,     *)
(* whatever failed translation the report keeps.                            *)
LEMMA RejectedConsistent ==
  ASSUME PhaseInv, Arrival, stage = "analyze", ev.trStatus # "SUCCESS", ~prior
  PROVE  Consistent(ev, HasCandidate)
<1>1. /\ ev.trValid # "VALID_SYNTAX" /\ ~ev.trSql
      /\ ev.tgt = "NOT_RUN" /\ ev.val = "NOT_RUN" /\ ev.ver = "NOT_RUN"
  BY DEF PhaseInv, StageEvidence, Arrival
<1>2. FinalStatus(ev) # "VERIFIED"
  BY <1>1, DecisionSound DEF DetermineVerified, SchemaValid
<1> QED
  BY <1>1, <1>2 DEF Consistent, HasTargetSql, HasCandidate, Scored

(* Evidence arrives in the order of the phases, in every pass.              *)
THEOREM ArrivalInvariant == Spec => []Arrival
<1>1. Init => Arrival
  BY KeptShape DEF Init, Arrival
<1>2. PhaseInv /\ Arrival /\ [Next]_vars => Arrival'
  <2> SUFFICES ASSUME PhaseInv, Arrival, [Next]_vars
               PROVE  Arrival'
    OBVIOUS
  <2>0. TypeOK /\ StageEvidence
    BY DEF PhaseInv
  <2>1. CASE CreateRecord
    BY <2>1 DEF CreateRecord, Running, Enter, Arrival
  <2>2. ASSUME NEW a \in SourcePreflights, SourcePreflight(a)
        PROVE  Arrival'
    BY <2>2 DEF SourcePreflight, Running, Enter, HaltBlocked, Arrival
  <2>3. ASSUME NEW o \in TranslationOutcomes, Translate(o)
        PROVE  Arrival'
    <3>1. o.src = "NOT_RUN" /\ o.tgt = "NOT_RUN" /\ o.val = "NOT_RUN"
      BY OutcomeShape DEF TranslationOnly
    <3> QED
      BY <2>3, <3>1 DEF Translate, Running, Enter, Halt, Arrival
  <2>4. ASSUME NEW a \in BOOLEAN, Preflight(a)
        PROVE  Arrival'
    <3>1. ev.trStatus = "SUCCESS"
      BY <2>0, <2>4 DEF Preflight, Running, StageEvidence
    <3> QED
      BY <2>4, <3>1 DEF Preflight, Running, Enter, HaltBlocked, Arrival
  <2>5. ASSUME NEW src \in ExecutionStatus, NEW tgt \in ExecutionStatus,
               NEW srcConf \in Confidences, NEW tgtConf \in Confidences,
               Execute(src, tgt, srcConf, tgtConf)
        PROVE  Arrival'
    <3>1. ev'.val = ev.val
      BY <2>0, <2>5 DEF Execute, TypeOK, EvidenceSpace
    <3> QED
      BY <2>5, <3>1 DEF Execute, Running, Enter, Halt, Arrival
  <2>6. ASSUME NEW v \in ValidationStatus, NEW f \in BOOLEAN, NEW m \in Count,
               Validate(v, f, m)
        PROVE  Arrival'
    <3>1. ev'.val = v /\ v # "NOT_RUN"
      BY <2>0, <2>6 DEF Validate, TypeOK, EvidenceSpace, ValidationStatus
    <3> QED
      BY <2>6, <3>1 DEF Validate, Running, Enter, Halt, Arrival
  <2>7. ASSUME NEW n \in Count, NEW c \in BOOLEAN, Classify(n, c)
        PROVE  Arrival'
    <3>1. ev'.val = ev.val
      BY <2>0, <2>7 DEF Classify, TypeOK, EvidenceSpace
    <3> QED
      BY <2>7, <3>1 DEF Classify, Running, Enter, Halt, Arrival
  <2>8. ASSUME NEW s \in RepairStatus, DiagnoseAI(s)
        PROVE  Arrival'
    <3>1. ev'.val = ev.val
      BY <2>0, <2>8 DEF DiagnoseAI, TypeOK, EvidenceSpace
    <3> QED
      BY <2>8, <3>1 DEF DiagnoseAI, Running, Enter, Halt, Arrival
  <2>9. CASE StartVerification
    BY <2>9 DEF StartVerification, Running, Enter, Arrival
  <2>10. ASSUME NEW w \in VerificationStatus, NEW b \in Count, RejectRepair(w, b)
         PROVE  Arrival'
    <3>1. ev'.val = ev.val
      BY <2>0, <2>10 DEF RejectRepair, TypeOK, EvidenceSpace
    <3> QED
      BY <2>10, <3>1 DEF RejectRepair, Running, Halt, Arrival
  <2>11. ASSUME NEW conf \in Confidences, NEW val \in ValidationStatus,
                NEW resolved \in BOOLEAN, NEW zeroRows \in BOOLEAN, NEW reduced \in BOOLEAN,
                NEW b \in Count, NEW m \in Count, NEW n \in Count,
                CompareRepair(conf, val, b, resolved, zeroRows, reduced, m, n)
         PROVE  Arrival'
    <3>1. ev'.val = ev.val
      BY <2>0, <2>11 DEF CompareRepair, TypeOK, EvidenceSpace
    <3> QED
      BY <2>11, <3>1 DEF CompareRepair, Running, Halt, Arrival
  <2>12. CASE PhaseRaises
    BY <2>12 DEF PhaseRaises, Running, Arrival
  <2>13. CASE Evaluate
    <3>1. UNCHANGED <<stage, halted, blocked, prior, ev>> /\ halted
      BY <2>13 DEF Evaluate
    <3>2. ASSUME ev.trStatus = "SUCCESS" \/ (blocked /\ ~prior)
          PROVE  verdict' # "RAISED"
      <4>1. ev.trStatus = "SUCCESS" \/ (stage = "analyze" /\ ~prior)
        BY <2>0, <3>1, <3>2 DEF Arrival, StageEvidence
      <4>2. Consistent(ev, HasCandidate)
        BY <4>1, SucceededConsistent, RejectedConsistent
      <4> QED
        BY <2>13, <4>2, FinalStatusType DEF Evaluate, MigrationFinalStatus
    <3>3. ASSUME prior, ev.trStatus # "SUCCESS"
          PROVE  verdict' = "RAISED"
      <4>1. ~Consistent(ev, HasCandidate)
        BY <3>3 DEF Consistent, HasTargetSql, HasCandidate
      <4> QED
        BY <2>13, <4>1 DEF Evaluate
    <3> QED
      BY <3>1, <3>2, <3>3 DEF Arrival
  <2>14. CASE UNCHANGED vars
    BY <2>14 DEF vars, Arrival
  <2> QED
    BY <2>1, <2>2, <2>3, <2>4, <2>5, <2>6, <2>7, <2>8, <2>9, <2>10, <2>11, <2>12, <2>13,
       <2>14 DEF Next
<1> QED  BY <1>1, <1>2, PhaseInvariant, PTL DEF Spec

(* Of a pass whose translation succeeded the validator never refuses the    *)
(* report.                                                                  *)
THEOREM SucceededReported == Spec => []SucceededTranslationReported
<1>1. Arrival => SucceededTranslationReported
  BY DEF Arrival, SucceededTranslationReported
<1> QED  BY <1>1, ArrivalInvariant, PTL

(* A blocked preflight executes nothing and ends in a report that says      *)
(* BLOCKED, unless the report keeps a translation that did not succeed      *)
(* beside an active candidate: then always in an exception.                 *)
THEOREM MismatchBlocks == Spec => []SchemaMismatchBlocks
<1>1. PhaseInv /\ Arrival => SchemaMismatchBlocks
  <2> SUFFICES ASSUME PhaseInv, Arrival, blocked, verdict # "NONE"
               PROVE  /\ ev.src = "NOT_RUN" /\ ev.tgt = "NOT_RUN"
                      /\ verdict = IF prior /\ ev.trStatus # "SUCCESS"
                                   THEN "RAISED" ELSE "BLOCKED"
    BY DEF SchemaMismatchBlocks
  <2>1. ev.src = "NOT_RUN" /\ ev.tgt = "NOT_RUN" /\ halted
    BY DEF Arrival
  <2>2. CASE prior /\ ev.trStatus # "SUCCESS"
    BY <2>1, <2>2 DEF Arrival
  <2>3. CASE ~(prior /\ ev.trStatus # "SUCCESS")
    <3>1. verdict \in MigrationFinalStatus
      BY <2>1, <2>3 DEF PhaseInv, TypeOK, Arrival
    <3> QED
      BY <2>1, <2>3, <3>1 DEF PhaseInv, Decided
  <2> QED
    BY <2>2, <2>3
<1> QED  BY <1>1, PhaseInvariant, ArrivalInvariant, PTL
------------------------------------------------------------------------------
(* Where a pass that goes no further stopped, and on what.                  *)
EarlyExit ==
  /\ Decided => halted
  /\ halted => stage \notin {"created", "proposed"}
  /\ halted /\ stage \in {"analyze", "preflight"} => blocked
  /\ halted /\ stage = "translate" => ev.trStatus \notin {"NOT_RUN", "SUCCESS"}
  /\ halted /\ stage = "execute" => ev.src # "SUCCESS" \/ ev.tgt # "SUCCESS"
  /\ halted /\ stage = "validate" => ev.val = "PASS" /\ ~ev.schemaFail
  /\ stage = "classify" => ev.repair = "NOT_RUN"

(* No step leaves a phase early for another reason.                         *)
LEMMA ExitStep == ASSUME PhaseInv, EarlyExit, [Next]_vars PROVE EarlyExit'
<1>0. TypeOK /\ StageEvidence /\ "NONE" \notin MigrationFinalStatus
  BY NoneUndecided DEF PhaseInv
<1>1. CASE CreateRecord
  BY <1>0, <1>1 DEF CreateRecord, Running, Enter, EarlyExit, Decided
<1>2. ASSUME NEW a \in SourcePreflights, SourcePreflight(a) PROVE EarlyExit'
  BY <1>0, <1>2 DEF SourcePreflight, Running, Enter, HaltBlocked, EarlyExit, Decided
<1>3. ASSUME NEW o \in TranslationOutcomes, Translate(o) PROVE EarlyExit'
  <2>1. o.trStatus # "NOT_RUN"
    BY OutcomeRan
  <2> QED
    BY <1>0, <1>3, <2>1 DEF Translate, Running, Enter, Halt, EarlyExit, Decided
<1>4. ASSUME NEW a \in BOOLEAN, Preflight(a) PROVE EarlyExit'
  BY <1>0, <1>4 DEF Preflight, Running, Enter, HaltBlocked, EarlyExit, Decided
<1>5. ASSUME NEW src \in ExecutionStatus, NEW tgt \in ExecutionStatus,
             NEW srcConf \in Confidences, NEW tgtConf \in Confidences,
             Execute(src, tgt, srcConf, tgtConf)
      PROVE  EarlyExit'
  <2>1. ev'.src = src /\ ev'.tgt = tgt
    BY <1>0, <1>5 DEF Execute, TypeOK, EvidenceSpace
  <2> QED
    BY <1>0, <1>5, <2>1 DEF Execute, Running, Enter, Halt, EarlyExit, Decided
<1>6. ASSUME NEW v \in ValidationStatus, NEW f \in BOOLEAN, NEW m \in Count,
             Validate(v, f, m)
      PROVE  EarlyExit'
  <2>1. ev'.val = v /\ ev'.schemaFail = f /\ ev'.repair = ev.repair
    BY <1>0, <1>6 DEF Validate, TypeOK, EvidenceSpace
  <2>2. ev.repair = "NOT_RUN"
    BY <1>0, <1>6 DEF Validate, Running, StageEvidence
  <2> QED
    BY <1>0, <1>6, <2>1, <2>2 DEF Validate, Running, Enter, Halt, EarlyExit, Decided
<1>7. ASSUME NEW n \in Count, NEW c \in BOOLEAN, Classify(n, c) PROVE EarlyExit'
  <2>1. ev'.repair = ev.repair
    BY <1>0, <1>7 DEF Classify, TypeOK, EvidenceSpace
  <2> QED
    BY <1>0, <1>7, <2>1 DEF Classify, Running, Enter, Halt, EarlyExit, Decided
<1>8. ASSUME NEW s \in RepairStatus, DiagnoseAI(s) PROVE EarlyExit'
  BY <1>0, <1>8 DEF DiagnoseAI, Running, Enter, Halt, EarlyExit, Decided
<1>9. CASE StartVerification
  BY <1>0, <1>9 DEF StartVerification, Running, Enter, EarlyExit, Decided
<1>10. ASSUME NEW w \in VerificationStatus, NEW b \in Count, RejectRepair(w, b)
       PROVE  EarlyExit'
  BY <1>0, <1>10 DEF RejectRepair, Running, Halt, EarlyExit, Decided
<1>11. ASSUME NEW conf \in Confidences, NEW val \in ValidationStatus,
              NEW resolved \in BOOLEAN, NEW zeroRows \in BOOLEAN, NEW reduced \in BOOLEAN,
              NEW b \in Count, NEW m \in Count, NEW n \in Count,
              CompareRepair(conf, val, b, resolved, zeroRows, reduced, m, n)
       PROVE  EarlyExit'
  BY <1>0, <1>11 DEF CompareRepair, Running, Halt, EarlyExit, Decided
<1>12. CASE PhaseRaises
  BY <1>12, NoneUndecided DEF PhaseRaises, Running, EarlyExit, Decided
<1>13. CASE Evaluate
  BY <1>13 DEF Evaluate, EarlyExit, Decided
<1>14. CASE UNCHANGED vars
  BY <1>14 DEF vars, EarlyExit, Decided
<1> QED
  BY <1>1, <1>2, <1>3, <1>4, <1>5, <1>6, <1>7, <1>8, <1>9, <1>10, <1>11, <1>12, <1>13,
     <1>14 DEF Next

(* The state of the verdict is one that the declared graph reaches from the *)
(* phase the pass stopped in, but for the three endings it does not have.   *)
LEMMA VerdictShown ==
  ASSUME PhaseInv, Arrival, EarlyExit, halted, verdict = "NONE",
         NEW v, v = FinalStatus(ev)
  PROVE  \/ StatusToState(v) \in Machine!AllowedTransitions[StageState[stage]]
         \/ stage \in {"analyze", "preflight"} /\ blocked /\ StatusToState(v) = "FAILED"
         \/ stage = "validate" /\ ~blocked /\ v = "INCONCLUSIVE"
<1>0. TypeOK /\ StageEvidence /\ WellFormed(ev)
  BY DEF PhaseInv
<1>1. CASE blocked
  <2>1. stage \in {"analyze", "preflight"} /\ ev.src = "NOT_RUN" /\ ev.tgt = "NOT_RUN"
    BY <1>1 DEF Arrival
  <2>2. v \in {"FAILED", "BLOCKED_PROVIDER_LIMIT"}
    BY <2>1 DEF FinalStatus, TechnicalOverride
  <2> QED
    BY <1>1, <2>1, <2>2 DEF StatusToState
<1>2. CASE ~blocked /\ stage = "translate"
  <2>1. v \in {"FAILED", "BLOCKED_PROVIDER_LIMIT"}
    BY <1>2 DEF EarlyExit, FinalStatus, TechnicalOverride
  <2> QED
    BY <1>2, <2>1 DEF StatusToState, StageState, Machine!AllowedTransitions
<1>3. CASE ~blocked /\ stage = "execute"
  <2>1. ev.trStatus = "SUCCESS" /\ ~(ev.src = "SUCCESS" /\ ev.tgt = "SUCCESS")
    BY <1>0, <1>3 DEF EarlyExit, StageEvidence
  <2>2. v \in {"FAILED", "INCONCLUSIVE"}
    BY <1>3, <2>1 DEF FinalStatus, TechnicalOverride
  <2> QED
    BY <1>3, <2>2 DEF StatusToState, StageState, Machine!AllowedTransitions
<1>4. CASE ~blocked /\ stage = "validate"
  <2>1. /\ ev.trStatus = "SUCCESS" /\ ev.trValid = "VALID_SYNTAX"
        /\ ev.src = "SUCCESS" /\ ev.tgt = "SUCCESS"
        /\ ~ev.diagnosed /\ ev.repair = "NOT_RUN" /\ ev.ver = "NOT_RUN"
        /\ ev.val = "PASS" /\ ~ev.schemaFail
    BY <1>0, <1>4 DEF EarlyExit, StageEvidence
  <2>2. DetermineVerified(ev)
    BY <2>1 DEF DetermineVerified, SchemaValid, RemainingCount, VerificationRan,
                RepairAttempted, LineageComplete, BaseArtifacts, VerificationPath
  <2>3. DetermineFinalStatus(ev) = "VERIFIED"
    BY <1>0, <2>2, VerifiedImpliesGates, EngineVerified
  <2>4. v \in {"VERIFIED", "INCONCLUSIVE"}
    BY <1>4, <2>1, <2>3 DEF FinalStatus, TechnicalOverride
  <2> QED
    BY <1>4, <2>4 DEF StatusToState, StageState, Machine!AllowedTransitions
<1>5. CASE ~blocked /\ stage \in {"classify", "diagnose", "verify"}
  <2>1. ev.trStatus = "SUCCESS" /\ ev.src = "SUCCESS" /\ ev.tgt = "SUCCESS"
        /\ ev.trValid = "VALID_SYNTAX" /\ ev.val # "PASS"
    BY <1>0, <1>5 DEF StageEvidence
  <2>2. v \in {DetermineFinalStatus(ev), "INCONCLUSIVE"}
    BY <1>5, <2>1 DEF FinalStatus, TechnicalOverride
  <2>3. CASE stage = "verify"
    <3>1. v \in {"VERIFIED", "FAILED", "BLOCKED", "INCONCLUSIVE"}
      BY <2>2 DEF DetermineFinalStatus
    <3> QED
      BY <2>3, <3>1 DEF StatusToState, StageState, Machine!AllowedTransitions
  <2>4. CASE stage \in {"classify", "diagnose"}
    <3>1. ev.ver = "NOT_RUN"
      BY <1>0, <2>4 DEF StageEvidence
    <3>2. ~LineageComplete(ev)
      BY <2>1, <3>1 DEF LineageComplete, VerificationPath
    <3>3. /\ Gate(ev, 1) = "PASS" /\ Gate(ev, 2) = "PASS" /\ Gate(ev, 3) = "PASS"
          /\ Gate(ev, 10) = "FAIL"
      BY <2>1, <3>2 DEF Gate, PassIf
    <3>4. DetermineFinalStatus(ev) = "BLOCKED"
      BY <3>3 DEF DetermineFinalStatus, FailedGates, TechnicalGates, HardGate
    <3>5. v = "BLOCKED"
      BY <1>5, <2>1, <3>4 DEF FinalStatus, TechnicalOverride
    <3> QED
      BY <2>4, <3>5 DEF StatusToState, StageState, Machine!AllowedTransitions
  <2> QED
    BY <1>5, <2>3, <2>4
<1> QED
  BY <1>0, <1>1, <1>2, <1>3, <1>4, <1>5 DEF TypeOK, Stages, EarlyExit

(* What the graph allows from a state a phase shows is a step of it.        *)
LEMMA DeclaredStep ==
  ASSUME NEW s \in Stages, ShownState = StageState[s],
         ShownState' \in Machine!AllowedTransitions[ShownState]
  PROVE  Machine!Next
<1>1. ShownState \notin Machine!TerminalStates
  BY DEF Stages, StageState, Machine!TerminalStates
<1>2. ShownState' \in Machine!TerminalStates \cup DOMAIN Machine!AllowedTransitions
  BY DEF Stages, StageState, Machine!TerminalStates, Machine!AllowedTransitions
<1> QED
  BY <1>1, <1>2 DEF Machine!Next, Machine!Transition

(* A phase, the one it is entered from first.                               *)
Forward ==
  {<<"created", "analyze">>, <<"analyze", "translate">>, <<"translate", "preflight">>,
   <<"preflight", "execute">>, <<"execute", "validate">>, <<"validate", "classify">>,
   <<"classify", "diagnose">>, <<"diagnose", "proposed">>, <<"proposed", "verify">>}

(* A step stays in its phase, enters the next one, or ends the pass.        *)
LEMMA StepShape ==
  ASSUME [Next]_vars
  PROVE  \/ UNCHANGED vars
         \/ PhaseRaises
         \/ Evaluate
         \/ /\ verdict = "NONE" /\ verdict' = "NONE"
            /\ stage' = stage \/ <<stage, stage'>> \in Forward
<1> DEFINE InPhase == /\ verdict = "NONE" /\ verdict' = "NONE"
                      /\ stage' = stage \/ <<stage, stage'>> \in Forward
<1>a. ASSUME NEW from, NEW to, <<from, to>> \in Forward, Running(from), verdict' = verdict,
             Enter(to) \/ Halt \/ HaltBlocked
      PROVE  InPhase
  BY <1>a DEF Running, Enter, Halt, HaltBlocked
<1> HIDE DEF InPhase
<1>1. ASSUME CreateRecord PROVE InPhase
  BY <1>1, <1>a DEF CreateRecord, Forward
<1>2. ASSUME NEW a \in SourcePreflights, SourcePreflight(a) PROVE InPhase
  <2>1. Enter("translate") \/ HaltBlocked
    BY <1>2 DEF SourcePreflight
  <2> QED
    BY <1>2, <1>a, <2>1 DEF SourcePreflight, Forward
<1>3. ASSUME NEW o \in TranslationOutcomes, Translate(o) PROVE InPhase
  <2>1. Enter("preflight") \/ Halt
    BY <1>3 DEF Translate
  <2> QED
    BY <1>3, <1>a, <2>1 DEF Translate, Forward
<1>4. ASSUME NEW a \in BOOLEAN, Preflight(a) PROVE InPhase
  <2>1. Enter("execute") \/ HaltBlocked
    BY <1>4 DEF Preflight
  <2> QED
    BY <1>4, <1>a, <2>1 DEF Preflight, Forward
<1>5. ASSUME NEW s, NEW t, NEW sc, NEW tc, Execute(s, t, sc, tc) PROVE InPhase
  <2>1. Enter("validate") \/ Halt
    BY <1>5 DEF Execute
  <2> QED
    BY <1>5, <1>a, <2>1 DEF Execute, Forward
<1>6. ASSUME NEW v, NEW f, NEW m, Validate(v, f, m) PROVE InPhase
  <2>1. Enter("classify") \/ Halt
    BY <1>6 DEF Validate
  <2> QED
    BY <1>6, <1>a, <2>1 DEF Validate, Forward
<1>7. ASSUME NEW n, NEW c, Classify(n, c) PROVE InPhase
  <2>1. Enter("diagnose") \/ Halt
    BY <1>7 DEF Classify
  <2> QED
    BY <1>7, <1>a, <2>1 DEF Classify, Forward
<1>8. ASSUME NEW r, DiagnoseAI(r) PROVE InPhase
  <2>1. Enter("proposed") \/ Halt
    BY <1>8 DEF DiagnoseAI
  <2> QED
    BY <1>8, <1>a, <2>1 DEF DiagnoseAI, Forward
<1>9. ASSUME StartVerification PROVE InPhase
  BY <1>9, <1>a DEF StartVerification, Forward
<1>10. ASSUME NEW w, NEW b, RejectRepair(w, b) PROVE InPhase
  BY <1>10 DEF RejectRepair, Running, Halt, InPhase
<1>11. ASSUME NEW c, NEW v, NEW res, NEW z, NEW red, NEW b, NEW m, NEW n,
              CompareRepair(c, v, b, res, z, red, m, n)
       PROVE  InPhase
  BY <1>11 DEF CompareRepair, Running, Halt, InPhase
<1>12. ASSUME Next PROVE InPhase \/ PhaseRaises \/ Evaluate
  BY <1>12, <1>1, <1>2, <1>3, <1>4, <1>5, <1>6, <1>7, <1>8, <1>9, <1>10, <1>11 DEF Next
<1> QED
  BY <1>12 DEF InPhase

(* Every step is a step of the declared graph, one of the three undeclared  *)
(* endings, or shows nothing.                                               *)
LEMMA ShownStep ==
  ASSUME PhaseInv, Arrival, EarlyExit, [Next]_vars
  PROVE  [Machine!Next \/ UndeclaredEnding]_ShownState
<1>1. CASE verdict # "NONE"
  <2>1. UNCHANGED vars
    BY <1>1, StepShape DEF PhaseRaises, Evaluate, Running
  <2> QED
    BY <2>1 DEF vars, ShownState, Decided
<1>2. CASE verdict = "NONE" /\ verdict' = "NONE"
  <2>1. ShownState = StageState[stage] /\ ShownState' = StageState[stage']
    BY <1>2, NoneUndecided DEF ShownState, Decided, StageState
  <2>2. CASE stage' = stage
    BY <2>1, <2>2
  <2>3. CASE stage' # stage
    <3>1. <<stage, stage'>> \in Forward
      BY <1>2, <2>3, StepShape DEF vars, PhaseRaises, Evaluate
    <3>3. ShownState' \in Machine!AllowedTransitions[ShownState]
      BY <2>1, <3>1 DEF Forward, StageState, Machine!AllowedTransitions
    <3>2. stage \in Stages
      BY DEF PhaseInv, TypeOK
    <3> QED
      BY <2>1, <3>2, <3>3, DeclaredStep
  <2> QED
    BY <2>2, <2>3
<1>3. CASE verdict = "NONE" /\ verdict' # "NONE"
  <2>1. PhaseRaises \/ Evaluate
    BY <1>3, StepShape DEF vars
  <2>2. stage' = stage /\ blocked' = blocked
    BY <2>1 DEF PhaseRaises, Evaluate
  <2>3. ShownState = StageState[stage]
    BY <1>3, NoneUndecided DEF ShownState, Decided
  <2>4. CASE verdict' = "RAISED"
    BY <2>2, <2>3, <2>4, NoneUndecided DEF ShownState, Decided, StageState
  <2>5. CASE verdict' # "RAISED"
    <3>1. halted /\ verdict' = IF blocked THEN "BLOCKED" ELSE FinalStatus(ev)
      BY <2>1, <2>5 DEF PhaseRaises, Evaluate
    <3>2. verdict' \in MigrationFinalStatus
      BY <3>1, FinalStatusType DEF MigrationFinalStatus
    <3>3. ShownState' = StatusToState(FinalStatus(ev))
      <4>1. ev' = ev
        BY <2>1 DEF PhaseRaises, Evaluate
      <4>2. (FinalStatus(ev))' = FinalStatus(ev)
        BY <4>1
      <4>3. (StatusToState(FinalStatus(ev)))' = StatusToState(FinalStatus(ev))
        BY <4>1
      <4> QED
        BY <3>2, <4>3, Zenon DEF ShownState, Decided
    <3>4. \/ ShownState' \in Machine!AllowedTransitions[ShownState]
          \/ /\ stage \in {"analyze", "preflight"} /\ blocked /\ verdict' = "BLOCKED"
             /\ ShownState' = "FAILED"
          \/ stage = "validate" /\ verdict' = "INCONCLUSIVE"
      BY <1>3, <2>3, <3>1, <3>3, VerdictShown
    <3>5. stage \in Stages
      BY DEF PhaseInv, TypeOK
    <3>6. CASE ShownState' \in Machine!AllowedTransitions[ShownState]
      BY <2>3, <3>5, <3>6, DeclaredStep
    <3>7. CASE /\ stage \in {"analyze", "preflight"} /\ blocked /\ verdict' = "BLOCKED"
              /\ ShownState' = "FAILED"
      BY <2>2, <2>3, <3>7 DEF UndeclaredEnding, StageState
    <3>8. CASE stage = "validate" /\ verdict' = "INCONCLUSIVE"
      BY <2>3, <3>8 DEF UndeclaredEnding, StageState
    <3> QED
      BY <3>4, <3>6, <3>7, <3>8
  <2> QED
    BY <2>4, <2>5
<1> QED
  BY <1>1, <1>2, <1>3

(* The phases in their order, and the state the record ends in, are a path  *)
(* of the graph of assurance/state.py but for three endings that graph does *)
(* not have: both blocked preflights and a limitation found while           *)
(* validating, each shown as FAILED.                                        *)
THEOREM PassFollowsGraph == Spec => FollowsStateMachine
<1>1. Init => EarlyExit
  BY DEF Init, EarlyExit, Decided, MigrationFinalStatus
<1>2. Spec => []EarlyExit
  BY <1>1, ExitStep, PhaseInvariant, PTL DEF Spec
<1>3. Init => Machine!Init
  BY DEF Init, Machine!Init, ShownState, Decided, StageState, MigrationFinalStatus
<1>4. PhaseInv /\ Arrival /\ EarlyExit /\ [Next]_vars
        => [Machine!Next \/ UndeclaredEnding]_ShownState
  BY ShownStep
<1> QED
  BY <1>2, <1>3, <1>4, PhaseInvariant, ArrivalInvariant, PTL DEF Spec, FollowsStateMachine
------------------------------------------------------------------------------
(* What a pass hands to the evaluation, as the requests of MigrationPipeline *)
(* take it: its RunPhases chooses from Outcomes, its TranslateFails from     *)
(* Failures.                                                                *)

(* Evidence with another translation, and without one.                      *)
Translating(e, status, valid, sql, error) ==
  [e EXCEPT !.trStatus = status, !.trValid = valid, !.trSql = sql, !.trError = error]

Stripped(e) == Translating(e, "NOT_RUN", "NONE", FALSE, "NONE")

Outcome(e) ==
  e \in EvidenceSpace /\ e.trStatus = "NOT_RUN" /\ e.src # "NOT_RUN" /\ e.tgt # "NOT_RUN"

(* A halted pass was refused by a preflight and executed nothing, or failed  *)
(* in the translation and executed nothing, or translated and brings the     *)
(* statuses of both executions.                                             *)
HandedOver ==
  halted =>
    \/ stage \in {"analyze", "preflight"} /\ blocked /\ Stripped(ev) = NoEvidence
    \/ /\ stage = "translate" /\ ~blocked /\ Stripped(ev) = NoEvidence
       /\ ev.trStatus \in TranslationStatus \ {"SUCCESS"}
       /\ ev.trValid \in (CandidateValidationStatus \ {"VALID_SYNTAX"}) \cup {"NONE"}
    \/ /\ stage \in {"execute", "validate", "classify", "diagnose", "verify"} /\ ~blocked
       /\ Outcome(Stripped(ev))
       /\ ev = Translating(Stripped(ev), "SUCCESS", "VALID_SYNTAX", TRUE, "NONE")

(* What every stage carries of it.                                          *)
Carried ==
  /\ stage \in {"created", "analyze", "translate", "preflight"} => Stripped(ev) = NoEvidence
  /\ stage \in {"preflight", "execute", "validate", "classify", "diagnose", "proposed",
                "verify"} => ev.trSql = TRUE /\ ev.trError = "NONE"
  /\ stage = "execute" /\ halted => ev.src # "NOT_RUN" /\ ev.tgt # "NOT_RUN"

Translational == {"trStatus", "trValid", "trSql", "trError"}

SameEvidence(e, d) == \A x \in DOMAIN NoEvidence : e[x] = d[x]

(* Two records of evidence with the same fields are the same.               *)
LEMMA EvidenceExtensional ==
  ASSUME NEW e \in EvidenceSpace, NEW d \in EvidenceSpace, SameEvidence(e, d)
  PROVE  e = d
<1>1. DOMAIN e = DOMAIN NoEvidence /\ DOMAIN d = DOMAIN NoEvidence
  BY DEF EvidenceSpace, NoEvidence
<1> QED  BY <1>1 DEF SameEvidence, EvidenceSpace

(* Evidence stripped of its translation.                                    *)
LEMMA StrippedFields ==
  ASSUME NEW e \in EvidenceSpace
  PROVE  /\ Stripped(e) \in EvidenceSpace
         /\ Stripped(e).trStatus = "NOT_RUN" /\ Stripped(e).trValid = "NONE"
         /\ Stripped(e).trSql = FALSE /\ Stripped(e).trError = "NONE"
         /\ \A x \in DOMAIN NoEvidence \ Translational : Stripped(e)[x] = e[x]
<1>0. PICK sql \in BOOLEAN : sql = FALSE
  OBVIOUS
<1> DEFINE a == [e EXCEPT !.trStatus = "NOT_RUN"]
           b == [a EXCEPT !.trValid = "NONE"]
           f == [b EXCEPT !.trSql = sql]
           d == [f EXCEPT !.trError = "NONE"]
<1>1. d = Stripped(e)
  <2>1. d = Translating(e, "NOT_RUN", "NONE", sql, "NONE")
    BY DEF Translating
  <2> HIDE DEF d
  <2> QED  BY <1>0, <2>1, Zenon DEF Stripped
<1>2. /\ a \in EvidenceSpace /\ a.trStatus = "NOT_RUN"
      /\ \A x \in DOMAIN NoEvidence \ Translational : a[x] = e[x]
  BY DEF EvidenceSpace, NoEvidence, Translational, TranslationStatus
<1> HIDE DEF a
<1>3. /\ b \in EvidenceSpace /\ b.trStatus = a.trStatus /\ b.trValid = "NONE"
      /\ \A x \in DOMAIN NoEvidence \ Translational : b[x] = a[x]
  BY <1>2 DEF EvidenceSpace, NoEvidence, Translational, CandidateValidationStatus
<1> HIDE DEF b
<1>4. /\ f \in EvidenceSpace /\ f.trStatus = b.trStatus /\ f.trValid = b.trValid
      /\ f.trSql = sql
      /\ \A x \in DOMAIN NoEvidence \ Translational : f[x] = b[x]
  BY <1>3 DEF EvidenceSpace, NoEvidence, Translational
<1> HIDE DEF f
<1>5. /\ d \in EvidenceSpace /\ d.trStatus = f.trStatus /\ d.trValid = f.trValid
      /\ d.trSql = f.trSql /\ d.trError = "NONE"
      /\ \A x \in DOMAIN NoEvidence \ Translational : d[x] = f[x]
  BY <1>4 DEF EvidenceSpace, NoEvidence, Translational, TranslationError
<1> HIDE DEF d
<1> QED  BY <1>0, <1>1, <1>2, <1>3, <1>4, <1>5

(* Evidence with a complete translation.                                    *)
LEMMA CompletedFields ==
  ASSUME NEW e \in EvidenceSpace,
         NEW c, c = Translating(e, "SUCCESS", "VALID_SYNTAX", TRUE, "NONE")
  PROVE  /\ c \in EvidenceSpace
         /\ c.trStatus = "SUCCESS" /\ c.trValid = "VALID_SYNTAX"
         /\ c.trSql = TRUE /\ c.trError = "NONE"
         /\ \A x \in DOMAIN NoEvidence \ Translational : c[x] = e[x]
<1>0. PICK sql \in BOOLEAN : sql = TRUE
  OBVIOUS
<1> DEFINE a == [e EXCEPT !.trStatus = "SUCCESS"]
           b == [a EXCEPT !.trValid = "VALID_SYNTAX"]
           f == [b EXCEPT !.trSql = sql]
           d == [f EXCEPT !.trError = "NONE"]
<1>1. d = c
  <2>1. d = Translating(e, "SUCCESS", "VALID_SYNTAX", sql, "NONE")
    BY DEF Translating
  <2> HIDE DEF d
  <2> QED  BY <1>0, <2>1, Zenon
<1>2. /\ a \in EvidenceSpace /\ a.trStatus = "SUCCESS"
      /\ \A x \in DOMAIN NoEvidence \ Translational : a[x] = e[x]
  BY DEF EvidenceSpace, NoEvidence, Translational, TranslationStatus
<1> HIDE DEF a
<1>3. /\ b \in EvidenceSpace /\ b.trStatus = a.trStatus /\ b.trValid = "VALID_SYNTAX"
      /\ \A x \in DOMAIN NoEvidence \ Translational : b[x] = a[x]
  BY <1>2 DEF EvidenceSpace, NoEvidence, Translational, CandidateValidationStatus
<1> HIDE DEF b
<1>4. /\ f \in EvidenceSpace /\ f.trStatus = b.trStatus /\ f.trValid = b.trValid
      /\ f.trSql = sql
      /\ \A x \in DOMAIN NoEvidence \ Translational : f[x] = b[x]
  BY <1>3 DEF EvidenceSpace, NoEvidence, Translational
<1> HIDE DEF f
<1>5. /\ d \in EvidenceSpace /\ d.trStatus = f.trStatus /\ d.trValid = f.trValid
      /\ d.trSql = f.trSql /\ d.trError = "NONE"
      /\ \A x \in DOMAIN NoEvidence \ Translational : d[x] = f[x]
  BY <1>4 DEF EvidenceSpace, NoEvidence, Translational, TranslationError
<1> HIDE DEF d
<1> QED  BY <1>0, <1>1, <1>2, <1>3, <1>4, <1>5

(* Evidence is what its fields are: those of the translation and the rest.  *)
LEMMA SameButTranslation ==
  ASSUME NEW e \in EvidenceSpace, NEW d \in EvidenceSpace,
         e.trStatus = d.trStatus, e.trValid = d.trValid, e.trSql = d.trSql,
         e.trError = d.trError,
         \A x \in DOMAIN NoEvidence \ Translational : e[x] = d[x]
  PROVE  e = d
<1>1. ASSUME NEW x \in DOMAIN NoEvidence
      PROVE  e[x] = d[x]
  BY <1>1 DEF Translational
<1> QED  BY <1>1, EvidenceExtensional DEF SameEvidence

(* A translation alone leaves nothing when stripped of itself.              *)
LEMMA StrippedTranslation ==
  ASSUME NEW e \in EvidenceSpace,
         \A x \in DOMAIN NoEvidence \ Translational : e[x] = NoEvidence[x]
  PROVE  Stripped(e) = NoEvidence
<1>1. /\ Stripped(e) \in EvidenceSpace
      /\ Stripped(e).trStatus = "NOT_RUN" /\ Stripped(e).trValid = "NONE"
      /\ Stripped(e).trSql = FALSE /\ Stripped(e).trError = "NONE"
      /\ \A x \in DOMAIN NoEvidence \ Translational : Stripped(e)[x] = e[x]
  BY StrippedFields, Zenon
<1>2. /\ NoEvidence.trStatus = "NOT_RUN" /\ NoEvidence.trValid = "NONE"
      /\ NoEvidence.trSql = FALSE /\ NoEvidence.trError = "NONE"
  BY DEF NoEvidence
<1>3. /\ Stripped(e).trStatus = NoEvidence.trStatus /\ Stripped(e).trValid = NoEvidence.trValid
      /\ Stripped(e).trSql = NoEvidence.trSql /\ Stripped(e).trError = NoEvidence.trError
      /\ \A x \in DOMAIN NoEvidence \ Translational : Stripped(e)[x] = NoEvidence[x]
  BY <1>1, <1>2, Zenon
<1> QED  BY <1>1, <1>3, NoEvidenceType, SameButTranslation, Zenon

(* So it is with every outcome of the translation; a successful one is      *)
(* complete.                                                                *)
LEMMA StrippedOutcome ==
  ASSUME NEW o \in TranslationOutcomes
  PROVE  /\ Stripped(o) = NoEvidence
         /\ o.trStatus = "SUCCESS" => o.trSql = TRUE /\ o.trError = "NONE"
<1>1. ASSUME NEW status, NEW valid, NEW sql, NEW error,
             o = Translated(status, valid, sql, error)
      PROVE  /\ Stripped(o) = NoEvidence
             /\ o.trStatus = status /\ o.trSql = sql /\ o.trError = error
  <2>1. \A x \in DOMAIN NoEvidence \ Translational : o[x] = NoEvidence[x]
    BY <1>1 DEF Translated, NoEvidence, Translational
  <2>2. Stripped(o) = NoEvidence
    BY <2>1, OutcomeShape, StrippedTranslation DEF TranslationOnly
  <2> QED  BY <1>1, <2>2 DEF Translated, NoEvidence
<1> DEFINE Complete ==
             /\ Stripped(o) = NoEvidence
             /\ o.trStatus = "SUCCESS" => o.trSql = TRUE /\ o.trError = "NONE"
<1>0. \A status : status \in {"REJECTED", "FAILED", "INVALID_OUTPUT", "UNSUPPORTED_DIALECT",
                             "PROVIDER_ERROR"} => status # "SUCCESS"
  OBVIOUS
<1>2. CASE o = PriorTranslation
  BY <1>1, <1>2, Zenon DEF PriorTranslation
<1>3. CASE \E status \in {"REJECTED", "FAILED", "INVALID_OUTPUT", "UNSUPPORTED_DIALECT",
                         "PROVIDER_ERROR"} : \E valid, sql, error :
             o = Translated(status, valid, sql, error)
  BY <1>0, <1>1, <1>3, Zenon
<1>4. \/ o = PriorTranslation
      \/ \E status \in {"REJECTED", "FAILED", "INVALID_OUTPUT", "UNSUPPORTED_DIALECT",
                       "PROVIDER_ERROR"} : \E valid, sql, error :
            o = Translated(status, valid, sql, error)
  <2> DEFINE Failing == {"REJECTED", "FAILED", "INVALID_OUTPUT", "UNSUPPORTED_DIALECT",
                         "PROVIDER_ERROR"}
  <2>0. /\ "REJECTED" \in Failing /\ "FAILED" \in Failing /\ "INVALID_OUTPUT" \in Failing
        /\ "UNSUPPORTED_DIALECT" \in Failing /\ "PROVIDER_ERROR" \in Failing
    OBVIOUS
  <2> HIDE DEF Failing
  <2>1. \/ o = PriorTranslation
        \/ o = Translated("REJECTED", "UNSAFE_SQL", TRUE, "OTHER")
        \/ o = Translated("FAILED", "SCHEMA_MISMATCH", TRUE, "OTHER")
        \/ o = Translated("FAILED", "NONE", FALSE, "OTHER")
        \/ o = Translated("INVALID_OUTPUT", "NONE", FALSE, "OTHER")
        \/ o = Translated("UNSUPPORTED_DIALECT", "NONE", FALSE, "OTHER")
        \/ \E sql \in BOOLEAN : o = Translated("FAILED", "INVALID_SYNTAX", sql, "OTHER")
        \/ \E error \in TranslationError \ {"NONE"} :
              o = Translated("PROVIDER_ERROR", "NONE", FALSE, error)
    BY DEF TranslationOutcomes
  <2>2. \/ o = PriorTranslation
        \/ \E status \in Failing : \E valid, sql, error : o = Translated(status, valid, sql, error)
    BY <2>0, <2>1, Zenon
  <2> QED  BY <2>2 DEF Failing
<1> QED  BY <1>2, <1>3, <1>4

(* The evidence of a later phase leaves the translation alone.              *)
LEMMA CarriedStep == ASSUME PhaseInv, Carried, [Next]_vars PROVE Carried'
<1>0. TypeOK /\ StageEvidence /\ ev \in EvidenceSpace
  BY DEF PhaseInv, TypeOK
<1>1. CASE CreateRecord
  BY <1>1 DEF CreateRecord, Running, Enter, Carried
<1>2. ASSUME NEW a \in SourcePreflights, SourcePreflight(a) PROVE Carried'
  BY <1>2 DEF SourcePreflight, Running, Enter, HaltBlocked, Carried
<1>3. ASSUME NEW o \in TranslationOutcomes, Translate(o) PROVE Carried'
  BY <1>3, StrippedOutcome DEF Translate, Running, Enter, Halt, Carried
<1>4. ASSUME NEW a \in BOOLEAN, Preflight(a) PROVE Carried'
  BY <1>4 DEF Preflight, Running, Enter, HaltBlocked, Carried
<1>5. ASSUME NEW src \in ExecutionStatus, NEW tgt \in ExecutionStatus,
             NEW srcConf \in Confidences, NEW tgtConf \in Confidences,
             Execute(src, tgt, srcConf, tgtConf)
      PROVE  Carried'
  <2>1. /\ ev'.src = src /\ ev'.tgt = tgt /\ src # "NOT_RUN" /\ tgt # "NOT_RUN"
        /\ ev'.trSql = ev.trSql /\ ev'.trError = ev.trError
    BY <1>0, <1>5 DEF Execute, EvidenceSpace, ExecutionStatus
  <2> QED  BY <1>5, <2>1 DEF Execute, Running, Enter, Halt, Carried
<1>6. ASSUME NEW v \in ValidationStatus, NEW f \in BOOLEAN, NEW m \in Count,
             Validate(v, f, m)
      PROVE  Carried'
  <2>1. ev'.trSql = ev.trSql /\ ev'.trError = ev.trError
    BY <1>0, <1>6 DEF Validate, EvidenceSpace
  <2> QED  BY <1>6, <2>1 DEF Validate, Running, Enter, Halt, Carried
<1>7. ASSUME NEW n \in Count, NEW c \in BOOLEAN, Classify(n, c) PROVE Carried'
  <2>1. ev'.trSql = ev.trSql /\ ev'.trError = ev.trError
    BY <1>0, <1>7 DEF Classify, EvidenceSpace
  <2> QED  BY <1>7, <2>1 DEF Classify, Running, Enter, Halt, Carried
<1>8. ASSUME NEW s \in RepairStatus, DiagnoseAI(s) PROVE Carried'
  <2>1. ev'.trSql = ev.trSql /\ ev'.trError = ev.trError
    BY <1>0, <1>8 DEF DiagnoseAI, EvidenceSpace
  <2> QED  BY <1>8, <2>1 DEF DiagnoseAI, Running, Enter, Halt, Carried
<1>9. CASE StartVerification
  BY <1>9 DEF StartVerification, Running, Enter, Carried
<1>10. ASSUME NEW w \in VerificationStatus, NEW b \in Count, RejectRepair(w, b)
       PROVE  Carried'
  <2>1. ev'.trSql = ev.trSql /\ ev'.trError = ev.trError
    BY <1>0, <1>10 DEF RejectRepair, EvidenceSpace
  <2> QED  BY <1>10, <2>1 DEF RejectRepair, Running, Halt, Carried
<1>11. ASSUME NEW conf \in Confidences, NEW val \in ValidationStatus,
              NEW resolved \in BOOLEAN, NEW zeroRows \in BOOLEAN, NEW reduced \in BOOLEAN,
              NEW b \in Count, NEW m \in Count, NEW n \in Count,
              CompareRepair(conf, val, b, resolved, zeroRows, reduced, m, n)
       PROVE  Carried'
  <2>1. ev'.trSql = ev.trSql /\ ev'.trError = ev.trError
    BY <1>0, <1>11 DEF CompareRepair, EvidenceSpace
  <2> QED  BY <1>11, <2>1 DEF CompareRepair, Running, Halt, Carried
<1>12. CASE PhaseRaises \/ Evaluate
  BY <1>12 DEF PhaseRaises, Evaluate, Carried
<1>13. CASE UNCHANGED vars
  BY <1>13 DEF vars, Carried
<1> QED
  BY <1>1, <1>2, <1>3, <1>4, <1>5, <1>6, <1>7, <1>8, <1>9, <1>10, <1>11, <1>12, <1>13
     DEF Next

(* What MigrationPipeline assumes of its constants is what the phases       *)
(* deliver: of any pass that run or execute_migration hands over to         *)
(* evaluate_assurance, the evidence is one a request of MigrationPipeline   *)
(* holds there, with an outcome of Outcomes or a failure of Failures.       *)
THEOREM PassFitsRequest == Spec => []HandedOver
<1>1. Init => Carried /\ EarlyExit
  <2> SUFFICES ASSUME Init
               PROVE  Carried /\ EarlyExit
    OBVIOUS
  <2>1. Stripped(ev) = NoEvidence
    BY KeptShape, StrippedTranslation DEF Init, Translational
  <2> QED
    BY <2>1 DEF Init, Carried, EarlyExit, Decided, MigrationFinalStatus
<1>2. Spec => [](Carried /\ EarlyExit)
  BY <1>1, CarriedStep, ExitStep, PhaseInvariant, PTL DEF Spec
<1>3. PhaseInv /\ Arrival /\ Carried /\ EarlyExit => HandedOver
  <2> SUFFICES ASSUME PhaseInv, Arrival, Carried, EarlyExit, halted
               PROVE  HandedOver
    BY DEF HandedOver
  <2>1. /\ ev \in EvidenceSpace /\ stage \in Stages /\ stage \notin {"created", "proposed"}
        /\ StageEvidence /\ (ev.trValid = "VALID_SYNTAX" => ev.trStatus = "SUCCESS")
    BY DEF PhaseInv, TypeOK, EarlyExit
  <2>2. CASE stage \in {"analyze", "preflight"}
    BY <2>2 DEF EarlyExit, Carried, HandedOver
  <2>3. CASE stage = "translate"
    <3>1. ev.trStatus \in TranslationStatus \ {"SUCCESS"}
      BY <2>1, <2>3 DEF EarlyExit, EvidenceSpace
    <3>2. ev.trValid \in (CandidateValidationStatus \ {"VALID_SYNTAX"}) \cup {"NONE"}
      BY <2>1, <3>1 DEF EvidenceSpace
    <3> QED  BY <2>3, <3>1, <3>2 DEF Arrival, Carried, HandedOver
  <2>4. CASE stage \in {"execute", "validate", "classify", "diagnose", "verify"}
    <3>1. /\ ev.src # "NOT_RUN" /\ ev.tgt # "NOT_RUN" /\ ev.trSql = TRUE /\ ev.trError = "NONE"
          /\ ev.trStatus = "SUCCESS" /\ ev.trValid = "VALID_SYNTAX"
      BY <2>1, <2>4 DEF StageEvidence, Carried, EvidenceSpace
    <3> DEFINE s == Stripped(ev)
               full == Translating(s, "SUCCESS", "VALID_SYNTAX", TRUE, "NONE")
    <3>4. /\ s \in EvidenceSpace /\ s.trStatus = "NOT_RUN"
          /\ \A x \in DOMAIN NoEvidence \ Translational : s[x] = ev[x]
      BY <2>1, StrippedFields, Zenon
    <3> HIDE DEF s
    <3>5. /\ full \in EvidenceSpace /\ full.trStatus = "SUCCESS"
          /\ full.trValid = "VALID_SYNTAX" /\ full.trSql = TRUE /\ full.trError = "NONE"
          /\ \A x \in DOMAIN NoEvidence \ Translational : full[x] = s[x]
      BY <3>4, CompletedFields, Zenon
    <3> HIDE DEF full
    <3>2. Outcome(Stripped(ev))
      <4>1. "src" \in DOMAIN NoEvidence \ Translational
              /\ "tgt" \in DOMAIN NoEvidence \ Translational
        BY DEF NoEvidence, Translational
      <4>2. s["src"] = ev["src"] /\ s["tgt"] = ev["tgt"]
        BY <3>4, <4>1
      <4> QED  BY <3>1, <3>4, <4>2 DEF Outcome, s
    <3>3. ev = Translating(Stripped(ev), "SUCCESS", "VALID_SYNTAX", TRUE, "NONE")
      <4>1. full = ev
        <5>1. /\ full.trStatus = ev.trStatus /\ full.trValid = ev.trValid
              /\ full.trSql = ev.trSql /\ full.trError = ev.trError
              /\ \A x \in DOMAIN NoEvidence \ Translational : full[x] = ev[x]
          BY <3>1, <3>4, <3>5, Zenon
        <5> QED  BY <2>1, <3>5, <5>1, SameButTranslation, Zenon
      <4> QED  BY <4>1 DEF full, s
    <3> QED  BY <2>4, <3>2, <3>3 DEF Arrival, HandedOver
  <2> QED  BY <2>1, <2>2, <2>3, <2>4 DEF Stages
<1> QED  BY <1>2, <1>3, PhaseInvariant, ArrivalInvariant, PTL
===============================================================================

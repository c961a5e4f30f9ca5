----------------------- MODULE RepairVerificationProofs -----------------------
(***************************************************************************)
(* Proofs about RepairProposal and RepairVerification: a proposal that     *)
(* passed the checks of its diagnosis passes them again, what was          *)
(* acknowledged is found, and a verified repair left nothing behind.       *)
(***************************************************************************)
EXTENDS RepairVerification, FiniteSetTheorems, FunctionTheorems, SequenceTheorems,
        WellFoundedInduction, TLAPS

(* What holds of a proposal marked PROPOSED, wherever it is kept.          *)
Passed(p) ==
  p.status = "PROPOSED" =>
    /\ p.sql # NoSql /\ p.region # {}
    /\ ReadOnly(p.sql) /\ ContractPreserved(p.sql) /\ InScope(p.sql, p.region)
    /\ EffectiveChange(p.sql)

AllPassed == Passed(memory) /\ Passed(row) /\ Passed(proposal)

(* The second round of checks has nothing to add to the first.             *)
LEMMA PassedIsAccepted ==
  ASSUME NEW p, p.status = "PROPOSED", Passed(p)
  PROVE  RejectionReason(p) = "NONE"
<1>1. /\ p.sql # NoSql /\ p.region # {} /\ p.sql.kind = "select"
      /\ ReadOnly(p.sql) /\ ContractPreserved(p.sql) /\ InScope(p.sql, p.region)
      /\ EffectiveChange(p.sql)
  BY DEF Passed, ContractPreserved
<1>2. QED
  BY <1>1 DEF RejectionReason

(* A region is never empty once the pipeline has filled it in.             *)
LEMMA RegionFilled ==
  ASSUME NEW r PROVE EffectiveRegion(r) # {}
BY ProposalAssumption DEF EffectiveRegion

(* The diagnosis stores only what passed.                                  *)
LEMMA DiagnosePasses ==
  ASSUME AllPassed, ProposalNext
  PROVE  Passed(memory') /\ Passed(row')
<1>0. Passed(memory) /\ Passed(row)
  BY DEF AllPassed
<1>1. CASE ProviderFails
  BY <1>0, <1>1 DEF ProviderFails, Save, Passed
<1>2. ASSUME NEW claims \in ClaimSets, NEW r \in Regions, RejectUngrounded(claims, r)
      PROVE  Passed(memory') /\ Passed(row')
  BY <1>0, <1>2 DEF RejectUngrounded, Save, Passed
<1>3. ASSUME NEW claims \in ClaimSets, NEW i \in BOOLEAN,
             NEW s \in Statements \cup {NoSql}, NEW r \in Regions, Withhold(claims, i, s, r)
      PROVE  Passed(memory') /\ Passed(row')
  BY <1>0, <1>3 DEF Withhold, Save, Passed
<1>4. ASSUME NEW claims \in ClaimSets, NEW i \in BOOLEAN,
             NEW s \in Statements \cup {NoSql}, NEW r \in Regions, Propose(claims, i, s, r)
      PROVE  Passed(memory') /\ Passed(row')
  <2>1. CASE Proposed(s, r)
    <3>1. memory' = [status |-> "PROPOSED", sql |-> s, region |-> EffectiveRegion(r),
                     fingerprint |-> TRUE] /\ row' = row
      BY <1>4, <2>1 DEF Propose, Save
    <3>2. QED
      BY <1>0, <2>1, <3>1, RegionFilled DEF Proposed, Passed
  <2>2. CASE ~Proposed(s, r)
    BY <1>0, <1>4, <2>2 DEF Propose, Save, Passed
  <2>3. QED
    BY <2>1, <2>2
<1>5. CASE Persist
  <2>1. memory' = memory /\ (row' = Stored(memory) \/ row' = row)
    BY <1>5 DEF Persist
  <2>2. Passed(Stored(memory))
    BY <1>0 DEF Passed, Stored
  <2>3. QED
    BY <1>0, <2>1, <2>2
<1>6. QED
  BY <1>1, <1>2, <1>3, <1>4, <1>5 DEF ProposalNext

(* No step of the verification, the database or the process loses that.    *)
LEMMA StepPasses ==
  ASSUME AllPassed, [Next]_vars PROVE AllPassed'
<1> USE DEF AllPassed
<1>1. CASE Diagnose
  <2>1. proposal' = proposal /\ ProposalNext
    BY <1>1 DEF Diagnose, verificationVars
  <2>2. QED
    BY <2>1, DiagnosePasses DEF Passed
<1>2. ASSUME NEW e \in {"pipeline", "api"}, NEW b \in Report, Begin(e, b)
      PROVE  AllPassed'
  <2>1. memory' = memory /\ row' = row /\ proposal' = Loaded
    BY <1>2 DEF Begin, proposalVars
  <2>2. Passed(Loaded)
    BY DEF Loaded, Passed, None
  <2>3. QED
    BY <2>1, <2>2 DEF Passed
<1>3. CASE \/ RejectCandidate \/ AcceptCandidate \/ FailExecution \/ Execute
           \/ DatasetUnresolved \/ DatasetChanged \/ SaveResult
           \/ (\E a \in Report : Compare(a))
  <2>1. memory' = memory /\ row' = row /\ proposal' = proposal
    BY <1>3 DEF RejectCandidate, AcceptCandidate, FailExecution, Execute, DatasetUnresolved,
                DatasetChanged, SaveResult, Compare, Refuse, proposalVars
  <2>2. QED
    BY <2>1 DEF Passed
<1>4. CASE Crash
  <2>1. memory' = None /\ row' = row /\ proposal' \in {proposal, None}
    BY <1>4 DEF Crash, Restart
  <2>2. QED
    BY <2>1 DEF Passed, None
<1>5. CASE Switch \/ UNCHANGED vars
  BY <1>5 DEF Switch, SwitchDatabase, verificationVars, vars, Passed
<1>6. QED
  BY <1>1, <1>2, <1>3, <1>4, <1>5 DEF Next

(* The checks before the execution refuse no proposal that the diagnosis   *)
(* marked PROPOSED, before or after a restart.                             *)
THEOREM RecheckRedundant == Spec => []ProposalSurvivesRecheck
<1>1. Init => AllPassed
  BY DEF Init, ProposalInit, AllPassed, Passed, None
<1>2. AllPassed => ProposalSurvivesRecheck
  BY PassedIsAccepted DEF AllPassed, ProposalSurvivesRecheck
<1>3. QED
  BY <1>1, <1>2, StepPasses, PTL DEF Spec
------------------------------------------------------------------------------
(* Type correctness of the diagnosis.                                      *)
LEMMA SavedProposal ==
  ASSUME ProposalTypeOK, NEW status \in RepairStatus, NEW s \in Statements \cup {NoSql},
         NEW r \in SUBSET Words, NEW f \in BOOLEAN, Save(status, s, r, f)
  PROVE  ProposalTypeOK'
BY ProposalAssumption DEF Save, ProposalTypeOK, Proposal

(* Every step of the diagnosis keeps the types.                            *)
LEMMA DiagnoseTypeOK ==
  ASSUME ProposalTypeOK, ProposalNext PROVE ProposalTypeOK'
<1>0. /\ \A r \in Regions : r \in SUBSET Words /\ EffectiveRegion(r) \in SUBSET Words
      /\ {} \in SUBSET Words
  BY ProposalAssumption DEF EffectiveRegion
<1>1. CASE ProviderFails
  BY <1>0, <1>1, SavedProposal DEF ProviderFails, RepairStatus
<1>2. ASSUME NEW claims \in ClaimSets, NEW r \in Regions, RejectUngrounded(claims, r)
      PROVE  ProposalTypeOK'
  BY <1>0, <1>2, SavedProposal DEF RejectUngrounded, RepairStatus
<1>3. ASSUME NEW claims \in ClaimSets, NEW i \in BOOLEAN,
             NEW s \in Statements \cup {NoSql}, NEW r \in Regions,
             Withhold(claims, i, s, r) \/ Propose(claims, i, s, r)
      PROVE  ProposalTypeOK'
  BY <1>0, <1>3, SavedProposal DEF Withhold, Propose, RepairStatus
<1>4. CASE Persist
  <2>1. row' \in {Stored(memory), row} /\ memory' = memory
        /\ UNCHANGED <<mode, up, outages>> /\ call' \in {"told", "raised"}
    BY <1>4 DEF Persist
  <2>2. Stored(memory) \in Proposal \cup {None}
    <3>1. CASE memory = None
      BY <3>1 DEF Stored, None
    <3>2. CASE memory \in Proposal
      BY <3>2 DEF Stored, Proposal
    <3>3. QED
      BY <3>1, <3>2 DEF ProposalTypeOK
  <2>3. QED
    BY <2>1, <2>2 DEF ProposalTypeOK
<1>5. QED
  BY <1>1, <1>2, <1>3, <1>4 DEF ProposalNext

(* A report is a sequence of records that no two signatures repeat in.     *)
LEMMA ReportShape ==
  ASSUME NEW rs \in Report
  PROVE  /\ Len(rs) \in Nat /\ DOMAIN rs = 1..Len(rs) /\ rs \in Seq(Records)
         /\ \A i \in DOMAIN rs : rs[i] \in Records
         /\ \A i, j \in DOMAIN rs : rs[i].sig = rs[j].sig => i = j
<1>1. PICK n \in 0..MaxReport : rs \in [1..n -> Records]
  BY DEF Report, BoundedSeq, SeqOf
<1>2. rs \in Seq(Records)
  BY <1>1, SeqDef, VerificationAssumption
<1>3. Len(rs) \in Nat /\ DOMAIN rs = 1..Len(rs) /\ \A i \in DOMAIN rs : rs[i] \in Records
  BY <1>2, LenProperties
<1>4. ASSUME NEW i \in DOMAIN rs, NEW j \in DOMAIN rs, rs[i].sig = rs[j].sig PROVE i = j
  <2>1. rs[i].sig \in Nat /\ rs[j].sig \in Nat
    BY <1>3, VerificationAssumption
  <2>2. /\ i < j => rs[i].sig < rs[j].sig
        /\ j < i => rs[j].sig < rs[i].sig
    BY DEF Report
  <2>3. i \in Nat /\ j \in Nat
    BY <1>3
  <2>4. QED
    BY <1>4, <2>1, <2>2, <2>3
<1>5. QED
  BY <1>2, <1>3, <1>4

(* The report of a validation that found nothing.                          *)
LEMMA EmptyReport ==
  /\ <<>> \in Report
  /\ \A rs \in Report : rs = <<>> <=> Len(rs) = 0
<1>1. <<>> \in [1..0 -> Records] /\ 0 \in 0..MaxReport
  BY VerificationAssumption
<1>2. <<>> \in Report
  BY <1>1 DEF Report, BoundedSeq, SeqOf
<1>3. QED
  BY <1>2, ReportShape, EmptySeq

(* A set of positions has a first one.                                     *)
LEMMA LeastPosition ==
  ASSUME NEW I \in SUBSET Nat, I # {}
  PROVE  Min(I) \in I
<1>1. PICK x \in I : \A y \in I : <<y, x>> \notin OpToRel(<, Nat)
  BY WFMin, NatLessThanWellFounded
<1>2. \A y \in I : ~(y < x)
  BY <1>1, Zenon DEF OpToRel
<1>3. \A y \in I : x <= y
  BY <1>2
<1>4. QED
  BY <1>3 DEF Min

(* The first position of a set of them is one of them.                     *)
LEMMA FirstIsRecord ==
  ASSUME NEW rs \in Report, NEW I \in SUBSET (DOMAIN rs), I # {}
  PROVE  Min(I) \in I
<1>1. I \in SUBSET Nat
  BY ReportShape
<1>2. QED
  BY <1>1, LeastPosition

(* The row counts a result is made of are numbers, or unknown.             *)
LEMMA RowsKnownOrNot ==
  ASSUME NEW rs \in Report, before \in Report
  PROVE  /\ Target.rows \in Nat \cup {Unknown}
         /\ Outcome(rs).rows \in Nat \cup {Unknown}
<1>1. \A r \in Records : r.rows \in Nat \cup {Unknown}
  BY VerificationAssumption
<1>2. Target.rows \in Nat \cup {Unknown}
  <2>1. before # <<>> => Target = before[1] /\ 1 \in DOMAIN before
    BY ReportShape, EmptyReport DEF Target
  <2>2. before # <<>> => Target.rows \in Nat \cup {Unknown}
    BY <1>1, <2>1, ReportShape
  <2>3. before = <<>> => Target.rows = Unknown
    BY DEF Target, Dummy
  <2>4. QED
    BY <2>2, <2>3
<1>4. ASSUME Found(rs, SameSignature)
      PROVE  FirstOf(rs, SameSignature).rows \in Nat \cup {Unknown}
  <2>1. DEFINE I == {i \in DOMAIN rs : SameSignature(rs[i])}
  <2>2. Min(I) \in I
    BY <1>4, FirstIsRecord DEF Found
  <2>3. QED
    BY <1>1, <2>2, ReportShape DEF FirstOf
<1>5. ASSUME Found(rs, Equivalent)
      PROVE  FirstOf(rs, Equivalent).rows \in Nat \cup {Unknown}
  <2>1. DEFINE I == {i \in DOMAIN rs : Equivalent(rs[i])}
  <2>2. Min(I) \in I
    BY <1>5, FirstIsRecord DEF Found
  <2>3. QED
    BY <1>1, <2>2, ReportShape DEF FirstOf
<1>6. ASSUME Found(rs, SameRegion)
      PROVE  FirstOf(rs, SameRegion).rows \in Nat \cup {Unknown}
  <2>1. DEFINE I == {i \in DOMAIN rs : SameRegion(rs[i])}
  <2>2. Min(I) \in I
    BY <1>6, FirstIsRecord DEF Found
  <2>3. QED
    BY <1>1, <2>2, ReportShape DEF FirstOf
<1>7. QED
  BY <1>2, <1>4, <1>5, <1>6 DEF Outcome

(* The positions compare_context counts are positions of the report.       *)
LEMMA CountsAreNumbers ==
  ASSUME NEW rs \in Report, before \in Report
  PROVE  /\ Cardinality(Remaining(rs)) \in Nat /\ Cardinality(NewIn(rs)) \in Nat
         /\ IsFiniteSet(Remaining(rs)) /\ IsFiniteSet(NewIn(rs))
<1>1. DOMAIN rs = 1..Len(rs) /\ Len(rs) \in Nat
  BY ReportShape
<1>2. IsFiniteSet(DOMAIN rs)
  BY <1>1, FS_Interval
<1>3. ASSUME NEW i \in DOMAIN before
      PROVE  RemainsAs(i, rs) \subseteq DOMAIN rs
  <2>1. CASE BySignature(i, rs) # {}
    BY <2>1 DEF RemainsAs, BySignature
  <2>2. CASE BySignature(i, rs) = {} /\ ByRegion(i, rs) # {}
    <3>1. Min(ByRegion(i, rs)) \in ByRegion(i, rs)
      BY <2>2, FirstIsRecord DEF ByRegion
    <3>2. QED
      BY <2>2, <3>1 DEF RemainsAs, ByRegion
  <2>3. QED
    BY <2>1, <2>2 DEF RemainsAs
<1>4. Remaining(rs) \subseteq DOMAIN rs /\ NewIn(rs) \subseteq DOMAIN rs
  BY <1>3 DEF Remaining, NewIn
<1>5. QED
  BY <1>2, <1>4, FS_Subset, FS_CardinalityType

(* A result is typed when its fields are.                                  *)
LEMMA ResultTyped ==
  ASSUME before \in Report, NEW status \in VerificationStatus, NEW m \in Nat, NEW n \in Nat,
         NEW b \in Nat \cup {Unknown}, NEW a \in Nat \cup {Unknown}
  PROVE  Result(status, m, n, b, a) \in ResultSpace
BY ReportShape DEF Result, ResultSpace

(* The verification keeps its types.                                       *)
LEMMA StepTyped ==
  ASSUME TypeOK, [Next]_vars PROVE TypeOK'
<1> USE DEF TypeOK
<1>1. CASE Diagnose
  BY <1>1, DiagnoseTypeOK DEF Diagnose, verificationVars
<1>2. ASSUME UNCHANGED proposalVars PROVE ProposalTypeOK'
  BY <1>2 DEF proposalVars, ProposalTypeOK
<1>3. ASSUME NEW e \in {"pipeline", "api"}, NEW b \in Report, Begin(e, b)
      PROVE  TypeOK'
  <2>1. Loaded \in Proposal \cup {None}
    BY DEF Loaded, ProposalTypeOK
  <2>2. QED
    BY <1>2, <1>3, <2>1 DEF Begin
<1>4. ASSUME NEW status \in VerificationStatus, Refuse(status) PROVE TypeOK'
  <2>1. Target.rows \in Nat \cup {Unknown} /\ Len(before) \in Nat
    BY RowsKnownOrNot, ReportShape
  <2>2. result' \in ResultSpace
    BY <1>4, <2>1, ResultTyped DEF Refuse
  <2>3. QED
    BY <1>2, <1>4, <2>2 DEF Refuse
<1>5. CASE RejectCandidate \/ FailExecution
  BY <1>4, <1>5 DEF RejectCandidate, FailExecution, VerificationStatus
<1>6. CASE AcceptCandidate \/ Execute \/ DatasetUnresolved \/ DatasetChanged
  BY <1>2, <1>6 DEF AcceptCandidate, Execute, DatasetUnresolved, DatasetChanged
<1>7. ASSUME NEW a \in Report, Compare(a) PROVE TypeOK'
  <2>1. StatusAfter(a) \in VerificationStatus
    BY DEF StatusAfter, VerificationStatus
  <2>2. Result(StatusAfter(a), Cardinality(Remaining(a)), Cardinality(NewIn(a)),
               Target.rows, Outcome(a).rows) \in ResultSpace
    BY <2>1, ResultTyped, CountsAreNumbers, RowsKnownOrNot
  <2>3. result' \in ResultSpace
    BY <1>7, <2>2 DEF Compare
  <2>4. QED
    BY <1>2, <1>7, <2>3 DEF Compare
<1>8. CASE SaveResult
  <2>1. StoredResult(result) \in ResultSpace
    BY DEF StoredResult, StoredRows, ResultSpace, Unknown
  <2>2. QED
    BY <1>2, <1>8, <2>1 DEF SaveResult
<1>9. CASE Crash
  <2>1. ProposalTypeOK'
    BY <1>9 DEF Crash, Restart, ProposalTypeOK
  <2>2. NoResult \in ResultSpace /\ <<>> \in Report
    BY EmptyReport DEF NoResult, ResultSpace, Unknown
  <2>3. QED
    BY <1>9, <2>1, <2>2 DEF Crash
<1>10. CASE Switch
  <2>1. up' \in BOOLEAN /\ outages' \in 0..MaxOutages
    <3>1. outages \in 0..MaxOutages /\ MaxOutages \in Nat
      BY ProposalAssumption DEF ProposalTypeOK
    <3>2. CASE DatabaseFails
      <4>1. outages < MaxOutages /\ outages' = outages + 1
        BY <3>2 DEF DatabaseFails
      <4>2. outages' \in 0..MaxOutages
        BY <3>1, <4>1
      <4>3. up' = FALSE
        BY <3>2, Zenon DEF DatabaseFails
      <4>4. QED
        BY <4>2, <4>3
    <3>3. CASE DatabaseRecovers
      BY <3>1, <3>3 DEF DatabaseRecovers
    <3>4. QED
      BY <1>10, <3>2, <3>3 DEF Switch, SwitchDatabase
  <2>2. UNCHANGED <<mode, call, memory, row>> /\ UNCHANGED verificationVars
    BY <1>10 DEF Switch, SwitchDatabase
  <2>3. ProposalTypeOK'
    BY <2>1, <2>2 DEF ProposalTypeOK
  <2>4. QED
    BY <2>2, <2>3 DEF verificationVars
<1>11. CASE UNCHANGED vars
  BY <1>11 DEF vars, ProposalTypeOK
<1>12. QED
  BY <1>1, <1>3, <1>5, <1>6, <1>7, <1>8, <1>9, <1>10, <1>11 DEF Next

(* Every proposal, report and result is a record of its kind, in memory,   *)
(* in the database and on the way between them.                            *)
THEOREM RepairTypeCorrect == Spec => []TypeOK
<1>1. Init => TypeOK
  BY ProposalAssumption, EmptyReport DEF Init, ProposalInit, TypeOK, ProposalTypeOK, NoResult,
     ResultSpace, Unknown
<1>2. QED
  BY <1>1, StepTyped, PTL DEF Spec
------------------------------------------------------------------------------
(* What a strict environment has acknowledged is in the database.          *)
Acknowledged ==
  /\ mode = "strict" /\ call = "told" => row.status # "NONE"
  /\ mode = "strict" /\ pc = "told" => record = StoredResult(result)
  /\ pc = "told" => cached \in {result, NoResult}
  /\ memory # None => memory.status # "NONE"
  /\ call = "save" => memory # None

(* A diagnosis acknowledges only what it stored.                           *)
LEMMA DiagnoseAcknowledges ==
  ASSUME TypeOK, Acknowledged, Diagnose PROVE Acknowledged'
<1> USE DEF Acknowledged
<1>0. UNCHANGED <<pc, record, result, cached>> /\ ProposalNext
  BY DEF Diagnose, verificationVars
<1>1. ASSUME NEW status \in RepairStatus, NEW s, NEW r, NEW f, Save(status, s, r, f)
      PROVE  Acknowledged'
  <2>1. memory'.status = status /\ memory' # None
    BY <1>1 DEF Save, RepairStatus, None
  <2>2. QED
    BY <1>0, <1>1, <2>1 DEF Save, RepairStatus
<1>2. CASE ProviderFails
  BY <1>1, <1>2 DEF ProviderFails, RepairStatus
<1>3. ASSUME NEW claims \in ClaimSets, NEW r \in Regions, RejectUngrounded(claims, r)
      PROVE  Acknowledged'
  BY <1>1, <1>3 DEF RejectUngrounded, RepairStatus
<1>4. ASSUME NEW claims \in ClaimSets, NEW i \in BOOLEAN,
             NEW s \in Statements \cup {NoSql}, NEW r \in Regions,
             Withhold(claims, i, s, r) \/ Propose(claims, i, s, r)
      PROVE  Acknowledged'
  BY <1>1, <1>4 DEF Withhold, Propose, RepairStatus
<1>5. CASE Persist
  <2>1. mode = "strict" /\ call' = "told" => row' = Stored(memory)
    BY <1>5 DEF Persist
  <2>2. memory # None /\ UNCHANGED <<mode, memory>> /\ call' \in {"told", "raised"}
    BY <1>5 DEF Persist
  <2>3. QED
    BY <1>0, <2>1, <2>2 DEF Stored
<1>6. QED
  BY <1>0, <1>2, <1>3, <1>4, <1>5 DEF ProposalNext

(* So does a verification, and nothing takes it back.                      *)
LEMMA StepAcknowledges ==
  ASSUME TypeOK, Acknowledged, [Next]_vars PROVE Acknowledged'
<1>1. CASE Diagnose
  BY <1>1, DiagnoseAcknowledges
<1> USE DEF Acknowledged
<1>2. CASE \/ RejectCandidate \/ AcceptCandidate \/ FailExecution \/ Execute
           \/ DatasetUnresolved \/ DatasetChanged \/ (\E a \in Report : Compare(a))
           \/ (\E e \in {"pipeline", "api"}, b \in Report : Begin(e, b))
  <2>1. UNCHANGED <<mode, call, memory, row>> /\ pc' # "told"
    BY <1>2 DEF RejectCandidate, AcceptCandidate, FailExecution, Execute, DatasetUnresolved,
                DatasetChanged, Compare, Begin, Refuse, proposalVars
  <2>2. QED
    BY <2>1
<1>3. CASE SaveResult
  <2>1. UNCHANGED <<mode, call, memory, row, result>> /\ cached' = result
    BY <1>3 DEF SaveResult, proposalVars
  <2>2. mode = "strict" /\ pc' = "told" => record' = StoredResult(result)
    BY <1>3 DEF SaveResult
  <2>3. StoredResult(result)' = StoredResult(result)
    BY <2>1 DEF StoredResult, StoredRows
  <2>4. QED
    BY <2>1, <2>2, <2>3
<1>4. CASE Crash
  <2>1. UNCHANGED <<mode, row, record>> /\ memory' = None /\ cached' = NoResult
        /\ (call' = "told" => call = "told") /\ call' # "save"
    BY <1>4 DEF Crash, Restart, TypeOK, ProposalTypeOK
  <2>2. pc' = "told" => pc = "told" /\ result' = result
    BY <1>4 DEF Crash
  <2>3. QED
    BY <2>1, <2>2 DEF StoredResult, StoredRows
<1>5. CASE Switch \/ UNCHANGED vars
  <2>1. UNCHANGED <<mode, call, memory, row, pc, result, cached, record>>
    BY <1>5 DEF Switch, SwitchDatabase, verificationVars, vars
  <2>2. QED
    BY <2>1 DEF StoredResult, StoredRows
<1>6. QED
  BY <1>1, <1>2, <1>3, <1>4, <1>5 DEF Next

(* A diagnosis or a verification that returned where persistence is        *)
(* authoritative is found again, whatever failed or restarted since.       *)
THEOREM AcknowledgedSurvives == Spec => []AcknowledgedIsFound
<1>1. Init => Acknowledged
  BY DEF Init, ProposalInit, Acknowledged
<1>2. TypeOK /\ Acknowledged => AcknowledgedIsFound
  <2>1. SUFFICES ASSUME TypeOK, Acknowledged, mode = "strict", up
                 PROVE  /\ call = "told" => Loaded.status # "NONE"
                        /\ pc = "told" => /\ LoadedResult.status = result.status
                                          /\ LoadedResult.remaining = result.remaining
                                          /\ LoadedResult.new = result.new
    BY DEF AcknowledgedIsFound
  <2>2. call = "told" => Loaded.status # "NONE"
    BY <2>1 DEF Acknowledged, Loaded
  <2>3. ASSUME pc = "told"
        PROVE  LoadedResult \in {result, StoredResult(result)}
    BY <2>1, <2>3 DEF Acknowledged, LoadedResult
  <2>4. /\ StoredResult(result).status = result.status
        /\ StoredResult(result).remaining = result.remaining
        /\ StoredResult(result).new = result.new
    BY <2>1 DEF StoredResult, TypeOK, ResultSpace
  <2>5. QED
    BY <2>2, <2>3, <2>4
<1>3. QED
  BY <1>1, <1>2, StepAcknowledges, RepairTypeCorrect, PTL DEF Spec
------------------------------------------------------------------------------
(* What the rules establish of the two reports when they say VERIFIED or   *)
(* PARTIALLY_RESOLVED.                                                     *)
Gone(rs) ==
  /\ Target.rows # 0
  /\ \A j \in DOMAIN rs :
       /\ before # <<>> => rs[j].sig # Target.sig
       /\ Target.path # Global => ~(Target.path \subseteq rs[j].path)
       /\ \E i \in DOMAIN before : \/ rs[j].sig = before[i].sig
                                   \/ rs[j].path = before[i].path

(* The rule that says VERIFIED.                                            *)
LEMMA VerifiedRule ==
  ASSUME NEW rs \in Report, StatusAfter(rs) = "VERIFIED"
  PROVE  Gone(rs)
<1>1. NewIn(rs) = {} /\ Outcome(rs).status = "RESOLVED" /\ Target.rows # 0
  BY DEF StatusAfter
<1>2. ~Found(rs, SameSignature) /\ ~Found(rs, SameRegion)
  BY <1>1 DEF Outcome
<1>3. ASSUME NEW j \in DOMAIN rs
      PROVE  /\ before # <<>> => rs[j].sig # Target.sig
             /\ Target.path # Global => ~(Target.path \subseteq rs[j].path)
  BY <1>2 DEF Found, SameSignature, SameRegion, Within
<1>4. ASSUME NEW j \in DOMAIN rs
      PROVE  \E i \in DOMAIN before : rs[j].sig = before[i].sig \/ rs[j].path = before[i].path
  BY <1>1 DEF NewIn, BySignature, ByRegion
<1>5. QED
  BY <1>1, <1>3, <1>4 DEF Gone

(* A result is decided on the two reports that stay beside it.             *)
Decided ==
  /\ pc \in {"idle", "check", "execute", "compare"} => result = NoResult
  /\ result.status = "VERIFIED" => Gone(after)

(* Nothing touches the reports of a result that says VERIFIED.             *)
LEMMA StepDecides ==
  ASSUME TypeOK, Decided, [Next]_vars PROVE Decided'
<1> USE DEF Decided
<1>1. CASE \/ Diagnose \/ SaveResult \/ Switch \/ UNCHANGED vars
  <2>1. UNCHANGED <<before, after, result>> /\ (pc' = pc \/ pc' \in {"told", "raised"})
    BY <1>1 DEF Diagnose, SaveResult, Switch, verificationVars, vars
  <2>2. QED
    BY <2>1 DEF Gone, Target
<1>2. CASE \/ AcceptCandidate \/ Execute \/ DatasetUnresolved \/ DatasetChanged
           \/ (\E e \in {"pipeline", "api"}, b \in Report : Begin(e, b))
  <2>1. result = NoResult /\ result' = result
    BY <1>2 DEF AcceptCandidate, Execute, DatasetUnresolved, DatasetChanged, Begin
  <2>2. QED
    BY <2>1 DEF NoResult
<1>3. ASSUME NEW status \in {"CANDIDATE_REJECTED", "EXECUTION_FAILED"}, Refuse(status)
      PROVE  Decided'
  BY <1>3 DEF Refuse, Result
<1>4. CASE RejectCandidate \/ FailExecution
  BY <1>3, <1>4 DEF RejectCandidate, FailExecution
<1>5. ASSUME NEW a \in Report, Compare(a) PROVE Decided'
  <2>1. result = NoResult /\ before' = before /\ after' = a /\ pc' \in {"save", "raised"}
    BY <1>5 DEF Compare
  <2>2. CASE Subtracts(a)
    <3>1. result' = NoResult
      BY <1>5, <2>1, <2>2 DEF Compare
    <3>2. QED
      BY <2>1, <3>1 DEF NoResult
  <2>3. CASE ~Subtracts(a)
    <3>1. result'.status = StatusAfter(a)
      BY <1>5, <2>3 DEF Compare, Result
    <3>2. StatusAfter(a) = "VERIFIED" => Gone(a)
      BY VerifiedRule
    <3>3. Gone(a) => Gone(after)'
      BY <2>1 DEF Gone, Target
    <3>4. QED
      BY <2>1, <3>1, <3>2, <3>3
  <2>4. QED
    BY <2>2, <2>3
<1>6. CASE Crash
  <2>1. CASE pc \in {"told", "raised"}
    BY <1>6, <2>1 DEF Crash, Gone, Target
  <2>2. CASE pc \notin {"told", "raised"}
    BY <1>6, <2>2 DEF Crash, NoResult
  <2>3. QED
    BY <2>1, <2>2
<1>7. QED
  BY <1>1, <1>2, <1>4, <1>5, <1>6 DEF Next

(* A VERIFIED repair left nothing of its target, and brought nothing new.  *)
THEOREM VerifiedLeavesNothing == Spec => []VerifiedMeansGone
<1>1. Init => Decided
  BY DEF Init, Decided, NoResult
<1>2. Decided => VerifiedMeansGone
  BY DEF Decided, Gone, VerifiedMeansGone
<1>3. QED
  BY <1>1, <1>2, StepDecides, RepairTypeCorrect, PTL DEF Spec
------------------------------------------------------------------------------
(* What is partly resolved is still there: an outcome that persists, with   *)
(* nothing new, is a record that compare_context counts as remaining.       *)
LEMMA PartialRule ==
  ASSUME NEW rs \in Report, StatusAfter(rs) = "PARTIALLY_RESOLVED"
  PROVE  /\ Reduced(Target.rows, Outcome(rs).rows)
         /\ NewIn(rs) = {} /\ Remaining(rs) # {}
<1>1. /\ Outcome(rs).status = "PERSISTS" /\ Reduced(Target.rows, Outcome(rs).rows)
      /\ NewIn(rs) = {}
  BY DEF StatusAfter
<1>2. PICK j \in DOMAIN rs : TRUE
  BY <1>1 DEF Outcome, Found
<1>3. PICK i \in DOMAIN before : j \in BySignature(i, rs) \cup ByRegion(i, rs)
  BY <1>1 DEF NewIn
<1>4. RemainsAs(i, rs) # {}
  BY <1>3 DEF RemainsAs
<1>5. QED
  BY <1>1, <1>4 DEF Remaining

(* Every comparison that ends so follows the rule.                         *)
LEMMA StepPartial ==
  ASSUME TypeOK, Decided, PartialMeansFewer, [Next]_vars PROVE PartialMeansFewer'
<1>1. CASE result' = result \/ result' = NoResult
  BY <1>1 DEF PartialMeansFewer, NoResult
<1>2. ASSUME NEW status \in {"CANDIDATE_REJECTED", "EXECUTION_FAILED"}, Refuse(status)
      PROVE  PartialMeansFewer'
  BY <1>2 DEF Refuse, Result, PartialMeansFewer
<1>3. ASSUME NEW a \in Report, Compare(a), ~Subtracts(a) PROVE PartialMeansFewer'
  <2>1. result' = Result(StatusAfter(a), Cardinality(Remaining(a)),
                         Cardinality(NewIn(a)), Target.rows, Outcome(a).rows)
    BY <1>3 DEF Compare
  <2>2. SUFFICES ASSUME StatusAfter(a) = "PARTIALLY_RESOLVED" PROVE PartialMeansFewer'
    BY <2>1 DEF PartialMeansFewer, Result
  <2>3. /\ Reduced(Target.rows, Outcome(a).rows)
        /\ NewIn(a) = {} /\ Remaining(a) # {}
    BY <2>2, PartialRule
  <2>4. Cardinality(Remaining(a)) \in Nat /\ IsFiniteSet(Remaining(a))
    BY CountsAreNumbers DEF TypeOK
  <2>5. Cardinality(Remaining(a)) > 0 /\ Cardinality(NewIn(a)) = 0
    BY <2>3, <2>4, FS_EmptySet
  <2>6. /\ Target.rows \in Nat \cup {Unknown} /\ Outcome(a).rows \in Nat \cup {Unknown}
    BY RowsKnownOrNot DEF TypeOK
  <2>7. /\ Unknown \notin {Target.rows, Outcome(a).rows}
        /\ Outcome(a).rows < Target.rows
    BY <2>3, <2>6 DEF Reduced, Unknown
  <2>8. QED
    BY <2>1, <2>5, <2>7 DEF PartialMeansFewer, Result
<1>4. QED
  BY <1>1, <1>2, <1>3 DEF Next, vars, verificationVars, Diagnose, Begin, RejectCandidate,
     AcceptCandidate, FailExecution, Execute, DatasetUnresolved, DatasetChanged, Compare,
     SaveResult, Crash, Switch

(* A PARTIALLY_RESOLVED repair left its target there, with fewer rows than  *)
(* before, and brought nothing new.                                         *)
THEOREM PartialAlwaysFewer == Spec => []PartialMeansFewer
<1>1. Init => Decided /\ PartialMeansFewer
  BY DEF Init, Decided, PartialMeansFewer, NoResult
<1>2. QED
  BY <1>1, StepDecides, StepPartial, RepairTypeCorrect, PTL DEF Spec
------------------------------------------------------------------------------
(* What is executed was accepted.                                           *)
Accepted == pc \in {"execute", "compare"} => RejectionReason(proposal) = "NONE"

(* Only an accepted proposal gets to its execution.                        *)
LEMMA StepAccepts ==
  ASSUME Accepted, [Next]_vars PROVE Accepted'
<1>1. CASE pc' \notin {"execute", "compare"}
  BY <1>1 DEF Accepted
<1>2. CASE AcceptCandidate \/ Execute
  BY <1>2 DEF AcceptCandidate, Execute, Accepted, RejectionReason
<1>3. CASE pc' = pc /\ proposal' = proposal
  BY <1>3 DEF Accepted, RejectionReason
<1>4. QED
  BY <1>1, <1>2, <1>3 DEF Next, vars, verificationVars, Diagnose, Begin, RejectCandidate,
     FailExecution, DatasetUnresolved, DatasetChanged, Compare, SaveResult, Crash, Switch, Refuse

(* A statement executed in the sandbox only reads and leaves the grouping,  *)
(* and the joins and filters that its region does not name, alone.          *)
THEOREM ExecutionInScope == Spec => []ExecutedWithinScope
<1>1. Init => Accepted
  BY DEF Init, Accepted
<1>2. Accepted => ExecutedWithinScope
  <2>1. SUFFICES ASSUME Accepted, pc = "compare" PROVE ExecutedWithinScope
    BY DEF ExecutedWithinScope
  <2>2. RejectionReason(proposal) = "NONE"
    BY <2>1 DEF Accepted
  <2>3. /\ proposal.sql.kind = "select"
        /\ InScope(proposal.sql, IF proposal.region # {} THEN proposal.region ELSE {"columns"})
    BY <2>2 DEF RejectionReason
  <2>4. QED
    BY <2>3 DEF InScope, ExecutedWithinScope
<1>3. QED
  BY <1>1, <1>2, StepAccepts, PTL DEF Spec
------------------------------------------------------------------------------
(* A record remains as one record at most: signatures do not repeat, and   *)
(* of a region only the first counts.                                      *)
LEMMA RemainsAsOne ==
  ASSUME NEW rs \in Report, NEW i \in DOMAIN before,
         NEW j \in RemainsAs(i, rs), NEW k \in RemainsAs(i, rs)
  PROVE  j = k
<1>1. CASE BySignature(i, rs) # {}
  BY <1>1, ReportShape DEF RemainsAs, BySignature
<1>2. CASE BySignature(i, rs) = {}
  BY <1>2 DEF RemainsAs
<1>3. QED
  BY <1>1, <1>2

(* So no more remain than there were, and fewer if the target is gone:     *)
(* the records of before that remain are mapped onto what remains of them. *)
LEMMA RemainsFew ==
  ASSUME NEW rs \in Report, before \in Report
  PROVE  /\ Cardinality(Remaining(rs)) <= Len(before)
         /\ before # <<>> /\ RemainsAs(1, rs) = {} => Cardinality(Remaining(rs)) < Len(before)
<1> DEFINE kept == {i \in DOMAIN before : RemainsAs(i, rs) # {}}
           image == [i \in kept |-> CHOOSE j : j \in RemainsAs(i, rs)]
<1>1. /\ Len(before) \in Nat /\ DOMAIN before = 1..Len(before)
      /\ IsFiniteSet(DOMAIN before) /\ Cardinality(DOMAIN before) = Len(before)
  <2>1. Len(before) \in Nat /\ DOMAIN before = 1..Len(before)
    BY ReportShape
  <2>2. IsFiniteSet(1..Len(before)) /\ Cardinality(1..Len(before)) = Len(before)
    <3>1. 0 \in Int /\ 1 \in Int /\ Len(before) \in Int
      BY <2>1
    <3>2. /\ IsFiniteSet(1..Len(before))
          /\ Cardinality(1..Len(before)) = IF 1 > Len(before) THEN 0 ELSE Len(before) - 1 + 1
      BY <3>1, FS_Interval
    <3>3. QED
      BY <2>1, <3>2
  <2>3. QED
    BY <2>1, <2>2
<1>2. kept \subseteq DOMAIN before
  OBVIOUS
<1>3. \A i \in kept : image[i] \in RemainsAs(i, rs)
  OBVIOUS
<1>4. image \in Surjection(kept, Remaining(rs))
  <2>1. image \in [kept -> Remaining(rs)]
    BY <1>2, <1>3 DEF Remaining
  <2>2. ASSUME NEW j \in Remaining(rs) PROVE \E i \in kept : image[i] = j
    <3>1. PICK i \in DOMAIN before : j \in RemainsAs(i, rs)
      BY DEF Remaining
    <3>2. i \in kept /\ image[i] = j
      BY <1>3, <3>1, RemainsAsOne
    <3>3. QED
      BY <3>2
  <2>3. QED
    BY <2>1, <2>2 DEF Surjection
<1> HIDE DEF image
<1>5. /\ IsFiniteSet(kept) /\ Cardinality(kept) \in Nat
      /\ Cardinality(kept) <= Len(before)
      /\ kept # DOMAIN before => Cardinality(kept) < Len(before)
  <2> HIDE DEF kept
  <2>1. /\ IsFiniteSet(kept) /\ Cardinality(kept) <= Cardinality(DOMAIN before)
        /\ Cardinality(DOMAIN before) = Cardinality(kept) => DOMAIN before = kept
    BY <1>1, <1>2, FS_Subset
  <2>2. Cardinality(kept) \in Nat
    BY <2>1, FS_CardinalityType
  <2>3. QED
    BY <1>1, <2>1, <2>2
<1>6. Cardinality(Remaining(rs)) \in Nat /\ Cardinality(Remaining(rs)) <= Cardinality(kept)
  BY <1>4, <1>5, FS_Surjection, FS_CardinalityType
<1>7. before # <<>> /\ RemainsAs(1, rs) = {} => kept # DOMAIN before
  <2>1. before # <<>> => 1 \in DOMAIN before
    BY <1>1, EmptyReport
  <2>2. QED
    BY <2>1
<1> HIDE DEF kept
<1>8. QED
  BY <1>1, <1>5, <1>6, <1>7

(* The counts and the status that compare_context makes of two reports are *)
(* those the phases allow a verification.                                  *)
LEMMA CountsAllowed ==
  ASSUME NEW rs \in Report, before \in Report
  PROVE  LET m == Cardinality(Remaining(rs))
             n == Cardinality(NewIn(rs))
             resolved == Outcome(rs).status = "RESOLVED"
             reduced == Outcome(rs).status = "PERSISTS" /\ Reduced(Target.rows, Outcome(rs).rows)
         IN  /\ m <= Len(before)
             /\ resolved /\ Len(before) > 0 => m < Len(before)
             /\ ~resolved => m + n > 0
             /\ reduced => ~resolved
             /\ Len(before) = 0 => Target.rows # 0 /\ ~reduced
             /\ StatusAfter(rs) = Phases!DetermineStatus(resolved, Target.rows = 0, reduced, n)
<1> DEFINE m == Cardinality(Remaining(rs))
           n == Cardinality(NewIn(rs))
           resolved == Outcome(rs).status = "RESOLVED"
           reduced == Outcome(rs).status = "PERSISTS" /\ Reduced(Target.rows, Outcome(rs).rows)
<1>1. /\ m \in Nat /\ n \in Nat /\ IsFiniteSet(Remaining(rs)) /\ IsFiniteSet(NewIn(rs))
      /\ Len(before) \in Nat /\ DOMAIN before = 1..Len(before)
  BY CountsAreNumbers, ReportShape
<1>2. (m = 0 <=> Remaining(rs) = {}) /\ (n = 0 <=> NewIn(rs) = {})
  BY <1>1, FS_EmptySet
<1>3. m <= Len(before)
  BY RemainsFew
<1>4. ASSUME resolved, Len(before) > 0 PROVE m < Len(before)
  <2>1. before # <<>> /\ 1 \in DOMAIN before /\ Target = before[1]
    BY <1>1, <1>4, EmptyReport DEF Target
  <2>2. ~Found(rs, SameSignature) /\ ~Found(rs, SameRegion)
    BY <1>4 DEF Outcome
  <2>3. BySignature(1, rs) = {}
    BY <2>1, <2>2 DEF BySignature, Found, SameSignature
  <2>4. ByRegion(1, rs) = {}
    BY <2>1, <2>2 DEF ByRegion, Found, SameRegion, Within
  <2>5. RemainsAs(1, rs) = {}
    BY <2>3, <2>4 DEF RemainsAs
  <2>6. QED
    BY <2>1, <2>5, RemainsFew
<1>5. ASSUME ~resolved PROVE m + n > 0
  <2>1. PICK j \in DOMAIN rs : TRUE
    BY <1>5 DEF Outcome, Found
  <2>2. CASE j \in NewIn(rs)
    BY <1>1, <1>2, <2>2
  <2>3. CASE j \notin NewIn(rs)
    <3>1. PICK i \in DOMAIN before : j \in BySignature(i, rs) \cup ByRegion(i, rs)
      BY <2>1, <2>3 DEF NewIn
    <3>2. RemainsAs(i, rs) # {}
      BY <3>1 DEF RemainsAs
    <3>3. Remaining(rs) # {}
      BY <3>2 DEF Remaining
    <3>4. QED
      BY <1>1, <1>2, <3>3
  <2>4. QED
    BY <2>2, <2>3
<1>6. ASSUME Len(before) = 0 PROVE Target.rows # 0 /\ ~reduced
  <2>1. before = <<>>
    BY <1>6, EmptyReport
  <2>2. Target.rows = Unknown
    BY <2>1 DEF Target, Dummy
  <2>3. QED
    BY <2>2 DEF Unknown, Reduced
<1>7. StatusAfter(rs) = Phases!DetermineStatus(resolved, Target.rows = 0, reduced, n)
  <2>1. n > 0 <=> NewIn(rs) # {}
    BY <1>1, <1>2
  <2>2. QED
    BY <2>1 DEF StatusAfter, Phases!DetermineStatus
<1>8. QED
  BY <1>3, <1>4, <1>5, <1>6, <1>7

(* A result that is being saved, or was returned, is a refusal, or what    *)
(* compare_context makes of the two reports beside it.                     *)
Refused ==
  /\ result.status \in {"CANDIDATE_REJECTED", "EXECUTION_FAILED"}
  /\ result.remaining = Len(before) /\ result.new = 0

Compared ==
  /\ result.status = StatusAfter(after)
  /\ result.remaining = Cardinality(Remaining(after))
  /\ result.new = Cardinality(NewIn(after))

Explained == pc \in {"save", "told"} => result.original = Len(before) /\ (Refused \/ Compared)

(* Nothing touches the reports once the result is made of them.            *)
LEMMA StepExplains == ASSUME Explained, [Next]_vars PROVE Explained'
<1>1. CASE pc' \notin {"save", "told"}
  BY <1>1 DEF Explained
<1>2. ASSUME UNCHANGED <<before, after, result>>, pc \in {"save", "told"} PROVE Explained'
  <2>1. Refused' <=> Refused
    BY <1>2 DEF Refused
  <2>2. Compared' <=> Compared
    BY <1>2 DEF Compared, StatusAfter, NewIn, Remaining, Outcome, Found, FirstOf, SameSignature,
                SameRegion, Equivalent, Target, BySignature, ByRegion, RemainsAs
  <2>3. QED
    BY <1>2, <2>1, <2>2 DEF Explained
<1>3. ASSUME NEW status \in {"CANDIDATE_REJECTED", "EXECUTION_FAILED"}, Refuse(status)
      PROVE  Explained'
  BY <1>3 DEF Refuse, Result, Explained, Refused
<1>4. ASSUME NEW a \in Report, Compare(a), ~Subtracts(a) PROVE Explained'
  <2>1. /\ after' = a /\ before' = before
        /\ result' = Result(StatusAfter(a), Cardinality(Remaining(a)), Cardinality(NewIn(a)),
                            Target.rows, Outcome(a).rows)
    BY <1>4 DEF Compare
  <2>2. /\ StatusAfter(after)' = StatusAfter(a)
        /\ Remaining(after)' = Remaining(a) /\ NewIn(after)' = NewIn(a)
    BY <2>1 DEF StatusAfter, NewIn, Remaining, Outcome, Found, FirstOf, SameSignature,
                SameRegion, Equivalent, Target, BySignature, ByRegion, RemainsAs
  <2>3. QED
    BY <2>1, <2>2 DEF Explained, Compared, Result
<1>5. QED
  BY <1>1, <1>2, <1>3, <1>4 DEF Next, vars, verificationVars, Diagnose, Begin, RejectCandidate,
     AcceptCandidate, FailExecution, Execute, DatasetUnresolved, DatasetChanged, Compare,
     SaveResult, Crash, Switch

(* A step of the verification shows nothing, or makes it return or raise.  *)
LEMMA OnePhaseStep ==
  ASSUME TypeOK, Explained, [Next]_vars
  PROVE  [\/ \E v \in VerificationStatus : Phases!RejectRepair(v, result.original)
          \/ Phases!CompareRepair("EXACT", "NOT_RUN", result.original,
               Outcome(after).status = "RESOLVED", Target.rows = 0,
               Outcome(after).status = "PERSISTS" /\ Reduced(Target.rows, Outcome(after).rows),
               result.remaining, result.new)
          \/ Phases!PhaseRaises]_(Phases!vars)
<1> DEFINE Raised == pc = "raised" /\ entry = "pipeline"
<1>1. ASSUME ~Returned, ~Returned', Raised' <=> Raised PROVE UNCHANGED Phases!vars
  BY <1>1 DEF Phases!vars, Returned
<1>2. ASSUME ~Returned, ~Returned', ~Raised, Raised' PROVE Phases!PhaseRaises
  BY <1>2 DEF Phases!PhaseRaises, Phases!Running, Returned
<1>3. ASSUME UNCHANGED <<pc, entry, result>> PROVE UNCHANGED Phases!vars
  BY <1>3 DEF Phases!vars, Returned
<1>4. CASE \/ RejectCandidate \/ AcceptCandidate \/ FailExecution \/ Execute
           \/ DatasetUnresolved \/ DatasetChanged
           \/ (\E a \in Report : Compare(a))
           \/ (\E e \in {"pipeline", "api"}, b \in Report : Begin(e, b))
  <2>1. pc \notin {"told", "raised"} /\ pc' # "told"
    BY <1>4 DEF RejectCandidate, AcceptCandidate, FailExecution, Refuse, Execute,
                DatasetUnresolved, DatasetChanged, Compare, Begin
  <2>2. QED
    BY <1>1, <1>2, <2>1 DEF Returned
<1>5. CASE Diagnose \/ Switch \/ UNCHANGED vars
  BY <1>3, <1>5 DEF Diagnose, Switch, verificationVars, vars
<1>6. CASE Crash
  <2>1. CASE pc \in {"told", "raised"}
    BY <1>3, <1>6, <2>1 DEF Crash
  <2>2. CASE pc \notin {"told", "raised"}
    <3>1. pc' = "idle"
      BY <1>6, <2>2 DEF Crash
    <3>2. QED
      BY <1>1, <2>2, <3>1 DEF Returned
  <2>3. QED
    BY <2>1, <2>2
<1>7. CASE SaveResult
  <2>0. pc = "save" /\ pc' \in {"told", "raised"} /\ UNCHANGED <<entry, before, after, result>>
    BY <1>7 DEF SaveResult
  <2>1. CASE entry # "pipeline" \/ pc' = "raised"
    BY <1>1, <1>2, <2>0, <2>1 DEF Returned
  <2>2. ASSUME entry = "pipeline", pc' = "told"
        PROVE  \/ \E v \in VerificationStatus : Phases!RejectRepair(v, result.original)
               \/ Phases!CompareRepair("EXACT", "NOT_RUN", result.original,
                    Outcome(after).status = "RESOLVED", Target.rows = 0,
                    Outcome(after).status = "PERSISTS"
                      /\ Reduced(Target.rows, Outcome(after).rows),
                    result.remaining, result.new)
    <3>0. ~Returned /\ Returned' /\ ~Raised /\ ~Raised'
      BY <2>0, <2>2 DEF Returned
    <3>1. result.original = Len(before) /\ (Refused \/ Compared)
      BY <2>0 DEF Explained
    <3>2. CASE Refused
      <4>1. /\ result.status \in {"CANDIDATE_REJECTED", "EXECUTION_FAILED"}
            /\ result.remaining = result.original /\ result.new = 0
        BY <3>1, <3>2 DEF Refused
      <4>2. [NoEvidence EXCEPT !.ver = result.status, !.remaining = result.remaining,
                               !.new = result.new]
              = [NoEvidence EXCEPT !.ver = result.status, !.remaining = result.original]
        <5>1. NoEvidence = [f \in DOMAIN NoEvidence |-> NoEvidence[f]] /\ NoEvidence.new = 0
          BY DEF NoEvidence
        <5>2. QED
          BY <4>1, <5>1
      <4>3. Phases!RejectRepair(result.status, result.original)
        BY <2>0, <3>0, <4>1, <4>2 DEF Phases!RejectRepair, Phases!Running, Phases!Halt
      <4>4. QED
        BY <4>1, <4>3 DEF VerificationStatus
    <3>3. CASE Compared
      <4>0. after \in Report /\ before \in Report
        BY DEF TypeOK
      <4> DEFINE resolved == Outcome(after).status = "RESOLVED"
                 reduced == Outcome(after).status = "PERSISTS"
                              /\ Reduced(Target.rows, Outcome(after).rows)
      <4>1. /\ result.remaining <= result.original
            /\ resolved /\ result.original > 0 => result.remaining < result.original
            /\ ~resolved => result.remaining + result.new > 0
            /\ reduced => ~resolved
            /\ result.original = 0 => Target.rows # 0 /\ ~reduced
            /\ result.status = Phases!DetermineStatus(resolved, Target.rows = 0, reduced, result.new)
        BY <3>1, <3>3, <4>0, CountsAllowed DEF Compared
      <4>2. result.status \notin {"CANDIDATE_REJECTED", "EXECUTION_FAILED"}
        BY <3>3 DEF Compared, StatusAfter
      <4> HIDE DEF resolved, reduced
      <4>3. Phases!CompareRepair("EXACT", "NOT_RUN", result.original, resolved, Target.rows = 0,
                                 reduced, result.remaining, result.new)
        BY <2>0, <3>0, <4>1, <4>2 DEF Phases!CompareRepair, Phases!Running, Phases!Halt
      <4>4. QED
        BY <4>3 DEF resolved, reduced
    <3>4. QED
      BY <3>1, <3>2, <3>3
  <2>3. QED
    BY <2>0, <2>1, <2>2
<1>8. QED
  BY <1>4, <1>5, <1>6, <1>7 DEF Next

(* Whatever the reports, the outages and the restarts: a verification of   *)
(* the pipeline rejects, compares or raises as the phases reckon with.     *)
THEOREM VerificationsAreOnePhase == Spec => VerificationIsOnePhase
<1>1. Init => Explained
  BY DEF Init, Explained
<1>2. TypeOK /\ Explained /\ [Next]_vars
        => [\/ \E v \in VerificationStatus : Phases!RejectRepair(v, result.original)
            \/ Phases!CompareRepair("EXACT", "NOT_RUN", result.original,
                 Outcome(after).status = "RESOLVED", Target.rows = 0,
                 Outcome(after).status = "PERSISTS" /\ Reduced(Target.rows, Outcome(after).rows),
                 result.remaining, result.new)
            \/ Phases!PhaseRaises]_(Phases!vars)
  BY OnePhaseStep
<1>3. QED
  BY <1>1, <1>2, StepExplains, RepairTypeCorrect, PTL DEF Spec, VerificationIsOnePhase
------------------------------------------------------------------------------
(* What is left to do of a diagnosis, a verification, the process's one    *)
(* restart, which may undo a verification, and the database's outages.     *)
DiagnosisLeft(c) == IF c = "ask" THEN 2 ELSE IF c = "save" THEN 1 ELSE 0

VerificationLeft(p) ==
  IF p = "idle" THEN 5 ELSE IF p = "check" THEN 4 ELSE IF p = "execute" THEN 3
  ELSE IF p = "compare" THEN 2 ELSE IF p = "save" THEN 1 ELSE 0

RestartLeft(l) == IF l THEN 6 ELSE 0

OutagesLeft(u, o) == 2 * (MaxOutages - o) + (IF u THEN 0 ELSE 1)

TurnsLeft ==
  DiagnosisLeft(call) + VerificationLeft(pc) + RestartLeft(live) + OutagesLeft(up, outages)

(* The parts are numbers.                                                  *)
LEMMA TurnsAreNumbers ==
  /\ \A c : DiagnosisLeft(c) \in 0..2
  /\ \A p : VerificationLeft(p) \in 0..5
  /\ \A l : RestartLeft(l) \in {0, 6}
  /\ \A u, o : o \in 0..MaxOutages => OutagesLeft(u, o) \in Nat
<1>1. MaxOutages \in Nat
  BY ProposalAssumption
<1>2. QED
  BY <1>1 DEF DiagnosisLeft, VerificationLeft, RestartLeft, OutagesLeft

(* A sum of four falls when one part falls and none rises, or when a 6     *)
(* falls to 0 and another rises by 5 at most.                              *)
LEMMA SumFalls ==
  ASSUME NEW d \in Int, NEW v \in Int, NEW r \in Int, NEW o \in Int,
         NEW d1 \in Int, NEW v1 \in Int, NEW r1 \in Int, NEW o1 \in Int,
         o1 <= o, d1 <= d,
         \/ v1 <= v /\ r1 <= r /\ (d1 < d \/ v1 < v \/ o1 < o)
         \/ v1 <= 5 /\ v >= 0 /\ r = 6 /\ r1 = 0
  PROVE  d1 + v1 + r1 + o1 < d + v + r + o
OBVIOUS

(* Every step uses up something that no other step gives back, but for the *)
(* restart, which counts more than the verification it undoes.             *)
LEMMA StepUsesTurn ==
  ASSUME TypeOK, TypeOK', Next PROVE TurnsLeft' < TurnsLeft
<1> DEFINE d == DiagnosisLeft(call)      v == VerificationLeft(pc)
           r == RestartLeft(live)        o == OutagesLeft(up, outages)
<1>0. d \in 0..2 /\ v \in 0..5 /\ r \in {0, 6} /\ o \in Nat
  BY TurnsAreNumbers DEF TypeOK, ProposalTypeOK
<1>i. d \in Int /\ v \in Int /\ r \in Int /\ o \in Int /\ v >= 0
  <2> HIDE DEF d, v, r, o
  <2> QED  BY <1>0
<1>00. d' \in 0..2 /\ v' \in 0..5 /\ r' \in {0, 6} /\ o' \in Nat
  BY TurnsAreNumbers DEF TypeOK, ProposalTypeOK
<1>ii. d' \in Int /\ v' \in Int /\ r' \in Int /\ o' \in Int /\ v' <= 5
  <2> HIDE DEF d, v, r, o
  <2> QED  BY <1>00
<1>s. TurnsLeft = d + v + r + o /\ TurnsLeft' = d' + v' + r' + o'
  BY DEF TurnsLeft
<1> HIDE DEF d, v, r, o
<1>f. ASSUME o' <= o, d' <= d,
             \/ v' <= v /\ r' <= r /\ (d' < d \/ v' < v \/ o' < o)
             \/ v' <= 5 /\ v >= 0 /\ r = 6 /\ r' = 0
      PROVE  TurnsLeft' < TurnsLeft
  <2>1. d' + v' + r' + o' < d + v + r + o
    BY <1>f, <1>i, <1>ii, SumFalls, Zenon
  <2>2. QED
    BY <1>s, <2>1, Zenon
<1>1. CASE Diagnose
  <2>1. \/ call = "ask" /\ call' = "save"
        \/ call = "save" /\ call' \in {"told", "raised"}
    BY <1>1 DEF Diagnose, ProposalNext, ProviderFails, RejectUngrounded, Withhold, Propose, Save,
                Persist
  <2>2. UNCHANGED <<pc, live, up, outages>>
    BY <1>1 DEF Diagnose, verificationVars, ProposalNext, ProviderFails, RejectUngrounded,
                Withhold, Propose, Save, Persist
  <2>3. d' < d
    BY <2>1 DEF d, DiagnosisLeft
  <2>4. v' = v /\ r' = r /\ o' = o
    BY <2>2 DEF v, r, o
  <2>5. QED
    BY <1>i, <1>ii, <1>f, <2>3, <2>4
<1>2. CASE \/ \E e \in {"pipeline", "api"}, b \in Report : Begin(e, b)
           \/ RejectCandidate \/ AcceptCandidate
           \/ FailExecution \/ Execute \/ DatasetUnresolved \/ DatasetChanged
           \/ (\E a \in Report : Compare(a)) \/ SaveResult
  <2>1. /\ \/ pc = "idle" /\ pc' \in {"check", "raised"}
           \/ pc = "check" /\ pc' \in {"execute", "save"}
           \/ pc = "execute" /\ pc' \in {"compare", "save", "raised"}
           \/ pc = "compare" /\ pc' \in {"save", "raised"}
           \/ pc = "save" /\ pc' \in {"told", "raised"}
        /\ UNCHANGED <<call, live, up, outages>>
    BY <1>2 DEF Begin, RejectCandidate, AcceptCandidate, FailExecution, Execute,
                DatasetUnresolved, DatasetChanged, Compare, SaveResult, Refuse, proposalVars
  <2>2. v' < v
    BY <2>1 DEF v, VerificationLeft
  <2>3. d' = d /\ r' = r /\ o' = o
    BY <2>1 DEF d, r, o
  <2>4. QED
    BY <1>i, <1>ii, <1>f, <2>2, <2>3
<1>3. CASE Crash
  <2>1. /\ live /\ live' = FALSE /\ UNCHANGED <<up, outages>>
        /\ call' = call \/ call' = "lost"
    BY <1>3 DEF Crash, Restart
  <2>2. r = 6 /\ r' = 0
    BY <2>1, Zenon DEF r, RestartLeft
  <2>3. o' = o
    BY <2>1 DEF o
  <2>4. d' <= d
    <3>1. CASE call' = call
      BY <1>0, <3>1 DEF d
    <3>2. CASE call' = "lost"
      BY <1>0, <3>2 DEF d, DiagnosisLeft
    <3>3. QED
      BY <2>1, <3>1, <3>2
  <2>5. QED
    BY <1>i, <1>ii, <1>f, <2>2, <2>3, <2>4
<1>4. CASE Switch
  <2>1. UNCHANGED <<call, pc, live>>
    BY <1>4 DEF Switch, SwitchDatabase, verificationVars
  <2>2. d' = d /\ v' = v /\ r' = r
    BY <2>1 DEF d, v, r
  <2>3. outages \in Nat /\ MaxOutages \in Nat
    BY ProposalAssumption DEF TypeOK, ProposalTypeOK
  <2>4. o' < o
    <3>1. CASE DatabaseFails
      <4>1. up /\ up' = FALSE
        BY <3>1, Zenon DEF DatabaseFails
      <4>2. outages' = outages + 1
        BY <3>1 DEF DatabaseFails
      <4>3. o = 2 * (MaxOutages - outages) + 0 /\ o' = 2 * (MaxOutages - outages') + 1
        BY <4>1, Zenon DEF o, OutagesLeft
      <4>4. QED
        BY <2>3, <4>2, <4>3
    <3>2. CASE DatabaseRecovers
      <4>1. ~up /\ up' = TRUE /\ outages' = outages
        BY <3>2, Zenon DEF DatabaseRecovers
      <4>2. o = 2 * (MaxOutages - outages) + 1 /\ o' = 2 * (MaxOutages - outages) + 0
        BY <4>1, Zenon DEF o, OutagesLeft
      <4>3. QED
        BY <2>3, <4>2
    <3>3. QED
      BY <1>4, <3>1, <3>2 DEF Switch, SwitchDatabase
  <2>5. QED
    BY <1>i, <1>ii, <1>f, <2>2, <2>4
<1>5. QED
  BY <1>1, <1>2, <1>3, <1>4 DEF Next

(* Nothing of a diagnosis and its verification goes round: outages, a      *)
(* restart and the verification asked for again included, every step       *)
(* brings both nearer to the end.                                          *)
THEOREM VerificationRunsDown == Spec => [][TurnsLeft' < TurnsLeft]_vars
<1>1. TypeOK /\ TypeOK' /\ [Next]_vars => [TurnsLeft' < TurnsLeft]_vars
  BY StepUsesTurn
<1>2. QED
  BY <1>1, RepairTypeCorrect, PTL DEF Spec
==============================================================================

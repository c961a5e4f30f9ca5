----------------------- MODULE MigrationPipelineProofs -----------------------
(* Types of every interleaving of any number of requests, with any texts,   *)
(* outcomes and faults.                                                     *)
EXTENDS MigrationPipeline, AssuranceDecisionProofs, SequenceTheorems, FiniteSetTheorems

(* Where a request that runs the pipeline holds a source text, where it has *)
(* not chosen a candidate to execute yet, and where an edit resets.         *)
SourceLabels == {"insertSource", "commitSource", "createRecord", "resolveSource",
                 "sourcePreflight", "translate"}
ResetLabels  == {"readReport", "resetReport", "resetRecord"}
ExecuteLabels ==
  {"loadSource", "rebuildTranslation", "runPhases", "checkLineage", "decide",
   "saveReport", "saveRecord", "blockReport", "blockRecord"}

(* What a request at label l, of kind k, with locals x relies on; ns and nc *)
(* are the lengths of the version tables.                                   *)
LocalOK(recorded, ns, nc, l, k, x) ==
  /\ l \notin {"idle", "createRecord", "done"} => recorded
  /\ l \in SourceLabels => x.text \in Sources /\ k # "edit_candidate"
  /\ l \in ResetLabels /\ k = "edit_source" => x.text \in Sources
  /\ l \in {"sourcePreflight", "translate"} => x.row \in 1..ns
  /\ l \in {"insertCandidate", "commitCandidate"}
       => IF k = "edit_candidate" THEN x.text \in Targets ELSE x.tr.sql \in Targets
  /\ l = "commitSource" => x.seen \in 0..ns
  /\ l = "commitCandidate" => x.seen \in 0..nc
  /\ l = "candidatePreflight" => x.cand \in 1..nc

Locality ==
  \A r \in Requests :
    LocalOK(record # None, Len(sources), Len(candidates), pc[r], kind[r], loc[r])

(* Every prefix of a version table has a latest version: what "order by     *)
(* version desc" needs to find one.                                         *)
HasLatest(rows) ==
  \A n \in 1..Len(rows) :
    \E i \in 1..n : \A j \in 1..n : rows[j].version <= rows[i].version

TypeInv == TypeOK /\ Locality /\ HasLatest(sources) /\ HasLatest(candidates)
------------------------------------------------------------------------------
(* Version tables.                                                          *)

Cleared(x) == [x EXCEPT !.active = FALSE]

(* Deactivating the first n rows clears them and changes nothing else.      *)
LEMMA DeactivatedRows ==
  ASSUME NEW Row, \A x \in Row : Cleared(x) \in Row,
         NEW rows \in Seq(Row), NEW n \in Nat
  PROVE  /\ Deactivated(rows, n) \in Seq(Row)
         /\ Len(Deactivated(rows, n)) = Len(rows)
         /\ \A i \in 1..Len(rows) :
              Deactivated(rows, n)[i]
                = IF i <= n THEN Cleared(rows[i]) ELSE rows[i]
<1>1. rows \in [1..Len(rows) -> Row] /\ DOMAIN rows = 1..Len(rows) /\ Len(rows) \in Nat
  BY LenProperties
<1>2. Deactivated(rows, n) \in [1..Len(rows) -> Row]
  BY <1>1 DEF Deactivated, Cleared
<1>3. Deactivated(rows, n) \in Seq(Row)
  BY <1>1, <1>2, SeqDef
<1>4. Len(Deactivated(rows, n)) = Len(rows)
  <2>1. DOMAIN Deactivated(rows, n) = 1..Len(Deactivated(rows, n))
        /\ Len(Deactivated(rows, n)) \in Nat
    BY <1>3, LenProperties
  <2>2. DOMAIN Deactivated(rows, n) = 1..Len(rows)
    BY <1>2
  <2>3. \A k \in Nat : k \in 1..Len(Deactivated(rows, n)) <=> k \in 1..Len(rows)
    BY <2>1, <2>2
  <2>4. Len(Deactivated(rows, n)) <= Len(rows)
    BY <1>1, <2>1, <2>3
  <2>5. Len(rows) <= Len(Deactivated(rows, n))
    BY <1>1, <2>1, <2>3
  <2>6. \A a, b \in Nat : a <= b /\ b <= a => a = b
    OBVIOUS
  <2>7. Len(rows) \in Nat /\ Len(Deactivated(rows, n)) \in Nat
    BY <1>1, <2>1
  <2> QED  BY ONLY <2>4, <2>5, <2>6, <2>7, Zenon
<1> QED  BY <1>1, <1>3, <1>4 DEF Deactivated, Cleared

(* The latest version is found, and the next one is above all.              *)
LEMMA NextVersionIsNew ==
  ASSUME NEW Row, \A x \in Row : x.version \in Nat,
         NEW rows \in Seq(Row), HasLatest(rows), NEW n \in 0..Len(rows)
  PROVE  /\ NextVersion(rows, n) \in Nat
         /\ \A i \in 1..n : rows[i].version < NextVersion(rows, n)
<1>1. CASE n = 0
  BY <1>1 DEF NextVersion
<1>2. CASE n # 0
  <2> DEFINE V == {rows[i].version : i \in 1..n}
             v == CHOOSE w \in V : \A i \in 1..n : rows[i].version <= w
  <2>1. Len(rows) \in Nat /\ n \in 1..Len(rows)
    BY <1>2, LenProperties
  <2>2. \A i \in 1..n : rows[i].version \in Nat
    BY <2>1, ElementOfSeq
  <2>3. \E w \in V : \A i \in 1..n : rows[i].version <= w
    BY <2>1 DEF HasLatest
  <2>4. v \in V /\ \A i \in 1..n : rows[i].version <= v
    BY <2>3
  <2>5. v \in Nat
    BY <2>2, <2>4
  <2>6. NextVersion(rows, n) = 1 + v
    BY <1>2 DEF NextVersion
  <2> HIDE DEF v, V
  <2> QED  BY <2>2, <2>4, <2>5, <2>6
<1> QED  BY <1>1, <1>2

(* A committed version: the rows seen are deactivated, one row is added.    *)
Committed(rows, n, row) == Append(Deactivated(rows, n), row)

(* A committed version is the last row, the rows its transaction saw are    *)
(* cleared, and the table still has a latest version.                       *)
LEMMA CommittedRows ==
  ASSUME NEW Row,
         \A x \in Row : Cleared(x) \in Row,
         \A x \in Row : Cleared(x).version = x.version,
         \A x \in Row : x.version \in Nat,
         NEW rows \in Seq(Row), HasLatest(rows), NEW n \in Nat, NEW row \in Row
  PROVE  /\ Committed(rows, n, row) \in Seq(Row)
         /\ Len(Committed(rows, n, row)) = Len(rows) + 1
         /\ Committed(rows, n, row)[Len(rows) + 1] = row
         /\ \A i \in 1..Len(rows) :
              Committed(rows, n, row)[i]
                = IF i <= n THEN Cleared(rows[i]) ELSE rows[i]
         /\ HasLatest(Committed(rows, n, row))
<1> DEFINE old == Deactivated(rows, n)
           new == Append(old, row)
<1>1. Len(rows) \in Nat
  BY LenProperties
<1>2. /\ old \in Seq(Row) /\ Len(old) = Len(rows)
      /\ \A i \in 1..Len(rows) :
           old[i] = IF i <= n THEN Cleared(rows[i]) ELSE rows[i]
  BY DeactivatedRows
<1> HIDE DEF old
<1>3. /\ new \in Seq(Row) /\ Len(new) = Len(rows) + 1 /\ new[Len(rows) + 1] = row
      /\ \A i \in 1..Len(rows) : new[i] = old[i]
  BY <1>1, <1>2
<1> HIDE DEF new
<1>4. \A i \in 1..Len(rows) : new[i].version = rows[i].version /\ rows[i].version \in Nat
  <2> TAKE i \in 1..Len(rows)
  <2>1. rows[i] \in Row
    BY ElementOfSeq
  <2> QED  BY <1>2, <1>3, <2>1
<1>5. HasLatest(new)
  <2> SUFFICES ASSUME NEW m \in 1..Len(rows) + 1
               PROVE  \E i \in 1..m : \A j \in 1..m : new[j].version <= new[i].version
    BY <1>3 DEF HasLatest
  <2>1. CASE m \in 1..Len(rows)
    <3>1. PICK i \in 1..m : \A j \in 1..m : rows[j].version <= rows[i].version
      BY <2>1 DEF HasLatest
    <3>2. \A j \in 1..m : j \in 1..Len(rows)
      BY <1>1, <2>1
    <3> QED  BY <1>4, <3>1, <3>2
  <2>2. CASE m = Len(rows) + 1 /\ Len(rows) = 0
    <3>1. \A j \in 1..m : j = 1
      BY <2>2
    <3>2. new[1].version <= new[1].version
      <4>1. new[1] = row
        BY <1>3, <2>2
      <4>2. row.version \in Nat
        OBVIOUS
      <4> QED  BY <4>1, <4>2
    <3>3. 1 \in 1..m
      BY <2>2
    <3> QED  BY <3>1, <3>2, <3>3
  <2>3. CASE m = Len(rows) + 1 /\ Len(rows) # 0
    <3>0. Len(rows) \in 1..Len(rows)
      BY <1>1, <2>3
    <3>1. PICK i \in 1..Len(rows) :
                 \A j \in 1..Len(rows) : rows[j].version <= rows[i].version
      BY <3>0 DEF HasLatest
    <3>2. row.version \in Nat /\ new[m].version = row.version
      <4>1. new[m] = row
        BY <1>3, <2>3
      <4>2. row.version \in Nat
        OBVIOUS
      <4> QED  BY <4>1, <4>2
    <3>3. \A j \in 1..m : j \in 1..Len(rows) \/ j = m
      BY <1>1, <2>3
    <3>4. i \in 1..m /\ m \in 1..m
      BY <1>1, <2>3
    <3>5. CASE rows[i].version <= row.version
      <4>1. ASSUME NEW j \in 1..m
            PROVE  new[j].version <= new[m].version
        <5>1. CASE j = m
          BY <3>2, <5>1
        <5>2. CASE j \in 1..Len(rows)
          <6>1. rows[j].version <= rows[i].version /\ new[j].version = rows[j].version
                /\ rows[j].version \in Nat /\ rows[i].version \in Nat
            BY <1>4, <3>1, <5>2
          <6> QED  BY <3>2, <3>5, <6>1
        <5> QED  BY <3>3, <5>1, <5>2
      <4> QED  BY <3>4, <4>1
    <3>6. CASE ~(rows[i].version <= row.version)
      <4>1. ASSUME NEW j \in 1..m
            PROVE  new[j].version <= new[i].version
        <5>1. new[i].version = rows[i].version /\ rows[i].version \in Nat
          BY <1>4
        <5>2. CASE j = m
          BY <3>2, <3>6, <5>1, <5>2
        <5>3. CASE j \in 1..Len(rows)
          <6>1. rows[j].version <= rows[i].version /\ new[j].version = rows[j].version
            BY <1>4, <3>1, <5>3
          <6> QED  BY <5>1, <6>1
        <5> QED  BY <3>3, <5>2, <5>3
      <4> QED  BY <3>4, <4>1
    <3> QED  BY <3>5, <3>6
  <2>4. m \in 1..Len(rows) \/ m = Len(rows) + 1
    BY <1>1
  <2> QED  BY <2>1, <2>2, <2>3, <2>4
<1>6. new = Committed(rows, n, row)
  BY DEF new, old, Committed
<1> QED  BY <1>2, <1>3, <1>5, <1>6
------------------------------------------------------------------------------
(* Types.                                                                   *)

(* Source rows stay source rows, of the same version, when cleared.         *)
LEMMA SourceRowFacts ==
  /\ \A x \in SourceRow : Cleared(x) \in SourceRow
  /\ \A x \in SourceRow : Cleared(x).version = x.version
  /\ \A x \in SourceRow : x.version \in Nat
BY DEF SourceRow, Cleared

(* Candidate rows stay candidate rows, of the same version, when cleared.   *)
LEMMA CandidateRowFacts ==
  /\ \A x \in CandidateRow : Cleared(x) \in CandidateRow
  /\ \A x \in CandidateRow : Cleared(x).version = x.version
  /\ \A x \in CandidateRow : x.version \in Nat
BY DEF CandidateRow, Cleared

(* A missing translation is a translation value.                            *)
LEMMA NoTranslationType == NoTranslation \in Translation
BY DEF NoTranslation, Translation, TranslationError

(* The blank report is a report.                                            *)
LEMMA NoReportType == NoReport \in Report
BY NoEvidenceType, NoTranslationType DEF NoReport, Report, MigrationFinalStatus

(* A request starts with well-typed locals.                                 *)
LEMMA NoLocalsType == NoLocals \in Locals
BY NoEvidenceType, NoTranslationType, NoReportType DEF NoLocals, Locals

(* Whether a translation brought SQL may be set in any evidence.            *)
LEMMA WithSqlType ==
  ASSUME NEW d \in EvidenceSpace, NEW b \in BOOLEAN
  PROVE  [d EXCEPT !.trSql = b] \in EvidenceSpace
BY DEF EvidenceSpace

(* The translation fields may be set in any evidence.                       *)
LEMMA WithTranslationType ==
  ASSUME NEW e \in EvidenceSpace, NEW t \in Translation
  PROVE  WithTranslation(e, t) \in EvidenceSpace
<1>1. [e EXCEPT !.trStatus = t.status] \in EvidenceSpace
  BY DEF EvidenceSpace, Translation
<1>2. \A d \in EvidenceSpace : [d EXCEPT !.trValid = t.valid] \in EvidenceSpace
  BY DEF EvidenceSpace, Translation
<1>3. \A d \in EvidenceSpace : [d EXCEPT !.trSql = (t.sql # None)] \in EvidenceSpace
  BY WithSqlType
<1>4. \A d \in EvidenceSpace : [d EXCEPT !.trError = t.error] \in EvidenceSpace
  BY DEF EvidenceSpace, Translation
<1> QED  BY <1>1, <1>2, <1>3, <1>4 DEF WithTranslation

(* Whatever a request remembers, the evaluation builds a report.            *)
LEMMA VerdictType ==
  ASSUME NEW x \in Locals
  PROVE  Verdict(x) \in Report
<1>1. /\ x.tr \in Translation /\ x.old \in Report /\ x.ev \in EvidenceSpace
      /\ x.cand \in Nat /\ x.src \in Sources \cup {None} /\ x.tgt \in Targets \cup {None}
  BY DEF Locals
<1>2. x.old.tr \in Translation /\ x.old.cand \in Nat
  BY <1>1 DEF Report
<1>3. \A t \in Translation : [t EXCEPT !.error = "NONE"] \in Translation
  BY DEF Translation, TranslationError
<1>4. EffectiveTranslation(x) \in Translation
  BY <1>1, <1>2, <1>3 DEF EffectiveTranslation
<1>5. WithTranslation(x.ev, EffectiveTranslation(x)) \in EvidenceSpace
  BY <1>1, <1>4, WithTranslationType
<1>6. FinalStatus(WithTranslation(x.ev, EffectiveTranslation(x))) \in MigrationFinalStatus
  BY FinalStatusType
<1> QED  BY <1>1, <1>2, <1>4, <1>5, <1>6 DEF Verdict, Report

(* The source a request resolves is a source text.                          *)
LEMMA ActiveSourceTextsType ==
  ASSUME TypeOK, record # None
  PROVE  ActiveSourceTexts \subseteq Sources
<1>1. record.hash \in Sources
  BY DEF TypeOK, Record
<1>2. \A i \in DOMAIN sources : sources[i].text \in Sources
  <2>1. \A i \in 1..Len(sources) : sources[i] \in SourceRow
    BY ElementOfSeq DEF TypeOK
  <2>2. DOMAIN sources = 1..Len(sources)
    BY LenProperties DEF TypeOK
  <2> QED  BY <2>1, <2>2 DEF SourceRow
<1> QED  BY <1>1, <1>2 DEF ActiveSourceTexts, Active

(* One request moves to label l with locals x, which must satisfy what that *)
(* label relies on; the tables only grow and the record is never removed.   *)
LEMMA Move ==
  ASSUME TypeInv, NEW r \in Requests, NEW l \in Labels, NEW x \in Locals, Goto(r, l, x),
         record' \in Record \cup {None}, report' \in Report \cup {None},
         sources' \in Seq(SourceRow), candidates' \in Seq(CandidateRow),
         HasLatest(sources)', HasLatest(candidates)',
         kind' \in [Requests -> Kinds], faults' \in Nat,
         \A q \in Requests : q # r => kind'[q] = kind[q],
         record # None => record' # None,
         Len(sources) <= Len(sources'), Len(candidates) <= Len(candidates'),
         LocalOK(record' # None, Len(sources'), Len(candidates'), l, kind'[r], x)
  PROVE  TypeInv'
<1>1. pc \in [Requests -> Labels] /\ loc \in [Requests -> Locals]
  BY DEF TypeInv, TypeOK
<1>2. TypeOK'
  BY <1>1 DEF TypeOK, Goto
<1>3. /\ Len(sources) \in Nat /\ Len(sources') \in Nat
      /\ Len(candidates) \in Nat /\ Len(candidates') \in Nat
  BY LenProperties DEF TypeInv, TypeOK
<1>4. ASSUME NEW q \in Requests
      PROVE  LocalOK(record' # None, Len(sources'), Len(candidates'), pc'[q], kind'[q], loc'[q])
  <2>1. CASE q = r
    BY <1>1, <2>1 DEF Goto
  <2>2. CASE q # r
    <3>1. pc'[q] = pc[q] /\ loc'[q] = loc[q] /\ kind'[q] = kind[q]
      BY <1>1, <2>2 DEF Goto
    <3>2. LocalOK(record # None, Len(sources), Len(candidates), pc[q], kind[q], loc[q])
      BY DEF TypeInv, Locality
    <3> QED  BY <1>3, <3>1, <3>2 DEF LocalOK
  <2> QED  BY <2>1, <2>2
<1>5. Locality'
  BY <1>4 DEF Locality
<1> QED  BY <1>2, <1>5 DEF TypeInv

(* A step that leaves the tables alone.                                     *)
LEMMA QuietMove ==
  ASSUME TypeInv, NEW r \in Requests, NEW l \in Labels, NEW x \in Locals, Goto(r, l, x),
         UNCHANGED <<record, report, sources, candidates, kind>>, faults' \in Nat,
         LocalOK(record # None, Len(sources), Len(candidates), l, kind[r], x)
  PROVE  TypeInv'
<1>1. Len(sources) \in Nat /\ Len(candidates) \in Nat
  BY LenProperties DEF TypeInv, TypeOK
<1>2. HasLatest(sources)' /\ HasLatest(candidates)'
  BY DEF TypeInv, HasLatest
<1>3. /\ record' \in Record \cup {None} /\ report' \in Report \cup {None}
      /\ sources' \in Seq(SourceRow) /\ candidates' \in Seq(CandidateRow)
      /\ kind' \in [Requests -> Kinds]
  BY DEF TypeInv, TypeOK
<1> QED  BY <1>1, <1>2, <1>3, Move

(* A request may end at any point.                                          *)
LEMMA FinishType ==
  ASSUME TypeInv, NEW r \in Requests, Finish(r),
         UNCHANGED <<record, report, sources, candidates, kind>>, faults' \in Nat
  PROVE  TypeInv'
<1>1. LocalOK(record # None, Len(sources), Len(candidates), "done", kind[r], NoLocals)
  BY DEF LocalOK, SourceLabels, ResetLabels
<1> QED  BY <1>1, NoLocalsType, QuietMove DEF Finish, Labels

(* Past the reads of the orchestrator the locals are relied on for nothing  *)
(* but their types.                                                         *)
FreeLabels == ExecuteLabels \cup {"loadCandidate"}

(* A step that touches no table and goes to a label that relies on nothing  *)
(* in the locals keeps the type invariant.                                  *)
LEMMA FreeMove ==
  ASSUME TypeInv, NEW r \in Requests, NEW l \in FreeLabels, NEW x \in Locals, Goto(r, l, x),
         record # None, UNCHANGED <<record, report, sources, candidates, kind, faults>>
  PROVE  TypeInv'
<1>1. LocalOK(record # None, Len(sources), Len(candidates), l, kind[r], x)
  BY DEF LocalOK, FreeLabels, ExecuteLabels, SourceLabels, ResetLabels
<1>2. l \in Labels /\ faults' \in Nat
  BY DEF FreeLabels, ExecuteLabels, Labels, TypeInv, TypeOK
<1> QED  BY <1>1, <1>2, QuietMove

(* A step that writes one of the version tables.                            *)
LEMMA SourcesMove ==
  ASSUME TypeInv, NEW r \in Requests, NEW l \in Labels, NEW x \in Locals, Goto(r, l, x),
         sources' \in Seq(SourceRow), HasLatest(sources'), Len(sources) <= Len(sources'),
         UNCHANGED <<record, report, candidates, kind, faults>>,
         LocalOK(record # None, Len(sources'), Len(candidates), l, kind[r], x)
  PROVE  TypeInv'
<1>1. Len(candidates) \in Nat
  BY LenProperties DEF TypeInv, TypeOK
<1>2. HasLatest(sources)' /\ HasLatest(candidates)'
  BY DEF TypeInv, HasLatest
<1>3. /\ record' \in Record \cup {None} /\ report' \in Report \cup {None}
      /\ candidates' \in Seq(CandidateRow)
      /\ kind' \in [Requests -> Kinds] /\ faults' \in Nat
  BY DEF TypeInv, TypeOK
<1> QED  BY <1>1, <1>2, <1>3, Move

(* A step that adds or marks candidates keeps the type invariant if the     *)
(* table stays well formed.                                                 *)
LEMMA CandidatesMove ==
  ASSUME TypeInv, NEW r \in Requests, NEW l \in Labels, NEW x \in Locals, Goto(r, l, x),
         candidates' \in Seq(CandidateRow), HasLatest(candidates'),
         Len(candidates) <= Len(candidates'),
         UNCHANGED <<record, report, sources, kind, faults>>,
         LocalOK(record # None, Len(sources), Len(candidates'), l, kind[r], x)
  PROVE  TypeInv'
<1>1. Len(sources) \in Nat
  BY LenProperties DEF TypeInv, TypeOK
<1>2. HasLatest(sources)' /\ HasLatest(candidates)'
  BY DEF TypeInv, HasLatest
<1>3. /\ record' \in Record \cup {None} /\ report' \in Report \cup {None}
      /\ sources' \in Seq(SourceRow)
      /\ kind' \in [Requests -> Kinds] /\ faults' \in Nat
  BY DEF TypeInv, TypeOK
<1> QED  BY <1>1, <1>2, <1>3, Move

(* A step that writes the record or the report.                             *)
LEMMA WriteMove ==
  ASSUME TypeInv, NEW r \in Requests, NEW l \in Labels, NEW x \in Locals, Goto(r, l, x),
         record' \in Record, report' \in Report \cup {None},
         UNCHANGED <<sources, candidates, kind, faults>>,
         LocalOK(TRUE, Len(sources), Len(candidates), l, kind[r], x)
  PROVE  TypeInv'
<1>1. Len(sources) \in Nat /\ Len(candidates) \in Nat
  BY LenProperties DEF TypeInv, TypeOK
<1>2. HasLatest(sources)' /\ HasLatest(candidates)'
  BY DEF TypeInv, HasLatest
<1>3. /\ sources' \in Seq(SourceRow) /\ candidates' \in Seq(CandidateRow)
      /\ kind' \in [Requests -> Kinds] /\ faults' \in Nat
  BY DEF TypeInv, TypeOK
<1>4. record' # None
  BY NoneAssumption
<1>5. LocalOK(record' # None, Len(sources'), Len(candidates'), l, kind'[r], x)
  BY <1>4 DEF LocalOK
<1> QED  BY <1>1, <1>2, <1>3, <1>4, <1>5, Move

(* The type invariant holds at the start.                                   *)
LEMMA TypeInit == Init => TypeInv
<1> SUFFICES ASSUME Init
             PROVE  TypeInv
  OBVIOUS
<1>1. TypeOK
  BY NoLocalsType, EmptySeq DEF Init, TypeOK, Kinds, Labels
<1>2. Locality
  BY DEF Init, Locality, LocalOK, SourceLabels, ResetLabels
<1>3. HasLatest(sources) /\ HasLatest(candidates)
  BY EmptySeq DEF Init, HasLatest
<1> QED  BY <1>1, <1>2, <1>3 DEF TypeInv

(* What the cases below know of the request that moves.                     *)
LEMMA Known ==
  ASSUME TypeInv, NEW r \in Requests
  PROVE  /\ loc[r] \in Locals /\ pc[r] \in Labels /\ kind[r] \in Kinds
         /\ LocalOK(record # None, Len(sources), Len(candidates), pc[r], kind[r], loc[r])
         /\ record \in Record \cup {None} /\ report \in Report \cup {None}
         /\ sources \in Seq(SourceRow) /\ candidates \in Seq(CandidateRow)
         /\ faults \in Nat /\ kind \in [Requests -> Kinds]
         /\ HasLatest(sources) /\ HasLatest(candidates)
         /\ Len(sources) \in Nat /\ Len(candidates) \in Nat
         /\ DOMAIN sources = 1..Len(sources) /\ DOMAIN candidates = 1..Len(candidates)
BY LenProperties DEF TypeInv, TypeOK, Locality

(* A request that arrives keeps the type invariant.                         *)
LEMMA ArriveType ==
  ASSUME TypeInv, NEW r \in Requests, Arrive(r)
  PROVE  TypeInv'
<1> USE PipelineAssumption
<1>1. ASSUME NEW k \in Kinds, NEW l \in Labels, NEW text \in Sources \cup Targets \cup {None},
             Start(r, k, l, text),
             LocalOK(record # None, Len(sources), Len(candidates), l, k,
                     [NoLocals EXCEPT !.text = text])
      PROVE  TypeInv'
  <2>1. [NoLocals EXCEPT !.text = text] \in Locals
    BY NoLocalsType DEF Locals
  <2>2. /\ Goto(r, l, [NoLocals EXCEPT !.text = text])
        /\ kind' \in [Requests -> Kinds] /\ kind'[r] = k
        /\ \A q \in Requests : q # r => kind'[q] = kind[q]
    BY <1>1, Known DEF Start
  <2>3. UNCHANGED <<record, report, sources, candidates, faults>>
    BY <1>1 DEF Start
  <2>4. HasLatest(sources)' /\ HasLatest(candidates)'
    BY <2>3, Known DEF HasLatest
  <2> QED  BY <1>1, <2>1, <2>2, <2>3, <2>4, Known, Move
<1>2. ASSUME NEW s \in Sources, StartRun(r, s)
      PROVE  TypeInv'
  <2>1. Strip[s] \in Sources
    OBVIOUS
  <2>2. LocalOK(record # None, Len(sources), Len(candidates), "createRecord", "run",
                [NoLocals EXCEPT !.text = Strip[s]])
    BY <2>1 DEF LocalOK, SourceLabels, ResetLabels, NoLocals
  <2> QED  BY <1>1, <1>2, <2>1, <2>2 DEF StartRun, Kinds, Labels
<1>3. ASSUME NEW s \in Sources, StartEditSource(r, s)
      PROVE  TypeInv'
  <2>1. LocalOK(record # None, Len(sources), Len(candidates), "insertSource", "edit_source",
                [NoLocals EXCEPT !.text = s])
    BY <1>3 DEF LocalOK, SourceLabels, ResetLabels, NoLocals, StartEditSource
  <2> QED  BY <1>1, <1>3, <2>1 DEF StartEditSource, Kinds, Labels
<1>4. ASSUME NEW t \in Targets, StartEditCandidate(r, t)
      PROVE  TypeInv'
  <2>1. LocalOK(record # None, Len(sources), Len(candidates), "insertCandidate",
                "edit_candidate", [NoLocals EXCEPT !.text = t])
    BY <1>4 DEF LocalOK, SourceLabels, ResetLabels, NoLocals, StartEditCandidate
  <2> QED  BY <1>1, <1>4, <2>1 DEF StartEditCandidate, Kinds, Labels
<1>5. CASE StartExecute(r)
  <2>1. LocalOK(record # None, Len(sources), Len(candidates), "loadCandidate", "execute",
                [NoLocals EXCEPT !.text = None])
    BY <1>5 DEF LocalOK, SourceLabels, ResetLabels, NoLocals, StartExecute
  <2> QED  BY <1>1, <1>5, <2>1 DEF StartExecute, Kinds, Labels
<1> QED  BY <1>2, <1>3, <1>4, <1>5 DEF Arrive

(* A request that dies keeps the type invariant.                            *)
LEMMA CrashType ==
  ASSUME TypeInv, NEW r \in Requests, Crash(r)
  PROVE  TypeInv'
BY Known, FinishType DEF Crash

(* The rows of the source table hold source texts.                          *)
LEMMA SourceText ==
  ASSUME TypeInv, NEW i \in 1..Len(sources)
  PROVE  sources[i] \in SourceRow /\ sources[i].text \in Sources
<1>1. sources[i] \in SourceRow
  BY ElementOfSeq DEF TypeInv, TypeOK
<1> QED  BY <1>1 DEF SourceRow

(* The rows of the candidate table hold target texts.                       *)
LEMMA CandidateText ==
  ASSUME TypeInv, NEW i \in 1..Len(candidates)
  PROVE  candidates[i] \in CandidateRow /\ candidates[i].text \in Targets
<1>1. candidates[i] \in CandidateRow
  BY ElementOfSeq DEF TypeInv, TypeOK
<1> QED  BY <1>1 DEF CandidateRow

(* A row whose preflight is stored keeps its version, and the table its     *)
(* length.                                                                  *)
Marked(x, p) == [x EXCEPT !.preflight = p]
Stored(rows, i, p) == [rows EXCEPT ![i].preflight = p]

(* Storing a preflight verdict changes that row only.                       *)
LEMMA StoredPreflight ==
  ASSUME NEW Row, NEW rows \in Seq(Row), HasLatest(rows), NEW i \in 1..Len(rows), NEW p,
         \A x \in Row : Marked(x, p) \in Row, \A x \in Row : Marked(x, p).version = x.version
  PROVE  /\ Stored(rows, i, p) \in Seq(Row) /\ Len(Stored(rows, i, p)) = Len(rows)
         /\ Stored(rows, i, p)[i] = Marked(rows[i], p)
         /\ \A j \in 1..Len(rows) : j # i => Stored(rows, i, p)[j] = rows[j]
         /\ HasLatest(Stored(rows, i, p))
<1> DEFINE new == Stored(rows, i, p)
           row == Marked(rows[i], p)
<1>1. rows[i] \in Row /\ row \in Row /\ row.version = rows[i].version
  BY ElementOfSeq
<1>2. new = [rows EXCEPT ![i] = row]
  BY DEF Stored, Marked
<1> HIDE DEF new, row
<1>3. /\ new \in Seq(Row) /\ Len(new) = Len(rows)
      /\ \A j \in 1..Len(rows) : new[j] = IF j = i THEN row ELSE rows[j]
  BY <1>1, <1>2, ExceptSeq
<1>4. \A j \in 1..Len(rows) : new[j].version = rows[j].version
  BY <1>1, <1>3
<1>5. HasLatest(new)
  <2> SUFFICES ASSUME NEW m \in 1..Len(rows)
               PROVE  \E k \in 1..m : \A j \in 1..m : new[j].version <= new[k].version
    BY <1>3 DEF HasLatest
  <2>1. PICK k \in 1..m : \A j \in 1..m : rows[j].version <= rows[k].version
    BY DEF HasLatest
  <2>2. Len(rows) \in Nat
    BY LenProperties
  <2>3. \A j \in 1..m : j \in 1..Len(rows)
    BY <2>2
  <2> QED  BY <1>4, <2>1, <2>3
<1> QED  BY <1>3, <1>5 DEF new, row

(* What remains of the locals when one of them is assigned.                 *)
LEMMA LocalsSeen ==
  ASSUME NEW x \in Locals, NEW n \in Nat
  PROVE  /\ [x EXCEPT !.seen = n] \in Locals /\ [x EXCEPT !.seen = n].seen = n
         /\ [x EXCEPT !.seen = n].text = x.text /\ [x EXCEPT !.seen = n].tr = x.tr
BY DEF Locals

(* A request may remember a source row.                                     *)
LEMMA LocalsRow ==
  ASSUME NEW x \in Locals, NEW n \in Nat
  PROVE  /\ [x EXCEPT !.row = n] \in Locals /\ [x EXCEPT !.row = n].row = n
         /\ [x EXCEPT !.row = n].text = x.text
BY DEF Locals

(* A request may remember a candidate row.                                  *)
LEMMA LocalsCand ==
  ASSUME NEW x \in Locals, NEW n \in Nat
  PROVE  /\ [x EXCEPT !.cand = n] \in Locals /\ [x EXCEPT !.cand = n].cand = n
BY DEF Locals

(* A request may remember a translation.                                    *)
LEMMA LocalsTranslated ==
  ASSUME NEW x \in Locals, NEW t \in Translation
  PROVE  /\ [x EXCEPT !.tr = t] \in Locals /\ [x EXCEPT !.tr = t].tr = t
BY DEF Locals

(* A request may remember the candidate it executes and its text.           *)
LEMMA LocalsExecuted ==
  ASSUME NEW x \in Locals, NEW n \in Nat, NEW t \in Targets \cup {None}
  PROVE  [x EXCEPT !.cand = n, !.tgt = t] \in Locals
BY DEF Locals

(* A request may remember the source it executes.                           *)
LEMMA LocalsSource ==
  ASSUME NEW x \in Locals, NEW s \in Sources \cup {None}
  PROVE  [x EXCEPT !.src = s] \in Locals
BY DEF Locals

(* A request may remember the evidence of the phases.                       *)
LEMMA LocalsEvidence ==
  ASSUME NEW x \in Locals, NEW e \in EvidenceSpace
  PROVE  [x EXCEPT !.ev = e] \in Locals
BY DEF Locals

(* A request may remember the report it read before evaluating.             *)
LEMMA LocalsRead ==
  ASSUME NEW x \in Locals, NEW b \in BOOLEAN, NEW rep \in Report
  PROVE  [x EXCEPT !.exists = b, !.old = rep] \in Locals
BY DEF Locals

(* A request may remember the report it resets.                             *)
LEMMA LocalsOld ==
  ASSUME NEW x \in Locals, NEW rep \in Report
  PROVE  [x EXCEPT !.old = rep] \in Locals /\ [x EXCEPT !.old = rep].text = x.text
BY DEF Locals

(* A request may remember the report it saves.                              *)
LEMMA LocalsOut ==
  ASSUME NEW x \in Locals, NEW rep \in Report
  PROVE  [x EXCEPT !.out = rep] \in Locals
BY DEF Locals

(* A request may remember that a preflight blocked it.                      *)
LEMMA LocalsBlocked ==
  ASSUME NEW x \in Locals, NEW b \in BOOLEAN
  PROVE  [x EXCEPT !.blocked = b] \in Locals
BY DEF Locals

(* A preflight passes or fails.                                             *)
LEMMA PreflightValues == \A text : Preflight(text) \in {"PASS", "FAILED"}
BY DEF Preflight
------------------------------------------------------------------------------
(* Every step of a request keeps the types.                                 *)

(* InsertSource keeps the type invariant.                                   *)
LEMMA InsertSourceType ==
  ASSUME TypeInv, NEW r \in Requests, InsertSource(r)
  PROVE  TypeInv'
<1> DEFINE x == [loc[r] EXCEPT !.seen = Len(sources)]
<1>0. /\ loc[r] \in Locals /\ Len(sources) \in Nat
      /\ LocalOK(record # None, Len(sources), Len(candidates), "insertSource", kind[r], loc[r])
  BY Known DEF InsertSource, At
<1>1. x \in Locals /\ x.seen = Len(sources) /\ x.text = loc[r].text
  BY <1>0, LocalsSeen
<1> HIDE DEF x
<1>2. LocalOK(record # None, Len(sources), Len(candidates), "commitSource", kind[r], x)
  BY <1>0, <1>1 DEF LocalOK, SourceLabels, ResetLabels
<1>3. /\ Goto(r, "commitSource", x) /\ faults' \in Nat
      /\ UNCHANGED <<record, report, sources, candidates, kind>>
  BY Known DEF InsertSource, At, x
<1> QED  BY <1>1, <1>2, <1>3, QuietMove DEF Labels

(* InsertCandidate keeps the type invariant.                                *)
LEMMA InsertCandidateType ==
  ASSUME TypeInv, NEW r \in Requests, InsertCandidate(r)
  PROVE  TypeInv'
<1> DEFINE x == [loc[r] EXCEPT !.seen = Len(candidates)]
<1>0. /\ loc[r] \in Locals /\ Len(candidates) \in Nat
      /\ LocalOK(record # None, Len(sources), Len(candidates), "insertCandidate",
                 kind[r], loc[r])
  BY Known DEF InsertCandidate, At
<1>1. x \in Locals /\ x.seen = Len(candidates) /\ x.text = loc[r].text /\ x.tr = loc[r].tr
  BY <1>0, LocalsSeen
<1> HIDE DEF x
<1>2. LocalOK(record # None, Len(sources), Len(candidates), "commitCandidate", kind[r], x)
  BY <1>0, <1>1 DEF LocalOK, SourceLabels, ResetLabels
<1>3. /\ Goto(r, "commitCandidate", x) /\ faults' \in Nat
      /\ UNCHANGED <<record, report, sources, candidates, kind>>
  BY Known DEF InsertCandidate, At, x
<1> QED  BY <1>1, <1>2, <1>3, QuietMove DEF Labels

(* The tables after a commit.                                               *)
LEMMA CommittedSources ==
  ASSUME TypeInv, NEW n \in 0..Len(sources), NEW row \in SourceRow,
         sources' = Append(Deactivated(sources, n), row)
  PROVE  /\ sources' \in Seq(SourceRow) /\ Len(sources') = Len(sources) + 1
         /\ HasLatest(sources') /\ sources'[Len(sources) + 1] = row
         /\ \A i \in 1..Len(sources) :
              sources'[i] = IF i <= n THEN Cleared(sources[i]) ELSE sources[i]
<1>1. sources \in Seq(SourceRow) /\ HasLatest(sources) /\ n \in Nat
  BY Known DEF TypeInv, TypeOK
<1>2. sources' = Committed(sources, n, row)
  BY DEF Committed
<1>3. /\ Committed(sources, n, row) \in Seq(SourceRow)
      /\ Len(Committed(sources, n, row)) = Len(sources) + 1
      /\ HasLatest(Committed(sources, n, row))
      /\ Committed(sources, n, row)[Len(sources) + 1] = row
      /\ \A i \in 1..Len(sources) :
           Committed(sources, n, row)[i]
             = IF i <= n THEN Cleared(sources[i]) ELSE sources[i]
  BY ONLY <1>1, row \in SourceRow, SourceRowFacts, CommittedRows
<1> QED  BY <1>2, <1>3

(* What the commit of a new version makes of the candidate table.           *)
LEMMA CommittedCandidates ==
  ASSUME TypeInv, NEW n \in 0..Len(candidates), NEW row \in CandidateRow,
         candidates' = Append(Deactivated(candidates, n), row)
  PROVE  /\ candidates' \in Seq(CandidateRow)
         /\ Len(candidates') = Len(candidates) + 1 /\ HasLatest(candidates')
         /\ candidates'[Len(candidates) + 1] = row
         /\ \A i \in 1..Len(candidates) :
              candidates'[i] = IF i <= n THEN Cleared(candidates[i])
                               ELSE candidates[i]
<1>1. candidates \in Seq(CandidateRow) /\ HasLatest(candidates) /\ n \in Nat
  BY Known DEF TypeInv, TypeOK
<1>2. candidates' = Committed(candidates, n, row)
  BY DEF Committed
<1>3. /\ Committed(candidates, n, row) \in Seq(CandidateRow)
      /\ Len(Committed(candidates, n, row)) = Len(candidates) + 1
      /\ HasLatest(Committed(candidates, n, row))
      /\ Committed(candidates, n, row)[Len(candidates) + 1] = row
      /\ \A i \in 1..Len(candidates) :
           Committed(candidates, n, row)[i]
             = IF i <= n THEN Cleared(candidates[i]) ELSE candidates[i]
  BY ONLY <1>1, row \in CandidateRow, CandidateRowFacts, CommittedRows
<1> QED  BY <1>2, <1>3

(* CommitSource keeps the type invariant.                                   *)
LEMMA CommitSourceType ==
  ASSUME TypeInv, NEW r \in Requests, CommitSource(r)
  PROVE  TypeInv'
<1> DEFINE n == loc[r].seen
           row == [version |-> NextVersion(sources, n), text |-> loc[r].text,
                   active |-> TRUE, preflight |-> "NONE"]
           l == IF kind[r] = "run" THEN "sourcePreflight" ELSE "readReport"
           x == [loc[r] EXCEPT !.row = Len(sources) + 1]
<1>0. /\ loc[r] \in Locals /\ Len(sources) \in Nat /\ Len(candidates) \in Nat
      /\ sources \in Seq(SourceRow) /\ HasLatest(sources) /\ HasLatest(candidates)
      /\ LocalOK(record # None, Len(sources), Len(candidates), "commitSource", kind[r], loc[r])
  BY Known DEF CommitSource, At
<1>1. n \in 0..Len(sources) /\ n \in Nat /\ loc[r].text \in Sources /\ record # None
  BY <1>0 DEF LocalOK, SourceLabels
<1>2. NextVersion(sources, n) \in Nat
  BY <1>0, <1>1, SourceRowFacts, NextVersionIsNew
<1>3. row \in SourceRow
  BY <1>1, <1>2 DEF SourceRow
<1>4. /\ \E m \in n..Len(sources) : sources' = Append(Deactivated(sources, m), row)
      /\ Goto(r, l, x) /\ UNCHANGED <<record, report, candidates, kind, faults>>
  BY DEF CommitSource, At
<1>5. x \in Locals /\ l \in Labels /\ x.row = Len(sources) + 1 /\ x.text = loc[r].text
  BY <1>0, LocalsRow DEF Labels
<1>6. l \in {"sourcePreflight", "readReport"}
  OBVIOUS
<1> HIDE DEF x, l, row, n
<1>7. sources' \in Seq(SourceRow) /\ Len(sources') = Len(sources) + 1 /\ HasLatest(sources')
  BY <1>0, <1>1, <1>3, <1>4, CommittedSources
<1>8. LocalOK(record # None, Len(sources'), Len(candidates), l, kind[r], x)
  BY <1>0, <1>1, <1>5, <1>6, <1>7 DEF LocalOK, SourceLabels, ResetLabels
<1>9. Len(sources) <= Len(sources')
  BY <1>0, <1>7
<1> QED  BY <1>4, <1>5, <1>7, <1>8, <1>9, SourcesMove

(* CommitCandidate keeps the type invariant.                                *)
LEMMA CommitCandidateType ==
  ASSUME TypeInv, NEW r \in Requests, CommitCandidate(r)
  PROVE  TypeInv'
<1> DEFINE n == loc[r].seen
           user == kind[r] = "edit_candidate"
           row == [version |-> NextVersion(candidates, n),
                   text |-> IF user THEN loc[r].text ELSE loc[r].tr.sql,
                   active |-> TRUE, preflight |-> "NONE",
                   source |-> IF user THEN "USER" ELSE "AI"]
           x == [loc[r] EXCEPT !.cand = Len(candidates) + 1]
<1>0. /\ loc[r] \in Locals /\ Len(sources) \in Nat /\ Len(candidates) \in Nat
      /\ candidates \in Seq(CandidateRow) /\ HasLatest(sources) /\ HasLatest(candidates)
      /\ LocalOK(record # None, Len(sources), Len(candidates), "commitCandidate",
                 kind[r], loc[r])
  BY Known DEF CommitCandidate, At
<1>1. n \in 0..Len(candidates) /\ n \in Nat /\ record # None
      /\ (IF user THEN loc[r].text ELSE loc[r].tr.sql) \in Targets
  BY <1>0 DEF LocalOK
<1>2. NextVersion(candidates, n) \in Nat
  BY <1>0, <1>1, CandidateRowFacts, NextVersionIsNew
<1>3. row \in CandidateRow
  BY <1>1, <1>2 DEF CandidateRow
<1>4. /\ \E m \in n..Len(candidates) :
           candidates' = Append(Deactivated(candidates, m), row)
      /\ Goto(r, "candidatePreflight", x)
      /\ UNCHANGED <<record, report, sources, kind, faults>>
  BY DEF CommitCandidate, At
<1>5. x \in Locals /\ "candidatePreflight" \in Labels /\ x.cand = Len(candidates) + 1
  <2>1. Len(candidates) + 1 \in Nat
    BY <1>0
  <2>2. x \in Locals /\ x.cand = Len(candidates) + 1
    BY <1>0, <2>1, LocalsCand
  <2> QED  BY <2>2 DEF Labels
<1> HIDE DEF x, row, n
<1>7. candidates' \in Seq(CandidateRow) /\ Len(candidates') = Len(candidates) + 1
      /\ HasLatest(candidates')
  BY <1>0, <1>1, <1>3, <1>4, CommittedCandidates
<1>8. LocalOK(record # None, Len(sources), Len(candidates'), "candidatePreflight", kind[r], x)
  BY <1>0, <1>1, <1>5, <1>7 DEF LocalOK, SourceLabels, ResetLabels
<1>9. Len(candidates) <= Len(candidates')
  BY <1>0, <1>7
<1> QED  BY <1>4, <1>5, <1>7, <1>8, <1>9, CandidatesMove
(* A request under way is about a migration whose record exists.            *)
LEMMA Recorded ==
  ASSUME TypeInv, NEW r \in Requests, pc[r] \notin {"idle", "createRecord", "done"}
  PROVE  record # None /\ record \in Record
<1>1. record # None
  BY DEF TypeInv, Locality, LocalOK
<1> QED  BY <1>1 DEF TypeInv, TypeOK

(* CreateRecord keeps the type invariant.                                   *)
LEMMA CreateRecordType ==
  ASSUME TypeInv, NEW r \in Requests, CreateRecord(r)
  PROVE  TypeInv'
<1>1. /\ loc[r] \in Locals /\ record \in Record \cup {None} /\ report \in Report \cup {None}
      /\ LocalOK(record # None, Len(sources), Len(candidates), "createRecord", kind[r], loc[r])
  BY Known DEF CreateRecord, At
<1>2. loc[r].text \in Sources /\ kind[r] # "edit_candidate"
  BY <1>1 DEF LocalOK, SourceLabels
<1>3. record' \in Record
  BY <1>1, <1>2 DEF CreateRecord, Created, Record, MigrationState, MigrationFinalStatus
<1>4. LocalOK(TRUE, Len(sources), Len(candidates), "resolveSource", kind[r], loc[r])
  BY <1>2 DEF LocalOK, SourceLabels, ResetLabels
<1> QED  BY <1>1, <1>3, <1>4, WriteMove DEF CreateRecord, At, Labels

(* ResolveSource keeps the type invariant.                                  *)
LEMMA ResolveSourceType ==
  ASSUME TypeInv, NEW r \in Requests, ResolveSource(r)
  PROVE  TypeInv'
<1>1. /\ loc[r] \in Locals /\ DOMAIN sources = 1..Len(sources) /\ Len(sources) \in Nat
      /\ LocalOK(record # None, Len(sources), Len(candidates), "resolveSource", kind[r], loc[r])
  BY Known DEF ResolveSource, At
<1>2. loc[r].text \in Sources /\ record # None /\ kind[r] # "edit_candidate"
  BY <1>1 DEF LocalOK, SourceLabels
<1>3. UNCHANGED <<record, report, sources, candidates, kind>> /\ faults' \in Nat
  BY Known DEF ResolveSource, At
<1>4. CASE Goto(r, "insertSource", loc[r])
  <2>1. LocalOK(record # None, Len(sources), Len(candidates), "insertSource", kind[r], loc[r])
    BY <1>2 DEF LocalOK, SourceLabels, ResetLabels
  <2> QED  BY <1>1, <1>3, <1>4, <2>1, QuietMove DEF Labels
<1>5. ASSUME NEW i \in Active(sources), Goto(r, "sourcePreflight", [loc[r] EXCEPT !.row = i])
      PROVE  TypeInv'
  <2> DEFINE x == [loc[r] EXCEPT !.row = i]
  <2>1. i \in 1..Len(sources) /\ i \in Nat
    BY <1>1 DEF Active
  <2>2. x \in Locals /\ x.row = i /\ x.text = loc[r].text
    BY <1>1, <2>1, LocalsRow
  <2>3. Goto(r, "sourcePreflight", x)
    BY <1>5
  <2> HIDE DEF x
  <2>4. LocalOK(record # None, Len(sources), Len(candidates), "sourcePreflight", kind[r], x)
    BY <1>2, <2>1, <2>2 DEF LocalOK, SourceLabels, ResetLabels
  <2> QED  BY <1>3, <2>2, <2>3, <2>4, QuietMove DEF Labels
<1> QED  BY <1>4, <1>5 DEF ResolveSource

(* SourcePreflight keeps the type invariant.                                *)
LEMMA SourcePreflightType ==
  ASSUME TypeInv, NEW r \in Requests, SourcePreflight(r)
  PROVE  TypeInv'
<1> DEFINE i == loc[r].row
           p == Preflight(sources[i].text)
<1>1. /\ loc[r] \in Locals /\ sources \in Seq(SourceRow)
      /\ HasLatest(sources) /\ HasLatest(candidates)
      /\ Len(sources) \in Nat /\ Len(candidates) \in Nat
      /\ LocalOK(record # None, Len(sources), Len(candidates), "sourcePreflight",
                 kind[r], loc[r])
  BY Known DEF SourcePreflight, At
<1>2. i \in 1..Len(sources) /\ loc[r].text \in Sources /\ record # None
  BY <1>1 DEF LocalOK, SourceLabels
<1>3. p \in {"PASS", "FAILED"}
  BY PreflightValues
<1>4. /\ sources' = Stored(sources, i, p)
      /\ \/ Goto(r, "translate", loc[r])
         \/ Goto(r, "checkLineage", [loc[r] EXCEPT !.blocked = TRUE])
      /\ UNCHANGED <<record, report, candidates, kind, faults>>
  BY DEF SourcePreflight, At, Stored
<1> HIDE DEF p, i
<1>5. /\ \A x \in SourceRow : Marked(x, p) \in SourceRow
      /\ \A x \in SourceRow : Marked(x, p).version = x.version
  BY <1>3 DEF SourceRow, Marked
<1>6. sources' \in Seq(SourceRow) /\ Len(sources') = Len(sources) /\ HasLatest(sources')
  BY <1>1, <1>2, <1>4, <1>5, StoredPreflight
<1>7. Len(sources) <= Len(sources')
  BY <1>1, <1>6
<1>8. CASE Goto(r, "translate", loc[r])
  <2>1. LocalOK(record # None, Len(sources'), Len(candidates), "translate", kind[r], loc[r])
    BY <1>1, <1>6 DEF LocalOK, SourceLabels, ResetLabels
  <2> QED  BY <1>1, <1>4, <1>6, <1>7, <1>8, <2>1, SourcesMove DEF Labels
<1>9. CASE Goto(r, "checkLineage", [loc[r] EXCEPT !.blocked = TRUE])
  <2>1. [loc[r] EXCEPT !.blocked = TRUE] \in Locals
    BY <1>1, LocalsBlocked
  <2>2. LocalOK(record # None, Len(sources'), Len(candidates), "checkLineage", kind[r],
                [loc[r] EXCEPT !.blocked = TRUE])
    BY <1>2 DEF LocalOK, SourceLabels, ResetLabels
  <2> QED  BY <1>4, <1>6, <1>7, <1>9, <2>1, <2>2, SourcesMove DEF Labels
<1> QED  BY <1>4, <1>8, <1>9

(* A translation made from the source row of the request.                   *)
LEMMA TranslationType ==
  ASSUME TypeInv, NEW r \in Requests, pc[r] = "translate",
         NEW status \in TranslationStatus, NEW valid \in CandidateValidationStatus \cup {"NONE"},
         NEW error \in TranslationError, NEW sql \in Targets \cup {None}
  PROVE  [status |-> status, valid |-> valid, error |-> error, sql |-> sql,
          hash |-> loc[r].text, of |-> sources[loc[r].row].text] \in Translation
<1>1. LocalOK(record # None, Len(sources), Len(candidates), "translate", kind[r], loc[r])
  BY Known
<1>2. loc[r].row \in 1..Len(sources) /\ loc[r].text \in Sources
  BY <1>1 DEF LocalOK, SourceLabels
<1>3. sources[loc[r].row].text \in Sources
  BY <1>2, SourceText
<1> QED  BY <1>2, <1>3 DEF Translation

(* TranslateOk keeps the type invariant.                                    *)
LEMMA TranslateOkType ==
  ASSUME TypeInv, NEW r \in Requests, NEW sql \in Targets, TranslateOk(r, sql)
  PROVE  TypeInv'
<1> DEFINE t == [status |-> "SUCCESS", valid |-> "VALID_SYNTAX", error |-> "NONE", sql |-> sql,
                 hash |-> loc[r].text, of |-> sources[loc[r].row].text]
           x == [loc[r] EXCEPT !.tr = t]
<1>1. loc[r] \in Locals /\ pc[r] = "translate" /\ record # None /\ faults \in Nat
      /\ kind[r] \in Kinds
  BY Known, Recorded DEF TranslateOk, At
<1>2. t \in Translation
  BY <1>1, TranslationType
       DEF TranslationStatus, CandidateValidationStatus, TranslationError
<1>3. t.sql = sql
  OBVIOUS
<1>4. /\ Goto(r, "insertCandidate", x)
      /\ UNCHANGED <<record, report, sources, candidates, kind, faults>>
  BY DEF TranslateOk, At
<1> HIDE DEF t
<1>5. x \in Locals /\ x.tr.sql = sql
  BY <1>1, <1>2, <1>3, LocalsTranslated
<1> HIDE DEF x
<1>6. kind[r] # "edit_candidate"
  BY <1>1, Known DEF LocalOK, SourceLabels
<1>7. LocalOK(record # None, Len(sources), Len(candidates), "insertCandidate", kind[r], x)
  BY <1>1, <1>5, <1>6 DEF LocalOK, SourceLabels, ResetLabels
<1> QED  BY <1>1, <1>4, <1>5, <1>7, QuietMove DEF Labels

(* TranslateFails keeps the type invariant.                                 *)
LEMMA TranslateFailsType ==
  ASSUME TypeInv, NEW r \in Requests, NEW f \in Failures, TranslateFails(r, f)
  PROVE  TypeInv'
<1> DEFINE t == [status |-> f.status, valid |-> f.valid, error |-> f.error, sql |-> f.sql,
                 hash |-> loc[r].text, of |-> sources[loc[r].row].text]
<1>1. loc[r] \in Locals /\ pc[r] = "translate" /\ record # None
  BY Known, Recorded DEF TranslateFails, At
<1>2. /\ f.status \in TranslationStatus /\ f.valid \in CandidateValidationStatus \cup {"NONE"}
      /\ f.error \in TranslationError /\ f.sql \in Targets \cup {None}
  BY PipelineAssumption
<1>3. t \in Translation
  BY <1>1, <1>2, TranslationType
<1>4. /\ Goto(r, "checkLineage", [loc[r] EXCEPT !.tr = t])
      /\ UNCHANGED <<record, report, sources, candidates, kind, faults>>
  BY DEF TranslateFails, At
<1> HIDE DEF t
<1>5. [loc[r] EXCEPT !.tr = t] \in Locals
  BY <1>1, <1>3, LocalsTranslated
<1> QED  BY <1>1, <1>4, <1>5, FreeMove DEF FreeLabels, ExecuteLabels

(* CandidatePreflight keeps the type invariant.                             *)
LEMMA CandidatePreflightType ==
  ASSUME TypeInv, NEW r \in Requests, CandidatePreflight(r)
  PROVE  TypeInv'
<1> DEFINE i == loc[r].cand
           p == Preflight(candidates[i].text)
           x == [loc[r] EXCEPT !.cand = 0]
           y == [loc[r] EXCEPT !.blocked = TRUE, !.cand = 0]
<1>1. /\ loc[r] \in Locals /\ candidates \in Seq(CandidateRow) /\ HasLatest(candidates)
      /\ Len(sources) \in Nat /\ Len(candidates) \in Nat
      /\ LocalOK(record # None, Len(sources), Len(candidates), "candidatePreflight",
                 kind[r], loc[r])
  BY Known DEF CandidatePreflight, At
<1>2. i \in 1..Len(candidates) /\ record # None
  BY <1>1 DEF LocalOK
<1>3. p \in {"PASS", "FAILED"}
  BY PreflightValues
<1>4. /\ candidates' = Stored(candidates, i, p)
      /\ \/ kind[r] = "edit_candidate" /\ Goto(r, "readReport", loc[r])
         \/ Goto(r, "loadCandidate", x)
         \/ Goto(r, "checkLineage", y)
      /\ UNCHANGED <<record, report, sources, kind, faults>>
  BY DEF CandidatePreflight, At, Stored
<1>5. x \in Locals /\ y \in Locals
  <2>1. [loc[r] EXCEPT !.blocked = TRUE] \in Locals
    BY <1>1, LocalsBlocked
  <2>2. y = [[loc[r] EXCEPT !.blocked = TRUE] EXCEPT !.cand = 0]
    OBVIOUS
  <2> QED  BY <1>1, <2>1, <2>2, LocalsCand
<1> HIDE DEF p, i, x, y
<1>6. /\ \A z \in CandidateRow : Marked(z, p) \in CandidateRow
      /\ \A z \in CandidateRow : Marked(z, p).version = z.version
  BY <1>3 DEF CandidateRow, Marked
<1>7. /\ candidates' \in Seq(CandidateRow) /\ Len(candidates') = Len(candidates)
      /\ HasLatest(candidates')
  BY <1>1, <1>2, <1>4, <1>6, StoredPreflight
<1>8. Len(candidates) <= Len(candidates')
  BY <1>1, <1>7
<1>9. CASE kind[r] = "edit_candidate" /\ Goto(r, "readReport", loc[r])
  <2>1. LocalOK(record # None, Len(sources), Len(candidates'), "readReport", kind[r], loc[r])
    BY <1>2, <1>9 DEF LocalOK, SourceLabels, ResetLabels
  <2> QED  BY <1>1, <1>4, <1>7, <1>8, <1>9, <2>1, CandidatesMove DEF Labels
<1>10. \A l \in {"loadCandidate", "checkLineage"}, z \in Locals :
         /\ l \in Labels
         /\ LocalOK(record # None, Len(sources), Len(candidates'), l, kind[r], z)
  BY <1>2 DEF LocalOK, SourceLabels, ResetLabels, Labels
<1>11. CASE Goto(r, "loadCandidate", x)
  BY <1>4, <1>5, <1>7, <1>8, <1>10, <1>11, CandidatesMove
<1>12. CASE Goto(r, "checkLineage", y)
  BY <1>4, <1>5, <1>7, <1>8, <1>10, <1>12, CandidatesMove
<1> QED  BY <1>4, <1>9, <1>11, <1>12

(* LoadCandidate keeps the type invariant.                                  *)
LEMMA LoadCandidateType ==
  ASSUME TypeInv, NEW r \in Requests, LoadCandidate(r)
  PROVE  TypeInv'
<1>1. /\ loc[r] \in Locals /\ DOMAIN candidates = 1..Len(candidates) /\ Len(candidates) \in Nat
      /\ record # None
  BY Known, Recorded DEF LoadCandidate, At
<1>2. UNCHANGED <<record, report, sources, candidates, kind, faults>> /\ faults' \in Nat
  BY Known DEF LoadCandidate, At
<1>3. CASE Finish(r)
  BY <1>2, <1>3, FinishType
<1>4. ASSUME NEW i \in Active(candidates),
             Goto(r, "loadSource", [loc[r] EXCEPT !.cand = i, !.tgt = candidates[i].text])
      PROVE  TypeInv'
  <2>1. i \in 1..Len(candidates) /\ i \in Nat
    BY <1>1 DEF Active
  <2>2. candidates[i].text \in Targets
    BY <2>1, CandidateText
  <2>3. [loc[r] EXCEPT !.cand = i, !.tgt = candidates[i].text] \in Locals
    BY <1>1, <2>1, <2>2, LocalsExecuted
  <2> QED  BY <1>1, <1>2, <1>4, <2>3, FreeMove DEF FreeLabels, ExecuteLabels
<1> QED  BY <1>3, <1>4 DEF LoadCandidate

(* LoadSource keeps the type invariant.                                     *)
LEMMA LoadSourceType ==
  ASSUME TypeInv, NEW r \in Requests, LoadSource(r)
  PROVE  TypeInv'
<1>1. loc[r] \in Locals /\ record # None
  BY Known, Recorded DEF LoadSource, At
<1>2. /\ UNCHANGED <<record, report, sources, candidates, kind, faults>>
      /\ \E text \in ActiveSourceTexts, l \in {"rebuildTranslation", "runPhases"} :
           Goto(r, l, [loc[r] EXCEPT !.src = text])
  BY DEF LoadSource, At
<1>3. ActiveSourceTexts \subseteq Sources
  BY <1>1, ActiveSourceTextsType DEF TypeInv
<1>4. \A text \in Sources : [loc[r] EXCEPT !.src = text] \in Locals
  BY <1>1, LocalsSource
<1>5. PICK text \in ActiveSourceTexts, l \in {"rebuildTranslation", "runPhases"} :
           Goto(r, l, [loc[r] EXCEPT !.src = text])
  BY <1>2
<1>6. [loc[r] EXCEPT !.src = text] \in Locals /\ l \in FreeLabels
  BY <1>3, <1>4 DEF FreeLabels, ExecuteLabels
<1> QED  BY <1>1, <1>2, <1>5, <1>6, FreeMove

(* RebuildTranslation keeps the type invariant.                             *)
LEMMA RebuildTranslationType ==
  ASSUME TypeInv, NEW r \in Requests, RebuildTranslation(r)
  PROVE  TypeInv'
<1> DEFINE t == [NoTranslation EXCEPT !.status = report.tr.status, !.hash = record.hash,
                                      !.of = report.tr.of]
           x == [loc[r] EXCEPT !.tr = t]
<1>1. loc[r] \in Locals /\ record # None /\ record \in Record /\ report \in Report \cup {None}
  BY Known, Recorded DEF RebuildTranslation, At
<1>2. /\ UNCHANGED <<record, report, sources, candidates, kind, faults>>
      /\ \/ Goto(r, "runPhases", loc[r])
         \/ report # None /\ Goto(r, "runPhases", x)
  BY DEF RebuildTranslation, At
<1>3. CASE Goto(r, "runPhases", loc[r])
  BY <1>1, <1>2, <1>3, FreeMove DEF FreeLabels, ExecuteLabels
<1>4. CASE report # None /\ Goto(r, "runPhases", x)
  <2>1. report.tr \in Translation /\ record.hash \in Sources
    BY <1>1, <1>4 DEF Report, Record
  <2>2. t \in Translation
    BY <2>1, NoTranslationType DEF Translation
  <2> HIDE DEF t
  <2>3. x \in Locals
    BY <1>1, <2>2, LocalsTranslated
  <2> QED  BY <1>1, <1>2, <1>4, <2>3, FreeMove DEF FreeLabels, ExecuteLabels
<1> QED  BY <1>2, <1>3, <1>4

(* RunPhases keeps the type invariant.                                      *)
LEMMA RunPhasesType ==
  ASSUME TypeInv, NEW r \in Requests, NEW o \in Outcomes, RunPhases(r, o)
  PROVE  TypeInv'
<1>1. loc[r] \in Locals /\ record # None /\ o \in EvidenceSpace
  BY Known, Recorded, PipelineAssumption DEF RunPhases, At
<1>2. [loc[r] EXCEPT !.ev = o] \in Locals
  BY <1>1, LocalsEvidence
<1> QED  BY <1>1, <1>2, FreeMove DEF RunPhases, At, FreeLabels, ExecuteLabels

(* CheckLineage keeps the type invariant.                                   *)
LEMMA CheckLineageType ==
  ASSUME TypeInv, NEW r \in Requests, CheckLineage(r)
  PROVE  TypeInv'
<1> DEFINE old == IF report = None THEN NoReport ELSE report
           b == report # None
           x == [loc[r] EXCEPT !.exists = b, !.old = old]
<1>1. loc[r] \in Locals /\ record # None /\ old \in Report /\ b \in BOOLEAN
  BY Known, Recorded, NoReportType DEF CheckLineage, At
<1>2. /\ UNCHANGED <<record, report, sources, candidates, kind, faults>>
      /\ Finish(r) \/ Goto(r, "decide", x)
  BY DEF CheckLineage, At
<1> HIDE DEF old, b
<1>3. x \in Locals
  BY <1>1, LocalsRead
<1> HIDE DEF x
<1>4. CASE Finish(r)
  BY <1>2, <1>4, Known, FinishType
<1>5. CASE Goto(r, "decide", x)
  BY <1>1, <1>2, <1>3, <1>5, FreeMove DEF FreeLabels, ExecuteLabels
<1> QED  BY <1>2, <1>4, <1>5

(* Decide keeps the type invariant.                                         *)
LEMMA DecideType ==
  ASSUME TypeInv, NEW r \in Requests, Decide(r)
  PROVE  TypeInv'
<1> DEFINE out == Verdict(loc[r])
           x == [loc[r] EXCEPT !.out = out]
<1>1. loc[r] \in Locals /\ record # None /\ out \in Report
  BY Known, Recorded, VerdictType DEF Decide, At
<1>2. /\ UNCHANGED <<record, report, sources, candidates, kind, faults>>
      /\ Finish(r) \/ Goto(r, "saveReport", x)
  BY DEF Decide, At
<1> HIDE DEF out
<1>3. x \in Locals
  BY <1>1, LocalsOut
<1> HIDE DEF x
<1>4. CASE Finish(r)
  BY <1>2, <1>4, Known, FinishType
<1>5. CASE Goto(r, "saveReport", x)
  BY <1>1, <1>2, <1>3, <1>5, FreeMove DEF FreeLabels, ExecuteLabels
<1> QED  BY <1>2, <1>4, <1>5

(* What the steps that save a report or a record have in common.            *)
LEMMA SavedFacts ==
  ASSUME TypeInv, NEW r \in Requests, pc[r] \notin {"idle", "createRecord", "done"}
  PROVE  /\ loc[r] \in Locals /\ loc[r].out \in Report /\ loc[r].old \in Report
         /\ loc[r].out.final \in MigrationFinalStatus /\ loc[r].cand \in Nat
         /\ record \in Record /\ record # None /\ report \in Report \cup {None}
         /\ \A l \in FreeLabels \cup {"done"}, x \in Locals :
              l \in Labels /\ LocalOK(TRUE, Len(sources), Len(candidates), l, kind[r], x)
<1>1. loc[r] \in Locals /\ report \in Report \cup {None}
  BY Known
<1>2. loc[r].out \in Report /\ loc[r].old \in Report /\ loc[r].cand \in Nat
  BY <1>1 DEF Locals
<1>3. loc[r].out.final \in MigrationFinalStatus
  BY <1>2 DEF Report
<1>4. \A l \in FreeLabels \cup {"done"}, x \in Locals :
         l \in Labels /\ LocalOK(TRUE, Len(sources), Len(candidates), l, kind[r], x)
  BY DEF LocalOK, FreeLabels, ExecuteLabels, SourceLabels, ResetLabels, Labels
<1> QED  BY <1>1, <1>2, <1>3, <1>4, Recorded

(* SaveReport keeps the type invariant.                                     *)
LEMMA SaveReportType ==
  ASSUME TypeInv, NEW r \in Requests, SaveReport(r)
  PROVE  TypeInv'
<1>1. /\ loc[r] \in Locals /\ loc[r].out \in Report /\ record \in Record
      /\ "saveRecord" \in Labels
      /\ LocalOK(TRUE, Len(sources), Len(candidates), "saveRecord", kind[r], loc[r])
  BY SavedFacts DEF SaveReport, At, FreeLabels, ExecuteLabels
<1> QED  BY <1>1, WriteMove DEF SaveReport, At

(* SaveRecord keeps the type invariant.                                     *)
LEMMA SaveRecordType ==
  ASSUME TypeInv, NEW r \in Requests, SaveRecord(r)
  PROVE  TypeInv'
<1>1. /\ loc[r] \in Locals /\ loc[r].out.final \in MigrationFinalStatus
      /\ record \in Record /\ report \in Report \cup {None}
      /\ \A l \in {"blockReport", "done"}, x \in Locals :
           l \in Labels /\ LocalOK(TRUE, Len(sources), Len(candidates), l, kind[r], x)
  BY SavedFacts DEF SaveRecord, At, FreeLabels, ExecuteLabels
<1>2. StatusToState(loc[r].out.final) \in MigrationState
  BY <1>1, StatusToStateType
<1>3. record' \in Record
  BY <1>1, <1>2 DEF SaveRecord, Record
<1>4. /\ UNCHANGED <<report, sources, candidates, kind, faults>>
      /\ Goto(r, "blockReport", loc[r]) \/ Goto(r, "done", NoLocals)
  BY DEF SaveRecord, AfterSave, At, Finish
<1> QED  BY <1>1, <1>3, <1>4, NoLocalsType, WriteMove

(* BlockReport keeps the type invariant.                                    *)
LEMMA BlockReportType ==
  ASSUME TypeInv, NEW r \in Requests, BlockReport(r)
  PROVE  TypeInv'
<1>1. /\ loc[r] \in Locals /\ loc[r].out \in Report /\ record \in Record
      /\ "blockRecord" \in Labels
      /\ LocalOK(TRUE, Len(sources), Len(candidates), "blockRecord", kind[r], loc[r])
  BY SavedFacts DEF BlockReport, At, FreeLabels, ExecuteLabels
<1>2. report' \in Report
  BY <1>1 DEF BlockReport, Report, MigrationFinalStatus
<1> QED  BY <1>1, <1>2, WriteMove DEF BlockReport, At

(* BlockRecord keeps the type invariant.                                    *)
LEMMA BlockRecordType ==
  ASSUME TypeInv, NEW r \in Requests, BlockRecord(r)
  PROVE  TypeInv'
<1>1. /\ record \in Record /\ report \in Report \cup {None} /\ "done" \in Labels
      /\ LocalOK(TRUE, Len(sources), Len(candidates), "done", kind[r], NoLocals)
  BY SavedFacts, NoLocalsType DEF BlockRecord, At
<1>2. record' \in Record
  BY <1>1 DEF BlockRecord, Record, MigrationFinalStatus
<1> QED  BY <1>1, <1>2, NoLocalsType, WriteMove DEF BlockRecord, At, Finish

(* ReadReport keeps the type invariant.                                     *)
LEMMA ReadReportType ==
  ASSUME TypeInv, NEW r \in Requests, ReadReport(r)
  PROVE  TypeInv'
<1> DEFINE x == [loc[r] EXCEPT !.old = report]
<1>1. /\ loc[r] \in Locals /\ record # None /\ report \in Report \cup {None}
      /\ kind[r] = "edit_source" => loc[r].text \in Sources
  BY Known, SavedFacts DEF ReadReport, At, LocalOK, ResetLabels
<1>2. /\ UNCHANGED <<record, report, sources, candidates, kind>> /\ faults' \in Nat
      /\ \/ Goto(r, "resetRecord", loc[r])
         \/ report # None /\ Goto(r, "resetReport", x)
  BY Known DEF ReadReport, At
<1>3. CASE Goto(r, "resetRecord", loc[r])
  <2>1. LocalOK(record # None, Len(sources), Len(candidates), "resetRecord", kind[r], loc[r])
    BY <1>1 DEF LocalOK, SourceLabels, ResetLabels
  <2> QED  BY <1>1, <1>2, <1>3, <2>1, QuietMove DEF Labels
<1>4. CASE report # None /\ Goto(r, "resetReport", x)
  <2>1. x \in Locals /\ x.text = loc[r].text
    BY <1>1, <1>4, LocalsOld
  <2> HIDE DEF x
  <2>2. LocalOK(record # None, Len(sources), Len(candidates), "resetReport", kind[r], x)
    BY <1>1, <2>1 DEF LocalOK, SourceLabels, ResetLabels
  <2> QED  BY <1>2, <1>4, <2>1, <2>2, QuietMove DEF Labels
<1> QED  BY <1>2, <1>3, <1>4

(* ResetReport keeps the type invariant and leaves a report.                *)
LEMMA ResetReportType ==
  ASSUME TypeInv, NEW r \in Requests, ResetReport(r)
  PROVE  TypeInv' /\ report' \in Report
<1> DEFINE x == [loc[r] EXCEPT !.old = NoReport]
           cand == IF kind[r] = "edit_candidate" THEN loc[r].cand ELSE 0
           ev == WithTranslation(NoEvidence, loc[r].old.tr)
<1>1. /\ loc[r] \in Locals /\ loc[r].old \in Report /\ loc[r].cand \in Nat /\ record \in Record
      /\ kind[r] = "edit_source" => loc[r].text \in Sources
  BY Known, SavedFacts DEF ResetReport, At, LocalOK, ResetLabels
<1>2. loc[r].old.tr \in Translation
  BY <1>1 DEF Report
<1>3. ev \in EvidenceSpace /\ cand \in Nat
  BY <1>1, <1>2, NoEvidenceType, WithTranslationType
<1>4. /\ report' = [NoReport EXCEPT !.cand = cand, !.tr = loc[r].old.tr, !.ev = ev]
      /\ Goto(r, "resetRecord", x) /\ UNCHANGED <<record, sources, candidates, kind, faults>>
  BY DEF ResetReport, At
<1> HIDE DEF ev, cand
<1>5. report' \in Report
  BY <1>2, <1>3, <1>4, NoReportType DEF Report
<1>6. x \in Locals /\ x.text = loc[r].text
  BY <1>1, NoReportType, LocalsOld
<1> HIDE DEF x
<1>7. LocalOK(TRUE, Len(sources), Len(candidates), "resetRecord", kind[r], x)
  BY <1>1, <1>6 DEF LocalOK, SourceLabels, ResetLabels
<1> QED  BY <1>1, <1>4, <1>5, <1>6, <1>7, WriteMove DEF Labels

(* Where an edit goes after the reset of the record it finds what it relies *)
(* on.                                                                      *)
LEMMA AfterResetType ==
  ASSUME TypeInv, NEW r \in Requests, pc[r] = "resetRecord", AfterReset(r)
  PROVE  \E l \in Labels, x \in Locals :
           /\ Goto(r, l, x)
           /\ LocalOK(TRUE, Len(sources), Len(candidates), l, kind[r], x)
<1> DEFINE x == [NoLocals EXCEPT !.text = Strip[loc[r].text]]
<1>1. /\ kind[r] = "edit_source" => loc[r].text \in Sources
      /\ "done" \in Labels
      /\ LocalOK(TRUE, Len(sources), Len(candidates), "done", kind[r], NoLocals)
  BY Known, SavedFacts, NoLocalsType DEF LocalOK, ResetLabels
<1>2. CASE Finish(r)
  BY <1>1, <1>2, NoLocalsType DEF Finish
<1>3. CASE kind[r] = "edit_source" /\ Goto(r, "createRecord", x)
  <2>1. Strip[loc[r].text] \in Sources
    BY <1>1, <1>3, PipelineAssumption
  <2>2. x \in Locals /\ x.text \in Sources
    BY <2>1, NoLocalsType DEF Locals
  <2> HIDE DEF x
  <2>3. LocalOK(TRUE, Len(sources), Len(candidates), "createRecord", kind[r], x)
    BY <1>3, <2>2 DEF LocalOK, SourceLabels, ResetLabels
  <2> QED  BY <1>3, <2>2, <2>3 DEF Labels
<1> QED  BY <1>2, <1>3 DEF AfterReset

(* ResetRecord keeps the type invariant.                                    *)
LEMMA ResetRecordType ==
  ASSUME TypeInv, NEW r \in Requests, ResetRecord(r)
  PROVE  TypeInv'
<1>1. record \in Record /\ report \in Report \cup {None}
  BY SavedFacts DEF ResetRecord, At
<1>2. record' \in Record
  BY <1>1 DEF ResetRecord, Record, MigrationFinalStatus, MigrationState
<1>3. UNCHANGED <<report, sources, candidates, kind, faults>>
  BY DEF ResetRecord, At
<1>4. pc[r] = "resetRecord" /\ AfterReset(r)
  BY DEF ResetRecord, At
<1> QED  BY <1>1, <1>2, <1>3, <1>4, AfterResetType, WriteMove

(* A read that fails keeps the type invariant.                              *)
LEMMA ReadFaultType ==
  ASSUME TypeInv, NEW r \in Requests, ReadFault(r)
  PROVE  TypeInv'
<1> DEFINE old == IF report = None THEN NoReport ELSE report
           b == report # None
<1>1. /\ loc[r] \in Locals /\ faults \in Nat
      /\ report \in Report \cup {None} /\ old \in Report /\ b \in BOOLEAN
      /\ LocalOK(record # None, Len(sources), Len(candidates), pc[r], kind[r], loc[r])
  BY Known, NoReportType
<1>2. faults' \in Nat /\ UNCHANGED <<sources, candidates, kind>>
  BY <1>1 DEF ReadFault, RecreateRecord, RebuildNothing, SkipLineage, ForgetReport, SkipReset,
              SkipRecord, ReadFails
<1>3. CASE RecreateRecord(r)
  <2>1. /\ record' = Created(loc[r].text) /\ Goto(r, "resolveSource", loc[r])
        /\ report' = report /\ pc[r] = "createRecord"
    BY <1>3 DEF RecreateRecord, ReadFails
  <2>2. loc[r].text \in Sources /\ kind[r] # "edit_candidate"
    BY <1>1, <2>1 DEF LocalOK, SourceLabels
  <2>3. record' \in Record /\ record' # None
    BY <2>1, <2>2, NoneAssumption DEF Created, Record, MigrationState, MigrationFinalStatus
  <2>4. LocalOK(record' # None, Len(sources'), Len(candidates'), "resolveSource", kind'[r],
                loc[r])
    BY <1>2, <2>2, <2>3 DEF LocalOK, SourceLabels, ResetLabels
  <2>5. /\ sources' \in Seq(SourceRow) /\ candidates' \in Seq(CandidateRow)
        /\ HasLatest(sources)' /\ HasLatest(candidates)' /\ kind' \in [Requests -> Kinds]
        /\ Len(sources) <= Len(sources') /\ Len(candidates) <= Len(candidates')
    <3>1. /\ sources \in Seq(SourceRow) /\ candidates \in Seq(CandidateRow)
          /\ HasLatest(sources) /\ HasLatest(candidates) /\ kind \in [Requests -> Kinds]
          /\ Len(sources) \in Nat /\ Len(candidates) \in Nat
      BY Known
    <3>2. HasLatest(sources)' /\ HasLatest(candidates)'
      BY <1>2, <3>1 DEF HasLatest
    <3> QED  BY <1>2, <3>1, <3>2
  <2>6. "resolveSource" \in Labels
    BY DEF Labels
  <2> QED  BY <1>1, <1>2, <2>1, <2>3, <2>4, <2>5, <2>6, Move
<1>4. ASSUME NEW l \in {"runPhases", "decide", "blockReport"}, NEW x \in Locals,
             record # None, Goto(r, l, x), UNCHANGED <<record, report>>
      PROVE  TypeInv'
  <2>1. l \in Labels /\ LocalOK(record # None, Len(sources), Len(candidates), l, kind[r], x)
    BY <1>4 DEF LocalOK, SourceLabels, ResetLabels, Labels
  <2> QED  BY <1>2, <1>4, <2>1, QuietMove
<1>5. CASE RebuildNothing(r)
  <2>1. record # None
    BY <1>5, Recorded DEF RebuildNothing, ReadFails
  <2> QED  BY <1>1, <1>4, <1>5, <2>1 DEF RebuildNothing
<1>6. CASE SkipLineage(r)
  <2>1. record # None
    BY <1>6, Recorded DEF SkipLineage, ReadFails
  <2>2. [loc[r] EXCEPT !.exists = b, !.old = old] \in Locals
    BY <1>1, LocalsRead
  <2> QED  BY <1>4, <1>6, <2>1, <2>2 DEF SkipLineage
<1>7. CASE ForgetReport(r)
  <2>1. record # None
    BY <1>7, Recorded DEF ForgetReport, ReadFails
  <2> QED  BY <1>1, <1>4, <1>7, <2>1 DEF ForgetReport
<1>8. CASE SkipReset(r)
  <2>1. /\ record # None /\ Goto(r, "resetRecord", loc[r]) /\ UNCHANGED <<record, report>>
        /\ pc[r] = "readReport"
    BY <1>8, Recorded DEF SkipReset, ReadFails
  <2>2. LocalOK(record # None, Len(sources), Len(candidates), "resetRecord", kind[r], loc[r])
    BY <1>1, <2>1 DEF LocalOK, SourceLabels, ResetLabels
  <2> QED  BY <1>1, <1>2, <2>1, <2>2, QuietMove DEF Labels
<1>9. CASE SkipRecord(r) /\ pc[r] = "saveRecord" /\ AfterSave(r)
  <2>1. record # None /\ UNCHANGED <<record, report>>
    BY <1>9, Recorded DEF SkipRecord
  <2>2. Goto(r, "blockReport", loc[r]) \/ Finish(r)
    BY <1>9 DEF AfterSave
  <2> QED  BY <1>1, <1>2, <1>4, <2>1, <2>2, FinishType
<1>10. CASE SkipRecord(r) /\ pc[r] = "resetRecord" /\ AfterReset(r)
  <2>1. record # None /\ UNCHANGED <<record, report>>
    BY <1>10, Recorded DEF SkipRecord
  <2> QED  BY <1>2, <1>10, <2>1, AfterResetType, QuietMove
<1>11. SkipRecord(r) => \/ pc[r] = "saveRecord" /\ AfterSave(r)
                        \/ pc[r] = "resetRecord" /\ AfterReset(r)
  BY DEF SkipRecord, ReadFails
<1> QED  BY <1>3, <1>5, <1>6, <1>7, <1>8, <1>9, <1>10, <1>11 DEF ReadFault

(* Every step of a request keeps the type invariant.                        *)
LEMMA StepType ==
  ASSUME TypeInv, NEW r \in Requests, Step(r)
  PROVE  TypeInv'
BY InsertSourceType, CommitSourceType, InsertCandidateType, CommitCandidateType,
   CreateRecordType, ResolveSourceType, SourcePreflightType, TranslateOkType,
   TranslateFailsType, CandidatePreflightType, LoadCandidateType, LoadSourceType,
   RebuildTranslationType, RunPhasesType, CheckLineageType, DecideType, SaveReportType,
   SaveRecordType, BlockReportType, BlockRecordType, ReadReportType, ResetReportType,
   ResetRecordType DEF Step

(* The type invariant is inductive.                                         *)
LEMMA TypeStep == TypeInv /\ [Next]_vars => TypeInv'
<1> SUFFICES ASSUME TypeInv, [Next]_vars
             PROVE  TypeInv'
  OBVIOUS
<1>1. CASE UNCHANGED vars
  BY <1>1 DEF vars, TypeInv, TypeOK, Locality, HasLatest
<1>2. ASSUME NEW r \in Requests, Arrive(r) \/ Step(r) \/ Crash(r) \/ ReadFault(r)
      PROVE  TypeInv'
  BY <1>2, ArriveType, StepType, CrashType, ReadFaultType
<1> QED  BY <1>1, <1>2 DEF Next

(* The type invariant holds in every state.                                 *)
LEMMA TypeInvariant == Spec => []TypeInv
BY TypeInit, TypeStep, PTL DEF Spec

(* Every table, every request's memory and everything that is saved stay    *)
(* what the readers of api/assurance.py, orchestrator/service.py and        *)
(* assurance/service.py take them for, whatever is interleaved and whatever *)
(* dies half way.                                                           *)
THEOREM TypeCorrect == Spec => []TypeOK
<1>1. TypeInv => TypeOK
  BY DEF TypeInv
<1> QED  BY <1>1, TypeInvariant, PTL

------------------------------------------------------------------------------
(* What no interleaving of any number of requests can break, with any       *)
(* texts, outcomes and faults.                                              *)

(* Executed texts are the texts of the candidates they are attributed to.   *)
BoundTo(rows, cand, tgt) ==
  tgt # None => cand \in 1..Len(rows) /\ rows[cand].text = tgt

BindingInv ==
  /\ report # None => BoundTo(candidates, report.cand, report.tgt)
  /\ \A r \in Requests :
       /\ BoundTo(candidates, loc[r].cand, loc[r].tgt)
       /\ BoundTo(candidates, loc[r].out.cand, loc[r].out.tgt)
       /\ pc[r] \notin ExecuteLabels => loc[r].tgt = None

EarnedReport(rep) == rep.final = "VERIFIED" => DetermineVerified(rep.ev)

EarnedInv ==
  /\ report # None => EarnedReport(report)
  /\ \A r \in Requests : EarnedReport(loc[r].out)

PreflightInv ==
  /\ \A i \in 1..Len(candidates) :
       candidates[i].preflight = "PASS" => candidates[i].text \notin Rejected
  /\ report # None => report.tgt \notin Rejected
  /\ \A r \in Requests : loc[r].tgt \notin Rejected /\ loc[r].out.tgt \notin Rejected

------------------------------------------------------------------------------
(* Most steps touch neither the report nor the candidates, and their        *)
(* request remembers the verdict and the candidate it remembered before, or *)
(* nothing.                                                                 *)

Remembers(x, y) == x.out = y.out /\ x.cand = y.cand /\ x.tgt = y.tgt

Moved(r) ==
  /\ loc' = [loc EXCEPT ![r] = loc'[r]]
  /\ pc' = [pc EXCEPT ![r] = pc'[r]]

Plain(r) ==
  /\ report' = report /\ candidates' = candidates
  /\ Moved(r)
  /\ Remembers(loc'[r], NoLocals) \/ Remembers(loc'[r], loc[r])
  /\ pc[r] \in ExecuteLabels =>
       pc'[r] \in ExecuteLabels \/ Remembers(loc'[r], NoLocals)

(* Locals other than the verdict, the candidate and its text do not matter  *)
(* to what a request remembers.                                             *)
LEMMA KeptMemory ==
  ASSUME NEW x \in Locals, NEW v, NEW w
  PROVE  /\ Remembers([x EXCEPT !.seen = v], x) /\ Remembers([x EXCEPT !.row = v], x)
         /\ Remembers([x EXCEPT !.tr = v], x) /\ Remembers([x EXCEPT !.src = v], x)
         /\ Remembers([x EXCEPT !.ev = v], x) /\ Remembers([x EXCEPT !.old = v], x)
         /\ Remembers([x EXCEPT !.blocked = v], x)
         /\ Remembers([x EXCEPT !.exists = v, !.old = w], x)
         /\ Remembers(x, x)
<1> USE DEF Remembers, Locals
<1>1. Remembers([x EXCEPT !.seen = v], x)     OBVIOUS
<1>2. Remembers([x EXCEPT !.row = v], x)      OBVIOUS
<1>3. Remembers([x EXCEPT !.tr = v], x)       OBVIOUS
<1>4. Remembers([x EXCEPT !.src = v], x)      OBVIOUS
<1>5. Remembers([x EXCEPT !.ev = v], x)       OBVIOUS
<1>6. Remembers([x EXCEPT !.old = v], x)      OBVIOUS
<1>7. Remembers([x EXCEPT !.blocked = v], x)  OBVIOUS
<1>8. Remembers([x EXCEPT !.exists = v, !.old = w], x)  OBVIOUS
<1> QED  BY <1>1, <1>2, <1>3, <1>4, <1>5, <1>6, <1>7, <1>8

(* A request that starts over remembers nothing.                            *)
LEMMA NoLocalsMemory ==
  ASSUME NEW v
  PROVE  Remembers([NoLocals EXCEPT !.text = v], NoLocals) /\ Remembers(NoLocals, NoLocals)
BY DEF Remembers, NoLocals

(* A request that goes to l with locals x has moved, and nobody else has.   *)
LEMMA GotoMoves ==
  ASSUME TypeInv, NEW r \in Requests, NEW l, NEW x, Goto(r, l, x)
  PROVE  /\ Moved(r) /\ loc'[r] = x /\ pc'[r] = l
         /\ \A q \in Requests : q # r => loc'[q] = loc[q] /\ pc'[q] = pc[q]
BY DEF Goto, Moved, TypeInv, TypeOK

(* A step that keeps the report, the candidates and what its request        *)
(* remembers is plain.                                                      *)
LEMMA PlainMove ==
  ASSUME TypeInv, NEW r \in Requests, NEW l, NEW x, Goto(r, l, x),
         report' = report, candidates' = candidates, Remembers(x, loc[r]),
         pc[r] \notin ExecuteLabels \/ l \in ExecuteLabels
  PROVE  Plain(r)
BY GotoMoves DEF Plain

(* A step that keeps the report and the candidates and forgets everything   *)
(* is plain.                                                                *)
LEMMA FreshMove ==
  ASSUME TypeInv, NEW r \in Requests, NEW l, NEW x, Goto(r, l, x),
         report' = report, candidates' = candidates, Remembers(x, NoLocals)
  PROVE  Plain(r)
BY GotoMoves DEF Plain

(* Ending a request is plain.                                               *)
LEMMA FinishPlain ==
  ASSUME TypeInv, NEW r \in Requests, Finish(r), report' = report, candidates' = candidates
  PROVE  Plain(r)
BY FreshMove, NoLocalsMemory DEF Finish

(* The arrival of a request is plain.                                       *)
LEMMA ArrivePlain ==
  ASSUME TypeInv, NEW r \in Requests, Arrive(r)
  PROVE  Plain(r)
<1>1. ASSUME NEW k, NEW l, NEW text, Start(r, k, l, text)
      PROVE  Plain(r)
  BY <1>1, FreshMove, NoLocalsMemory DEF Start
<1> QED  BY <1>1 DEF Arrive, StartRun, StartEditSource, StartEditCandidate, StartExecute

(* The death of a request is plain.                                         *)
LEMMA CrashPlain ==
  ASSUME TypeInv, NEW r \in Requests, Crash(r)
  PROVE  Plain(r)
BY FinishPlain DEF Crash

(* A read that fails is plain: it leaves the report as it was.              *)
LEMMA ReadFaultPlain ==
  ASSUME TypeInv, NEW r \in Requests, ReadFault(r)
  PROVE  Plain(r)
<1> DEFINE x == loc[r]
<1>0. x \in Locals
  BY Known
<1> USE DEF ReadFails, ExecuteLabels
<1>1. CASE RecreateRecord(r)
  BY <1>0, <1>1, KeptMemory, PlainMove DEF RecreateRecord
<1>2. CASE RebuildNothing(r)
  BY <1>0, <1>2, KeptMemory, PlainMove DEF RebuildNothing
<1>3. CASE SkipLineage(r)
  BY <1>0, <1>3, KeptMemory, PlainMove DEF SkipLineage
<1>4. CASE ForgetReport(r)
  BY <1>0, <1>4, KeptMemory, PlainMove DEF ForgetReport
<1>5. CASE SkipReset(r)
  BY <1>0, <1>5, KeptMemory, PlainMove DEF SkipReset
<1>6. CASE SkipRecord(r)
  BY <1>0, <1>6, KeptMemory, PlainMove, FreshMove, FinishPlain, NoLocalsMemory
     DEF SkipRecord, AfterSave, AfterReset
<1> QED  BY <1>1, <1>2, <1>3, <1>4, <1>5, <1>6 DEF ReadFault

PlainStep(r) ==
  \/ InsertSource(r) \/ CommitSource(r) \/ InsertCandidate(r) \/ CreateRecord(r)
  \/ ResolveSource(r) \/ SourcePreflight(r)
  \/ \E t \in Targets : TranslateOk(r, t)
  \/ \E f \in Failures : TranslateFails(r, f)
  \/ LoadSource(r) \/ RebuildTranslation(r)
  \/ \E o \in Outcomes : RunPhases(r, o)
  \/ CheckLineage(r) \/ SaveRecord(r) \/ BlockRecord(r) \/ ReadReport(r) \/ ResetRecord(r)

(* Every step of PlainStep is plain.                                        *)
LEMMA PlainSteps ==
  ASSUME TypeInv, NEW r \in Requests, PlainStep(r)
  PROVE  Plain(r)
<1> DEFINE x == loc[r]
<1>0. x \in Locals
  BY Known
<1> USE DEF At, ExecuteLabels
<1>1. CASE InsertSource(r)
  BY <1>0, <1>1, KeptMemory, PlainMove DEF InsertSource
<1>2. CASE CommitSource(r)
  BY <1>0, <1>2, KeptMemory, PlainMove DEF CommitSource
<1>3. CASE InsertCandidate(r)
  BY <1>0, <1>3, KeptMemory, PlainMove DEF InsertCandidate
<1>4. CASE CreateRecord(r)
  BY <1>0, <1>4, KeptMemory, PlainMove DEF CreateRecord
<1>5. CASE ResolveSource(r)
  BY <1>0, <1>5, KeptMemory, PlainMove DEF ResolveSource
<1>6. CASE SourcePreflight(r)
  BY <1>0, <1>6, KeptMemory, PlainMove DEF SourcePreflight
<1>7. ASSUME NEW t \in Targets, TranslateOk(r, t)
      PROVE  Plain(r)
  BY <1>0, <1>7, KeptMemory, PlainMove DEF TranslateOk
<1>8. ASSUME NEW f \in Failures, TranslateFails(r, f)
      PROVE  Plain(r)
  BY <1>0, <1>8, KeptMemory, PlainMove DEF TranslateFails
<1>9. CASE LoadSource(r)
  BY <1>0, <1>9, KeptMemory, PlainMove DEF LoadSource
<1>10. CASE RebuildTranslation(r)
  BY <1>0, <1>10, KeptMemory, PlainMove DEF RebuildTranslation
<1>11. ASSUME NEW o \in Outcomes, RunPhases(r, o)
       PROVE  Plain(r)
  BY <1>0, <1>11, KeptMemory, PlainMove DEF RunPhases
<1>12. CASE CheckLineage(r)
  BY <1>0, <1>12, KeptMemory, PlainMove, FinishPlain DEF CheckLineage
<1>13. CASE SaveRecord(r)
  BY <1>0, <1>13, KeptMemory, PlainMove, FinishPlain DEF SaveRecord, AfterSave
<1>14. CASE BlockRecord(r)
  BY <1>14, FinishPlain DEF BlockRecord
<1>15. CASE ReadReport(r)
  BY <1>0, <1>15, KeptMemory, PlainMove DEF ReadReport
<1>16. CASE ResetRecord(r)
  BY <1>16, FreshMove, FinishPlain, NoLocalsMemory DEF ResetRecord, AfterReset
<1> QED  BY <1>1, <1>2, <1>3, <1>4, <1>5, <1>6, <1>7, <1>8, <1>9, <1>10, <1>11, <1>12,
            <1>13, <1>14, <1>15, <1>16 DEF PlainStep

(* The other steps.                                                         *)
LEMMA StepCases ==
  ASSUME NEW r \in Requests, Step(r)
  PROVE  \/ PlainStep(r) \/ CommitCandidate(r) \/ CandidatePreflight(r) \/ LoadCandidate(r)
         \/ Decide(r) \/ SaveReport(r) \/ BlockReport(r) \/ ResetReport(r)
BY DEF Step, PlainStep
(* A step leaves the other requests' program counters and locals alone.     *)
LEMMA OthersKeep ==
  ASSUME TypeInv, NEW r \in Requests, Moved(r), NEW q \in Requests, q # r
  PROVE  loc'[q] = loc[q] /\ pc'[q] = pc[q]
BY DEF Moved, TypeInv, TypeOK

(* The candidate, the text and the status of an evaluated report.           *)
LEMMA VerdictFields ==
  ASSUME NEW x
  PROVE  /\ Verdict(x).cand = IF x.cand # 0 THEN x.cand ELSE x.old.cand
         /\ Verdict(x).tgt = x.tgt
         /\ Verdict(x).final = FinalStatus(Verdict(x).ev)
BY DEF Verdict
------------------------------------------------------------------------------
(* The verdict and its evidence travel together: Decide computes one from   *)
(* the other and every later write takes both from the same record.         *)

(* No verdict exists at the start.                                          *)
LEMMA EarnedInit == Init => EarnedInv
BY DEF Init, EarnedInv, EarnedReport, NoLocals, NoReport

(* One request moved; its verdict, and the report, are still earned.        *)
LEMMA EarnedMove ==
  ASSUME TypeInv, EarnedInv, NEW r \in Requests, Moved(r),
         report' # None => EarnedReport(report'), EarnedReport(loc'[r].out)
  PROVE  EarnedInv'
<1>1. ASSUME NEW q \in Requests
      PROVE  EarnedReport(loc'[q].out)
  <2>1. CASE q = r
    BY <2>1
  <2>2. CASE q # r
    BY <2>2, OthersKeep DEF EarnedInv
  <2> QED  BY <2>1, <2>2
<1> QED  BY <1>1 DEF EarnedInv, EarnedReport

(* Plain steps keep every verdict earned.                                   *)
LEMMA EarnedPlain ==
  ASSUME TypeInv, EarnedInv, NEW r \in Requests, Plain(r)
  PROVE  EarnedInv'
<1>1. EarnedReport(NoLocals.out)
  BY DEF EarnedReport, NoLocals, NoReport
<1>2. EarnedReport(loc[r].out) /\ (report # None => EarnedReport(report))
  BY DEF EarnedInv
<1>3. EarnedReport(loc'[r].out)
  BY <1>1, <1>2 DEF Plain, Remembers
<1> QED  BY <1>2, <1>3, EarnedMove DEF Plain

(* No step of a request makes a verdict that its evidence did not earn.     *)
LEMMA EarnedStep ==
  ASSUME TypeInv, EarnedInv, NEW r \in Requests, Step(r)
  PROVE  EarnedInv'
<1>1. /\ loc[r] \in Locals /\ EarnedReport(loc[r].out)
      /\ report # None => EarnedReport(report)
  BY Known DEF EarnedInv
<1>2. EarnedReport(NoLocals.out)
  BY DEF EarnedReport, NoLocals, NoReport
<1>3. ASSUME NEW l, NEW x, Goto(r, l, x), EarnedReport(x.out),
             report' = report \/ EarnedReport(report')
      PROVE  EarnedInv'
  BY <1>1, <1>3, GotoMoves, EarnedMove
<1>4. CASE PlainStep(r)
  BY <1>4, PlainSteps, EarnedPlain
<1>5. CASE CommitCandidate(r)
  <2>1. [loc[r] EXCEPT !.cand = Len(candidates) + 1].out = loc[r].out
    BY <1>1 DEF Locals
  <2> QED  BY <1>1, <1>3, <1>5, <2>1 DEF CommitCandidate
<1>6. CASE CandidatePreflight(r)
  <2>1. /\ [loc[r] EXCEPT !.cand = 0].out = loc[r].out
        /\ [loc[r] EXCEPT !.blocked = TRUE, !.cand = 0].out = loc[r].out
    BY <1>1 DEF Locals
  <2> QED  BY <1>1, <1>3, <1>6, <2>1 DEF CandidatePreflight
<1>7. CASE LoadCandidate(r)
  <2>1. \A i, t : [loc[r] EXCEPT !.cand = i, !.tgt = t].out = loc[r].out
    BY <1>1 DEF Locals
  <2> QED  BY <1>1, <1>2, <1>3, <1>7, <2>1 DEF LoadCandidate, Finish
<1>8. CASE Decide(r)
  <2>1. [loc[r] EXCEPT !.out = Verdict(loc[r])].out = Verdict(loc[r])
    BY <1>1 DEF Locals
  <2>2. EarnedReport(Verdict(loc[r]))
    BY VerdictFields, DecisionSound DEF EarnedReport
  <2> QED  BY <1>2, <1>3, <1>8, <2>1, <2>2 DEF Decide, Finish
<1>9. CASE SaveReport(r)
  BY <1>1, <1>3, <1>9 DEF SaveReport
<1>10. CASE BlockReport(r)
  <2>1. [loc[r].out EXCEPT !.final = "BLOCKED"].final = "BLOCKED"
    BY <1>1 DEF Locals, Report
  <2>2. EarnedReport([loc[r].out EXCEPT !.final = "BLOCKED"])
    BY <2>1 DEF EarnedReport
  <2> QED  BY <1>1, <1>3, <1>10, <2>2 DEF BlockReport
<1>11. CASE ResetReport(r)
  <2>1. \A c, t, e : [NoReport EXCEPT !.cand = c, !.tr = t, !.ev = e].final = "IN_PROGRESS"
    BY DEF NoReport
  <2>2. EarnedReport(report')
    BY <1>11, <2>1 DEF ResetReport, EarnedReport
  <2>3. [loc[r] EXCEPT !.old = NoReport].out = loc[r].out
    BY <1>1 DEF Locals
  <2> QED  BY <1>1, <1>3, <1>11, <2>2, <2>3 DEF ResetReport
<1> QED  BY <1>4, <1>5, <1>6, <1>7, <1>8, <1>9, <1>10, <1>11, StepCases

(* Earned verdicts, in the report and in flight, are inductive.             *)
LEMMA EarnedNext == TypeInv /\ EarnedInv /\ [Next]_vars => EarnedInv'
<1> SUFFICES ASSUME TypeInv, EarnedInv, [Next]_vars
             PROVE  EarnedInv'
  OBVIOUS
<1>1. CASE UNCHANGED vars
  BY <1>1 DEF vars, EarnedInv, EarnedReport
<1>2. ASSUME NEW r \in Requests, Arrive(r) \/ Step(r) \/ Crash(r) \/ ReadFault(r)
      PROVE  EarnedInv'
  BY <1>2, ArrivePlain, CrashPlain, ReadFaultPlain, EarnedPlain, EarnedStep
<1> QED  BY <1>1, <1>2 DEF Next

(* A report says VERIFIED only on evidence that satisfies                   *)
(* determine_verified (assurance/decision.py), however the requests that    *)
(* write it interleave and wherever they die.                               *)
THEOREM VerdictEarnedForever == Spec => []VerifiedIsEarned
<1>1. EarnedInv => VerifiedIsEarned
  BY DEF EarnedInv, EarnedReport, VerifiedIsEarned
<1> QED  BY <1>1, TypeInvariant, EarnedInit, EarnedNext, PTL DEF Spec
------------------------------------------------------------------------------
(* The version tables after the steps that write them.                      *)

(* A committed source version is active and leaves the earlier texts alone. *)
LEMMA SourceCommitted ==
  ASSUME TypeInv, NEW r \in Requests, CommitSource(r)
  PROVE  /\ Len(sources') = Len(sources) + 1
         /\ sources'[Len(sources) + 1].active = TRUE
         /\ \A i \in 1..Len(sources) : sources'[i].text = sources[i].text
<1> DEFINE n == loc[r].seen
           row == [version |-> NextVersion(sources, n), text |-> loc[r].text,
                   active |-> TRUE, preflight |-> "NONE"]
<1>1. /\ Len(sources) \in Nat /\ sources \in Seq(SourceRow) /\ HasLatest(sources)
      /\ LocalOK(record # None, Len(sources), Len(candidates), "commitSource", kind[r], loc[r])
  BY Known DEF CommitSource, At
<1>2. n \in 0..Len(sources) /\ n \in Nat /\ loc[r].text \in Sources
  BY <1>1 DEF LocalOK, SourceLabels
<1>3. NextVersion(sources, n) \in Nat
  BY <1>1, <1>2, SourceRowFacts, NextVersionIsNew
<1>4. row \in SourceRow /\ row.active = TRUE
  BY <1>2, <1>3 DEF SourceRow
<1>5. PICK m \in n..Len(sources) : sources' = Append(Deactivated(sources, m), row)
  BY DEF CommitSource
<1> HIDE DEF n, row
<1>6. /\ Len(sources') = Len(sources) + 1 /\ sources'[Len(sources) + 1] = row
      /\ \A i \in 1..Len(sources) :
           sources'[i] = IF i <= m THEN Cleared(sources[i]) ELSE sources[i]
  <2>1. m \in 0..Len(sources)
    BY <1>1, <1>2
  <2> QED  BY <1>4, <1>5, <2>1, CommittedSources
<1>7. \A x \in SourceRow : Cleared(x).text = x.text
  BY DEF SourceRow, Cleared
<1>8. \A i \in 1..Len(sources) : sources[i] \in SourceRow
  BY SourceText
<1> QED  BY <1>4, <1>6, <1>7, <1>8

(* A committed candidate is active, has no preflight verdict yet and leaves *)
(* the earlier texts and verdicts alone.                                    *)
LEMMA CandidateCommitted ==
  ASSUME TypeInv, NEW r \in Requests, CommitCandidate(r)
  PROVE  /\ Len(candidates') = Len(candidates) + 1
         /\ candidates'[Len(candidates) + 1].active = TRUE
         /\ candidates'[Len(candidates) + 1].preflight = "NONE"
         /\ \A i \in 1..Len(candidates) :
              /\ candidates'[i].text = candidates[i].text
              /\ candidates'[i].preflight = candidates[i].preflight
<1> DEFINE n == loc[r].seen
           user == kind[r] = "edit_candidate"
           row == [version |-> NextVersion(candidates, n),
                   text |-> IF user THEN loc[r].text ELSE loc[r].tr.sql,
                   active |-> TRUE, preflight |-> "NONE",
                   source |-> IF user THEN "USER" ELSE "AI"]
<1>1. /\ Len(candidates) \in Nat /\ candidates \in Seq(CandidateRow) /\ HasLatest(candidates)
      /\ LocalOK(record # None, Len(sources), Len(candidates), "commitCandidate",
                 kind[r], loc[r])
  BY Known DEF CommitCandidate, At
<1>2. n \in 0..Len(candidates) /\ n \in Nat
      /\ (IF user THEN loc[r].text ELSE loc[r].tr.sql) \in Targets
  BY <1>1 DEF LocalOK
<1>3. NextVersion(candidates, n) \in Nat
  BY <1>1, <1>2, CandidateRowFacts, NextVersionIsNew
<1>4. row \in CandidateRow /\ row.active = TRUE /\ row.preflight = "NONE"
  BY <1>2, <1>3 DEF CandidateRow
<1>5. PICK m \in n..Len(candidates) : candidates' = Append(Deactivated(candidates, m), row)
  BY DEF CommitCandidate
<1> HIDE DEF n, row
<1>6. /\ Len(candidates') = Len(candidates) + 1 /\ candidates'[Len(candidates) + 1] = row
      /\ \A i \in 1..Len(candidates) :
           candidates'[i] = IF i <= m THEN Cleared(candidates[i])
                            ELSE candidates[i]
  <2>1. m \in 0..Len(candidates)
    BY <1>1, <1>2
  <2> QED  BY <1>4, <1>5, <2>1, CommittedCandidates
<1>7. \A x \in CandidateRow : /\ Cleared(x).text = x.text
                             /\ Cleared(x).preflight = x.preflight
  BY DEF CandidateRow, Cleared
<1>8. \A i \in 1..Len(candidates) : candidates[i] \in CandidateRow
  BY CandidateText
<1>9. ASSUME NEW i \in 1..Len(candidates)
      PROVE  /\ candidates'[i].text = candidates[i].text
             /\ candidates'[i].preflight = candidates[i].preflight
  BY <1>6, <1>7, <1>8
<1> QED  BY <1>4, <1>6, <1>9

(* The source preflight neither adds, rewrites nor deactivates a version.   *)
LEMMA SourcePreflighted ==
  ASSUME TypeInv, NEW r \in Requests, SourcePreflight(r)
  PROVE  /\ Len(sources') = Len(sources)
         /\ \A i \in 1..Len(sources) : /\ sources'[i].active = sources[i].active
                                       /\ sources'[i].text = sources[i].text
<1> DEFINE i == loc[r].row
           p == Preflight(sources[i].text)
<1>1. /\ sources \in Seq(SourceRow) /\ HasLatest(sources)
      /\ LocalOK(record # None, Len(sources), Len(candidates), "sourcePreflight",
                 kind[r], loc[r])
  BY Known DEF SourcePreflight, At
<1>2. i \in 1..Len(sources) /\ p \in {"PASS", "FAILED"}
  BY <1>1, PreflightValues DEF LocalOK
<1>3. sources' = Stored(sources, i, p)
  BY DEF SourcePreflight, Stored
<1> HIDE DEF p, i
<1>4. /\ \A x \in SourceRow : Marked(x, p) \in SourceRow
      /\ \A x \in SourceRow : Marked(x, p).version = x.version
      /\ \A x \in SourceRow : /\ Marked(x, p).active = x.active
                              /\ Marked(x, p).text = x.text
  BY <1>2 DEF SourceRow, Marked
<1>5. /\ Len(sources') = Len(sources) /\ sources'[i] = Marked(sources[i], p)
      /\ \A j \in 1..Len(sources) : j # i => sources'[j] = sources[j]
  BY <1>1, <1>2, <1>3, <1>4, StoredPreflight
<1>6. sources[i] \in SourceRow
  BY <1>2, SourceText
<1> QED  BY <1>4, <1>5, <1>6

(* The candidate preflight stores the verdict on the row it checked and     *)
(* changes nothing else.                                                    *)
LEMMA CandidatePreflighted ==
  ASSUME TypeInv, NEW r \in Requests, CandidatePreflight(r)
  PROVE  /\ Len(candidates') = Len(candidates) /\ loc[r].cand \in 1..Len(candidates)
         /\ \A i \in 1..Len(candidates) :
              /\ candidates'[i].text = candidates[i].text
              /\ candidates'[i].active = candidates[i].active
              /\ candidates'[i].preflight = IF i = loc[r].cand
                                           THEN Preflight(candidates[i].text)
                                           ELSE candidates[i].preflight
<1> DEFINE i == loc[r].cand
           p == Preflight(candidates[i].text)
<1>1. /\ candidates \in Seq(CandidateRow) /\ HasLatest(candidates)
      /\ LocalOK(record # None, Len(sources), Len(candidates), "candidatePreflight",
                 kind[r], loc[r])
  BY Known DEF CandidatePreflight, At
<1>2. i \in 1..Len(candidates) /\ p \in {"PASS", "FAILED"}
  BY <1>1, PreflightValues DEF LocalOK
<1>3. candidates' = Stored(candidates, i, p)
  BY DEF CandidatePreflight, Stored
<1> HIDE DEF p
<1>4. /\ \A x \in CandidateRow : Marked(x, p) \in CandidateRow
      /\ \A x \in CandidateRow : Marked(x, p).version = x.version
  BY <1>2 DEF CandidateRow, Marked
<1>5. \A x \in CandidateRow : /\ Marked(x, p).active = x.active /\ Marked(x, p).text = x.text
                             /\ Marked(x, p).preflight = p
  BY DEF CandidateRow, Marked
<1>6. /\ Len(candidates') = Len(candidates) /\ candidates'[i] = Marked(candidates[i], p)
      /\ \A j \in 1..Len(candidates) : j # i => candidates'[j] = candidates[j]
  BY <1>1, <1>2, <1>3, <1>4, StoredPreflight
<1>7. candidates[i] \in CandidateRow
  BY <1>2, CandidateText
<1> QED  BY <1>2, <1>5, <1>6, <1>7 DEF p
------------------------------------------------------------------------------
(* A version table that is not empty has an active row.                     *)

(* The other steps do not write the tables.                                 *)
LEMMA TablesKept ==
  ASSUME NEW r \in Requests, Step(r)
  PROVE  /\ sources' = sources \/ CommitSource(r) \/ SourcePreflight(r)
         /\ candidates' = candidates \/ CommitCandidate(r) \/ CandidatePreflight(r)
<1>1. sources' = sources \/ CommitSource(r) \/ SourcePreflight(r)
  BY DEF Step, InsertSource, InsertCandidate, CommitCandidate, CreateRecord, ResolveSource,
         TranslateOk, TranslateFails, CandidatePreflight, LoadCandidate, LoadSource,
         RebuildTranslation, RunPhases, CheckLineage, Decide, SaveReport, SaveRecord,
         BlockReport, BlockRecord, ReadReport, ResetReport, ResetRecord
<1>2. candidates' = candidates \/ CommitCandidate(r) \/ CandidatePreflight(r)
  BY DEF Step, InsertSource, InsertCandidate, CommitSource, CreateRecord, ResolveSource,
         SourcePreflight, TranslateOk, TranslateFails, LoadCandidate, LoadSource,
         RebuildTranslation, RunPhases, CheckLineage, Decide, SaveReport, SaveRecord,
         BlockReport, BlockRecord, ReadReport, ResetReport, ResetRecord
<1> QED  BY <1>1, <1>2

(* No step of a request takes the last active version away.                 *)
LEMMA ActiveStep ==
  ASSUME TypeInv, SomeActive, NEW r \in Requests, Step(r)
  PROVE  SomeActive'
<1>1. /\ DOMAIN sources = 1..Len(sources) /\ DOMAIN candidates = 1..Len(candidates)
      /\ Len(sources) \in Nat /\ Len(candidates) \in Nat
      /\ sources \in Seq(SourceRow) /\ candidates \in Seq(CandidateRow)
  BY Known
<1>2. /\ DOMAIN sources' = 1..Len(sources') /\ DOMAIN candidates' = 1..Len(candidates')
  BY StepType, LenProperties DEF TypeInv, TypeOK
<1>3. sources' # <<>> => Active(sources') # {}
  <2>1. CASE sources' = sources
    BY <2>1 DEF SomeActive
  <2>2. CASE CommitSource(r)
    <3>0. Len(sources') = Len(sources) + 1 /\ sources'[Len(sources) + 1].active = TRUE
      BY <2>2, SourceCommitted
    <3>1. Len(sources) + 1 \in DOMAIN sources'
      BY <1>1, <1>2, <3>0
    <3>2. Len(sources) + 1 \in Active(sources')
      BY <3>0, <3>1 DEF Active
    <3> QED  BY <3>2
  <2>3. CASE SourcePreflight(r)
    <3>0. Len(sources') = Len(sources)
      BY <2>3, SourcePreflighted
    <3>1. DOMAIN sources' = DOMAIN sources
      BY <1>1, <1>2, <3>0
    <3>2. SUFFICES ASSUME sources' # <<>>
                   PROVE  Active(sources') # {}
      OBVIOUS
    <3>3. sources # <<>>
      <4>1. sources' \in Seq(SourceRow)
        BY StepType DEF TypeInv, TypeOK
      <4> QED  BY <1>1, <3>0, <3>2, <4>1, EmptySeq
    <3>4. PICK i \in DOMAIN sources : sources[i].active
      BY <3>3 DEF SomeActive, Active
    <3>5. sources'[i].active
      BY <1>1, <2>3, <3>4, SourcePreflighted
    <3> QED  BY <3>1, <3>5 DEF Active
  <2> QED  BY <2>1, <2>2, <2>3, TablesKept
<1>4. candidates' # <<>> => Active(candidates') # {}
  <2>1. CASE candidates' = candidates
    BY <2>1 DEF SomeActive
  <2>2. CASE CommitCandidate(r)
    <3>0. Len(candidates') = Len(candidates) + 1 /\ candidates'[Len(candidates) + 1].active = TRUE
      BY <2>2, CandidateCommitted
    <3>1. Len(candidates) + 1 \in DOMAIN candidates'
      BY <1>1, <1>2, <3>0
    <3>2. Len(candidates) + 1 \in Active(candidates')
      BY <3>0, <3>1 DEF Active
    <3> QED  BY <3>2
  <2>3. CASE CandidatePreflight(r)
    <3>0. Len(candidates') = Len(candidates) /\ loc[r].cand \in 1..Len(candidates)
      BY <2>3, CandidatePreflighted
    <3>1. DOMAIN candidates' = DOMAIN candidates
      BY <1>1, <1>2, <3>0
    <3>2. candidates # <<>>
      BY <1>1, <3>0
    <3>3. PICK i \in DOMAIN candidates : candidates[i].active
      BY <3>2 DEF SomeActive, Active
    <3>4. candidates'[i].active
      BY <1>1, <2>3, <3>3, CandidatePreflighted
    <3> QED  BY <3>1, <3>4 DEF Active
  <2> QED  BY <2>1, <2>2, <2>3, TablesKept
<1> QED  BY <1>3, <1>4 DEF SomeActive, Active

(* SomeActive is inductive.                                                 *)
LEMMA ActiveNext == TypeInv /\ SomeActive /\ [Next]_vars => SomeActive'
<1> SUFFICES ASSUME TypeInv, SomeActive, [Next]_vars
             PROVE  SomeActive'
  OBVIOUS
<1>1. CASE sources' = sources /\ candidates' = candidates
  BY <1>1 DEF SomeActive, Active
<1>2. ASSUME NEW r \in Requests, Arrive(r) \/ Step(r) \/ Crash(r) \/ ReadFault(r)
      PROVE  SomeActive'
  <2>1. CASE Step(r)
    BY <2>1, ActiveStep
  <2>2. CASE Arrive(r) \/ Crash(r) \/ ReadFault(r)
    BY <1>1, <2>2 DEF Arrive, Crash, Start, StartRun, StartEditSource, StartEditCandidate,
                      StartExecute, ReadFault, RecreateRecord, RebuildNothing, SkipLineage,
                      ForgetReport, SkipReset, SkipRecord, ReadFails
  <2> QED  BY <1>2, <2>1, <2>2
<1> QED  BY <1>1, <1>2 DEF Next, vars

(* create_candidate_version and create_source_candidate_version never       *)
(* leave a migration without an active version, although nothing locks the  *)
(* rows they clear.                                                         *)
THEOREM ActiveForever == Spec => []SomeActive
<1>1. Init => SomeActive
  BY DEF Init, SomeActive
<1> QED  BY <1>1, TypeInvariant, ActiveNext, PTL DEF Spec
------------------------------------------------------------------------------
(* The executed text is the text of the candidate it is attributed to.      *)

(* The candidates only grow, and their texts stay.                          *)
LEMMA TextsKept ==
  ASSUME TypeInv, NEW r \in Requests, Step(r)
  PROVE  /\ Len(candidates) \in Nat /\ Len(candidates') \in Nat
         /\ Len(candidates) <= Len(candidates')
         /\ \A i \in 1..Len(candidates) : candidates'[i].text = candidates[i].text
<1>1. Len(candidates) \in Nat
  BY Known
<1>2. CASE candidates' = candidates
  BY <1>1, <1>2
<1>3. CASE CommitCandidate(r)
  <2>1. /\ Len(candidates') = Len(candidates) + 1
        /\ \A i \in 1..Len(candidates) : candidates'[i].text = candidates[i].text
    BY <1>3, CandidateCommitted
  <2> QED  BY <1>1, <2>1
<1>4. CASE CandidatePreflight(r)
  <2>1. /\ Len(candidates') = Len(candidates)
        /\ \A i \in 1..Len(candidates) : candidates'[i].text = candidates[i].text
    BY <1>4, CandidatePreflighted
  <2> QED  BY <1>1, <2>1
<1> QED  BY <1>2, <1>3, <1>4, TablesKept

(* A text bound to a candidate stays bound: rows are neither removed nor    *)
(* rewritten.                                                               *)
LEMMA BoundStays ==
  ASSUME TypeInv, NEW r \in Requests, Step(r), NEW c, NEW t, BoundTo(candidates, c, t)
  PROVE  BoundTo(candidates', c, t)
BY TextsKept DEF BoundTo

(* Nothing is executed at the start.                                        *)
LEMMA BindingInit == Init => BindingInv
BY DEF Init, BindingInv, BoundTo, NoLocals, NoReport

(* One request moved, with a memory and a report that are bound.            *)
LEMMA BindingMove ==
  ASSUME TypeInv, BindingInv, NEW r \in Requests, Moved(r),
         \A c, t : BoundTo(candidates, c, t) => BoundTo(candidates', c, t),
         report' # None => BoundTo(candidates', report'.cand, report'.tgt),
         BoundTo(candidates', loc'[r].cand, loc'[r].tgt),
         BoundTo(candidates', loc'[r].out.cand, loc'[r].out.tgt),
         pc'[r] \notin ExecuteLabels => loc'[r].tgt = None
  PROVE  BindingInv'
<1>1. ASSUME NEW q \in Requests
      PROVE  /\ BoundTo(candidates', loc'[q].cand, loc'[q].tgt)
             /\ BoundTo(candidates', loc'[q].out.cand, loc'[q].out.tgt)
             /\ pc'[q] \notin ExecuteLabels => loc'[q].tgt = None
  <2>1. CASE q = r
    BY <2>1
  <2>2. CASE q # r
    <3>1. loc'[q] = loc[q] /\ pc'[q] = pc[q]
      BY <2>2, OthersKeep
    <3>2. /\ BoundTo(candidates, loc[q].cand, loc[q].tgt)
          /\ BoundTo(candidates, loc[q].out.cand, loc[q].out.tgt)
          /\ pc[q] \notin ExecuteLabels => loc[q].tgt = None
      BY DEF BindingInv
    <3> QED  BY <3>1, <3>2
  <2> QED  BY <2>1, <2>2
<1> QED  BY <1>1 DEF BindingInv

(* Plain steps keep every executed text bound to its candidate.             *)
LEMMA BindingPlain ==
  ASSUME TypeInv, BindingInv, NEW r \in Requests, Plain(r)
  PROVE  BindingInv'
<1>1. \A c, t : BoundTo(candidates, c, t) => BoundTo(candidates', c, t)
  BY DEF Plain, BoundTo
<1>2. /\ BoundTo(candidates, NoLocals.cand, NoLocals.tgt)
      /\ BoundTo(candidates, NoLocals.out.cand, NoLocals.out.tgt)
      /\ NoLocals.tgt = None
  BY DEF BoundTo, NoLocals, NoReport
<1>3. /\ BoundTo(candidates, loc[r].cand, loc[r].tgt)
      /\ BoundTo(candidates, loc[r].out.cand, loc[r].out.tgt)
      /\ pc[r] \notin ExecuteLabels => loc[r].tgt = None
      /\ report # None => BoundTo(candidates, report.cand, report.tgt)
  BY DEF BindingInv
<1>4. /\ BoundTo(candidates', loc'[r].cand, loc'[r].tgt)
      /\ BoundTo(candidates', loc'[r].out.cand, loc'[r].out.tgt)
      /\ pc'[r] \notin ExecuteLabels => loc'[r].tgt = None
  BY <1>1, <1>2, <1>3 DEF Plain, Remembers
<1>5. report' # None => BoundTo(candidates', report'.cand, report'.tgt)
  BY <1>1, <1>3 DEF Plain
<1> QED  BY <1>1, <1>4, <1>5, BindingMove DEF Plain

(* Every step of a request keeps every executed text bound to its           *)
(* candidate.                                                               *)
LEMMA BindingStep ==
  ASSUME TypeInv, BindingInv, NEW r \in Requests, Step(r)
  PROVE  BindingInv'
<1>1. \A c, t : BoundTo(candidates, c, t) => BoundTo(candidates', c, t)
  BY BoundStays
<1>2. loc[r] \in Locals
  BY Known
<1>3. /\ BoundTo(candidates, loc[r].cand, loc[r].tgt)
      /\ BoundTo(candidates, loc[r].out.cand, loc[r].out.tgt)
      /\ pc[r] \notin ExecuteLabels => loc[r].tgt = None
      /\ report # None => BoundTo(candidates, report.cand, report.tgt)
  BY DEF BindingInv
<1>4. /\ BoundTo(candidates, NoLocals.cand, NoLocals.tgt)
      /\ BoundTo(candidates, NoLocals.out.cand, NoLocals.out.tgt)
      /\ NoLocals.tgt = None
  BY DEF BoundTo, NoLocals, NoReport
<1>5. ASSUME NEW l, NEW x, Goto(r, l, x), l \notin ExecuteLabels => x.tgt = None,
             BoundTo(candidates, x.cand, x.tgt), BoundTo(candidates, x.out.cand, x.out.tgt),
             report' = report \/ BoundTo(candidates, report'.cand, report'.tgt)
      PROVE  BindingInv'
  <2>1. Moved(r) /\ loc'[r] = x /\ pc'[r] = l
    BY <1>5, GotoMoves
  <2>2. BoundTo(candidates', x.cand, x.tgt) /\ BoundTo(candidates', x.out.cand, x.out.tgt)
    BY <1>1, <1>5
  <2> QED  BY <1>1, <1>3, <1>5, <2>1, <2>2, BindingMove
<1>6. CASE PlainStep(r)
  BY <1>6, PlainSteps, BindingPlain
<1>7. CASE CommitCandidate(r)
  <2>1. /\ [loc[r] EXCEPT !.cand = Len(candidates) + 1].out = loc[r].out
        /\ [loc[r] EXCEPT !.cand = Len(candidates) + 1].tgt = loc[r].tgt
    BY <1>2 DEF Locals
  <2>2. loc[r].tgt = None
    BY <1>3, <1>7 DEF CommitCandidate, At, ExecuteLabels
  <2> QED  BY <1>3, <1>5, <1>7, <2>1, <2>2 DEF CommitCandidate, BoundTo
<1>8. CASE CandidatePreflight(r)
  <2> DEFINE x == [loc[r] EXCEPT !.cand = 0]
             y == [loc[r] EXCEPT !.blocked = TRUE, !.cand = 0]
  <2>1. x.out = loc[r].out /\ x.tgt = loc[r].tgt /\ y.out = loc[r].out /\ y.tgt = loc[r].tgt
    BY <1>2 DEF Locals
  <2>2. loc[r].tgt = None
    BY <1>3, <1>8 DEF CandidatePreflight, At, ExecuteLabels
  <2>3. /\ report' = report
        /\ \/ Goto(r, "readReport", loc[r])
           \/ Goto(r, "loadCandidate", x)
           \/ Goto(r, "checkLineage", y)
    BY <1>8 DEF CandidatePreflight
  <2> HIDE DEF x, y
  <2>4. /\ BoundTo(candidates, x.cand, x.tgt) /\ BoundTo(candidates, x.out.cand, x.out.tgt)
        /\ BoundTo(candidates, y.cand, y.tgt) /\ BoundTo(candidates, y.out.cand, y.out.tgt)
    BY <1>3, <2>1, <2>2 DEF BoundTo
  <2> QED  BY <1>3, <1>5, <2>1, <2>2, <2>3, <2>4
<1>9. CASE LoadCandidate(r)
  <2>1. /\ DOMAIN candidates = 1..Len(candidates) /\ report' = report
    BY <1>9, Known DEF LoadCandidate
  <2>2. CASE Finish(r)
    BY <1>4, <1>5, <2>1, <2>2 DEF Finish
  <2>3. ASSUME NEW i \in Active(candidates),
               Goto(r, "loadSource", [loc[r] EXCEPT !.cand = i, !.tgt = candidates[i].text])
        PROVE  BindingInv'
    <3> DEFINE x == [loc[r] EXCEPT !.cand = i, !.tgt = candidates[i].text]
    <3>1. x.out = loc[r].out /\ x.cand = i /\ x.tgt = candidates[i].text
      BY <1>2 DEF Locals
    <3>2. Goto(r, "loadSource", x)
      BY <2>3
    <3> HIDE DEF x
    <3>3. BoundTo(candidates, x.cand, x.tgt)
      BY <2>1, <3>1 DEF BoundTo, Active
    <3>4. BoundTo(candidates, x.out.cand, x.out.tgt) /\ "loadSource" \in ExecuteLabels
      BY <1>3, <3>1 DEF ExecuteLabels
    <3> QED  BY <1>5, <2>1, <3>2, <3>3, <3>4
  <2> QED  BY <1>9, <2>2, <2>3 DEF LoadCandidate
<1>10. CASE Decide(r)
  <2> DEFINE x == [loc[r] EXCEPT !.out = Verdict(loc[r])]
  <2>1. x.out = Verdict(loc[r]) /\ x.cand = loc[r].cand /\ x.tgt = loc[r].tgt
    BY <1>2 DEF Locals
  <2>2. report' = report /\ (Finish(r) \/ Goto(r, "saveReport", x))
    BY <1>10 DEF Decide
  <2> HIDE DEF x
  <2>3. BoundTo(candidates, x.out.cand, x.out.tgt)
    BY <1>3, <2>1, VerdictFields DEF BoundTo
  <2>4. report' = report /\ "saveReport" \in ExecuteLabels
    BY <1>10 DEF Decide, ExecuteLabels
  <2> QED  BY <1>3, <1>4, <1>5, <2>1, <2>2, <2>3, <2>4 DEF Finish
<1>11. CASE SaveReport(r)
  BY <1>3, <1>5, <1>11 DEF SaveReport, ExecuteLabels
<1>12. CASE BlockReport(r)
  <2>1. /\ [loc[r].out EXCEPT !.final = "BLOCKED"].cand = loc[r].out.cand
        /\ [loc[r].out EXCEPT !.final = "BLOCKED"].tgt = loc[r].out.tgt
    BY <1>2 DEF Locals, Report
  <2> QED  BY <1>3, <1>5, <1>12, <2>1 DEF BlockReport, ExecuteLabels
<1>13. CASE ResetReport(r)
  <2>1. \A c, t, e : [NoReport EXCEPT !.cand = c, !.tr = t, !.ev = e].tgt = None
    BY DEF NoReport
  <2>2. report'.tgt = None
    BY <1>13, <2>1 DEF ResetReport
  <2>3. /\ [loc[r] EXCEPT !.old = NoReport].out = loc[r].out
        /\ [loc[r] EXCEPT !.old = NoReport].cand = loc[r].cand
        /\ [loc[r] EXCEPT !.old = NoReport].tgt = loc[r].tgt
    BY <1>2 DEF Locals
  <2>4. loc[r].tgt = None
    BY <1>3, <1>13 DEF ResetReport, At, ExecuteLabels
  <2>5. BoundTo(candidates, report'.cand, report'.tgt)
    BY <2>2 DEF BoundTo
  <2> QED  BY <1>3, <1>5, <1>13, <2>3, <2>4, <2>5 DEF ResetReport
<1> QED  BY <1>6, <1>7, <1>8, <1>9, <1>10, <1>11, <1>12, <1>13, StepCases

(* The binding of executed texts to candidates is inductive.                *)
LEMMA BindingNext == TypeInv /\ BindingInv /\ [Next]_vars => BindingInv'
<1> SUFFICES ASSUME TypeInv, BindingInv, [Next]_vars
             PROVE  BindingInv'
  OBVIOUS
<1>1. CASE UNCHANGED vars
  BY <1>1 DEF vars, BindingInv, BoundTo
<1>2. ASSUME NEW r \in Requests, Arrive(r) \/ Step(r) \/ Crash(r) \/ ReadFault(r)
      PROVE  BindingInv'
  BY <1>2, ArrivePlain, CrashPlain, ReadFaultPlain, BindingPlain, BindingStep
<1> QED  BY <1>1, <1>2 DEF Next

(* The candidate_id of a saved report is the candidate whose SQL ran: a     *)
(* concurrent edit replaces the report or loses the race, and never lends   *)
(* its candidate to an execution of another text.                           *)
THEOREM CandidateBoundForever == Spec => []CandidateBinding
<1>1. TypeInv /\ BindingInv => CandidateBinding
  <2> SUFFICES ASSUME TypeInv, BindingInv
               PROVE  CandidateBinding
    OBVIOUS
  <2>1. DOMAIN candidates = 1..Len(candidates)
    BY LenProperties DEF TypeInv, TypeOK
  <2> QED  BY <2>1 DEF BindingInv, BoundTo, CandidateBinding
<1> QED  BY <1>1, TypeInvariant, BindingInit, BindingNext, PTL DEF Spec
------------------------------------------------------------------------------
(* What ran passed the schema preflight.                                    *)

(* A PASS that is stored is the verdict on the row's own text, which never  *)
(* changes, and LoadCandidate takes no other row.                           *)
LEMMA PreflightInit == Init => PreflightInv
<1>1. None \notin Rejected
  BY PipelineAssumption
<1> QED  BY <1>1, EmptySeq DEF Init, PreflightInv, NoLocals, NoReport

(* A candidate whose stored preflight is PASS is not a rejected text.       *)
LEMMA PassedStays ==
  ASSUME TypeInv, PreflightInv, NEW r \in Requests, Step(r), NEW i \in 1..Len(candidates'),
         candidates'[i].preflight = "PASS"
  PROVE  candidates'[i].text \notin Rejected
<1>1. Len(candidates) \in Nat
  BY Known
<1>2. CASE candidates' = candidates
  BY <1>2 DEF PreflightInv
<1>3. CASE CommitCandidate(r)
  <2>1. /\ Len(candidates') = Len(candidates) + 1
        /\ candidates'[Len(candidates) + 1].preflight = "NONE"
        /\ \A j \in 1..Len(candidates) :
             /\ candidates'[j].text = candidates[j].text
             /\ candidates'[j].preflight = candidates[j].preflight
    BY <1>3, CandidateCommitted
  <2>2. i \in 1..Len(candidates)
    BY <1>1, <2>1
  <2> QED  BY <2>1, <2>2 DEF PreflightInv
<1>4. CASE CandidatePreflight(r)
  <2>1. /\ i \in 1..Len(candidates) /\ candidates'[i].text = candidates[i].text
        /\ candidates'[i].preflight = IF i = loc[r].cand THEN Preflight(candidates[i].text)
                                     ELSE candidates[i].preflight
    BY <1>4, CandidatePreflighted
  <2> QED  BY <2>1 DEF PreflightInv, Preflight
<1> QED  BY <1>2, <1>3, <1>4, TablesKept

(* A step of one request keeps PreflightInv if the tables and its own       *)
(* locals do.                                                               *)
LEMMA PreflightMove ==
  ASSUME TypeInv, PreflightInv, NEW r \in Requests, Moved(r),
         \A i \in 1..Len(candidates') :
           candidates'[i].preflight = "PASS" => candidates'[i].text \notin Rejected,
         report' # None => report'.tgt \notin Rejected,
         loc'[r].tgt \notin Rejected, loc'[r].out.tgt \notin Rejected
  PROVE  PreflightInv'
<1>1. ASSUME NEW q \in Requests
      PROVE  loc'[q].tgt \notin Rejected /\ loc'[q].out.tgt \notin Rejected
  <2>1. CASE q = r
    BY <2>1
  <2>2. CASE q # r
    BY <2>2, OthersKeep DEF PreflightInv
  <2> QED  BY <2>1, <2>2
<1> QED  BY <1>1 DEF PreflightInv

(* Plain steps keep rejected texts unexecuted.                              *)
LEMMA PreflightPlain ==
  ASSUME TypeInv, PreflightInv, NEW r \in Requests, Plain(r)
  PROVE  PreflightInv'
<1>1. NoLocals.tgt \notin Rejected /\ NoLocals.out.tgt \notin Rejected
  BY PipelineAssumption DEF NoLocals, NoReport
<1>2. /\ loc[r].tgt \notin Rejected /\ loc[r].out.tgt \notin Rejected
      /\ report # None => report.tgt \notin Rejected
      /\ \A i \in 1..Len(candidates) :
           candidates[i].preflight = "PASS" => candidates[i].text \notin Rejected
  BY DEF PreflightInv
<1>3. loc'[r].tgt \notin Rejected /\ loc'[r].out.tgt \notin Rejected
  BY <1>1, <1>2 DEF Plain, Remembers
<1> QED  BY <1>2, <1>3, PreflightMove DEF Plain

(* Every step of a request keeps rejected texts unexecuted.                 *)
LEMMA PreflightStep ==
  ASSUME TypeInv, PreflightInv, NEW r \in Requests, Step(r)
  PROVE  PreflightInv'
<1>1. \A i \in 1..Len(candidates') :
        candidates'[i].preflight = "PASS" => candidates'[i].text \notin Rejected
  BY PassedStays
<1>2. /\ loc[r] \in Locals /\ loc[r].tgt \notin Rejected /\ loc[r].out.tgt \notin Rejected
      /\ report # None => report.tgt \notin Rejected
  BY Known DEF PreflightInv
<1>3. None \notin Rejected /\ NoLocals.tgt \notin Rejected /\ NoLocals.out.tgt \notin Rejected
  BY PipelineAssumption DEF NoLocals, NoReport
<1>4. ASSUME NEW l, NEW x, Goto(r, l, x), x.tgt \notin Rejected, x.out.tgt \notin Rejected,
             report' = report \/ report'.tgt \notin Rejected
      PROVE  PreflightInv'
  <2>1. Moved(r) /\ loc'[r] = x
    BY <1>4, GotoMoves
  <2> QED  BY <1>1, <1>2, <1>4, <2>1, PreflightMove
<1>5. CASE PlainStep(r)
  BY <1>5, PlainSteps, PreflightPlain
<1>6. CASE CommitCandidate(r)
  <2>1. /\ [loc[r] EXCEPT !.cand = Len(candidates) + 1].out = loc[r].out
        /\ [loc[r] EXCEPT !.cand = Len(candidates) + 1].tgt = loc[r].tgt
    BY <1>2 DEF Locals
  <2> QED  BY <1>2, <1>4, <1>6, <2>1 DEF CommitCandidate
<1>7. CASE CandidatePreflight(r)
  <2> DEFINE x == [loc[r] EXCEPT !.cand = 0]
             y == [loc[r] EXCEPT !.blocked = TRUE, !.cand = 0]
  <2>1. x.out = loc[r].out /\ x.tgt = loc[r].tgt /\ y.out = loc[r].out /\ y.tgt = loc[r].tgt
    BY <1>2 DEF Locals
  <2>2. /\ report' = report
        /\ \/ Goto(r, "readReport", loc[r])
           \/ Goto(r, "loadCandidate", x)
           \/ Goto(r, "checkLineage", y)
    BY <1>7 DEF CandidatePreflight
  <2> HIDE DEF x, y
  <2> QED  BY <1>2, <1>4, <2>1, <2>2
<1>8. CASE LoadCandidate(r)
  <2>1. DOMAIN candidates = 1..Len(candidates) /\ report' = report
    BY <1>8, Known DEF LoadCandidate
  <2>2. CASE Finish(r)
    BY <1>3, <1>4, <2>1, <2>2 DEF Finish
  <2>3. ASSUME NEW i \in Active(candidates), candidates[i].preflight = "PASS",
               Goto(r, "loadSource", [loc[r] EXCEPT !.cand = i, !.tgt = candidates[i].text])
        PROVE  PreflightInv'
    <3> DEFINE x == [loc[r] EXCEPT !.cand = i, !.tgt = candidates[i].text]
    <3>1. x.out = loc[r].out /\ x.tgt = candidates[i].text
      BY <1>2 DEF Locals
    <3>2. Goto(r, "loadSource", x)
      BY <2>3
    <3> HIDE DEF x
    <3>3. candidates[i].text \notin Rejected
      BY <2>1, <2>3 DEF Active, PreflightInv
    <3> QED  BY <1>2, <1>4, <2>1, <3>1, <3>2, <3>3
  <2> QED  BY <1>8, <2>2, <2>3 DEF LoadCandidate
<1>9. CASE Decide(r)
  <2> DEFINE x == [loc[r] EXCEPT !.out = Verdict(loc[r])]
  <2>1. x.out = Verdict(loc[r]) /\ x.tgt = loc[r].tgt
    BY <1>2 DEF Locals
  <2>2. report' = report /\ (Finish(r) \/ Goto(r, "saveReport", x))
    BY <1>9 DEF Decide
  <2> HIDE DEF x
  <2>3. x.out.tgt \notin Rejected
    BY <1>2, <2>1, VerdictFields
  <2> QED  BY <1>2, <1>3, <1>4, <2>1, <2>2, <2>3 DEF Finish
<1>10. CASE SaveReport(r)
  BY <1>2, <1>4, <1>10 DEF SaveReport
<1>11. CASE BlockReport(r)
  <2>1. [loc[r].out EXCEPT !.final = "BLOCKED"].tgt = loc[r].out.tgt
    BY <1>2 DEF Locals, Report
  <2> QED  BY <1>2, <1>4, <1>11, <2>1 DEF BlockReport
<1>12. CASE ResetReport(r)
  <2>1. \A c, t, e : [NoReport EXCEPT !.cand = c, !.tr = t, !.ev = e].tgt = None
    BY DEF NoReport
  <2>2. report'.tgt = None
    BY <1>12, <2>1 DEF ResetReport
  <2>3. /\ [loc[r] EXCEPT !.old = NoReport].out = loc[r].out
        /\ [loc[r] EXCEPT !.old = NoReport].tgt = loc[r].tgt
    BY <1>2 DEF Locals
  <2> QED  BY <1>2, <1>3, <1>4, <1>12, <2>2, <2>3 DEF ResetReport
<1> QED  BY <1>5, <1>6, <1>7, <1>8, <1>9, <1>10, <1>11, <1>12, StepCases

(* That rejected texts are not executed is inductive.                       *)
LEMMA PreflightNext == TypeInv /\ PreflightInv /\ [Next]_vars => PreflightInv'
<1> SUFFICES ASSUME TypeInv, PreflightInv, [Next]_vars
             PROVE  PreflightInv'
  OBVIOUS
<1>1. CASE UNCHANGED vars
  BY <1>1 DEF vars, PreflightInv
<1>2. ASSUME NEW r \in Requests, Arrive(r) \/ Step(r) \/ Crash(r) \/ ReadFault(r)
      PROVE  PreflightInv'
  BY <1>2, ArrivePlain, CrashPlain, ReadFaultPlain, PreflightPlain, PreflightStep
<1> QED  BY <1>1, <1>2 DEF Next

(* A source version counts as checked from the preflight that let it        *)
(* through to the phases of that pass; POST /execute checks none.           *)
CheckedSource(k, l) ==
  \/ l = "translate"
  \/ l \in {"insertCandidate", "commitCandidate", "candidatePreflight"}
     /\ k # "edit_candidate"
  \/ l \in {"loadCandidate", "loadSource", "runPhases"} /\ k # "execute"

SourceHeld(rows, k, l, x) ==
  /\ l = "rebuildTranslation" => k = "execute"
  /\ CheckedSource(k, l) =>
       /\ x.row \in 1..Len(rows) /\ rows[x.row].text \notin Rejected
       /\ l = "runPhases" /\ Active(rows) = {x.row} => x.src = rows[x.row].text

SourceInv == \A r \in Requests : SourceHeld(sources, kind[r], pc[r], loc[r])

(* Nothing is checked, nor rebuilt, at the start.                           *)
LEMMA SourceInit == Init => SourceInv
BY DEF Init, SourceInv, SourceHeld, CheckedSource

(* What a request holds of the sources survives every step: the texts stay, *)
(* and after a commit the version it checked is not alone active.           *)
LEMMA SourceStays ==
  ASSUME TypeInv, NEW r \in Requests, Step(r), NEW k, NEW l, NEW x,
         SourceHeld(sources, k, l, x)
  PROVE  SourceHeld(sources', k, l, x)
<1>1. Len(sources) \in Nat /\ DOMAIN sources = 1..Len(sources)
  BY Known
<1>2. DOMAIN sources' = 1..Len(sources')
  BY StepType, LenProperties DEF TypeInv, TypeOK
<1>3. CASE sources' = sources
  BY <1>3
<1>4. CASE CommitSource(r)
  <2>1. /\ Len(sources') = Len(sources) + 1 /\ sources'[Len(sources) + 1].active
        /\ \A i \in 1..Len(sources) : sources'[i].text = sources[i].text
    BY <1>4, SourceCommitted
  <2>2. Len(sources) + 1 \in Active(sources')
    BY <1>1, <1>2, <2>1 DEF Active
  <2>3. x.row \in 1..Len(sources) => Active(sources') # {x.row} /\ x.row \in 1..Len(sources')
    BY <1>1, <2>1, <2>2
  <2> QED  BY <2>1, <2>3 DEF SourceHeld
<1>5. CASE SourcePreflight(r)
  <2>1. /\ Len(sources') = Len(sources)
        /\ \A i \in 1..Len(sources) : /\ sources'[i].active = sources[i].active
                                      /\ sources'[i].text = sources[i].text
    BY <1>5, SourcePreflighted
  <2>2. Active(sources') = Active(sources)
    BY <1>1, <1>2, <2>1 DEF Active
  <2> QED  BY <2>1, <2>2 DEF SourceHeld
<1> QED  BY <1>3, <1>4, <1>5, TablesKept

(* One request moved to label l with locals x, and nobody lost anything.    *)
LEMMA SourceMove ==
  ASSUME TypeInv, SourceInv, NEW r \in Requests, NEW l, NEW x, Goto(r, l, x),
         \A q \in Requests : q # r => kind'[q] = kind[q],
         \A q \in Requests : SourceHeld(sources', kind[q], pc[q], loc[q]),
         SourceHeld(sources', kind'[r], l, x)
  PROVE  SourceInv'
<1>1. ASSUME NEW q \in Requests
      PROVE  SourceHeld(sources', kind'[q], pc'[q], loc'[q])
  <2>1. CASE q = r
    <3>1. loc'[q] = x /\ pc'[q] = l
      BY <2>1, GotoMoves
    <3> QED  BY <2>1, <3>1
  <2>2. CASE q # r
    <3>1. loc'[q] = loc[q] /\ pc'[q] = pc[q] /\ kind'[q] = kind[q]
      BY <2>2, GotoMoves
    <3> QED  BY <3>1
  <2> QED  BY <2>1, <2>2
<1> QED  BY <1>1 DEF SourceInv, SourceHeld, Active

FreeOfSource == Labels \ {"translate", "insertCandidate", "commitCandidate",
                          "candidatePreflight", "loadCandidate", "loadSource",
                          "rebuildTranslation", "runPhases"}

(* Other labels rely on no checked source.                                  *)
LEMMA NothingHeld ==
  ASSUME NEW rows, NEW k, NEW l \in FreeOfSource, NEW x
  PROVE  SourceHeld(rows, k, l, x)
BY DEF FreeOfSource, SourceHeld, CheckedSource

(* Every step of a request keeps what is held of the sources.               *)
LEMMA SourceStep ==
  ASSUME TypeInv, SourceInv, NEW r \in Requests, Step(r)
  PROVE  SourceInv'
<1>0. /\ loc[r] \in Locals /\ kind' = kind
      /\ LocalOK(record # None, Len(sources), Len(candidates), pc[r], kind[r], loc[r])
  BY Known DEF Step, At, InsertSource, CommitSource, InsertCandidate, CommitCandidate,
     CreateRecord, ResolveSource, SourcePreflight, TranslateOk, TranslateFails,
     CandidatePreflight, LoadCandidate, LoadSource, RebuildTranslation, RunPhases,
     CheckLineage, Decide, SaveReport, SaveRecord, BlockReport, BlockRecord, ReadReport,
     ResetReport, ResetRecord
<1>1. \A q \in Requests : SourceHeld(sources', kind[q], pc[q], loc[q])
  BY SourceStays DEF SourceInv
<1>2. ASSUME NEW l, NEW x, Goto(r, l, x), SourceHeld(sources', kind[r], l, x)
      PROVE  SourceInv'
  BY <1>0, <1>1, <1>2, SourceMove
<1>3. ASSUME NEW l \in FreeOfSource, NEW x, Goto(r, l, x)
      PROVE  SourceInv'
  BY <1>2, <1>3, NothingHeld
<1>4. ASSUME Finish(r)
      PROVE  SourceInv'
  BY <1>3, <1>4 DEF Finish, FreeOfSource, Labels
<1> USE DEF At
<1>5. CASE InsertSource(r) \/ CommitSource(r) \/ CreateRecord(r) \/ ResolveSource(r)
  BY <1>3, <1>5
     DEF InsertSource, CommitSource, CreateRecord, ResolveSource, FreeOfSource, Labels
<1>6. CASE SourcePreflight(r)
  <2>1. CASE Goto(r, "checkLineage", [loc[r] EXCEPT !.blocked = TRUE])
    BY <1>3, <2>1 DEF FreeOfSource, Labels
  <2>2. CASE Goto(r, "translate", loc[r]) /\ Preflight(sources[loc[r].row].text) = "PASS"
    <3>1. loc[r].row \in 1..Len(sources)
      BY <1>0, <1>6 DEF SourcePreflight, LocalOK
    <3>2. sources[loc[r].row].text \notin Rejected
      BY <2>2 DEF Preflight
    <3>3. /\ Len(sources') = Len(sources)
          /\ sources'[loc[r].row].text = sources[loc[r].row].text
      BY <1>6, <3>1, SourcePreflighted
    <3>4. SourceHeld(sources', kind[r], "translate", loc[r])
      BY <3>1, <3>2, <3>3 DEF SourceHeld
    <3> QED  BY <1>2, <2>2, <3>4
  <2> QED  BY <1>6, <2>1, <2>2 DEF SourcePreflight
<1>7. ASSUME NEW t \in Targets, TranslateOk(r, t)
      PROVE  SourceInv'
  <2> DEFINE x == [loc[r] EXCEPT !.tr = [status |-> "SUCCESS", valid |-> "VALID_SYNTAX",
                                         error |-> "NONE", sql |-> t, hash |-> loc[r].text,
                                         of |-> sources[loc[r].row].text]]
  <2>1. x.row = loc[r].row
    BY <1>0 DEF Locals
  <2>2. Goto(r, "insertCandidate", x) /\ pc[r] = "translate"
    BY <1>7 DEF TranslateOk
  <2> HIDE DEF x
  <2>3. SourceHeld(sources', kind[r], "insertCandidate", x)
    BY <1>1, <2>1, <2>2 DEF SourceHeld, CheckedSource
  <2> QED  BY <1>2, <2>2, <2>3
<1>8. ASSUME NEW f \in Failures, TranslateFails(r, f)
      PROVE  SourceInv'
  BY <1>3, <1>8 DEF TranslateFails, FreeOfSource, Labels
<1>9. CASE InsertCandidate(r)
  <2> DEFINE x == [loc[r] EXCEPT !.seen = Len(candidates)]
  <2>1. x.row = loc[r].row
    BY <1>0 DEF Locals
  <2>2. Goto(r, "commitCandidate", x) /\ pc[r] = "insertCandidate"
    BY <1>9 DEF InsertCandidate
  <2> HIDE DEF x
  <2>3. SourceHeld(sources', kind[r], "commitCandidate", x)
    BY <1>1, <2>1, <2>2 DEF SourceHeld, CheckedSource
  <2> QED  BY <1>2, <2>2, <2>3
<1>10. CASE CommitCandidate(r)
  <2> DEFINE x == [loc[r] EXCEPT !.cand = Len(candidates) + 1]
  <2>1. x.row = loc[r].row
    BY <1>0 DEF Locals
  <2>2. Goto(r, "candidatePreflight", x) /\ pc[r] = "commitCandidate"
    BY <1>10 DEF CommitCandidate
  <2> HIDE DEF x
  <2>3. SourceHeld(sources', kind[r], "candidatePreflight", x)
    BY <1>1, <2>1, <2>2 DEF SourceHeld, CheckedSource
  <2> QED  BY <1>2, <2>2, <2>3
<1>11. CASE CandidatePreflight(r)
  <2> DEFINE x == [loc[r] EXCEPT !.cand = 0]
             y == [loc[r] EXCEPT !.blocked = TRUE, !.cand = 0]
  <2>1. x.row = loc[r].row
    BY <1>0 DEF Locals
  <2>2. /\ pc[r] = "candidatePreflight"
        /\ \/ Goto(r, "readReport", loc[r])
           \/ kind[r] # "edit_candidate" /\ Goto(r, "loadCandidate", x)
           \/ Goto(r, "checkLineage", y)
    BY <1>11 DEF CandidatePreflight
  <2> HIDE DEF x, y
  <2>3. kind[r] # "edit_candidate" => SourceHeld(sources', kind[r], "loadCandidate", x)
    BY <1>1, <2>1, <2>2 DEF SourceHeld, CheckedSource
  <2>4. {"readReport", "checkLineage"} \subseteq FreeOfSource
    BY DEF FreeOfSource, Labels
  <2> QED  BY <1>2, <1>3, <2>2, <2>3, <2>4
<1>12. CASE LoadCandidate(r)
  <2>1. ASSUME NEW i \in Active(candidates),
               Goto(r, "loadSource", [loc[r] EXCEPT !.cand = i, !.tgt = candidates[i].text])
        PROVE  SourceInv'
    <3> DEFINE x == [loc[r] EXCEPT !.cand = i, !.tgt = candidates[i].text]
    <3>1. x.row = loc[r].row
      BY <1>0 DEF Locals
    <3>2. Goto(r, "loadSource", x) /\ pc[r] = "loadCandidate"
      BY <1>12, <2>1 DEF LoadCandidate
    <3> HIDE DEF x
    <3>3. SourceHeld(sources', kind[r], "loadSource", x)
      BY <1>1, <3>1, <3>2 DEF SourceHeld, CheckedSource
    <3> QED  BY <1>2, <3>2, <3>3
  <2> QED  BY <1>4, <1>12, <2>1 DEF LoadCandidate
<1>13. CASE LoadSource(r)
  <2>1. PICK text \in ActiveSourceTexts :
          Goto(r, IF kind[r] = "execute" THEN "rebuildTranslation" ELSE "runPhases",
               [loc[r] EXCEPT !.src = text])
    BY <1>13 DEF LoadSource
  <2> DEFINE x == [loc[r] EXCEPT !.src = text]
  <2>2. x.row = loc[r].row /\ x.src = text
    BY <1>0 DEF Locals
  <2> HIDE DEF x
  <2>3. CASE kind[r] = "execute" /\ Goto(r, "rebuildTranslation", x)
    <3>1. SourceHeld(sources', kind[r], "rebuildTranslation", x)
      BY <2>3 DEF SourceHeld, CheckedSource
    <3> QED  BY <1>2, <2>3, <3>1
  <2>4. CASE kind[r] # "execute" /\ Goto(r, "runPhases", x)
    <3>1. pc[r] = "loadSource" /\ sources' = sources
      BY <1>13 DEF LoadSource
    <3>2. x.row \in 1..Len(sources) /\ sources[x.row].text \notin Rejected
      BY <1>1, <2>2, <2>4, <3>1 DEF SourceHeld, CheckedSource
    <3>3. Active(sources) = {x.row} => x.src = sources[x.row].text
      BY <2>2 DEF ActiveSourceTexts
    <3>4. SourceHeld(sources', kind[r], "runPhases", x)
      BY <3>1, <3>2, <3>3 DEF SourceHeld
    <3> QED  BY <1>2, <2>4, <3>4
  <2> QED  BY <2>1, <2>3, <2>4 DEF x
<1>14. CASE RebuildTranslation(r)
  <2>1. PICK x : Goto(r, "runPhases", x)
    BY <1>14 DEF RebuildTranslation
  <2>2. kind[r] = "execute"
    BY <1>14 DEF RebuildTranslation, SourceInv, SourceHeld
  <2>3. SourceHeld(sources', kind[r], "runPhases", x)
    BY <2>2 DEF SourceHeld, CheckedSource
  <2> QED  BY <1>2, <2>1, <2>3
<1>15. ASSUME NEW o \in Outcomes, RunPhases(r, o)
       PROVE  SourceInv'
  BY <1>3, <1>15 DEF RunPhases, FreeOfSource, Labels
<1>16. CASE CheckLineage(r) \/ Decide(r) \/ SaveReport(r) \/ SaveRecord(r) \/ BlockReport(r)
            \/ BlockRecord(r)
  BY <1>3, <1>4, <1>16
     DEF CheckLineage, Decide, SaveReport, SaveRecord, AfterSave, BlockReport, BlockRecord,
         FreeOfSource, Labels
<1>17. CASE ReadReport(r) \/ ResetReport(r) \/ ResetRecord(r)
  BY <1>3, <1>4, <1>17
     DEF ReadReport, ResetReport, ResetRecord, AfterReset, FreeOfSource, Labels
<1> QED  BY <1>5, <1>6, <1>7, <1>8, <1>9, <1>10, <1>11, <1>12, <1>13, <1>14, <1>15, <1>16,
            <1>17 DEF Step

(* SourceInv is inductive.                                                  *)
LEMMA SourceNext == TypeInv /\ SourceInv /\ [Next]_vars => SourceInv'
<1> SUFFICES ASSUME TypeInv, SourceInv, [Next]_vars
             PROVE  SourceInv'
  OBVIOUS
<1>1. CASE UNCHANGED vars
  BY <1>1 DEF vars, SourceInv
<1>2. ASSUME NEW r \in Requests, sources' = sources, NEW l, NEW x, Goto(r, l, x),
             \A q \in Requests : q # r => kind'[q] = kind[q],
             SourceHeld(sources, kind'[r], l, x)
      PROVE  SourceInv'
  <2>1. \A q \in Requests : SourceHeld(sources', kind[q], pc[q], loc[q])
    BY <1>2 DEF SourceInv
  <2> QED  BY <1>2, <2>1, SourceMove
<1>3. ASSUME NEW r \in Requests, Step(r)
      PROVE  SourceInv'
  BY <1>3, SourceStep
<1>4. ASSUME NEW r \in Requests, Crash(r)
      PROVE  SourceInv'
  <2>1. Goto(r, "done", NoLocals) /\ sources' = sources /\ kind' = kind
    BY <1>4 DEF Crash, Finish
  <2>2. SourceHeld(sources, kind'[r], "done", NoLocals)
    BY NothingHeld DEF FreeOfSource, Labels
  <2> QED  BY <1>2, <2>1, <2>2
<1>5. ASSUME NEW r \in Requests, Arrive(r)
      PROVE  SourceInv'
  <2>1. PICK k, l, text :
          /\ Start(r, k, l, text)
          /\ \/ l \in {"createRecord", "insertSource"}
             \/ k = "edit_candidate" /\ l = "insertCandidate"
             \/ k = "execute" /\ l = "loadCandidate"
    BY <1>5 DEF Arrive, StartRun, StartEditSource, StartEditCandidate, StartExecute
  <2>2. /\ sources' = sources /\ kind' = [kind EXCEPT ![r] = k]
        /\ Goto(r, l, [NoLocals EXCEPT !.text = text])
    BY <2>1 DEF Start
  <2>3. kind'[r] = k /\ \A q \in Requests : q # r => kind'[q] = kind[q]
    BY <2>2, Known
  <2>4. SourceHeld(sources, k, l, [NoLocals EXCEPT !.text = text])
    BY <2>1 DEF SourceHeld, CheckedSource
  <2> QED  BY <1>2, <2>2, <2>3, <2>4
<1>6. ASSUME NEW r \in Requests, ReadFault(r)
      PROVE  SourceInv'
  <2>1. sources' = sources /\ kind' = kind
    BY <1>6 DEF ReadFault, RecreateRecord, RebuildNothing, SkipLineage, ForgetReport,
                SkipReset, SkipRecord, ReadFails
  <2>2. ASSUME NEW l \in FreeOfSource, NEW x, Goto(r, l, x)
        PROVE  SourceInv'
    BY <1>2, <2>1, <2>2, NothingHeld
  <2>3. CASE RebuildNothing(r)
    <3>1. kind[r] = "execute" /\ Goto(r, "runPhases", loc[r])
      BY <2>3 DEF RebuildNothing, ReadFails, SourceInv, SourceHeld
    <3>2. SourceHeld(sources, kind'[r], "runPhases", loc[r])
      BY <2>1, <3>1 DEF SourceHeld, CheckedSource
    <3> QED  BY <1>2, <2>1, <3>1, <3>2
  <2>4. CASE ~RebuildNothing(r)
    <3>1. {"resolveSource", "decide", "resetRecord", "blockReport", "createRecord", "done"}
            \subseteq FreeOfSource
      BY DEF FreeOfSource, Labels
    <3>2. \E l \in FreeOfSource : \E x : Goto(r, l, x)
      BY <1>6, <2>4, <3>1 DEF ReadFault, RecreateRecord, SkipLineage, ForgetReport, SkipReset,
                              SkipRecord, AfterSave, AfterReset, Finish
    <3> QED  BY <2>2, <3>2
  <2> QED  BY <2>3, <2>4
<1> QED  BY <1>1, <1>3, <1>4, <1>5, <1>6 DEF Next

(* No pass executes a candidate the schema preflight rejects, nor, in a     *)
(* pass that checks its source, a rejected source while the version it      *)
(* checked is alone active: rows are stored, preflighted and read again in  *)
(* separate sessions, and any number of edits come between.                 *)
THEOREM PreflightForever == Spec => []ExecutedAsChecked
<1>1. PreflightInv /\ SourceInv => ExecutedAsChecked
  <2> SUFFICES ASSUME PreflightInv, SourceInv, NEW r \in Requests, pc[r] = "runPhases"
               PROVE  /\ loc[r].tgt \notin Rejected
                      /\ kind[r] # "execute" /\ Active(sources) = {loc[r].row}
                           => loc[r].src \notin Rejected
    BY DEF ExecutedAsChecked
  <2>1. loc[r].tgt \notin Rejected
    BY DEF PreflightInv
  <2>2. ASSUME kind[r] # "execute", Active(sources) = {loc[r].row}
        PROVE  loc[r].src \notin Rejected
    BY <2>2 DEF SourceInv, SourceHeld, CheckedSource
  <2> QED  BY <2>1, <2>2
<1> QED  BY <1>1, TypeInvariant, PreflightInit, PreflightNext, SourceInit, SourceNext, PTL
         DEF Spec
------------------------------------------------------------------------------
(* Requests served one at a time.                                           *)

Alone == \A q, r \in Requests : ~Idle(q) /\ ~Idle(r) => q = r

(* The versions number 1, 2, 3... and the last one alone is active.         *)
InOrder(rows) ==
  \A i \in 1..Len(rows) : rows[i].version = i /\ (rows[i].active <=> i = Len(rows))

SeesAll(ns, nc, l, x) ==
  (l = "commitSource" => x.seen = ns) /\ (l = "commitCandidate" => x.seen = nc)

OrderInv ==
  /\ Alone
  /\ InOrder(sources) /\ InOrder(candidates)
  /\ \A r \in Requests : SeesAll(Len(sources), Len(candidates), pc[r], loc[r])

(* Only a request under way makes a step.                                   *)
LEMMA StepBusy ==
  ASSUME NEW r \in Requests, Step(r) \/ Crash(r) \/ ReadFault(r)
  PROVE  ~Idle(r)
<1>1. CASE Step(r)
  BY <1>1 DEF Step, Idle, At, InsertSource, CommitSource, InsertCandidate, CommitCandidate,
     CreateRecord, ResolveSource, SourcePreflight, TranslateOk, TranslateFails,
     CandidatePreflight, LoadCandidate, LoadSource, RebuildTranslation, RunPhases,
     CheckLineage, Decide, SaveReport, SaveRecord, BlockReport, BlockRecord, ReadReport,
     ResetReport, ResetRecord
<1>2. CASE ReadFault(r)
  BY <1>2 DEF Idle, ReadFault, RecreateRecord, RebuildNothing, SkipLineage, ForgetReport,
     SkipReset, SkipRecord, ReadFails
<1> QED  BY <1>1, <1>2 DEF Crash

(* With one request at a time, one arrives only when none is under way.     *)
LEMMA ArriveQuiet ==
  ASSUME MaxInFlight <= 1, Alone, Cardinality(InFlight) < MaxInFlight
  PROVE  Quiescent
<1>0. MaxInFlight \in Nat
  BY PipelineAssumption
<1>1. SUFFICES ASSUME NEW r \in Requests, ~Idle(r)
               PROVE  FALSE
  BY DEF Quiescent
<1>2. InFlight = {r}
  BY <1>1 DEF InFlight, Alone
<1>3. Cardinality(InFlight) = 1
  BY <1>2, FS_Singleton
<1> QED  BY <1>0, <1>3

(* The other requests do not move.                                          *)
LEMMA GotoAlone ==
  ASSUME TypeInv, Alone, NEW r \in Requests, ~Idle(r) \/ Quiescent, NEW l, NEW x, Goto(r, l, x)
  PROVE  /\ \A q \in Requests : q # r => Idle(q) /\ pc'[q] = pc[q] /\ loc'[q] = loc[q]
         /\ pc'[r] = l /\ loc'[r] = x /\ Alone'
<1>1. \A q \in Requests : q # r => Idle(q)
  BY DEF Alone, Quiescent
<1>2. /\ \A q \in Requests : q # r => pc'[q] = pc[q] /\ loc'[q] = loc[q]
      /\ pc'[r] = l /\ loc'[r] = x
  BY GotoMoves
<1>3. \A q \in Requests : q # r => Idle(q)'
  BY <1>1, <1>2 DEF Idle
<1> QED  BY <1>1, <1>2, <1>3 DEF Alone

(* A request moves and the versions stay in order.                          *)
LEMMA OrderMove ==
  ASSUME TypeInv, OrderInv, NEW r \in Requests, ~Idle(r) \/ Quiescent, NEW l, NEW x,
         Goto(r, l, x), InOrder(sources'), InOrder(candidates'),
         SeesAll(Len(sources'), Len(candidates'), l, x)
  PROVE  OrderInv'
<1>1. /\ \A q \in Requests : q # r => Idle(q) /\ pc'[q] = pc[q] /\ loc'[q] = loc[q]
      /\ pc'[r] = l /\ loc'[r] = x /\ Alone'
  BY GotoAlone DEF OrderInv
<1>2. ASSUME NEW q \in Requests
      PROVE  SeesAll(Len(sources'), Len(candidates'), pc'[q], loc'[q])
  <2>1. CASE q = r
    BY <1>1, <2>1
  <2>2. CASE q # r
    BY <1>1, <2>2 DEF SeesAll, Idle
  <2> QED  BY <2>1, <2>2
<1>3. InOrder(sources)' /\ InOrder(candidates)'
  BY DEF InOrder
<1> QED  BY <1>1, <1>2, <1>3 DEF OrderInv

(* A request moves, not to a commit, and writes no version.                 *)
LEMMA OrderQuiet ==
  ASSUME TypeInv, OrderInv, NEW r \in Requests, ~Idle(r) \/ Quiescent, NEW l, NEW x,
         Goto(r, l, x), sources' = sources, candidates' = candidates,
         l \notin {"commitSource", "commitCandidate"}
  PROVE  OrderInv'
BY OrderMove DEF OrderInv, InOrder, SeesAll

(* The arrival of a request keeps the order.                                *)
LEMMA OrderArrive ==
  ASSUME MaxInFlight <= 1, TypeInv, OrderInv, NEW r \in Requests, Arrive(r)
  PROVE  OrderInv'
<1>1. ASSUME NEW k, NEW l, NEW text, Start(r, k, l, text),
             l \notin {"commitSource", "commitCandidate"}
      PROVE  OrderInv'
  <2>1. Quiescent
    BY <1>1, ArriveQuiet DEF OrderInv, Start
  <2> QED  BY <1>1, <2>1, OrderQuiet DEF Start
<1> QED  BY <1>1 DEF Arrive, StartRun, StartEditSource, StartEditCandidate, StartExecute

(* The next number of versions in order.                                    *)
LEMMA NextInOrder ==
  ASSUME NEW rows, Len(rows) \in Nat, InOrder(rows)
  PROVE  NextVersion(rows, Len(rows)) = Len(rows) + 1
<1> DEFINE n == Len(rows)
           V == {rows[i].version : i \in 1..n}
           v == CHOOSE w \in V : \A i \in 1..n : rows[i].version <= w
<1>1. CASE n = 0
  BY <1>1 DEF NextVersion
<1>2. CASE n # 0
  <2>1. \A i \in 1..n : rows[i].version = i
    BY DEF InOrder
  <2>2. n \in 1..n
    BY <1>2
  <2>3. n \in V /\ \A i \in 1..n : rows[i].version <= n
    BY <2>1, <2>2
  <2>4. v \in V /\ \A i \in 1..n : rows[i].version <= v
    BY <2>3
  <2>5. v \in 1..n /\ n <= v
    BY <2>1, <2>2, <2>4
  <2>6. NextVersion(rows, n) = 1 + v
    BY <1>2 DEF NextVersion
  <2> HIDE DEF v, V
  <2> QED  BY <2>5, <2>6
<1> QED  BY <1>1, <1>2

(* A commit that saw every version keeps them in order.                     *)
LEMMA CommittedInOrder ==
  ASSUME NEW Row,
         \A x \in Row : Cleared(x) \in Row,
         \A x \in Row : Cleared(x).version = x.version /\ Cleared(x).active = FALSE,
         \A x \in Row : x.version \in Nat,
         NEW rows \in Seq(Row), HasLatest(rows), InOrder(rows), NEW row \in Row,
         row.version = NextVersion(rows, Len(rows)), row.active = TRUE
  PROVE  InOrder(Committed(rows, Len(rows), row))
<1> DEFINE n == Len(rows)
           new == Committed(rows, n, row)
<1>1. n \in Nat /\ \A i \in 1..n : rows[i] \in Row
  BY LenProperties, ElementOfSeq
<1>2. /\ Len(new) = n + 1 /\ new[n + 1] = row
      /\ \A i \in 1..n : new[i] = IF i <= n THEN Cleared(rows[i]) ELSE rows[i]
  <2>1. \A x \in Row : Cleared(x).version = x.version
    OBVIOUS
  <2> QED  BY <1>1, <2>1, CommittedRows
<1>3. row.version = n + 1
  BY <1>1, NextInOrder
<1> HIDE DEF new
<1>4. ASSUME NEW i \in 1..n
      PROVE  new[i].version = i /\ new[i].active = FALSE
  <2>1. new[i] = Cleared(rows[i])
    BY <1>1, <1>2
  <2> QED  BY <1>1, <2>1 DEF InOrder
<1>5. ASSUME NEW i \in 1..(n + 1)
      PROVE  new[i].version = i /\ (new[i].active <=> i = n + 1)
  <2>1. CASE i = n + 1
    BY <1>2, <1>3, <2>1
  <2>2. CASE i # n + 1
    <3>1. i \in 1..n
      BY <1>1, <2>2
    <3>2. new[i].version = i /\ new[i].active = FALSE
      BY <1>4, <3>1
    <3>3. ~new[i].active
      BY <3>2, Zenon
    <3> QED  BY <2>2, <3>2, <3>3
  <2> QED  BY <2>1, <2>2
<1>6. InOrder(new)
  BY <1>2, <1>5 DEF InOrder
<1> QED  BY <1>6 DEF new

(* Storing a preflight verdict keeps the versions in order.                 *)
LEMMA PreflightInOrder ==
  ASSUME NEW rows, NEW new, Len(new) = Len(rows), InOrder(rows),
         \A i \in 1..Len(rows) : /\ new[i].version = rows[i].version
                                 /\ new[i].active = rows[i].active
  PROVE  InOrder(new)
BY DEF InOrder

(* The preflight of a source keeps the version numbers.                     *)
LEMMA SourceVersions ==
  ASSUME TypeInv, NEW r \in Requests, SourcePreflight(r)
  PROVE  \A i \in 1..Len(sources) : sources'[i].version = sources[i].version
<1> DEFINE i == loc[r].row
           p == Preflight(sources[i].text)
<1>1. /\ sources \in Seq(SourceRow) /\ HasLatest(sources)
      /\ LocalOK(record # None, Len(sources), Len(candidates), "sourcePreflight",
                 kind[r], loc[r])
  BY Known DEF SourcePreflight, At
<1>2. i \in 1..Len(sources) /\ p \in {"PASS", "FAILED"}
  BY <1>1, PreflightValues DEF LocalOK
<1>3. sources' = Stored(sources, i, p)
  BY DEF SourcePreflight, Stored
<1> HIDE DEF p, i
<1>4. /\ \A x \in SourceRow : Marked(x, p) \in SourceRow
      /\ \A x \in SourceRow : Marked(x, p).version = x.version
  BY <1>2 DEF SourceRow, Marked
<1>5. /\ sources'[i] = Marked(sources[i], p)
      /\ \A j \in 1..Len(sources) : j # i => sources'[j] = sources[j]
  BY <1>1, <1>2, <1>3, <1>4, StoredPreflight
<1> QED  BY <1>2, <1>4, <1>5, SourceText

(* The preflight of a candidate keeps the version numbers.                  *)
LEMMA CandidateVersions ==
  ASSUME TypeInv, NEW r \in Requests, CandidatePreflight(r)
  PROVE  \A i \in 1..Len(candidates) : candidates'[i].version = candidates[i].version
<1> DEFINE i == loc[r].cand
           p == Preflight(candidates[i].text)
<1>1. /\ candidates \in Seq(CandidateRow) /\ HasLatest(candidates)
      /\ LocalOK(record # None, Len(sources), Len(candidates), "candidatePreflight",
                 kind[r], loc[r])
  BY Known DEF CandidatePreflight, At
<1>2. i \in 1..Len(candidates) /\ p \in {"PASS", "FAILED"}
  BY <1>1, PreflightValues DEF LocalOK
<1>3. candidates' = Stored(candidates, i, p)
  BY DEF CandidatePreflight, Stored
<1> HIDE DEF p, i
<1>4. /\ \A x \in CandidateRow : Marked(x, p) \in CandidateRow
      /\ \A x \in CandidateRow : Marked(x, p).version = x.version
  BY <1>2 DEF CandidateRow, Marked
<1>5. /\ candidates'[i] = Marked(candidates[i], p)
      /\ \A j \in 1..Len(candidates) : j # i => candidates'[j] = candidates[j]
  BY <1>1, <1>2, <1>3, <1>4, StoredPreflight
<1> QED  BY <1>2, <1>4, <1>5, CandidateText

(* A source version committed by itself is in order.                        *)
LEMMA SourceInOrder ==
  ASSUME TypeInv, OrderInv, NEW r \in Requests, CommitSource(r)
  PROVE  InOrder(sources')
<1> DEFINE row == [version |-> NextVersion(sources, Len(sources)), text |-> loc[r].text,
                   active |-> TRUE, preflight |-> "NONE"]
<1>1. /\ Len(sources) \in Nat /\ sources \in Seq(SourceRow) /\ HasLatest(sources)
      /\ LocalOK(record # None, Len(sources), Len(candidates), "commitSource", kind[r], loc[r])
  BY Known DEF CommitSource, At
<1>2. pc[r] = "commitSource" /\ loc[r].seen = Len(sources) /\ InOrder(sources)
  BY DEF CommitSource, At, OrderInv, SeesAll
<1>3. loc[r].text \in Sources
  BY <1>1 DEF LocalOK, SourceLabels
<1>4. NextVersion(sources, Len(sources)) \in Nat
  BY <1>1, SourceRowFacts, NextVersionIsNew
<1>5. row \in SourceRow /\ row.active = TRUE
      /\ row.version = NextVersion(sources, Len(sources))
  BY <1>3, <1>4 DEF SourceRow
<1>6. PICK m \in Len(sources)..Len(sources) : sources' = Append(Deactivated(sources, m), row)
  BY <1>2 DEF CommitSource
<1> HIDE DEF row
<1>7. sources' = Committed(sources, Len(sources), row)
  BY <1>1, <1>6 DEF Committed
<1>8. \A x \in SourceRow : Cleared(x).version = x.version /\ Cleared(x).active = FALSE
  BY DEF SourceRow, Cleared
<1> QED  BY <1>1, <1>2, <1>5, <1>7, <1>8, SourceRowFacts, CommittedInOrder

(* A candidate version committed by itself is in order.                     *)
LEMMA CandidateInOrder ==
  ASSUME TypeInv, OrderInv, NEW r \in Requests, CommitCandidate(r)
  PROVE  /\ InOrder(candidates')
         /\ candidates'[Len(candidates) + 1].text
              = IF kind[r] = "edit_candidate" THEN loc[r].text ELSE loc[r].tr.sql
<1> DEFINE user == kind[r] = "edit_candidate"
           row == [version |-> NextVersion(candidates, Len(candidates)),
                   text |-> IF user THEN loc[r].text ELSE loc[r].tr.sql,
                   active |-> TRUE, preflight |-> "NONE",
                   source |-> IF user THEN "USER" ELSE "AI"]
<1>1. /\ Len(candidates) \in Nat /\ candidates \in Seq(CandidateRow) /\ HasLatest(candidates)
      /\ LocalOK(record # None, Len(sources), Len(candidates), "commitCandidate",
                 kind[r], loc[r])
  BY Known DEF CommitCandidate, At
<1>2. pc[r] = "commitCandidate" /\ loc[r].seen = Len(candidates) /\ InOrder(candidates)
  BY DEF CommitCandidate, At, OrderInv, SeesAll
<1>3. (IF user THEN loc[r].text ELSE loc[r].tr.sql) \in Targets
  BY <1>1 DEF LocalOK
<1>4. NextVersion(candidates, Len(candidates)) \in Nat
  BY <1>1, CandidateRowFacts, NextVersionIsNew
<1>5. row \in CandidateRow /\ row.active = TRUE
      /\ row.version = NextVersion(candidates, Len(candidates))
      /\ row.text = IF user THEN loc[r].text ELSE loc[r].tr.sql
  BY <1>3, <1>4 DEF CandidateRow
<1>6. PICK m \in Len(candidates)..Len(candidates) :
        candidates' = Append(Deactivated(candidates, m), row)
  BY <1>2 DEF CommitCandidate
<1> HIDE DEF row
<1>7. candidates' = Committed(candidates, Len(candidates), row)
  BY <1>1, <1>6 DEF Committed
<1>8. \A x \in CandidateRow : Cleared(x).version = x.version /\ Cleared(x).active = FALSE
  BY DEF CandidateRow, Cleared
<1>9. InOrder(candidates')
  BY <1>1, <1>2, <1>5, <1>7, <1>8, CandidateRowFacts, CommittedInOrder
<1>10. candidates'[Len(candidates) + 1] = row
  BY <1>1, <1>5, <1>6, CommittedCandidates
<1> QED  BY <1>5, <1>9, <1>10

(* No step of a request that is alone, and no fault, brings the versions    *)
(* out of order.                                                            *)
LEMMA OrderStep ==
  ASSUME TypeInv, OrderInv, NEW r \in Requests, Step(r) \/ Crash(r) \/ ReadFault(r)
  PROVE  OrderInv'
<1>1. ~Idle(r) /\ loc[r] \in Locals
  BY StepBusy, Known
<1>2. InOrder(sources) /\ InOrder(candidates)
  BY DEF OrderInv
<1>3. ASSUME NEW l, NEW x, Goto(r, l, x), sources' = sources, candidates' = candidates,
             l \notin {"commitSource", "commitCandidate"}
      PROVE  OrderInv'
  BY <1>1, <1>3, OrderQuiet
<1>4. CASE InsertSource(r)
  <2> DEFINE x == [loc[r] EXCEPT !.seen = Len(sources)]
  <2>1. x.seen = Len(sources)
    BY <1>1, Known, LocalsSeen
  <2>2. Goto(r, "commitSource", x) /\ sources' = sources /\ candidates' = candidates
    BY <1>4 DEF InsertSource
  <2> HIDE DEF x
  <2>3. SeesAll(Len(sources'), Len(candidates'), "commitSource", x)
    BY <2>1, <2>2 DEF SeesAll
  <2> QED  BY <1>1, <1>2, <2>2, <2>3, OrderMove
<1>5. CASE InsertCandidate(r)
  <2> DEFINE x == [loc[r] EXCEPT !.seen = Len(candidates)]
  <2>1. x.seen = Len(candidates)
    BY <1>1, Known, LocalsSeen
  <2>2. Goto(r, "commitCandidate", x) /\ sources' = sources /\ candidates' = candidates
    BY <1>5 DEF InsertCandidate
  <2> HIDE DEF x
  <2>3. SeesAll(Len(sources'), Len(candidates'), "commitCandidate", x)
    BY <2>1, <2>2 DEF SeesAll
  <2> QED  BY <1>1, <1>2, <2>2, <2>3, OrderMove
<1>6. CASE CommitSource(r)
  <2>1. PICK l \in {"sourcePreflight", "readReport"} : \E x : Goto(r, l, x)
    BY <1>6 DEF CommitSource
  <2>2. InOrder(sources') /\ candidates' = candidates
    BY <1>6, SourceInOrder DEF CommitSource
  <2>3. \A x : SeesAll(Len(sources'), Len(candidates'), l, x)
    BY DEF SeesAll
  <2> QED  BY <1>1, <1>2, <2>1, <2>2, <2>3, OrderMove
<1>7. CASE CommitCandidate(r)
  <2>1. PICK x : Goto(r, "candidatePreflight", x)
    BY <1>7 DEF CommitCandidate
  <2>2. InOrder(candidates') /\ sources' = sources
    BY <1>7, CandidateInOrder DEF CommitCandidate
  <2>3. SeesAll(Len(sources'), Len(candidates'), "candidatePreflight", x)
    BY DEF SeesAll
  <2> QED  BY <1>1, <1>2, <2>1, <2>2, <2>3, OrderMove
<1>8. CASE SourcePreflight(r)
  <2>1. PICK l \in {"translate", "checkLineage"} : \E x : Goto(r, l, x)
    BY <1>8 DEF SourcePreflight
  <2>2. InOrder(sources') /\ candidates' = candidates
    BY <1>2, <1>8, SourcePreflighted, SourceVersions, PreflightInOrder DEF SourcePreflight
  <2>3. \A x : SeesAll(Len(sources'), Len(candidates'), l, x)
    BY DEF SeesAll
  <2> QED  BY <1>1, <1>2, <2>1, <2>2, <2>3, OrderMove
<1>9. CASE CandidatePreflight(r)
  <2>1. PICK l \in {"readReport", "loadCandidate", "checkLineage"} : \E x : Goto(r, l, x)
    BY <1>9 DEF CandidatePreflight
  <2>2. /\ Len(candidates') = Len(candidates)
        /\ \A i \in 1..Len(candidates) : candidates'[i].active = candidates[i].active
    BY <1>9, CandidatePreflighted
  <2>4. \A i \in 1..Len(candidates) : candidates'[i].version = candidates[i].version
    BY <1>9, CandidateVersions
  <2>5. InOrder(candidates') /\ sources' = sources
    BY <1>2, <1>9, <2>2, <2>4, PreflightInOrder DEF CandidatePreflight
  <2>3. \A x : SeesAll(Len(sources'), Len(candidates'), l, x)
    BY DEF SeesAll
  <2> QED  BY <1>1, <1>2, <2>1, <2>3, <2>5, OrderMove
<1>10. CASE CreateRecord(r) \/ ResolveSource(r)
  <2>1. CASE CreateRecord(r)
    BY <1>3, <2>1 DEF CreateRecord
  <2>2. CASE ResolveSource(r)
    <3>1. PICK l \in {"insertSource", "sourcePreflight"} : \E x : Goto(r, l, x)
      BY <2>2 DEF ResolveSource
    <3> QED  BY <1>3, <2>2, <3>1 DEF ResolveSource
  <2> QED  BY <1>10, <2>1, <2>2
<1>11. ASSUME NEW t, TranslateOk(r, t) \/ TranslateFails(r, t)
       PROVE  OrderInv'
  BY <1>3, <1>11 DEF TranslateOk, TranslateFails
<1>12. CASE LoadCandidate(r) \/ LoadSource(r) \/ RebuildTranslation(r)
  <2>1. CASE LoadCandidate(r)
    <3>1. PICK l \in {"done", "loadSource"} : \E x : Goto(r, l, x)
      BY <2>1 DEF LoadCandidate, Finish
    <3> QED  BY <1>3, <2>1, <3>1 DEF LoadCandidate
  <2>2. CASE LoadSource(r)
    BY <1>3, <2>2 DEF LoadSource
  <2>3. CASE RebuildTranslation(r)
    BY <1>3, <2>3 DEF RebuildTranslation
  <2> QED  BY <1>12, <2>1, <2>2, <2>3
<1>13. ASSUME NEW o, RunPhases(r, o)
       PROVE  OrderInv'
  BY <1>3, <1>13 DEF RunPhases
<1>14. CASE CheckLineage(r) \/ Decide(r)
  BY <1>3, <1>14 DEF CheckLineage, Decide, Finish
<1>15. CASE SaveReport(r) \/ SaveRecord(r) \/ BlockReport(r) \/ BlockRecord(r)
  BY <1>3, <1>15 DEF SaveReport, SaveRecord, AfterSave, BlockReport, BlockRecord, Finish
<1>16. CASE ReadReport(r) \/ ResetReport(r) \/ ResetRecord(r)
  BY <1>3, <1>16 DEF ReadReport, ResetReport, ResetRecord, AfterReset, Finish
<1>17. CASE Crash(r)
  BY <1>3, <1>17 DEF Crash, Finish
<1>18. CASE ReadFault(r)
  BY <1>3, <1>18 DEF ReadFault, RecreateRecord, RebuildNothing, SkipLineage, ForgetReport,
     SkipReset, SkipRecord, ReadFails, AfterSave, AfterReset, Finish
<1> QED  BY <1>4, <1>5, <1>6, <1>7, <1>8, <1>9, <1>10, <1>11, <1>12, <1>13, <1>14, <1>15,
            <1>16, <1>17, <1>18 DEF Step

(* OrderInv is inductive when requests are served one at a time.            *)
LEMMA OrderNext ==
  ASSUME MaxInFlight <= 1
  PROVE  TypeInv /\ OrderInv /\ [Next]_vars => OrderInv'
<1> SUFFICES ASSUME TypeInv, OrderInv, [Next]_vars
             PROVE  OrderInv'
  OBVIOUS
<1>1. CASE UNCHANGED vars
  BY <1>1 DEF vars, OrderInv, Alone, InOrder, SeesAll, Idle
<1>2. ASSUME NEW r \in Requests, Arrive(r) \/ Step(r) \/ Crash(r) \/ ReadFault(r)
      PROVE  OrderInv'
  BY <1>2, OrderArrive, OrderStep
<1> QED  BY <1>1, <1>2 DEF Next

(* OrderInv holds at the start.                                             *)
LEMMA OrderInit == Init => OrderInv
<1>1. Init => Len(sources) = 0 /\ Len(candidates) = 0
  BY EmptySeq DEF Init
<1> QED  BY <1>1 DEF Init, OrderInv, Alone, InOrder, SeesAll, Idle

(* What OrderInv says of a table: it has one active version, the last.      *)
LEMMA LastIsActive ==
  ASSUME NEW Row, NEW rows \in Seq(Row), InOrder(rows)
  PROVE  /\ rows # <<>> => Active(rows) = {Len(rows)}
         /\ rows = <<>> => Active(rows) = {}
<1>1. DOMAIN rows = 1..Len(rows) /\ Len(rows) \in Nat
  BY LenProperties
<1>2. rows = <<>> <=> Len(rows) = 0
  BY EmptySeq
<1>3. \A i \in 1..Len(rows) : rows[i].active <=> i = Len(rows)
  BY DEF InOrder
<1>4. Active(rows) = {i \in 1..Len(rows) : i = Len(rows)}
  BY <1>1, <1>3 DEF Active
<1>5. rows # <<>> => Len(rows) \in 1..Len(rows)
  BY <1>1, <1>2
<1> QED  BY <1>1, <1>2, <1>4, <1>5

(* Of requests served one at a time, however many die and whatever reads    *)
(* fail: the versions of create_candidate_version and                       *)
(* create_source_candidate_version number 1, 2, 3... and only the last one  *)
(* is active.                                                               *)
THEOREM SerialVersions ==
  ASSUME MaxInFlight <= 1
  PROVE  Spec => []OneActiveVersion
<1>1. TypeInv /\ OrderInv => OneActiveVersion
  <2> SUFFICES ASSUME TypeInv, OrderInv, NEW rows \in {sources, candidates}, rows # <<>>
               PROVE  /\ Active(rows) = {Len(rows)}
                      /\ \A i \in DOMAIN rows : rows[i].version = i
    BY DEF OneActiveVersion
  <2>1. InOrder(rows)
    BY DEF OrderInv
  <2>2. rows \in Seq(SourceRow) \/ rows \in Seq(CandidateRow)
    BY DEF TypeInv, TypeOK
  <2>3. Active(rows) = {Len(rows)}
    BY <2>1, <2>2, LastIsActive
  <2>4. DOMAIN rows = 1..Len(rows)
    BY <2>2, LenProperties
  <2> QED  BY <2>1, <2>3, <2>4 DEF InOrder
<1> QED  BY <1>1, OrderInit, OrderNext, TypeInvariant, PTL DEF Spec
------------------------------------------------------------------------------
(* The version tables are histories that only grow.                         *)

(* A version counts no further than its position.                           *)
InBounds(rows) == \A i \in 1..Len(rows) : rows[i].version \in 1..i

(* The next version counts no further than the rows it was computed from.   *)
LEMMA NextVersionBounded ==
  ASSUME NEW rows, Len(rows) \in Nat, HasLatest(rows), InBounds(rows), NEW n \in 0..Len(rows)
  PROVE  NextVersion(rows, n) \in 1..(n + 1)
<1>1. CASE n = 0
  BY <1>1 DEF NextVersion
<1>2. CASE n # 0
  <2> DEFINE V == {rows[i].version : i \in 1..n}
             v == CHOOSE w \in V : \A i \in 1..n : rows[i].version <= w
  <2>1. n \in 1..Len(rows)
    BY <1>2
  <2>2. PICK k \in 1..n : \A j \in 1..n : rows[j].version <= rows[k].version
    BY <2>1 DEF HasLatest
  <2>3. v \in V
    BY <2>2
  <2>4. \A i \in 1..n : rows[i].version \in 1..n
    BY <2>1 DEF InBounds
  <2>5. v \in 1..n
    BY <2>3, <2>4
  <2>6. NextVersion(rows, n) = 1 + v
    BY <1>2 DEF NextVersion
  <2> HIDE DEF v, V
  <2> QED  BY <2>1, <2>5, <2>6
<1> QED  BY <1>1, <1>2

(* Rows with a version, a text and an activity that can be cleared.         *)
VersionRows(Row, Text) ==
  \A x \in Row :
    /\ x.version \in Nat /\ x.text \in Text
    /\ Cleared(x) \in Row /\ Cleared(x).version = x.version /\ Cleared(x).text = x.text
    /\ Cleared(x).active = FALSE

(* Both tables have them.                                                   *)
LEMMA VersionRowFacts == VersionRows(SourceRow, Sources) /\ VersionRows(CandidateRow, Targets)
<1>1. VersionRows(SourceRow, Sources)
  BY DEF VersionRows, SourceRow, Cleared
<1>2. VersionRows(CandidateRow, Targets)
  BY DEF VersionRows, CandidateRow, Cleared
<1> QED  BY <1>1, <1>2

(* The history of a table is a sequence as long as the table.               *)
LEMMA HistoryType ==
  ASSUME NEW Row, NEW Text, VersionRows(Row, Text), NEW rows \in Seq(Row)
  PROVE  /\ History(rows) \in Seq([version : Nat, text : Text])
         /\ Len(History(rows)) = Len(rows)
<1> DEFINE E == [version : Nat, text : Text]
<1>1. /\ Len(rows) \in Nat /\ DOMAIN rows = 1..Len(rows)
      /\ \A i \in 1..Len(rows) : rows[i] \in Row
  BY LenProperties, ElementOfSeq
<1>2. History(rows) \in [1..Len(rows) -> E]
  BY <1>1 DEF History, VersionRows
<1> HIDE DEF E
<1>3. History(rows) \in Seq(E)
  BY <1>1, <1>2, SeqDef
<1>4. DOMAIN History(rows) = 1..Len(History(rows)) /\ Len(History(rows)) \in Nat
  BY <1>3, LenProperties
<1>5. DOMAIN History(rows) = 1..Len(rows)
  BY <1>2
<1>6. Len(History(rows)) = Len(rows)
  <2> DEFINE k == Len(History(rows))
             n == Len(rows)
  <2>1. k \in Nat /\ n \in Nat /\ 1..k = 1..n
    BY <1>1, <1>4, <1>5
  <2> HIDE DEF k, n
  <2>2. k = n
    BY <2>1
  <2> QED  BY <2>2 DEF k, n
<1> QED  BY <1>3, <1>6, Zenon DEF E

(* A committed row is a step of the history.                                *)
LEMMA HistoryCommitted ==
  ASSUME NEW Row, NEW Text, VersionRows(Row, Text),
         NEW rows \in Seq(Row), HasLatest(rows), InBounds(rows),
         NEW n \in 0..Len(rows), NEW row \in Row, row.active = TRUE,
         row.version \in 1..(Len(rows) + 1)
  PROVE  /\ History(Committed(rows, n, row))
              = Append(History(rows), [version |-> row.version, text |-> row.text])
         /\ Active(Committed(rows, n, row))
              = {i \in Active(rows) : i > n} \cup {Len(rows) + 1}
         /\ InBounds(Committed(rows, n, row))
<1> DEFINE new == Committed(rows, n, row)
           e == [version |-> row.version, text |-> row.text]
           E == [version : Nat, text : Text]
<1>1. /\ Len(rows) \in Nat /\ n \in Nat /\ DOMAIN rows = 1..Len(rows)
      /\ \A i \in 1..Len(rows) : rows[i] \in Row
  BY LenProperties, ElementOfSeq
<1>2. /\ new \in Seq(Row) /\ Len(new) = Len(rows) + 1 /\ new[Len(rows) + 1] = row
      /\ \A i \in 1..Len(rows) : new[i] = IF i <= n THEN Cleared(rows[i]) ELSE rows[i]
  <2>1. \A x \in Row : Cleared(x).version = x.version
    BY DEF VersionRows
  <2>2. \A x \in Row : x.version \in Nat
    BY DEF VersionRows
  <2>3. n \in Nat /\ \A x \in Row : Cleared(x) \in Row
    BY <1>1 DEF VersionRows
  <2>4. /\ Committed(rows, n, row) \in Seq(Row)
        /\ Len(Committed(rows, n, row)) = Len(rows) + 1
        /\ Committed(rows, n, row)[Len(rows) + 1] = row
        /\ \A i \in 1..Len(rows) :
             Committed(rows, n, row)[i] = IF i <= n THEN Cleared(rows[i]) ELSE rows[i]
    BY ONLY <2>1, <2>2, <2>3, rows \in Seq(Row), HasLatest(rows), row \in Row, CommittedRows
  <2> QED  BY <2>4
<1> HIDE DEF new
<1>3. DOMAIN new = 1..(Len(rows) + 1)
  BY <1>2, LenProperties
<1>4. \A i \in 1..Len(rows) : /\ new[i].version = rows[i].version
                              /\ new[i].text = rows[i].text
                              /\ i <= n => new[i].active = FALSE
                              /\ i > n => new[i].active = rows[i].active
  <2> SUFFICES ASSUME NEW i \in 1..Len(rows)
               PROVE  /\ new[i].version = rows[i].version
                      /\ new[i].text = rows[i].text
                      /\ i <= n => new[i].active = FALSE
                      /\ i > n => new[i].active = rows[i].active
    OBVIOUS
  <2>1. rows[i] \in Row
    BY <1>1
  <2>2. CASE i <= n
    BY <1>1, <1>2, <2>1, <2>2 DEF VersionRows
  <2>3. CASE i > n
    BY <1>1, <1>2, <2>3
  <2>4. i <= n \/ i > n
    BY <1>1
  <2> QED  BY <2>2, <2>3, <2>4, Zenon
<1>5. History(new) = Append(History(rows), e)
  <2>2. History(rows) \in Seq(E) /\ Len(History(rows)) = Len(rows)
    BY HistoryType
  <2>3. e \in E
    BY <1>1 DEF VersionRows
  <2>4. Append(History(rows), e)
          = [i \in 1..(Len(rows) + 1) |-> IF i <= Len(rows) THEN History(rows)[i] ELSE e]
    <3> DEFINE h == History(rows)
    <3> HIDE DEF h
    <3>1. h \in Seq(E) /\ Len(h) = Len(rows) /\ Len(rows) \in Nat
      BY <1>1, <2>2 DEF h
    <3>2. /\ Append(h, e) \in Seq(E) /\ Len(Append(h, e)) = Len(rows) + 1
          /\ \A i \in 1..Len(rows) : Append(h, e)[i] = h[i]
          /\ Append(h, e)[Len(rows) + 1] = e
      BY <2>3, <3>1, AppendProperties
    <3>3. Append(h, e) \in [1..(Len(rows) + 1) -> E]
      BY <3>2, LenProperties
    <3>4. Append(h, e) = [i \in 1..(Len(rows) + 1) |-> IF i <= Len(rows) THEN h[i] ELSE e]
      BY <3>1, <3>2, <3>3
    <3> QED  BY <3>4 DEF h
  <2>5. \A i \in 1..Len(rows) : History(rows)[i] = [version |-> rows[i].version,
                                                    text |-> rows[i].text]
    BY <1>1 DEF History
  <2>6. History(new)
          = [i \in 1..(Len(rows) + 1) |-> [version |-> new[i].version, text |-> new[i].text]]
    BY <1>3 DEF History
  <2>7. ASSUME NEW i \in 1..(Len(rows) + 1)
        PROVE  [version |-> new[i].version, text |-> new[i].text]
                 = IF i <= Len(rows) THEN History(rows)[i] ELSE e
    <3>1. CASE i \in 1..Len(rows)
      BY <1>1, <1>4, <2>5, <3>1
    <3>2. CASE i = Len(rows) + 1
      BY <1>1, <1>2, <3>2
    <3> QED  BY <1>1, <3>1, <3>2
  <2> HIDE DEF e, E
  <2> QED  BY <2>4, <2>6, <2>7
<1>6. Active(new) = {i \in Active(rows) : i > n} \cup {Len(rows) + 1}
  <2>1. ASSUME NEW i \in 1..(Len(rows) + 1)
        PROVE  new[i].active <=> (i = Len(rows) + 1 \/ (i \in Active(rows) /\ i > n))
    <3>1. CASE i \in 1..Len(rows)
      <4>0. i # Len(rows) + 1
        BY <1>1, <3>1
      <4>1. CASE i <= n
        <5>1. new[i].active = FALSE /\ ~(i > n)
          BY <1>1, <1>4, <3>1, <4>1
        <5> QED  BY <4>0, <5>1, Zenon
      <4>2. CASE i > n
        <5>1. new[i].active = rows[i].active
          BY <1>4, <3>1, <4>2
        <5>2. i \in Active(rows) <=> rows[i].active
          BY <1>1, <3>1 DEF Active
        <5> QED  BY <4>0, <4>2, <5>1, <5>2, Zenon
      <4> QED  BY <1>1, <3>1, <4>1, <4>2
    <3>2. CASE i = Len(rows) + 1
      BY <1>2, <3>2
    <3> QED  BY <1>1, <3>1, <3>2
  <2>2. \A i \in Active(rows) : i \in 1..(Len(rows) + 1)
    BY <1>1 DEF Active
  <2>3. Active(new) = {i \in 1..(Len(rows) + 1) : new[i].active}
    BY <1>3 DEF Active
  <2>4. Len(rows) + 1 \in 1..(Len(rows) + 1)
    BY <1>1
  <2> QED  BY <2>1, <2>2, <2>3, <2>4
<1>7. InBounds(new)
  <2> SUFFICES ASSUME NEW i \in 1..(Len(rows) + 1)
               PROVE  new[i].version \in 1..i
    BY <1>2 DEF InBounds
  <2>1. CASE i \in 1..Len(rows)
    BY <1>4, <2>1 DEF InBounds
  <2>2. CASE i = Len(rows) + 1
    BY <1>2, <2>2
  <2> QED  BY <1>1, <2>1, <2>2
<1> QED  BY <1>5, <1>6, <1>7 DEF new

(* A write that keeps numbers, texts and activity does not show in it.      *)
LEMMA HistoryKept ==
  ASSUME NEW Row, NEW rows \in Seq(Row), NEW new \in Seq(Row), Len(new) = Len(rows),
         \A i \in 1..Len(rows) : /\ new[i].version = rows[i].version
                                 /\ new[i].text = rows[i].text
                                 /\ new[i].active = rows[i].active
  PROVE  /\ History(new) = History(rows) /\ Active(new) = Active(rows)
         /\ InBounds(rows) => InBounds(new)
<1>1. DOMAIN rows = 1..Len(rows) /\ DOMAIN new = 1..Len(rows)
  BY LenProperties
<1> QED  BY <1>1 DEF History, Active, InBounds

(* HistoryInv: what the mapped steps rely on.                               *)
HistoryInv ==
  /\ InBounds(sources) /\ InBounds(candidates)
  /\ MaxInFlight <= 1 => OrderInv

(* A commit of a source version is a step of the sources' history.          *)
LEMMA SourceHistoryCommit ==
  ASSUME TypeInv, HistoryInv, NEW r \in Requests, CommitSource(r)
  PROVE  SourceHistory!Next /\ InBounds(sources')
<1> DEFINE row == [version |-> NextVersion(sources, loc[r].seen), text |-> loc[r].text,
                   active |-> TRUE, preflight |-> "NONE"]
<1>1. /\ Len(sources) \in Nat /\ sources \in Seq(SourceRow) /\ HasLatest(sources)
      /\ LocalOK(record # None, Len(sources), Len(candidates), "commitSource", kind[r], loc[r])
      /\ pc[r] = "commitSource" /\ InBounds(sources)
  BY Known DEF CommitSource, At, HistoryInv
<1>2. loc[r].seen \in 0..Len(sources) /\ loc[r].text \in Sources
  BY <1>1 DEF LocalOK, SourceLabels
<1>3. /\ NextVersion(sources, loc[r].seen) \in 1..(loc[r].seen + 1)
      /\ NextVersion(sources, loc[r].seen) \in Nat
  BY <1>1, <1>2, NextVersionBounded
<1>4. /\ row \in SourceRow /\ row.active = TRUE /\ row.text = loc[r].text
      /\ row.version = NextVersion(sources, loc[r].seen)
  BY <1>2, <1>3 DEF SourceRow
<1>5. PICK m \in loc[r].seen..Len(sources) : sources' = Append(Deactivated(sources, m), row)
  BY DEF CommitSource
<1> HIDE DEF row
<1>6. m \in 0..Len(sources) /\ row.version \in 1..(Len(sources) + 1)
  BY <1>1, <1>2, <1>3, <1>4
<1>7. sources' = Committed(sources, m, row)
  BY <1>5 DEF Committed
<1>8. VersionRows(SourceRow, Sources)
  BY VersionRowFacts
<1>9. /\ History(sources') = Append(History(sources), [version |-> row.version,
                                                       text |-> row.text])
      /\ Active(sources') = {i \in Active(sources) : i > m} \cup {Len(sources) + 1}
      /\ InBounds(sources')
  <2>1. sources \in Seq(SourceRow) /\ HasLatest(sources) /\ InBounds(sources)
    BY <1>1
  <2>2. row \in SourceRow /\ row.active = TRUE /\ row.version \in 1..(Len(sources) + 1)
    BY <1>4, <1>6
  <2>3. /\ History(Committed(sources, m, row))
             = Append(History(sources), [version |-> row.version, text |-> row.text])
        /\ Active(Committed(sources, m, row))
             = {i \in Active(sources) : i > m} \cup {Len(sources) + 1}
        /\ InBounds(Committed(sources, m, row))
    BY ONLY <1>6, <1>8, <2>1, <2>2, HistoryCommitted
  <2> QED  BY <1>7, <2>3
<1>13. Len(History(sources)) = Len(sources)
  BY <1>1, <1>8, HistoryType, Zenon
<1>10. MaxInFlight <= 1 => row.version = Len(sources) + 1 /\ m = Len(sources)
  <2> SUFFICES ASSUME MaxInFlight <= 1
               PROVE  row.version = Len(sources) + 1 /\ m = Len(sources)
    OBVIOUS
  <2>1. loc[r].seen = Len(sources) /\ InOrder(sources)
    BY <1>1 DEF HistoryInv, OrderInv, SeesAll
  <2> QED  BY <1>1, <1>4, <1>5, <2>1, NextInOrder
<1>11. History(sources)' = History(sources') /\ Active(sources)' = Active(sources')
  BY DEF History, Active
<1>12. SourceHistory!Commit(loc[r].text, row.version, m)
  BY <1>4, <1>9, <1>10, <1>11, <1>13 DEF SourceHistory!Commit
<1> QED  BY <1>2, <1>6, <1>9, <1>12, <1>13 DEF SourceHistory!Next

(* A commit of a candidate is a step of the candidates' history.            *)
LEMMA CandidateHistoryCommit ==
  ASSUME TypeInv, HistoryInv, NEW r \in Requests, CommitCandidate(r)
  PROVE  CandidateHistory!Next /\ InBounds(candidates')
<1> DEFINE user == kind[r] = "edit_candidate"
           text == IF user THEN loc[r].text ELSE loc[r].tr.sql
           row == [version |-> NextVersion(candidates, loc[r].seen), text |-> text,
                   active |-> TRUE, preflight |-> "NONE",
                   source |-> IF user THEN "USER" ELSE "AI"]
<1>1. /\ Len(candidates) \in Nat /\ candidates \in Seq(CandidateRow)
      /\ HasLatest(candidates) /\ InBounds(candidates)
      /\ LocalOK(record # None, Len(sources), Len(candidates), "commitCandidate",
                 kind[r], loc[r])
      /\ pc[r] = "commitCandidate"
  BY Known DEF CommitCandidate, At, HistoryInv
<1>2. loc[r].seen \in 0..Len(candidates) /\ text \in Targets
  BY <1>1 DEF LocalOK
<1>3. /\ NextVersion(candidates, loc[r].seen) \in 1..(loc[r].seen + 1)
      /\ NextVersion(candidates, loc[r].seen) \in Nat
  BY <1>1, <1>2, NextVersionBounded
<1>5. PICK m \in loc[r].seen..Len(candidates) :
        candidates' = Append(Deactivated(candidates, m), row)
  BY DEF CommitCandidate
<1> HIDE DEF text
<1>4. /\ row \in CandidateRow /\ row.active = TRUE /\ row.text = text
      /\ row.version = NextVersion(candidates, loc[r].seen)
  BY <1>2, <1>3 DEF CandidateRow
<1> HIDE DEF row
<1>6. m \in 0..Len(candidates) /\ row.version \in 1..(Len(candidates) + 1)
  BY <1>1, <1>2, <1>3, <1>4
<1>7. candidates' = Committed(candidates, m, row)
  BY <1>5 DEF Committed
<1>8. VersionRows(CandidateRow, Targets)
  BY VersionRowFacts
<1>9. /\ History(candidates') = Append(History(candidates), [version |-> row.version,
                                                       text |-> row.text])
      /\ Active(candidates') = {i \in Active(candidates) : i > m} \cup {Len(candidates) + 1}
      /\ InBounds(candidates')
  <2>1. candidates \in Seq(CandidateRow) /\ HasLatest(candidates) /\ InBounds(candidates)
    BY <1>1
  <2>2. row \in CandidateRow /\ row.active = TRUE /\ row.version \in 1..(Len(candidates) + 1)
    BY <1>4, <1>6
  <2>3. /\ History(Committed(candidates, m, row))
             = Append(History(candidates), [version |-> row.version, text |-> row.text])
        /\ Active(Committed(candidates, m, row))
             = {i \in Active(candidates) : i > m} \cup {Len(candidates) + 1}
        /\ InBounds(Committed(candidates, m, row))
    BY ONLY <1>6, <1>8, <2>1, <2>2, HistoryCommitted
  <2> QED  BY <1>7, <2>3
<1>13. Len(History(candidates)) = Len(candidates)
  BY <1>1, <1>8, HistoryType, Zenon
<1>10. MaxInFlight <= 1 => row.version = Len(candidates) + 1 /\ m = Len(candidates)
  <2> SUFFICES ASSUME MaxInFlight <= 1
               PROVE  row.version = Len(candidates) + 1 /\ m = Len(candidates)
    OBVIOUS
  <2>1. loc[r].seen = Len(candidates) /\ InOrder(candidates)
    BY <1>1 DEF HistoryInv, OrderInv, SeesAll
  <2> QED  BY <1>1, <1>4, <1>5, <2>1, NextInOrder
<1>11. History(candidates)' = History(candidates') /\ Active(candidates)' = Active(candidates')
  BY DEF History, Active
<1>12. CandidateHistory!Commit(text, row.version, m)
  BY <1>4, <1>9, <1>10, <1>11, <1>13 DEF CandidateHistory!Commit
<1> QED  BY <1>2, <1>6, <1>9, <1>12, <1>13 DEF CandidateHistory!Next

(* A stored preflight verdict is no step of a history.                      *)
LEMMA HistoryPreflight ==
  ASSUME TypeInv, HistoryInv, NEW r \in Requests
  PROVE  /\ SourcePreflight(r) => UNCHANGED SourceHistory!vars /\ InBounds(sources')
         /\ CandidatePreflight(r) => UNCHANGED CandidateHistory!vars /\ InBounds(candidates')
<1>1. ASSUME SourcePreflight(r)
      PROVE  UNCHANGED SourceHistory!vars /\ InBounds(sources')
  <2>1. /\ Len(sources') = Len(sources)
        /\ \A i \in 1..Len(sources) : /\ sources'[i].version = sources[i].version
                                      /\ sources'[i].text = sources[i].text
                                      /\ sources'[i].active = sources[i].active
    BY <1>1, SourcePreflighted, SourceVersions
  <2>2. sources \in Seq(SourceRow) /\ sources' \in Seq(SourceRow) /\ InBounds(sources)
    BY <1>1, StepType DEF TypeInv, TypeOK, HistoryInv, Step
  <2>3. History(sources') = History(sources) /\ Active(sources') = Active(sources)
        /\ InBounds(sources')
    BY <2>1, <2>2, HistoryKept
  <2> QED  BY <2>3 DEF SourceHistory!vars, History, Active
<1>2. ASSUME CandidatePreflight(r)
      PROVE  UNCHANGED CandidateHistory!vars /\ InBounds(candidates')
  <2>1. /\ Len(candidates') = Len(candidates)
        /\ \A i \in 1..Len(candidates) : /\ candidates'[i].version = candidates[i].version
                                         /\ candidates'[i].text = candidates[i].text
                                         /\ candidates'[i].active = candidates[i].active
    BY <1>2, CandidatePreflighted, CandidateVersions
  <2>2. /\ candidates \in Seq(CandidateRow) /\ candidates' \in Seq(CandidateRow)
        /\ InBounds(candidates)
    BY <1>2, StepType DEF TypeInv, TypeOK, HistoryInv, Step
  <2>3. History(candidates') = History(candidates) /\ Active(candidates') = Active(candidates)
        /\ InBounds(candidates')
    BY <2>1, <2>2, HistoryKept
  <2> QED  BY <2>3 DEF CandidateHistory!vars, History, Active
<1> QED  BY <1>1, <1>2

(* The steps that leave a table alone leave its history alone.              *)
LEMMA HistoryUntouched ==
  /\ sources' = sources => UNCHANGED SourceHistory!vars
  /\ candidates' = candidates => UNCHANGED CandidateHistory!vars
BY DEF SourceHistory!vars, CandidateHistory!vars, History, Active

(* Every step of the requests is a step of each history or none of it.      *)
LEMMA HistoryNext ==
  TypeInv /\ HistoryInv /\ [Next]_vars
    => /\ HistoryInv'
       /\ [SourceHistory!Next]_(SourceHistory!vars)
       /\ [CandidateHistory!Next]_(CandidateHistory!vars)
<1> SUFFICES ASSUME TypeInv, HistoryInv, [Next]_vars
             PROVE  /\ HistoryInv'
                    /\ [SourceHistory!Next]_(SourceHistory!vars)
                    /\ [CandidateHistory!Next]_(CandidateHistory!vars)
  OBVIOUS
<1>1. InBounds(sources) /\ InBounds(candidates)
  BY DEF HistoryInv
<1>2. MaxInFlight <= 1 => OrderInv'
  BY OrderNext DEF HistoryInv
<1>3. CASE sources' = sources /\ candidates' = candidates
  BY <1>1, <1>2, <1>3, HistoryUntouched DEF HistoryInv, InBounds
<1>4. ASSUME NEW r \in Requests, Step(r)
      PROVE  /\ InBounds(sources') /\ InBounds(candidates')
             /\ SourceHistory!Next \/ UNCHANGED SourceHistory!vars
             /\ CandidateHistory!Next \/ UNCHANGED CandidateHistory!vars
  <2>1. InBounds(sources') /\ (SourceHistory!Next \/ UNCHANGED SourceHistory!vars)
    <3>1. CASE sources' = sources
      BY <1>1, <3>1, HistoryUntouched
    <3>2. CASE CommitSource(r)
      BY <3>2, SourceHistoryCommit
    <3>3. CASE SourcePreflight(r)
      BY <3>3, HistoryPreflight
    <3> QED  BY <1>4, <3>1, <3>2, <3>3, TablesKept
  <2>2. InBounds(candidates') /\ (CandidateHistory!Next \/ UNCHANGED CandidateHistory!vars)
    <3>1. CASE candidates' = candidates
      BY <1>1, <3>1, HistoryUntouched
    <3>2. CASE CommitCandidate(r)
      BY <3>2, CandidateHistoryCommit
    <3>3. CASE CandidatePreflight(r)
      BY <3>3, HistoryPreflight
    <3> QED  BY <1>4, <3>1, <3>2, <3>3, TablesKept
  <2> QED  BY <2>1, <2>2
<1>5. ASSUME NEW r \in Requests, Step(r)
      PROVE  /\ HistoryInv'
             /\ [SourceHistory!Next]_(SourceHistory!vars)
             /\ [CandidateHistory!Next]_(CandidateHistory!vars)
  <2>1. InBounds(sources)' /\ InBounds(candidates)'
    BY <1>4, <1>5 DEF InBounds
  <2> QED  BY <1>2, <1>4, <1>5, <2>1 DEF HistoryInv
<1>6. ASSUME NEW r \in Requests, Arrive(r) \/ Crash(r) \/ ReadFault(r)
      PROVE  sources' = sources /\ candidates' = candidates
  BY <1>6 DEF Arrive, Crash, Start, StartRun, StartEditSource, StartEditCandidate,
              StartExecute, ReadFault, RecreateRecord, RebuildNothing, SkipLineage,
              ForgetReport, SkipReset, SkipRecord, ReadFails
<1>7. CASE UNCHANGED vars
  BY <1>3, <1>7 DEF vars
<1> QED  BY <1>3, <1>5, <1>6, <1>7 DEF Next

(* create_candidate_version, create_source_candidate_version and the two     *)
(* functions that store a preflight verdict, called by any number of         *)
(* requests in any interleaving, with any deaths and failed reads: each      *)
(* version table behaves as a history that only grows; served one at a time, *)
(* a commit leaves its own version alone active, with the next number.       *)
THEOREM VersionsAlwaysHistory == Spec => VersionsAreHistory
<1>1. Init => HistoryInv /\ SourceHistory!Init /\ CandidateHistory!Init
  <2> SUFFICES ASSUME Init
               PROVE  HistoryInv /\ SourceHistory!Init /\ CandidateHistory!Init
    OBVIOUS
  <2>1. sources = <<>> /\ candidates = <<>> /\ Len(sources) = 0 /\ Len(candidates) = 0
    BY EmptySeq DEF Init
  <2>2. HistoryInv
    BY <2>1, OrderInit DEF HistoryInv, InBounds
  <2>3. /\ History(sources) = <<>> /\ Active(sources) = {}
        /\ History(candidates) = <<>> /\ Active(candidates) = {}
    BY <2>1 DEF History, Active
  <2> QED  BY <2>2, <2>3 DEF SourceHistory!Init, CandidateHistory!Init
<1> QED  BY <1>1, HistoryNext, TypeInvariant, PTL
         DEF Spec, VersionsAreHistory, SourceHistory!Spec, CandidateHistory!Spec
------------------------------------------------------------------------------
(* Requests served one at a time that do not fail half way: what the record, *)
(* the report and the versions tell of each other.                          *)

Pipelines == {"run", "edit_source"}

(* What VerifiedIsCurrent says of a report.                                 *)
Current(rep, ss, cs) ==
  /\ cs # <<>> /\ rep.cand = Len(cs)
  /\ ss # <<>> /\ rep.src = ss[Len(ss)].text
  /\ rep.tr.sql = rep.tgt /\ rep.tr.of = rep.src

(* Where a request can be, by its kind.                                     *)
Where(l, k) ==
  /\ k \in Pipelines \cup {"execute", "edit_candidate"}
  /\ k = "execute" => l \in ExecuteLabels \cup {"loadCandidate"}
  /\ k = "edit_candidate" =>
       l \in {"insertCandidate", "commitCandidate", "candidatePreflight"} \cup ResetLabels
  /\ l = "rebuildTranslation" => k = "execute"

(* A pipeline has nothing to invalidate before it saves its own verdict.    *)
Blank(l, k) ==
  \/ k \in Pipelines /\ l \in {"createRecord", "resolveSource", "sourcePreflight", "translate",
       "insertCandidate", "commitCandidate", "candidatePreflight", "loadCandidate",
       "loadSource", "runPhases", "checkLineage", "decide", "saveReport"}
  \/ k = "run" /\ l \in {"insertSource", "commitSource"}
  \/ l = "resetRecord"

(* An edit has committed its version and not reset the report yet.          *)
Stale(l, k) ==
  \/ l \in {"readReport", "resetReport"}
  \/ l = "candidatePreflight" /\ k = "edit_candidate"

(* The record and the report, when the only request under way is at l.      *)
Tables(rec, rep, ss, cs, l, k, out) ==
  /\ rec = None => rep = None
  /\ rep = None => rec = None \/ rec.final # "VERIFIED"
  /\ rep # None /\ l \notin {"saveRecord", "blockRecord", "resetRecord"} => rec.final = rep.final
  /\ l = "saveRecord" => rep = out
  /\ l = "blockRecord" => rep # None /\ rep.final = "BLOCKED"
  /\ Blank(l, k) /\ rep # None => rep.final = "IN_PROGRESS"
  /\ ~Stale(l, k) /\ rep # None /\ rep.final = "VERIFIED" => Current(rep, ss, cs)

(* What a run or an edited source remembers, step by step: the translation  *)
(* is of the active source, the active candidate is that translation, and   *)
(* both are what it executes.                                               *)
Translated(x, ss) ==
  x.tr.status = "SUCCESS" /\ ss # <<>> /\ x.tr.of = ss[Len(ss)].text
Proposed(x, cs) == cs # <<>> /\ cs[Len(cs)].text = x.tr.sql
Chosen(x, cs) == x.cand = Len(cs) /\ x.tgt = x.tr.sql
Loaded(x, ss) == x.src = ss[Len(ss)].text

PipelineMemory(ss, cs, l, x) ==
  /\ l \in {"sourcePreflight", "translate"} => ss # <<>> /\ x.row = Len(ss)
  /\ l \in {"insertCandidate", "commitCandidate", "candidatePreflight", "loadCandidate",
            "loadSource", "runPhases"} => Translated(x, ss)
  /\ l \in {"candidatePreflight", "loadCandidate", "loadSource", "runPhases"} => Proposed(x, cs)
  /\ l \in {"loadSource", "runPhases"} => Chosen(x, cs)
  /\ l = "runPhases" => Loaded(x, ss)
  /\ l \in {"checkLineage", "decide"} /\ x.ev.tgt # "NOT_RUN" =>
       Translated(x, ss) /\ Proposed(x, cs) /\ Chosen(x, cs) /\ Loaded(x, ss)

(* What an execution remembers of a translation has no validation status,   *)
(* so it does not verify.                                                   *)
ExecuteMemory(rep, l, x) ==
  /\ l \in {"loadCandidate", "loadSource", "rebuildTranslation"} => x.tr = NoTranslation
  /\ l \in {"runPhases", "checkLineage", "decide"} => x.tr.valid = "NONE"
  /\ l \in {"runPhases", "checkLineage"} /\ x.tr.status = "NOT_RUN" =>
       rep = None \/ rep.tr.status = "NOT_RUN"
  /\ l = "decide" /\ x.tr.status = "NOT_RUN" => x.old.tr.status = "NOT_RUN"
  /\ l = "saveReport" => x.out.final # "VERIFIED"

Memory(rep, ss, cs, l, k, x) ==
  /\ k \in Pipelines => PipelineMemory(ss, cs, l, x)
  /\ k = "execute" => ExecuteMemory(rep, l, x)
  /\ l \in SourceLabels \cup {"insertCandidate", "commitCandidate", "candidatePreflight"} =>
       x.ev.tgt = "NOT_RUN"
  /\ l = "saveReport" /\ x.out.final = "VERIFIED" => Current(x.out, ss, cs)

Serves(rec, rep, ss, cs, l, k, x) ==
  Where(l, k) /\ Tables(rec, rep, ss, cs, l, k, x.out) /\ Memory(rep, ss, cs, l, k, x)

SerialInv ==
  /\ OrderInv
  /\ record # None \/ (\E r \in Requests : kind[r] # "none") =>
       \E q \in Requests : kind[q] = "run"
  /\ \A r \in Requests : pc[r] = "idle" => kind[r] = "none"
  /\ Quiescent => Tables(record, report, sources, candidates, "done", "none", NoReport)
  /\ \A r \in Requests :
       ~Idle(r) => Serves(record, report, sources, candidates, pc[r], kind[r], loc[r])

(* A request that is alone moves: what its new place says must hold of the  *)
(* tables and of what it remembers.                                         *)
LEMMA ServeMove ==
  ASSUME TypeInv, SerialInv, OrderInv', NEW r \in Requests, ~Idle(r) \/ Quiescent,
         NEW l, NEW x, Goto(r, l, x), l \notin {"idle", "done"},
         \A q \in Requests : q # r => kind'[q] = kind[q],
         \E q \in Requests : kind'[q] = "run",
         Serves(record', report', sources', candidates', l, kind'[r], x)
  PROVE  SerialInv'
<1>1. /\ \A q \in Requests : q # r => Idle(q) /\ pc'[q] = pc[q]
      /\ pc'[r] = l /\ loc'[r] = x
  BY GotoAlone DEF SerialInv, OrderInv
<1>2. ASSUME NEW q \in Requests, ~Idle(q)'
      PROVE  Serves(record', report', sources', candidates', pc'[q], kind'[q], loc'[q])
  BY <1>1, <1>2 DEF Idle
<1>3. ~Quiescent'
  BY <1>1 DEF Quiescent, Idle
<1>4. \A q \in Requests : pc'[q] = "idle" => kind'[q] = "none"
  BY <1>1 DEF SerialInv
<1> QED  BY <1>2, <1>3, <1>4 DEF SerialInv, Serves, Tables, Memory

(* A request that is alone ends.                                            *)
LEMMA ServeFinish ==
  ASSUME TypeInv, SerialInv, OrderInv', NEW r \in Requests, ~Idle(r), Finish(r), kind' = kind,
         Tables(record', report', sources', candidates', "done", "none", NoReport)
  PROVE  SerialInv'
<1>1. /\ \A q \in Requests : q # r => Idle(q) /\ pc'[q] = pc[q]
      /\ pc'[r] = "done"
  BY GotoAlone DEF SerialInv, OrderInv, Finish
<1>2. \A q \in Requests : Idle(q)'
  BY <1>1 DEF Idle
<1>3. \E q \in Requests : kind[q] = "run"
  BY DEF SerialInv, Serves, Where, Pipelines
<1>4. \A q \in Requests : pc'[q] = "idle" => kind'[q] = "none"
  BY <1>1 DEF SerialInv
<1> QED  BY <1>2, <1>3, <1>4 DEF SerialInv, Tables

(* A request that ends without a write, where the tables are settled.       *)
LEMMA ServeStop ==
  ASSUME TypeInv, SerialInv, OrderInv', NEW r \in Requests, ~Idle(r), Finish(r),
         UNCHANGED <<record, report, sources, candidates, kind>>,
         pc[r] \notin {"saveRecord", "blockRecord", "resetRecord"}, ~Stale(pc[r], kind[r])
  PROVE  SerialInv'
<1>1. Tables(record, report, sources, candidates, pc[r], kind[r], loc[r].out)
  BY DEF SerialInv, Serves
<1>2. Tables(record, report, sources, candidates, "done", "none", NoReport)
  BY <1>1 DEF Tables, Blank, Stale
<1> QED  BY <1>2, ServeFinish

(* The arrival of a request.                                                *)
LEMMA ServeArrive ==
  ASSUME MaxInFlight <= 1, TypeInv, SerialInv, OrderInv', NEW r \in Requests, Arrive(r)
  PROVE  SerialInv'
<1> USE DEF Serves, Where, Tables, Memory, PipelineMemory, ExecuteMemory, Blank, Stale,
        Pipelines, SourceLabels, ResetLabels, ExecuteLabels
<1>1. ASSUME NEW k \in Kinds, NEW l, NEW text, Start(r, k, l, text)
      PROVE  /\ Quiescent /\ kind'[r] = k /\ \A q \in Requests : q # r => kind'[q] = kind[q]
             /\ Goto(r, l, [NoLocals EXCEPT !.text = text])
             /\ UNCHANGED <<record, report, sources, candidates>>
             /\ Tables(record, report, sources, candidates, "done", "none", NoReport)
  <2>1. Quiescent
    BY <1>1, ArriveQuiet DEF SerialInv, OrderInv, Start
  <2> QED  BY <1>1, <2>1 DEF SerialInv, Start, TypeInv, TypeOK
<1>2. \A text : /\ [NoLocals EXCEPT !.text = text].ev.tgt = "NOT_RUN"
                /\ [NoLocals EXCEPT !.text = text].tr = NoTranslation
                /\ [NoLocals EXCEPT !.text = text].out = NoReport
  BY DEF NoLocals, NoEvidence
<1>3. ASSUME NEW text, StartRun(r, text)
      PROVE  SerialInv'
  <2> DEFINE x == [NoLocals EXCEPT !.text = Strip[text]]
  <2>1. Start(r, "run", "createRecord", Strip[text]) /\ \A q \in Requests : kind[q] # "run"
    BY <1>3 DEF StartRun
  <2>2. record = None /\ report = None
    BY <1>1, <2>1 DEF SerialInv, Kinds
  <2>3. Serves(record, report, sources, candidates, "createRecord", "run", x)
    BY <1>2, <2>2
  <2>4. \E q \in Requests : kind'[q] = "run"
    BY <1>1, <2>1 DEF Kinds
  <2> HIDE DEF x
  <2>5. Goto(r, "createRecord", x) /\ Quiescent /\ kind'[r] = "run"
        /\ UNCHANGED <<record, report, sources, candidates>>
        /\ \A q \in Requests : q # r => kind'[q] = kind[q]
    BY <1>1, <2>1 DEF Kinds, x
  <2> HIDE DEF Serves
  <2> QED  BY <2>3, <2>4, <2>5, ServeMove
<1>4. ASSUME NEW k \in {"edit_candidate", "edit_source", "execute"}, NEW text, record # None,
             NEW l, Start(r, k, l, text),
             l = CASE k = "edit_candidate" -> "insertCandidate"
                   [] k = "edit_source" -> "insertSource"
                   [] OTHER -> "loadCandidate"
      PROVE  SerialInv'
  <2> DEFINE x == [NoLocals EXCEPT !.text = text]
  <2>0. k \in Kinds
    BY DEF Kinds
  <2>1. Serves(record, report, sources, candidates, l, k, x)
    <3>1. Tables(record, report, sources, candidates, "done", "none", NoReport)
      BY <1>1, <1>4, <2>0
    <3>2. CASE k = "edit_candidate"
      BY <1>2, <1>4, <3>1, <3>2
    <3>3. CASE k = "edit_source"
      BY <1>2, <1>4, <3>1, <3>3
    <3>4. CASE k = "execute"
      BY <1>2, <1>4, <3>1, <3>4
    <3> QED  BY <3>2, <3>3, <3>4
  <2>2. PICK q \in Requests : kind[q] = "run"
    BY <1>4 DEF SerialInv
  <2>3. pc[r] = "idle"
    BY <1>4 DEF Start
  <2>4. kind[r] = "none"
    BY <2>3 DEF SerialInv
  <2>5. Goto(r, l, x) /\ Quiescent /\ kind'[r] = k
        /\ UNCHANGED <<record, report, sources, candidates>>
        /\ \A p \in Requests : p # r => kind'[p] = kind[p]
    BY <1>1, <1>4, <2>0
  <2> HIDE DEF x
  <2>6. \E p \in Requests : kind'[p] = "run"
    BY <2>2, <2>4, <2>5
  <2>7. l \notin {"idle", "done"}
    BY <1>4
  <2> HIDE DEF Serves
  <2> QED  BY <2>1, <2>5, <2>6, <2>7, ServeMove
<1> QED  BY <1>3, <1>4 DEF Arrive, StartEditSource, StartEditCandidate, StartExecute

(* What a request that is alone and under way knows.                        *)
LEMMA Served ==
  ASSUME TypeInv, SerialInv, NEW r \in Requests, ~Idle(r)
  PROVE  /\ loc[r] \in Locals /\ report \in Report \cup {None}
         /\ \E q \in Requests : kind[q] = "run"
         /\ Serves(record, report, sources, candidates, pc[r], kind[r], loc[r])
BY Known DEF SerialInv, Serves, Where, Pipelines

(* A request that is alone makes a step and goes on.                        *)
LEMMA ServeOn ==
  ASSUME TypeInv, SerialInv, OrderInv', NEW r \in Requests, ~Idle(r), NEW l, NEW x,
         Goto(r, l, x), l \notin {"idle", "done"}, kind' = kind,
         Serves(record', report', sources', candidates', l, kind[r], x)
  PROVE  SerialInv'
BY Served, ServeMove

(* The lengths of the version tables and their last rows.                   *)
LEMMA LastRows ==
  ASSUME TypeInv
  PROVE  /\ Len(sources) \in Nat /\ Len(candidates) \in Nat
         /\ DOMAIN sources = 1..Len(sources) /\ DOMAIN candidates = 1..Len(candidates)
         /\ sources # <<>> <=> Len(sources) # 0
         /\ candidates # <<>> <=> Len(candidates) # 0
BY LenProperties, EmptySeq DEF TypeInv, TypeOK

(* The active versions are the last ones.                                   *)
LEMMA ActiveLast ==
  ASSUME TypeInv, OrderInv
  PROVE  /\ sources # <<>> => Active(sources) = {Len(sources)}
         /\ candidates # <<>> => Active(candidates) = {Len(candidates)}
         /\ sources = <<>> => Active(sources) = {}
         /\ candidates = <<>> => Active(candidates) = {}
<1>1. sources \in Seq(SourceRow) /\ candidates \in Seq(CandidateRow)
  BY DEF TypeInv, TypeOK
<1> QED  BY <1>1, LastIsActive DEF OrderInv

(* CreateRecord.                                                            *)
LEMMA ServeCreateRecord ==
  ASSUME TypeInv, SerialInv, OrderInv', NEW r \in Requests, ~Idle(r), CreateRecord(r)
  PROVE  SerialInv'
<1>1. /\ Serves(record, report, sources, candidates, "createRecord", kind[r], loc[r])
      /\ loc[r] \in Locals
  BY Served DEF CreateRecord, At
<1>2. /\ record' = IF record = None THEN Created(loc[r].text) ELSE record
      /\ Goto(r, "resolveSource", loc[r]) /\ kind' = kind
      /\ UNCHANGED <<report, sources, candidates>>
  BY DEF CreateRecord, At
<1>3. Created(loc[r].text).final = "IN_PROGRESS" /\ (record = None => report = None)
  BY <1>1 DEF Created, Serves, Tables
<1>4. kind[r] \in Pipelines
  BY <1>1 DEF Serves, Where, Pipelines, ExecuteLabels, ResetLabels
<1>5. Serves(record', report', sources', candidates', "resolveSource", kind[r], loc[r])
  BY <1>1, <1>2, <1>3, <1>4 DEF Serves, Where, Tables, Memory, PipelineMemory, Blank, Stale,
     Pipelines, SourceLabels
<1> QED  BY <1>2, <1>5, ServeOn

(* ResolveSource.                                                           *)
LEMMA ServeResolveSource ==
  ASSUME TypeInv, SerialInv, OrderInv', NEW r \in Requests, ~Idle(r), ResolveSource(r)
  PROVE  SerialInv'
<1>1. /\ Serves(record, report, sources, candidates, "resolveSource", kind[r], loc[r])
      /\ loc[r] \in Locals
  BY Served DEF ResolveSource, At
<1>2. kind' = kind /\ UNCHANGED <<record, report, sources, candidates>>
  BY DEF ResolveSource, At
<1>3. kind[r] \in Pipelines
  BY <1>1 DEF Serves, Where, Pipelines, ExecuteLabels, ResetLabels
<1>4. CASE Goto(r, "insertSource", loc[r])
  <2>1. Serves(record, report, sources, candidates, "insertSource", kind[r], loc[r])
    BY <1>1, <1>3 DEF Serves, Where, Tables, Memory, PipelineMemory, Blank, Stale,
       Pipelines, SourceLabels
  <2> QED  BY <1>2, <1>4, <2>1, ServeOn
<1>5. ASSUME NEW i \in Active(sources), Goto(r, "sourcePreflight", [loc[r] EXCEPT !.row = i])
      PROVE  SerialInv'
  <2> DEFINE x == [loc[r] EXCEPT !.row = i]
  <2>1. x.row = i /\ x.ev = loc[r].ev /\ x.out = loc[r].out
    BY <1>1 DEF Locals
  <2>2. sources # <<>> /\ i = Len(sources)
    BY ActiveLast DEF SerialInv
  <2> HIDE DEF x
  <2>3. Serves(record, report, sources, candidates, "sourcePreflight", kind[r], x)
    BY <1>1, <1>3, <2>1, <2>2 DEF Serves, Where, Tables, Memory, PipelineMemory, Blank, Stale,
       Pipelines, SourceLabels
  <2> QED  BY <1>2, <1>5, <2>3, ServeOn DEF x
<1> QED  BY <1>4, <1>5 DEF ResolveSource

(* InsertSource.                                                            *)
LEMMA ServeInsertSource ==
  ASSUME TypeInv, SerialInv, OrderInv', NEW r \in Requests, ~Idle(r), InsertSource(r)
  PROVE  SerialInv'
<1> DEFINE x == [loc[r] EXCEPT !.seen = Len(sources)]
<1>1. /\ Serves(record, report, sources, candidates, "insertSource", kind[r], loc[r])
      /\ loc[r] \in Locals
  BY Served DEF InsertSource, At
<1>2. /\ Goto(r, "commitSource", x) /\ kind' = kind
      /\ UNCHANGED <<record, report, sources, candidates>>
  BY DEF InsertSource, At
<1>3. x.ev = loc[r].ev /\ x.out = loc[r].out
  BY <1>1 DEF Locals
<1> HIDE DEF x
<1>4. kind[r] \in Pipelines
  BY <1>1 DEF Serves, Where, Pipelines, ExecuteLabels, ResetLabels
<1>5. Serves(record, report, sources, candidates, "commitSource", kind[r], x)
  BY <1>1, <1>3, <1>4 DEF Serves, Where, Tables, Memory, PipelineMemory, Blank, Stale,
     Pipelines, SourceLabels
<1> QED  BY <1>2, <1>5, ServeOn

(* CommitSource.                                                            *)
LEMMA ServeCommitSource ==
  ASSUME TypeInv, SerialInv, OrderInv', NEW r \in Requests, ~Idle(r), CommitSource(r)
  PROVE  SerialInv'
<1> DEFINE l == IF kind[r] = "run" THEN "sourcePreflight" ELSE "readReport"
           x == [loc[r] EXCEPT !.row = Len(sources) + 1]
<1>1. /\ Serves(record, report, sources, candidates, "commitSource", kind[r], loc[r])
      /\ loc[r] \in Locals
  BY Served DEF CommitSource, At
<1>2. /\ Goto(r, l, x) /\ kind' = kind /\ UNCHANGED <<record, report, candidates>>
  BY DEF CommitSource, At
<1>3. x.ev = loc[r].ev /\ x.out = loc[r].out /\ x.row = Len(sources) + 1
  BY <1>1 DEF Locals
<1>4. kind[r] \in Pipelines
  BY <1>1 DEF Serves, Where, Pipelines, ExecuteLabels, ResetLabels
<1>5. Len(sources') = Len(sources) + 1 /\ sources' # <<>>
  <2>1. Len(sources') = Len(sources) + 1 /\ Len(sources) \in Nat
    BY SourceCommitted, LastRows
  <2> QED  BY <2>1, EmptySeq
<1> HIDE DEF x
<1>6. CASE kind[r] = "run"
  <2>1. Serves(record', report', sources', candidates', "sourcePreflight", "run", x)
    BY <1>1, <1>2, <1>3, <1>5, <1>6 DEF Serves, Where, Tables, Memory, PipelineMemory, Blank,
       Stale, Pipelines, SourceLabels
  <2> QED  BY <1>2, <1>6, <2>1, ServeOn
<1>7. CASE kind[r] = "edit_source"
  <2>1. Serves(record', report', sources', candidates', "readReport", "edit_source", x)
    BY <1>1, <1>2, <1>3, <1>7 DEF Serves, Where, Tables, Memory, PipelineMemory, Blank,
       Stale, Pipelines, SourceLabels
  <2> QED  BY <1>2, <1>7, <2>1, ServeOn
<1> QED  BY <1>4, <1>6, <1>7 DEF Pipelines

(* SourcePreflight.                                                         *)
LEMMA ServeSourcePreflight ==
  ASSUME TypeInv, SerialInv, OrderInv', NEW r \in Requests, ~Idle(r), SourcePreflight(r)
  PROVE  SerialInv'
<1>1. /\ Serves(record, report, sources, candidates, "sourcePreflight", kind[r], loc[r])
      /\ loc[r] \in Locals
  BY Served DEF SourcePreflight, At
<1>2. kind' = kind /\ UNCHANGED <<record, report, candidates>>
  BY DEF SourcePreflight, At
<1>3. kind[r] \in Pipelines
  BY <1>1 DEF Serves, Where, Pipelines, ExecuteLabels, ResetLabels
<1>4. Len(sources') = Len(sources) /\ sources' # <<>>
  <2>1. Len(sources') = Len(sources) /\ Len(sources) \in Nat /\ Len(sources) # 0
    BY <1>1, <1>3, SourcePreflighted, LastRows DEF Serves, Memory, PipelineMemory
  <2> QED  BY <2>1, EmptySeq
<1>5. CASE Goto(r, "translate", loc[r])
  <2>1. Serves(record', report', sources', candidates', "translate", kind[r], loc[r])
    BY <1>1, <1>2, <1>3, <1>4 DEF Serves, Where, Tables, Memory, PipelineMemory, Blank,
       Stale, Pipelines, SourceLabels
  <2> QED  BY <1>2, <1>5, <2>1, ServeOn
<1>6. CASE Goto(r, "checkLineage", [loc[r] EXCEPT !.blocked = TRUE])
  <2> DEFINE x == [loc[r] EXCEPT !.blocked = TRUE]
  <2>1. x.ev = loc[r].ev /\ x.out = loc[r].out
    BY <1>1 DEF Locals
  <2>2. Goto(r, "checkLineage", x)
    BY <1>6
  <2> HIDE DEF x
  <2>3. Serves(record', report', sources', candidates', "checkLineage", kind[r], x)
    BY <1>1, <1>2, <1>3, <2>1 DEF Serves, Where, Tables, Memory, PipelineMemory, Blank,
       Stale, Pipelines, SourceLabels
  <2> QED  BY <1>2, <2>2, <2>3, ServeOn
<1> QED  BY <1>5, <1>6 DEF SourcePreflight

(* TranslateOk.                                                             *)
LEMMA ServeTranslateOk ==
  ASSUME TypeInv, SerialInv, OrderInv', NEW r \in Requests, ~Idle(r),
         NEW sql \in Targets, TranslateOk(r, sql)
  PROVE  SerialInv'
<1> DEFINE t == [status |-> "SUCCESS", valid |-> "VALID_SYNTAX", error |-> "NONE", sql |-> sql,
                 hash |-> loc[r].text, of |-> sources[loc[r].row].text]
           x == [loc[r] EXCEPT !.tr = t]
<1>1. /\ Serves(record, report, sources, candidates, "translate", kind[r], loc[r])
      /\ loc[r] \in Locals
  BY Served DEF TranslateOk, At
<1>2. /\ Goto(r, "insertCandidate", x) /\ kind' = kind
      /\ UNCHANGED <<record, report, sources, candidates>>
  BY DEF TranslateOk, At
<1>3. kind[r] \in Pipelines
  BY <1>1 DEF Serves, Where, Pipelines, ExecuteLabels, ResetLabels
<1>4. x.ev = loc[r].ev /\ x.out = loc[r].out /\ x.tr = t
  BY <1>1 DEF Locals
<1> HIDE DEF x
<1>5. Translated(x, sources)
  BY <1>1, <1>3, <1>4 DEF Serves, Memory, PipelineMemory, Translated
<1>6. Serves(record, report, sources, candidates, "insertCandidate", kind[r], x)
  BY <1>1, <1>3, <1>4, <1>5 DEF Serves, Where, Tables, Memory, PipelineMemory, Blank,
     Stale, Pipelines, SourceLabels
<1> QED  BY <1>2, <1>6, ServeOn

(* TranslateFails.                                                          *)
LEMMA ServeTranslateFails ==
  ASSUME TypeInv, SerialInv, OrderInv', NEW r \in Requests, ~Idle(r),
         NEW f \in Failures, TranslateFails(r, f)
  PROVE  SerialInv'
<1> DEFINE t == [status |-> f.status, valid |-> f.valid, error |-> f.error, sql |-> f.sql,
                 hash |-> loc[r].text, of |-> sources[loc[r].row].text]
           x == [loc[r] EXCEPT !.tr = t]
<1>1. /\ Serves(record, report, sources, candidates, "translate", kind[r], loc[r])
      /\ loc[r] \in Locals
  BY Served DEF TranslateFails, At
<1>2. /\ Goto(r, "checkLineage", x) /\ kind' = kind
      /\ UNCHANGED <<record, report, sources, candidates>>
  BY DEF TranslateFails, At
<1>3. kind[r] \in Pipelines
  BY <1>1 DEF Serves, Where, Pipelines, ExecuteLabels, ResetLabels
<1>4. x.ev = loc[r].ev /\ x.out = loc[r].out
  BY <1>1 DEF Locals
<1> HIDE DEF x
<1>5. Serves(record, report, sources, candidates, "checkLineage", kind[r], x)
  BY <1>1, <1>3, <1>4 DEF Serves, Where, Tables, Memory, PipelineMemory, Blank,
     Stale, Pipelines, SourceLabels
<1> QED  BY <1>2, <1>5, ServeOn

(* InsertCandidate.                                                         *)
LEMMA ServeInsertCandidate ==
  ASSUME TypeInv, SerialInv, OrderInv', NEW r \in Requests, ~Idle(r), InsertCandidate(r)
  PROVE  SerialInv'
<1> DEFINE x == [loc[r] EXCEPT !.seen = Len(candidates)]
<1>1. /\ Serves(record, report, sources, candidates, "insertCandidate", kind[r], loc[r])
      /\ loc[r] \in Locals
  BY Served DEF InsertCandidate, At
<1>2. /\ Goto(r, "commitCandidate", x) /\ kind' = kind
      /\ UNCHANGED <<record, report, sources, candidates>>
  BY DEF InsertCandidate, At
<1>3. x.ev = loc[r].ev /\ x.out = loc[r].out /\ x.tr = loc[r].tr
  BY <1>1 DEF Locals
<1> HIDE DEF x
<1>4. kind[r] \in Pipelines \cup {"edit_candidate"}
  BY <1>1 DEF Serves, Where, ExecuteLabels
<1>5. Serves(record, report, sources, candidates, "commitCandidate", kind[r], x)
  BY <1>1, <1>3, <1>4 DEF Serves, Where, Tables, Memory, PipelineMemory, Blank, Stale,
     Pipelines, SourceLabels, Translated
<1> QED  BY <1>2, <1>5, ServeOn

(* CommitCandidate.                                                         *)
LEMMA ServeCommitCandidate ==
  ASSUME TypeInv, SerialInv, OrderInv', NEW r \in Requests, ~Idle(r), CommitCandidate(r)
  PROVE  SerialInv'
<1> DEFINE x == [loc[r] EXCEPT !.cand = Len(candidates) + 1]
<1>1. /\ Serves(record, report, sources, candidates, "commitCandidate", kind[r], loc[r])
      /\ loc[r] \in Locals
  BY Served DEF CommitCandidate, At
<1>2. /\ Goto(r, "candidatePreflight", x) /\ kind' = kind /\ UNCHANGED <<record, report, sources>>
  BY DEF CommitCandidate, At
<1>3. x.ev = loc[r].ev /\ x.out = loc[r].out /\ x.tr = loc[r].tr
  BY <1>1 DEF Locals
<1> HIDE DEF x
<1>4. kind[r] \in Pipelines \cup {"edit_candidate"}
  BY <1>1 DEF Serves, Where, ExecuteLabels
<1>5. Len(candidates') = Len(candidates) + 1 /\ candidates' # <<>>
  <2>1. Len(candidates') = Len(candidates) + 1 /\ Len(candidates) \in Nat
    BY CandidateCommitted, LastRows
  <2> QED  BY <2>1, EmptySeq
<1>6. CASE kind[r] = "edit_candidate"
  <2>1. Serves(record', report', sources', candidates', "candidatePreflight", "edit_candidate", x)
    BY <1>1, <1>2, <1>3, <1>6 DEF Serves, Where, Tables, Memory, PipelineMemory, Blank, Stale,
       Pipelines, SourceLabels
  <2> QED  BY <1>2, <1>6, <2>1, ServeOn
<1>7. CASE kind[r] \in Pipelines
  <2>1. candidates'[Len(candidates')].text = x.tr.sql
    BY <1>3, <1>5, <1>7, CandidateInOrder DEF Pipelines, SerialInv
  <2>2. Proposed(x, candidates')
    BY <1>5, <2>1 DEF Proposed
  <2>3. Translated(x, sources')
    BY <1>1, <1>2, <1>3, <1>7 DEF Serves, Memory, PipelineMemory, Translated
  <2>4. Serves(record', report', sources', candidates', "candidatePreflight", kind[r], x)
    BY <1>1, <1>2, <1>3, <1>7, <2>2, <2>3 DEF Serves, Where, Tables, Memory, PipelineMemory,
       Blank, Stale, Pipelines, SourceLabels
  <2> QED  BY <1>2, <2>4, ServeOn
<1> QED  BY <1>4, <1>6, <1>7

(* CandidatePreflight.                                                      *)
LEMMA ServeCandidatePreflight ==
  ASSUME TypeInv, SerialInv, OrderInv', NEW r \in Requests, ~Idle(r), CandidatePreflight(r)
  PROVE  SerialInv'
<1>1. /\ Serves(record, report, sources, candidates, "candidatePreflight", kind[r], loc[r])
      /\ loc[r] \in Locals
  BY Served DEF CandidatePreflight, At
<1>2. kind' = kind /\ UNCHANGED <<record, report, sources>>
  BY DEF CandidatePreflight, At
<1>3. kind[r] \in Pipelines \cup {"edit_candidate"}
  BY <1>1 DEF Serves, Where, ExecuteLabels
<1>4. CASE kind[r] = "edit_candidate"
  <2>1. Serves(record', report', sources', candidates', "readReport", "edit_candidate", loc[r])
    BY <1>1, <1>2, <1>4 DEF Serves, Where, Tables, Memory, PipelineMemory, Blank, Stale,
       Pipelines, SourceLabels, ResetLabels
  <2>2. Goto(r, "readReport", loc[r])
    BY <1>4 DEF CandidatePreflight
  <2> QED  BY <1>2, <1>4, <2>1, <2>2, ServeOn
<1>5. CASE kind[r] \in Pipelines
  <2>1. Translated(loc[r], sources) /\ Proposed(loc[r], candidates)
    BY <1>1, <1>5 DEF Serves, Memory, PipelineMemory
  <2>2. /\ Len(candidates') = Len(candidates) /\ Len(candidates) \in Nat /\ Len(candidates) # 0
        /\ candidates'[Len(candidates)].text = candidates[Len(candidates)].text
    BY <2>1, CandidatePreflighted, LastRows DEF Proposed
  <2>3. candidates' # <<>>
    BY <2>2, EmptySeq
  <2>4. PICK l \in {"loadCandidate", "checkLineage"}, b \in BOOLEAN :
          Goto(r, l, [loc[r] EXCEPT !.blocked = b, !.cand = 0])
          \/ (l = "loadCandidate" /\ Goto(r, l, [loc[r] EXCEPT !.cand = 0]))
    BY <1>5 DEF CandidatePreflight, Pipelines
  <2>5. PICK x : /\ Goto(r, l, x)
                 /\ x.tr = loc[r].tr /\ x.ev = loc[r].ev /\ x.out = loc[r].out
    <3>1. ASSUME NEW x, x = [loc[r] EXCEPT !.blocked = b, !.cand = 0]
                        \/ x = [loc[r] EXCEPT !.cand = 0]
          PROVE  x.tr = loc[r].tr /\ x.ev = loc[r].ev /\ x.out = loc[r].out
      BY <1>1, <3>1 DEF Locals
    <3> QED  BY <2>4, <3>1
  <2>6. Translated(x, sources') /\ Proposed(x, candidates')
    BY <1>2, <2>1, <2>2, <2>3, <2>5 DEF Translated, Proposed
  <2>7. Serves(record', report', sources', candidates', l, kind[r], x)
    BY <1>1, <1>2, <1>5, <2>5, <2>6 DEF Serves, Where, Tables, Memory, PipelineMemory, Blank,
       Stale, Pipelines, SourceLabels
  <2> QED  BY <1>2, <2>5, <2>7, ServeOn
<1> QED  BY <1>3, <1>4, <1>5

(* LoadCandidate.                                                           *)
LEMMA ServeLoadCandidate ==
  ASSUME TypeInv, SerialInv, OrderInv', NEW r \in Requests, ~Idle(r), LoadCandidate(r)
  PROVE  SerialInv'
<1>1. /\ Serves(record, report, sources, candidates, "loadCandidate", kind[r], loc[r])
      /\ loc[r] \in Locals
  BY Served DEF LoadCandidate, At
<1>2. kind' = kind /\ UNCHANGED <<record, report, sources, candidates>> /\ pc[r] = "loadCandidate"
  BY DEF LoadCandidate, At
<1>3. CASE Finish(r)
  BY <1>2, <1>3, ServeStop DEF Stale
<1>4. ASSUME NEW i \in Active(candidates),
             Goto(r, "loadSource", [loc[r] EXCEPT !.cand = i, !.tgt = candidates[i].text])
      PROVE  SerialInv'
  <2> DEFINE x == [loc[r] EXCEPT !.cand = i, !.tgt = candidates[i].text]
  <2>1. /\ x.tr = loc[r].tr /\ x.ev = loc[r].ev /\ x.out = loc[r].out
        /\ x.cand = i /\ x.tgt = candidates[i].text
    BY <1>1 DEF Locals
  <2>2. i = Len(candidates)
    BY ActiveLast DEF SerialInv
  <2>3. Goto(r, "loadSource", x)
    BY <1>4
  <2> HIDE DEF x
  <2>4. kind[r] \in Pipelines =>
          Translated(x, sources) /\ Proposed(x, candidates) /\ Chosen(x, candidates)
    BY <1>1, <2>1, <2>2 DEF Serves, Memory, PipelineMemory, Translated, Proposed, Chosen
  <2>5. Serves(record, report, sources, candidates, "loadSource", kind[r], x)
    BY <1>1, <2>1, <2>4 DEF Serves, Where, Tables, Memory, PipelineMemory, ExecuteMemory, Blank,
       Stale, Pipelines, SourceLabels, ExecuteLabels, ResetLabels
  <2> QED  BY <1>2, <2>3, <2>5, ServeOn
<1>5. \/ Finish(r)
      \/ \E i \in Active(candidates) :
           Goto(r, "loadSource", [loc[r] EXCEPT !.cand = i, !.tgt = candidates[i].text])
  BY DEF LoadCandidate
<1> QED  BY <1>3, <1>4, <1>5

(* LoadSource.                                                              *)
LEMMA ServeLoadSource ==
  ASSUME TypeInv, SerialInv, OrderInv', NEW r \in Requests, ~Idle(r), LoadSource(r)
  PROVE  SerialInv'
<1>1. /\ Serves(record, report, sources, candidates, "loadSource", kind[r], loc[r])
      /\ loc[r] \in Locals
  BY Served DEF LoadSource, At
<1>2. kind' = kind /\ UNCHANGED <<record, report, sources, candidates>>
  BY DEF LoadSource, At
<1>3. PICK text \in ActiveSourceTexts :
        Goto(r, IF kind[r] = "execute" THEN "rebuildTranslation" ELSE "runPhases",
             [loc[r] EXCEPT !.src = text])
  BY DEF LoadSource
<1> DEFINE x == [loc[r] EXCEPT !.src = text]
<1>4. /\ x.tr = loc[r].tr /\ x.ev = loc[r].ev /\ x.out = loc[r].out
      /\ x.cand = loc[r].cand /\ x.tgt = loc[r].tgt /\ x.src = text
  BY <1>1 DEF Locals
<1>5. Goto(r, IF kind[r] = "execute" THEN "rebuildTranslation" ELSE "runPhases", x)
  BY <1>3
<1> HIDE DEF x
<1>6. kind[r] \in Pipelines \cup {"execute"}
  BY <1>1 DEF Serves, Where, ResetLabels
<1>7. CASE kind[r] = "execute"
  <2>1. Serves(record, report, sources, candidates, "rebuildTranslation", "execute", x)
    BY <1>1, <1>4, <1>7 DEF Serves, Where, Tables, Memory, PipelineMemory, ExecuteMemory, Blank,
       Stale, Pipelines, SourceLabels, ExecuteLabels, ResetLabels
  <2> QED  BY <1>2, <1>5, <1>7, <2>1, ServeOn
<1>8. CASE kind[r] \in Pipelines
  <2>1. Translated(loc[r], sources) /\ Proposed(loc[r], candidates) /\ Chosen(loc[r], candidates)
    BY <1>1, <1>8 DEF Serves, Memory, PipelineMemory
  <2>2. text = sources[Len(sources)].text
    BY <2>1, ActiveLast DEF SerialInv, Translated, ActiveSourceTexts
  <2>3. /\ Translated(x, sources) /\ Proposed(x, candidates) /\ Chosen(x, candidates)
        /\ Loaded(x, sources)
    BY <1>4, <2>1, <2>2 DEF Translated, Proposed, Chosen, Loaded
  <2>4. Serves(record, report, sources, candidates, "runPhases", kind[r], x)
    BY <1>1, <1>4, <1>8, <2>3 DEF Serves, Where, Tables, Memory, PipelineMemory, Blank,
       Stale, Pipelines, SourceLabels, ExecuteLabels, ResetLabels
  <2> QED  BY <1>2, <1>5, <1>8, <2>4, ServeOn DEF Pipelines
<1> QED  BY <1>6, <1>7, <1>8

(* RebuildTranslation.                                                      *)
LEMMA ServeRebuildTranslation ==
  ASSUME TypeInv, SerialInv, OrderInv', NEW r \in Requests, ~Idle(r), RebuildTranslation(r)
  PROVE  SerialInv'
<1>1. /\ Serves(record, report, sources, candidates, "rebuildTranslation", kind[r], loc[r])
      /\ loc[r] \in Locals
  BY Served DEF RebuildTranslation, At
<1>2. kind' = kind /\ UNCHANGED <<record, report, sources, candidates>>
  BY DEF RebuildTranslation, At
<1>3. kind[r] = "execute"
  BY <1>1 DEF Serves, Where
<1>4. loc[r].tr = NoTranslation
  BY <1>1, <1>3 DEF Serves, Memory, ExecuteMemory
<1>5. \E x : /\ Goto(r, "runPhases", x) /\ x.out = loc[r].out /\ x.tr.valid = "NONE"
             /\ x.tr.status = "NOT_RUN" => report = None \/ report.tr.status = "NOT_RUN"
  <2>1. CASE report = None \/ report.tr.status = "NOT_RUN"
    <3>1. Goto(r, "runPhases", loc[r])
      BY <2>1 DEF RebuildTranslation
    <3>2. loc[r].tr.valid = "NONE"
      BY <1>4 DEF NoTranslation
    <3> QED  BY <2>1, <3>1, <3>2
  <2>2. CASE ~(report = None \/ report.tr.status = "NOT_RUN")
    <3> DEFINE t == [NoTranslation EXCEPT !.status = report.tr.status, !.hash = record.hash,
                                          !.of = report.tr.of]
               x == [loc[r] EXCEPT !.tr = t]
    <3>1. Goto(r, "runPhases", x)
      BY <2>2 DEF RebuildTranslation
    <3>2. x.tr = t /\ x.out = loc[r].out
      BY <1>1 DEF Locals
    <3>3. t.valid = "NONE" /\ t.status = report.tr.status
      BY DEF NoTranslation
    <3> HIDE DEF x, t
    <3> QED  BY <2>2, <3>1, <3>2, <3>3
  <2> QED  BY <2>1, <2>2
<1>6. PICK x : /\ Goto(r, "runPhases", x) /\ x.out = loc[r].out /\ x.tr.valid = "NONE"
               /\ x.tr.status = "NOT_RUN" => report = None \/ report.tr.status = "NOT_RUN"
  BY <1>5
<1>7. Serves(record, report, sources, candidates, "runPhases", "execute", x)
  BY <1>1, <1>3, <1>6 DEF Serves, Where, Tables, Memory, ExecuteMemory, Blank, Stale,
     Pipelines, SourceLabels, ExecuteLabels
<1> QED  BY <1>2, <1>3, <1>6, <1>7, ServeOn

(* RunPhases.                                                               *)
LEMMA ServeRunPhases ==
  ASSUME TypeInv, SerialInv, OrderInv', NEW r \in Requests, ~Idle(r), NEW o, RunPhases(r, o)
  PROVE  SerialInv'
<1> DEFINE x == [loc[r] EXCEPT !.ev = o]
<1>1. /\ Serves(record, report, sources, candidates, "runPhases", kind[r], loc[r])
      /\ loc[r] \in Locals
  BY Served DEF RunPhases, At
<1>2. /\ Goto(r, "checkLineage", x) /\ kind' = kind
      /\ UNCHANGED <<record, report, sources, candidates>>
  BY DEF RunPhases, At
<1>3. /\ x.tr = loc[r].tr /\ x.out = loc[r].out /\ x.cand = loc[r].cand
      /\ x.tgt = loc[r].tgt /\ x.src = loc[r].src
  BY <1>1 DEF Locals
<1> HIDE DEF x
<1>4. kind[r] \in Pipelines \cup {"execute"}
  BY <1>1 DEF Serves, Where, ResetLabels
<1>5. CASE kind[r] = "execute"
  <2>1. Serves(record, report, sources, candidates, "checkLineage", "execute", x)
    BY <1>1, <1>3, <1>5 DEF Serves, Where, Tables, Memory, ExecuteMemory, Blank, Stale,
       Pipelines, SourceLabels, ExecuteLabels
  <2> QED  BY <1>2, <1>5, <2>1, ServeOn
<1>6. CASE kind[r] \in Pipelines
  <2>1. /\ Translated(loc[r], sources) /\ Proposed(loc[r], candidates)
        /\ Chosen(loc[r], candidates) /\ Loaded(loc[r], sources)
    BY <1>1, <1>6 DEF Serves, Memory, PipelineMemory
  <2>2. /\ Translated(x, sources) /\ Proposed(x, candidates)
        /\ Chosen(x, candidates) /\ Loaded(x, sources)
    BY <1>3, <2>1 DEF Translated, Proposed, Chosen, Loaded
  <2>3. Serves(record, report, sources, candidates, "checkLineage", kind[r], x)
    BY <1>1, <1>3, <1>6, <2>2 DEF Serves, Where, Tables, Memory, PipelineMemory, Blank, Stale,
       Pipelines, SourceLabels
  <2> QED  BY <1>2, <2>3, ServeOn
<1> QED  BY <1>4, <1>5, <1>6

(* CheckLineage.                                                            *)
LEMMA ServeCheckLineage ==
  ASSUME TypeInv, SerialInv, OrderInv', NEW r \in Requests, ~Idle(r), CheckLineage(r)
  PROVE  SerialInv'
<1> DEFINE old == IF report = None THEN NoReport ELSE report
           x == [loc[r] EXCEPT !.exists = report # None, !.old = old]
<1>1. /\ Serves(record, report, sources, candidates, "checkLineage", kind[r], loc[r])
      /\ loc[r] \in Locals
  BY Served DEF CheckLineage, At
<1>2. /\ pc[r] = "checkLineage" /\ kind' = kind
      /\ UNCHANGED <<record, report, sources, candidates>>
  BY DEF CheckLineage, At
<1>3. CASE Finish(r)
  BY <1>2, <1>3, ServeStop DEF Stale
<1>4. CASE Goto(r, "decide", x)
  <2>1. /\ x.tr = loc[r].tr /\ x.out = loc[r].out /\ x.cand = loc[r].cand
        /\ x.tgt = loc[r].tgt /\ x.src = loc[r].src /\ x.ev = loc[r].ev /\ x.old = old
    BY <1>1 DEF Locals
  <2>2. report = None \/ report.tr.status = "NOT_RUN" => old.tr.status = "NOT_RUN"
    BY DEF NoReport, NoTranslation
  <2>3. Goto(r, "decide", x)
    BY <1>4
  <2> HIDE DEF x, old
  <2>4. kind[r] \in Pipelines \cup {"execute"}
    BY <1>1 DEF Serves, Where, ResetLabels
  <2>5. CASE kind[r] = "execute"
    <3>1. Serves(record, report, sources, candidates, "decide", "execute", x)
      BY <1>1, <2>1, <2>2, <2>5 DEF Serves, Where, Tables, Memory, ExecuteMemory, Blank, Stale,
         Pipelines, SourceLabels, ExecuteLabels
    <3> QED  BY <1>2, <2>3, <2>5, <3>1, ServeOn
  <2>6. CASE kind[r] \in Pipelines
    <3>1. loc[r].ev.tgt # "NOT_RUN" =>
            /\ Translated(x, sources) /\ Proposed(x, candidates)
            /\ Chosen(x, candidates) /\ Loaded(x, sources)
      BY <1>1, <2>1, <2>6 DEF Serves, Memory, PipelineMemory, Translated, Proposed, Chosen, Loaded
    <3>2. Serves(record, report, sources, candidates, "decide", kind[r], x)
      BY <1>1, <2>1, <2>6, <3>1 DEF Serves, Where, Tables, Memory, PipelineMemory, Blank, Stale,
         Pipelines, SourceLabels
    <3> QED  BY <1>2, <2>3, <3>2, ServeOn
  <2> QED  BY <2>4, <2>5, <2>6
<1> QED  BY <1>3, <1>4 DEF CheckLineage

(* What a VERIFIED verdict rests on.                                        *)
LEMMA VerifiedVerdict ==
  ASSUME NEW x \in Locals, Verdict(x).final = "VERIFIED"
  PROVE  /\ x.ev.tgt = "SUCCESS"
         /\ EffectiveTranslation(x).valid = "VALID_SYNTAX"
         /\ EffectiveTranslation(x).status # "NOT_RUN"
<1> DEFINE t == EffectiveTranslation(x)
           e == WithTranslation(x.ev, t)
<1>1. x.ev \in EvidenceSpace
  BY DEF Locals
<1>2. e.tgt = x.ev.tgt /\ e.trValid = t.valid /\ e.trStatus = t.status
  BY <1>1 DEF WithTranslation, EvidenceSpace
<1>3. FinalStatus(e) = "VERIFIED"
  BY DEF Verdict
<1> HIDE DEF e, t
<1>4. e.tgt = "SUCCESS" /\ e.trValid = "VALID_SYNTAX" /\ e.trStatus # "NOT_RUN"
  BY <1>3, DecisionSound DEF DetermineVerified, LineageComplete, BaseArtifacts
<1> QED  BY <1>2, <1>4 DEF t

(* Decide.                                                                  *)
LEMMA ServeDecide ==
  ASSUME TypeInv, SerialInv, OrderInv', NEW r \in Requests, ~Idle(r), Decide(r)
  PROVE  SerialInv'
<1> DEFINE out == Verdict(loc[r])
           x == [loc[r] EXCEPT !.out = out]
<1>1. /\ Serves(record, report, sources, candidates, "decide", kind[r], loc[r])
      /\ loc[r] \in Locals
  BY Served DEF Decide, At
<1>2. /\ pc[r] = "decide" /\ kind' = kind
      /\ UNCHANGED <<record, report, sources, candidates>>
  BY DEF Decide, At
<1>3. CASE Finish(r)
  BY <1>2, <1>3, ServeStop DEF Stale
<1>4. CASE Goto(r, "saveReport", x)
  <2>1. x.out = out
    BY <1>1 DEF Locals
  <2>2. Goto(r, "saveReport", x)
    BY <1>4
  <2> HIDE DEF x
  <2>3. kind[r] \in Pipelines \cup {"execute"}
    BY <1>1 DEF Serves, Where, ResetLabels
  <2>4. ASSUME kind[r] = "execute"
        PROVE  out.final # "VERIFIED"
    <3>1. /\ loc[r].tr.valid = "NONE"
          /\ loc[r].tr.status = "NOT_RUN" => loc[r].old.tr.status = "NOT_RUN"
      BY <1>1, <2>4 DEF Serves, Memory, ExecuteMemory
    <3>2. loc[r].old.tr \in Translation
      BY <1>1 DEF Locals, Report
    <3>3. \/ EffectiveTranslation(loc[r]).valid = "NONE"
          \/ EffectiveTranslation(loc[r]).status = "NOT_RUN"
      BY <3>1, <3>2 DEF EffectiveTranslation, Translation
    <3> QED  BY <1>1, <3>3, VerifiedVerdict
  <2>5. ASSUME kind[r] \in Pipelines, out.final = "VERIFIED"
        PROVE  Current(out, sources, candidates)
    <3>1. /\ Translated(loc[r], sources) /\ Proposed(loc[r], candidates)
          /\ Chosen(loc[r], candidates) /\ Loaded(loc[r], sources)
      BY <1>1, <2>5, VerifiedVerdict DEF Serves, Memory, PipelineMemory
    <3>2. EffectiveTranslation(loc[r]) = loc[r].tr
      BY <3>1 DEF EffectiveTranslation, Translated
    <3>3. loc[r].cand # 0
      BY <3>1, LastRows DEF Proposed, Chosen
    <3>4. /\ out.tr = loc[r].tr /\ out.cand = loc[r].cand
          /\ out.src = loc[r].src /\ out.tgt = loc[r].tgt
      BY <3>2, <3>3 DEF Verdict
    <3> HIDE DEF out
    <3> QED  BY <3>1, <3>4 DEF Current, Translated, Proposed, Chosen, Loaded
  <2>6. out.final = "VERIFIED" => Current(out, sources, candidates)
    BY <2>3, <2>4, <2>5
  <2> HIDE DEF out
  <2>7. Serves(record, report, sources, candidates, "saveReport", kind[r], x)
    BY <1>1, <2>1, <2>3, <2>4, <2>6 DEF Serves, Where, Tables, Memory, PipelineMemory,
       ExecuteMemory, Blank, Stale, Pipelines, SourceLabels, ExecuteLabels
  <2> QED  BY <1>2, <2>2, <2>7, ServeOn
<1> QED  BY <1>3, <1>4 DEF Decide

(* SaveReport.                                                              *)
LEMMA ServeSaveReport ==
  ASSUME TypeInv, SerialInv, OrderInv', NEW r \in Requests, ~Idle(r), SaveReport(r)
  PROVE  SerialInv'
<1>1. Serves(record, report, sources, candidates, "saveReport", kind[r], loc[r])
  BY Served DEF SaveReport, At
<1>2. /\ pc[r] = "saveReport" /\ report' = loc[r].out /\ Goto(r, "saveRecord", loc[r])
      /\ kind' = kind /\ UNCHANGED <<record, sources, candidates>>
  BY DEF SaveReport, At
<1>3. record # None /\ loc[r].out # None
  BY <1>2, SavedFacts, NoneAssumption
<1>4. kind[r] \in Pipelines \cup {"execute"}
  BY <1>1 DEF Serves, Where, ResetLabels
<1>5. Serves(record', report', sources', candidates', "saveRecord", kind[r], loc[r])
  BY <1>1, <1>2, <1>3, <1>4 DEF Serves, Where, Tables, Memory, PipelineMemory, ExecuteMemory,
     Blank, Stale, Pipelines, SourceLabels, ExecuteLabels
<1> QED  BY <1>2, <1>5, ServeOn

(* The record as a save, a block or a reset writes it.                      *)
LEMMA RecordWritten ==
  ASSUME record \in Record, NEW f \in MigrationFinalStatus, NEW s \in MigrationState
  PROVE  /\ [record EXCEPT !.final = f, !.current = s].final = f
         /\ [record EXCEPT !.final = f, !.current = s] # None
         /\ [record EXCEPT !.final = f].final = f
         /\ [record EXCEPT !.final = f] # None
<1>1. [record EXCEPT !.final = f, !.current = s] \in Record
  BY DEF Record
<1>2. [record EXCEPT !.final = f] \in Record
  BY DEF Record
<1> QED  BY <1>1, <1>2, NoneAssumption DEF Record

(* SaveRecord.                                                              *)
LEMMA ServeSaveRecord ==
  ASSUME TypeInv, SerialInv, OrderInv', NEW r \in Requests, ~Idle(r), SaveRecord(r)
  PROVE  SerialInv'
<1>1. Serves(record, report, sources, candidates, "saveRecord", kind[r], loc[r])
  BY Served DEF SaveRecord, At
<1>2. /\ pc[r] = "saveRecord" /\ AfterSave(r) /\ kind' = kind
      /\ UNCHANGED <<report, sources, candidates>>
  BY DEF SaveRecord, At
<1>3. /\ record \in Record /\ report = loc[r].out /\ loc[r].out \in Report
      /\ report.final \in MigrationFinalStatus
  BY <1>1, <1>2, SavedFacts DEF Serves, Tables
<1>4. StatusToState(report.final) \in MigrationState
  BY <1>3, StatusToStateType
<1>5. record' = [record EXCEPT !.final = report.final, !.current = StatusToState(report.final)]
  BY <1>3 DEF SaveRecord
<1>6. record'.final = report.final /\ record' # None /\ report # None
  BY <1>3, <1>4, <1>5, RecordWritten, NoneAssumption
<1>7. report.final = "VERIFIED" => Current(report, sources, candidates)
  BY <1>1, <1>6 DEF Serves, Tables, Stale
<1>8. kind[r] \in Pipelines \cup {"execute"}
  BY <1>1 DEF Serves, Where, ResetLabels
<1>9. CASE Goto(r, "blockReport", loc[r])
  <2>1. Serves(record', report', sources', candidates', "blockReport", kind[r], loc[r])
    BY <1>2, <1>6, <1>7, <1>8 DEF Serves, Where, Tables, Memory, PipelineMemory,
       ExecuteMemory, Blank, Stale, Pipelines, SourceLabels, ExecuteLabels
  <2> QED  BY <1>2, <1>9, <2>1, ServeOn
<1>10. CASE Finish(r)
  <2>1. Tables(record', report', sources', candidates', "done", "none", NoReport)
    BY <1>2, <1>6, <1>7 DEF Tables, Blank, Pipelines
  <2> QED  BY <1>2, <1>10, <2>1, ServeFinish
<1> QED  BY <1>2, <1>9, <1>10 DEF AfterSave

(* BlockReport.                                                             *)
LEMMA ServeBlockReport ==
  ASSUME TypeInv, SerialInv, OrderInv', NEW r \in Requests, ~Idle(r), BlockReport(r)
  PROVE  SerialInv'
<1>1. Serves(record, report, sources, candidates, "blockReport", kind[r], loc[r])
  BY Served DEF BlockReport, At
<1>2. /\ pc[r] = "blockReport" /\ report' = [loc[r].out EXCEPT !.final = "BLOCKED"]
      /\ Goto(r, "blockRecord", loc[r])
      /\ kind' = kind /\ UNCHANGED <<record, sources, candidates>>
  BY DEF BlockReport, At
<1>3. record # None /\ loc[r].out \in Report
  BY <1>2, SavedFacts
<1>4. report' \in Report /\ report'.final = "BLOCKED"
  BY <1>2, <1>3 DEF Report, MigrationFinalStatus
<1>5. kind[r] \in Pipelines \cup {"execute"}
  BY <1>1 DEF Serves, Where, ResetLabels
<1>6. report' # None
  BY <1>4, NoneAssumption
<1>7. Serves(record', report', sources', candidates', "blockRecord", kind[r], loc[r])
  BY <1>2, <1>3, <1>4, <1>5, <1>6 DEF Serves, Where, Tables, Memory, PipelineMemory,
     ExecuteMemory, Blank, Stale, Pipelines, SourceLabels, ExecuteLabels
<1> QED  BY <1>2, <1>7, ServeOn

(* BlockRecord.                                                             *)
LEMMA ServeBlockRecord ==
  ASSUME TypeInv, SerialInv, OrderInv', NEW r \in Requests, ~Idle(r), BlockRecord(r)
  PROVE  SerialInv'
<1>1. Serves(record, report, sources, candidates, "blockRecord", kind[r], loc[r])
  BY Served DEF BlockRecord, At
<1>2. /\ pc[r] = "blockRecord" /\ Finish(r) /\ kind' = kind
      /\ record' = [record EXCEPT !.final = "BLOCKED"]
      /\ UNCHANGED <<report, sources, candidates>>
  BY DEF BlockRecord, At
<1>3. record \in Record
  BY <1>2, SavedFacts
<1>4. "BLOCKED" \in MigrationFinalStatus /\ record.current \in MigrationState
  BY <1>3 DEF MigrationFinalStatus, Record
<1>5. record' # None /\ record'.final = "BLOCKED"
  BY <1>2, <1>3, <1>4, RecordWritten
<1>6. report # None /\ report.final = "BLOCKED"
  BY <1>1 DEF Serves, Tables
<1>7. Tables(record', report', sources', candidates', "done", "none", NoReport)
  BY <1>2, <1>5, <1>6 DEF Tables, Blank, Pipelines
<1> QED  BY <1>2, <1>7, ServeFinish

(* ReadReport.                                                              *)
LEMMA ServeReadReport ==
  ASSUME TypeInv, SerialInv, OrderInv', NEW r \in Requests, ~Idle(r), ReadReport(r)
  PROVE  SerialInv'
<1>1. /\ Serves(record, report, sources, candidates, "readReport", kind[r], loc[r])
      /\ loc[r] \in Locals
  BY Served DEF ReadReport, At
<1>2. kind' = kind /\ UNCHANGED <<record, report, sources, candidates>>
  BY DEF ReadReport, At
<1>3. kind[r] \in Pipelines \cup {"edit_candidate"}
  BY <1>1 DEF Serves, Where, ExecuteLabels
<1>4. CASE report = None /\ Goto(r, "resetRecord", loc[r])
  <2>1. Serves(record, report, sources, candidates, "resetRecord", kind[r], loc[r])
    BY <1>1, <1>3, <1>4 DEF Serves, Where, Tables, Memory, PipelineMemory, Blank, Stale,
       Pipelines, SourceLabels, ResetLabels
  <2> QED  BY <1>2, <1>4, <2>1, ServeOn
<1>5. CASE Goto(r, "resetReport", [loc[r] EXCEPT !.old = report])
  <2> DEFINE x == [loc[r] EXCEPT !.old = report]
  <2>1. x.ev = loc[r].ev /\ x.out = loc[r].out
    BY <1>1 DEF Locals
  <2>2. Goto(r, "resetReport", x)
    BY <1>5
  <2> HIDE DEF x
  <2>3. Serves(record, report, sources, candidates, "resetReport", kind[r], x)
    BY <1>1, <1>3, <2>1 DEF Serves, Where, Tables, Memory, PipelineMemory, Blank, Stale,
       Pipelines, SourceLabels, ResetLabels
  <2> QED  BY <1>2, <2>2, <2>3, ServeOn
<1> QED  BY <1>4, <1>5 DEF ReadReport

(* ResetReport.                                                             *)
LEMMA ServeResetReport ==
  ASSUME TypeInv, SerialInv, OrderInv', NEW r \in Requests, ~Idle(r), ResetReport(r)
  PROVE  SerialInv'
<1> DEFINE x == [loc[r] EXCEPT !.old = NoReport]
<1>1. /\ Serves(record, report, sources, candidates, "resetReport", kind[r], loc[r])
      /\ loc[r] \in Locals
  BY Served DEF ResetReport, At
<1>2. /\ pc[r] = "resetReport" /\ Goto(r, "resetRecord", x)
      /\ kind' = kind /\ UNCHANGED <<record, sources, candidates>>
  BY DEF ResetReport, At
<1>3. record # None
  BY <1>2, SavedFacts
<1>4. report'.final = "IN_PROGRESS"
  BY DEF ResetReport, NoReport
<1>5. kind[r] \in Pipelines \cup {"edit_candidate"}
  BY <1>1 DEF Serves, Where, ExecuteLabels
<1>6. report' # None
  BY ResetReportType, NoneAssumption
<1> HIDE DEF x
<1>7. Serves(record', report', sources', candidates', "resetRecord", kind[r], x)
  BY <1>2, <1>3, <1>4, <1>5, <1>6 DEF Serves, Where, Tables, Memory, PipelineMemory, Blank,
     Stale, Pipelines, SourceLabels, ResetLabels
<1> QED  BY <1>2, <1>7, ServeOn

(* ResetRecord.                                                             *)
LEMMA ServeResetRecord ==
  ASSUME TypeInv, SerialInv, OrderInv', NEW r \in Requests, ~Idle(r), ResetRecord(r)
  PROVE  SerialInv'
<1>1. Serves(record, report, sources, candidates, "resetRecord", kind[r], loc[r])
  BY Served DEF ResetRecord, At
<1>2. /\ pc[r] = "resetRecord" /\ AfterReset(r) /\ kind' = kind
      /\ record' = [record EXCEPT !.final = "IN_PROGRESS", !.current = "CREATED"]
      /\ UNCHANGED <<report, sources, candidates>>
  BY DEF ResetRecord, At
<1>3. record \in Record
  BY <1>2, SavedFacts
<1>4. "IN_PROGRESS" \in MigrationFinalStatus /\ "CREATED" \in MigrationState
  BY DEF MigrationFinalStatus, MigrationState
<1>5. record' # None /\ record'.final = "IN_PROGRESS"
  BY <1>2, <1>3, <1>4, RecordWritten
<1>6. report # None => report.final = "IN_PROGRESS"
  BY <1>1 DEF Serves, Tables, Blank
<1>7. CASE Finish(r)
  <2>1. Tables(record', report', sources', candidates', "done", "none", NoReport)
    BY <1>2, <1>5, <1>6 DEF Tables, Blank, Pipelines
  <2> QED  BY <1>2, <1>7, <2>1, ServeFinish
<1>8. CASE kind[r] = "edit_source"
           /\ Goto(r, "createRecord", [NoLocals EXCEPT !.text = Strip[loc[r].text]])
  <2> DEFINE x == [NoLocals EXCEPT !.text = Strip[loc[r].text]]
  <2>1. x.ev.tgt = "NOT_RUN"
    BY DEF NoLocals, NoEvidence
  <2>2. Goto(r, "createRecord", x)
    BY <1>8
  <2> HIDE DEF x
  <2>3. Serves(record', report', sources', candidates', "createRecord", "edit_source", x)
    BY <1>2, <1>5, <1>6, <2>1 DEF Serves, Where, Tables, Memory, PipelineMemory, Blank, Stale,
       Pipelines, SourceLabels
  <2> QED  BY <1>2, <1>8, <2>2, <2>3, ServeOn
<1> QED  BY <1>2, <1>7, <1>8 DEF AfterReset

(* Every step of a request that is alone keeps the record, the report and   *)
(* the active versions together.                                            *)
LEMMA SerialStep ==
  ASSUME TypeInv, SerialInv, OrderInv', NEW r \in Requests, Step(r)
  PROVE  SerialInv'
<1>1. ~Idle(r)
  BY StepBusy
<1>2. CASE InsertSource(r) \/ CommitSource(r) \/ InsertCandidate(r) \/ CommitCandidate(r)
  BY <1>1, <1>2, ServeInsertSource, ServeCommitSource, ServeInsertCandidate, ServeCommitCandidate
<1>3. CASE CreateRecord(r) \/ ResolveSource(r) \/ SourcePreflight(r) \/ CandidatePreflight(r)
  BY <1>1, <1>3, ServeCreateRecord, ServeResolveSource, ServeSourcePreflight,
     ServeCandidatePreflight
<1>4. CASE \/ \E t \in Targets : TranslateOk(r, t)
           \/ \E f \in Failures : TranslateFails(r, f)
  BY <1>1, <1>4, ServeTranslateOk, ServeTranslateFails
<1>5. CASE \/ LoadCandidate(r) \/ LoadSource(r) \/ RebuildTranslation(r)
           \/ \E o \in Outcomes : RunPhases(r, o)
  BY <1>1, <1>5, ServeLoadCandidate, ServeLoadSource, ServeRebuildTranslation, ServeRunPhases
<1>6. CASE CheckLineage(r) \/ Decide(r) \/ SaveReport(r) \/ SaveRecord(r)
  BY <1>1, <1>6, ServeCheckLineage, ServeDecide, ServeSaveReport, ServeSaveRecord
<1>7. CASE BlockReport(r) \/ BlockRecord(r)
  BY <1>1, <1>7, ServeBlockReport, ServeBlockRecord
<1>8. CASE ReadReport(r) \/ ResetReport(r) \/ ResetRecord(r)
  BY <1>1, <1>8, ServeReadReport, ServeResetReport, ServeResetRecord
<1> QED  BY <1>2, <1>3, <1>4, <1>5, <1>6, <1>7, <1>8 DEF Step

(* SerialInv is inductive when requests are served one at a time and none   *)
(* fails half way.                                                          *)
LEMMA SerialNext ==
  ASSUME MaxInFlight <= 1, MaxFaults = 0
  PROVE  TypeInv /\ SerialInv /\ [Next]_vars => SerialInv'
<1> SUFFICES ASSUME TypeInv, SerialInv, [Next]_vars
             PROVE  SerialInv'
  OBVIOUS
<1>1. OrderInv'
  BY OrderNext DEF SerialInv
<1>2. CASE UNCHANGED vars
  BY <1>1, <1>2 DEF vars, SerialInv, Quiescent, Idle, Serves, Tables, Memory, PipelineMemory,
     ExecuteMemory, Current, Translated, Proposed, Chosen, Loaded
<1>3. ASSUME NEW r \in Requests, Arrive(r) \/ Step(r)
      PROVE  SerialInv'
  BY <1>1, <1>3, ServeArrive, SerialStep
<1>4. ~(faults < MaxFaults)
  BY DEF TypeInv, TypeOK
<1>5. \A r \in Requests : ~Crash(r) /\ ~ReadFault(r)
  BY <1>4 DEF Crash, ReadFault, RecreateRecord, RebuildNothing, SkipLineage, ForgetReport,
     SkipReset, SkipRecord, ReadFails
<1> QED  BY <1>2, <1>3, <1>5 DEF Next

(* SerialInv holds at the start.                                            *)
LEMMA SerialInit == Init => SerialInv
<1> SUFFICES ASSUME Init
             PROVE  SerialInv
  OBVIOUS
<1>1. OrderInv
  BY OrderInit
<1>2. \A r \in Requests : Idle(r) /\ kind[r] = "none"
  BY DEF Init, Idle
<1>3. Tables(record, report, sources, candidates, "done", "none", NoReport)
  BY DEF Init, Tables
<1> QED  BY <1>1, <1>2, <1>3 DEF Init, SerialInv

(* SerialInv holds throughout.                                              *)
LEMMA SerialForever ==
  ASSUME MaxInFlight <= 1, MaxFaults = 0
  PROVE  Spec => []SerialInv
BY SerialInit, SerialNext, TypeInvariant, PTL DEF Spec

(* Of requests served one at a time that do not fail half way: between      *)
(* them the record of _execute_pipeline_update and the report of            *)
(* evaluate_assurance tell the same final status.                           *)
THEOREM SerialAgreement ==
  ASSUME MaxInFlight <= 1, MaxFaults = 0
  PROVE  Spec => []RecordAgreesWithReport
<1>1. SerialInv => RecordAgreesWithReport
  BY DEF SerialInv, Tables, RecordAgreesWithReport
<1> QED  BY <1>1, SerialForever, PTL

(* Of requests served one at a time that do not fail half way: a migration  *)
(* whose record says VERIFIED has a report on the active candidate and the  *)
(* active source, and that candidate is the translation of that source.     *)
THEOREM SerialVerifiedIsCurrent ==
  ASSUME MaxInFlight <= 1, MaxFaults = 0
  PROVE  Spec => []VerifiedIsCurrent
<1>1. TypeInv /\ SerialInv => VerifiedIsCurrent
  <2> SUFFICES ASSUME TypeInv, SerialInv, Quiescent, record # None, record.final = "VERIFIED"
               PROVE  /\ report # None
                      /\ Active(candidates) = {report.cand}
                      /\ ActiveSourceTexts = {report.src}
                      /\ report.tr.sql = report.tgt
                      /\ report.tr.of = report.src
    BY DEF VerifiedIsCurrent
  <2>1. report # None /\ Current(report, sources, candidates)
    BY DEF SerialInv, Tables, Stale
  <2>2. /\ Active(candidates) = {Len(candidates)}
        /\ Active(sources) = {Len(sources)}
    BY <2>1, ActiveLast DEF SerialInv, Current
  <2>3. ActiveSourceTexts = {sources[Len(sources)].text}
    BY <2>2 DEF ActiveSourceTexts
  <2> QED  BY <2>1, <2>2, <2>3 DEF Current
<1> QED  BY <1>1, SerialForever, TypeInvariant, PTL

(* Of requests served one at a time that do not fail half way: the report   *)
(* that an execute_migration on its own saves is not VERIFIED.              *)
THEOREM SerialExecuteNeverVerifies ==
  ASSUME MaxInFlight <= 1, MaxFaults = 0
  PROVE  Spec => OnlyRunsVerify
<1>1. ASSUME TypeInv, SerialInv, [Next]_vars, NEW r \in Requests,
             pc[r] = "saveReport", pc'[r] = "saveRecord", report'.final = "VERIFIED"
      PROVE  kind[r] # "execute"
  <2>1. ~Idle(r)
    BY <1>1 DEF Idle
  <2>2. PICK q \in Requests : Arrive(q) \/ Step(q) \/ Crash(q) \/ ReadFault(q)
    BY <1>1 DEF Next, vars
  <2>3. /\ ~(faults < MaxFaults) /\ Quiescent = FALSE
    BY <1>1, <2>1 DEF TypeInv, TypeOK, Quiescent
  <2>4. ~Crash(q) /\ ~ReadFault(q)
    BY <2>3 DEF Crash, ReadFault, RecreateRecord, RebuildNothing, SkipLineage, ForgetReport,
       SkipReset, SkipRecord, ReadFails
  <2>5. ~Arrive(q)
    BY <1>1, <2>3, ArriveQuiet DEF SerialInv, OrderInv, Arrive, StartRun, StartEditSource,
       StartEditCandidate, StartExecute, Start
  <2>6. q = r
    BY <1>1, <2>1, <2>2, <2>4, <2>5, StepBusy DEF SerialInv, OrderInv, Alone
  <2>7. Step(r) /\ pc[r] = "saveReport"
    BY <1>1, <2>2, <2>4, <2>5, <2>6
  <2>8. SaveReport(r)
    BY <2>7 DEF Step, At, InsertSource, CommitSource, InsertCandidate, CommitCandidate,
       CreateRecord, ResolveSource, SourcePreflight, TranslateOk, TranslateFails,
       CandidatePreflight, LoadCandidate, LoadSource, RebuildTranslation, RunPhases,
       CheckLineage, Decide, SaveRecord, BlockReport, BlockRecord, ReadReport,
       ResetReport, ResetRecord
  <2>9. report' = loc[r].out
    BY <2>8 DEF SaveReport
  <2> QED  BY <1>1, <2>1, <2>9, Served DEF Serves, Memory, ExecuteMemory
<1>2. TypeInv /\ SerialInv /\ [Next]_vars =>
        [\A r \in Requests :
            pc[r] = "saveReport" /\ pc'[r] = "saveRecord" /\ report'.final = "VERIFIED"
              => kind[r] # "execute"]_vars
  BY <1>1
<1> QED  BY <1>2, SerialForever, TypeInvariant, PTL DEF Spec, OnlyRunsVerify
------------------------------------------------------------------------------
(* Requests end: no edit, re-run or failed read sends one round in a circle. *)

(* The sessions a request of kind k can still open from l on.  An edit's    *)
(* versions come before the reset, a pipeline's after it.                   *)
SessionsLeft(k, l) ==
  CASE l = "idle"               -> 26
    [] l = "insertCandidate"    -> IF k = "edit_candidate" THEN 25 ELSE 13
    [] l = "commitCandidate"    -> IF k = "edit_candidate" THEN 24 ELSE 12
    [] l = "candidatePreflight" -> IF k = "edit_candidate" THEN 23 ELSE 11
    [] l = "insertSource"       -> IF k = "edit_source" THEN 24 ELSE 17
    [] l = "commitSource"       -> IF k = "edit_source" THEN 23 ELSE 16
    [] l = "readReport"         -> 22
    [] l = "resetReport"        -> 21
    [] l = "resetRecord"        -> 20
    [] l = "createRecord"       -> 19
    [] l = "resolveSource"      -> 18
    [] l = "sourcePreflight"    -> 15
    [] l = "translate"          -> 14
    [] l = "loadCandidate"      -> 10
    [] l = "loadSource"         -> 9
    [] l = "rebuildTranslation" -> 8
    [] l = "runPhases"          -> 7
    [] l = "checkLineage"       -> 6
    [] l = "decide"             -> 5
    [] l = "saveReport"         -> 4
    [] l = "saveRecord"         -> 3
    [] l = "blockReport"        -> 2
    [] l = "blockRecord"        -> 1
    [] OTHER                    -> 0

(* A request has fewer sessions left, and no other request has moved.       *)
Nearer(r) ==
  /\ SessionsLeft(kind'[r], pc'[r]) < SessionsLeft(kind[r], pc[r])
  /\ \A q \in Requests \ {r} : kind'[q] = kind[q] /\ pc'[q] = pc[q]

SessionsRunOut == [][\E r \in Requests : Nearer(r)]_vars

(* Only pipelines work on sources, and a source edit that runs the pipeline *)
(* again has committed its own source: it finds one, and inserts no other.  *)
RouteInv ==
  \A r \in Requests :
    /\ pc[r] \in {"createRecord", "resolveSource", "insertSource", "commitSource",
                  "sourcePreflight", "translate"} => kind[r] \in Pipelines
    /\ kind[r] = "edit_source" /\ pc[r] \notin {"idle", "insertSource", "commitSource", "done"}
         => sources # <<>>

LEMMA RouteInit == Init => RouteInv
BY DEF Init, RouteInv

(* No step empties the sources.                                             *)
LEMMA SourcesStay ==
  ASSUME TypeInv, [Next]_vars
  PROVE  /\ sources # <<>> => sources' # <<>>
         /\ \A r \in Requests : CommitSource(r) => sources' # <<>>
<1>1. ASSUME NEW r \in Requests, CommitSource(r)
      PROVE  sources' # <<>>
  <2>1. Len(sources') = Len(sources) + 1 /\ Len(sources) \in Nat
    BY <1>1, SourceCommitted, LastRows
  <2> QED  BY <2>1, EmptySeq
<1>2. ASSUME NEW r \in Requests, SourcePreflight(r), sources # <<>>
      PROVE  sources' # <<>>
  <2>1. Len(sources') = Len(sources) /\ Len(sources) # 0
    BY <1>2, SourcePreflighted, LastRows
  <2> QED  BY <2>1, EmptySeq
<1>3. sources' = sources \/ \E r \in Requests : CommitSource(r) \/ SourcePreflight(r)
  <2>1. ASSUME NEW r \in Requests, Arrive(r) \/ Crash(r) \/ ReadFault(r)
        PROVE  sources' = sources
    BY <2>1 DEF Arrive, Crash, Start, StartRun, StartEditSource, StartEditCandidate,
                StartExecute, ReadFault, RecreateRecord, RebuildNothing, SkipLineage,
                ForgetReport, SkipReset, SkipRecord, ReadFails
  <2> QED  BY <2>1, TablesKept DEF Next, vars
<1> QED  BY <1>1, <1>2, <1>3

(* A request that goes to l without a change of its kind.                   *)
LEMMA NearerMove ==
  ASSUME TypeInv, NEW r \in Requests, NEW l, NEW x, Goto(r, l, x), kind' = kind,
         SessionsLeft(kind[r], l) < SessionsLeft(kind[r], pc[r])
  PROVE  Nearer(r)
BY GotoMoves DEF Nearer

LEMMA NearerEnd ==
  ASSUME TypeInv, NEW r \in Requests, ~Idle(r), Finish(r), kind' = kind
  PROVE  Nearer(r)
<1>1. pc[r] \in Labels \ {"idle", "done"}
  BY Known DEF Idle
<1>2. SessionsLeft(kind[r], "done") < SessionsLeft(kind[r], pc[r])
  BY <1>1 DEF SessionsLeft, Labels
<1> QED  BY <1>2, NearerMove DEF Finish

LEMMA NearerArrive ==
  ASSUME TypeInv, NEW r \in Requests, Arrive(r)
  PROVE  Nearer(r)
<1>1. ASSUME NEW k \in Kinds, NEW text,
             NEW l \in {"createRecord", "insertCandidate", "insertSource", "loadCandidate"},
             Start(r, k, l, text)
      PROVE  Nearer(r)
  <2>1. /\ pc[r] = "idle" /\ kind'[r] = k /\ Goto(r, l, [NoLocals EXCEPT !.text = text])
        /\ \A q \in Requests : q # r => kind'[q] = kind[q]
    BY <1>1, Known DEF Start
  <2>2. SessionsLeft(k, l) < SessionsLeft(kind[r], "idle")
    BY DEF SessionsLeft
  <2> QED  BY <2>1, <2>2, GotoMoves DEF Nearer
<1> QED  BY <1>1 DEF Arrive, StartRun, StartEditSource, StartEditCandidate, StartExecute, Kinds

LEMMA NearerStep ==
  ASSUME TypeInv, RouteInv, SomeActive, NEW r \in Requests, Step(r)
  PROVE  Nearer(r)
<1> USE DEF At
<1>goto. ASSUME NEW l, NEW x, Goto(r, l, x), kind' = kind,
             SessionsLeft(kind[r], l) < SessionsLeft(kind[r], pc[r])
      PROVE  Nearer(r)
  BY <1>goto, NearerMove
<1>end. ASSUME Finish(r), kind' = kind, pc[r] \notin {"idle", "done"}
       PROVE  Nearer(r)
  BY <1>end, NearerEnd DEF Idle
<1>1. CASE InsertSource(r)
  BY <1>goto, <1>1 DEF InsertSource, SessionsLeft
<1>2. CASE CommitSource(r)
  <2>1. kind[r] \in Pipelines
    BY <1>2 DEF RouteInv, CommitSource
  <2> QED  BY <1>goto, <1>2, <2>1 DEF CommitSource, SessionsLeft, Pipelines
<1>3. CASE InsertCandidate(r)
  BY <1>goto, <1>3 DEF InsertCandidate, SessionsLeft
<1>4. CASE CommitCandidate(r)
  <2>1. /\ pc[r] = "commitCandidate" /\ kind' = kind
        /\ Goto(r, "candidatePreflight", [loc[r] EXCEPT !.cand = Len(candidates) + 1])
    BY <1>4 DEF CommitCandidate
  <2> QED  BY <1>goto, <2>1 DEF SessionsLeft
<1>5. CASE CreateRecord(r)
  BY <1>goto, <1>5 DEF CreateRecord, SessionsLeft
<1>6. CASE ResolveSource(r)
  <2>1. pc[r] = "resolveSource" /\ kind' = kind
    BY <1>6 DEF ResolveSource
  <2>2. CASE Active(sources) = {} /\ Goto(r, "insertSource", loc[r])
    <3>1. kind[r] \in Pipelines /\ (kind[r] = "edit_source" => sources # <<>>)
      BY <2>1 DEF RouteInv
    <3>2. kind[r] = "run"
      BY <2>2, <3>1 DEF SomeActive, Pipelines
    <3> QED  BY <1>goto, <2>1, <2>2, <3>2 DEF SessionsLeft
  <2>3. CASE \E i \in Active(sources) : Goto(r, "sourcePreflight", [loc[r] EXCEPT !.row = i])
    BY <1>goto, <2>1, <2>3 DEF SessionsLeft
  <2> QED  BY <1>6, <2>2, <2>3 DEF ResolveSource
<1>7. CASE SourcePreflight(r)
  BY <1>goto, <1>7 DEF SourcePreflight, SessionsLeft
<1>8. CASE \E t \in Targets : TranslateOk(r, t)
  <2>1. PICK t \in Targets : TranslateOk(r, t)
    BY <1>8
  <2>2. kind[r] \in Pipelines
    BY <2>1 DEF RouteInv, TranslateOk
  <2> QED  BY <1>goto, <2>1, <2>2 DEF TranslateOk, SessionsLeft, Pipelines
<1>9. CASE \E f \in Failures : TranslateFails(r, f)
  BY <1>goto, <1>9 DEF TranslateFails, SessionsLeft
<1>10. CASE CandidatePreflight(r)
  <2>1. pc[r] = "candidatePreflight" /\ kind' = kind
    BY <1>10 DEF CandidatePreflight
  <2>2. CASE kind[r] = "edit_candidate" /\ Goto(r, "readReport", loc[r])
    BY <1>goto, <2>1, <2>2 DEF SessionsLeft
  <2>3. ASSUME NEW l \in {"loadCandidate", "checkLineage"}, NEW x, Goto(r, l, x)
        PROVE  Nearer(r)
    BY <1>goto, <2>1, <2>3 DEF SessionsLeft
  <2> QED  BY <1>10, <2>2, <2>3 DEF CandidatePreflight
<1>11. CASE LoadCandidate(r)
  <2>1. pc[r] = "loadCandidate" /\ kind' = kind
    BY <1>11 DEF LoadCandidate
  <2>2. ASSUME NEW x, Goto(r, "loadSource", x)
        PROVE  Nearer(r)
    BY <1>goto, <2>1, <2>2 DEF SessionsLeft
  <2> QED  BY <1>end, <1>11, <2>1, <2>2 DEF LoadCandidate
<1>12. CASE LoadSource(r)
  BY <1>goto, <1>12 DEF LoadSource, SessionsLeft
<1>13. CASE RebuildTranslation(r)
  BY <1>goto, <1>13 DEF RebuildTranslation, SessionsLeft
<1>14. CASE \E o \in Outcomes : RunPhases(r, o)
  BY <1>goto, <1>14 DEF RunPhases, SessionsLeft
<1>15. CASE CheckLineage(r)
  BY <1>goto, <1>end, <1>15 DEF CheckLineage, SessionsLeft
<1>16. CASE Decide(r)
  BY <1>goto, <1>end, <1>16 DEF Decide, SessionsLeft
<1>17. CASE SaveReport(r)
  BY <1>goto, <1>17 DEF SaveReport, SessionsLeft
<1>18. CASE SaveRecord(r)
  BY <1>goto, <1>end, <1>18 DEF SaveRecord, AfterSave, SessionsLeft
<1>19. CASE BlockReport(r)
  BY <1>goto, <1>19 DEF BlockReport, SessionsLeft
<1>20. CASE BlockRecord(r)
  BY <1>end, <1>20 DEF BlockRecord
<1>21. CASE ReadReport(r)
  BY <1>goto, <1>21 DEF ReadReport, SessionsLeft
<1>22. CASE ResetReport(r)
  BY <1>goto, <1>22 DEF ResetReport, SessionsLeft
<1>23. CASE ResetRecord(r)
  BY <1>goto, <1>end, <1>23 DEF ResetRecord, AfterReset, SessionsLeft
<1> QED
  BY <1>1, <1>2, <1>3, <1>4, <1>5, <1>6, <1>7, <1>8, <1>9, <1>10, <1>11, <1>12, <1>13, <1>14,
     <1>15, <1>16, <1>17, <1>18, <1>19, <1>20, <1>21, <1>22, <1>23 DEF Step

(* Reads that fail skip sessions, they repeat none.                         *)
LEMMA NearerFault ==
  ASSUME TypeInv, NEW r \in Requests, ReadFault(r)
  PROVE  Nearer(r)
<1> USE DEF ReadFails
<1>1. CASE RecreateRecord(r)
  BY <1>1, NearerMove DEF RecreateRecord, SessionsLeft
<1>2. CASE RebuildNothing(r)
  BY <1>2, NearerMove DEF RebuildNothing, SessionsLeft
<1>3. CASE SkipLineage(r)
  BY <1>3, NearerMove DEF SkipLineage, SessionsLeft
<1>4. CASE ForgetReport(r)
  BY <1>4, NearerMove DEF ForgetReport, SessionsLeft
<1>5. CASE SkipReset(r)
  BY <1>5, NearerMove DEF SkipReset, SessionsLeft
<1>6. CASE ReadFails(r, "saveRecord") /\ AfterSave(r)
  BY <1>6, NearerMove, NearerEnd DEF AfterSave, SessionsLeft, Idle
<1>7. CASE ReadFails(r, "resetRecord") /\ AfterReset(r)
  BY <1>7, NearerMove, NearerEnd DEF AfterReset, SessionsLeft, Idle
<1> QED
  BY <1>1, <1>2, <1>3, <1>4, <1>5, <1>6, <1>7 DEF ReadFault, SkipRecord

LEMMA NearerNext ==
  ASSUME TypeInv, RouteInv, SomeActive, Next
  PROVE  \E r \in Requests : Nearer(r)
<1>1. ASSUME NEW r \in Requests, Crash(r)
      PROVE  Nearer(r)
  BY <1>1, NearerEnd DEF Crash
<1> QED  BY <1>1, NearerArrive, NearerStep, NearerFault DEF Next

(* RouteInv is kept by a request that goes to l, whatever its kind.         *)
LEMMA RouteMove ==
  ASSUME TypeInv, RouteInv, NEW r \in Requests, NEW l, NEW x, Goto(r, l, x),
         \A q \in Requests : q # r => kind'[q] = kind[q],
         sources # <<>> => sources' # <<>>,
         l \in {"createRecord", "resolveSource", "insertSource", "commitSource",
                "sourcePreflight", "translate"} => kind'[r] \in Pipelines,
         kind'[r] = "edit_source" /\ l \notin {"idle", "insertSource", "commitSource", "done"}
           => sources' # <<>>
  PROVE  RouteInv'
<1>1. ASSUME NEW q \in Requests, q # r
      PROVE  pc'[q] = pc[q] /\ kind'[q] = kind[q]
  BY <1>1, GotoMoves
<1>2. pc'[r] = l
  BY GotoMoves
<1> QED  BY <1>1, <1>2 DEF RouteInv

LEMMA RouteOn ==
  ASSUME TypeInv, RouteInv, [Next]_vars, NEW r \in Requests, NEW l, NEW x, Goto(r, l, x),
         kind' = kind, pc[r] \notin {"idle", "insertSource", "commitSource", "done"},
         l \in {"createRecord", "resolveSource", "insertSource", "commitSource",
                "sourcePreflight", "translate"} => kind[r] \in Pipelines
  PROVE  RouteInv'
<1>1. kind[r] = "edit_source" => sources' # <<>>
  BY SourcesStay DEF RouteInv
<1> QED  BY <1>1, RouteMove, SourcesStay

LEMMA RouteEnd ==
  ASSUME TypeInv, RouteInv, [Next]_vars, NEW r \in Requests, Finish(r), kind' = kind
  PROVE  RouteInv'
BY RouteMove, SourcesStay DEF Finish

LEMMA RouteStep ==
  ASSUME TypeInv, RouteInv, [Next]_vars, NEW r \in Requests, Step(r)
  PROVE  RouteInv'
<1> USE DEF At
<1> DEFINE Pre == {"createRecord", "resolveSource", "insertSource", "commitSource",
                   "sourcePreflight", "translate"}
<1>goto. ASSUME NEW l, NEW x, Goto(r, l, x), kind' = kind,
             pc[r] \notin {"idle", "insertSource", "commitSource", "done"},
             l \in Pre => kind[r] \in Pipelines
      PROVE  RouteInv'
  BY <1>goto, RouteOn
<1>end. ASSUME Finish(r), kind' = kind
       PROVE  RouteInv'
  BY <1>end, RouteEnd
<1>pre. pc[r] \in Pre => kind[r] \in Pipelines
  BY DEF RouteInv
<1>1. CASE InsertSource(r)
  <2>1. /\ kind' = kind /\ kind[r] \in Pipelines
        /\ Goto(r, "commitSource", [loc[r] EXCEPT !.seen = Len(sources)])
    BY <1>1, <1>pre DEF InsertSource
  <2> QED  BY <2>1, RouteMove, SourcesStay
<1>2. CASE CommitSource(r)
  <2>1. kind' = kind /\ kind[r] \in Pipelines /\ sources' # <<>>
    BY <1>2, <1>pre, SourcesStay DEF CommitSource
  <2>2. ASSUME NEW l \in {"sourcePreflight", "readReport"}, NEW x, Goto(r, l, x)
        PROVE  RouteInv'
    BY <2>1, <2>2, RouteMove
  <2> QED  BY <1>2, <2>2 DEF CommitSource
<1>3. CASE InsertCandidate(r)
  BY <1>goto, <1>3 DEF InsertCandidate
<1>4. CASE CommitCandidate(r)
  <2>1. /\ pc[r] = "commitCandidate" /\ kind' = kind
        /\ Goto(r, "candidatePreflight", [loc[r] EXCEPT !.cand = Len(candidates) + 1])
    BY <1>4 DEF CommitCandidate
  <2> QED  BY <1>goto, <2>1
<1>5. CASE CreateRecord(r)
  BY <1>goto, <1>pre, <1>5 DEF CreateRecord
<1>6. CASE ResolveSource(r)
  BY <1>goto, <1>pre, <1>6 DEF ResolveSource
<1>7. CASE SourcePreflight(r)
  BY <1>goto, <1>pre, <1>7 DEF SourcePreflight
<1>8. CASE \E t \in Targets : TranslateOk(r, t)
  BY <1>goto, <1>8 DEF TranslateOk
<1>9. CASE \E f \in Failures : TranslateFails(r, f)
  BY <1>goto, <1>9 DEF TranslateFails
<1>10. CASE CandidatePreflight(r)
  <2>1. pc[r] = "candidatePreflight" /\ kind' = kind
    BY <1>10 DEF CandidatePreflight
  <2>2. ASSUME NEW l \in {"readReport", "loadCandidate", "checkLineage"}, NEW x, Goto(r, l, x)
        PROVE  RouteInv'
    BY <1>goto, <2>1, <2>2
  <2> QED  BY <1>10, <2>2 DEF CandidatePreflight
<1>11. CASE LoadCandidate(r)
  <2>1. pc[r] = "loadCandidate" /\ kind' = kind
    BY <1>11 DEF LoadCandidate
  <2>2. ASSUME NEW x, Goto(r, "loadSource", x)
        PROVE  RouteInv'
    BY <1>goto, <2>1, <2>2
  <2> QED  BY <1>end, <1>11, <2>1, <2>2 DEF LoadCandidate
<1>12. CASE LoadSource(r)
  BY <1>goto, <1>12 DEF LoadSource
<1>13. CASE RebuildTranslation(r)
  BY <1>goto, <1>13 DEF RebuildTranslation
<1>14. CASE \E o \in Outcomes : RunPhases(r, o)
  BY <1>goto, <1>14 DEF RunPhases
<1>15. CASE CheckLineage(r)
  BY <1>goto, <1>end, <1>15 DEF CheckLineage
<1>16. CASE Decide(r)
  BY <1>goto, <1>end, <1>16 DEF Decide
<1>17. CASE SaveReport(r)
  BY <1>goto, <1>17 DEF SaveReport
<1>18. CASE SaveRecord(r)
  BY <1>goto, <1>end, <1>18 DEF SaveRecord, AfterSave
<1>19. CASE BlockReport(r)
  BY <1>goto, <1>19 DEF BlockReport
<1>20. CASE BlockRecord(r)
  BY <1>end, <1>20 DEF BlockRecord
<1>21. CASE ReadReport(r)
  BY <1>goto, <1>21 DEF ReadReport
<1>22. CASE ResetReport(r)
  BY <1>goto, <1>22 DEF ResetReport
<1>23. CASE ResetRecord(r)
  BY <1>goto, <1>end, <1>23 DEF ResetRecord, AfterReset, Pipelines
<1> QED
  BY <1>1, <1>2, <1>3, <1>4, <1>5, <1>6, <1>7, <1>8, <1>9, <1>10, <1>11, <1>12, <1>13, <1>14,
     <1>15, <1>16, <1>17, <1>18, <1>19, <1>20, <1>21, <1>22, <1>23 DEF Step

LEMMA RouteFault ==
  ASSUME TypeInv, RouteInv, [Next]_vars, NEW r \in Requests, ReadFault(r)
  PROVE  RouteInv'
<1> USE DEF ReadFails
<1>1. CASE RecreateRecord(r)
  <2>1. kind[r] \in Pipelines
    BY <1>1 DEF RouteInv, RecreateRecord
  <2> QED  BY <1>1, <2>1, RouteOn DEF RecreateRecord
<1>2. CASE RebuildNothing(r)
  BY <1>2, RouteOn DEF RebuildNothing
<1>3. CASE SkipLineage(r)
  BY <1>3, RouteOn DEF SkipLineage
<1>4. CASE ForgetReport(r)
  BY <1>4, RouteOn DEF ForgetReport
<1>5. CASE SkipReset(r)
  BY <1>5, RouteOn DEF SkipReset
<1>6. CASE ReadFails(r, "saveRecord") /\ AfterSave(r)
  BY <1>6, RouteOn, RouteEnd DEF AfterSave
<1>7. CASE ReadFails(r, "resetRecord") /\ AfterReset(r)
  BY <1>7, RouteOn, RouteEnd DEF AfterReset, Pipelines
<1> QED
  BY <1>1, <1>2, <1>3, <1>4, <1>5, <1>6, <1>7 DEF ReadFault, SkipRecord

LEMMA RouteArrive ==
  ASSUME TypeInv, RouteInv, [Next]_vars, NEW r \in Requests, Arrive(r)
  PROVE  RouteInv'
<1>1. ASSUME NEW k \in Kinds, NEW l, NEW text, Start(r, k, l, text),
             <<k, l>> \in {<<"run", "createRecord">>, <<"edit_source", "insertSource">>,
                           <<"edit_candidate", "insertCandidate">>, <<"execute", "loadCandidate">>}
      PROVE  RouteInv'
  <2>1. /\ kind'[r] = k /\ Goto(r, l, [NoLocals EXCEPT !.text = text])
        /\ \A q \in Requests : q # r => kind'[q] = kind[q]
    BY <1>1, Known DEF Start
  <2> QED  BY <1>1, <2>1, RouteMove, SourcesStay DEF Pipelines
<1> QED  BY <1>1 DEF Arrive, StartRun, StartEditSource, StartEditCandidate, StartExecute, Kinds

LEMMA RouteNext == TypeInv /\ RouteInv /\ [Next]_vars => RouteInv'
<1> SUFFICES ASSUME TypeInv, RouteInv, [Next]_vars
             PROVE  RouteInv'
  OBVIOUS
<1>1. ASSUME NEW r \in Requests, Crash(r)
      PROVE  RouteInv'
  BY <1>1, RouteEnd DEF Crash
<1>2. CASE UNCHANGED vars
  BY <1>2 DEF vars, RouteInv
<1> QED  BY <1>1, <1>2, RouteArrive, RouteStep, RouteFault DEF Next

(* The handlers of api/assurance.py, with the pipeline a source edit starts  *)
(* again and whatever dies or fails to read: every session takes its request *)
(* nearer to its end and moves no other, so a request opens at most 26 and   *)
(* none, however they race, is sent round in a circle.                       *)
THEOREM RequestsRunOut == Spec => SessionsRunOut
<1>1. TypeInv /\ RouteInv /\ SomeActive /\ [Next]_vars => [\E r \in Requests : Nearer(r)]_vars
  BY NearerNext
<1>2. Spec => []RouteInv
  BY RouteInit, RouteNext, TypeInvariant, PTL DEF Spec
<1> QED  BY <1>1, <1>2, TypeInvariant, ActiveForever, PTL DEF Spec, SessionsRunOut
==============================================================================

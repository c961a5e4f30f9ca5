-------------------------- MODULE RepairVerification --------------------------
(***************************************************************************)
(* Phase 8: RepairVerificationService.verify_repair, on the proposal that  *)
(* RepairProposal made and stored.  The proposal is looked up, checked     *)
(* again, executed, and its result validated and classified; the           *)
(* discrepancies before and after are compared, and the status decided.    *)
(*                                                                         *)
(* A report is the sequence of its discrepancies in the order of their     *)
(* signatures, which gives them their ids.  A region is the set of the     *)
(* parts of its path: a containing region has a longer path.               *)
(***************************************************************************)
EXTENDS RepairProposal, Integers, FiniteSetsExt, SequencesExt

CONSTANTS
  Records,        \* DiscrepancyRecords: signature, category, path and affected rows
  MaxReport       \* bound on the discrepancies of one report

Unknown == -1

ASSUME VerificationAssumption ==
  /\ MaxReport \in Nat
  /\ Records \subseteq [sig : Nat \ {0}, cat : STRING, path : SUBSET STRING,
                        rows : Nat \cup {Unknown}]
  /\ \A r, s \in Records : r.sig = s.sig => r.cat = s.cat /\ r.path = s.path

VARIABLES
  live,      \* the pass that asked for the diagnosis still runs
  entry,     \* who asks for the verification: the pipeline or the API
  pc,        \* idle, check, execute, compare, save, told or raised
  proposal,  \* the proposal it loaded
  before,    \* discrepancy_report_before
  after,     \* discrepancy_report_after
  result,    \* RepairVerificationResult
  cached,    \* _IN_MEMORY_VERIFICATION_STORE
  record     \* RepairVerificationRecordModel

verificationVars == <<live, entry, pc, proposal, before, after, result, cached, record>>
vars == <<mode, up, outages, call, memory, row,
          live, entry, pc, proposal, before, after, result, cached, record>>

Report == {rs \in BoundedSeq(Records, MaxReport) :
             \A i, j \in DOMAIN rs : i < j => rs[i].sig < rs[j].sig}

Result(status, remaining, new, rowsBefore, rowsAfter) ==
  [status |-> status, original |-> Len(before), remaining |-> remaining, new |-> new,
   rowsBefore |-> rowsBefore, rowsAfter |-> rowsAfter]

NoResult == [status |-> "NOT_RUN", original |-> 0, remaining |-> 0, new |-> 0,
             rowsBefore |-> Unknown, rowsAfter |-> Unknown]

ResultSpace == [status : VerificationStatus \cup {"NOT_RUN"}, original : Nat, remaining : Nat,
                new : Nat, rowsBefore : Nat \cup {Unknown}, rowsAfter : Nat \cup {Unknown}]

TypeOK ==
  /\ ProposalTypeOK
  /\ live \in BOOLEAN
  /\ entry \in {"pipeline", "api"}
  /\ pc \in {"idle", "check", "execute", "compare", "save", "told", "raised"}
  /\ proposal \in Proposal \cup {None}
  /\ {before, after} \subseteq Report
  /\ {result, cached, record} \subseteq ResultSpace

Init ==
  /\ ProposalInit
  /\ live = TRUE /\ entry = "pipeline" /\ pc = "idle"
  /\ proposal = None /\ before = <<>> /\ after = <<>>
  /\ result = NoResult /\ cached = NoResult /\ record = NoResult
------------------------------------------------------------------------------
(* DiscrepancyDiffAnalyzer.                                                *)

(* "global" is the region of a record without a path.                      *)
Global == {}

(* Mutant: only the very same region counts.                               *)
WithinExact(p, q) == p = q

Within(p, q) == p = q \/ (p # Global /\ p \subseteq q)

(* What the target of an empty report is replaced by; its signature is no  *)
(* hash, so no record has it.                                              *)
Dummy == [sig |-> 0, cat |-> "UNKNOWN", path |-> Global, rows |-> Unknown]

(* The primary discrepancy of the pass, hence D-001.                       *)
Target == IF before = <<>> THEN Dummy ELSE before[1]

Found(rs, P(_)) == \E i \in DOMAIN rs : P(rs[i])
FirstOf(rs, P(_)) == rs[Min({i \in DOMAIN rs : P(rs[i])})]

SameSignature(r) == before # <<>> /\ r.sig = Target.sig
SameRegion(r)    == Within(Target.path, r.path)
Equivalent(r)    == SameRegion(r) /\ r.cat = Target.cat

(* analyze_targeted_discrepancy: status and affected rows after.           *)
Outcome(rs) ==
  IF Found(rs, SameSignature)
  THEN [status |-> "PERSISTS", rows |-> FirstOf(rs, SameSignature).rows]
  ELSE IF Found(rs, Equivalent)
  THEN [status |-> "PERSISTS", rows |-> FirstOf(rs, Equivalent).rows]
  ELSE IF Found(rs, SameRegion)
  THEN [status |-> "CHANGED", rows |-> FirstOf(rs, SameRegion).rows]
  ELSE [status |-> "RESOLVED", rows |-> 0]

(* max(0, None - n) of a discrepancy that persists.                        *)
Subtracts(rs) ==
  Outcome(rs).status = "PERSISTS" /\ Unknown \in {Target.rows, Outcome(rs).rows}

(* categorize_before_and_after_discrepancies, by position.  A record of    *)
(* before remains as the record with its signature, or else as the first   *)
(* of its region.                                                          *)
BySignature(i, rs) == {j \in DOMAIN rs : rs[j].sig = before[i].sig}
ByRegion(i, rs)    == {j \in DOMAIN rs : rs[j].path = before[i].path}

(* Mutant: a record under another signature does not count as remaining.   *)
RemainsAsSignature(i, rs) == BySignature(i, rs)

RemainsAs(i, rs) ==
  IF BySignature(i, rs) # {} THEN BySignature(i, rs)
  ELSE IF ByRegion(i, rs) # {} THEN {Min(ByRegion(i, rs))}
  ELSE {}

Remaining(rs) == UNION {RemainsAs(i, rs) : i \in DOMAIN before}

NewIn(rs) == {j \in DOMAIN rs : \A i \in DOMAIN before :
                j \notin BySignature(i, rs) \cup ByRegion(i, rs)}

(* Mutant: any difference of the row counts is a reduction.                *)
ReducedOrMore(old, new) ==
  old # Unknown /\ new # Unknown /\ old # new

(* A reduction of less than a twenty-thousandth rounds to 0.0 %.           *)
Reduced(old, new) ==
  old # Unknown /\ new # Unknown /\ old > new /\ (old - new) * 20000 > old

(* Mutant: the status of the outcome is passed through.                    *)
StatusAfterOutcome(rs) ==
  IF NewIn(rs) # {} THEN "NEW_DISCREPANCIES"
  ELSE IF Outcome(rs).status = "RESOLVED"
  THEN IF Target.rows = 0 THEN "FAILED_VERIFICATION" ELSE "VERIFIED"
  ELSE Outcome(rs).status

(* VerificationStatusDeterminer, rules 5 to 8; a changed dataset has       *)
(* raised before, and nothing passes a broken contract or configuration.   *)
StatusAfter(rs) ==
  IF NewIn(rs) # {} THEN "NEW_DISCREPANCIES"
  ELSE IF Outcome(rs).status = "RESOLVED"
  THEN IF Target.rows = 0 THEN "FAILED_VERIFICATION" ELSE "VERIFIED"
  ELSE IF Outcome(rs).status = "PERSISTS" /\ Reduced(Target.rows, Outcome(rs).rows)
  THEN "PARTIALLY_RESOLVED"
  ELSE "FAILED_VERIFICATION"
------------------------------------------------------------------------------
Diagnose ==
  /\ live /\ ProposalNext
  /\ UNCHANGED verificationVars

(* The pipeline verifies what its own diagnosis returned; the API whatever *)
(* id it is given.  Both look the proposal up by its id, and only the      *)
(* pipeline has a validation report to diagnose once more.                 *)
Begin(e, report) ==
  /\ pc = "idle"
  /\ e = "pipeline" => live /\ call = "told" /\ memory.sql # NoSql
  /\ e = "api" => report = <<>>
  /\ entry' = e /\ before' = report
  /\ proposal' = Loaded
  /\ pc' = IF Loaded = None THEN "raised" ELSE "check"
  /\ UNCHANGED proposalVars /\ UNCHANGED <<live, after, result, cached, record>>

(* Nothing ran: every discrepancy remains, with as many rows.              *)
Refuse(status) ==
  /\ result' = Result(status, Len(before), 0, Target.rows, Target.rows)
  /\ pc' = "save"
  /\ UNCHANGED proposalVars /\ UNCHANGED <<live, entry, proposal, before, after, cached, record>>

RejectCandidate ==
  /\ pc = "check" /\ RejectionReason(proposal) # "NONE"
  /\ Refuse("CANDIDATE_REJECTED")

AcceptCandidate ==
  /\ pc = "check" /\ RejectionReason(proposal) = "NONE"
  /\ pc' = "execute"
  /\ UNCHANGED proposalVars
  /\ UNCHANGED <<live, entry, proposal, before, after, result, cached, record>>

FailExecution ==
  /\ pc = "execute" /\ entry = "pipeline"
  /\ Refuse("EXECUTION_FAILED")

Execute ==
  /\ pc = "execute" /\ entry = "pipeline"
  /\ pc' = "compare"
  /\ UNCHANGED proposalVars
  /\ UNCHANGED <<live, entry, proposal, before, after, result, cached, record>>

(* The API's execution asks for the dataset "unresolved", which no one has *)
(* registered, and the DatasetError is not one RepairExecutor converts.    *)
DatasetUnresolved ==
  /\ pc = "execute" /\ entry = "api"
  /\ pc' = "raised"
  /\ UNCHANGED proposalVars
  /\ UNCHANGED <<live, entry, proposal, before, after, result, cached, record>>

(* verify_immutability: a dataset with another hash raises.                *)
DatasetChanged ==
  /\ pc = "compare"
  /\ pc' = "raised"
  /\ UNCHANGED proposalVars
  /\ UNCHANGED <<live, entry, proposal, before, after, result, cached, record>>

(* Validation and classification of the repaired execution, and            *)
(* compare_context.                                                        *)
Compare(report) ==
  /\ pc = "compare"
  /\ after' = report
  /\ IF ~Subtracts(report)
     THEN /\ pc' = "save"
          /\ result' = Result(StatusAfter(report), Cardinality(Remaining(report)),
                              Cardinality(NewIn(report)), Target.rows, Outcome(report).rows)
     ELSE pc' = "raised" /\ UNCHANGED result
  /\ UNCHANGED proposalVars /\ UNCHANGED <<live, entry, proposal, before, cached, record>>

(* The columns are not nullable and default to 0.                          *)
StoredRows(n) == IF n = Unknown THEN 0 ELSE n

StoredResult(r) == [r EXCEPT !.rowsBefore = StoredRows(@), !.rowsAfter = StoredRows(@)]

SaveResult ==
  /\ pc = "save"
  /\ cached' = result
  /\ record' = IF mode # "test" /\ up THEN StoredResult(result) ELSE record
  /\ pc' = IF mode = "strict" /\ ~up THEN "raised" ELSE "told"
  /\ UNCHANGED proposalVars /\ UNCHANGED <<live, entry, proposal, before, after, result>>

(* get_verification_result.                                                *)
LoadedResult == IF cached # NoResult THEN cached ELSE IF up THEN record ELSE NoResult

Crash ==
  /\ live
  /\ Restart
  /\ live' = FALSE /\ cached' = NoResult
  /\ IF pc \in {"told", "raised"} THEN UNCHANGED <<pc, proposal, before, after, result>>
     ELSE /\ pc' = "idle" /\ proposal' = None
          /\ before' = <<>> /\ after' = <<>> /\ result' = NoResult
  /\ UNCHANGED <<entry, record>>

Switch ==
  /\ SwitchDatabase
  /\ UNCHANGED verificationVars

Next ==
  \/ Diagnose
  \/ \E e \in {"pipeline", "api"}, b \in Report : Begin(e, b)
  \/ RejectCandidate \/ AcceptCandidate
  \/ FailExecution \/ Execute \/ DatasetUnresolved
  \/ DatasetChanged
  \/ \E a \in Report : Compare(a)
  \/ SaveResult
  \/ Crash
  \/ Switch

Spec == Init /\ [][Next]_vars
------------------------------------------------------------------------------
(* The checks before the execution are those the diagnosis made: a         *)
(* proposal it marked PROPOSED passes them again, from the process's       *)
(* memory or read back from the database after a restart.                  *)
ProposalSurvivesRecheck ==
  pc # "idle" /\ proposal.status = "PROPOSED" => RejectionReason(proposal) = "NONE"

(* Where persistence is authoritative, a diagnosis or a verification that  *)
(* returned is found again by its id, with its status and its counts,      *)
(* through failures of the database and a restart.                         *)
AcknowledgedIsFound ==
  mode = "strict" /\ up =>
    /\ call = "told" => Loaded.status # "NONE"
    /\ pc = "told" => LoadedResult.status = result.status
                      /\ LoadedResult.remaining = result.remaining
                      /\ LoadedResult.new = result.new

(* docs/APPROACH.md: what runs in the sandbox only reads, and leaves the   *)
(* grouping, and the joins and filters its region does not name, alone.    *)
ExecutedWithinScope ==
  pc = "compare" =>
    /\ proposal.sql.kind = "select"
    /\ "group" \notin proposal.sql.changed
    /\ "joins" \in proposal.sql.changed => "join" \in proposal.region
    /\ "where" \in proposal.sql.changed => "where" \in proposal.region

(* A VERIFIED repair left nothing in the region of its target, under any   *)
(* signature or category, and nothing anywhere that was not there before.  *)
VerifiedMeansGone ==
  result.status = "VERIFIED" =>
    /\ Target.rows # 0
    /\ \A j \in DOMAIN after :
         /\ before # <<>> => after[j].sig # Target.sig
         /\ Target.path # Global => ~(Target.path \subseteq after[j].path)
         /\ \E i \in DOMAIN before : \/ after[j].sig = before[i].sig
                                     \/ after[j].path = before[i].path

(* A repair PARTIALLY_RESOLVED its target only if the target is still      *)
(* there, has known row counts, and has fewer rows than before.            *)
PartialMeansFewer ==
  result.status = "PARTIALLY_RESOLVED" =>
    /\ Unknown \notin {result.rowsBefore, result.rowsAfter}
    /\ result.rowsAfter < result.rowsBefore
    /\ result.remaining > 0 /\ result.new = 0

(* The pipeline's verification is one step of EvidencePhases: it rejects,  *)
(* compares or raises, with counts the phases reckon with.                 *)
Returned == pc = "told" /\ entry = "pipeline"

Phases == INSTANCE EvidencePhases
  WITH stage <- "verify", halted <- Returned, blocked <- FALSE, prior <- FALSE,
       ev <- IF Returned
             THEN [NoEvidence EXCEPT !.ver = result.status, !.remaining = result.remaining,
                                     !.new = result.new]
             ELSE NoEvidence,
       repaired <- [conf |-> "EXACT", val |-> "NOT_RUN",
                    before |-> IF Returned /\ result.status \notin
                                                {"CANDIDATE_REJECTED", "EXECUTION_FAILED"}
                               THEN result.original ELSE 0],
       verdict <- IF pc = "raised" /\ entry = "pipeline" THEN "RAISED" ELSE "NONE",
       SourcePreflights <- BOOLEAN, Confidences <- Confidence, MaxDiscs <- MaxReport

VerificationIsOnePhase ==
  [][\/ \E v \in VerificationStatus : Phases!RejectRepair(v, result.original)
     \/ Phases!CompareRepair("EXACT", "NOT_RUN", result.original,
          Outcome(after).status = "RESOLVED", Target.rows = 0,
          Outcome(after).status = "PERSISTS" /\ Reduced(Target.rows, Outcome(after).rows),
          result.remaining, result.new)
     \/ Phases!PhaseRaises]_(Phases!vars)

(* status.py: "Targeted discrepancy persists completely ->                 *)
(* FAILED_VERIFICATION": a target that persists ends in a report.  Refuted *)
(* by a target whose row count is unknown.                                 *)
PersistenceReported ==
  pc = "raised" /\ before # <<>> /\ after # <<>> => Outcome(after).status # "PERSISTS"
==============================================================================

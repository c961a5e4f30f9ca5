---------------------------- MODULE RepairProposal ----------------------------
(***************************************************************************)
(* Phase 7: what DiagnosisAIService.diagnose_discrepancy makes of a        *)
(* provider's response, how the proposal is stored, and the integrity      *)
(* checks CandidateRepairValidator runs on the proposal it loads back.     *)
(*                                                                         *)
(* A proposed statement is described by what it does to the candidate it   *)
(* repairs: whether it parses and only reads, whether the named outputs    *)
(* and the tables are the candidate's, and which of its parts differ.  A   *)
(* region is the text that says where a change is allowed; the checks only *)
(* look for words in it, so it is the set of the words found there.        *)
(***************************************************************************)
EXTENDS AssuranceDecision, Naturals

CONSTANTS
  Outputs,        \* names of the candidate's output columns
  Regions,        \* regions a response may name
  StrictRegion,   \* analysis_path, or else the affected columns
  ClaimSets,      \* the claims of a response
  Statements,     \* the statements of a response
  MaxOutages      \* bound: how often the database goes down

Words == Outputs \cup {"join", "where", "columns", "elsewhere"}

(* "rest": HAVING, ORDER BY, LIMIT, DISTINCT, subqueries, outputs without  *)
(* a name.                                                                 *)
Parts == Outputs \cup {"joins", "group", "where", "rest"}

Claim == [of : {"diagnosis", "repair"}, cites : {"pack", "nothing", "other"}]

Statement ==
  [kind : {"garbage", "mutation", "command", "select"},
   outputs : {"same", "unnamed", "other"}, tables : {"same", "other"}, changed : SUBSET Parts]

NoSql == [kind |-> "none", outputs |-> "same", tables |-> "same", changed |-> {}]

ASSUME ProposalAssumption ==
  /\ Outputs \cap {"join", "joins", "group", "where", "rest", "columns", "elsewhere"} = {}
  /\ Regions \subseteq SUBSET Words
  /\ StrictRegion \in SUBSET Words /\ StrictRegion # {}
  /\ ClaimSets \subseteq SUBSET Claim
  /\ Statements \subseteq Statement
  /\ MaxOutages \in Nat

VARIABLES
  mode,      \* strict: a failed save raises; lenient: it is logged; test: no database
  up,        \* the database answers
  outages,
  call,      \* the diagnosis call: ask, save, told (it returned), raised or lost
  memory,    \* _IN_MEMORY_REPAIR_STORE
  row        \* RepairProposalRecord

proposalVars == <<mode, up, outages, call, memory, row>>

Proposal == [status : RepairStatus, sql : Statement \cup {NoSql}, region : SUBSET Words,
             fingerprint : BOOLEAN]

None == [status |-> "NONE", sql |-> NoSql, region |-> {}, fingerprint |-> FALSE]

ProposalTypeOK ==
  /\ mode \in {"strict", "lenient", "test"}
  /\ up \in BOOLEAN /\ outages \in 0..MaxOutages
  /\ call \in {"ask", "save", "told", "raised", "lost"}
  /\ {memory, row} \subseteq Proposal \cup {None}

ProposalInit ==
  /\ mode \in {"strict", "lenient", "test"}
  /\ up = TRUE /\ outages = 0
  /\ call = "ask" /\ memory = None /\ row = None
------------------------------------------------------------------------------
(* RepairProposalValidator and RepairScopeChecker.  BLOCKED_NODE_TYPES has *)
(* no exp.Command, but a command has no selects.                           *)
ReadOnly(s) == s.kind \in {"command", "select"}

(* The names are compared only if the proposal still has any.              *)
ContractPreserved(s) == s.kind = "select" /\ s.outputs # "other" /\ s.tables = "same"

(* Mutant: no look at GROUP BY.                                            *)
InScopeNoGroup(s, region) ==
  /\ "joins" \in s.changed => "join" \in region
  /\ "where" \in s.changed => "where" \in region
  /\ \A a \in s.changed \cap Outputs : a \in region \/ region = {"columns"}

InScope(s, region) ==
  /\ "joins" \in s.changed => "join" \in region
  /\ "group" \notin s.changed
  /\ "where" \in s.changed => "where" \in region
  /\ \A a \in s.changed \cap Outputs : a \in region \/ region = {"columns"}

EffectiveChange(s) == s.changed # {} \/ s.outputs # "same" \/ s.tables # "same"

(* Evidence item E-003 is in every pack, so there is something to cite.    *)
Grounded(claims) == claims # {} /\ \A c \in claims : c.cites = "pack"

EffectiveRegion(region) == IF region # {} THEN region ELSE StrictRegion

Proposed(s, region) ==
  /\ s # NoSql
  /\ ReadOnly(s) /\ ContractPreserved(s) /\ InScope(s, EffectiveRegion(region))
  /\ EffectiveChange(s)

------------------------------------------------------------------------------
(* The call ends by saving its proposal, first in memory.                  *)
Save(status, sql, region, fingerprint) ==
  /\ call = "ask" /\ call' = "save"
  /\ memory' = [status |-> status, sql |-> sql, region |-> region, fingerprint |-> fingerprint]
  /\ UNCHANGED <<mode, up, outages, row>>

ProviderFails == Save("FAILED", NoSql, {}, FALSE)

RejectUngrounded(claims, region) ==
  /\ ~Grounded(claims)
  /\ Save("FAILED", NoSql, region, FALSE)

(* "insufficient evidence" only counts beside a claim of the diagnosis.    *)
Withhold(claims, insufficient, s, region) ==
  /\ Grounded(claims)
  /\ s = NoSql \/ (insufficient /\ \E c \in claims : c.of = "diagnosis")
  /\ Save("NO_REPAIR", NoSql, EffectiveRegion(region), TRUE)

Propose(claims, insufficient, s, region) ==
  /\ Grounded(claims)
  /\ s # NoSql /\ (insufficient => \A c \in claims : c.of # "diagnosis")
  /\ IF Proposed(s, region)
     THEN Save("PROPOSED", s, EffectiveRegion(region), TRUE)
     ELSE Save("FAILED", NoSql, EffectiveRegion(region), TRUE)

(* RepairProposalRecord has no fingerprint, and the claims and constraints *)
(* are not read back.                                                      *)
Stored(p) ==
  [status |-> p.status, sql |-> p.sql, region |-> p.region, fingerprint |-> FALSE]

(* Mutant: a failed commit is only logged, whatever the environment.       *)
PersistQuietly ==
  /\ call = "save" /\ call' = "told"
  /\ row' = IF mode # "test" /\ up THEN Stored(memory) ELSE row
  /\ UNCHANGED <<mode, up, outages, memory>>

(* save_diagnosis_ai_result.  Where persistence is authoritative a failure *)
(* leaves the call with an error, and the proposal in memory.              *)
Persist ==
  /\ call = "save"
  /\ row' = IF mode # "test" /\ up THEN Stored(memory) ELSE row
  /\ call' = IF mode = "strict" /\ ~up THEN "raised" ELSE "told"
  /\ UNCHANGED <<mode, up, outages, memory>>

(* Mutant: the region is not read back.                                    *)
LoadedRegionless ==
  IF memory # None THEN memory
  ELSE IF up /\ row # None THEN [row EXCEPT !.region = {}]
  ELSE None

(* get_repair_proposal_by_id: the memory of this process first; a failed   *)
(* query looks there again.                                                *)
Loaded ==
  IF memory # None THEN memory
  ELSE IF up THEN row
  ELSE None

DatabaseFails == up /\ outages < MaxOutages /\ up' = FALSE /\ outages' = outages + 1
DatabaseRecovers == ~up /\ up' = TRUE /\ UNCHANGED outages

SwitchDatabase ==
  /\ DatabaseFails \/ DatabaseRecovers
  /\ UNCHANGED <<mode, call, memory, row>>

(* The process dies: a call in progress with it.                           *)
Restart ==
  /\ memory' = None
  /\ call' = IF call \in {"ask", "save"} THEN "lost" ELSE call
  /\ UNCHANGED <<mode, up, outages, row>>

ProposalNext ==
  \/ ProviderFails
  \/ \E claims \in ClaimSets, r \in Regions : RejectUngrounded(claims, r)
  \/ \E claims \in ClaimSets, i \in BOOLEAN, s \in Statements \cup {NoSql}, r \in Regions :
       Withhold(claims, i, s, r) \/ Propose(claims, i, s, r)
  \/ Persist
------------------------------------------------------------------------------
(* CandidateRepairValidator.validate_candidate, in the order of its        *)
(* checks.  The stored text it compares the proposal with is looked up     *)
(* under an id no diagnosis has, so it is the proposal's own; nobody       *)
(* passes the expected tables and fingerprint.                             *)
RejectionReason(p) ==
  CASE p.status # "PROPOSED"          -> "STATUS_NOT_PROPOSED"
    [] p.sql = NoSql                  -> "EMPTY_PROPOSED_SQL"
    [] ~EffectiveChange(p.sql)        -> "UNCHANGED_REPAIR_SQL"
    [] p.sql.kind = "garbage"         -> "SQL_SYNTAX_ERROR"
    [] ~ReadOnly(p.sql)               -> "READ_ONLY_VIOLATION"
    [] p.sql.kind # "select"          -> "SCHEMA_INCONSISTENCY"
    [] ~ContractPreserved(p.sql)      -> "CONTRACT_ALIAS_MISMATCH"
    [] ~InScope(p.sql, IF p.region # {} THEN p.region ELSE {"columns"}) ->
         "SCOPE_CONSTRAINT_VIOLATION"
    [] OTHER                          -> "NONE"
==============================================================================

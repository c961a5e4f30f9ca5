---------------------------- MODULE ProviderCalls ----------------------------
(***************************************************************************)
(* One call of a language model, from TranslationService.translate or from *)
(* DiagnosisAIService.diagnose_discrepancy, and the result record the      *)
(* service makes of it.  OpenAIProvider and OpenAIDiagnosisProvider share  *)
(* the attempt loop: a configured number of attempts, a budget of seconds  *)
(* tested before each of them, a delay that doubles, and answers that end  *)
(* the loop at once.  The mock providers answer without a loop.            *)
(*                                                                         *)
(* Time is counted in seconds: elapsed is perf_counter() - start_time.     *)
(***************************************************************************)
EXTENDS AssuranceDecision, Integers

CONSTANTS
  Limits,        \* values of settings.LLM_MAX_RETRIES
  Budget,        \* global_timeout_sec
  FirstDelay,    \* the initial retry_delay
  LongestAnswer, \* a request is answered, or fails, after at most this long
  Durations,     \* how long the enumerated requests take
  RetryAfters    \* numeric retry-after headers of a 429

ASSUME ProviderAssumption ==
  /\ Limits \subseteq Nat
  /\ Budget \in Nat /\ FirstDelay \in Nat /\ LongestAnswer \in Nat
  /\ Durations \subseteq 0..LongestAnswer
  /\ RetryAfters \subseteq Nat

VARIABLES
  client,    \* which service calls
  limit,     \* its LLM_MAX_RETRIES
  pc, attempt, elapsed,
  delay,     \* retry_delay
  wait,      \* the sleep it is in
  answer,    \* the last answer of the provider
  result     \* what the service saves

vars == <<client, limit, pc, attempt, elapsed, delay, wait, answer, result>>

Client == {"translation", "diagnosis"}

NoHint == -1

(* A 429 carries a body that may be unreadable.  perToken: its type is     *)
(* "tokens" and its code rate_limit_exceeded; daily: its message says      *)
(* tokens per day, TPD or quota; credits: exhausted, limit_exceeded or     *)
(* credits.                                                                *)
Limited == [kind : {"limited"}, readable : BOOLEAN, perToken : BOOLEAN,
            daily : BOOLEAN, credits : BOOLEAN, hint : RetryAfters \cup {NoHint}]

(* garbled: a 200 whose body is not the expected JSON envelope.            *)
(* schema_rejected: a 400 whose body names json_validate_failed.           *)
Plain == [kind : {"none", "content", "garbled", "auth", "schema_rejected", "bad_request",
                  "http_error", "network_error"}]

NoAnswer == [kind |-> "none"]

(* The body's type decides which words of the message count.               *)
IsExhaustion(a) ==
  a.kind = "limited" /\ a.readable /\ IF a.perToken THEN a.daily ELSE a.credits

Definitive(a) == \/ a.kind \in {"auth", "schema_rejected", "bad_request"}
                 \/ IsExhaustion(a)
Retryable(a) ==
  \/ a.kind \in {"garbled", "http_error", "network_error"}
  \/ (a.kind = "limited" /\ ~IsExhaustion(a))

ErrorCode == {"NONE", "PROVIDER_TOKEN_EXHAUSTED", "PROVIDER_TIMEOUT", "LLM_AUTH_ERROR",
              "INVALID_STRUCTURED_OUTPUT", "LLM_PROVIDER_ERROR", "LLM_RATE_LIMIT",
              "LLM_TRANSIENT_ERROR", "OTHER"}

(* The exception an answer ends the loop with, as the services name it.    *)
(* Only the translation service tells an authentication error apart.       *)
FailureCode(a) ==
  CASE a.kind = "auth"            -> IF client = "translation" THEN "LLM_AUTH_ERROR"
                                     ELSE "LLM_PROVIDER_ERROR"
    [] a.kind = "schema_rejected" -> "INVALID_STRUCTURED_OUTPUT"
    [] a.kind = "bad_request"     -> "LLM_PROVIDER_ERROR"
    [] IsExhaustion(a)            -> "PROVIDER_TOKEN_EXHAUSTED"
    [] a.kind = "limited"         -> "LLM_RATE_LIMIT"
    [] OTHER                      -> "LLM_TRANSIENT_ERROR"

(* status and valid are those of a TranslationResult, or status is that of *)
(* a RepairProposal; sql says whether the result carries a statement.      *)
ResultSpace ==
  [status : TranslationStatus \cup RepairStatus \cup {"NONE"},
   valid : CandidateValidationStatus \cup {"NONE"}, sql : BOOLEAN,
   code : ErrorCode, retries : Nat]

Result(status, valid, sql, code, retries) ==
  [status |-> status, valid |-> valid, sql |-> sql, code |-> code, retries |-> retries]

Pending == Result("NONE", "NONE", FALSE, "NONE", 0)

TypeOK ==
  /\ client \in Client
  /\ limit \in Limits
  /\ pc \in {"start", "check", "request", "sleep", "parse", "done"}
  /\ attempt \in Nat /\ elapsed \in Nat /\ delay \in Nat /\ wait \in Nat
  /\ answer \in Limited \cup Plain
  /\ result \in ResultSpace

Init ==
  /\ client \in Client /\ limit \in Limits
  /\ pc = "start" /\ attempt = 0 /\ elapsed = 0
  /\ delay = FirstDelay /\ wait = 0
  /\ answer = NoAnswer /\ result = Pending
------------------------------------------------------------------------------
Save(r) == pc' = "done" /\ result' = r

(* Mutant: the retries are counted without the guard for no attempt.       *)
SaveFailureUnguarded(code) ==
  Save(Result(IF client = "translation" THEN "PROVIDER_ERROR" ELSE "FAILED",
              "NONE", FALSE, code, attempt - 1))

(* A failed provider leaves provider_attempts at 1: no retries recorded.   *)
SaveFailure(code) ==
  Save(Result(IF client = "translation" THEN "PROVIDER_ERROR" ELSE "FAILED",
              "NONE", FALSE, code, 0))

(* translate refuses a dialect pair it does not know and a source it       *)
(* cannot analyse before any provider is asked.                            *)
RefuseRequest(status) ==
  /\ pc = "start" /\ client = "translation"
  /\ status \in {"UNSUPPORTED_DIALECT", "FAILED"}
  /\ Save(Result(status, "NONE", FALSE, "OTHER", 0))
  /\ UNCHANGED <<client, limit, attempt, elapsed, delay, wait, answer>>

AskProvider ==
  /\ pc = "start"
  /\ pc' = "check"
  /\ UNCHANGED <<client, limit, attempt, elapsed, delay, wait, answer, result>>

(* The mock modes that raise; their exceptions carry no answer.            *)
MockRaises(code) ==
  /\ pc = "start" /\ client = "translation"
  /\ code \in {"PROVIDER_TIMEOUT", "LLM_PROVIDER_ERROR", "PROVIDER_TOKEN_EXHAUSTED",
               "LLM_RATE_LIMIT"}
  /\ SaveFailure(code)
  /\ UNCHANGED <<client, limit, attempt, elapsed, delay, wait, answer>>

(* The other modes respond; MOCK_TRANSIENT_429 claims three attempts.      *)
MockResponds(n) ==
  /\ pc = "start"
  /\ n \in IF client = "translation" THEN {1, 3} ELSE {1}
  /\ pc' = "parse" /\ attempt' = n
  /\ UNCHANGED <<client, limit, elapsed, delay, wait, answer, result>>
------------------------------------------------------------------------------
(* The loop: for attempt in range(1, max_retries + 1).                     *)

(* Mutant: the budget is not tested before an attempt.                     *)
SendLate ==
  /\ pc = "check" /\ attempt < limit
  /\ pc' = "request" /\ attempt' = attempt + 1
  /\ UNCHANGED <<client, limit, elapsed, delay, wait, answer, result>>

Send ==
  /\ pc = "check" /\ attempt < limit /\ elapsed <= Budget
  /\ pc' = "request" /\ attempt' = attempt + 1
  /\ UNCHANGED <<client, limit, elapsed, delay, wait, answer, result>>

(* Mutant: an attempt that comes too late is skipped instead of refused.   *)
OutOfTimeSkips ==
  /\ pc = "check" /\ attempt < limit /\ elapsed > Budget
  /\ UNCHANGED vars

OutOfTime ==
  /\ pc = "check" /\ attempt < limit /\ elapsed > Budget
  /\ SaveFailure("PROVIDER_TIMEOUT")
  /\ UNCHANGED <<client, limit, attempt, elapsed, delay, wait, answer>>

(* With LLM_MAX_RETRIES = 0 nothing was ever read: an UnboundLocalError,   *)
(* which the services take for any other exception.                        *)
NoAttempt ==
  /\ pc = "check" /\ attempt = limit
  /\ SaveFailure("LLM_PROVIDER_ERROR")
  /\ UNCHANGED <<client, limit, attempt, elapsed, delay, wait, answer>>

Receive(a, d) ==
  /\ pc = "request"
  /\ answer' = a /\ elapsed' = elapsed + d

ReceiveContent(d) ==
  /\ Receive([kind |-> "content"], d)
  /\ pc' = "parse"
  /\ UNCHANGED <<client, limit, attempt, delay, wait, result>>

(* Mutant: the last attempt is not used.                                   *)
GiveUpEarly(a, d) ==
  /\ Receive(a, d)
  /\ Definitive(a) \/ (Retryable(a) /\ attempt >= limit - 1)
  /\ SaveFailure(FailureCode(a))
  /\ UNCHANGED <<client, limit, attempt, delay, wait>>

GiveUp(a, d) ==
  /\ Receive(a, d)
  /\ Definitive(a) \/ (Retryable(a) /\ attempt >= limit)
  /\ SaveFailure(FailureCode(a))
  /\ UNCHANGED <<client, limit, attempt, delay, wait>>

(* Mutant: a 400 is retried like a server error.                           *)
BackOffOnBadRequest(a, d) ==
  /\ Receive(a, d)
  /\ Retryable(a) \/ a.kind = "schema_rejected"
  /\ attempt < limit
  /\ pc' = "sleep" /\ wait' = delay /\ delay' = 2 * delay
  /\ UNCHANGED <<client, limit, attempt, result>>

(* The server's retry-after is slept in full, whatever the budget; the     *)
(* delay doubles even when it was not used.                                *)
BackOff(a, d) ==
  /\ Receive(a, d)
  /\ Retryable(a) /\ attempt < limit
  /\ pc' = "sleep"
  /\ wait' = IF a.kind = "limited" /\ a.hint # NoHint THEN a.hint ELSE delay
  /\ delay' = 2 * delay
  /\ UNCHANGED <<client, limit, attempt, result>>

Wake ==
  /\ pc = "sleep"
  /\ pc' = "check" /\ elapsed' = elapsed + wait
  /\ UNCHANGED <<client, limit, attempt, delay, wait, answer, result>>
------------------------------------------------------------------------------
(* The text is not the structured response: the translation service parses *)
(* it itself, the diagnosis provider parses and raises.                    *)
RejectContent ==
  /\ pc = "parse"
  /\ client = "diagnosis" => answer.kind = "content"
  /\ IF client = "translation"
     THEN Save(Result("INVALID_OUTPUT", "NONE", FALSE, "INVALID_STRUCTURED_OUTPUT", attempt - 1))
     ELSE SaveFailure("LLM_PROVIDER_ERROR")
  /\ UNCHANGED <<client, limit, attempt, elapsed, delay, wait, answer>>

(* Mutant: a candidate with a schema mismatch counts as translated.        *)
StatusOfLenient(valid) ==
  CASE valid = "UNSAFE_SQL"     -> "REJECTED"
    [] valid = "INVALID_SYNTAX" -> "FAILED"
    [] OTHER                    -> "SUCCESS"

(* validate_candidate_sql's verdict and the status translate maps it to;   *)
(* an empty statement is INVALID_SYNTAX.                                   *)
StatusOf(valid) ==
  CASE valid = "UNSAFE_SQL"   -> "REJECTED"
    [] valid = "VALID_SYNTAX" -> "SUCCESS"
    [] OTHER                  -> "FAILED"

SaveTranslation(valid, sql) ==
  /\ pc = "parse" /\ client = "translation"
  /\ valid \in {"VALID_SYNTAX", "UNSAFE_SQL", "INVALID_SYNTAX", "SCHEMA_MISMATCH"}
  /\ ~sql => valid = "INVALID_SYNTAX"
  /\ Save(Result(StatusOf(valid), valid, sql,
                 IF valid = "VALID_SYNTAX" THEN "NONE" ELSE "OTHER", attempt - 1))
  /\ UNCHANGED <<client, limit, attempt, elapsed, delay, wait, answer>>

(* The checks of a parsed diagnosis are RepairProposal's subject.          *)
SaveDiagnosis(status) ==
  /\ pc = "parse" /\ client = "diagnosis"
  /\ status \in RepairStatus
  /\ Save(Result(status, "NONE", status = "PROPOSED", "NONE", attempt - 1))
  /\ UNCHANGED <<client, limit, attempt, elapsed, delay, wait, answer>>

Next ==
  \/ \E s \in {"UNSUPPORTED_DIALECT", "FAILED"} : RefuseRequest(s)
  \/ AskProvider
  \/ \E c \in ErrorCode : MockRaises(c)
  \/ \E n \in {1, 3} : MockResponds(n)
  \/ Send \/ OutOfTime \/ NoAttempt
  \/ \E d \in Durations : ReceiveContent(d)
  \/ \E a \in Limited \cup Plain, d \in Durations : GiveUp(a, d) \/ BackOff(a, d)
  \/ Wake
  \/ RejectContent
  \/ \E v \in CandidateValidationStatus, b \in BOOLEAN : SaveTranslation(v, b)
  \/ \E s \in RepairStatus : SaveDiagnosis(s)

(* The loop runs in the thread of the request: a socket has a timeout, a   *)
(* sleep ends, and nothing else is waited for.                             *)
Spec == Init /\ [][Next]_vars

FairSpec == Spec /\ WF_vars(Next)
------------------------------------------------------------------------------
(* Every call ends in a saved result: no answer, delay or limit keeps a    *)
(* pass waiting for its provider.                                          *)
CallEnds == <>(pc = "done")

(* The budget bounds the call up to one answer and one sleep: the only     *)
(* test is before an attempt.  No sleep is longer than the longest header  *)
(* or the last delay.                                                      *)
OverrunBounded ==
  elapsed <= Budget + LongestAnswer + wait

(* A call whose last answer could have been retried, and that was still    *)
(* within its budget, has used all its attempts.                           *)
NothingGivenUpEarly ==
  pc = "done" /\ Retryable(answer) /\ elapsed <= Budget => attempt = limit

(* tests/translator: a 400 that names json_validate_failed "does not       *)
(* trigger retry storms"; nor does any other definitive answer.            *)
DefinitiveAnswerEndsCall ==
  [][Definitive(answer) => attempt' = attempt]_vars

(* A call is one Translate or one DiagnoseAI step of EvidencePhases: every *)
(* result it can save is one that the phases reckon with.                  *)
Done == pc = "done"
Succeeded == Done /\ result.status \in {"SUCCESS", "PROPOSED"}
ErrorClass == IF result.code \in TranslationError THEN result.code ELSE "OTHER"

Collected ==
  IF ~Done THEN NoEvidence
  ELSE IF client = "diagnosis" THEN [NoEvidence EXCEPT !.repair = result.status]
  ELSE [NoEvidence EXCEPT !.trStatus = result.status, !.trValid = result.valid,
                          !.trSql = result.sql, !.trError = ErrorClass]

Phases == INSTANCE EvidencePhases
  WITH stage <- IF client = "translation"
                THEN IF Succeeded THEN "preflight" ELSE "translate"
                ELSE IF Succeeded THEN "proposed" ELSE "diagnose",
       halted <- Done /\ ~Succeeded, blocked <- FALSE, prior <- FALSE,
       ev <- Collected, repaired <- [conf |-> "EXACT", val |-> "NOT_RUN", before |-> 0],
       verdict <- "NONE",
       SourcePreflights <- BOOLEAN, Confidences <- Confidence, MaxDiscs <- 0

CallIsOnePhase ==
  [][\/ \E o \in Phases!TranslationOutcomes : Phases!Translate(o)
     \/ \E r \in RepairStatus : Phases!DiagnoseAI(r)]_(Phases!vars)

(* README.md: "Provider quota exhausted" ends BLOCKED_PROVIDER_LIMIT.  The *)
(* provider said so if a readable 429 has any of the words.  Refuted: the  *)
(* words of the reason are looked for in some answers only.                *)
SaysExhausted(a) == a.kind = "limited" /\ a.readable /\ (a.daily \/ a.credits)

QuotaReported ==
  Done /\ client = "translation" /\ SaysExhausted(answer)
    => FinalStatus(Collected) = "BLOCKED_PROVIDER_LIMIT"
==============================================================================

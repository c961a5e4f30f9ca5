------------------------- MODULE ProviderCallsProofs -------------------------
(***************************************************************************)
(* The safety of a provider call for every limit, budget, delay and        *)
(* retry-after header.  One inductive invariant carries the theorems: it   *)
(* adds to the type what each place of the loop knows of the elapsed time  *)
(* and of the last answer.                                                 *)
(***************************************************************************)
EXTENDS ProviderCalls, TLAPS

(* A request is only sent within the budget; a sleep starts at most one    *)
(* answer after it; nothing parsed came from an answer worth a retry.      *)
LoopInv ==
  /\ pc = "start" => answer = NoAnswer /\ elapsed = 0 /\ attempt = 0
  /\ pc \in {"check", "request", "sleep"} => attempt <= limit
  /\ pc = "request" => elapsed <= Budget
  /\ pc = "sleep" => elapsed <= Budget + LongestAnswer
  /\ pc \in {"request", "parse"} => attempt > 0
  /\ pc = "parse" => ~Retryable(answer)

IInv == TypeOK /\ LoopInv /\ OverrunBounded /\ NothingGivenUpEarly

(* The result a failure saves is a result.                                 *)
LEMMA FailureTyped ==
  ASSUME NEW code \in ErrorCode
  PROVE  /\ Result("PROVIDER_ERROR", "NONE", FALSE, code, 0) \in ResultSpace
         /\ Result("FAILED", "NONE", FALSE, code, 0) \in ResultSpace
BY DEF Result, ResultSpace, TranslationStatus, RepairStatus, CandidateValidationStatus

(* Every answer that ends the loop has a code.                             *)
LEMMA CodeTyped == \A a \in Limited \cup Plain : FailureCode(a) \in ErrorCode
BY DEF FailureCode, ErrorCode

(* The first answer of a call is not one of the provider.                  *)
LEMMA NoAnswerPlain == NoAnswer \in Plain /\ ~Retryable(NoAnswer) /\ ~Definitive(NoAnswer)
BY DEF NoAnswer, Plain, Retryable, Definitive, IsExhaustion

(* A call starts inside the invariant.                                     *)
LEMMA InitInv == Init => IInv
<1> SUFFICES ASSUME Init PROVE IInv
  OBVIOUS
<1> USE ProviderAssumption
<1>1. Pending \in ResultSpace
  BY DEF Pending, Result, ResultSpace, ErrorCode
<1>2. TypeOK
  BY <1>1, NoAnswerPlain DEF Init, TypeOK
<1>3. LoopInv /\ OverrunBounded /\ NothingGivenUpEarly
  BY NoAnswerPlain DEF Init, LoopInv, OverrunBounded, NothingGivenUpEarly
<1> QED
  BY <1>2, <1>3 DEF IInv

(* Saving any result keeps the invariant, if the clock and the last answer *)
(* at that moment do.                                                      *)
LEMMA SaveKeeps ==
  ASSUME IInv, NEW r \in ResultSpace, Save(r),
         UNCHANGED <<client, limit, attempt, delay, wait>>,
         elapsed' \in Nat, elapsed' <= Budget + LongestAnswer + wait,
         answer' \in Limited \cup Plain,
         Retryable(answer)' /\ elapsed' <= Budget => attempt = limit
  PROVE  IInv'
BY DEF IInv, TypeOK, Save, LoopInv, OverrunBounded, NothingGivenUpEarly

(* The same for a result that is saved without a new answer.               *)
LEMMA SaveKeepsStill ==
  ASSUME IInv, NEW r \in ResultSpace, Save(r),
         UNCHANGED <<client, limit, attempt, elapsed, delay, wait, answer>>,
         ~Retryable(answer) \/ elapsed > Budget \/ attempt = limit
  PROVE  IInv'
<1>1. elapsed' \in Nat /\ elapsed' <= Budget + LongestAnswer + wait
  BY ProviderAssumption DEF IInv, TypeOK, OverrunBounded
<1>2. answer' \in Limited \cup Plain
  BY DEF IInv, TypeOK
<1>3. Retryable(answer)' /\ elapsed' <= Budget => attempt = limit
  BY ProviderAssumption DEF IInv, TypeOK, Retryable, IsExhaustion
<1> QED
  BY <1>1, <1>2, <1>3, SaveKeeps

(* Nothing was asked yet, or the text is being looked at.                  *)
LEMMA OutsideLoop ==
  ASSUME IInv,
         \/ \E s \in {"UNSUPPORTED_DIALECT", "FAILED"} : RefuseRequest(s)
         \/ AskProvider
         \/ \E c \in ErrorCode : MockRaises(c)
         \/ \E n \in {1, 3} : MockResponds(n)
         \/ RejectContent
         \/ \E v \in CandidateValidationStatus, b \in BOOLEAN : SaveTranslation(v, b)
         \/ \E s \in RepairStatus : SaveDiagnosis(s)
  PROVE  IInv'
<1> USE ProviderAssumption
<1>1. pc \in {"start", "parse"} => ~Retryable(answer)
  BY NoAnswerPlain DEF IInv, LoopInv
<1>2. pc = "parse" => attempt - 1 \in Nat
  BY DEF IInv, LoopInv, TypeOK
<1>3. CASE \E s \in {"UNSUPPORTED_DIALECT", "FAILED"} : RefuseRequest(s)
  <2> PICK s \in {"UNSUPPORTED_DIALECT", "FAILED"} : RefuseRequest(s)
    BY <1>3
  <2>1. Result(s, "NONE", FALSE, "OTHER", 0) \in ResultSpace
    BY DEF Result, ResultSpace, ErrorCode, TranslationStatus
  <2> QED
    BY <1>1, <2>1, SaveKeepsStill DEF RefuseRequest
<1>4. CASE AskProvider
  BY <1>1, <1>4 DEF AskProvider, IInv, TypeOK, LoopInv, OverrunBounded, NothingGivenUpEarly
<1>5. CASE \E c \in ErrorCode : MockRaises(c)
  <2> PICK c \in ErrorCode : MockRaises(c)
    BY <1>5
  <2> QED
    BY <1>1, FailureTyped, SaveKeepsStill DEF MockRaises, SaveFailure
<1>6. CASE \E n \in {1, 3} : MockResponds(n)
  BY <1>1, <1>6 DEF MockResponds, IInv, TypeOK, LoopInv, OverrunBounded, NothingGivenUpEarly,
                    Retryable, IsExhaustion
<1>7. CASE RejectContent
  <2>1. pc = "parse" => Result("INVALID_OUTPUT", "NONE", FALSE, "INVALID_STRUCTURED_OUTPUT",
                               attempt - 1) \in ResultSpace
    BY <1>2 DEF Result, ResultSpace, ErrorCode, TranslationStatus
  <2>2. "LLM_PROVIDER_ERROR" \in ErrorCode
    BY DEF ErrorCode
  <2>3. CASE client = "translation"
    BY <1>1, <1>7, <2>1, <2>3, SaveKeepsStill DEF RejectContent
  <2>4. CASE client # "translation"
    BY <1>1, <1>7, <2>2, <2>4, FailureTyped, SaveKeepsStill DEF RejectContent, SaveFailure
  <2> QED
    BY <2>3, <2>4
<1>8. CASE \E v \in CandidateValidationStatus, b \in BOOLEAN : SaveTranslation(v, b)
  <2> PICK v \in CandidateValidationStatus, b \in BOOLEAN : SaveTranslation(v, b)
    BY <1>8
  <2>1. StatusOf(v) \in TranslationStatus
    BY DEF StatusOf, TranslationStatus
  <2>2. pc = "parse"
    BY DEF SaveTranslation
  <2>3. Result(StatusOf(v), v, b, IF v = "VALID_SYNTAX" THEN "NONE" ELSE "OTHER", attempt - 1)
          \in ResultSpace
    BY <1>2, <2>1, <2>2 DEF Result, ResultSpace, ErrorCode
  <2> QED
    BY <1>1, <2>2, <2>3, SaveKeepsStill DEF SaveTranslation
<1>9. CASE \E s \in RepairStatus : SaveDiagnosis(s)
  <2> PICK s \in RepairStatus : SaveDiagnosis(s)
    BY <1>9
  <2>1. pc = "parse"
    BY DEF SaveDiagnosis
  <2>2. Result(s, "NONE", s = "PROPOSED", "NONE", attempt - 1) \in ResultSpace
    BY <1>2, <2>1 DEF Result, ResultSpace, ErrorCode
  <2> QED
    BY <1>1, <2>1, <2>2, SaveKeepsStill DEF SaveDiagnosis
<1> QED
  BY <1>3, <1>4, <1>5, <1>6, <1>7, <1>8, <1>9

(* What a request that lasts d seconds does to the clock.                  *)
LEMMA AnswerTime ==
  ASSUME IInv, NEW a \in Limited \cup Plain, NEW d \in Durations, Receive(a, d)
  PROVE  /\ attempt \in Nat /\ limit \in Nat /\ attempt <= limit /\ attempt > 0
         /\ elapsed' \in Nat /\ elapsed' <= Budget + LongestAnswer
         /\ answer' = a /\ (Retryable(answer)' <=> Retryable(a))
<1>1. d \in Nat /\ d <= LongestAnswer /\ limit \in Nat
  BY ProviderAssumption DEF IInv, TypeOK
<1> QED
  BY <1>1, ProviderAssumption DEF IInv, TypeOK, LoopInv, Receive, Retryable, IsExhaustion

(* The attempt loop: one step per action.                                  *)
LEMMA InsideLoop ==
  ASSUME IInv,
         \/ Send \/ OutOfTime \/ NoAttempt \/ Wake
         \/ \E d \in Durations : ReceiveContent(d)
         \/ \E a \in Limited \cup Plain, d \in Durations : GiveUp(a, d) \/ BackOff(a, d)
  PROVE  IInv'
<1> USE ProviderAssumption
<1>1. limit \in Nat /\ attempt \in Nat /\ elapsed \in Nat /\ wait \in Nat /\ delay \in Nat
  BY DEF IInv, TypeOK
<1>2. {"PROVIDER_TIMEOUT", "LLM_PROVIDER_ERROR"} \subseteq ErrorCode
  BY DEF ErrorCode
<1>3. CASE Send
  BY <1>1, <1>3 DEF Send, IInv, TypeOK, LoopInv, OverrunBounded, NothingGivenUpEarly
<1>4. CASE OutOfTime
  BY <1>1, <1>2, <1>4, FailureTyped, SaveKeepsStill DEF OutOfTime, SaveFailure
<1>5. CASE NoAttempt
  BY <1>1, <1>2, <1>5, FailureTyped, SaveKeepsStill DEF NoAttempt, SaveFailure
<1>6. CASE Wake
  BY <1>1, <1>6 DEF Wake, IInv, TypeOK, LoopInv, OverrunBounded, NothingGivenUpEarly
<1>7. CASE \E d \in Durations : ReceiveContent(d)
  <2> DEFINE c == [kind |-> "content"]
  <2> PICK d \in Durations : ReceiveContent(d)
    BY <1>7
  <2>1. c \in Limited \cup Plain /\ ~Retryable(c)
    BY DEF Plain, Retryable, IsExhaustion
  <2>2. Receive(c, d)
    BY DEF ReceiveContent
  <2> HIDE DEF c
  <2> QED
    BY <1>1, <2>1, <2>2, AnswerTime
    DEF ReceiveContent, IInv, TypeOK, LoopInv, OverrunBounded, NothingGivenUpEarly
<1>8. ASSUME NEW a \in Limited \cup Plain, NEW d \in Durations, GiveUp(a, d)
      PROVE  IInv'
  <2>1. Receive(a, d)
    BY <1>8 DEF GiveUp
  <2>2. FailureCode(a) \in ErrorCode
    BY CodeTyped
  <2>3. Definitive(a) => ~Retryable(a)
    BY DEF Definitive, Retryable, IsExhaustion
  <2>4. Retryable(a) => attempt = limit
    BY <1>8, <2>1, <2>3, AnswerTime DEF GiveUp
  <2>5. elapsed' \in Nat /\ elapsed' <= Budget + LongestAnswer + wait
    BY <1>1, <2>1, AnswerTime
  <2> QED
    BY <1>8, <2>1, <2>2, <2>4, <2>5, AnswerTime, FailureTyped, SaveKeeps
    DEF GiveUp, SaveFailure
<1>9. ASSUME NEW a \in Limited \cup Plain, NEW d \in Durations, BackOff(a, d)
      PROVE  IInv'
  <2>1. Receive(a, d)
    BY <1>9 DEF BackOff
  <2>2. a.kind = "limited" => a.hint \in RetryAfters \cup {NoHint}
    BY DEF Limited, Plain
  <2>3. a.kind = "limited" /\ a.hint # NoHint => a.hint \in Nat
    BY <2>2
  <2>4. wait' \in Nat /\ delay' = 2 * delay
    BY <1>1, <1>9, <2>3 DEF BackOff
  <2>5. delay' \in Nat
    BY <1>1, <2>4
  <2> QED
    BY <1>1, <1>9, <2>1, <2>4, <2>5, AnswerTime
    DEF BackOff, IInv, TypeOK, LoopInv, OverrunBounded, NothingGivenUpEarly
<1> QED
  BY <1>3, <1>4, <1>5, <1>6, <1>7, <1>8, <1>9

(* Every step keeps the invariant.                                         *)
LEMMA NextInv == IInv /\ [Next]_vars => IInv'
<1> SUFFICES ASSUME IInv, [Next]_vars PROVE IInv'
  OBVIOUS
<1>1. CASE UNCHANGED vars
  BY <1>1 DEF vars, IInv, TypeOK, LoopInv, OverrunBounded, NothingGivenUpEarly, Retryable,
              IsExhaustion
<1>2. CASE Next
  BY <1>2, OutsideLoop, InsideLoop DEF Next
<1> QED
  BY <1>1, <1>2

(* The invariant holds throughout every call.                              *)
LEMMA CallInv == Spec => []IInv
  BY InitInv, NextInv, PTL DEF Spec

(* Every call keeps its variables in their types, whatever the settings.   *)
THEOREM TypeCorrect == Spec => []TypeOK
<1>1. IInv => TypeOK
  BY DEF IInv
<1> QED
  BY <1>1, CallInv, PTL

(* Whatever the server's headers: a call never lasts longer than the       *)
(* budget, one answer and one sleep.                                       *)
THEOREM OverrunAlwaysBounded == Spec => []OverrunBounded
<1>1. IInv => OverrunBounded
  BY DEF IInv
<1> QED
  BY <1>1, CallInv, PTL

(* Whatever the settings: a call that fails within its budget on an answer *)
(* worth a retry has used all its attempts.                                *)
THEOREM AttemptsAllUsed == Spec => []NothingGivenUpEarly
<1>1. IInv => NothingGivenUpEarly
  BY DEF IInv
<1> QED
  BY <1>1, CallInv, PTL
------------------------------------------------------------------------------
(* A definitive answer ends its call: no step after it sends again.        *)
THEOREM DefinitiveAlwaysEnds == Spec => DefinitiveAnswerEndsCall
<1> DEFINE Ends == /\ pc \in {"check", "request", "sleep"} => ~Definitive(answer)
                   /\ pc = "start" => ~Definitive(answer)
<1>1. Init => Ends
  BY NoAnswerPlain DEF Init
<1>2. ASSUME IInv, Ends, [Next]_vars PROVE Ends' /\ [Definitive(answer) => attempt' = attempt]_vars
  <2> DEFINE Kept == Ends' /\ [Definitive(answer) => attempt' = attempt]_vars
  <2>0. answer' = answer => (Definitive(answer)' <=> Definitive(answer))
    BY DEF Definitive, IsExhaustion
  <2>1. CASE UNCHANGED vars
    BY <1>2, <2>0, <2>1 DEF vars
  <2>2. CASE \/ \E s \in {"UNSUPPORTED_DIALECT", "FAILED"} : RefuseRequest(s)
             \/ \E c \in ErrorCode : MockRaises(c)
             \/ RejectContent
             \/ \E v \in CandidateValidationStatus, b \in BOOLEAN : SaveTranslation(v, b)
             \/ \E s \in RepairStatus : SaveDiagnosis(s)
             \/ OutOfTime \/ NoAttempt
    <3>1. pc' = "done" /\ attempt' = attempt
      BY <2>2 DEF RefuseRequest, MockRaises, RejectContent, SaveTranslation, SaveDiagnosis,
                  OutOfTime, NoAttempt, SaveFailure, Save
    <3> QED
      BY <3>1
  <2>3. CASE AskProvider \/ Send \/ Wake \/ \E n \in {1, 3} : MockResponds(n)
    BY <1>2, <2>0, <2>3 DEF AskProvider, Send, Wake, MockResponds
  <2>4. CASE \E d \in Durations : ReceiveContent(d)
    BY <2>4 DEF ReceiveContent, Receive
  <2>5. ASSUME NEW a \in Limited \cup Plain, NEW d \in Durations, GiveUp(a, d) \/ BackOff(a, d)
        PROVE  Kept
    <3>1. Definitive(a) => ~Retryable(a)
      BY DEF Definitive, Retryable, IsExhaustion
    <3>2. CASE GiveUp(a, d)
      BY <3>2 DEF GiveUp, SaveFailure, Save
    <3>3. CASE BackOff(a, d)
      BY <3>1, <3>3 DEF BackOff, Receive, Definitive, IsExhaustion
    <3> QED
      BY <2>5, <3>2, <3>3
  <2> QED
    BY <1>2, <2>1, <2>2, <2>3, <2>4, <2>5 DEF Next
<1> QED
  BY <1>1, <1>2, CallInv, PTL DEF Spec, DefinitiveAnswerEndsCall
------------------------------------------------------------------------------
(* The class of an error code, which the evidence keeps of it.             *)
Class(code) == IF code \in TranslationError THEN code ELSE "OTHER"

(* A result that the phases reckon with.                                   *)
Reckoned(r) ==
  /\ client = "translation" =>
       /\ r.status \in TranslationStatus
       /\ Phases!Translated(r.status, r.valid, r.sql, Class(r.code))
             \in Phases!TranslationOutcomes
  /\ client = "diagnosis" => r.status \in RepairStatus

(* A failure of the provider is an outcome of the translation, and a       *)
(* FAILED diagnosis, if its code says anything.                            *)
LEMMA FailureReckoned ==
  ASSUME NEW code, code # "NONE", client \in Client, SaveFailure(code)
  PROVE  \E r : Save(r) /\ Reckoned(r)
<1>1. Class(code) \in TranslationError \ {"NONE"}
  BY DEF Class, TranslationError
<1>2. Phases!Translated("PROVIDER_ERROR", "NONE", FALSE, Class(code)) \in Phases!TranslationOutcomes
  BY <1>1 DEF Phases!TranslationOutcomes, Phases!TranslationError, TranslationError
<1>3. CASE client = "translation"
  <2>1. Reckoned(Result("PROVIDER_ERROR", "NONE", FALSE, code, 0))
    BY <1>2, <1>3 DEF Reckoned, Result, TranslationStatus
  <2> QED
    BY <1>3, <2>1 DEF SaveFailure
<1>4. CASE client = "diagnosis"
  <2>1. Reckoned(Result("FAILED", "NONE", FALSE, code, 0))
    BY <1>4 DEF Reckoned, Result, RepairStatus
  <2> QED
    BY <1>4, <2>1 DEF SaveFailure
<1> QED
  BY <1>3, <1>4 DEF Client

(* The verdict on a candidate is an outcome of the translation.            *)
LEMMA CandidateReckoned ==
  ASSUME NEW v, NEW b \in BOOLEAN, SaveTranslation(v, b)
  PROVE  \E r : Save(r) /\ Reckoned(r)
<1> DEFINE code == IF v = "VALID_SYNTAX" THEN "NONE" ELSE "OTHER"
           r == Result(StatusOf(v), v, b, code, attempt - 1)
<1>0. /\ client = "translation" /\ Save(r)
      /\ v \in {"VALID_SYNTAX", "UNSAFE_SQL", "INVALID_SYNTAX", "SCHEMA_MISMATCH"}
      /\ ~b => v = "INVALID_SYNTAX"
  BY DEF SaveTranslation
<1>1. Class(code) = code
  BY DEF Class, TranslationError
<1>2. StatusOf(v) \in TranslationStatus
  BY DEF StatusOf, TranslationStatus
<1>3. Phases!Translated(StatusOf(v), v, b, code) \in Phases!TranslationOutcomes
  <2>1. CASE v = "VALID_SYNTAX"
    BY <1>0, <2>1 DEF StatusOf, Phases!TranslationOutcomes, Phases!PriorTranslation
  <2>2. CASE v = "UNSAFE_SQL"
    BY <1>0, <2>2 DEF StatusOf, Phases!TranslationOutcomes
  <2>3. CASE v = "SCHEMA_MISMATCH"
    BY <1>0, <2>3 DEF StatusOf, Phases!TranslationOutcomes
  <2>4. CASE v = "INVALID_SYNTAX"
    BY <2>4 DEF StatusOf, Phases!TranslationOutcomes
  <2> QED
    BY <1>0, <2>1, <2>2, <2>3, <2>4
<1>4. r.status = StatusOf(v) /\ r.valid = v /\ r.sql = b /\ r.code = code
  BY DEF Result
<1>5. Reckoned(r)
  <2> HIDE DEF r, code
  <2> QED
    BY <1>0, <1>1, <1>2, <1>3, <1>4 DEF Reckoned
<1> QED
  BY <1>0, <1>5

(* A step saves a result that the phases reckon with, or none.             *)
LEMMA SavesReckoned ==
  ASSUME IInv, Next
  PROVE  /\ client' = client /\ pc # "done"
         /\ pc' # "done" \/ \E r : Save(r) /\ Reckoned(r)
<1>0. client \in Client
  BY DEF IInv, TypeOK
<1>1. ASSUME NEW s \in {"UNSUPPORTED_DIALECT", "FAILED"}, RefuseRequest(s)
      PROVE  \E r : Save(r) /\ Reckoned(r)
  <2>1. Phases!Translated(s, "NONE", FALSE, "OTHER") \in Phases!TranslationOutcomes
    BY DEF Phases!TranslationOutcomes
  <2>2. Reckoned(Result(s, "NONE", FALSE, "OTHER", 0))
    BY <1>1, <2>1 DEF Reckoned, Result, RefuseRequest, TranslationStatus, Class, TranslationError
  <2> QED
    BY <1>1, <2>2 DEF RefuseRequest
<1>2. ASSUME \/ \E c \in ErrorCode : MockRaises(c)
             \/ OutOfTime \/ NoAttempt
             \/ \E a \in Limited \cup Plain, d \in Durations : GiveUp(a, d)
      PROVE  \E r : Save(r) /\ Reckoned(r)
  <2>1. \A a \in Limited \cup Plain : FailureCode(a) # "NONE"
    BY DEF FailureCode
  <2>2. \E code : code # "NONE" /\ SaveFailure(code)
    BY <1>2, <2>1 DEF MockRaises, OutOfTime, NoAttempt, GiveUp
  <2> QED
    BY <1>0, <2>2, FailureReckoned
<1>3. ASSUME RejectContent PROVE \E r : Save(r) /\ Reckoned(r)
  <2>1. CASE client = "translation"
    <3>1. Phases!Translated("INVALID_OUTPUT", "NONE", FALSE, "OTHER") \in Phases!TranslationOutcomes
      BY DEF Phases!TranslationOutcomes
    <3>2. Reckoned(Result("INVALID_OUTPUT", "NONE", FALSE, "INVALID_STRUCTURED_OUTPUT", attempt - 1))
      BY <2>1, <3>1 DEF Reckoned, Result, TranslationStatus, Class, TranslationError
    <3> QED
      BY <1>3, <2>1, <3>2 DEF RejectContent
  <2>2. CASE client # "translation"
    BY <1>0, <1>3, <2>2, FailureReckoned DEF RejectContent
  <2> QED
    BY <2>1, <2>2
<1>4. ASSUME NEW v, NEW b \in BOOLEAN, SaveTranslation(v, b) PROVE \E r : Save(r) /\ Reckoned(r)
  BY <1>4, CandidateReckoned
<1>5. ASSUME NEW s \in RepairStatus, SaveDiagnosis(s) PROVE \E r : Save(r) /\ Reckoned(r)
  <2>1. Reckoned(Result(s, "NONE", s = "PROPOSED", "NONE", attempt - 1))
    BY <1>5 DEF Reckoned, Result, SaveDiagnosis
  <2> QED
    BY <1>5, <2>1 DEF SaveDiagnosis
<1>6. ASSUME \/ AskProvider \/ Send \/ Wake
             \/ \E n \in {1, 3} : MockResponds(n)
             \/ \E d \in Durations : ReceiveContent(d)
             \/ \E a \in Limited \cup Plain, d \in Durations : BackOff(a, d)
      PROVE  pc' # "done"
  BY <1>6 DEF AskProvider, Send, Wake, MockResponds, ReceiveContent, BackOff
<1>7. client' = client /\ pc # "done"
  BY DEF Next, RefuseRequest, AskProvider, MockRaises, MockResponds, Send, OutOfTime, NoAttempt,
         ReceiveContent, GiveUp, BackOff, Receive, Wake, RejectContent, SaveTranslation,
         SaveDiagnosis
<1> QED
  BY <1>1, <1>2, <1>3, <1>4, <1>5, <1>6, <1>7 DEF Next

(* What the phases see of a call: nothing before it has saved its result.  *)
LEMMA OnePhaseStep ==
  ASSUME IInv, [Next]_vars
  PROVE  [\/ \E o \in Phases!TranslationOutcomes : Phases!Translate(o)
          \/ \E r \in RepairStatus : Phases!DiagnoseAI(r)]_(Phases!vars)
<1>1. CASE UNCHANGED vars
  BY <1>1 DEF vars, Phases!vars, Collected, Succeeded, Done, ErrorClass
<1>2. CASE Next /\ pc' # "done"
  BY <1>2, SavesReckoned DEF Phases!vars, Collected, Succeeded, Done
<1>3. ASSUME Next, NEW r, Save(r), Reckoned(r)
      PROVE  \/ \E o \in Phases!TranslationOutcomes : Phases!Translate(o)
             \/ \E s \in RepairStatus : Phases!DiagnoseAI(s)
  <2>0. client' = client /\ ~Done /\ Done' /\ result' = r /\ ~Succeeded /\ Collected = NoEvidence
    BY <1>3, SavesReckoned DEF Save, Done, Succeeded, Collected
  <2>1. CASE client = "translation"
    <3> DEFINE o == Phases!Translated(r.status, r.valid, r.sql, Class(r.code))
    <3>1. o \in Phases!TranslationOutcomes /\ r.status \in TranslationStatus
      BY <1>3, <2>1 DEF Reckoned
    <3>2. Collected' = o
      BY <2>0, <2>1 DEF Collected, ErrorClass, Class, Phases!Translated, Phases!NoEvidence,
                      NoEvidence
    <3>3. o.trStatus = r.status
      BY DEF Phases!Translated, Phases!NoEvidence
    <3>4. Succeeded' <=> r.status = "SUCCESS"
      BY <2>0, <3>1 DEF Succeeded, Done, TranslationStatus
    <3> HIDE DEF o
    <3>5. Phases!Translate(o)
      BY <2>0, <2>1, <3>2, <3>3, <3>4
         DEF Phases!Translate, Phases!Running, Phases!Enter, Phases!Halt
    <3> QED
      BY <3>1, <3>5
  <2>2. CASE client = "diagnosis"
    <3>1. r.status \in RepairStatus
      BY <1>3, <2>2 DEF Reckoned
    <3>2. Collected' = [NoEvidence EXCEPT !.repair = r.status]
      BY <2>0, <2>2 DEF Collected
    <3>3. Succeeded' <=> r.status = "PROPOSED"
      BY <2>0, <3>1 DEF Succeeded, Done, RepairStatus
    <3>4. Phases!DiagnoseAI(r.status)
      BY <2>0, <2>2, <3>2, <3>3
         DEF Phases!DiagnoseAI, Phases!Running, Phases!Enter, Phases!Halt
    <3> QED
      BY <3>1, <3>4
  <2> QED
    BY <2>1, <2>2 DEF IInv, TypeOK, Client
<1> QED
  BY <1>1, <1>2, <1>3, SavesReckoned

(* Whatever the provider answers and however often it is asked: the call   *)
(* is one step of a pass, with an outcome that the pass reckons with.      *)
THEOREM CallsAreOnePhase == Spec => CallIsOnePhase
<1>1. IInv /\ [Next]_vars
        => [\/ \E o \in Phases!TranslationOutcomes : Phases!Translate(o)
            \/ \E r \in RepairStatus : Phases!DiagnoseAI(r)]_(Phases!vars)
  BY OnePhaseStep
<1> QED
  BY <1>1, CallInv, PTL DEF Spec, CallIsOnePhase
------------------------------------------------------------------------------
(* The loop ends: steps that a call has left at most, three for every       *)
(* attempt and those before and after them.                                 *)
StepsLeft ==
  CASE pc = "start"   -> 3 * limit + 3
    [] pc = "check"   -> 3 * (limit - attempt) + 2
    [] pc = "request" -> 3 * (limit - attempt) + 4
    [] pc = "sleep"   -> 3 * (limit - attempt) + 3
    [] pc = "parse"   -> 1
    [] OTHER          -> 0

(* No retry, sleep or budget check ever comes back to an earlier place with *)
(* as many attempts left: of CallEnds, everything but the fairness.         *)
StepsRunOut == [][StepsLeft' < StepsLeft]_vars

(* Every step takes one of them at least.                                   *)
LEMMA StepsFewer == ASSUME IInv, Next PROVE StepsLeft' < StepsLeft
<1>1. /\ limit \in Nat /\ attempt \in Nat /\ limit' = limit
      /\ pc \in {"check", "request", "sleep"} => attempt <= limit
  <2>1. limit' = limit
    BY DEF Next, RefuseRequest, AskProvider, MockRaises, MockResponds, Send, OutOfTime, NoAttempt,
           ReceiveContent, GiveUp, BackOff, Wake, RejectContent, SaveTranslation, SaveDiagnosis
  <2> QED  BY <2>1, ProviderAssumption DEF IInv, TypeOK, LoopInv
<1>2. ASSUME pc \in {"start", "check", "request", "sleep", "parse"}, pc' = "done"
      PROVE  StepsLeft' < StepsLeft
  BY <1>1, <1>2 DEF StepsLeft
<1>3. CASE \/ \E s \in {"UNSUPPORTED_DIALECT", "FAILED"} : RefuseRequest(s)
           \/ \E c \in ErrorCode : MockRaises(c)
           \/ OutOfTime \/ NoAttempt
           \/ \E a \in Limited \cup Plain, d \in Durations : GiveUp(a, d)
           \/ RejectContent
           \/ \E v \in CandidateValidationStatus, b \in BOOLEAN : SaveTranslation(v, b)
           \/ \E s \in RepairStatus : SaveDiagnosis(s)
  <2>1. pc \in {"start", "check", "request", "sleep", "parse"} /\ pc' = "done"
    BY <1>3 DEF RefuseRequest, MockRaises, OutOfTime, NoAttempt, GiveUp, Receive, RejectContent,
                SaveTranslation, SaveDiagnosis, SaveFailure, Save
  <2> QED  BY <1>2, <2>1
<1>4. CASE AskProvider
  BY <1>1, <1>4 DEF AskProvider, IInv, LoopInv, StepsLeft
<1>5. CASE \E n \in {1, 3} : MockResponds(n)
  BY <1>1, <1>5 DEF MockResponds, StepsLeft
<1>6. CASE Send
  BY <1>1, <1>6 DEF Send, StepsLeft
<1>7. CASE \E d \in Durations : ReceiveContent(d)
  BY <1>1, <1>7 DEF ReceiveContent, Receive, StepsLeft
<1>8. CASE \E a \in Limited \cup Plain, d \in Durations : BackOff(a, d)
  BY <1>1, <1>8 DEF BackOff, Receive, StepsLeft
<1>9. CASE Wake
  BY <1>1, <1>9 DEF Wake, StepsLeft
<1> QED
  BY <1>3, <1>4, <1>5, <1>6, <1>7, <1>8, <1>9 DEF Next

(* A call makes at most 3 * LLM_MAX_RETRIES + 3 steps, whatever the answers *)
(* and delays: the retries cannot run on.                                   *)
THEOREM CallsRunOut == Spec => [](StepsLeft \in 0..(3 * limit + 3)) /\ StepsRunOut
<1>1. IInv => StepsLeft \in 0..(3 * limit + 3)
  <2> SUFFICES ASSUME IInv PROVE StepsLeft \in 0..(3 * limit + 3)
    OBVIOUS
  <2>1. /\ limit \in Nat /\ attempt \in Nat
        /\ pc \in {"check", "request", "sleep"} => attempt <= limit
        /\ pc = "request" => attempt > 0
    BY ProviderAssumption DEF IInv, TypeOK, LoopInv
  <2> QED  BY <2>1 DEF StepsLeft
<1>2. IInv /\ [Next]_vars => [StepsLeft' < StepsLeft]_vars
  BY StepsFewer
<1> QED
  BY <1>1, <1>2, CallInv, PTL DEF Spec, StepsRunOut
==============================================================================

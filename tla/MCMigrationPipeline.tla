------------------------- MODULE MCMigrationPipeline -------------------------
(* Model-checking instances of MigrationPipeline.                          *)
EXTENDS MigrationPipeline, TLC

CONSTANTS s1, s2, s3, s4, t1, t2

(* s3 is s1 with blanks around it.                                         *)
MCStrip == [s \in Sources |-> IF s = s3 THEN s1 ELSE s]

Ran(src, tgt, val) == [NoEvidence EXCEPT !.src = src, !.tgt = tgt, !.val = val]

Passed == Ran("SUCCESS", "SUCCESS", "PASS")
Broken == Ran("SUCCESS", "EXECUTION_ERROR", "NOT_RUN")
Mismatch == [Ran("SUCCESS", "SUCCESS", "FAIL") EXCEPT
               !.mismatches = 1, !.diagnosed = TRUE, !.discs = 1, !.critical = TRUE,
               !.repair = "NO_REPAIR"]
Repaired == [Mismatch EXCEPT !.repair = "PROPOSED", !.ver = "VERIFIED"]
Approximated == [Passed EXCEPT !.tgtConf = "APPROXIMATION"]

AllOutcomes == {Passed, Broken, Mismatch, Repaired, Approximated}
TwoOutcomes == {Passed, Broken}
CleanOutcome == {Passed}

UnsafeTranslation ==
  [status |-> "REJECTED", valid |-> "UNSAFE_SQL", error |-> "OTHER", sql |-> t1]
QuotaExhausted ==
  [status |-> "PROVIDER_ERROR", valid |-> "NONE",
   error |-> "PROVIDER_TOKEN_EXHAUSTED", sql |-> None]

NoFailures == {}
AllFailures == {UnsafeTranslation, QuotaExhausted}

Sym == Permutations(Requests)
==============================================================================

------------------------------ MODULE Validation ------------------------------
(***************************************************************************)
(* Phase 4: ValidationOrchestrator.validate runs the enabled validators    *)
(* over a source and a target execution, one after the other, and          *)
(* aggregates their statuses.  RowValidator is taken step by step: keys,   *)
(* then either every column at once (unique keys on both sides) or the     *)
(* rows of each key, first those that agree everywhere, then the closest.  *)
(*                                                                         *)
(* The wording and the evidence items of the findings are left out: every  *)
(* mismatch adds an item while there is room.                              *)
(***************************************************************************)
EXTENDS ResultComparison

CONSTANT Contexts   \* a sequence of sets of [src, tgt, enabled, analysed]: what there is to compare

(* A frame has finitely many columns and rows, and in each column values   *)
(* of its type.                                                            *)
ASSUME ContextsAssumption ==
  \A f \in DOMAIN Contexts : \A x \in Contexts[f] : \A y \in {x.src, x.tgt} :
    /\ Len(y.names) \in Nat /\ DOMAIN y.names = 1..Len(y.names)
    /\ Len(y.rows) \in Nat
    /\ \A i \in 1..Len(y.rows) : \A c \in Range(y.names) : WellTyped(y.type[c], y.rows[i][c])

VARIABLES
  ctx,      \* the ValidationContext of this validation
  pc,       \* the validator at work, or its place in compare_relations
  results,  \* the status each check returned
  mism,     \* mismatch_count of the row comparison
  todo,     \* common keys whose rows are still to be compared
  left,     \* rows of the source not yet tried in the group at hand
  spare,    \* rows of the source that agree with no row left of the target
  open,     \* rows of the target in the group that are not paired
  pairs,    \* pairs of rows, by position, compared so far
  report    \* overall_status

vars == <<ctx, pc, results, mism, todo, left, spare, open, pairs, report>>
group == <<left, spare, open, pairs>>

Checks == {"schema", "rows", "aggregates", "rules", "edges"}
After == [schema |-> "rows", rows |-> "aggregates", aggregates |-> "rules",
          rules |-> "edges", edges |-> "overall"]
Statuses == {"PASS", "WARN", "FAIL", "ERROR", "SKIPPED"}

Src == ctx.src
Tgt == ctx.tgt
Key == Src.names[1]    \* comparison_key is empty: the first column of the source

Keys(x) == {Shown(x, Key, i) : i \in Positions(x)}
Missing == Keys(Src) \ Keys(Tgt)
Extra == Keys(Tgt) \ Keys(Src)
Group(x, k) == {i \in Positions(x) : Shown(x, Key, i) = k}

Compared == (Columns(Src) \cap Columns(Tgt)) \ {Key}
Unequal(i, j) == {c \in Compared : ~ValuesEqual(Src.rows[i][c], Tgt.rows[j][c])}

Unique(x) == Cardinality(Keys(x)) = Size(x)
Vectorised == Missing = {} /\ Extra = {} /\ Unique(Src) /\ Unique(Tgt)

Init ==
  /\ \E f \in DOMAIN Contexts : ctx \in Contexts[f]
  /\ pc = "schema"
  /\ results = [c \in Checks |-> "none"]
  /\ mism = 0
  /\ todo = {} /\ left = {} /\ spare = {} /\ open = {} /\ pairs = {}
  /\ report = "none"

Return(check, status) ==
  /\ results' = [results EXCEPT ![check] = status]
  /\ pc' = After[check]
  /\ UNCHANGED <<ctx, report>>

Enabled(check) == pc = check /\ check \in ctx.enabled

(* enabled_validators names the checks to run; the others leave no result. *)
Skip(check) ==
  /\ pc = check /\ check \notin ctx.enabled
  /\ pc' = After[check]
  /\ UNCHANGED <<ctx, results, mism, todo, group, report>>

Verdict(n) == IF n = 0 THEN "PASS" ELSE "FAIL"

CheckSchema ==
  /\ Enabled("schema")
  /\ Return("schema", Verdict(SchemaMismatches(Src, Tgt)))
  /\ UNCHANGED <<mism, todo, group>>
------------------------------------------------------------------------------
(* RowValidator.                                                           *)

(* Data or the key column are missing: ComparisonKeyError, or no key.      *)
Comparable == Loaded(Src) /\ Loaded(Tgt) /\ Key \in Columns(Src) \cap Columns(Tgt)

RowsIncomparable ==
  /\ Enabled("rows") /\ ~Comparable
  /\ Return("rows", "ERROR")
  /\ UNCHANGED <<mism, todo, group>>

CompareKeysMissing ==   \* mutant: keys only the target has are not counted
  /\ Enabled("rows") /\ Comparable
  /\ mism' = Cardinality(Missing)
  /\ IF Vectorised
       THEN pc' = "columns" /\ todo' = {}
       ELSE pc' = "groups" /\ todo' = Keys(Src) \cap Keys(Tgt)
  /\ UNCHANGED <<ctx, results, group, report>>

CompareKeys ==
  /\ Enabled("rows") /\ Comparable
  /\ mism' = Cardinality(Missing) + Cardinality(Extra)
  /\ IF Vectorised
       THEN pc' = "columns" /\ todo' = {}
       ELSE pc' = "groups" /\ todo' = Keys(Src) \cap Keys(Tgt)
  /\ UNCHANGED <<ctx, results, group, report>>

(* Both frames sorted by key: row i of one stands beside the row of the    *)
(* other with the same key.                                                *)
SameKey(i, j) == Shown(Src, Key, i) = Shown(Tgt, Key, j)
BesideUnsorted(i, j) == i = j   \* mutant: the sort is left out
Beside(i, j) == SameKey(i, j)

SameScalars(i, j, c) == Same(Scalar(Src, c, i), Scalar(Tgt, c, j))

CompareColumns ==
  /\ pc = "columns"
  /\ pairs' = {p \in Positions(Src) \X Positions(Tgt) : Beside(p[1], p[2])}
  /\ mism' = mism + Cardinality({d \in pairs' \X Compared :
                                   ~SameScalars(d[1][1], d[1][2], d[2])})
  /\ Return("rows", Verdict(mism'))
  /\ UNCHANGED <<todo, left, spare, open>>

(* _match_group_rows of the next key.                                      *)
OpenGroup(k) ==
  /\ pc = "groups"
  /\ k \in todo
  /\ todo' = todo \ {k}
  /\ left' = Group(Src, k) /\ spare' = {} /\ open' = Group(Tgt, k)
  /\ pc' = "match"
  /\ UNCHANGED <<ctx, results, mism, pairs, report>>

Least(x, S) == x \in S /\ \A y \in S : x <= y

Exact(i) == {j \in open : Unequal(i, j) = {}}

(* 1. A row of the source takes the first row that agrees with it.         *)
PairExact(i, j) ==
  /\ pc = "match"
  /\ Least(i, left) /\ Least(j, Exact(i))
  /\ left' = left \ {i} /\ open' = open \ {j}
  /\ pairs' = pairs \cup {<<i, j>>}
  /\ UNCHANGED <<ctx, pc, results, mism, todo, spare, report>>

PassOver(i) ==
  /\ pc = "match"
  /\ Least(i, left) /\ Exact(i) = {}
  /\ left' = left \ {i} /\ spare' = spare \cup {i}
  /\ UNCHANGED <<ctx, pc, results, mism, todo, open, pairs, report>>

(* 2. Of the others, the first pair that differs in the fewest columns.    *)
Closest ==
  {p \in spare \X open : \A q \in spare \X open :
     Cardinality(Unequal(p[1], p[2])) <= Cardinality(Unequal(q[1], q[2]))}

PairClosest(i, j) ==
  /\ pc = "match" /\ left = {}
  /\ <<i, j>> \in Closest
  /\ \A q \in Closest : i < q[1] \/ (i = q[1] /\ j <= q[2])
  /\ spare' = spare \ {i} /\ open' = open \ {j}
  /\ pairs' = pairs \cup {<<i, j>>}
  /\ mism' = mism + Cardinality(Unequal(i, j))
  /\ UNCHANGED <<ctx, pc, results, todo, left, report>>

CloseGroupOneSided ==   \* mutant: rows the target has in excess are not counted
  /\ pc = "match" /\ left = {}
  /\ spare = {} \/ open = {}
  /\ mism' = mism + Cardinality(spare)
  /\ spare' = {} /\ open' = {}
  /\ pc' = "groups"
  /\ UNCHANGED <<ctx, results, todo, left, pairs, report>>

(* 3. What is left on either side has no counterpart.                      *)
CloseGroup ==
  /\ pc = "match" /\ left = {}
  /\ spare = {} \/ open = {}
  /\ mism' = mism + Cardinality(spare) + Cardinality(open)
  /\ spare' = {} /\ open' = {}
  /\ pc' = "groups"
  /\ UNCHANGED <<ctx, results, todo, left, pairs, report>>

RowsCompared ==
  /\ pc = "groups" /\ todo = {}
  /\ Return("rows", Verdict(mism))
  /\ UNCHANGED <<mism, todo, group>>
------------------------------------------------------------------------------
(* The validators after it, and the report.  An exception inside one is    *)
(* that check's ERROR.                                                     *)

CheckAggregates ==
  /\ Enabled("aggregates")
  /\ IF ~(Loaded(Src) /\ Loaded(Tgt))
       THEN Return("aggregates", "ERROR")
       ELSE IF \E c \in AggregatedColumns(Src, Tgt) : ~OnlyNumbers(Tgt, c)
         THEN \E s \in {"PASS", "FAIL", "ERROR"} : Return("aggregates", s)
         ELSE Return("aggregates",
                IF /\ SizesEqual(Size(Src), Size(Tgt))
                   /\ \A c \in AggregatedColumns(Src, Tgt) : StatisticsEqual(Src, Tgt, c)
                THEN "PASS" ELSE "FAIL")
  /\ UNCHANGED <<mism, todo, group>>

(* The pipeline hands over no analyses; what compare_analyses finds        *)
(* between two is a choice.                                                *)
CheckRules(status) ==
  /\ Enabled("rules")
  /\ status \in IF ctx.analysed THEN {"PASS", "FAIL", "ERROR"} ELSE {"SKIPPED"}
  /\ Return("rules", status)
  /\ UNCHANGED <<mism, todo, group>>

CheckEdges ==
  /\ Enabled("edges")
  /\ Return("edges", IF Loaded(Src) /\ Loaded(Tgt) THEN Verdict(EdgeMismatches(Src, Tgt))
                     ELSE "SKIPPED")
  /\ UNCHANGED <<mism, todo, group>>

Returned(status) == \E c \in Checks : results[c] = status

Overall == IF Returned("FAIL") THEN "FAIL" ELSE IF Returned("ERROR") THEN "ERROR"
           ELSE IF Returned("WARN") THEN "WARN" ELSE "PASS"

Aggregate ==
  /\ pc = "overall"
  /\ report' = Overall
  /\ pc' = "done"
  /\ UNCHANGED <<ctx, results, mism, todo, group>>

MatchRows ==
  \/ \E i \in left : \E j \in open : PairExact(i, j)
  \/ \E i \in left : PassOver(i)
  \/ \E i \in spare : \E j \in open : PairClosest(i, j)
  \/ CloseGroup

CheckRows ==
  \/ RowsIncomparable \/ CompareKeys \/ CompareColumns
  \/ \E k \in todo : OpenGroup(k)
  \/ MatchRows \/ RowsCompared

Next ==
  \/ \E c \in Checks : Skip(c)
  \/ CheckSchema \/ CheckRows \/ CheckAggregates
  \/ \E s \in Statuses : CheckRules(s)
  \/ CheckEdges \/ Aggregate

Spec == Init /\ [][Next]_vars
------------------------------------------------------------------------------
TypeOK ==
  /\ pc \in Checks \cup {"columns", "groups", "match", "overall", "done"}
  /\ results \in [Checks -> Statuses \cup {"none"}]
  /\ mism \in Nat
  /\ todo \subseteq Keys(Src)
  /\ left \cup spare \subseteq Positions(Src) /\ open \subseteq Positions(Tgt)
  /\ pairs \subseteq Positions(Src) \X Positions(Tgt)
  /\ report \in Statuses \cup {"none"}

(* A matching pairs every row of one side with one row of the other that   *)
(* has its key and agrees with it in every compared column.                *)
Matching(p) ==
  /\ \A i \in Positions(Src) : \E j \in Positions(Tgt) : <<i, j>> \in p
  /\ \A j \in Positions(Tgt) : \E i \in Positions(Src) : <<i, j>> \in p
  /\ \A q, r \in p : q[1] = r[1] \/ q[2] = r[2] => q = r
  /\ \A q \in p : SameKey(q[1], q[2])
  /\ \A q \in p : \A c \in Compared : Same(Src.rows[q[1]][c], Tgt.rows[q[2]][c])

Agree == \E p \in SUBSET (Positions(Src) \X Positions(Tgt)) : Matching(p)

(* A report that passes, with the schema and the rows among its checks, is *)
(* about two results with the same columns of the same types whose rows    *)
(* match one to one: neither the greedy pairing nor the vectorised path,   *)
(* nor a check that raised, lets a difference through.                     *)
PassIsAgreement ==
  report = "PASS" /\ {"schema", "rows"} \subseteq ctx.enabled =>
    /\ Comparable /\ Agree
    /\ Range(Src.names) = Range(Tgt.names)
    /\ \A c \in Range(Src.names) : Family(Src.type[c]) = Family(Tgt.type[c])

(* Equality of values is an equivalence among those of each column.        *)
Separated ==
  \A c \in Compared :
    LET V == {Src.rows[i][c] : i \in Positions(Src)} \cup {Tgt.rows[j][c] : j \in Positions(Tgt)}
    IN /\ \A a \in V : ValuesEqual(a, a)
       /\ \A a, b, d \in V : ValuesEqual(a, b) /\ ValuesEqual(b, d) => ValuesEqual(a, d)

(* The vectorised path reads numpy's scalars, which are what the rows hold *)
(* where a column is float32 on both sides or on none, and boolean on both *)
(* or on none; see NullsNormalized and BooleansCompared for the others.    *)
ScalarsAlike ==
  Vectorised =>
    \A c \in Compared :
      /\ Single(Src, c) <=> Single(Tgt, c)
      /\ Family(Src.type[c]) = "BOOLEAN" <=> Family(Tgt.type[c]) = "BOOLEAN"

(* A row comparison that fails found a difference: when no two values are  *)
(* only nearly the same, taking the first row that agrees never costs a    *)
(* later row its counterpart, and with columns ScalarsAlike the vectorised *)
(* path makes no difference up.                                            *)
FailIsReal == results["rows"] = "FAIL" /\ Separated /\ ScalarsAlike => ~Agree

(* With unique keys on both sides, the mismatch count that the diagnosis   *)
(* and the repair go by is the number of differences between the rows as   *)
(* they are stored: on the grouped path, and with columns ScalarsAlike on  *)
(* the vectorised one.                                                     *)
CountIsDifferences ==
  results["rows"] \in {"PASS", "FAIL"} /\ Unique(Src) /\ Unique(Tgt)
  /\ Separated /\ ScalarsAlike =>
    mism = Cardinality(Missing) + Cardinality(Extra)
           + Cardinality({d \in (Positions(Src) \X Positions(Tgt)) \X Compared :
               /\ SameKey(d[1][1], d[1][2])
               /\ d[2] \in Unequal(d[1][1], d[1][2])})
------------------------------------------------------------------------------
(* What a test or the documentation says and the code does not do: TLC     *)
(* refutes each of these when it is added to MCValidation.cfg.             *)

Reordered ==
  /\ Src.names = Tgt.names /\ Src.type = Tgt.type
  /\ Src.stored = "artifact" /\ Tgt.stored = "artifact"
  /\ \E f \in [Positions(Src) -> Positions(Tgt)] :
       /\ \A j \in Positions(Tgt) : \E i \in Positions(Src) : f[i] = j
       /\ Len(Src.rows) = Len(Tgt.rows)
       /\ \A i \in Positions(Src) : Src.rows[i] = Tgt.rows[f[i]]

(* tests/validation/test_multiset_row_comparison.py: the same multiset of  *)
(* rows in another order passes.                                           *)
ReorderedRowsPass == Reordered => results["rows"] # "FAIL"

(* docs/VALIDATION.md: a division by zero that both sides handle alike is  *)
(* no difference; two results that are one and the same pass.              *)
IdenticalResultsPass == Src = Tgt /\ Src.stored = "artifact" => report # "FAIL"

(* docs/VALIDATION.md: NULL and NaN are normalized before the comparison,  *)
(* to prevent false positives.  Refuted by one row on each side, NULL in a *)
(* FLOAT of the source and in a DOUBLE of the target.                      *)
NullsNormalized ==
  /\ Comparable /\ Vectorised
  /\ \A x \in {Src, Tgt} : \A i \in Positions(x) : \A c \in Compared : x.rows[i][c].kind = "null"
  => results["rows"] # "FAIL"

(* validation/comparison/values.py: boolean values are compared, as such.  *)
(* Refuted by TRUE beside the text x in one row on each side: as booleans  *)
(* they are equal, and the vectorised path compares their texts.           *)
BooleansCompared ==
  /\ results["rows"] = "FAIL" /\ Separated
  /\ \A c \in Compared : ~Single(Src, c) /\ ~Single(Tgt, c)
  => ~Agree

(* docs/VALIDATION.md: row counts must match exactly.                      *)
RowCountsMatch ==
  report = "PASS" /\ ctx.enabled = Checks => Len(Src.rows) = Len(Tgt.rows)

(* docs/VALIDATION.md: a deep equality comparison of the row sets, with    *)
(* whitespace semantics that remain consistent.                            *)
TextsCompared ==
  report = "PASS" /\ ctx.enabled = Checks /\ Size(Src) = 1 /\ Size(Tgt) = 1 =>
    \A c \in Compared :
      Src.rows[1][c].kind = "text" => Src.rows[1][c].text = Tgt.rows[1][c].text
==============================================================================

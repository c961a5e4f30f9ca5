--------------------------- MODULE ResultComparison ---------------------------
(***************************************************************************)
(* What the validators of src/backend/validation compare: the values, the  *)
(* types, the rows and the statistics of two execution results.  Pure      *)
(* operators; Validation walks through them.                               *)
(*                                                                         *)
(* A result is a record: names is the sequence of its columns, type the    *)
(* declared type of each, rows the sequence of its rows, stored what can   *)
(* still be read of it.  A value is described by what the comparisons      *)
(* tell apart:                                                             *)
(*   kind     what it is in the frame, or for numpy (Scalar below)         *)
(*   reads    what float() makes of it: a finite number, an infinite one,  *)
(*            or nothing (it raises, or yields a nan)                      *)
(*   num      that number                                                  *)
(*   text     str() of it, bare the same without blanks around it          *)
(*   decimal  str() of it in a column of floats                            *)
(***************************************************************************)
EXTENDS FiniteSetsExt, Integers, Sequences

CONSTANTS
  AbsTol,       \* numeric_absolute_tolerance, in units of the last digit
  RelDen,       \* numeric_relative_tolerance is 1 / RelDen
  OrderMatters, \* schema_column_order_matters
  SampleLimit,  \* MAX_INLINE_RESULT_ROWS
  Boundaries    \* the boundary values EdgeCaseValidator looks for

ASSUME ComparisonAssumption ==
  /\ AbsTol \in Nat /\ RelDen \in Nat \ {0} /\ SampleLimit \in Nat
  /\ OrderMatters \in BOOLEAN /\ Boundaries \subseteq Int

(* A value as the frame's rows hold it, of Python's own types.             *)
Value ==
  [ kind : {"null", "number", "boolean", "text"}, reads : {"finite", "infinite", "nothing"},
    num : Int, text : STRING, bare : STRING, decimal : STRING ]

Abs(n) == IF n < 0 THEN -n ELSE n
Larger(m, n) == IF m < n THEN n ELSE m

(* m / den and n / den differ by no more than one of the tolerances.       *)
Within(m, n, den) ==
  \/ Abs(m - n) <= AbsTol * den
  \/ Abs(m - n) * RelDen <= Larger(Abs(m), Abs(n))

(* COUNT of the rows: an absolute tolerance below 1 is no row.             *)
SizesEqual(m, n) == Abs(m - n) * RelDen <= Larger(m, n)

(* bool() of a value of which one is a boolean and the other no number.    *)
Truthy(v) == IF v.kind = "boolean" THEN v.num # 0 ELSE v.text # ""

(* values_equal goes by isinstance: only None, NaT and a nan that is a     *)
(* Python float are NULL, and only Python's own booleans are booleans.     *)
(* An infinite number is equal to nothing: inf - inf is a nan, and a nan   *)
(* is within no tolerance.                                                 *)
ValuesEqual(a, b) ==
  \/ a.kind = "null" /\ b.kind = "null"
  \/ a.reads = "finite" /\ b.reads = "finite" /\ Within(a.num, b.num, 1)
  \/ /\ a.kind # "null" /\ b.kind # "null"
     /\ a.reads = "nothing" \/ b.reads = "nothing"
     /\ IF a.kind = "boolean" \/ b.kind = "boolean" THEN Truthy(a) = Truthy(b)
        ELSE a.bare = b.bare

(* The vectorised comparison drops what Python's == takes for equal before *)
(* it asks values_equal.                                                   *)
Same(a, b) == a = b \/ ValuesEqual(a, b)
------------------------------------------------------------------------------
(* A type is [base, sized]: DECIMAL(10,2) is the base DECIMAL, sized.      *)

Families ==
  [ STRING    |-> {"VARCHAR", "STRING", "TEXT", "CHAR", "NVARCHAR"},
    INTEGER   |-> {"INT", "BIGINT", "INTEGER", "SMALLINT", "TINYINT", "INT64", "INT32"},
    FLOAT     |-> {"FLOAT", "DOUBLE", "REAL", "DECIMAL", "NUMERIC", "FLOAT8", "FLOAT4",
                   "DOUBLE PRECISION"},
    BOOLEAN   |-> {"BOOLEAN", "BOOL"},
    DATE      |-> {"DATE"},
    TIMESTAMP |-> {"TIMESTAMP", "DATETIME", "TIMESTAMPTZ", "TIMESTAMP WITH TIME ZONE"} ]

Family(type) ==
  IF \E f \in DOMAIN Families : type.base \in Families[f]
    THEN CHOOSE f \in DOMAIN Families : type.base \in Families[f]
    ELSE type.base

(* AggregateValidator compares the declared type with these as it stands,  *)
(* so a sized type is none of them.                                        *)
Aggregated(type) ==
  /\ ~type.sized
  /\ type.base \in {"INTEGER", "BIGINT", "FLOAT", "DOUBLE", "DECIMAL", "NUMERIC", "INT",
                    "INT64", "FLOAT8"}

NumberColumn(type) == Family(type) \in {"INTEGER", "FLOAT"}

(* A column of an artifact that pandas keeps as float32.                   *)
Single(x, c) == x.stored = "artifact" /\ x.type[c].base \in {"FLOAT", "FLOAT4", "REAL"}

(* What a column may hold: floats and booleans are never texts, and only a *)
(* NULL reads as a nan.                                                    *)
WellTyped(type, v) ==
  /\ v \in Value
  /\ v.kind = "null" => v.reads = "nothing"
  /\ v.kind = "number" => v.bare # "nan"
  /\ v.kind = "boolean" => v.reads = "finite"
  /\ Family(type) = "FLOAT" => v.kind \in {"number", "null"}
  /\ v.kind = "boolean" => Family(type) = "BOOLEAN"
  /\ Family(type) = "BOOLEAN" => v.kind \in {"boolean", "null"}
------------------------------------------------------------------------------
(* What _load_df finds: the artifact, or the rows kept in the execution's  *)
(* record, of which there are at most SampleLimit, or nothing.             *)

Loaded(x) == x.stored \in {"artifact", "sample"}

Size(x) == IF x.stored = "sample" /\ Len(x.rows) > SampleLimit THEN SampleLimit
           ELSE Len(x.rows)

Positions(x) == 1..Size(x)

(* A frame made of no kept row has no columns.                             *)
Columns(x) == IF x.stored = "sample" /\ x.rows = <<>> THEN {} ELSE Range(x.names)

Filled(x, c) == {i \in Positions(x) : x.rows[i][c].kind # "null"}

(* What series.loc hands to values_equal.  iterrows makes Python objects   *)
(* of a row; a single value of a column stays numpy's: a float32 nan is no *)
(* Python float, and a value of a column of booleans without a NULL is no  *)
(* Python bool.                                                            *)
SingleNaN ==
  [kind |-> "nan", reads |-> "nothing", num |-> 0, text |-> "nan", bare |-> "nan",
   decimal |-> "nan"]

Scalar(x, c, i) ==
  LET v == x.rows[i][c] IN
  CASE v.kind = "null" /\ Single(x, c) -> SingleNaN
    [] v.kind = "boolean" /\ Filled(x, c) = Positions(x) -> [v EXCEPT !.kind = "numpy"]
    [] OTHER -> v

(* str() of a value in its column: integers beside a NULL are floats.      *)
Shown(x, c, i) ==
  LET v == x.rows[i][c] IN
  CASE v.kind = "null" -> IF NumberColumn(x.type[c]) THEN "nan" ELSE "None"
    [] v.kind = "number" /\ (Family(x.type[c]) # "INTEGER" \/ Filled(x, c) # Positions(x))
         -> v.decimal
    [] OTHER -> v.text
------------------------------------------------------------------------------
(* SchemaValidator: the columns of each side, their types, their order.    *)
SchemaMismatches(s, t) ==
  LET sc == Range(s.names)
      tc == Range(t.names)
  IN Cardinality(sc \ tc) + Cardinality(tc \ sc)
     + Cardinality({c \in sc \cap tc : Family(s.type[c]) # Family(t.type[c])})
     + (IF OrderMatters /\ sc = tc /\ s.names # t.names THEN 1 ELSE 0)
------------------------------------------------------------------------------
(* AggregateValidator, without specifications of its own: COUNT of the     *)
(* rows, and SUM, AVG, MIN and MAX of each column that is Aggregated.      *)

AggregatedColumns(s, t) ==
  {c \in Range(s.names) \cap Range(t.names) : Aggregated(s.type[c])}

(* _compute_stat of what is no number raises, or reads a number out of it. *)
OnlyNumbers(x, c) == \A i \in Filled(x, c) : x.rows[i][c].kind = "number"

Numbers(x, c) == {x.rows[i][c].num : i \in Filled(x, c)}
Total(x, c) == MapThenSumSet(LAMBDA i : x.rows[i][c].num, Filled(x, c))

(* Without a value every statistic is NULL; with an infinite one, SUM is   *)
(* infinite and equal to nothing.                                          *)
StatisticsEqual(s, t, c) ==
  LET m == Cardinality(Filled(s, c))
      n == Cardinality(Filled(t, c))
  IN \/ m = 0 /\ n = 0
     \/ /\ m > 0 /\ n > 0
        /\ \A x \in {s, t} : \A i \in Filled(x, c) : x.rows[i][c].reads = "finite"
        /\ Within(Total(s, c), Total(t, c), 1)
        /\ Within(Total(s, c) * n, Total(t, c) * m, m * n)
        /\ Within(Min(Numbers(s, c)), Min(Numbers(t, c)), 1)
        /\ Within(Max(Numbers(s, c)), Max(Numbers(t, c)), 1)
------------------------------------------------------------------------------
(* EdgeCaseValidator: NULLs are counted over the whole frame, and a        *)
(* boundary value that both sides have in a column must be in the rows of  *)
(* the same keys.                                                          *)

Nulls(x) == {p \in Positions(x) \X Columns(x) : x.rows[p[1]][p[2]].kind = "null"}

KeysAt(x, key, c, b) ==
  {Shown(x, key, i) : i \in {i \in Positions(x) :
     x.rows[i][c].kind = "number" /\ x.rows[i][c].reads = "finite"
                                             /\ x.rows[i][c].num = b}}

Diverged(s, t) ==
  {p \in (Columns(s) \cap Columns(t)) \X Boundaries :
     /\ NumberColumn(s.type[p[1]])
     /\ s.names[1] \in Columns(t)
     /\ LET sk == KeysAt(s, s.names[1], p[1], p[2])
            tk == KeysAt(t, s.names[1], p[1], p[2])
        IN sk # {} /\ tk # {} /\ sk # tk}

EdgeMismatches(s, t) ==
  Cardinality(Diverged(s, t)) + (IF Cardinality(Nulls(s)) # Cardinality(Nulls(t)) THEN 1 ELSE 0)
==============================================================================

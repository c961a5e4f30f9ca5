--------------------------- MODULE ValidationProofs ---------------------------
(***************************************************************************)
(* A passing report is about results that agree, a failing row comparison  *)
(* about results that differ, and the mismatch count counts differences:   *)
(* for frames of any size, any values, any tolerances and any set of       *)
(* enabled checks.  The comparison counts its loops down.                  *)
(***************************************************************************)
EXTENDS Validation, FiniteSetTheorems, TLAPS

SKey(i) == Shown(Src, Key, i)
TKey(j) == Shown(Tgt, Key, j)

Taken == \E f \in DOMAIN Contexts : ctx \in Contexts[f]

(* Before the rows, nothing is counted, opened or paired.                  *)
Fresh ==
  pc \in {"schema", "rows"} =>
    /\ mism = 0
    /\ todo = {} /\ left = {} /\ spare = {} /\ open = {} /\ pairs = {}

(* The group at hand: its rows are in no pair and in no group to come.     *)
GroupOK ==
  /\ left \cap spare = {}
  /\ \A i \in left \cup spare : SKey(i) \notin todo /\ \A p \in pairs : p[1] # i
  /\ \A j \in open : TKey(j) \notin todo /\ \A p \in pairs : p[2] # j
  /\ \A i \in left \cup spare : \A j \in open : SKey(i) = TKey(j)

(* The pairs are a matching of equal keys outside the groups to come, and  *)
(* of equal rows as long as no mismatch was counted.                       *)
PairsOK ==
  /\ \A p \in pairs : SKey(p[1]) = TKey(p[2]) /\ SKey(p[1]) \notin todo
  /\ \A p, q \in pairs : p[1] = q[1] \/ p[2] = q[2] => p = q
  /\ mism = 0 => \A p \in pairs : Unequal(p[1], p[2]) = {}

(* As long as no mismatch was counted every row is in a group to come, in  *)
(* the group at hand or in a pair.                                         *)
Accounted ==
  mism = 0 =>
    /\ \A i \in Positions(Src) : \/ SKey(i) \in todo \/ i \in left \cup spare
                                 \/ \E j \in Positions(Tgt) : <<i, j>> \in pairs
    /\ \A j \in Positions(Tgt) : \/ TKey(j) \in todo \/ j \in open
                                 \/ \E i \in Positions(Src) : <<i, j>> \in pairs

Grouping ==
  pc \in {"groups", "match"} =>
    /\ Comparable /\ GroupOK /\ PairsOK /\ Accounted
    /\ pc = "groups" => left = {} /\ spare = {} /\ open = {}

Columnwise == pc = "columns" => Comparable /\ Vectorised

SchemasMatch == SchemaMismatches(Src, Tgt) = 0

(* Where a vectorised pass is one of the rows themselves: the columns are   *)
(* ScalarsAlike, or of the same families.                                  *)
SameFamilies == \A c \in Compared : Family(Src.type[c]) = Family(Tgt.type[c])
Trusted == ScalarsAlike \/ SameFamilies
Agreement == Comparable /\ (Trusted => Agree)

RowChecks == {"schema", "rows", "columns", "groups", "match"}

ResultsOK ==
  /\ results["schema"] \in {"none", "PASS", "FAIL"}
  /\ results["rows"] \in {"none", "PASS", "FAIL", "ERROR"}
  /\ results["schema"] = "none" /\ "schema" \in ctx.enabled => pc = "schema"
  /\ results["rows"] = "none" /\ "rows" \in ctx.enabled => pc \in RowChecks
  /\ results["schema"] = "PASS" => SchemasMatch
  /\ results["rows"] = "PASS" => Agreement

ReportOK ==
  /\ report # "none" => pc = "done"
  /\ report = "PASS" => ~Returned("FAIL") /\ ~Returned("ERROR")

IInv ==
  /\ Taken /\ TypeOK /\ Fresh /\ Grouping /\ Columnwise /\ ResultsOK /\ ReportOK
------------------------------------------------------------------------------
(* What is compared is finite.                                             *)
LEMMA RangeFinite ==
  ASSUME NEW f, NEW n \in Nat, DOMAIN f = 1..n
  PROVE  IsFiniteSet(Range(f))
<1> DEFINE g == [i \in 1..n |-> f[i]]
<1>1. g \in Surjection(1..n, Range(f))
  BY DEF Surjection, Range
<1>2. IsFiniteSet(1..n)
  BY FS_Interval
<1> QED
  BY <1>1, <1>2, FS_Surjection

LEMMA SizeType ==
  ASSUME NEW x, Len(x.rows) \in Nat
  PROVE  Size(x) \in Nat /\ IsFiniteSet(Positions(x)) /\ Cardinality(Positions(x)) = Size(x)
<1>1. Size(x) \in Nat
  BY ComparisonAssumption DEF Size
<1> QED
  BY <1>1, FS_Interval DEF Positions

LEMMA FramesFinite ==
  ASSUME Taken
  PROVE  /\ Size(Src) \in Nat /\ Size(Tgt) \in Nat
         /\ IsFiniteSet(Positions(Src)) /\ Cardinality(Positions(Src)) = Size(Src)
         /\ IsFiniteSet(Positions(Tgt)) /\ Cardinality(Positions(Tgt)) = Size(Tgt)
         /\ IsFiniteSet(Range(Src.names)) /\ IsFiniteSet(Range(Tgt.names))
<1>1. \A y \in {Src, Tgt} : /\ Len(y.names) \in Nat /\ DOMAIN y.names = 1..Len(y.names)
                            /\ Len(y.rows) \in Nat
  BY ContextsAssumption DEF Taken, Src, Tgt
<1>2. IsFiniteSet(Range(Src.names)) /\ IsFiniteSet(Range(Tgt.names))
  BY <1>1, RangeFinite
<1> QED
  BY <1>1, <1>2, SizeType

LEMMA KeysFinite ==
  ASSUME NEW x, Len(x.rows) \in Nat
  PROVE  /\ IsFiniteSet(Keys(x))
         /\ Unique(x) => \A i, j \in Positions(x) :
                           Shown(x, Key, i) = Shown(x, Key, j) => i = j
<1> DEFINE f == [i \in Positions(x) |-> Shown(x, Key, i)]
<1>1. f \in Surjection(Positions(x), Keys(x))
  BY DEF Surjection, Keys
<1>2. IsFiniteSet(Positions(x)) /\ Cardinality(Positions(x)) = Size(x)
  BY SizeType
<1>3. IsFiniteSet(Keys(x)) /\ (Cardinality(Keys(x)) = Size(x) <=> f \in Injection(Positions(x), Keys(x)))
  BY <1>1, <1>2, FS_Surjection
<1>4. ASSUME f \in Injection(Positions(x), Keys(x)), NEW i \in Positions(x), NEW j \in Positions(x),
             Shown(x, Key, i) = Shown(x, Key, j)
      PROVE  i = j
  BY <1>4 DEF Injection, IsInjective
<1> QED
  BY <1>3, <1>4 DEF Unique

LEMMA DifferencesFinite ==
  ASSUME Taken
  PROVE  /\ IsFiniteSet(Compared)
         /\ \A i, j : IsFiniteSet(Unequal(i, j)) /\ Cardinality(Unequal(i, j)) \in Nat
<1>1. IsFiniteSet(Range(Src.names)) /\ Compared \subseteq Range(Src.names)
  BY FramesFinite DEF Compared, Columns
<1>2. IsFiniteSet(Compared)
  BY <1>1, FS_Subset
<1>3. \A i, j : Unequal(i, j) \subseteq Compared
  BY DEF Unequal
<1> QED
  BY <1>2, <1>3, FS_Subset, FS_CardinalityType

LEMMA SubsetEmpty ==
  ASSUME NEW S, IsFiniteSet(S), NEW T, T \subseteq S
  PROVE  Cardinality(T) \in Nat /\ (Cardinality(T) = 0 => T = {})
BY FS_Subset, FS_CardinalityType, FS_EmptySet

LEMMA SumZero ==
  ASSUME NEW a \in Nat, NEW b \in Nat, NEW c \in Nat, NEW d \in Nat, a + b + c + d = 0
  PROVE  a = 0 /\ b = 0 /\ c = 0
OBVIOUS

(* No mismatch of schemas: the same columns, each of the same family.      *)
LEMMA NoSchemaMismatch ==
  ASSUME Taken, SchemasMatch
  PROVE  /\ Range(Src.names) = Range(Tgt.names)
         /\ \A c \in Range(Src.names) : Family(Src.type[c]) = Family(Tgt.type[c])
<1> DEFINE sc == Range(Src.names)
           tc == Range(Tgt.names)
           differ == {c \in sc \cap tc : Family(Src.type[c]) # Family(Tgt.type[c])}
           moved == IF OrderMatters /\ sc = tc /\ Src.names # Tgt.names THEN 1 ELSE 0
<1>1. IsFiniteSet(sc) /\ IsFiniteSet(tc)
  BY FramesFinite
<1>2. /\ Cardinality(sc \ tc) \in Nat /\ (Cardinality(sc \ tc) = 0 => sc \ tc = {})
      /\ Cardinality(tc \ sc) \in Nat /\ (Cardinality(tc \ sc) = 0 => tc \ sc = {})
      /\ Cardinality(differ) \in Nat /\ (Cardinality(differ) = 0 => differ = {})
  <2>1. sc \ tc \subseteq sc /\ tc \ sc \subseteq tc /\ differ \subseteq sc
    OBVIOUS
  <2> HIDE DEF sc, tc, differ
  <2> QED
    BY <1>1, <2>1, SubsetEmpty
<1>3. Cardinality(sc \ tc) + Cardinality(tc \ sc) + Cardinality(differ) + moved = 0
  BY DEF SchemasMatch, SchemaMismatches
<1>4. moved \in Nat
  OBVIOUS
<1>5. sc \ tc = {} /\ tc \ sc = {} /\ differ = {}
  <2> HIDE DEF sc, tc, differ, moved
  <2>1. Cardinality(sc \ tc) = 0 /\ Cardinality(tc \ sc) = 0 /\ Cardinality(differ) = 0
    BY <1>2, <1>3, <1>4, SumZero
  <2> QED
    BY <1>2, <2>1
<1> QED
  BY <1>5

(* No missing and no extra key: every key is on both sides.                *)
LEMMA NoKeyMismatch ==
  ASSUME Taken
  PROVE  /\ Cardinality(Missing) \in Nat /\ (Cardinality(Missing) = 0 => Missing = {})
         /\ Cardinality(Extra) \in Nat /\ (Cardinality(Extra) = 0 => Extra = {})
<1>1. Len(Src.rows) \in Nat /\ Len(Tgt.rows) \in Nat
  BY ContextsAssumption DEF Taken, Src, Tgt
<1>2. IsFiniteSet(Keys(Src)) /\ IsFiniteSet(Keys(Tgt))
  BY <1>1, KeysFinite
<1>3. Missing \subseteq Keys(Src) /\ Extra \subseteq Keys(Tgt)
  BY DEF Missing, Extra
<1> QED
  BY <1>2, <1>3, SubsetEmpty

(* The grouped comparison that counted nothing leaves a matching.          *)
LEMMA GroupsMatch ==
  ASSUME TypeOK, PairsOK, Accounted,
         mism = 0, todo = {}, left = {}, spare = {}, open = {}
  PROVE  Agree
<1>1. pairs \in SUBSET (Positions(Src) \X Positions(Tgt))
  BY DEF TypeOK
<1>2. \A q \in pairs : SameKey(q[1], q[2])
  BY DEF PairsOK, SameKey, SKey, TKey
<1>3. \A q \in pairs : \A c \in Compared : Same(Src.rows[q[1]][c], Tgt.rows[q[2]][c])
  BY DEF PairsOK, Unequal, Same
<1>4. \A q, r \in pairs : q[1] = r[1] \/ q[2] = r[2] => q = r
  BY DEF PairsOK
<1>5. Matching(pairs)
  BY <1>2, <1>3, <1>4 DEF Matching, Accounted
<1> QED
  BY <1>1, <1>5 DEF Agree

(* numpy's scalars of the columns.                                         *)
LEMMA TypedValues ==
  ASSUME Taken, NEW c \in Compared
  PROVE  /\ \A i \in Positions(Src) : WellTyped(Src.type[c], Src.rows[i][c])
         /\ \A j \in Positions(Tgt) : WellTyped(Tgt.type[c], Tgt.rows[j][c])
<1>1. \A y \in {Src, Tgt} : /\ Len(y.rows) \in Nat
                            /\ \A i \in 1..Len(y.rows) : \A d \in Range(y.names) :
                                 WellTyped(y.type[d], y.rows[i][d])
  BY ContextsAssumption DEF Taken, Src, Tgt
<1>2. \A y \in {Src, Tgt} : Positions(y) \subseteq 1..Len(y.rows)
  BY <1>1, ComparisonAssumption DEF Positions, Size
<1>3. c \in Range(Src.names) /\ c \in Range(Tgt.names)
  BY DEF Compared, Columns
<1> QED
  BY <1>1, <1>2, <1>3

LEMMA SingleIsFloat ==
  ASSUME NEW x, NEW c, Single(x, c)
  PROVE  Family(x.type[c]) = "FLOAT"
<1> DEFINE base == x.type[c].base
<1>1. base \in {"FLOAT", "FLOAT4", "REAL"}
  BY DEF Single
<1>2. DOMAIN Families = {"STRING", "INTEGER", "FLOAT", "BOOLEAN", "DATE", "TIMESTAMP"}
  BY DEF Families
<1>3. base \in Families["FLOAT"]
  BY <1>1 DEF Families
<1>4. /\ base \notin Families["STRING"] /\ base \notin Families["INTEGER"]
      /\ base \notin Families["BOOLEAN"] /\ base \notin Families["DATE"]
      /\ base \notin Families["TIMESTAMP"]
  BY <1>1 DEF Families
<1> HIDE DEF base
<1>5. \A f \in DOMAIN Families : base \in Families[f] <=> f = "FLOAT"
  BY <1>2, <1>3, <1>4
<1>6. (CHOOSE f \in DOMAIN Families : base \in Families[f]) = "FLOAT"
  BY <1>2, <1>5
<1> QED
  BY <1>2, <1>3, <1>6 DEF Family, base

(* A scalar of numpy's is the value, but for a NULL of a float32 column    *)
(* and for a boolean.                                                      *)
LEMMA ScalarIs ==
  ASSUME NEW x, NEW c, NEW i
  PROVE  LET v == x.rows[i][c] IN
         \/ Scalar(x, c, i) = v
         \/ v.kind = "null" /\ Single(x, c) /\ Scalar(x, c, i) = SingleNaN
         \/ v.kind = "boolean" /\ Scalar(x, c, i) = [v EXCEPT !.kind = "numpy"]
BY DEF Scalar

(* Of a float column on either side.                                       *)
LEMMA FloatScalars ==
  ASSUME NEW v \in Value, NEW w \in Value,
         v.kind \in {"number", "null"}, w.kind \in {"number", "null"},
         \A u \in {v, w} : (u.kind = "null" => u.reads = "nothing")
                           /\ (u.kind = "number" => u.bare # "nan"),
         NEW a, a = v \/ (v.kind = "null" /\ a = SingleNaN),
         NEW b, b = w \/ (w.kind = "null" /\ b = SingleNaN)
  PROVE  /\ Same(a, b) => Same(v, w)
         /\ Same(v, w) => Same(a, b) \/ (v.kind = "null" /\ (a = SingleNaN) # (b = SingleNaN))
<1>1. CASE v.kind = "null" /\ w.kind = "null"
  BY <1>1 DEF Same, ValuesEqual, SingleNaN
<1>2. CASE v.kind = "number" /\ w.kind = "number"
  BY <1>2
<1>3. CASE v.kind = "null" /\ w.kind = "number"
  BY <1>3 DEF Same, ValuesEqual, SingleNaN
<1>4. CASE v.kind = "number" /\ w.kind = "null"
  BY <1>4 DEF Same, ValuesEqual, SingleNaN
<1> QED
  BY <1>1, <1>2, <1>3, <1>4

(* Of a boolean column on both sides.                                      *)
LEMMA BooleanScalars ==
  ASSUME NEW v \in Value, NEW w \in Value,
         v.kind \in {"boolean", "null"}, w.kind \in {"boolean", "null"},
         \A u \in {v, w} : (u.kind = "null" => u.reads = "nothing")
                           /\ (u.kind = "boolean" => u.reads = "finite"),
         NEW a, a = v \/ (v.kind = "boolean" /\ a = [v EXCEPT !.kind = "numpy"]),
         NEW b, b = w \/ (w.kind = "boolean" /\ b = [w EXCEPT !.kind = "numpy"])
  PROVE  Same(a, b) <=> Same(v, w)
<1>1. /\ a.kind = (IF a = v THEN v.kind ELSE "numpy") /\ a.reads = v.reads /\ a.num = v.num
      /\ b.kind = (IF b = w THEN w.kind ELSE "numpy") /\ b.reads = w.reads /\ b.num = w.num
  BY DEF Value
<1>2. CASE v.kind = "null" /\ w.kind = "null"
  BY <1>2
<1>3. CASE v.kind = "boolean" /\ w.kind = "boolean"
  <2>1. \A m \in Int : Within(m, m, 1)
    BY ComparisonAssumption DEF Within, Abs
  <2>2. v.num \in Int /\ w.num \in Int
    BY DEF Value
  <2>3. Same(a, b) <=> Within(v.num, w.num, 1)
    BY <1>1, <1>3, <2>1, <2>2 DEF Same, ValuesEqual
  <2>4. Same(v, w) <=> Within(v.num, w.num, 1)
    BY <1>3, <2>1, <2>2 DEF Same, ValuesEqual
  <2> QED
    BY <2>3, <2>4
<1>4. CASE v.kind = "null" /\ w.kind = "boolean"
  BY <1>1, <1>4 DEF Same, ValuesEqual
<1>5. CASE v.kind = "boolean" /\ w.kind = "null"
  BY <1>1, <1>5 DEF Same, ValuesEqual
<1> QED
  BY <1>2, <1>3, <1>4, <1>5

(* Scalars that agree are of values that do, in columns of one family; in  *)
(* columns that are ScalarsAlike, and of such values only.                 *)
LEMMA ScalarsCompared ==
  ASSUME Taken, NEW i \in Positions(Src), NEW j \in Positions(Tgt), NEW c \in Compared
  PROVE  LET v == Src.rows[i][c]
             w == Tgt.rows[j][c]
         IN /\ Family(Src.type[c]) = Family(Tgt.type[c]) => (SameScalars(i, j, c) => Same(v, w))
            /\ /\ Single(Src, c) <=> Single(Tgt, c)
               /\ Family(Src.type[c]) = "BOOLEAN" <=> Family(Tgt.type[c]) = "BOOLEAN"
               => (SameScalars(i, j, c) <=> Same(v, w))
<1> DEFINE v == Src.rows[i][c]
           w == Tgt.rows[j][c]
           a == Scalar(Src, c, i)
           b == Scalar(Tgt, c, j)
           s == Src.type[c]
           t == Tgt.type[c]
<1>1. WellTyped(s, v) /\ WellTyped(t, w)
  BY TypedValues
<1>2. /\ \/ a = v
         \/ v.kind = "null" /\ Single(Src, c) /\ a = SingleNaN
         \/ v.kind = "boolean" /\ a = [v EXCEPT !.kind = "numpy"]
      /\ \/ b = w
         \/ w.kind = "null" /\ Single(Tgt, c) /\ b = SingleNaN
         \/ w.kind = "boolean" /\ b = [w EXCEPT !.kind = "numpy"]
  BY ScalarIs
<1>3. (Single(Src, c) => Family(s) = "FLOAT") /\ (Single(Tgt, c) => Family(t) = "FLOAT")
  BY SingleIsFloat
<1>4. SameScalars(i, j, c) <=> Same(a, b)
  BY DEF SameScalars
<1>5. v.kind = "null" => (Single(Src, c) <=> a = SingleNaN)
  BY <1>1 DEF Scalar, SingleNaN
<1>6. w.kind = "null" => (Single(Tgt, c) <=> b = SingleNaN)
  BY <1>1 DEF Scalar, SingleNaN
<1> HIDE DEF v, w, a, b, s, t
<1>7. CASE Family(s) = "FLOAT" /\ Family(t) = "FLOAT"
  <2>1. /\ Same(a, b) => Same(v, w)
        /\ Same(v, w) => Same(a, b) \/ (v.kind = "null" /\ (a = SingleNaN) # (b = SingleNaN))
    BY <1>1, <1>2, <1>7, FloatScalars DEF WellTyped
  <2>2. Same(v, w) /\ v.kind = "null" => w.kind = "null"
    BY <1>1, <1>7 DEF Same, ValuesEqual, WellTyped
  <2>3. (Single(Src, c) <=> Single(Tgt, c)) /\ Same(v, w) => Same(a, b)
    BY <1>5, <1>6, <2>1, <2>2
  <2> QED
    BY <1>4, <2>1, <2>3 DEF v, w, s, t
<1>8. CASE Family(s) = "BOOLEAN" /\ Family(t) = "BOOLEAN"
  <2>1. Same(a, b) <=> Same(v, w)
    BY <1>1, <1>2, <1>3, <1>8, BooleanScalars DEF WellTyped
  <2> QED
    BY <1>4, <2>1 DEF v, w, s, t
<1>9. CASE ~Single(Src, c) /\ ~Single(Tgt, c) /\ Family(s) # "BOOLEAN" /\ Family(t) # "BOOLEAN"
  <2>1. a = v /\ b = w
    BY <1>1, <1>2, <1>9 DEF WellTyped
  <2> QED
    BY <1>4, <2>1 DEF v, w, s, t
<1> QED
  BY <1>3, <1>7, <1>8, <1>9 DEF s, t

LEMMA ScalarsAgree ==
  ASSUME Taken, Vectorised, Trusted, NEW i \in Positions(Src), NEW j \in Positions(Tgt),
         NEW c \in Compared, SameScalars(i, j, c)
  PROVE  Same(Src.rows[i][c], Tgt.rows[j][c])
BY ScalarsCompared DEF Trusted, SameFamilies, ScalarsAlike

LEMMA ScalarsSame ==
  ASSUME Taken, Vectorised, ScalarsAlike, NEW i \in Positions(Src), NEW j \in Positions(Tgt),
         NEW c \in Compared
  PROVE  SameScalars(i, j, c) <=> Same(Src.rows[i][c], Tgt.rows[j][c])
BY ScalarsCompared DEF ScalarsAlike

(* So does the vectorised one, of columns it can be trusted with.          *)
LEMMA ColumnsMatch ==
  ASSUME Taken, Vectorised, Trusted, NEW P,
         P = {p \in Positions(Src) \X Positions(Tgt) : Beside(p[1], p[2])},
         {d \in P \X Compared : ~SameScalars(d[1][1], d[1][2], d[2])} = {}
  PROVE  Agree
<1>1. Len(Src.rows) \in Nat /\ Len(Tgt.rows) \in Nat
  BY ContextsAssumption DEF Taken, Src, Tgt
<1>2. /\ \A i, j \in Positions(Src) : SKey(i) = SKey(j) => i = j
      /\ \A i, j \in Positions(Tgt) : TKey(i) = TKey(j) => i = j
  BY <1>1, KeysFinite DEF Vectorised, SKey, TKey
<1>3. /\ \A i \in Positions(Src) : \E j \in Positions(Tgt) : SKey(i) = TKey(j)
      /\ \A j \in Positions(Tgt) : \E i \in Positions(Src) : SKey(i) = TKey(j)
  BY DEF Vectorised, Missing, Extra, Keys, SKey, TKey
<1>4. \A i, j : Beside(i, j) <=> SKey(i) = TKey(j)
  BY DEF Beside, SameKey, SKey, TKey
<1>5. /\ \A i \in Positions(Src) : \E j \in Positions(Tgt) : <<i, j>> \in P
      /\ \A j \in Positions(Tgt) : \E i \in Positions(Src) : <<i, j>> \in P
  BY <1>3, <1>4
<1>6. \A q, r \in P : q[1] = r[1] \/ q[2] = r[2] => q = r
  BY <1>2, <1>4
<1>7. \A q \in P : SameKey(q[1], q[2])
  BY DEF Beside
<1>8. \A q \in P : \A c \in Compared : Same(Src.rows[q[1]][c], Tgt.rows[q[2]][c])
  <2> SUFFICES ASSUME NEW q \in P, NEW c \in Compared
               PROVE  Same(Src.rows[q[1]][c], Tgt.rows[q[2]][c])
    OBVIOUS
  <2>1. <<q, c>> \in P \X Compared
    OBVIOUS
  <2>2. SameScalars(q[1], q[2], c)
    BY <2>1
  <2>3. q[1] \in Positions(Src) /\ q[2] \in Positions(Tgt)
    OBVIOUS
  <2> QED
    BY <2>2, <2>3, ScalarsAgree
<1>9. P \in SUBSET (Positions(Src) \X Positions(Tgt))
  OBVIOUS
<1>10. Matching(P)
  BY <1>5, <1>6, <1>7, <1>8 DEF Matching
<1> QED
  BY <1>9, <1>10 DEF Agree
------------------------------------------------------------------------------
(* A step leaves the context alone, and with it what is compared.          *)
LEMMA SameContext ==
  ASSUME ctx' = ctx
  PROVE  /\ Src' = Src /\ Tgt' = Tgt /\ Key' = Key
         /\ Keys(Src)' = Keys(Src) /\ Keys(Tgt)' = Keys(Tgt)
         /\ Positions(Src)' = Positions(Src) /\ Positions(Tgt)' = Positions(Tgt)
         /\ \A i : SKey(i)' = SKey(i) /\ TKey(i)' = TKey(i)
         /\ \A i, j : Unequal(i, j)' = Unequal(i, j)
         /\ Comparable' <=> Comparable
         /\ Vectorised' <=> Vectorised
         /\ Taken' <=> Taken
         /\ Agree' <=> Agree
         /\ Compared' = Compared
         /\ ScalarsAlike' <=> ScalarsAlike
         /\ Agreement' <=> Agreement
<1>1. Src' = Src /\ Tgt' = Tgt
  BY DEF Src, Tgt
<1>2. Key' = Key
  BY <1>1 DEF Key
<1>3. Keys(Src)' = Keys(Src) /\ Keys(Tgt)' = Keys(Tgt)
  BY <1>1, <1>2 DEF Keys
<1>4. Positions(Src)' = Positions(Src) /\ Positions(Tgt)' = Positions(Tgt)
  BY <1>1
<1>5. \A i : SKey(i)' = SKey(i) /\ TKey(i)' = TKey(i)
  BY <1>1, <1>2 DEF SKey, TKey
<1>6. Compared' = Compared
  BY <1>1, <1>2 DEF Compared
<1>7. \A i, j : Unequal(i, j)' = Unequal(i, j)
  BY <1>1, <1>6 DEF Unequal
<1>8. Comparable' <=> Comparable
  BY <1>1, <1>2 DEF Comparable
<1>9. Missing' = Missing /\ Extra' = Extra
  BY <1>3 DEF Missing, Extra
<1>10. (Unique(Src)' <=> Unique(Src)) /\ (Unique(Tgt)' <=> Unique(Tgt))
  BY <1>1, <1>3 DEF Unique
<1>11. Vectorised' <=> Vectorised
  BY <1>9, <1>10 DEF Vectorised
<1>12. Taken' <=> Taken
  BY DEF Taken
<1>13. \A i, j : SameKey(i, j)' <=> SameKey(i, j)
  BY <1>1, <1>2 DEF SameKey
<1>14. \A p : Matching(p)' <=> Matching(p)
  BY <1>1, <1>4, <1>6, <1>13 DEF Matching
<1>15. Agree' <=> Agree
  BY <1>4, <1>14 DEF Agree
<1>16. ScalarsAlike' <=> ScalarsAlike
  BY <1>1, <1>6, <1>11 DEF ScalarsAlike
<1>17. SameFamilies' <=> SameFamilies
  BY <1>1, <1>6 DEF SameFamilies
<1>18. Agreement' <=> Agreement
  BY <1>8, <1>15, <1>16, <1>17 DEF Agreement, Trusted
<1> QED
  BY <1>1, <1>2, <1>3, <1>4, <1>5, <1>6, <1>7, <1>8, <1>11, <1>12, <1>15, <1>16, <1>18

LEMMA InitIInv ==
  Init => IInv
<1> SUFFICES ASSUME Init PROVE IInv
  OBVIOUS
<1>1. Taken
  BY DEF Init, Taken
<1>2. TypeOK
  BY DEF Init, TypeOK, Checks, Statuses
<1>3. Fresh /\ Grouping /\ Columnwise
  BY DEF Init, Fresh, Grouping, Columnwise
<1>4. ResultsOK /\ ReportOK
  BY DEF Init, ResultsOK, ReportOK, Checks, RowChecks
<1> QED
  BY <1>1, <1>2, <1>3, <1>4 DEF IInv

(* What the end of a check keeps, whatever it was.                         *)
LEMMA ReturnKeeps ==
  ASSUME IInv, NEW check \in Checks, NEW status \in Statuses,
         pc = check \/ (check = "rows" /\ pc \in RowChecks \ {"schema"}),
         Return(check, status),
         check \in {"schema", "rows"} => status \in {"PASS", "FAIL", "ERROR"},
         check = "schema" => status # "ERROR",
         check = "schema" /\ status = "PASS" => SchemasMatch,
         check = "rows" /\ status = "PASS" => Agreement
  PROVE  /\ results' \in [Checks -> Statuses \cup {"none"}]
         /\ pc' \in Checks \cup {"overall"}
         /\ pc' = "rows" <=> check = "schema"
         /\ pc' # "schema"
         /\ report' \in Statuses \cup {"none"}
         /\ Taken' /\ ResultsOK' /\ ReportOK'
<1>1. ctx' = ctx /\ report' = report /\ pc' = After[check]
      /\ results' = [results EXCEPT ![check] = status]
  BY DEF Return
<1>2. results' \in [Checks -> Statuses \cup {"none"}]
  BY <1>1 DEF IInv, TypeOK
<1>3. /\ pc' \in Checks \cup {"overall"}
      /\ pc' = "rows" <=> check = "schema"
      /\ pc' # "schema"
  BY <1>1 DEF Checks, After
<1>4. report' \in Statuses \cup {"none"}
  BY <1>1 DEF IInv, TypeOK
<1>5. Taken'
  BY <1>1, SameContext DEF IInv
<1>6. /\ results'["schema"] = IF check = "schema" THEN status ELSE results["schema"]
      /\ results'["rows"] = IF check = "rows" THEN status ELSE results["rows"]
  BY <1>1 DEF IInv, TypeOK, Checks
<1>7. SchemasMatch' <=> SchemasMatch
  BY <1>1, SameContext DEF SchemasMatch
<1>8. Agreement' <=> Agreement
  BY <1>1, SameContext
<1>9. status # "none"
  BY DEF Statuses
<1>10. ResultsOK'
  BY <1>1, <1>3, <1>6, <1>7, <1>8, <1>9 DEF IInv, ResultsOK, RowChecks, Checks
<1>11. pc # "done" /\ report = "none"
  BY DEF IInv, ReportOK, RowChecks, Checks
<1>12. ReportOK'
  BY <1>1, <1>11 DEF ReportOK
<1> QED
  BY <1>2, <1>3, <1>4, <1>5, <1>10, <1>12

(* Past the rows nothing about them is said of pc, and nothing they left   *)
(* behind changes.                                                         *)
LEMMA LaterKeeps ==
  ASSUME IInv, ctx' = ctx, UNCHANGED <<mism, todo, group>>,
         pc' \in {"aggregates", "rules", "edges", "overall", "done"}
  PROVE  /\ Fresh' /\ Grouping' /\ Columnwise'
         /\ mism' \in Nat
         /\ todo' \subseteq Keys(Src)'
         /\ (left \cup spare)' \subseteq Positions(Src)' /\ open' \subseteq Positions(Tgt)'
         /\ pairs' \subseteq Positions(Src)' \X Positions(Tgt)'
<1>1. Fresh' /\ Grouping' /\ Columnwise'
  BY DEF Fresh, Grouping, Columnwise
<1>2. mism' = mism /\ todo' = todo /\ left' = left /\ spare' = spare /\ open' = open
      /\ pairs' = pairs
  BY DEF group
<1> QED
  BY <1>1, <1>2, SameContext DEF IInv, TypeOK

LEMMA SkipKeeps ==
  ASSUME IInv, NEW check \in Checks, Skip(check)
  PROVE  IInv'
<1>1. /\ pc = check /\ check \notin ctx.enabled /\ pc' = After[check]
      /\ ctx' = ctx /\ results' = results /\ report' = report
      /\ mism' = mism /\ todo' = todo /\ left' = left /\ spare' = spare
      /\ open' = open /\ pairs' = pairs
  BY DEF Skip, group
<1>2. pc' \in {"rows", "aggregates", "rules", "edges", "overall"}
      /\ (pc' = "rows" <=> check = "schema")
  BY <1>1 DEF After, Checks
<1>3. Taken'
  BY <1>1, SameContext DEF IInv
<1>4. TypeOK'
  BY <1>1, <1>2, SameContext DEF IInv, TypeOK, Checks
<1>5. Fresh'
  BY <1>1, <1>2 DEF IInv, Fresh
<1>6. Grouping' /\ Columnwise'
  BY <1>2 DEF Grouping, Columnwise
<1>7. SchemasMatch' <=> SchemasMatch
  BY <1>1, SameContext DEF SchemasMatch
<1>8. ResultsOK'
  BY <1>1, <1>2, <1>7, SameContext DEF IInv, ResultsOK, RowChecks, Checks
<1>9. pc # "done"
  BY <1>1 DEF Checks
<1>10. ReportOK'
  BY <1>1, <1>9 DEF IInv, ReportOK
<1> QED
  BY <1>3, <1>4, <1>5, <1>6, <1>8, <1>10 DEF IInv

LEMMA SchemaKeeps ==
  ASSUME IInv, CheckSchema
  PROVE  IInv'
<1>1. pc = "schema" /\ UNCHANGED <<mism, todo, group>>
  BY DEF CheckSchema, Enabled
<1>2. PICK status \in {"PASS", "FAIL"} :
        Return("schema", status) /\ (status = "PASS" => SchemasMatch)
  BY DEF CheckSchema, Verdict, SchemasMatch
<1>3. "schema" \in Checks /\ status \in Statuses
  BY <1>2 DEF Checks, Statuses
<1>4. /\ results' \in [Checks -> Statuses \cup {"none"}]
      /\ pc' = "rows"
      /\ report' \in Statuses \cup {"none"}
      /\ Taken' /\ ResultsOK' /\ ReportOK'
  BY <1>1, <1>2, <1>3, ReturnKeeps
<1>5. /\ ctx' = ctx /\ mism' = mism /\ todo' = todo /\ left' = left /\ spare' = spare
      /\ open' = open /\ pairs' = pairs
  BY <1>1, <1>2 DEF Return, group
<1>6. TypeOK'
  BY <1>4, <1>5, SameContext DEF IInv, TypeOK, Checks
<1>7. Fresh'
  BY <1>1, <1>5 DEF IInv, Fresh
<1>8. Grouping' /\ Columnwise'
  BY <1>4 DEF Grouping, Columnwise
<1> QED
  BY <1>4, <1>6, <1>7, <1>8 DEF IInv

(* The checks that follow the rows, and the row comparison's own ending.   *)
LEMMA CheckKeeps ==
  ASSUME IInv, NEW check \in Checks \ {"schema"}, NEW status \in Statuses,
         pc = check \/ (check = "rows" /\ pc \in RowChecks \ {"schema"}),
         Return(check, status), UNCHANGED <<mism, todo, group>>,
         check = "rows" => status \in {"PASS", "FAIL", "ERROR"},
         check = "rows" /\ status = "PASS" => Agreement
  PROVE  IInv'
<1>1. /\ results' \in [Checks -> Statuses \cup {"none"}]
      /\ pc' \in (Checks \cup {"overall"}) \ {"schema", "rows"}
      /\ report' \in Statuses \cup {"none"}
      /\ Taken' /\ ResultsOK' /\ ReportOK'
  BY ReturnKeeps
<1>2. ctx' = ctx
  BY DEF Return
<1>3. /\ Fresh' /\ Grouping' /\ Columnwise'
      /\ mism' \in Nat
      /\ todo' \subseteq Keys(Src)'
      /\ (left \cup spare)' \subseteq Positions(Src)' /\ open' \subseteq Positions(Tgt)'
      /\ pairs' \subseteq Positions(Src)' \X Positions(Tgt)'
  BY <1>1, <1>2, LaterKeeps DEF Checks
<1>4. TypeOK'
  BY <1>1, <1>3 DEF TypeOK
<1> QED
  BY <1>1, <1>3, <1>4 DEF IInv

(* Inside the row comparison no check returns and nothing is reported.     *)
LEMMA RowsKeep ==
  ASSUME IInv, ctx' = ctx, UNCHANGED <<results, report>>,
         pc \in RowChecks \ {"schema"}, pc' \in {"columns", "groups", "match"}
  PROVE  /\ results' \in [Checks -> Statuses \cup {"none"}]
         /\ pc' \in Checks \cup {"columns", "groups", "match", "overall", "done"}
         /\ report' \in Statuses \cup {"none"}
         /\ Taken' /\ Fresh' /\ ResultsOK' /\ ReportOK'
<1>1. Taken' /\ (Agreement' <=> Agreement)
  BY SameContext DEF IInv
<1>2. SchemasMatch' <=> SchemasMatch
  BY SameContext DEF SchemasMatch
<1>3. ResultsOK'
  BY <1>1, <1>2 DEF IInv, ResultsOK, RowChecks
<1>4. ReportOK'
  BY DEF IInv, ReportOK, RowChecks
<1>5. Fresh'
  BY DEF Fresh
<1> QED
  BY <1>1, <1>3, <1>4, <1>5 DEF IInv, TypeOK

LEMMA KeysKeep ==
  ASSUME IInv, CompareKeys
  PROVE  IInv'
<1>1. /\ pc = "rows" /\ Comparable /\ ctx' = ctx /\ UNCHANGED <<results, report>>
      /\ mism' = Cardinality(Missing) + Cardinality(Extra)
      /\ left' = left /\ spare' = spare /\ open' = open /\ pairs' = pairs
  BY DEF CompareKeys, Enabled, group
<1>2. \/ pc' = "columns" /\ todo' = {} /\ Vectorised
      \/ pc' = "groups" /\ todo' = Keys(Src) \cap Keys(Tgt)
  BY DEF CompareKeys
<1>3. left = {} /\ spare = {} /\ open = {} /\ pairs = {}
  BY <1>1 DEF IInv, Fresh
<1>4. /\ results' \in [Checks -> Statuses \cup {"none"}]
      /\ pc' \in Checks \cup {"columns", "groups", "match", "overall", "done"}
      /\ report' \in Statuses \cup {"none"}
      /\ Taken' /\ Fresh' /\ ResultsOK' /\ ReportOK'
  BY <1>1, <1>2, RowsKeep DEF RowChecks
<1>5. /\ Cardinality(Missing) \in Nat /\ (Cardinality(Missing) = 0 => Missing = {})
      /\ Cardinality(Extra) \in Nat /\ (Cardinality(Extra) = 0 => Extra = {})
  BY NoKeyMismatch DEF IInv
<1>6. mism' \in Nat /\ (mism' = 0 => Missing = {} /\ Extra = {})
  BY <1>1, <1>5
<1>7. TypeOK'
  BY <1>1, <1>2, <1>3, <1>4, <1>6, SameContext DEF TypeOK
<1>8. Columnwise'
  BY <1>1, <1>2, SameContext DEF Columnwise
<1>9. ASSUME pc' = "groups"
      PROVE  Accounted'
  <2>1. todo' = Keys(Src) \cap Keys(Tgt)
    BY <1>2, <1>9
  <2>2. ASSUME mism' = 0
        PROVE  /\ \A i \in Positions(Src) : SKey(i) \in todo'
               /\ \A j \in Positions(Tgt) : TKey(j) \in todo'
    BY <1>6, <2>1, <2>2 DEF Missing, Extra, Keys, SKey, TKey
  <2> QED
    BY <1>1, <2>2, SameContext DEF Accounted
<1>10. GroupOK' /\ PairsOK'
  BY <1>1, <1>3 DEF GroupOK, PairsOK
<1>11. Grouping'
  BY <1>1, <1>2, <1>3, <1>9, <1>10, SameContext DEF Grouping
<1> QED
  BY <1>4, <1>7, <1>8, <1>11 DEF IInv

LEMMA ColumnsKeep ==
  ASSUME IInv, CompareColumns
  PROVE  IInv'
<1> DEFINE differ == {d \in pairs' \X Compared : ~SameScalars(d[1][1], d[1][2], d[2])}
<1>1. /\ pc = "columns"
      /\ pairs' = {p \in Positions(Src) \X Positions(Tgt) : Beside(p[1], p[2])}
      /\ mism' = mism + Cardinality(differ)
      /\ Return("rows", Verdict(mism'))
      /\ UNCHANGED <<todo, left, spare, open>>
  BY DEF CompareColumns
<1>2. Taken /\ Comparable /\ Vectorised /\ mism \in Nat
  BY <1>1 DEF IInv, Columnwise, TypeOK
<1>3. Cardinality(differ) \in Nat /\ (Cardinality(differ) = 0 => differ = {})
  <2>1. IsFiniteSet(Positions(Src) \X Positions(Tgt))
    BY <1>2, FramesFinite, FS_Product
  <2>2. pairs' \subseteq Positions(Src) \X Positions(Tgt)
    BY <1>1
  <2>3. IsFiniteSet(pairs')
    BY <2>1, <2>2, FS_Subset
  <2>4. IsFiniteSet(pairs' \X Compared)
    BY <1>2, <2>3, DifferencesFinite, FS_Product
  <2>5. differ \subseteq pairs' \X Compared
    OBVIOUS
  <2> HIDE DEF differ
  <2> QED
    BY <2>4, <2>5, SubsetEmpty
<1>4. mism' \in Nat /\ (mism' = 0 => differ = {})
  <2> HIDE DEF differ
  <2> QED
    BY <1>1, <1>2, <1>3
<1>5. mism' = 0 => Agreement
  BY <1>1, <1>2, <1>4, ColumnsMatch DEF Agreement
<1>6. Verdict(mism') \in {"PASS", "FAIL"} /\ (Verdict(mism') = "PASS" => mism' = 0)
  BY DEF Verdict
<1>7. PICK status \in {"PASS", "FAIL"} :
        Return("rows", status) /\ (status = "PASS" => Agreement)
  BY <1>1, <1>2, <1>5, <1>6
<1>8. /\ results' \in [Checks -> Statuses \cup {"none"}]
      /\ pc' \in Checks \cup {"overall"} /\ pc' \notin {"schema", "rows"}
      /\ report' \in Statuses \cup {"none"}
      /\ Taken' /\ ResultsOK' /\ ReportOK'
  <2>1. "rows" \in Checks /\ status \in Statuses /\ pc \in RowChecks \ {"schema"}
    BY <1>1 DEF Checks, Statuses, RowChecks
  <2> QED
    BY <1>7, <2>1, ReturnKeeps
<1>9. ctx' = ctx
  BY <1>7 DEF Return
<1>10. TypeOK'
  BY <1>1, <1>4, <1>8, <1>9, SameContext DEF IInv, TypeOK
<1>11. Fresh' /\ Grouping' /\ Columnwise'
  BY <1>8 DEF Fresh, Grouping, Columnwise, Checks
<1> QED
  BY <1>8, <1>10, <1>11 DEF IInv
------------------------------------------------------------------------------
(* The steps of the grouped comparison.  Each moves rows between the       *)
(* groups to come, the group at hand and the pairs.                        *)
LEMMA MatchingKeeps ==
  ASSUME IInv, ctx' = ctx, UNCHANGED <<results, report>>,
         pc \in {"groups", "match"}, pc' \in {"groups", "match"},
         mism' \in Nat, todo' \subseteq todo,
         left' \cup spare' \subseteq Positions(Src), open' \subseteq Positions(Tgt),
         pairs' \subseteq Positions(Src) \X Positions(Tgt),
         GroupOK', PairsOK', Accounted',
         pc' = "groups" => left' = {} /\ spare' = {} /\ open' = {}
  PROVE  IInv'
<1>1. /\ results' \in [Checks -> Statuses \cup {"none"}]
      /\ pc' \in Checks \cup {"columns", "groups", "match", "overall", "done"}
      /\ report' \in Statuses \cup {"none"}
      /\ Taken' /\ Fresh' /\ ResultsOK' /\ ReportOK'
  BY RowsKeep DEF RowChecks
<1>2. TypeOK'
  BY <1>1, SameContext DEF IInv, TypeOK
<1>3. Comparable'
  BY SameContext DEF IInv, Grouping
<1>4. Grouping' /\ Columnwise'
  BY <1>3 DEF Grouping, Columnwise
<1> QED
  BY <1>1, <1>2, <1>4 DEF IInv

LEMMA OpenKeeps ==
  ASSUME IInv, NEW k \in todo, OpenGroup(k)
  PROVE  IInv'
<1>1. /\ pc = "groups" /\ pc' = "match" /\ ctx' = ctx /\ UNCHANGED <<results, report>>
      /\ todo' = todo \ {k} /\ left' = Group(Src, k) /\ spare' = {} /\ open' = Group(Tgt, k)
      /\ mism' = mism /\ pairs' = pairs
  BY DEF OpenGroup
<1>2. /\ TypeOK /\ GroupOK /\ PairsOK /\ Accounted
      /\ left = {} /\ spare = {} /\ open = {}
  BY <1>1 DEF IInv, Grouping
<1>3. /\ \A i : i \in left' <=> i \in Positions(Src) /\ SKey(i) = k
      /\ \A j : j \in open' <=> j \in Positions(Tgt) /\ TKey(j) = k
  BY <1>1 DEF Group, SKey, TKey
<1>4. /\ \A i : SKey(i)' = SKey(i) /\ TKey(i)' = TKey(i)
      /\ \A i, j : Unequal(i, j)' = Unequal(i, j)
      /\ Positions(Src)' = Positions(Src) /\ Positions(Tgt)' = Positions(Tgt)
  BY <1>1, SameContext
<1>5. GroupOK'
  BY <1>1, <1>2, <1>3, <1>4 DEF GroupOK, PairsOK
<1>6. PairsOK'
  BY <1>1, <1>2, <1>4 DEF PairsOK
<1>7. Accounted'
  BY <1>1, <1>2, <1>3, <1>4 DEF Accounted
<1>8. /\ mism' \in Nat /\ todo' \subseteq todo
      /\ left' \cup spare' \subseteq Positions(Src) /\ open' \subseteq Positions(Tgt)
      /\ pairs' \subseteq Positions(Src) \X Positions(Tgt)
  BY <1>1, <1>2, <1>3 DEF TypeOK
<1> QED
  BY <1>1, <1>5, <1>6, <1>7, <1>8, MatchingKeeps

(* A row of the source in the group is paired with one of the target, at   *)
(* the cost of the columns they differ in.                                 *)
LEMMA PairingKeeps ==
  ASSUME IInv, ctx' = ctx, UNCHANGED <<results, report, todo>>,
         pc = "match", pc' = "match",
         NEW i \in left \cup spare, NEW j \in open,
         left' = left \ {i}, spare' = spare \ {i}, open' = open \ {j},
         pairs' = pairs \cup {<<i, j>>},
         mism' = mism + Cardinality(Unequal(i, j))
  PROVE  IInv'
<1>1. TypeOK /\ GroupOK /\ PairsOK /\ Accounted /\ Taken
  BY DEF IInv, Grouping
<1>2. i \in Positions(Src) /\ j \in Positions(Tgt) /\ mism \in Nat
  BY <1>1 DEF TypeOK
<1>3. /\ \A x : SKey(x)' = SKey(x) /\ TKey(x)' = TKey(x)
      /\ \A x, y : Unequal(x, y)' = Unequal(x, y)
      /\ Positions(Src)' = Positions(Src) /\ Positions(Tgt)' = Positions(Tgt)
  BY SameContext
<1>4. /\ Cardinality(Unequal(i, j)) \in Nat
      /\ Cardinality(Unequal(i, j)) = 0 => Unequal(i, j) = {}
  BY <1>1, DifferencesFinite, FS_EmptySet
<1>5. mism' \in Nat /\ (mism' = 0 => mism = 0 /\ Unequal(i, j) = {})
  BY <1>2, <1>4
<1>6. \A p \in pairs' : p \in pairs \/ (p[1] = i /\ p[2] = j /\ p = <<i, j>>)
  OBVIOUS
<1>7. GroupOK'
  <2>1. (left' \cup spare') \subseteq (left \cup spare) \ {i} /\ open' \subseteq open \ {j}
    OBVIOUS
  <2>2. left' \cap spare' = {}
    BY <1>1 DEF GroupOK
  <2>3. \A x \in left' \cup spare' : SKey(x) \notin todo /\ \A p \in pairs' : p[1] # x
    BY <1>1, <1>6, <2>1 DEF GroupOK
  <2>4. \A y \in open' : TKey(y) \notin todo /\ \A p \in pairs' : p[2] # y
    BY <1>1, <1>6, <2>1 DEF GroupOK
  <2>5. \A x \in left' \cup spare' : \A y \in open' : SKey(x) = TKey(y)
    BY <1>1, <2>1 DEF GroupOK
  <2> QED
    BY <1>3, <2>2, <2>3, <2>4, <2>5 DEF GroupOK
<1>8. PairsOK'
  <2>1. \A p \in pairs' : SKey(p[1]) = TKey(p[2]) /\ SKey(p[1]) \notin todo
    BY <1>1, <1>6 DEF GroupOK, PairsOK
  <2>2. \A p, q \in pairs' : p[1] = q[1] \/ p[2] = q[2] => p = q
    BY <1>1, <1>6 DEF GroupOK, PairsOK
  <2>3. mism' = 0 => \A p \in pairs' : Unequal(p[1], p[2]) = {}
    BY <1>1, <1>5, <1>6 DEF PairsOK
  <2> QED
    BY <1>3, <2>1, <2>2, <2>3 DEF PairsOK
<1>9. Accounted'
  <2>1. ASSUME mism' = 0
        PROVE  /\ \A x \in Positions(Src) :
                    \/ SKey(x) \in todo \/ x \in left' \cup spare'
                    \/ \E y \in Positions(Tgt) : <<x, y>> \in pairs'
               /\ \A y \in Positions(Tgt) :
                    \/ TKey(y) \in todo \/ y \in open'
                    \/ \E x \in Positions(Src) : <<x, y>> \in pairs'
    BY <1>1, <1>2, <1>5, <2>1 DEF Accounted
  <2> QED
    BY <1>3, <2>1 DEF Accounted
<1>10. /\ left' \cup spare' \subseteq Positions(Src) /\ open' \subseteq Positions(Tgt)
       /\ pairs' \subseteq Positions(Src) \X Positions(Tgt)
  BY <1>1, <1>2 DEF TypeOK
<1> QED
  BY <1>5, <1>7, <1>8, <1>9, <1>10, MatchingKeeps

LEMMA PairExactKeeps ==
  ASSUME IInv, NEW i \in left, NEW j \in open, PairExact(i, j)
  PROVE  IInv'
<1>1. /\ pc = "match" /\ pc' = "match" /\ ctx' = ctx /\ UNCHANGED <<results, report, todo>>
      /\ Unequal(i, j) = {}
      /\ left' = left \ {i} /\ spare' = spare /\ open' = open \ {j}
      /\ pairs' = pairs \cup {<<i, j>>} /\ mism' = mism
  BY DEF PairExact, Least, Exact
<1>2. mism \in Nat /\ left \cap spare = {}
  BY <1>1 DEF IInv, TypeOK, Grouping, GroupOK
<1>3. mism' = mism + Cardinality(Unequal(i, j))
  BY <1>1, <1>2, FS_EmptySet
<1>4. spare' = spare \ {i}
  BY <1>1, <1>2
<1> QED
  BY <1>1, <1>3, <1>4, PairingKeeps

LEMMA PairClosestKeeps ==
  ASSUME IInv, NEW i \in spare, NEW j \in open, PairClosest(i, j)
  PROVE  IInv'
<1>1. /\ pc = "match" /\ pc' = "match" /\ ctx' = ctx /\ UNCHANGED <<results, report, todo>>
      /\ left = {} /\ left' = left /\ spare' = spare \ {i} /\ open' = open \ {j}
      /\ pairs' = pairs \cup {<<i, j>>} /\ mism' = mism + Cardinality(Unequal(i, j))
  BY DEF PairClosest
<1>2. left' = left \ {i}
  BY <1>1
<1> QED
  BY <1>1, <1>2, PairingKeeps

LEMMA PassOverKeeps ==
  ASSUME IInv, NEW i \in left, PassOver(i)
  PROVE  IInv'
<1>1. /\ pc = "match" /\ pc' = "match" /\ ctx' = ctx /\ UNCHANGED <<results, report>>
      /\ left' = left \ {i} /\ spare' = spare \cup {i}
      /\ mism' = mism /\ todo' = todo /\ open' = open /\ pairs' = pairs
  BY DEF PassOver
<1>2. TypeOK /\ GroupOK /\ PairsOK /\ Accounted
  BY <1>1 DEF IInv, Grouping
<1>3. /\ \A x : SKey(x)' = SKey(x) /\ TKey(x)' = TKey(x)
      /\ \A x, y : Unequal(x, y)' = Unequal(x, y)
      /\ Positions(Src)' = Positions(Src) /\ Positions(Tgt)' = Positions(Tgt)
  BY <1>1, SameContext
<1>4. left' \cup spare' = left \cup spare /\ left' \cap spare' = {}
  BY <1>1, <1>2 DEF GroupOK
<1>5. GroupOK'
  BY <1>1, <1>2, <1>3, <1>4 DEF GroupOK
<1>6. PairsOK'
  BY <1>1, <1>2, <1>3 DEF PairsOK
<1>7. Accounted'
  BY <1>1, <1>2, <1>3, <1>4 DEF Accounted
<1>8. /\ mism' \in Nat /\ todo' \subseteq todo
      /\ left' \cup spare' \subseteq Positions(Src) /\ open' \subseteq Positions(Tgt)
      /\ pairs' \subseteq Positions(Src) \X Positions(Tgt)
  BY <1>1, <1>2, <1>4 DEF TypeOK
<1> QED
  BY <1>1, <1>5, <1>6, <1>7, <1>8, MatchingKeeps

LEMMA CloseKeeps ==
  ASSUME IInv, CloseGroup
  PROVE  IInv'
<1>1. /\ pc = "match" /\ pc' = "groups" /\ ctx' = ctx /\ UNCHANGED <<results, report>>
      /\ left = {} /\ left' = {} /\ spare' = {} /\ open' = {}
      /\ todo' = todo /\ pairs' = pairs
      /\ mism' = mism + Cardinality(spare) + Cardinality(open)
  BY DEF CloseGroup
<1>2. TypeOK /\ PairsOK /\ Accounted /\ Taken
  BY <1>1 DEF IInv, Grouping
<1>3. /\ Cardinality(spare) \in Nat /\ (Cardinality(spare) = 0 => spare = {})
      /\ Cardinality(open) \in Nat /\ (Cardinality(open) = 0 => open = {})
  <2>1. spare \subseteq Positions(Src) /\ open \subseteq Positions(Tgt)
    BY <1>2 DEF TypeOK
  <2> QED
    BY <1>2, <2>1, FramesFinite, SubsetEmpty
<1>4. mism' \in Nat /\ (mism' = 0 => mism = 0 /\ spare = {} /\ open = {})
  BY <1>1, <1>2, <1>3 DEF TypeOK
<1>5. /\ \A x : SKey(x)' = SKey(x) /\ TKey(x)' = TKey(x)
      /\ \A x, y : Unequal(x, y)' = Unequal(x, y)
      /\ Positions(Src)' = Positions(Src) /\ Positions(Tgt)' = Positions(Tgt)
  BY <1>1, SameContext
<1>6. GroupOK'
  BY <1>1 DEF GroupOK
<1>7. PairsOK'
  BY <1>1, <1>2, <1>4, <1>5 DEF PairsOK
<1>8. Accounted'
  BY <1>1, <1>2, <1>4, <1>5 DEF Accounted
<1>9. /\ todo' \subseteq todo
      /\ left' \cup spare' \subseteq Positions(Src) /\ open' \subseteq Positions(Tgt)
      /\ pairs' \subseteq Positions(Src) \X Positions(Tgt)
  BY <1>1, <1>2 DEF TypeOK
<1> QED
  BY <1>1, <1>4, <1>6, <1>7, <1>8, <1>9, MatchingKeeps

LEMMA ComparedKeeps ==
  ASSUME IInv, RowsIncomparable \/ RowsCompared
  PROVE  IInv'
<1>1. "rows" \in Checks \ {"schema"}
  BY DEF Checks
<1>2. CASE RowsIncomparable
  <2>1. pc = "rows" /\ Return("rows", "ERROR") /\ UNCHANGED <<mism, todo, group>>
    BY <1>2 DEF RowsIncomparable, Enabled
  <2>2. "ERROR" \in Statuses
    BY DEF Statuses
  <2> QED
    BY <1>1, <2>1, <2>2, CheckKeeps
<1>3. CASE RowsCompared
  <2>1. /\ pc = "groups" /\ todo = {} /\ Return("rows", Verdict(mism))
        /\ UNCHANGED <<mism, todo, group>>
    BY <1>3 DEF RowsCompared
  <2>2. /\ TypeOK /\ PairsOK /\ Accounted /\ Comparable
        /\ left = {} /\ spare = {} /\ open = {}
    BY <2>1 DEF IInv, Grouping
  <2>3. mism = 0 => Agreement
    BY <2>1, <2>2, GroupsMatch DEF Agreement
  <2>4. PICK status \in {"PASS", "FAIL"} :
          Return("rows", status) /\ (status = "PASS" => Agreement)
    BY <2>1, <2>2, <2>3 DEF Verdict
  <2>5. status \in Statuses /\ pc \in RowChecks \ {"schema"}
    BY <2>1 DEF Statuses, RowChecks
  <2> QED
    BY <1>1, <2>1, <2>4, <2>5, CheckKeeps
<1> QED
  BY <1>2, <1>3
------------------------------------------------------------------------------
LEMMA LaterChecksKeep ==
  ASSUME IInv, CheckAggregates \/ CheckEdges \/ \E s \in Statuses : CheckRules(s)
  PROVE  IInv'
<1>1. {"aggregates", "rules", "edges"} \subseteq Checks \ {"schema"}
  BY DEF Checks
<1>2. {"PASS", "FAIL", "ERROR", "SKIPPED"} \subseteq Statuses
  BY DEF Statuses
<1>3. PICK check \in {"aggregates", "rules", "edges"},
           status \in {"PASS", "FAIL", "ERROR", "SKIPPED"} :
        pc = check /\ Return(check, status) /\ UNCHANGED <<mism, todo, group>>
  <2>1. CASE CheckAggregates
    <3>1. pc = "aggregates" /\ UNCHANGED <<mism, todo, group>>
      BY <2>1 DEF CheckAggregates, Enabled
    <3>2. \E s \in {"PASS", "FAIL", "ERROR"} : Return("aggregates", s)
      BY <2>1 DEF CheckAggregates
    <3> QED
      BY <3>1, <3>2
  <2>2. CASE CheckEdges
    <3>1. pc = "edges" /\ UNCHANGED <<mism, todo, group>>
      BY <2>2 DEF CheckEdges, Enabled
    <3>2. \E s \in {"PASS", "FAIL", "SKIPPED"} : Return("edges", s)
      BY <2>2 DEF CheckEdges, Verdict
    <3> QED
      BY <3>1, <3>2
  <2>3. CASE \E s \in Statuses : CheckRules(s)
    <3>1. PICK s \in Statuses : CheckRules(s)
      BY <2>3
    <3>2. pc = "rules" /\ Return("rules", s) /\ UNCHANGED <<mism, todo, group>>
          /\ s \in {"PASS", "FAIL", "ERROR", "SKIPPED"}
      BY <3>1 DEF CheckRules, Enabled
    <3> QED
      BY <3>2
  <2> QED
    BY <2>1, <2>2, <2>3
<1>4. check \in Checks \ {"schema"} /\ check # "rows" /\ status \in Statuses
  BY <1>1, <1>2
<1> QED
  BY <1>3, <1>4, CheckKeeps

LEMMA AggregateKeeps ==
  ASSUME IInv, Aggregate
  PROVE  IInv'
<1>1. /\ pc = "overall" /\ pc' = "done" /\ ctx' = ctx /\ report' = Overall
      /\ results' = results /\ UNCHANGED <<mism, todo, group>>
  BY DEF Aggregate
<1>2. \A status : Returned(status)' <=> Returned(status)
  BY <1>1 DEF Returned
<1>3. /\ report' \in Statuses \cup {"none"}
      /\ report' = "PASS" => ~Returned("FAIL") /\ ~Returned("ERROR")
  BY <1>1 DEF Overall, Statuses
<1>4. ReportOK'
  BY <1>1, <1>2, <1>3 DEF ReportOK
<1>5. /\ Taken' /\ (Agreement' <=> Agreement)
      /\ (SchemasMatch' <=> SchemasMatch)
  BY <1>1, SameContext DEF IInv, SchemasMatch
<1>6. ResultsOK'
  BY <1>1, <1>5 DEF IInv, ResultsOK, RowChecks
<1>7. /\ Fresh' /\ Grouping' /\ Columnwise'
      /\ mism' \in Nat
      /\ todo' \subseteq Keys(Src)'
      /\ (left \cup spare)' \subseteq Positions(Src)' /\ open' \subseteq Positions(Tgt)'
      /\ pairs' \subseteq Positions(Src)' \X Positions(Tgt)'
  BY <1>1, LaterKeeps
<1>8. TypeOK'
  BY <1>1, <1>3, <1>7 DEF IInv, TypeOK
<1> QED
  BY <1>4, <1>5, <1>6, <1>7, <1>8 DEF IInv

LEMMA StutterKeeps ==
  ASSUME IInv, UNCHANGED vars
  PROVE  IInv'
<1>1. /\ ctx' = ctx /\ pc' = pc /\ results' = results /\ mism' = mism /\ todo' = todo
      /\ left' = left /\ spare' = spare /\ open' = open /\ pairs' = pairs /\ report' = report
  BY DEF vars
<1>2. Taken' /\ (SchemasMatch' <=> SchemasMatch)
  BY <1>1, SameContext DEF IInv, SchemasMatch
<1>3. TypeOK'
  BY <1>1, SameContext DEF IInv, TypeOK
<1>4. GroupOK' <=> GroupOK
  BY <1>1, SameContext DEF GroupOK
<1>5. PairsOK' <=> PairsOK
  BY <1>1, SameContext DEF PairsOK
<1>6. Accounted' <=> Accounted
  BY <1>1, SameContext DEF Accounted
<1>7. Fresh' /\ Grouping' /\ Columnwise'
  BY <1>1, <1>4, <1>5, <1>6, SameContext DEF IInv, Fresh, Grouping, Columnwise
<1>8. ResultsOK'
  BY <1>1, <1>2, SameContext DEF IInv, ResultsOK
<1>9. ReportOK'
  BY <1>1 DEF IInv, ReportOK, Returned
<1> QED
  BY <1>2, <1>3, <1>7, <1>8, <1>9 DEF IInv

LEMMA NextIInv ==
  IInv /\ [Next]_vars => IInv'
<1> SUFFICES ASSUME IInv, [Next]_vars PROVE IInv'
  OBVIOUS
<1>1. CASE \E c \in Checks : Skip(c)
  BY <1>1, SkipKeeps
<1>2. CASE CheckSchema
  BY <1>2, SchemaKeeps
<1>3. CASE CheckRows
  <2>1. CASE RowsIncomparable \/ RowsCompared
    BY <2>1, ComparedKeeps
  <2>2. CASE CompareKeys
    BY <2>2, KeysKeep
  <2>3. CASE CompareColumns
    BY <2>3, ColumnsKeep
  <2>4. CASE \E k \in todo : OpenGroup(k)
    BY <2>4, OpenKeeps
  <2>5. CASE MatchRows
    BY <2>5, PairExactKeeps, PassOverKeeps, PairClosestKeeps, CloseKeeps DEF MatchRows
  <2> QED
    BY <1>3, <2>1, <2>2, <2>3, <2>4, <2>5 DEF CheckRows
<1>4. CASE CheckAggregates \/ CheckEdges \/ \E s \in Statuses : CheckRules(s)
  BY <1>4, LaterChecksKeep
<1>5. CASE Aggregate
  BY <1>5, AggregateKeeps
<1>6. CASE UNCHANGED vars
  BY <1>6, StutterKeeps
<1> QED
  BY <1>1, <1>2, <1>3, <1>4, <1>5, <1>6 DEF Next

LEMMA IInvPassIsAgreement ==
  IInv => PassIsAgreement
<1> SUFFICES ASSUME IInv, report = "PASS", {"schema", "rows"} \subseteq ctx.enabled
             PROVE  /\ Comparable /\ Agree
                    /\ Range(Src.names) = Range(Tgt.names)
                    /\ \A c \in Range(Src.names) : Family(Src.type[c]) = Family(Tgt.type[c])
  BY DEF PassIsAgreement
<1>1. pc = "done" /\ ~Returned("FAIL") /\ ~Returned("ERROR")
  BY DEF IInv, ReportOK
<1>2. results["schema"] \in {"none", "PASS"} /\ results["rows"] \in {"none", "PASS"}
  BY <1>1 DEF IInv, ResultsOK, Returned, Checks
<1>3. results["schema"] = "PASS" /\ results["rows"] = "PASS"
  BY <1>1, <1>2 DEF IInv, ResultsOK, RowChecks
<1>4. /\ Comparable /\ (Trusted => Agree)
      /\ Range(Src.names) = Range(Tgt.names)
      /\ \A c \in Range(Src.names) : Family(Src.type[c]) = Family(Tgt.type[c])
  BY <1>3, NoSchemaMismatch DEF IInv, ResultsOK, Agreement
<1>5. Compared \subseteq Range(Src.names)
  BY DEF Compared, Columns
<1> QED
  BY <1>4, <1>5 DEF Trusted, SameFamilies
------------------------------------------------------------------------------
(* Every variable of a validation keeps to its type: pairs and open rows   *)
(* are rows there are.                                                     *)
THEOREM TypesHold == Spec => []TypeOK
<1>1. IInv => TypeOK
  BY DEF IInv
<1> QED
  BY <1>1, InitIInv, NextIInv, PTL DEF Spec

(* A report that passes with the schema and the rows among its checks is   *)
(* about results with the same columns, of the same families, whose rows   *)
(* match one to one: for any frames, tolerances and enabled checks.        *)
THEOREM PassAlwaysAgrees == Spec => []PassIsAgreement
BY InitIInv, NextIInv, IInvPassIsAgreement, PTL DEF Spec
------------------------------------------------------------------------------
(* What each row of the group at hand would be paired with in a matching.  *)
Counterparts(m) ==
  /\ \A i \in left : \E j \in open : <<i, j>> \in m
  /\ \A j \in open : \E i \in left : <<i, j>> \in m
  /\ \A q, r \in m : q[1] = r[1] \/ q[2] = r[2] => q = r
  /\ \A q \in m : Unequal(q[1], q[2]) = {}

(* Of results that agree nothing is counted: whatever rows were paired,    *)
(* those left of the group at hand still have their counterparts.          *)
Fitting ==
  /\ results["rows"] = "FAIL" => ~(Separated /\ ScalarsAlike /\ Agree)
  /\ pc \in {"columns", "groups", "match"} /\ Separated /\ ScalarsAlike /\ Agree =>
    /\ mism = 0
    /\ pc = "match" => spare = {} /\ \E m \in SUBSET (left \X open) : Counterparts(m)

Unreturned == pc \in RowChecks => results["rows"] = "none"

KeyMismatches == Cardinality(Missing) + Cardinality(Extra)
DifferencesIn(P) == {d \in P \X Compared : d[2] \in Unequal(d[1][1], d[1][2])}

(* Of results with unique keys, what was counted is what the pairs differ  *)
(* in, and the group at hand has a row of each side or of none.            *)
Counting ==
  pc \in {"groups", "match"} /\ Unique(Src) /\ Unique(Tgt) =>
    /\ todo \subseteq Keys(Tgt)
    /\ mism = KeyMismatches + Cardinality(DifferencesIn(pairs))
    /\ left \cup spare = {} <=> open = {}
    /\ \A i \in Positions(Src) : \A j \in Positions(Tgt) :
         SameKey(i, j) => \/ SKey(i) \in todo \/ <<i, j>> \in pairs
                          \/ i \in left \cup spare /\ j \in open

Reckoned ==
  /\ Unreturned /\ Counting /\ CountIsDifferences
  /\ pc = "columns" => mism = KeyMismatches
------------------------------------------------------------------------------
(* Equality of values reads the same either way.                           *)
LEMMA WithinSymmetric ==
  ASSUME NEW m \in Int, NEW n \in Int
  PROVE  Within(m, n, 1) <=> Within(n, m, 1)
<1>1. Abs(m - n) = Abs(n - m)
  BY DEF Abs
<1>2. Abs(m) \in Int /\ Abs(n) \in Int
  BY DEF Abs
<1>3. Larger(Abs(m), Abs(n)) = Larger(Abs(n), Abs(m))
  BY <1>2 DEF Larger
<1> QED
  BY <1>1, <1>3 DEF Within

LEMMA EqualSymmetric ==
  ASSUME NEW a, NEW b, a.num \in Int, b.num \in Int, ValuesEqual(a, b)
  PROVE  ValuesEqual(b, a)
<1>1. Within(a.num, b.num, 1) <=> Within(b.num, a.num, 1)
  BY WithinSymmetric
<1> QED
  BY <1>1 DEF ValuesEqual

LEMMA ComparedNumbers ==
  ASSUME Taken, NEW c \in Compared
  PROVE  /\ \A i \in Positions(Src) : Src.rows[i][c].num \in Int
         /\ \A j \in Positions(Tgt) : Tgt.rows[j][c].num \in Int
BY TypedValues DEF WellTyped, Value

(* Of separated values: a row that agrees with one of two rows that agree  *)
(* with a third agrees with the other.                                     *)
LEMMA RowsExchange ==
  ASSUME Taken, Separated,
         NEW i \in Positions(Src), NEW x \in Positions(Src),
         NEW j \in Positions(Tgt), NEW y \in Positions(Tgt),
         Unequal(i, j) = {}, Unequal(i, y) = {}, Unequal(x, j) = {}
  PROVE  Unequal(x, y) = {}
<1> SUFFICES ASSUME NEW c \in Compared
             PROVE  ValuesEqual(Src.rows[x][c], Tgt.rows[y][c])
  BY DEF Unequal
<1> DEFINE V == {Src.rows[r][c] : r \in Positions(Src)} \cup {Tgt.rows[r][c] : r \in Positions(Tgt)}
           a == Src.rows[x][c]
           b == Tgt.rows[j][c]
           d == Src.rows[i][c]
           e == Tgt.rows[y][c]
<1>1. ValuesEqual(a, b) /\ ValuesEqual(d, b) /\ ValuesEqual(d, e)
  BY DEF Unequal
<1>2. a \in V /\ b \in V /\ d \in V /\ e \in V
  OBVIOUS
<1>3. b.num \in Int /\ d.num \in Int
  BY ComparedNumbers
<1>4. ValuesEqual(b, d)
  BY <1>1, <1>3, EqualSymmetric
<1>5. \A u, v, w \in V : ValuesEqual(u, v) /\ ValuesEqual(v, w) => ValuesEqual(u, w)
  BY DEF Separated
<1> HIDE DEF V, a, b, d, e
<1>6. ValuesEqual(a, d)
  BY <1>1, <1>2, <1>4, <1>5
<1>7. ValuesEqual(a, e)
  BY <1>1, <1>2, <1>5, <1>6
<1> QED
  BY <1>7 DEF a, e

(* Of separated values, the vectorised comparison and values_equal agree.  *)
LEMMA SameIsEqual ==
  ASSUME Separated, NEW i \in Positions(Src), NEW j \in Positions(Tgt), NEW c \in Compared
  PROVE  Same(Src.rows[i][c], Tgt.rows[j][c]) <=> ValuesEqual(Src.rows[i][c], Tgt.rows[j][c])
<1> DEFINE V == {Src.rows[r][c] : r \in Positions(Src)} \cup {Tgt.rows[r][c] : r \in Positions(Tgt)}
           a == Src.rows[i][c]
           b == Tgt.rows[j][c]
<1>1. a \in V
  OBVIOUS
<1>2. \A v \in V : ValuesEqual(v, v)
  BY DEF Separated
<1> HIDE DEF V, a, b
<1>3. Same(a, b) <=> ValuesEqual(a, b)
  BY <1>1, <1>2 DEF Same
<1> QED
  BY <1>3 DEF a, b

(* What a matching says of each of its pairs, and of the keys.             *)
LEMMA MatchedRows ==
  ASSUME Separated, NEW p \in SUBSET (Positions(Src) \X Positions(Tgt)), Matching(p)
  PROVE  \A q \in p : /\ q[1] \in Positions(Src) /\ q[2] \in Positions(Tgt)
                      /\ SKey(q[1]) = TKey(q[2])
                      /\ Unequal(q[1], q[2]) = {}
<1> SUFFICES ASSUME NEW q \in p
             PROVE  /\ q[1] \in Positions(Src) /\ q[2] \in Positions(Tgt)
                    /\ SKey(q[1]) = TKey(q[2])
                    /\ Unequal(q[1], q[2]) = {}
  OBVIOUS
<1>1. q[1] \in Positions(Src) /\ q[2] \in Positions(Tgt)
  OBVIOUS
<1>2. SKey(q[1]) = TKey(q[2])
  BY DEF Matching, SameKey, SKey, TKey
<1>3. \A c \in Compared : Same(Src.rows[q[1]][c], Tgt.rows[q[2]][c])
  BY DEF Matching
<1>4. \A c \in Compared : ValuesEqual(Src.rows[q[1]][c], Tgt.rows[q[2]][c])
  BY <1>1, <1>3, SameIsEqual
<1> QED
  BY <1>1, <1>2, <1>4 DEF Unequal

LEMMA AgreementOfKeys ==
  ASSUME Agree
  PROVE  Missing = {} /\ Extra = {}
<1>1. PICK p \in SUBSET (Positions(Src) \X Positions(Tgt)) : Matching(p)
  BY DEF Agree
<1>2. /\ \A i \in Positions(Src) : \E j \in Positions(Tgt) : SKey(i) = TKey(j)
      /\ \A j \in Positions(Tgt) : \E i \in Positions(Src) : SKey(i) = TKey(j)
  BY <1>1 DEF Matching, SameKey, SKey, TKey
<1> QED
  BY <1>2 DEF Missing, Extra, Keys, SKey, TKey
------------------------------------------------------------------------------
(* Results that agree fail no row comparison.                              *)
LEMMA StableHypothesis ==
  ASSUME ctx' = ctx
  PROVE  /\ Separated' <=> Separated
         /\ ScalarsAlike' <=> ScalarsAlike
         /\ Compared' = Compared
         /\ Missing' = Missing /\ Extra' = Extra
         /\ (Unique(Src)' <=> Unique(Src)) /\ (Unique(Tgt)' <=> Unique(Tgt))
         /\ \A i, j : SameKey(i, j)' <=> SameKey(i, j)
<1>1. /\ Src' = Src /\ Tgt' = Tgt /\ Key' = Key /\ (ScalarsAlike' <=> ScalarsAlike)
      /\ Keys(Src)' = Keys(Src) /\ Keys(Tgt)' = Keys(Tgt)
      /\ Positions(Src)' = Positions(Src) /\ Positions(Tgt)' = Positions(Tgt)
  BY SameContext
<1>2. Compared' = Compared
  BY <1>1 DEF Compared
<1>3. Separated' <=> Separated
  BY <1>1, <1>2 DEF Separated
<1>4. Missing' = Missing /\ Extra' = Extra
  BY <1>1 DEF Missing, Extra
<1>5. (Unique(Src)' <=> Unique(Src)) /\ (Unique(Tgt)' <=> Unique(Tgt))
  BY <1>1 DEF Unique
<1>6. \A i, j : SameKey(i, j)' <=> SameKey(i, j)
  BY <1>1 DEF SameKey
<1> QED
  BY <1>1, <1>2, <1>3, <1>4, <1>5, <1>6

LEMMA KeysFit ==
  ASSUME IInv, Fitting, Unreturned, CompareKeys
  PROVE  Fitting'
<1>1. /\ pc = "rows" /\ ctx' = ctx /\ results' = results
      /\ mism' = Cardinality(Missing) + Cardinality(Extra)
      /\ pc' \in {"columns", "groups"}
  BY DEF CompareKeys, Enabled
<1>2. Agree => mism' = 0
  BY <1>1, AgreementOfKeys, FS_EmptySet
<1>3. results["rows"] = "none"
  BY <1>1 DEF Unreturned, RowChecks
<1> QED
  BY <1>1, <1>2, <1>3, SameContext, StableHypothesis DEF Fitting

LEMMA ColumnsFit ==
  ASSUME IInv, Fitting, CompareColumns
  PROVE  Fitting'
<1> DEFINE differ == {d \in pairs' \X Compared : ~SameScalars(d[1][1], d[1][2], d[2])}
<1>1. /\ pc = "columns" /\ ctx' = ctx /\ pc' = "aggregates"
      /\ pairs' = {p \in Positions(Src) \X Positions(Tgt) : Beside(p[1], p[2])}
      /\ mism' = mism + Cardinality(differ)
      /\ results' = [results EXCEPT !["rows"] = Verdict(mism')]
  BY DEF CompareColumns, Return, After
<1>2. Taken /\ Vectorised /\ TypeOK
  BY <1>1 DEF IInv, Columnwise
<1>3. ASSUME Separated, ScalarsAlike, Agree
      PROVE  differ = {}
  <2>1. PICK p \in SUBSET (Positions(Src) \X Positions(Tgt)) : Matching(p)
    BY <1>3 DEF Agree
  <2>2. \A q \in p : SKey(q[1]) = TKey(q[2]) /\ Unequal(q[1], q[2]) = {}
    BY <1>3, <2>1, MatchedRows
  <2>3. \A j, y \in Positions(Tgt) : TKey(j) = TKey(y) => j = y
    <3>1. Len(Tgt.rows) \in Nat
      BY <1>2, ContextsAssumption DEF Taken, Tgt
    <3> QED
      BY <1>2, <3>1, KeysFinite DEF Vectorised, TKey
  <2>4. ASSUME NEW q \in pairs'
        PROVE  Unequal(q[1], q[2]) = {}
    <3>1. q[1] \in Positions(Src) /\ q[2] \in Positions(Tgt) /\ SKey(q[1]) = TKey(q[2])
      BY <1>1, <2>4 DEF Beside, SameKey, SKey, TKey
    <3>2. PICK y \in Positions(Tgt) : <<q[1], y>> \in p
      BY <2>1, <3>1 DEF Matching
    <3>3. SKey(q[1]) = TKey(y) /\ Unequal(q[1], y) = {}
      BY <2>2, <3>2
    <3> QED
      BY <2>3, <3>1, <3>3
  <2>5. ASSUME NEW d \in differ PROVE FALSE
    <3>1. d[1] \in pairs' /\ d[2] \in Compared
          /\ ~SameScalars(d[1][1], d[1][2], d[2])
      OBVIOUS
    <3>2. d[1][1] \in Positions(Src) /\ d[1][2] \in Positions(Tgt)
      BY <1>1, <3>1
    <3>3. ~ValuesEqual(Src.rows[d[1][1]][d[2]], Tgt.rows[d[1][2]][d[2]])
      BY <1>2, <1>3, <3>1, <3>2, ScalarsSame, SameIsEqual
    <3>4. d[2] \in Unequal(d[1][1], d[1][2])
      BY <3>1, <3>3 DEF Unequal
    <3> QED
      BY <2>4, <3>1, <3>4
  <2> QED
    BY <2>5
<1>4. Separated /\ ScalarsAlike /\ Agree => mism' = 0
  <2> HIDE DEF differ
  <2> QED
    BY <1>1, <1>3, FS_EmptySet DEF Fitting
<1>5. results'["rows"] = Verdict(mism')
  BY <1>1, <1>2 DEF TypeOK, Checks
<1>6. results'["rows"] = "FAIL" => ~(Separated /\ ScalarsAlike /\ Agree)
  BY <1>4, <1>5 DEF Verdict
<1> QED
  BY <1>1, <1>6, SameContext, StableHypothesis DEF Fitting

LEMMA OpenFits ==
  ASSUME IInv, Fitting, NEW k \in todo, OpenGroup(k)
  PROVE  Fitting'
<1>1. /\ pc = "groups" /\ pc' = "match" /\ ctx' = ctx /\ results' = results /\ mism' = mism
      /\ left' = Group(Src, k) /\ spare' = {} /\ open' = Group(Tgt, k)
  BY DEF OpenGroup
<1>2. /\ \A i : i \in left' <=> i \in Positions(Src) /\ SKey(i) = k
      /\ \A j : j \in open' <=> j \in Positions(Tgt) /\ TKey(j) = k
  BY <1>1 DEF Group, SKey, TKey
<1>3. ASSUME Separated, ScalarsAlike, Agree
      PROVE  \E m \in SUBSET (left' \X open') : Counterparts(m)'
  <2>1. PICK p \in SUBSET (Positions(Src) \X Positions(Tgt)) : Matching(p)
    BY <1>3 DEF Agree
  <2>2. \A q \in p : /\ q[1] \in Positions(Src) /\ q[2] \in Positions(Tgt)
                     /\ SKey(q[1]) = TKey(q[2]) /\ Unequal(q[1], q[2]) = {}
    BY <1>3, <2>1, MatchedRows
  <2> DEFINE m == {q \in p : SKey(q[1]) = k}
  <2>3. m \in SUBSET (left' \X open')
    BY <1>2, <2>2
  <2>4. \A i \in left' : \E j \in open' : <<i, j>> \in m
    BY <1>2, <2>1, <2>2 DEF Matching
  <2>5. \A j \in open' : \E i \in left' : <<i, j>> \in m
    BY <1>2, <2>1, <2>2 DEF Matching
  <2>6. \A q, r \in m : q[1] = r[1] \/ q[2] = r[2] => q = r
    BY <2>1 DEF Matching
  <2>7. \A q \in m : Unequal(q[1], q[2])' = {}
    BY <1>1, <2>2, SameContext
  <2>8. PICK n : n = m
    OBVIOUS
  <2> HIDE DEF m
  <2>9. Counterparts(n)'
    BY <2>4, <2>5, <2>6, <2>7, <2>8 DEF Counterparts
  <2> QED
    BY <2>3, <2>8, <2>9
<1> QED
  BY <1>1, <1>3, SameContext, StableHypothesis DEF Fitting

(* The exchange: the row that was to have j takes the row that was to be   *)
(* that of i.                                                              *)
LEMMA ExactFits ==
  ASSUME IInv, Fitting, NEW i \in left, NEW j \in open, PairExact(i, j)
  PROVE  Fitting'
<1>1. /\ pc = "match" /\ pc' = "match" /\ ctx' = ctx /\ results' = results /\ mism' = mism
      /\ Unequal(i, j) = {}
      /\ left' = left \ {i} /\ spare' = spare /\ open' = open \ {j}
  BY DEF PairExact, Exact, Least
<1>2. Taken /\ left \subseteq Positions(Src) /\ open \subseteq Positions(Tgt)
  BY DEF IInv, TypeOK
<1>3. ASSUME Separated, ScalarsAlike, Agree
      PROVE  \E n \in SUBSET (left' \X open') : Counterparts(n)'
  <2>1. PICK m \in SUBSET (left \X open) : Counterparts(m)
    BY <1>1, <1>3 DEF Fitting
  <2>2. PICK y \in open : <<i, y>> \in m
    BY <2>1 DEF Counterparts
  <2>3. PICK x \in left : <<x, j>> \in m
    BY <2>1 DEF Counterparts
  <2>4. Unequal(i, y) = {} /\ Unequal(x, j) = {}
    BY <2>1, <2>2, <2>3 DEF Counterparts
  <2>5. Unequal(x, y) = {}
    BY <1>1, <1>2, <1>3, <2>4, RowsExchange
  <2>6. x = i <=> y = j
    BY <2>1, <2>2, <2>3 DEF Counterparts
  <2> DEFINE n == {q \in m : q[1] # i /\ q[2] # j}
                   \cup (IF x = i THEN {} ELSE {<<x, y>>})
  <2>7. \A q \in m : q[1] = i => q = <<i, y>>
    BY <2>1, <2>2 DEF Counterparts
  <2>8. \A q \in m : q[2] = j => q = <<x, j>>
    BY <2>1, <2>3 DEF Counterparts
  <2>9. n \in SUBSET (left' \X open')
    BY <1>1, <2>6
  <2>10. \A r \in left' : \E s \in open' : <<r, s>> \in n
    <3> SUFFICES ASSUME NEW r \in left' PROVE \E s \in open' : <<r, s>> \in n
      OBVIOUS
    <3>1. r \in left /\ r # i
      BY <1>1
    <3>2. PICK s \in open : <<r, s>> \in m
      BY <2>1, <3>1 DEF Counterparts
    <3>3. CASE s = j
      <4>1. r = x /\ x # i /\ y # j
        BY <2>6, <2>8, <3>1, <3>2, <3>3
      <4> QED
        BY <1>1, <4>1
    <3>4. CASE s # j
      BY <1>1, <3>1, <3>2, <3>4
    <3> QED
      BY <3>3, <3>4
  <2>11. \A s \in open' : \E r \in left' : <<r, s>> \in n
    <3> SUFFICES ASSUME NEW s \in open' PROVE \E r \in left' : <<r, s>> \in n
      OBVIOUS
    <3>1. s \in open /\ s # j
      BY <1>1
    <3>2. PICK r \in left : <<r, s>> \in m
      BY <2>1, <3>1 DEF Counterparts
    <3>3. CASE r = i
      <4>1. s = y /\ x # i /\ y # j
        BY <2>6, <2>7, <3>1, <3>2, <3>3
      <4> QED
        BY <1>1, <4>1
    <3>4. CASE r # i
      BY <1>1, <3>1, <3>2, <3>4
    <3> QED
      BY <3>3, <3>4
  <2>12. \A q, r \in n : q[1] = r[1] \/ q[2] = r[2] => q = r
    <3>1. \A q, r \in m : q[1] = r[1] \/ q[2] = r[2] => q = r
      BY <2>1 DEF Counterparts
    <3>2. \A q \in n : q \in m \/ (q = <<x, y>> /\ x # i)
      OBVIOUS
    <3>3. \A q \in n : q \in m => q[1] # i /\ q[2] # j
      BY <2>6
    <3>4. ASSUME NEW q \in n, NEW r \in n, q \in m, r = <<x, y>>, x # i,
                 q[1] = r[1] \/ q[2] = r[2]
          PROVE  q = r
      <4>1. q[1] = x => q = <<x, j>>
        BY <2>3, <3>1, <3>4
      <4>2. q[2] = y => q = <<i, y>>
        BY <2>2, <3>1, <3>4
      <4> QED
        BY <3>3, <3>4, <4>1, <4>2
    <3> HIDE DEF n
    <3> QED
      BY <3>1, <3>2, <3>4
  <2>13. \A q \in n : Unequal(q[1], q[2])' = {}
    <3>1. \A q \in n : Unequal(q[1], q[2]) = {}
      BY <2>1, <2>5 DEF Counterparts
    <3> HIDE DEF n
    <3> QED
      BY <1>1, <3>1, SameContext
  <2> HIDE DEF n
  <2>14. Counterparts(n)'
    BY <2>10, <2>11, <2>12, <2>13 DEF Counterparts
  <2> QED
    BY <2>9, <2>14
<1> QED
  BY <1>1, <1>3, SameContext, StableHypothesis DEF Fitting

(* No row is passed over, none is left for the closest pairs, and none is  *)
(* left when the group is closed.                                          *)
LEMMA PassOverFits ==
  ASSUME IInv, Fitting, NEW i \in left, PassOver(i)
  PROVE  Fitting'
<1>1. /\ pc = "match" /\ pc' = "match" /\ ctx' = ctx /\ results' = results
      /\ \A j \in open : Unequal(i, j) # {}
  BY DEF PassOver, Exact
<1>2. ~(Separated /\ ScalarsAlike /\ Agree)
  <2> SUFFICES ASSUME Separated, ScalarsAlike, Agree PROVE FALSE
    OBVIOUS
  <2>1. PICK m \in SUBSET (left \X open) : Counterparts(m)
    BY <1>1 DEF Fitting
  <2>2. PICK j \in open : <<i, j>> \in m
    BY <2>1 DEF Counterparts
  <2>3. Unequal(i, j) = {}
    BY <2>1, <2>2 DEF Counterparts
  <2> QED
    BY <1>1, <2>3
<1> QED
  BY <1>1, <1>2, SameContext, StableHypothesis DEF Fitting

LEMMA ClosestFits ==
  ASSUME IInv, Fitting, NEW i \in spare, NEW j \in open, PairClosest(i, j)
  PROVE  Fitting'
<1>1. pc = "match" /\ pc' = "match" /\ ctx' = ctx /\ results' = results
  BY DEF PairClosest
<1>2. ~(Separated /\ ScalarsAlike /\ Agree)
  BY <1>1 DEF Fitting
<1> QED
  BY <1>1, <1>2, SameContext, StableHypothesis DEF Fitting

LEMMA CloseFits ==
  ASSUME IInv, Fitting, CloseGroup
  PROVE  Fitting'
<1>1. /\ pc = "match" /\ pc' = "groups" /\ ctx' = ctx /\ results' = results
      /\ left = {} /\ mism' = mism + Cardinality(spare) + Cardinality(open)
  BY DEF CloseGroup
<1>2. ASSUME Separated, ScalarsAlike, Agree
      PROVE  mism' = 0
  <2>1. mism = 0 /\ spare = {} /\ \E m \in SUBSET (left \X open) : Counterparts(m)
    BY <1>1, <1>2 DEF Fitting
  <2>2. open = {}
    BY <1>1, <2>1 DEF Counterparts
  <2> QED
    BY <1>1, <2>1, <2>2, FS_EmptySet
<1> QED
  BY <1>1, <1>2, SameContext, StableHypothesis DEF Fitting

LEMMA ComparedFits ==
  ASSUME IInv, Fitting, RowsIncomparable \/ RowsCompared
  PROVE  Fitting'
<1>1. ctx' = ctx /\ pc' = "aggregates"
  BY DEF RowsIncomparable, RowsCompared, Return, After
<1>2. TypeOK
  BY DEF IInv
<1>3. results'["rows"] = "FAIL" => pc = "groups" /\ mism # 0
  BY <1>2 DEF RowsIncomparable, RowsCompared, Return, Verdict, TypeOK, Checks
<1> QED
  BY <1>1, <1>3, SameContext, StableHypothesis DEF Fitting

(* The other steps leave the row comparison where it is.                   *)
LEMMA OthersKeepRows ==
  ASSUME IInv,
         \/ \E c \in Checks : Skip(c)
         \/ CheckSchema \/ CheckAggregates \/ CheckEdges \/ \E s \in Statuses : CheckRules(s)
         \/ Aggregate \/ UNCHANGED vars
  PROVE  /\ ctx' = ctx /\ results'["rows"] = results["rows"]
         /\ UNCHANGED <<mism, todo, group>>
         /\ pc' = pc \/ pc' \notin {"columns", "groups", "match"}
         /\ pc' \in RowChecks => pc \in RowChecks
<1>1. TypeOK
  BY DEF IInv
<1>2. CASE \E c \in Checks : Skip(c)
  BY <1>2 DEF Skip, After, Checks, RowChecks
<1>3. CASE CheckSchema
  <2>1. PICK s : Return("schema", s)
    BY <1>3 DEF CheckSchema
  <2>2. results'["rows"] = results["rows"] /\ ctx' = ctx /\ pc' = "rows"
    BY <1>1, <2>1 DEF Return, TypeOK, Checks, After
  <2> QED
    BY <1>3, <2>2 DEF CheckSchema, Enabled, RowChecks
<1>4. CASE CheckAggregates
  <2>1. PICK s : Return("aggregates", s)
    BY <1>4 DEF CheckAggregates
  <2>2. results'["rows"] = results["rows"] /\ ctx' = ctx /\ pc' = "rules"
    BY <1>1, <2>1 DEF Return, TypeOK, Checks, After
  <2> QED
    BY <1>4, <2>2 DEF CheckAggregates, RowChecks
<1>5. CASE CheckEdges
  <2>1. PICK s : Return("edges", s)
    BY <1>5 DEF CheckEdges
  <2>2. results'["rows"] = results["rows"] /\ ctx' = ctx /\ pc' = "overall"
    BY <1>1, <2>1 DEF Return, TypeOK, Checks, After
  <2> QED
    BY <1>5, <2>2 DEF CheckEdges, RowChecks
<1>6. CASE \E s \in Statuses : CheckRules(s)
  <2>1. PICK s \in Statuses : CheckRules(s)
    BY <1>6
  <2>2. results'["rows"] = results["rows"] /\ ctx' = ctx /\ pc' = "edges"
    BY <1>1, <2>1 DEF CheckRules, Return, TypeOK, Checks, After
  <2> QED
    BY <2>1, <2>2 DEF CheckRules, RowChecks
<1>7. CASE Aggregate
  BY <1>7 DEF Aggregate, RowChecks
<1>8. CASE UNCHANGED vars
  BY <1>8 DEF vars, group
<1> QED
  BY <1>2, <1>3, <1>4, <1>5, <1>6, <1>7, <1>8

LEMMA OthersFit ==
  ASSUME IInv, Fitting, ctx' = ctx, results'["rows"] = results["rows"],
         UNCHANGED <<mism, todo, group>>,
         pc' = pc \/ pc' \notin {"columns", "groups", "match"}
  PROVE  Fitting'
<1>1. mism' = mism /\ left' = left /\ spare' = spare /\ open' = open
  BY DEF group
<1>2. \A m : Counterparts(m)' <=> Counterparts(m)
  BY <1>1, SameContext DEF Counterparts
<1> QED
  BY <1>1, <1>2, SameContext, StableHypothesis DEF Fitting

LEMMA UnreturnedKept ==
  IInv /\ Unreturned /\ [Next]_vars => Unreturned'
<1> SUFFICES ASSUME IInv, Unreturned, [Next]_vars, pc' \in RowChecks
             PROVE  results'["rows"] = "none"
  BY DEF Unreturned
<1>1. CASE CheckRows
  <2>1. CASE CompareKeys \/ (\E k \in todo : OpenGroup(k)) \/ MatchRows
    BY <2>1 DEF CompareKeys, Enabled, OpenGroup, MatchRows, PairExact, PassOver, PairClosest,
                CloseGroup, Unreturned, RowChecks
  <2>2. CASE RowsIncomparable \/ CompareColumns \/ RowsCompared
    BY <2>2 DEF RowsIncomparable, CompareColumns, RowsCompared, Return, After, RowChecks
  <2> QED
    BY <1>1, <2>1, <2>2 DEF CheckRows
<1>2. CASE ~CheckRows
  BY <1>2, OthersKeepRows DEF Next, Unreturned
<1> QED
  BY <1>1, <1>2

LEMMA FittingKept ==
  IInv /\ Unreturned /\ Fitting /\ [Next]_vars => Fitting'
<1> SUFFICES ASSUME IInv, Unreturned, Fitting, [Next]_vars PROVE Fitting'
  OBVIOUS
<1>1. CASE CheckRows
  <2>1. CASE MatchRows
    BY <2>1, ExactFits, PassOverFits, ClosestFits, CloseFits DEF MatchRows
  <2> QED
    BY <1>1, <2>1, ComparedFits, KeysFit, ColumnsFit, OpenFits DEF CheckRows
<1>2. CASE ~CheckRows
  BY <1>2, OthersKeepRows, OthersFit DEF Next
<1> QED
  BY <1>1, <1>2

(* A row comparison that fails found a difference, for any results without *)
(* values that are only nearly the same: on the grouped path whatever the  *)
(* columns, on the vectorised one for columns that are ScalarsAlike.       *)
THEOREM FailAlwaysReal == Spec => []FailIsReal
<1>1. Init => Unreturned /\ Fitting
  BY DEF Init, Unreturned, Fitting, Checks
<1>2. Fitting => FailIsReal
  BY DEF Fitting, FailIsReal
<1> QED
  BY <1>1, <1>2, InitIInv, NextIInv, UnreturnedKept, FittingKept, PTL DEF Spec
------------------------------------------------------------------------------
(* The mismatch count of results with unique keys.                         *)
AllPairs == Positions(Src) \X Positions(Tgt)

Differences ==
  {d \in AllPairs \X Compared : SameKey(d[1][1], d[1][2]) /\ d[2] \in Unequal(d[1][1], d[1][2])}

LEMMA DifferencesCounted ==
  ASSUME Taken, NEW P, P \subseteq AllPairs
  PROVE  IsFiniteSet(DifferencesIn(P)) /\ Cardinality(DifferencesIn(P)) \in Nat
<1>1. IsFiniteSet(AllPairs) /\ IsFiniteSet(Compared)
  BY FramesFinite, DifferencesFinite, FS_Product DEF AllPairs
<1>2. IsFiniteSet(P)
  BY <1>1, FS_Subset
<1>3. IsFiniteSet(P \X Compared)
  BY <1>1, <1>2, FS_Product
<1>4. DifferencesIn(P) \subseteq P \X Compared
  BY DEF DifferencesIn
<1> QED
  BY <1>3, <1>4, FS_Subset, FS_CardinalityType

LEMMA NoDifferences ==
  Cardinality(DifferencesIn({})) = 0
<1>1. DifferencesIn({}) = {}
  BY DEF DifferencesIn
<1> QED
  BY <1>1, FS_EmptySet

(* One more pair adds the columns it differs in.                           *)
LEMMA OneMorePair ==
  ASSUME Taken, NEW P, P \subseteq AllPairs, NEW i, NEW j, <<i, j>> \notin P
  PROVE  Cardinality(DifferencesIn(P \cup {<<i, j>>}))
           = Cardinality(DifferencesIn(P)) + Cardinality(Unequal(i, j))
<1> DEFINE p == <<i, j>>
           U == Unequal(i, j)
           A == DifferencesIn(P)
           B == {p} \X U
<1>1. IsFiniteSet(U) /\ Cardinality(U) \in Nat /\ U \subseteq Compared
  BY DifferencesFinite DEF Unequal
<1>2. IsFiniteSet({p}) /\ Cardinality({p}) = 1
  BY FS_Singleton
<1>3. IsFiniteSet(B) /\ Cardinality(B) = Cardinality(U)
  <2> HIDE DEF p, U
  <2>1. IsFiniteSet(B) /\ Cardinality(B) = Cardinality({p}) * Cardinality(U)
    BY <1>1, <1>2, FS_Product
  <2> QED
    BY <1>1, <1>2, <2>1
<1>4. IsFiniteSet(A) /\ Cardinality(A) \in Nat
  BY DifferencesCounted
<1>5. DifferencesIn(P \cup {p}) = A \cup B
  <2>1. \A d : d \in DifferencesIn(P \cup {p}) <=>
                 d \in (P \cup {p}) \X Compared /\ d[2] \in Unequal(d[1][1], d[1][2])
    BY DEF DifferencesIn
  <2>2. \A d : d \in A <=> d \in P \X Compared /\ d[2] \in Unequal(d[1][1], d[1][2])
    BY DEF DifferencesIn
  <2>3. \A d : d \in B <=> d \in {p} \X Compared /\ d[2] \in Unequal(d[1][1], d[1][2])
    BY <1>1
  <2>4. \A d : d \in (P \cup {p}) \X Compared <=> d \in P \X Compared \/ d \in {p} \X Compared
    OBVIOUS
  <2> HIDE DEF A, B, p
  <2> QED
    BY <2>1, <2>2, <2>3, <2>4
<1>6. A \cap B = {}
  BY DEF DifferencesIn
<1>7. Cardinality(A \cup B) = Cardinality(A) + Cardinality(B) - Cardinality({})
  <2> HIDE DEF A, B
  <2> QED
    BY <1>3, <1>4, <1>6, FS_Union
<1>8. Cardinality({}) = 0
  BY FS_EmptySet
<1>9. Cardinality(A \cup B) = Cardinality(A) + Cardinality(U)
  <2> HIDE DEF A, B, U
  <2> QED
    BY <1>1, <1>3, <1>4, <1>7, <1>8
<1> QED
  BY <1>5, <1>9, Zenon

(* Unique keys are one row each.                                           *)
LEMMA OneRowEach ==
  ASSUME Taken, Unique(Src), Unique(Tgt)
  PROVE  /\ \A i, x \in Positions(Src) : SKey(i) = SKey(x) => i = x
         /\ \A j, y \in Positions(Tgt) : TKey(j) = TKey(y) => j = y
<1>1. Len(Src.rows) \in Nat /\ Len(Tgt.rows) \in Nat
  BY ContextsAssumption DEF Taken, Src, Tgt
<1> QED
  BY <1>1, KeysFinite DEF SKey, TKey

(* What is counted and compared depends on the context alone.              *)
LEMMA StableCounts ==
  ASSUME ctx' = ctx
  PROVE  /\ KeyMismatches' = KeyMismatches
         /\ AllPairs' = AllPairs /\ Differences' = Differences
         /\ \A P : DifferencesIn(P)' = DifferencesIn(P)
<1>1. /\ Missing' = Missing /\ Extra' = Extra /\ Compared' = Compared
      /\ \A i, j : SameKey(i, j)' <=> SameKey(i, j)
  BY StableHypothesis
<1>2. /\ Positions(Src)' = Positions(Src) /\ Positions(Tgt)' = Positions(Tgt)
      /\ \A i, j : Unequal(i, j)' = Unequal(i, j)
  BY SameContext
<1>3. KeyMismatches' = KeyMismatches
  BY <1>1 DEF KeyMismatches
<1>4. AllPairs' = AllPairs
  BY <1>2 DEF AllPairs
<1>5. Differences' = Differences
  BY <1>1, <1>2, <1>4 DEF Differences
<1>6. \A P : DifferencesIn(P)' = DifferencesIn(P)
  BY <1>1, <1>2 DEF DifferencesIn
<1> QED
  BY <1>3, <1>4, <1>5, <1>6

LEMMA CountRestated ==
  CountIsDifferences <=>
    (results["rows"] \in {"PASS", "FAIL"} /\ Unique(Src) /\ Unique(Tgt)
     /\ Separated /\ ScalarsAlike =>
       mism = KeyMismatches + Cardinality(Differences))
BY DEF CountIsDifferences, KeyMismatches, Differences, AllPairs

(* A step inside the grouped comparison owes Counting only.                *)
LEMMA GroupedReckoned ==
  ASSUME Reckoned, ctx' = ctx, results' = results,
         pc \in RowChecks, pc' \in {"groups", "match"}, Counting'
  PROVE  Reckoned'
<1>1. results["rows"] = "none"
  BY DEF Reckoned, Unreturned
<1> QED
  BY <1>1 DEF Reckoned, Unreturned, CountIsDifferences

LEMMA KeysReckoned ==
  ASSUME IInv, Reckoned, CompareKeys
  PROVE  Reckoned'
<1>1. /\ pc = "rows" /\ ctx' = ctx /\ results' = results
      /\ mism' = KeyMismatches
      /\ left' = left /\ spare' = spare /\ open' = open /\ pairs' = pairs
  BY DEF CompareKeys, Enabled, group, KeyMismatches
<1>2. left = {} /\ spare = {} /\ open = {} /\ pairs = {}
  BY <1>1 DEF IInv, Fresh
<1>3. CASE pc' = "columns"
  <2>1. results["rows"] = "none"
    BY <1>1 DEF Reckoned, Unreturned, RowChecks
  <2> QED
    BY <1>1, <1>3, <2>1, StableCounts DEF Reckoned, Unreturned, Counting, CountIsDifferences
<1>4. CASE pc' = "groups" /\ todo' = Keys(Src) \cap Keys(Tgt)
  <2>1. mism' = KeyMismatches + Cardinality(DifferencesIn({}))
    <3>1. KeyMismatches \in Nat
      BY NoKeyMismatch DEF IInv, KeyMismatches
    <3> QED
      BY <1>1, <3>1, NoDifferences
  <2>2. \A i \in Positions(Src) : \A j \in Positions(Tgt) : SameKey(i, j) => SKey(i) \in todo'
    BY <1>4 DEF SameKey, SKey, Keys
  <2>3. Counting'
    BY <1>1, <1>2, <1>4, <2>1, <2>2, SameContext, StableHypothesis, StableCounts DEF Counting
  <2> QED
    BY <1>1, <1>4, <2>3, GroupedReckoned DEF RowChecks
<1> QED
  BY <1>3, <1>4 DEF CompareKeys

LEMMA OpenReckoned ==
  ASSUME IInv, Reckoned, NEW k \in todo, OpenGroup(k)
  PROVE  Reckoned'
<1>1. /\ pc = "groups" /\ pc' = "match" /\ ctx' = ctx /\ results' = results /\ mism' = mism
      /\ todo' = todo \ {k} /\ pairs' = pairs
      /\ left' = Group(Src, k) /\ spare' = {} /\ open' = Group(Tgt, k)
  BY DEF OpenGroup
<1>2. /\ \A i : i \in left' <=> i \in Positions(Src) /\ SKey(i) = k
      /\ \A j : j \in open' <=> j \in Positions(Tgt) /\ TKey(j) = k
  BY <1>1 DEF Group, SKey, TKey
<1>3. left = {} /\ spare = {} /\ open = {} /\ k \in Keys(Src)
  BY <1>1 DEF IInv, Grouping, TypeOK
<1>4. ASSUME Unique(Src), Unique(Tgt)
      PROVE  /\ todo' \subseteq Keys(Tgt)
             /\ mism' = KeyMismatches + Cardinality(DifferencesIn(pairs'))
             /\ left' \cup spare' = {} <=> open' = {}
             /\ \A i \in Positions(Src) : \A j \in Positions(Tgt) :
                  SameKey(i, j) => \/ SKey(i) \in todo' \/ <<i, j>> \in pairs'
                                   \/ i \in left' \cup spare' /\ j \in open'
  <2>1. /\ todo \subseteq Keys(Tgt)
        /\ mism = KeyMismatches + Cardinality(DifferencesIn(pairs))
        /\ \A i \in Positions(Src) : \A j \in Positions(Tgt) :
             SameKey(i, j) => \/ SKey(i) \in todo \/ <<i, j>> \in pairs
    BY <1>1, <1>3, <1>4 DEF Reckoned, Counting
  <2>2. (\E i \in Positions(Src) : SKey(i) = k) /\ (\E j \in Positions(Tgt) : TKey(j) = k)
    BY <1>3, <2>1 DEF Keys, SKey, TKey
  <2>3. left' # {} /\ open' # {}
    BY <1>2, <2>2
  <2>4. \A i, j : SameKey(i, j) <=> SKey(i) = TKey(j)
    BY DEF SameKey, SKey, TKey
  <2> QED
    BY <1>1, <1>2, <2>1, <2>3, <2>4
<1>5. Counting'
  BY <1>1, <1>4, SameContext, StableHypothesis, StableCounts DEF Counting
<1> QED
  BY <1>1, <1>5, GroupedReckoned DEF RowChecks

(* The pair uses the group up, and adds what it differs in.                *)
LEMMA PairingReckoned ==
  ASSUME IInv, Reckoned, ctx' = ctx, UNCHANGED <<results, todo>>,
         pc = "match", pc' = "match",
         NEW i \in left \cup spare, NEW j \in open,
         left' = left \ {i}, spare' = spare \ {i}, open' = open \ {j},
         pairs' = pairs \cup {<<i, j>>},
         mism' = mism + Cardinality(Unequal(i, j))
  PROVE  Reckoned'
<1>1. TypeOK /\ GroupOK /\ PairsOK /\ Taken
  BY DEF IInv, Grouping
<1>2. /\ i \in Positions(Src) /\ j \in Positions(Tgt) /\ mism \in Nat
      /\ pairs \subseteq AllPairs /\ <<i, j>> \notin pairs
  BY <1>1 DEF TypeOK, GroupOK, AllPairs
<1>3. Cardinality(Unequal(i, j)) \in Nat /\ Cardinality(DifferencesIn(pairs)) \in Nat
      /\ KeyMismatches \in Nat
  BY <1>1, <1>2, DifferencesFinite, DifferencesCounted, NoKeyMismatch DEF KeyMismatches
<1>4. ASSUME Unique(Src), Unique(Tgt)
      PROVE  /\ todo \subseteq Keys(Tgt)
             /\ mism' = KeyMismatches + Cardinality(DifferencesIn(pairs'))
             /\ left' \cup spare' = {} /\ open' = {}
             /\ \A x \in Positions(Src) : \A y \in Positions(Tgt) :
                  SameKey(x, y) => SKey(x) \in todo \/ <<x, y>> \in pairs'
  <2>1. /\ todo \subseteq Keys(Tgt)
        /\ mism = KeyMismatches + Cardinality(DifferencesIn(pairs))
        /\ \A x \in Positions(Src) : \A y \in Positions(Tgt) :
             SameKey(x, y) => \/ SKey(x) \in todo \/ <<x, y>> \in pairs
                              \/ x \in left \cup spare /\ y \in open
    BY <1>4 DEF Reckoned, Counting
  <2>2. left \cup spare = {i} /\ open = {j}
    <3>1. \A x \in left \cup spare : x \in Positions(Src) /\ SKey(x) = TKey(j)
      BY <1>1 DEF TypeOK, GroupOK
    <3>2. \A y \in open : y \in Positions(Tgt) /\ SKey(i) = TKey(y)
      BY <1>1 DEF TypeOK, GroupOK
    <3> QED
      BY <1>1, <1>4, <3>1, <3>2, OneRowEach
  <2>3. mism' = KeyMismatches + Cardinality(DifferencesIn(pairs'))
    <3>1. Cardinality(DifferencesIn(pairs \cup {<<i, j>>}))
            = Cardinality(DifferencesIn(pairs)) + Cardinality(Unequal(i, j))
      BY <1>1, <1>2, OneMorePair
    <3> QED
      BY <1>3, <2>1, <3>1
  <2> QED
    BY <2>1, <2>2, <2>3
<1>5. Counting'
  BY <1>4, SameContext, StableHypothesis, StableCounts DEF Counting
<1> QED
  BY <1>5, GroupedReckoned DEF RowChecks

LEMMA MatchReckoned ==
  ASSUME IInv, Reckoned, MatchRows
  PROVE  Reckoned'
<1>1. TypeOK /\ Taken
  BY DEF IInv
<1>2. ASSUME NEW i \in left, NEW j \in open, PairExact(i, j)
      PROVE  Reckoned'
  <2>1. /\ pc = "match" /\ pc' = "match" /\ ctx' = ctx /\ UNCHANGED <<results, todo>>
        /\ Unequal(i, j) = {} /\ mism' = mism
        /\ left' = left \ {i} /\ spare' = spare /\ open' = open \ {j}
        /\ pairs' = pairs \cup {<<i, j>>}
    BY <1>2 DEF PairExact, Least, Exact
  <2>2. i \notin spare /\ mism \in Nat
    BY <1>1, <2>1 DEF IInv, Grouping, GroupOK, TypeOK
  <2>3. spare' = spare \ {i} /\ mism' = mism + Cardinality(Unequal(i, j))
    BY <2>1, <2>2, FS_EmptySet
  <2> QED
    BY <2>1, <2>3, PairingReckoned
<1>3. ASSUME NEW i \in spare, NEW j \in open, PairClosest(i, j)
      PROVE  Reckoned'
  <2>1. /\ pc = "match" /\ pc' = "match" /\ ctx' = ctx /\ UNCHANGED <<results, todo>>
        /\ left = {} /\ left' = left /\ spare' = spare \ {i} /\ open' = open \ {j}
        /\ pairs' = pairs \cup {<<i, j>>} /\ mism' = mism + Cardinality(Unequal(i, j))
    BY <1>3 DEF PairClosest
  <2>2. left' = left \ {i}
    BY <2>1
  <2> QED
    BY <2>1, <2>2, PairingReckoned
<1>4. ASSUME NEW i \in left, PassOver(i)
      PROVE  Reckoned'
  <2>1. /\ pc = "match" /\ pc' = "match" /\ ctx' = ctx /\ results' = results
        /\ left' \cup spare' = left \cup spare
        /\ mism' = mism /\ todo' = todo /\ open' = open /\ pairs' = pairs
    BY <1>4 DEF PassOver
  <2>2. Counting'
    BY <2>1, SameContext, StableHypothesis, StableCounts DEF Reckoned, Counting
  <2> QED
    BY <2>1, <2>2, GroupedReckoned DEF RowChecks
<1>5. CASE CloseGroup
  <2>1. /\ pc = "match" /\ pc' = "groups" /\ ctx' = ctx /\ results' = results
        /\ left = {} /\ (spare = {} \/ open = {})
        /\ left' = left /\ spare' = {} /\ open' = {} /\ todo' = todo /\ pairs' = pairs
        /\ mism' = mism + Cardinality(spare) + Cardinality(open)
    BY <1>5 DEF CloseGroup
  <2>2. ASSUME Unique(Src), Unique(Tgt)
        PROVE  spare = {} /\ open = {} /\ mism' = mism
    <3>1. left \cup spare = {} <=> open = {}
      BY <2>1, <2>2 DEF Reckoned, Counting
    <3>2. spare = {} /\ open = {}
      BY <2>1, <3>1
    <3> QED
      BY <1>1, <2>1, <3>2, FS_EmptySet DEF TypeOK
  <2>3. Counting'
    BY <2>1, <2>2, SameContext, StableHypothesis, StableCounts DEF Reckoned, Counting
  <2> QED
    BY <2>1, <2>3, GroupedReckoned DEF RowChecks
<1> QED
  BY <1>2, <1>3, <1>4, <1>5 DEF MatchRows

(* When the groups are used up, the pairs are those of equal keys.         *)
LEMMA PairsAreDifferences ==
  ASSUME IInv, Reckoned, pc = "groups", todo = {}, Unique(Src), Unique(Tgt)
  PROVE  mism = KeyMismatches + Cardinality(Differences)
<1>1. /\ mism = KeyMismatches + Cardinality(DifferencesIn(pairs))
      /\ \A i \in Positions(Src) : \A j \in Positions(Tgt) : SameKey(i, j) => <<i, j>> \in pairs
  BY DEF Reckoned, Counting, IInv, Grouping
<1>2. pairs \subseteq AllPairs /\ \A p \in pairs : SameKey(p[1], p[2])
  BY DEF IInv, TypeOK, Grouping, PairsOK, SameKey, SKey, TKey, AllPairs
<1>3. \A p \in AllPairs : p \in pairs <=> SameKey(p[1], p[2])
  BY <1>1, <1>2 DEF AllPairs
<1>4. DifferencesIn(pairs) = Differences
  BY <1>2, <1>3 DEF DifferencesIn, Differences
<1> QED
  BY <1>1, <1>4

(* Of columns that are ScalarsAlike the vectorised comparison counts the   *)
(* same.                                                                   *)
LEMMA ColumnsAreDifferences ==
  ASSUME Taken, Vectorised, Separated, ScalarsAlike,
         NEW P, P = {p \in AllPairs : Beside(p[1], p[2])}
  PROVE  {d \in P \X Compared : ~SameScalars(d[1][1], d[1][2], d[2])} = Differences
<1> DEFINE differ == {d \in P \X Compared : ~SameScalars(d[1][1], d[1][2], d[2])}
<1>1. \A d : d \in P \X Compared <=> d \in AllPairs \X Compared /\ SameKey(d[1][1], d[1][2])
  BY DEF Beside
<1>2. ASSUME NEW d \in AllPairs \X Compared
      PROVE  ~SameScalars(d[1][1], d[1][2], d[2]) <=> d[2] \in Unequal(d[1][1], d[1][2])
  <2>1. d[1][1] \in Positions(Src) /\ d[1][2] \in Positions(Tgt) /\ d[2] \in Compared
    BY DEF AllPairs
  <2> QED
    BY <2>1, ScalarsSame, SameIsEqual DEF Unequal
<1>3. \A d : d \in differ <=> d \in Differences
  BY <1>1, <1>2 DEF Differences
<1> HIDE DEF differ
<1>4. differ = Differences
  BY <1>3 DEF differ, Differences
<1> QED
  BY <1>4 DEF differ

LEMMA ReturnReckoned ==
  ASSUME IInv, Reckoned, RowsIncomparable \/ CompareColumns \/ RowsCompared
  PROVE  Reckoned'
<1>1. ctx' = ctx /\ pc' = "aggregates"
  BY DEF RowsIncomparable, CompareColumns, RowsCompared, Return, After
<1>2. TypeOK
  BY DEF IInv
<1>3. ASSUME results'["rows"] \in {"PASS", "FAIL"}, Unique(Src), Unique(Tgt),
             Separated, ScalarsAlike
      PROVE  mism' = KeyMismatches + Cardinality(Differences)
  <2>1. CASE RowsIncomparable
    BY <1>2, <1>3, <2>1 DEF RowsIncomparable, Return, TypeOK, Checks
  <2>2. CASE RowsCompared
    BY <1>3, <2>2, PairsAreDifferences DEF RowsCompared
  <2>3. CASE CompareColumns
    <3>1. mism = KeyMismatches
      BY <2>3 DEF CompareColumns, Reckoned
    <3>2. pairs' = {p \in AllPairs : Beside(p[1], p[2])}
      BY <2>3 DEF CompareColumns, AllPairs
    <3>3. mism' = mism + Cardinality({d \in pairs' \X Compared :
                                        ~SameScalars(d[1][1], d[1][2], d[2])})
      BY <2>3 DEF CompareColumns
    <3>4. Taken /\ Vectorised
      BY <2>3 DEF IInv, Columnwise, CompareColumns
    <3> QED
      BY <1>3, <3>1, <3>2, <3>3, <3>4, ColumnsAreDifferences
  <2> QED
    BY <2>1, <2>2, <2>3
<1>4. CountIsDifferences'
  <2>1. results'["rows"] \in {"PASS", "FAIL"} /\ Unique(Src)' /\ Unique(Tgt)'
        /\ Separated' /\ ScalarsAlike' =>
          mism' = KeyMismatches' + Cardinality(Differences')
    BY <1>1, <1>3, StableHypothesis, StableCounts
  <2> QED
    BY <2>1 DEF CountIsDifferences, KeyMismatches, Differences, AllPairs
<1> QED
  BY <1>1, <1>4 DEF Reckoned, Unreturned, Counting, RowChecks

LEMMA OthersReckoned ==
  ASSUME IInv, Reckoned, ctx' = ctx, results'["rows"] = results["rows"],
         UNCHANGED <<mism, todo, group>>,
         pc' = pc \/ pc' \notin {"columns", "groups", "match"},
         pc' \in RowChecks => pc \in RowChecks
  PROVE  Reckoned'
<1>1. mism' = mism /\ todo' = todo /\ left' = left /\ spare' = spare /\ open' = open
      /\ pairs' = pairs
  BY DEF group
<1>2. Counting'
  BY <1>1, SameContext, StableHypothesis, StableCounts DEF Reckoned, Counting
<1>3. CountIsDifferences'
  <2>1. results["rows"] \in {"PASS", "FAIL"} /\ Unique(Src) /\ Unique(Tgt)
        /\ Separated /\ ScalarsAlike =>
          mism = KeyMismatches + Cardinality(Differences)
    BY CountRestated DEF Reckoned
  <2>2. results'["rows"] \in {"PASS", "FAIL"} /\ Unique(Src)' /\ Unique(Tgt)'
        /\ Separated' /\ ScalarsAlike' =>
          mism' = KeyMismatches' + Cardinality(Differences')
    BY <1>1, <2>1, StableHypothesis, StableCounts
  <2> QED
    BY <2>2 DEF CountIsDifferences, KeyMismatches, Differences, AllPairs
<1>4. Unreturned' /\ (pc' = "columns" => mism' = KeyMismatches')
  BY <1>1, StableCounts DEF Reckoned, Unreturned
<1> QED
  BY <1>2, <1>3, <1>4 DEF Reckoned

LEMMA ReckonedKept ==
  IInv /\ Reckoned /\ [Next]_vars => Reckoned'
<1> SUFFICES ASSUME IInv, Reckoned, [Next]_vars PROVE Reckoned'
  OBVIOUS
<1>1. CASE CheckRows
  BY <1>1, ReturnReckoned, KeysReckoned, OpenReckoned, MatchReckoned DEF CheckRows
<1>2. CASE ~CheckRows
  BY <1>2, OthersKeepRows, OthersReckoned DEF Next
<1> QED
  BY <1>1, <1>2

(* With unique keys on both sides, and no values that are only nearly the  *)
(* same, the mismatch count is the number of differences between the rows: *)
(* as the grouped path counts it, and of columns that are ScalarsAlike the *)
(* vectorised one.                                                         *)
THEOREM CountAlwaysDifferences == Spec => []CountIsDifferences
<1>1. Init => Reckoned
  BY DEF Init, Reckoned, Unreturned, Counting, CountIsDifferences, Checks
<1>2. Reckoned => CountIsDifferences
  BY DEF Reckoned
<1> QED
  BY <1>1, <1>2, InitIInv, NextIInv, ReckonedKept, PTL DEF Spec
------------------------------------------------------------------------------
(* What the two results need not share for the comparison to be exact.     *)

(* Without values that are only nearly the same, a row comparison that     *)
(* comes to a verdict passes exactly the results whose rows match, if it   *)
(* took the grouped path or the columns are ScalarsAlike.                  *)
RowVerdictExact ==
  results["rows"] \in {"PASS", "FAIL"} /\ Separated /\ ScalarsAlike =>
    (results["rows"] = "PASS" <=> Agree)

(* The verdict of RowValidator is that of the definition, not of the order *)
(* in which its greedy pairing takes the rows, for any results whose       *)
(* values are separated; on the vectorised path, which reads numpy's       *)
(* scalars, for columns that are ScalarsAlike.                             *)
THEOREM RowVerdictAlwaysExact == Spec => []RowVerdictExact
<1>1. IInv /\ Fitting => RowVerdictExact
  BY DEF IInv, ResultsOK, Agreement, Trusted, Fitting, RowVerdictExact
<1>2. Init => Unreturned /\ Fitting
  BY DEF Init, Unreturned, Fitting, Checks
<1> QED
  BY <1>1, <1>2, InitIInv, NextIInv, UnreturnedKept, FittingKept, PTL DEF Spec

(* Rows that are the same in another order match.                          *)
LEMMA ReorderedAgree ==
  ASSUME Taken, Reordered
  PROVE  Agree
<1>1. PICK f \in [Positions(Src) -> Positions(Tgt)] :
        /\ \A j \in Positions(Tgt) : \E i \in Positions(Src) : f[i] = j
        /\ \A i \in Positions(Src) : Src.rows[i] = Tgt.rows[f[i]]
  BY DEF Reordered
<1>2. Src.type = Tgt.type /\ Len(Src.rows) = Len(Tgt.rows)
      /\ Src.stored = "artifact" /\ Tgt.stored = "artifact"
  BY DEF Reordered
<1>3. f \in Surjection(Positions(Src), Positions(Tgt))
  BY <1>1 DEF Surjection
<1>4. \A i, x \in Positions(Src) : f[i] = f[x] => i = x
  <2>1. Size(Src) = Size(Tgt)
    BY <1>2 DEF Size
  <2>2. Cardinality(Positions(Src)) = Cardinality(Positions(Tgt))
        /\ IsFiniteSet(Positions(Src)) /\ IsFiniteSet(Positions(Tgt))
    BY <2>1, FramesFinite
  <2>3. f \in Injection(Positions(Src), Positions(Tgt))
    BY <1>3, <2>2, FS_Surjection
  <2> QED
    BY <2>3 DEF Injection, IsInjective
<1>5. \A i \in Positions(Src) : SKey(i) = TKey(f[i])
  <2>1. Filled(Src, Key) = Positions(Src) <=> Filled(Tgt, Key) = Positions(Tgt)
    BY <1>1 DEF Filled
  <2>2. ASSUME NEW i \in Positions(Src) PROVE Shown(Src, Key, i) = Shown(Tgt, Key, f[i])
    <3>1. Src.rows[i] = Tgt.rows[f[i]]
      BY <1>1
    <3> QED
      BY <1>2, <2>1, <3>1 DEF Shown
  <2> QED
    BY <2>2 DEF SKey, TKey
<1> DEFINE p == {<<i, f[i]>> : i \in Positions(Src)}
<1>6. p \in SUBSET (Positions(Src) \X Positions(Tgt))
  BY <1>1
<1>7. Matching(p)
  <2>1. \A i \in Positions(Src) : <<i, f[i]>> \in p /\ f[i] \in Positions(Tgt)
    BY <1>1
  <2>2. \A q \in p : q[1] \in Positions(Src) /\ q[2] = f[q[1]] /\ q = <<q[1], f[q[1]]>>
    OBVIOUS
  <2> HIDE DEF p
  <2>3. \A q \in p : SameKey(q[1], q[2])
    BY <1>5, <2>2 DEF SameKey, SKey, TKey
  <2>4. \A q \in p : \A c \in Compared : Same(Src.rows[q[1]][c], Tgt.rows[q[2]][c])
    BY <1>1, <2>2 DEF Same
  <2>5. \A j \in Positions(Tgt) : \E i \in Positions(Src) : <<i, j>> \in p
    BY <1>1, <2>1
  <2>6. \A q, r \in p : q[1] = r[1] \/ q[2] = r[2] => q = r
    BY <1>4, <2>2
  <2> QED
    BY <2>1, <2>3, <2>4, <2>5, <2>6 DEF Matching
<1> QED
  BY <1>6, <1>7 DEF Agree

(* tests/validation/test_multiset_row_comparison.py has the same rows in   *)
(* another order pass.  They do, for any results, if their values are      *)
(* separated; without that ReorderedRowsPass is refuted.                   *)
SeparatedReorderedPass == Separated => ReorderedRowsPass

(* The order of equal rows never makes RowValidator fail.                  *)
THEOREM SeparatedReorderedAlwaysPass == Spec => []SeparatedReorderedPass
<1>1. Unreturned /\ IInv /\ Fitting => SeparatedReorderedPass
  <2> SUFFICES ASSUME IInv, Fitting, Separated, Reordered, results["rows"] = "FAIL"
               PROVE  FALSE
    BY DEF SeparatedReorderedPass, ReorderedRowsPass
  <2>1. Agree
    BY ReorderedAgree DEF IInv
  <2>2. ScalarsAlike
    BY DEF Reordered, ScalarsAlike, Single
  <2> QED
    BY <2>1, <2>2 DEF Fitting
<1>2. Init => Unreturned /\ Fitting
  BY DEF Init, Unreturned, Fitting, Checks
<1> QED
  BY <1>1, <1>2, InitIInv, NextIInv, UnreturnedKept, FittingKept, PTL DEF Spec

(* Exact values: no tolerance but the relative one, and numbers too small  *)
(* for that to matter, or texts.                                           *)
ExactNull(v) == v.kind = "null" /\ v.reads = "nothing"
ExactNumber(v) ==
  v.kind # "null" /\ v.reads = "finite" /\ v.num \in Int /\ Abs(v.num) < RelDen
ExactText(v) == v.kind \notin {"null", "boolean"} /\ v.reads = "nothing"

ExactColumn(V) ==
  \/ \A v \in V : ExactNull(v) \/ ExactNumber(v)
  \/ \A v \in V : ExactNull(v) \/ ExactText(v)

LEMMA SmallProduct ==
  ASSUME NEW d \in Nat, NEW r \in Nat, d * r < r
  PROVE  d = 0
<1>1. ASSUME d >= 1 PROVE FALSE
  <2>1. PICK e \in Nat : d = e + 1
    BY <1>1
  <2>2. d * r = e * r + r
    BY <2>1
  <2>3. e * r \in Nat
    OBVIOUS
  <2> QED
    BY <2>2, <2>3
<1> QED
  BY <1>1

LEMMA ExactWithin ==
  ASSUME AbsTol = 0, NEW m \in Int, NEW n \in Int, Abs(m) < RelDen, Abs(n) < RelDen
  PROVE  Within(m, n, 1) <=> m = n
<1>1. Abs(m) \in Nat /\ Abs(n) \in Nat /\ Abs(m - n) \in Nat /\ RelDen \in Nat
  BY ComparisonAssumption DEF Abs
<1>2. Larger(Abs(m), Abs(n)) < RelDen
  BY DEF Larger
<1>3. Larger(Abs(m), Abs(n)) \in Nat
  BY <1>1 DEF Larger
<1>4. ASSUME Abs(m - n) * RelDen <= Larger(Abs(m), Abs(n))
      PROVE  Abs(m - n) = 0
  <2> DEFINE d == Abs(m - n)
             l == Larger(Abs(m), Abs(n))
  <2>1. d \in Nat /\ l \in Nat /\ l < RelDen /\ RelDen \in Nat /\ d * RelDen <= l
    BY <1>1, <1>2, <1>3, <1>4
  <2> HIDE DEF d, l
  <2>2. d * RelDen \in Nat
    BY <2>1
  <2>3. d * RelDen < RelDen
    BY <2>1, <2>2
  <2>4. d = 0
    BY <2>1, <2>3, SmallProduct
  <2> QED
    BY <2>4 DEF d
<1>5. Abs(m - n) = 0 <=> m = n
  BY DEF Abs
<1>6. Within(m, n, 1) => m = n
  BY <1>1, <1>4, <1>5 DEF Within
<1>7. m = n => Within(m, n, 1)
  BY <1>1, <1>5 DEF Within
<1> QED
  BY <1>6, <1>7

(* Results of exact values are separated, so the properties above are      *)
(* about them without that condition: FailIsReal is not vacuous.           *)
THEOREM ExactIsSeparated ==
  ASSUME AbsTol = 0,
         \A c \in Compared : ExactColumn({Src.rows[i][c] : i \in Positions(Src)}
                                         \cup {Tgt.rows[j][c] : j \in Positions(Tgt)})
  PROVE  Separated
<1>1. ASSUME NEW V, ExactColumn(V)
      PROVE  /\ \A a \in V : ValuesEqual(a, a)
             /\ \A a, b, d \in V : ValuesEqual(a, b) /\ ValuesEqual(b, d) => ValuesEqual(a, d)
  <2>1. CASE \A v \in V : ExactNull(v) \/ ExactNumber(v)
    <3>1. \A a, b \in V : ValuesEqual(a, b) <=> \/ a.kind = "null" /\ b.kind = "null"
                                                \/ /\ a.reads = "finite" /\ b.reads = "finite"
                                                   /\ Within(a.num, b.num, 1)
      BY <2>1 DEF ValuesEqual, ExactNull, ExactNumber
    <3> QED
      BY <1>1, <2>1, <3>1, ExactWithin DEF ExactNull, ExactNumber
  <2>2. CASE \A v \in V : ExactNull(v) \/ ExactText(v)
    BY <2>2 DEF ValuesEqual, ExactNull, ExactText
  <2> QED
    BY <1>1, <2>1, <2>2 DEF ExactColumn
<1> QED
  BY <1>1 DEF Separated
------------------------------------------------------------------------------
(* A result compared with itself.                                          *)
Reflexive ==
  \A i \in Positions(Src) : \A c \in Compared :
    LET v == Src.rows[i][c] IN v.kind = "null" \/ v.reads \in {"finite", "nothing"}

(* docs/VALIDATION.md: two results that are one and the same pass.  They   *)
(* do in their schema, rows and edge cases unless a value is infinite,     *)
(* which alone refutes IdenticalResultsPass there.  The tolerances need    *)
(* not be transitive: each row finds itself first.                         *)
IdenticalPass ==
  Src = Tgt /\ Reflexive =>
    results["schema"] # "FAIL" /\ results["rows"] # "FAIL" /\ results["edges"] # "FAIL"

(* The rows left of the group at hand are the same on both sides.          *)
Mirrored ==
  pc \in {"columns", "groups", "match"} /\ Src = Tgt /\ Reflexive =>
    /\ mism = 0
    /\ pc = "match" => spare = {} /\ open = left

LEMMA OwnRow ==
  ASSUME Taken, Src = Tgt, Reflexive, NEW i \in Positions(Src)
  PROVE  Unequal(i, i) = {}
<1> SUFFICES ASSUME NEW c \in Compared
             PROVE  ValuesEqual(Src.rows[i][c], Src.rows[i][c])
  BY DEF Unequal
<1> DEFINE v == Src.rows[i][c]
<1>1. v.num \in Int
  BY ComparedNumbers
<1>2. v.kind = "null" \/ v.reads \in {"finite", "nothing"}
  BY DEF Reflexive
<1>3. Within(v.num, v.num, 1)
  <2> HIDE DEF v
  <2> QED
    BY <1>1, ComparisonAssumption DEF Within, Abs
<1> HIDE DEF v
<1>4. ValuesEqual(v, v)
  BY <1>2, <1>3 DEF ValuesEqual
<1> QED
  BY <1>4 DEF v

LEMMA OwnSchema ==
  ASSUME Src = Tgt
  PROVE  SchemaMismatches(Src, Tgt) = 0
<1>1. SchemaMismatches(Src, Src) = Cardinality({}) + Cardinality({}) + Cardinality({}) + 0
  <2> DEFINE sc == Range(Src.names)
  <2>1. sc \ sc = {} /\ {c \in sc \cap sc : Family(Src.type[c]) # Family(Src.type[c])} = {}
    OBVIOUS
  <2> QED
    BY <2>1 DEF SchemaMismatches
<1> QED
  BY <1>1, FS_EmptySet

LEMMA OwnEdges ==
  ASSUME Src = Tgt
  PROVE  EdgeMismatches(Src, Tgt) = 0
<1>1. Diverged(Src, Src) = {}
  BY DEF Diverged
<1> QED
  BY <1>1, FS_EmptySet DEF EdgeMismatches

LEMMA StableReflexive ==
  ASSUME ctx' = ctx
  PROVE  /\ Src' = Src /\ Tgt' = Tgt /\ (Reflexive' <=> Reflexive)
<1>1. /\ Src' = Src /\ Positions(Src)' = Positions(Src) /\ Compared' = Compared /\ Tgt' = Tgt
  BY SameContext, StableHypothesis
<1> QED
  BY <1>1 DEF Reflexive

LEMMA MirroredKept ==
  IInv /\ Mirrored /\ [Next]_vars => Mirrored'
<1> SUFFICES ASSUME IInv, Mirrored, [Next]_vars PROVE Mirrored'
  OBVIOUS
<1>1. Taken /\ TypeOK
  BY DEF IInv
<1>2. CASE RowsIncomparable \/ CompareColumns \/ RowsCompared
  BY <1>2 DEF RowsIncomparable, CompareColumns, RowsCompared, Return, After, Mirrored
<1>3. CASE CompareKeys
  <2>1. ctx' = ctx /\ pc' \in {"columns", "groups"}
        /\ mism' = Cardinality(Missing) + Cardinality(Extra)
    BY <1>3 DEF CompareKeys
  <2>2. Src = Tgt => mism' = 0
    BY <2>1, FS_EmptySet DEF Missing, Extra
  <2> QED
    BY <2>1, <2>2, StableReflexive DEF Mirrored
<1>4. ASSUME NEW k \in todo, OpenGroup(k)
      PROVE  Mirrored'
  BY <1>4, StableReflexive DEF OpenGroup, Mirrored
<1>5. ASSUME NEW i \in left, NEW j \in open, PairExact(i, j)
      PROVE  Mirrored'
  <2>1. /\ pc = "match" /\ ctx' = ctx /\ mism' = mism /\ spare' = spare
        /\ left' = left \ {i} /\ open' = open \ {j}
        /\ \A x \in left : i <= x
        /\ \A y \in open : Unequal(i, y) = {} => j <= y
    BY <1>5 DEF PairExact, Least, Exact
  <2>2. ASSUME Src = Tgt, Reflexive
        PROVE  i = j
    <3>1. open = left
      BY <2>1, <2>2 DEF Mirrored
    <3>2. Unequal(i, i) = {}
      BY <1>1, <2>2, OwnRow DEF TypeOK
    <3>3. i \in Int /\ j \in Int
      <4>1. i \in Positions(Src) /\ j \in Positions(Tgt)
        BY <1>1 DEF TypeOK
      <4> QED
        BY <4>1 DEF Positions
    <3> QED
      BY <2>1, <3>1, <3>2, <3>3
  <2> QED
    BY <2>1, <2>2, StableReflexive DEF Mirrored
<1>6. ASSUME NEW i \in left, PassOver(i)
      PROVE  Mirrored'
  <2>1. pc = "match" /\ ctx' = ctx /\ \A y \in open : Unequal(i, y) # {}
    BY <1>6 DEF PassOver, Exact
  <2>2. ~(Src = Tgt /\ Reflexive)
    BY <1>1, <2>1, OwnRow DEF Mirrored, TypeOK
  <2> QED
    BY <2>1, <2>2, StableReflexive DEF Mirrored
<1>7. ASSUME NEW i \in spare, NEW j \in open, PairClosest(i, j)
      PROVE  Mirrored'
  <2>1. pc = "match" /\ ctx' = ctx
    BY <1>7 DEF PairClosest
  <2> QED
    BY <1>7, <2>1, StableReflexive DEF Mirrored
<1>8. CASE CloseGroup
  <2>1. /\ pc = "match" /\ pc' = "groups" /\ ctx' = ctx /\ left = {}
        /\ mism' = mism + Cardinality(spare) + Cardinality(open)
    BY <1>8 DEF CloseGroup
  <2> QED
    BY <2>1, StableReflexive, FS_EmptySet DEF Mirrored
<1>9. CASE ~CheckRows
  <2>1. /\ ctx' = ctx /\ UNCHANGED <<mism, todo, group>>
        /\ pc' = pc \/ pc' \notin {"columns", "groups", "match"}
    BY <1>9, OthersKeepRows DEF Next
  <2> QED
    BY <2>1, StableReflexive DEF Mirrored, group
<1> QED
  BY <1>2, <1>3, <1>4, <1>5, <1>6, <1>7, <1>8, <1>9 DEF CheckRows, MatchRows

LEMMA IdenticalKept ==
  IInv /\ Unreturned /\ Mirrored /\ IdenticalPass /\ [Next]_vars => IdenticalPass'
<1> SUFFICES ASSUME IInv, Unreturned, Mirrored, IdenticalPass, [Next]_vars,
                    Src' = Tgt', Reflexive'
             PROVE  results'["schema"] # "FAIL" /\ results'["rows"] # "FAIL"
                    /\ results'["edges"] # "FAIL"
  BY DEF IdenticalPass
<1>1. TypeOK /\ Taken
  BY DEF IInv
<1>2. ctx' = ctx
  <2>1. CASE CheckRows
    BY <2>1 DEF CheckRows, MatchRows, RowsIncomparable, CompareKeys, CompareColumns, OpenGroup,
                PairExact, PassOver, PairClosest, CloseGroup, RowsCompared, Return
  <2>2. CASE ~CheckRows
    BY <2>2, OthersKeepRows DEF Next
  <2> QED
    BY <2>1, <2>2
<1>3. Src = Tgt /\ Reflexive
  BY <1>2, StableReflexive
<1>4. results["schema"] # "FAIL" /\ results["rows"] # "FAIL" /\ results["edges"] # "FAIL"
  BY <1>3 DEF IdenticalPass
<1>5. ASSUME NEW check \in Checks, NEW status, Return(check, status),
             check \in {"schema", "rows", "edges"} => status # "FAIL"
      PROVE  results'["schema"] # "FAIL" /\ results'["rows"] # "FAIL"
             /\ results'["edges"] # "FAIL"
  BY <1>1, <1>4, <1>5 DEF Return, TypeOK, Checks
<1>6. {"schema", "rows", "aggregates", "rules", "edges"} \subseteq Checks
  BY DEF Checks
<1>7. CASE CheckSchema
  <2>1. Return("schema", "PASS")
    BY <1>3, <1>7, OwnSchema DEF CheckSchema, Verdict
  <2> QED
    BY <1>5, <1>6, <2>1
<1>8. CASE CheckEdges
  <2>1. \E s \in {"PASS", "SKIPPED"} : Return("edges", s)
    BY <1>3, <1>8, OwnEdges DEF CheckEdges, Verdict
  <2> QED
    BY <1>5, <1>6, <2>1
<1>9. CASE RowsIncomparable
  <2>1. Return("rows", "ERROR")
    BY <1>9 DEF RowsIncomparable
  <2> QED
    BY <1>5, <1>6, <2>1
<1>10. CASE RowsCompared
  <2>1. mism = 0 /\ Return("rows", Verdict(mism))
    BY <1>3, <1>10 DEF RowsCompared, Mirrored
  <2> QED
    BY <1>5, <1>6, <2>1 DEF Verdict
<1>11. CASE CompareColumns
  <2> DEFINE differ == {d \in pairs' \X Compared : ~SameScalars(d[1][1], d[1][2], d[2])}
  <2>1. /\ mism = 0 /\ Vectorised
        /\ pairs' = {p \in Positions(Src) \X Positions(Tgt) : Beside(p[1], p[2])}
        /\ mism' = mism + Cardinality(differ)
        /\ Return("rows", Verdict(mism'))
    BY <1>3, <1>11 DEF CompareColumns, Mirrored, IInv, Columnwise
  <2>2. \A p \in pairs' : p[1] = p[2]
    BY <1>1, <1>3, <2>1, OneRowEach DEF Beside, SameKey, SKey, TKey, Vectorised
  <2>3. \A i, c : SameScalars(i, i, c)
    BY <1>3 DEF SameScalars, Same
  <2>4. differ = {}
    BY <2>2, <2>3
  <2>5. mism' = 0
    <3> HIDE DEF differ
    <3> QED
      BY <2>1, <2>4, FS_EmptySet
  <2> QED
    BY <1>5, <1>6, <2>1, <2>5 DEF Verdict
<1>12. CASE CheckAggregates
  <2>1. \E s : Return("aggregates", s)
    BY <1>12 DEF CheckAggregates
  <2> QED
    BY <1>5, <1>6, <2>1
<1>13. CASE \E s \in Statuses : CheckRules(s)
  <2>1. \E s : Return("rules", s)
    BY <1>13 DEF CheckRules
  <2> QED
    BY <1>5, <1>6, <2>1
<1>14. CASE \/ CompareKeys \/ (\E k \in todo : OpenGroup(k)) \/ MatchRows
            \/ (\E c \in Checks : Skip(c)) \/ Aggregate \/ UNCHANGED vars
  BY <1>4, <1>14 DEF CompareKeys, OpenGroup, MatchRows, PairExact, PassOver, PairClosest, CloseGroup,
                     Skip, Aggregate, vars
<1> QED
  BY <1>7, <1>8, <1>9, <1>10, <1>11, <1>12, <1>13, <1>14 DEF Next, CheckRows

(* A result compared with itself fails neither the schema, nor the rows,   *)
(* nor the edge cases, whatever the tolerances, unless a value is          *)
(* infinite.                                                               *)
THEOREM IdenticalAlwaysPass == Spec => []IdenticalPass
<1>1. Init => Unreturned /\ Mirrored /\ IdenticalPass
  BY DEF Init, Unreturned, Mirrored, IdenticalPass, Checks
<1> QED
  BY <1>1, InitIInv, NextIInv, UnreturnedKept, MirroredKept, IdenticalKept, PTL DEF Spec
------------------------------------------------------------------------------
(* The comparison ends: what is still to be done, from the outer loop to    *)
(* the inner ones.                                                          *)
Stage ==
  CASE pc = "schema"                         -> 7
    [] pc = "rows"                           -> 6
    [] pc \in {"columns", "groups", "match"} -> 5
    [] pc = "aggregates"                     -> 4
    [] pc = "rules"                          -> 3
    [] pc = "edges"                          -> 2
    [] pc = "overall"                        -> 1
    [] OTHER                                 -> 0

Smaller(S, T) == IsFiniteSet(T) /\ S \subseteq T /\ S # T

(* Each step ends a check, takes up a key, closes its group, tries a row of *)
(* the source or pairs a spare one, and undoes nothing of the loops around. *)
NextIsProgress ==
  \/ Stage' < Stage
  \/ /\ Stage' = Stage
     /\ \/ Smaller(todo', todo)
        \/ /\ todo' = todo
           /\ \/ pc = "match" /\ pc' = "groups"
              \/ /\ pc = "match" /\ pc' = "match"
                 /\ Smaller(left', left) \/ (left' = left /\ Smaller(spare', spare))

(* What the loops count down is finite.                                     *)
LEMMA CountedDown == IInv => IsFiniteSet(todo) /\ IsFiniteSet(left) /\ IsFiniteSet(spare)
<1> SUFFICES ASSUME IInv PROVE IsFiniteSet(todo) /\ IsFiniteSet(left) /\ IsFiniteSet(spare)
  OBVIOUS
<1>1. todo \subseteq Keys(Src) /\ left \subseteq Positions(Src) /\ spare \subseteq Positions(Src)
  BY DEF IInv, TypeOK
<1> QED  BY <1>1, FramesFinite, KeysFinite, FS_Subset DEF IInv

LEMMA NextProgresses == ASSUME IInv, Next PROVE NextIsProgress
<1>1. ASSUME NEW check \in Checks, pc = check \/ (check = "rows" /\ pc \in RowChecks \ {"schema"}),
             pc' = After[check]
      PROVE  Stage' < Stage
  BY <1>1 DEF Checks, After, Stage, RowChecks
<1>2. CASE \E c \in Checks : Skip(c)
  BY <1>1, <1>2 DEF Skip, NextIsProgress
<1>3. CASE CheckSchema
  BY <1>1, <1>3 DEF CheckSchema, Enabled, Return, Checks, NextIsProgress
<1>4. CASE RowsIncomparable \/ CompareColumns \/ RowsCompared
  <2>1. pc \in RowChecks \ {"schema"} /\ pc' = After["rows"] /\ "rows" \in Checks
    BY <1>4 DEF RowsIncomparable, CompareColumns, RowsCompared, Enabled, Return, RowChecks, Checks
  <2> QED  BY <1>1, <2>1 DEF NextIsProgress
<1>5. CASE CompareKeys
  <2>1. pc = "rows" /\ pc' \in {"columns", "groups"}
    BY <1>5 DEF CompareKeys, Enabled
  <2> QED  BY <2>1 DEF Stage, NextIsProgress
<1>6. ASSUME NEW k \in todo, OpenGroup(k)
      PROVE  NextIsProgress
  <2>1. Stage' = Stage /\ Smaller(todo', todo)
    BY <1>6, CountedDown DEF OpenGroup, Stage, Smaller
  <2> QED  BY <2>1 DEF NextIsProgress
<1>7. CASE MatchRows
  <2>1. pc = "match" /\ todo' = todo /\ pc' \in {"match", "groups"}
    BY <1>7 DEF MatchRows, PairExact, PassOver, PairClosest, CloseGroup
  <2>2. Stage' = Stage
    BY <2>1 DEF Stage
  <2>3. ASSUME NEW i \in left, NEW j \in open, PairExact(i, j)
        PROVE  pc' = "match" /\ Smaller(left', left)
    BY <2>1, <2>3, CountedDown DEF PairExact, Smaller
  <2>4. ASSUME NEW i \in left, PassOver(i)
        PROVE  pc' = "match" /\ Smaller(left', left)
    BY <2>1, <2>4, CountedDown DEF PassOver, Smaller
  <2>5. ASSUME NEW i \in spare, NEW j \in open, PairClosest(i, j)
        PROVE  pc' = "match" /\ left' = left /\ Smaller(spare', spare)
    BY <2>1, <2>5, CountedDown DEF PairClosest, Smaller
  <2>6. CASE CloseGroup
    BY <2>1, <2>2, <2>6 DEF CloseGroup, NextIsProgress
  <2> QED
    BY <1>7, <2>1, <2>2, <2>3, <2>4, <2>5, <2>6 DEF MatchRows, NextIsProgress
<1>8. CASE CheckAggregates
  <2>1. pc = "aggregates" /\ pc' = After["aggregates"]
    BY <1>8 DEF CheckAggregates, Enabled, Return
  <2> QED  BY <1>1, <2>1 DEF Checks, NextIsProgress
<1>9. CASE \E s \in Statuses : CheckRules(s)
  BY <1>1, <1>9 DEF CheckRules, Enabled, Return, Checks, NextIsProgress
<1>10. CASE CheckEdges
  BY <1>1, <1>10 DEF CheckEdges, Enabled, Return, Checks, NextIsProgress
<1>11. CASE Aggregate
  BY <1>11 DEF Aggregate, Stage, NextIsProgress
<1> QED
  BY <1>2, <1>3, <1>4, <1>5, <1>6, <1>7, <1>8, <1>9, <1>10, <1>11 DEF Next, CheckRows

(* No validation runs on: every step of the group-wise comparison counts    *)
(* down one of its nested loops, for frames of any size.                    *)
THEOREM ValidationProgresses == Spec => [][NextIsProgress]_vars
<1>1. IInv /\ [Next]_vars => [NextIsProgress]_vars
  BY NextProgresses
<1> QED
  BY <1>1, InitIInv, NextIInv, PTL DEF Spec
==============================================================================

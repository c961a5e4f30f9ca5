----------------------------- MODULE MCValidation -----------------------------
(***************************************************************************)
(* Families of small results, one for each thing the validators must tell  *)
(* apart: rows of one key, keys, types and texts, storage, scalars.        *)
(***************************************************************************)
EXTENDS Validation

MCNumber(n, text) ==
  [kind |-> "number", reads |-> "finite", num |-> n, text |-> text, bare |-> text,
   decimal |-> text \o ".0"]
MCZero == MCNumber(0, "0")
MCOne == MCNumber(1, "1")
MCTwo == MCNumber(2, "2")
MCFive == MCNumber(5, "5")
MCInfinite ==
  [kind |-> "number", reads |-> "infinite", num |-> 0, text |-> "inf", bare |-> "inf",
   decimal |-> "inf"]
MCNull ==
  [kind |-> "null", reads |-> "nothing", num |-> 0, text |-> "", bare |-> "", decimal |-> ""]
MCText(text, bare) ==
  [kind |-> "text", reads |-> "nothing", num |-> 0, text |-> text, bare |-> bare,
   decimal |-> text]
MCCode(text, n) ==
  [kind |-> "text", reads |-> "finite", num |-> n, text |-> text, bare |-> text,
   decimal |-> text]
MCBoolean(n, text) ==
  [kind |-> "boolean", reads |-> "finite", num |-> n, text |-> text, bare |-> text,
   decimal |-> text]
MCTrue == MCBoolean(1, "True")
MCFalse == MCBoolean(0, "False")

MCPlain(base) == [base |-> base, sized |-> FALSE]

MCResult(names, types, rows, stored) ==
  [names |-> names, type |-> types, rows |-> rows, stored |-> stored]

MCPair(s, t, enabled, analysed) ==
  [src |-> s, tgt |-> t, enabled |-> enabled, analysed |-> analysed]

MCSequences(S, lengths) == UNION {[1..n -> S] : n \in lengths}

(* Rows of one key whose values are within the tolerance of the next.      *)
MCKeyed == [k |-> MCPlain("VARCHAR"), v |-> MCPlain("DOUBLE")]
MCOneKey(values, lengths) ==
  {MCResult(<<"k", "v">>, MCKeyed, rows, "artifact") :
     rows \in MCSequences({[k |-> MCText("a", "a"), v |-> v] : v \in values}, lengths)}

MCNearContexts ==
  {MCPair(s, t, {"schema", "rows"}, FALSE) :
     s \in MCOneKey({MCZero, MCOne, MCTwo}, {2, 3}), t \in MCOneKey({MCZero, MCOne, MCTwo}, {2, 3})}
MCRowContexts ==
  {MCPair(s, t, Checks, FALSE) :
     s \in MCOneKey({MCZero, MCFive, MCInfinite, MCNull}, 0..2),
     t \in MCOneKey({MCZero, MCFive, MCInfinite, MCNull}, 0..2)}

(* Two keys, a NULL key, an integer key that becomes a float beside it,    *)
(* and two compared columns, so that a closest pair is not an exact one.   *)
MCWide == [k |-> MCPlain("INTEGER"), v |-> MCPlain("INTEGER"), w |-> MCPlain("VARCHAR")]
MCWideRows ==
  [k : {MCOne, MCFive, MCNull}, v : {MCZero, MCFive}, w : {MCText("x", "x"), MCText("y", "y")}]
MCKeyContexts ==
  {MCPair(MCResult(<<"k", "v", "w">>, MCWide, s, "artifact"),
          MCResult(<<"k", "v", "w">>, MCWide, t, "artifact"), Checks, FALSE) :
     s \in MCSequences(MCWideRows, {2}), t \in MCSequences(MCWideRows, 1..2)}

(* One row over columns of different names, orders and types; what is left *)
(* of either result; analyses.                                             *)
MCTyped ==
  { <<MCPlain("VARCHAR"), MCText("x", "x")>>, <<MCPlain("VARCHAR"), MCText(" x", "x")>>,
    <<MCPlain("TEXT"), MCCode("007", 7)>>, <<MCPlain("VARCHAR"), MCCode("7", 7)>>,
    <<MCPlain("BOOLEAN"), MCTrue>>, <<MCPlain("BIGINT"), MCFive>>,
    <<[base |-> "DECIMAL", sized |-> TRUE], MCFive>> }
MCSmall ==
  {MCResult(<<"k", "v">>, [k |-> MCPlain("VARCHAR"), v |-> tv[1]],
            [i \in 1..n |-> [k |-> MCText("a", "a"), v |-> tv[2]]], stored) :
     tv \in MCTyped, n \in 0..3, stored \in {"artifact", "sample", "nothing"}}
  \cup
  {MCResult(names, [c \in {names[1], names[2]} |-> MCPlain("VARCHAR")],
            << [c \in {names[1], names[2]} |-> MCText("a", "a")] >>, "artifact") :
     names \in {<<"v", "k">>, <<"k", "w">>}}
MCSmallContexts ==
  {MCPair(s, t, Checks, a) : s \in MCSmall, t \in MCSmall, a \in BOOLEAN}

(* Columns of floats of either width, of booleans and of texts that read   *)
(* like one, with and without a NULL: two keys, or one key twice.          *)
MCScalars ==
  [ FLOAT |-> {MCFive, MCNull}, DOUBLE |-> {MCFive, MCNull},
    BOOLEAN |-> {MCTrue, MCFalse, MCNull},
    VARCHAR |-> {MCText("False", "False"), MCText("nan", "nan"), MCNull} ]
MCScalarResults(keys, stored) ==
  UNION {{MCResult(<<"k", "v">>, [k |-> MCPlain("VARCHAR"), v |-> MCPlain(base)],
                   [i \in DOMAIN keys |-> [k |-> MCText(keys[i], keys[i]), v |-> vs[i]]], stored) :
            vs \in [DOMAIN keys -> MCScalars[base]]} : base \in DOMAIN MCScalars}
MCScalarSides ==
  MCScalarResults(<<"a">>, "artifact") \cup MCScalarResults(<<"a">>, "sample")
  \cup MCScalarResults(<<"a", "b">>, "artifact") \cup MCScalarResults(<<"a", "a">>, "artifact")
MCScalarContexts ==
  {MCPair(s, t, {"schema", "rows"}, FALSE) : s \in MCScalarSides, t \in MCScalarSides}

MCContexts ==
  <<MCNearContexts, MCRowContexts, MCKeyContexts, MCSmallContexts, MCScalarContexts>>
MCBoundaries == {5}
==============================================================================

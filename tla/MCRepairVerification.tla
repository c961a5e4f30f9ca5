------------------------- MODULE MCRepairVerification -------------------------
(***************************************************************************)
(* RepairVerification on four discrepancies: a column, another category    *)
(* on the same column, a rule of that column, and one without a path.      *)
(***************************************************************************)
EXTENDS RepairVerification

MCRecord(sig, cat, path, rows) == [sig |-> sig, cat |-> cat, path |-> path, rows |-> rows]

(* 30000 to 29999 is a reduction of 0.0 %.                                 *)
MCRecords ==
  {MCRecord(1, "BOUNDARY_CONDITION", {"risk"}, n) : n \in {Unknown, 0, 29999, 30000}}
  \cup {MCRecord(2, "CASE_LOGIC", {"risk"}, n) : n \in {Unknown, 30000}}
  \cup {MCRecord(3, "BOUNDARY_CONDITION", {"risk", "rule"}, n) : n \in {0, 29999}}
  \cup {MCRecord(4, "UNKNOWN", Global, Unknown)}

MCSelect(outputs, tables, changed) ==
  [kind |-> "select", outputs |-> outputs, tables |-> tables, changed |-> changed]

(* One statement for every check that can refuse it, and three that pass.  *)
MCStatements ==
  { MCSelect("same", "same", {"risk"}), MCSelect("same", "same", {"joins"}),
    MCSelect("unnamed", "same", {"where", "rest"}), MCSelect("same", "same", {"group"}),
    MCSelect("same", "same", {}), MCSelect("other", "same", {}), MCSelect("same", "other", {}),
    [kind |-> "garbage", outputs |-> "other", tables |-> "other", changed |-> {"rest"}],
    [kind |-> "mutation", outputs |-> "other", tables |-> "same", changed |-> {"rest"}],
    [kind |-> "command", outputs |-> "other", tables |-> "other", changed |-> {"rest"}] }

MCOutputs == {"risk"}
MCRegions == {{}, {"join"}, {"risk", "where"}}
MCStrictRegion == {"columns"}

MCClaim(of, cites) == [of |-> of, cites |-> cites]
MCClaimSets ==
  { {}, {MCClaim("diagnosis", "pack")}, {MCClaim("repair", "pack")},
    {MCClaim("diagnosis", "pack"), MCClaim("repair", "nothing")},
    {MCClaim("repair", "other")} }
==============================================================================

------------------------------- MODULE GCRule -------------------------------
(***************************************************************************)
(* Garbage collection rules (column_family.cc): which of them are valid,   *)
(* and whether a rule tells to erase a cell.  A rule is a record: of kind  *)
(* "age" or "versions" with a number n, of kind "union" or "intersection"  *)
(* with a set of rules, or of kind "unset".                                *)
(***************************************************************************)
EXTENDS Integers, FiniteSets

(* A maximum age is at least a millisecond, and a version at least is kept. *)
RECURSIVE CheckGCRuleIsValid(_)
CheckGCRuleIsValid(rule) ==
    CASE rule.kind \in {"age", "versions"} -> rule.n >= 1
      [] rule.kind \in {"union", "intersection"} ->
            \A r \in rule.rules : CheckGCRuleIsValid(r)
      [] OTHER -> TRUE

(***************************************************************************)
(* Whether to erase the cell at ts, of which rank newer versions are kept, *)
(* when the clock says now.                                                *)
(***************************************************************************)
RECURSIVE GCRuleEraseVerdict(_, _, _, _)
GCRuleEraseVerdict(rule, ts, rank, now) ==
    CASE rule.kind = "age" -> ts < now - rule.n
      [] rule.kind = "versions" -> rank >= rule.n
      [] rule.kind = "intersection" ->
            /\ rule.rules # {}
            /\ \A r \in rule.rules : GCRuleEraseVerdict(r, ts, rank, now)
      [] rule.kind = "union" ->
            \E r \in rule.rules : GCRuleEraseVerdict(r, ts, rank, now)
      [] OTHER -> FALSE

-----------------------------------------------------------------------------
(***************************************************************************)
(* The garbage among the cells of a column, defined rule by rule: what is  *)
(* too old, what is not one of the newest, what a member of a union or     *)
(* every member of an intersection says.                                   *)
(***************************************************************************)
RECURSIVE GCRuleGarbage(_, _, _)
GCRuleGarbage(rule, cells, now) ==
    CASE rule.kind = "age" -> {ts \in cells : ts < now - rule.n}
      [] rule.kind = "versions" ->
            {ts \in cells : Cardinality({newer \in cells : ts < newer}) >= rule.n}
      [] rule.kind = "union" -> UNION {GCRuleGarbage(r, cells, now) : r \in rule.rules}
      [] rule.kind = "intersection" ->
            {ts \in cells : /\ rule.rules # {}
                            /\ \A r \in rule.rules : ts \in GCRuleGarbage(r, cells, now)}
      [] OTHER -> {}

=============================================================================

------------------------------ MODULE MCColumnGC ------------------------------
(* ColumnGC for TLC, with the rules of GCRule nested up to three deep. *)
EXTENDS ColumnGC, GCRule

Leaf ==
    {[kind |-> "unset"]}
        \union {[kind |-> kind, n |-> n] : kind \in {"age", "versions"}, n \in 1 .. 2}

Composite(rules) ==
    {[kind |-> kind, rules |-> rs] : kind \in {"union", "intersection"},
                                     rs \in {S \in SUBSET rules : Cardinality(S) <= 2}}

Nested ==
    {[kind |-> kind, rules |-> {leaf, [kind |-> other, rules |-> {l1, l2}]}] :
        kind \in {"union", "intersection"}, other \in {"union", "intersection"},
        leaf \in Leaf, l1 \in {l \in Leaf : l.kind = "age"},
        l2 \in {l \in Leaf : l.kind = "versions"}}

(* Every rule is one that ConstructColumnFamily and SetGCRule accept. *)
MCRule == {r \in Leaf \union Composite(Leaf) \union Nested : CheckGCRuleIsValid(r)}

MCTime == 0 .. 3

RECURSIVE RuleDepth(_)
RuleDepth(r) ==
    IF r.kind \in {"union", "intersection"}
      THEN Max({0} \union {1 + RuleDepth(part) : part \in r.rules})
      ELSE 0

=============================================================================

----------------------------- MODULE MCFilters -----------------------------
(***************************************************************************)
(* Filters of each kind, chains of two and three, interleaves and          *)
(* conditions, on tables of up to six cells; row samples of every set of   *)
(* rows for SampleRowKeys.                                                 *)
(***************************************************************************)
EXTENDS SampleRowKeys

Cell(r, f, n, t, v) ==
    [kind |-> "cell", row |-> r, family |-> f, column |-> n, time |-> t,
     value |-> v, label |-> 0]

(* A column with three versions, a second column, a second family with a   *)
(* column of the same name, a second row.                                  *)
Newest == Cell(1, 1, 1, 3, 1)
Base == {Cell(1, 1, 1, 2, 2), Cell(1, 2, 1, 1, 1), Cell(2, 1, 1, 1, 1)}

MCTables == {{}} \union {{Newest, Cell(1, 1, 1, 1, 1), Cell(1, 1, 2, 1, 2)} \union s :
                s \in SUBSET Base}
            \union {{Cell(1, 2, 2, 1, 1), Cell(2, 1, 1, 2, 2)} \union s :
                s \in {{}, Base}}

Keep(kind, keep) == [kind |-> kind, keep |-> keep]
Number(kind, n) == [kind |-> kind, n |-> n]
Plain(kind) == [kind |-> kind]
(* A regex that matches the first family, anchored or not.                 *)
Family(prefixed) == [kind |-> "family", keep |-> {1}, prefixed |-> prefixed]
Chain(of) == [kind |-> "chain", of |-> of]
Interleaved(of) == [kind |-> "interleave", of |-> of]
Condition(if, yes, no) == [kind |-> "condition", if |-> if, yes |-> yes, no |-> no]

Pushable ==
    {Keep("row", {1}), Keep("row", {2}), Keep("column", {1}), Family({1}), Family({}),
     [kind |-> "columnRange", family |-> 1, keep |-> {2}],
     [kind |-> "times", start |-> 2, end |-> 0],
     [kind |-> "times", start |-> 1, end |-> 3]}

Counting ==
    {Number("offset", 1), Number("limit", 2), Number("columnLimit", 1),
     Number("columnLimit", 2)}

Others ==
    {Plain("pass"), Plain("block"), Plain("strip"), Keep("value", {2}),
     Keep("sample", {2}), [kind |-> "label", label |-> 1]}

Single == Pushable \union Counting \union Others

Sink == Plain("sink")
Invalid == Plain("invalid")

Interleaves == {Interleaved(<<a, b>>) : a \in Counting \union {Sink}, b \in Single}

Conditions ==
    {Condition(a, b, c) : a \in {Keep("column", {2}), Keep("value", {2}), Number("offset", 1)},
        b \in Counting \union {Family({1})}, c \in Pushable \union {Chain(<<Sink>>)}}

MCRowFilters ==
    {Keep("sample", {}), Keep("sample", {1}), Keep("sample", {1, 2})} \union
    {Sink, Invalid, Interleaved(<<Sink>>), Chain(<<Sink, Invalid>>),
     Interleaved(<<Sink, Invalid>>), Condition(Plain("pass"), Sink, Plain("pass")),
     Condition(Plain("pass"), Plain("block"), Chain(<<Invalid>>))}
    \union Single \union Interleaves \union Conditions
    \union {Chain(<<a, b>>) : a, b \in Single}
    \union {Chain(<<a, b, c>>) : a \in Counting, b \in Single, c \in Pushable}
    \union {Chain(<<a, b>>) : a \in Interleaves \union Conditions, b \in Pushable}
    \union {Chain(<<a, b>>) : a \in {Number("limit", 2), Keep("row", {1}), Keep("column", {1})},
                             b \in Conditions}
    \union {Chain(<<Interleaved(<<Plain("pass"), Plain("strip")>>), b>>) :
                b \in Counting}

=============================================================================

---------------------------- MODULE FilterMeaning ----------------------------
(***************************************************************************)
(* What a row filter says: from the cells it is given, in order, those it  *)
(* lets out and those its sinks send directly to the reader.  This is the  *)
(* reference for Filters; nothing is pushed down, skipped or pulled here.  *)
(***************************************************************************)
EXTENDS CellOrder, FiniteSets, SequencesExt

(* What single filters ask of a cell.                                      *)
Keeps(f, c) ==
    \/ f.kind = "row" /\ c.row \in f.keep
    \/ f.kind = "sample" /\ c.row \in f.keep    \* the outcome of the draws
    \/ f.kind = "family" /\ c.family \in f.keep
    \/ f.kind = "column" /\ c.column \in f.keep
    \/ f.kind = "value" /\ c.value \in f.keep
    \/ f.kind = "columnRange" /\ c.family = f.family /\ c.column \in f.keep
    \/ f.kind = "times" /\ f.start <= c.time /\ (f.end = 0 \/ c.time < f.end)

Transformed(f, c) ==
    IF f.kind = "strip" THEN [c EXCEPT !.value = 0] ELSE [c EXCEPT !.label = f.label]

-----------------------------------------------------------------------------
(* The cells at the positions that a predicate takes.                      *)
Where(cells, P(_)) ==
    LET taken == SelectSeq([i \in 1..Len(cells) |-> i], P)
    IN [i \in 1..Len(taken) |-> cells[taken[i]]]

EarlierInRow(cells, i) ==
    Cardinality({j \in 1..(i - 1) : SameRow(cells[j], cells[i])})

EarlierInColumn(cells, i) ==
    Cardinality({j \in 1..(i - 1) : SameColumn(cells[j], cells[i])})

RowsOf(cells) == {cells[i].row : i \in 1..Len(cells)}

Outcome(out, sinks) == [out |-> out, sinks |-> sinks]

RECURSIVE Says(_, _), SaysChain(_, _)

SaysChain(filters, cells) ==
    IF filters = <<>> THEN Outcome(cells, <<>>)
    ELSE LET first == Says(filters[1], cells)
             others == SaysChain(Tail(filters), first.out)
         IN Outcome(others.out, first.sinks \o others.sinks)

Says(f, cells) ==
    CASE f.kind = "pass" -> Outcome(cells, <<>>)
      [] f.kind = "block" -> Outcome(<<>>, <<>>)
      [] f.kind = "sink" -> Outcome(<<>>, cells)
      [] f.kind = "offset" ->
            Outcome(Where(cells, LAMBDA i : EarlierInRow(cells, i) >= f.n), <<>>)
      [] f.kind = "limit" ->
            Outcome(Where(cells, LAMBDA i : EarlierInRow(cells, i) < f.n), <<>>)
      [] f.kind = "columnLimit" ->
            Outcome(Where(cells, LAMBDA i : EarlierInColumn(cells, i) < f.n), <<>>)
      [] f.kind \in {"label", "strip"} ->
            Outcome([i \in 1..Len(cells) |-> Transformed(f, cells[i])], <<>>)
      [] f.kind = "chain" -> SaysChain(f.of, cells)
      [] f.kind = "interleave" ->
            LET each == [i \in DOMAIN f.of |-> Says(f.of[i], cells)]
            IN Outcome(SortSeq(FlattenSeq([i \in DOMAIN each |-> each[i].out]),
                               FreshestFirst),
                       FlattenSeq([i \in DOMAIN each |-> each[i].sinks]))
      [] f.kind = "condition" ->
            LET Of(row) == SelectSeq(cells, LAMBDA c : c.row = row)
                rows == SetToSortSeq(RowsOf(cells), <)
                Branch(row) == IF Says(f.if, Of(row)).out # <<>> THEN f.yes ELSE f.no
            IN Outcome(FlattenSeq([i \in DOMAIN rows |->
                            Says(Branch(rows[i]), Of(rows[i])).out]), <<>>)
      [] OTHER -> Outcome(SelectSeq(cells, LAMBDA c : Keeps(f, c)), <<>>)

Meaning(f, cells) == Says(f, cells).sinks \o Says(f, cells).out

-----------------------------------------------------------------------------
(* The known gaps: filters that do not compose as they say.                *)
SubFilters(f) ==
    CASE f.kind \in {"chain", "interleave"} -> ToSet(f.of)
      [] f.kind = "condition" -> {f.if, f.yes, f.no}
      [] OTHER -> {}

RECURSIVE Within(_), Regular(_)

Within(f) == {f} \union UNION {Within(g) : g \in SubFilters(f)}

Has(f, P(_)) == \E g \in Within(f) : P(g)

CountsRow(f) == f.kind = "limit"
Counts(f) == f.kind \in {"limit", "offset", "columnLimit"}
SkipsColumns(f) ==
    f.kind \in {"family", "column", "columnRange", "times", "columnLimit"}
HasEnd(f) == f.kind = "times" /\ f.end # 0
Merges(f) == f.kind = "interleave"
Sinks(f) == f.kind = "sink"

(* A limit per row does not count the cells of the columns that a later    *)
(* filter skips; a range of timestamps that could not be pushed below a    *)
(* count skips the older cells with the newer ones; what counts after an   *)
(* interleave finds the oldest cell of several first.                      *)
Disturbs(f, g) ==
    \/ Has(f, CountsRow) /\ Has(g, SkipsColumns)
    \/ Has(f, Counts) /\ Has(g, HasEnd)
    \/ Has(f, Merges) /\ Has(g, Counts)

(* And a sink in a condition takes the rows of the other branch as well.   *)
Regular(f) ==
    /\ \A g \in SubFilters(f) : Regular(g)
    /\ f.kind = "chain" =>
        \A i, j \in DOMAIN f.of : i < j => ~Disturbs(f.of[i], f.of[j])
    /\ f.kind = "condition" => ~Has(f, Sinks)

(* In RocksDB a column range drops every family, a family regex is matched *)
(* against another name, and one of several regexes of a kind is enough.   *)
RegularInStorage(f) ==
    \A g \in Within(f) :
        /\ g.kind # "columnRange"
        /\ g.kind = "family" => g.prefixed = g.keep
        /\ g.kind = "chain" =>
            \A i, j \in DOMAIN g.of : i < j =>
                \A a \in Within(g.of[i]), b \in Within(g.of[j]) :
                    a.kind = b.kind /\ a.kind \in {"row", "column"} => a = b

=============================================================================

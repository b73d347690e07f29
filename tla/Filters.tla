------------------------------- MODULE Filters -------------------------------
(***************************************************************************)
(* Reading a table through a row filter: CreateFilter (src/filter.cc)      *)
(* builds a graph of streams from the filter of the request, pushing as    *)
(* much as it can down into the streams it has already built, and the      *)
(* reader pulls one cell after another.                                    *)
(*                                                                         *)
(* A stream is a record: the cells of one family (FamilyStream shows that  *)
(* the real one is such a sequence), a merge of streams (MergeStreams), or *)
(* a filter, transformer or condition over streams.  A constructor that is *)
(* called twice is a record that is used twice.  A stream is initialised   *)
(* when the graph is complete rather than on its first use: its users ask  *)
(* HasValue before anything else.                                          *)
(***************************************************************************)
EXTENDS FilterMeaning, FiniteSetsExt

CONSTANTS
    Tables,     \* contents of the table: sets of cells
    RowFilters  \* the filters of the requests

VARIABLES
    stored,     \* GetGlobalStorage() is not null
    table,      \* the cells of the table, in RocksDB if stored
    filter,     \* the request's filter
    pc,         \* "build", "read", "done" or "refused"
    stream,     \* the stream made by CreateFilter
    shown       \* the cells the reader has taken

vars == <<stored, table, filter, pc, stream, shown>>

None == [kind |-> "none"]
Empty == [kind |-> "empty"]     \* EmptyCellStreamImpl

-----------------------------------------------------------------------------
(* The kinds that are tried on the stream below first (InternalFilter).    *)
Pushed == {"row", "family", "column", "columnRange", "times"}

(* The mode by which a TrivialFilter moves on from a cell it leaves out.   *)
MovesOn(f, c) ==
    CASE f.kind \in {"row", "value"} -> "cell"
      [] f.kind = "times" -> IF c.time < f.start THEN "cell" ELSE "column"
      [] f.kind = "sample" -> "row"
      [] OTHER -> "column"

(* Mutant: a limit per row lets every filter pass.                         *)
Lets_AnyBelowLimit(f, pushed) == f.kind = "columnLimit" => pushed.kind # "times"

(* filter_filter: whether a filter lets another one pass to its source.    *)
Lets(f, pushed) ==
    CASE f.kind \in {"offset", "limit"} -> pushed.kind = "row"
      [] f.kind = "columnLimit" -> pushed.kind # "times"
      [] OTHER -> TRUE

(* The functors of the filters: the state after the cell, and "show" or    *)
(* how far to move on.  PerRowStateFilter and CellsPerColumnFilter start   *)
(* again at a cell of another row or column.                               *)
Restarts(f, at, c) ==
    \/ at = None
    \/ f.kind = "columnLimit" /\ ~SameColumn(at, c)
    \/ f.kind # "columnLimit" /\ ~SameRow(at, c)

Decide(f, state, c) ==
    LET fresh == Restarts(f, state.at, c)
        n == IF fresh THEN (IF f.kind = "limit" THEN 0 ELSE f.n) ELSE state.n
        After(m, verdict) == [state |-> [at |-> c, n |-> m], verdict |-> verdict]
    IN CASE f.kind = "offset" -> After(n - 1, IF n <= 0 THEN "show" ELSE "cell")
         [] f.kind = "limit" -> After(n + 1, IF n < f.n THEN "show" ELSE "row")
         [] f.kind = "columnLimit" ->
                IF n > 0 THEN After(n - 1, "show") ELSE After(n, "column")
         [] OTHER -> [state |-> state,
                      verdict |-> IF Keeps(f, c) THEN "show" ELSE MovesOn(f, c)]

-----------------------------------------------------------------------------
(* Streams.                                                                *)
RECURSIVE Show(_), Advance(_, _), Pull(_), OnNewRow(_), Settle(_), Apply(_, _)

(* HasValue and Value: the current cell, or None.                          *)
Show(s) ==
    CASE s.kind = "empty" -> None
      [] s.kind = "cells" -> IF s.cells = <<>> THEN None ELSE s.cells[1]
      [] s.kind \in {"table", "merge"} ->
            LET heads == {i \in DOMAIN s.of : Show(s.of[i]) # None}
            IN IF heads = {} THEN None
               ELSE Show(s.of[CHOOSE i \in heads : \A j \in heads :
                    /\ ~MergesBefore(Show(s.of[j]), Show(s.of[i]))
                    /\ MergesBefore(Show(s.of[i]), Show(s.of[j])) \/ i <= j])
      [] s.kind = "filter" -> Show(s.source)
      [] s.kind = "map" ->
            IF Show(s.source) = None THEN None ELSE Transformed(s.by, Show(s.source))
      [] s.kind = "condition" ->
            IF Show(s.source) = None THEN None
            ELSE Show(IF s.holds THEN s.yes ELSE s.no)

(* The part that shows the current cell of a merge.                        *)
FrontOf(s) ==
    CHOOSE i \in DOMAIN s.of : \A j \in DOMAIN s.of :
        /\ Show(s.of[i]) # None
        /\ \/ Show(s.of[j]) = None
           \/ /\ ~MergesBefore(Show(s.of[j]), Show(s.of[i]))
              /\ MergesBefore(Show(s.of[i]), Show(s.of[j])) \/ i <= j

(* Next(mode).                                                             *)
Advance(s, mode) ==
    CASE s.kind = "empty" -> s
      [] s.kind = "cells" -> [s EXCEPT !.cells = Skip(@, mode)]
      [] s.kind \in {"table", "merge"} ->
            LET front == FrontOf(s)
                cell == Show(s.of[front])
                Goes(i) == i = front \/ (Show(s.of[i]) # None
                                         /\ Matches(mode, cell, Show(s.of[i])))
            IN [s EXCEPT !.of = [i \in DOMAIN @ |->
                    IF Goes(i) THEN Advance(@[i], mode) ELSE @[i]]]
      [] s.kind = "filter" -> Pull([s EXCEPT !.source = Advance(@, mode)])
      [] s.kind = "map" -> [s EXCEPT !.source = Advance(@, mode)]
      [] s.kind = "condition" ->
            LET moved == IF s.holds THEN [s EXCEPT !.yes = Advance(@, mode)]
                         ELSE [s EXCEPT !.no = Advance(@, mode)]
                cell == Show(IF s.holds THEN moved.yes ELSE moved.no)
            IN IF cell # None /\ cell.row = s.row THEN moved
               ELSE OnNewRow([moved EXCEPT !.source = Advance(@, "row")])

(* TrivialFilter::EnsureCurrentNotFiltered.                                *)
Pull(s) ==
    IF Show(s.source) = None THEN s
    ELSE LET d == Decide(s.by, s.state, Show(s.source))
         IN IF d.verdict = "show" THEN [s EXCEPT !.state = d.state]
            ELSE Pull([s EXCEPT !.state = d.state,
                                !.source = Advance(@, d.verdict)])

(* Next(kRow) while the stream is before the row.                          *)
RECURSIVE ForwardTo(_, _)
ForwardTo(s, row) ==
    IF Show(s) # None /\ Show(s).row < row THEN ForwardTo(Advance(s, "row"), row) ELSE s

IsAt(s, row) == Show(s) # None /\ Show(s).row = row

(* ConditionStream::OnNewRow.                                              *)
OnNewRow(s) ==
    IF Show(s.source) = None THEN s
    ELSE LET row == Show(s.source).row
             predicate == ForwardTo(s.predicate, row)
             holds == IsAt(predicate, row)
             yes == IF holds THEN ForwardTo(s.yes, row) ELSE s.yes
             no == IF holds THEN s.no ELSE ForwardTo(s.no, row)
             at == [s EXCEPT !.row = row, !.predicate = predicate,
                             !.holds = holds, !.yes = yes, !.no = no]
         IN IF IsAt(IF holds THEN yes ELSE no, row) THEN at
            ELSE OnNewRow([at EXCEPT !.source = Advance(@, "row")])

(* The regexes a family's stream has taken over: all must match in memory  *)
(* (RegexFiteredMapView), one of each kind in RocksDB (ParseCurrentKey).   *)
RegexesMatch(s, c) ==
    IF s.stored
    THEN \A kind \in {"row", "column"} :
            LET regexes == {f \in s.regexes : f.kind = kind}
            IN regexes = {} \/ \E f \in regexes : Keeps(f, c)
    ELSE \A f \in s.regexes : Keeps(f, c)

(* InitializeIfNeeded, of a stream and of all below it.                    *)
Settle(s) ==
    CASE s.kind = "empty" -> s
      [] s.kind = "cells" ->
            [s EXCEPT !.cells = SelectSeq(@, LAMBDA c : RegexesMatch(s, c)),
                      !.regexes = {}]
      [] s.kind \in {"table", "merge"} ->
            [s EXCEPT !.of = [i \in DOMAIN @ |-> Settle(@[i])]]
      [] s.kind = "filter" -> Pull([s EXCEPT !.source = Settle(@)])
      [] s.kind = "map" -> [s EXCEPT !.source = Settle(@)]
      [] s.kind = "condition" ->
            OnNewRow([s EXCEPT !.source = Settle(@), !.predicate = Settle(@),
                               !.yes = Settle(@), !.no = Settle(@)])

(* ApplyFilter: whether it succeeded, and the stream afterwards.           *)
Applied(ok, s) == [ok |-> ok, stream |-> s]

Selecting(s, f) ==
    IF f.kind \in {"row", "column"} THEN [s EXCEPT !.regexes = @ \union {f}]
    ELSE [s EXCEPT !.cells = SelectSeq(@, LAMBDA c : Keeps(f, c))]

(* Whether the table's stream keeps the stream of a family.  RocksDB's     *)
(* column families are named <table>/<family>: a regex may match           *)
(* differently, and the family of a column range is never equal.           *)
KeepsFamily(s, f) ==
    \/ f.kind = "family" /\ s.family \in IF s.stored THEN f.prefixed ELSE f.keep
    \/ f.kind = "columnRange" /\ ~s.stored /\ s.family = f.family

Apply(s, f) ==
    CASE s.kind = "empty" -> Applied(TRUE, s)
      [] s.kind = "cells" ->
            IF f.kind = "family" THEN Applied(FALSE, s)
            ELSE IF f.kind = "columnRange" /\ f.family # s.family THEN Applied(TRUE, s)
            ELSE Applied(TRUE, Selecting(s, f))
      [] s.kind = "table" /\ f.kind \in {"family", "columnRange"} ->
            LET stay == SelectSeq(s.of, LAMBDA t : KeepsFamily(t, f))
            IN Applied(TRUE, [s EXCEPT !.of =
                    IF f.kind = "family" THEN stay
                    ELSE [i \in DOMAIN stay |-> Apply(stay[i], f).stream]])
      [] s.kind = "merge" \/ (s.kind = "table" /\ f.kind \notin {"family", "columnRange"}) ->
            LET each == [i \in DOMAIN s.of |-> Apply(s.of[i], f)]
            IN Applied(\A i \in DOMAIN each : each[i].ok,
                       [s EXCEPT !.of = [i \in DOMAIN each |-> each[i].stream]])
      [] s.kind \in {"filter", "map"} ->
            IF s.kind = "filter" /\ ~Lets(s.by, f) THEN Applied(FALSE, s)
            ELSE LET a == Apply(s.source, f)
                 IN Applied(a.ok, [s EXCEPT !.source = a.stream])
      [] s.kind = "condition" ->
            LET yes == Apply(s.yes, f)
                no == Apply(s.no, f)
                Also(t) == IF f.kind = "row" THEN Apply(t, f).stream ELSE t
            IN Applied(yes.ok /\ no.ok,
                       [s EXCEPT !.source = Also(@), !.predicate = Also(@),
                                 !.yes = yes.stream, !.no = no.stream])

-----------------------------------------------------------------------------
(* CreateFilterImpl: the stream for a filter over a source, and the sinks. *)
Made(out, sinks) == [out |-> out, sinks |-> sinks]

Filtered(s, f) ==
    [kind |-> "filter", by |-> f, source |-> s, state |-> [at |-> None, n |-> 0]]

RECURSIVE Make(_, _), Chained(_, _), Refused(_)

(* The filters of a chain; nothing after a sink is looked at.              *)
Chained(filters, s) ==
    IF filters = <<>> THEN Made(s, <<>>)
    ELSE IF filters[1].kind = "sink" THEN Made(Empty, <<s>>)
    ELSE LET first == Make(filters[1], s)
             others == Chained(Tail(filters), first.out)
         IN Made(others.out, first.sinks \o others.sinks)

Make(f, s) ==
    CASE f.kind = "pass" -> Made(s, <<>>)
      [] f.kind = "block" -> Made(Empty, <<>>)
      [] f.kind \in Pushed ->
            LET a == Apply(s, f)
            IN Made(IF a.ok THEN a.stream ELSE Filtered(a.stream, f), <<>>)
      [] f.kind \in {"value", "sample", "offset", "limit", "columnLimit"} ->
            Made(Filtered(s, f), <<>>)
      [] f.kind \in {"label", "strip"} ->
            Made([kind |-> "map", by |-> f, source |-> s], <<>>)
      [] f.kind = "chain" -> Chained(f.of, s)
      [] f.kind = "interleave" ->
            LET parts == SelectSeq(f.of, LAMBDA g : g.kind # "sink")
                made == [i \in DOMAIN f.of |->
                            IF f.of[i].kind = "sink" THEN Made(Empty, <<s>>)
                            ELSE Make(f.of[i], s)]
                outs == [i \in DOMAIN parts |-> Make(parts[i], s).out]
            IN Made(IF parts = <<>> THEN Empty ELSE [kind |-> "merge", of |-> outs],
                    FlattenSeq([i \in DOMAIN made |-> made[i].sinks]))
      [] f.kind = "condition" ->
            LET predicate == Make(f.if, s)
                yes == Make(f.yes, s)
                no == Make(f.no, s)
            IN Made([kind |-> "condition", source |-> s, predicate |-> predicate.out,
                     yes |-> yes.out, no |-> no.out, holds |-> FALSE, row |-> 0],
                    predicate.sinks \o yes.sinks \o no.sinks)

(* Whether a part of the filter makes the request INVALID_ARGUMENT.        *)
Refused(f) ==
    CASE f.kind = "invalid" -> TRUE
      [] f.kind \in {"chain", "interleave"} ->
            \E i \in DOMAIN f.of :
                /\ Refused(f.of[i])
                /\ f.kind = "chain" => \A j \in 1..(i - 1) : f.of[j].kind # "sink"
      [] f.kind = "condition" ->
            \E g \in SubFilters(f) : g.kind = "sink" \/ Refused(g)
      [] OTHER -> FALSE

(* CreateCellStream: a merge of the families' streams, in their order.     *)
(* The keys of RocksDB have the oldest cell of a column first.             *)
InWalkOrder(cells) ==
    IF stored THEN SetToSortSeq(cells, MergesBefore)
    ELSE SetToSortSeq(cells, FreshestFirst)

TableStream ==
    LET families == SetToSortSeq({c.family : c \in UNION Tables}, <)
    IN [kind |-> "table",
        of |-> [i \in DOMAIN families |->
                   [kind |-> "cells", family |-> families[i], stored |-> stored,
                    regexes |-> {},
                    cells |-> InWalkOrder({c \in table : c.family = families[i]})]]]

(* CreateFilter: the sinks bypass the rest of the graph.                   *)
Created ==
    IF filter.kind = "sink" THEN TableStream
    ELSE LET made == Make(filter, TableStream)
         IN IF made.sinks = <<>> THEN made.out
            ELSE [kind |-> "merge", of |-> Append(made.sinks, made.out)]

-----------------------------------------------------------------------------
Init ==
    /\ stored \in BOOLEAN
    /\ table \in Tables
    /\ filter \in RowFilters
    /\ pc = "build"
    /\ stream = Empty
    /\ shown = <<>>

Build ==
    /\ pc = "build"
    /\ IF Refused(filter) THEN pc' = "refused" /\ UNCHANGED stream
       ELSE pc' = "read" /\ stream' = Settle(Created)
    /\ UNCHANGED <<stored, table, filter, shown>>

(* ReadRows takes the cells one by one.                                    *)
Read ==
    /\ pc = "read"
    /\ Show(stream) # None
    /\ shown' = Append(shown, Show(stream))
    /\ stream' = Advance(stream, "cell")
    /\ UNCHANGED <<stored, table, filter, pc>>

Finish ==
    /\ pc = "read"
    /\ Show(stream) = None
    /\ pc' = "done"
    /\ UNCHANGED <<stored, table, filter, stream, shown>>

Next == Build \/ Read \/ Finish

Spec == Init /\ [][Next]_vars

-----------------------------------------------------------------------------
(* Properties.                                                             *)

Count(seq, c) == Cardinality({i \in DOMAIN seq : seq[i] = c})

SameCells(s, t) ==
    \A c \in ToSet(s) \union ToSet(t) : Count(s, c) = Count(t, c)

(* The whole table, as one stream would show it.                           *)
AllCells == InWalkOrder(table)

(* The reader gets exactly the cells the filter describes, each as often   *)
(* as it does, whatever was pushed down, skipped by columns and rows or    *)
(* decided row by row on the way - for the filters without a known gap     *)
(* (Regular and RegularInStorage in FilterMeaning).                        *)
ShowsWhatTheFilterSays ==
    pc = "done" /\ Regular(filter) /\ (stored => RegularInStorage(filter)) =>
        SameCells(shown, Meaning(filter, AllCells))

(* Cells arrive by row, family and column for every filter, so that the    *)
(* chunks of a response (RowStreamer) never return to a row.               *)
InColumnOrder ==
    \A i \in 2..Len(shown) : ~ColumnBefore(shown[i], shown[i - 1])

(* The same without the exceptions: filter_filter (src/filter.cc:274) is   *)
(* to say when two filters may change places, and a chain is the           *)
(* composition of its filters.                                             *)
AlwaysWhatTheFilterSays ==
    pc = "done" /\ ~stored => SameCells(shown, Meaning(filter, AllCells))

(* "applies row, column, regex, and timestamp filters" (persistence.md:106) *)
(* says of the stream over RocksDB what holds in memory.                   *)
StorageAppliesFilters ==
    pc = "done" /\ stored /\ filter.kind \in Pushed =>
        SameCells(shown, Meaning(filter, AllCells))

(* The test LatestCellsPerColumnLimit (src/filter_test.cc:1574): a limit   *)
(* per column leaves the latest cells.                                     *)
ColumnLimitKeepsTheLatest ==
    pc = "done" /\ filter.kind = "columnLimit" =>
        SameCells(shown, Meaning(filter, SetToSortSeq(table, FreshestFirst)))

=============================================================================

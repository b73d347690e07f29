---------------------------- MODULE FamilyStream ----------------------------
(***************************************************************************)
(* The stream of the cells of one column family (src/column_family.cc):    *)
(* FilteredColumnFamilyStream walks the maps of the memory tables through  *)
(* three filtered views; PersistentFilteredColumnFamilyStream, taken when  *)
(* there is a Storage, walks the keys of RocksDB.  Both are read under the *)
(* table's lock, so a call is one step.                                    *)
(*                                                                         *)
(* Row keys and qualifiers are numbered in their order.  A stored key is   *)
(* the text <row>/<qualifier>/<milliseconds>: a name that contains the     *)
(* separator is several parts of it, and names sort by their parts with    *)
(* the separator appended.                                                 *)
(***************************************************************************)
EXTENDS CellOrder, FiniteSets, FiniteSetsExt

CONSTANTS
    Names,          \* 1..n, row keys and qualifiers in order
    Parts,          \* what the separator cuts a name into, [Names -> Seq(Names)]
    PartRank,       \* the order of the parts with the separator appended
    Tables,         \* what the family may hold: sets of cells
    RowSets,        \* the rows the reader asked for
    Regexes,        \* the names a regex matches
    ColumnRanges,   \* [start, end] of names
    TimeRanges,     \* [start, end) in microseconds, end = 0 for none
    MaxFilters      \* bound: filters applied

(* A cell of the tables; a timestamp has one or two digits.                *)
Cell == [row : Names, family : {1}, column : Names, time : 0..99, key : {<<>>}]

(* Ranges of columns and of times, in the stream and in the filters.       *)
Interval == [start : Nat, end : Nat]

ASSUME FamilyStreamAssumption ==
    /\ IsFiniteSet(Names)
    /\ Names = 1..Cardinality(Names)
    /\ Parts \in [Names -> Seq(Names)]
    /\ \A n \in Names : Parts[n] # <<>> /\ (Len(Parts[n]) = 1 => Parts[n] = <<n>>)
    /\ PartRank \in [Names -> Nat]
    /\ \A m, n \in Names : PartRank[m] = PartRank[n] => m = n
    /\ \A t \in Tables : IsFiniteSet(t) /\ t \subseteq Cell
    /\ ColumnRanges \subseteq Interval
    /\ TimeRanges \subseteq Interval

VARIABLES
    stored,         \* GetGlobalStorage() is not null
    table,          \* the cells of the family
    rowSet,         \* row_ranges_ of the memory stream
    rowRegexes, columnRegexes,      \* what has been applied
    columnRanges, timeRanges,       \* disjoint_ranges_ of the two range sets
    askedColumns, askedTimes,       \* history: the ranges that were applied
    pos,            \* the cell the stream points at, or End
    started         \* initialized_

filters == <<rowRegexes, columnRegexes, columnRanges, timeRanges,
             askedColumns, askedTimes>>

vars == <<stored, table, rowSet, filters, pos, started>>

End == [row |-> 0, family |-> 0, column |-> 0, time |-> 0, key |-> <<>>]

-----------------------------------------------------------------------------
(* Ranges of columns, both ends closed; RangeScan has the open ones.       *)
StartLess(a, b) == a.start < b.start
ColumnEndLess(a, b) == a.end < b.end
MaxOf(a, b) == IF a < b THEN b ELSE a
MinOf(a, b) == IF a < b THEN a ELSE b

ColumnOverlap(a, b) == MaxOf(a.start, b.start) <= MinOf(a.end, b.end)

(* Mutant: an end of 0 is less than any other.                             *)
TimeEndLess_ZeroIsLeast(a, b) == a.end < b.end

(* Ranges of milliseconds, the end 0 for infinity.                         *)
TimeEndLess(a, b) ==
    /\ a.end # 0
    /\ b.end = 0 \/ a.end < b.end

TimeIsEmpty(start, end) == end # 0 /\ start >= end

TimeOverlap(a, b) ==
    ~TimeIsEmpty(MaxOf(a.start, b.start), IF TimeEndLess(a, b) THEN a.end ELSE b.end)

ColumnSet == INSTANCE RangeSetImpl WITH
    EndLess <- ColumnEndLess, HasOverlap <- ColumnOverlap, Adjacent <- ColumnOverlap

TimeSet == INSTANCE RangeSetImpl WITH
    EndLess <- TimeEndLess, HasOverlap <- TimeOverlap, Adjacent <- TimeOverlap

AllColumns == [start |-> 1, end |-> Cardinality(Names)]
AllTimes == [start |-> 0, end |-> 0]

(* FromTimestampRange truncates both ends to milliseconds.                 *)
FromTimestampRange(r) == [start |-> r.start \div 1000, end |-> r.end \div 1000]

Reversed(r) == r.end # 0 /\ r.start > r.end

(* IsWithin: the start belongs to the range, the end does not (the comment *)
(* on the class says the opposite, see TimeRangesAsDocumented).            *)
TimeIsWithin(r, t) == r.start <= t /\ (r.end = 0 \/ t < r.end)

InColumnRanges(n) == \E r \in columnRanges : r.start <= n /\ n <= r.end
InTimeRanges(t) == \E r \in timeRanges : TimeIsWithin(r, t)

-----------------------------------------------------------------------------
(* The memory stream.  A view shows a row, a column or a cell when the     *)
(* ranges contain it and no regex of the stream fails to match.            *)
MatchesAll(regexes, n) == \A regex \in regexes : n \in regex

Rows(t) == {c.row : c \in t}
Columns(r) == {c.column : c \in {d \in table : d.row = r}}

RowsView == {r \in Rows(table) : r \in rowSet /\ MatchesAll(rowRegexes, r)}

ColumnsView(r) ==
    {n \in Columns(r) : InColumnRanges(n) /\ MatchesAll(columnRegexes, n)}

CellsView(r, n) ==
    {c \in table : c.row = r /\ c.column = n /\ InTimeRanges(c.time)}

(* PointToFirstCellAfterColumnChange, the columns from here on given.      *)
FirstOfColumns(r, columns) ==
    LET shown == {n \in columns : CellsView(r, n) # {}}
        first == CellsView(r, Min(shown))
    IN IF shown = {} THEN End
       ELSE CHOOSE c \in first : \A d \in first : d.time <= c.time

(* PointToFirstCellAfterRowChange, the rows from here on given.            *)
FirstOfRows(rows) ==
    LET shown == {r \in rows : FirstOfColumns(r, ColumnsView(r)) # End}
    IN IF shown = {} THEN End ELSE FirstOfColumns(Min(shown), ColumnsView(Min(shown)))

(* Mutant: the rows are looked through from their beginning.               *)
LaterRows_FromStart == RowsView \ {pos.row}

(* ++row_it_.                                                              *)
LaterRows == {r \in RowsView : r > pos.row}

(* Mutant: kColumn, too, first looks for an older cell.                    *)
MemoryNext_ColumnAsCell(mode) ==
    LET older == {c \in CellsView(pos.row, pos.column) : c.time < pos.time}
        oldest == CHOOSE c \in older : \A d \in older : d.time <= c.time
        later == FirstOfColumns(pos.row, {n \in ColumnsView(pos.row) : n > pos.column})
    IN IF mode # "row" /\ older # {} THEN oldest
       ELSE IF mode # "row" /\ later # End THEN later
       ELSE FirstOfRows(LaterRows)

(* FilteredColumnFamilyStream::Next.                                       *)
MemoryNext(mode) ==
    LET older == {c \in CellsView(pos.row, pos.column) : c.time < pos.time}
        oldest == CHOOSE c \in older : \A d \in older : d.time <= c.time
        later == FirstOfColumns(pos.row, {n \in ColumnsView(pos.row) : n > pos.column})
    IN IF mode = "cell" /\ older # {} THEN oldest
       ELSE IF mode # "row" /\ later # End THEN later
       ELSE FirstOfRows(LaterRows)

-----------------------------------------------------------------------------
(* The persistent stream.                                                  *)
Key(c) == [parts |-> Parts[c.row] \o Parts[c.column], time |-> c.time]

(* Numbers below a hundred, as text.                                       *)
FirstDigit(t) == IF t < 10 THEN t ELSE t \div 10

TextBefore(s, t) ==
    \/ FirstDigit(s) < FirstDigit(t)
    \/ FirstDigit(s) = FirstDigit(t) /\ s < t

(* RocksDB's order; a digit is less than what a part begins with.          *)
KeyBefore(k, l) ==
    LET common == MinOf(Len(k.parts), Len(l.parts))
        differ == {i \in 1..common : k.parts[i] # l.parts[i]}
    IN IF differ # {}
       THEN PartRank[k.parts[Min(differ)]] < PartRank[l.parts[Min(differ)]]
       ELSE \/ Len(k.parts) < Len(l.parts)
            \/ Len(k.parts) = Len(l.parts) /\ TextBefore(k.time, l.time)

(* ParseCurrentKey: the row is what precedes the first separator, the      *)
(* qualifier what precedes the second one, and stoll refuses a rest that   *)
(* does not begin with a digit.                                            *)
Parse(k) ==
    [row |-> k.parts[1], family |-> 1, column |-> k.parts[2],
     time |-> IF Len(k.parts) = 2 THEN k.time ELSE 0, key |-> k]

MatchesSome(regexes, n) == regexes = {} \/ \E regex \in regexes : n \in regex

(* Its tests; row_ranges_ is All.                                          *)
Passes(c) ==
    /\ MatchesSome(rowRegexes, c.row)
    /\ InColumnRanges(c.column)
    /\ MatchesSome(columnRegexes, c.column)
    /\ InTimeRanges(c.time)

FirstKey(parsed) ==
    IF parsed = {} THEN End
    ELSE CHOOSE c \in parsed : \A d \in parsed : ~KeyBefore(d.key, c.key)

StoredKeys == {Parse(Key(c)) : c \in table}

StoredCells == {c \in StoredKeys : Passes(c)}

(* PersistentFilteredColumnFamilyStream::Next parses on until a key passes *)
(* that is not of the old column or row.                                   *)
StoredNext(mode) ==
    FirstKey({c \in StoredCells : KeyBefore(pos.key, c.key) /\ ~Matches(mode, pos, c)})

-----------------------------------------------------------------------------
Init ==
    /\ stored \in BOOLEAN
    /\ table \in Tables
    /\ rowSet \in RowSets
    /\ rowRegexes = {}
    /\ columnRegexes = {}
    /\ columnRanges = {AllColumns}
    /\ timeRanges = {AllTimes}
    /\ askedColumns = {}
    /\ askedTimes = {}
    /\ pos = End
    /\ started = FALSE

MayApply ==
    /\ ~started
    /\ Cardinality(rowRegexes) + Cardinality(columnRegexes)
        + Cardinality(askedColumns) + Cardinality(askedTimes) < MaxFilters

(* FilterApply, and ApplyFilter of the persistent stream, by the kind of   *)
(* filter; a range of another family changes nothing, a family regex is    *)
(* refused.                                                                *)
ApplyRowKeyRegex(regex) ==
    /\ MayApply
    /\ rowRegexes' = rowRegexes \union {regex}
    /\ UNCHANGED <<stored, table, rowSet, columnRegexes, columnRanges, timeRanges,
                   askedColumns, askedTimes, pos, started>>

ApplyColumnRegex(regex) ==
    /\ MayApply
    /\ columnRegexes' = columnRegexes \union {regex}
    /\ UNCHANGED <<stored, table, rowSet, rowRegexes, columnRanges, timeRanges,
                   askedColumns, askedTimes, pos, started>>

ApplyColumnRange(r) ==
    /\ MayApply
    /\ columnRanges' = ColumnSet!RangeSetIntersectImpl(columnRanges, r)
    /\ askedColumns' = askedColumns \union {r}
    /\ UNCHANGED <<stored, table, rowSet, rowRegexes, columnRegexes, timeRanges,
                   askedTimes, pos, started>>

ApplyTimestampRange(r) ==
    /\ MayApply
    /\ ~Reversed(FromTimestampRange(r))
    /\ timeRanges' = TimeSet!RangeSetIntersectImpl(timeRanges, FromTimestampRange(r))
    /\ askedTimes' = askedTimes \union {r}
    /\ UNCHANGED <<stored, table, rowSet, rowRegexes, columnRegexes, columnRanges,
                   askedColumns, pos, started>>

(* InitializeIfNeeded, on the first HasValue, Value or Next.               *)
Initialize ==
    /\ ~started
    /\ started' = TRUE
    /\ pos' = IF stored THEN FirstKey(StoredCells) ELSE FirstOfRows(RowsView)
    /\ UNCHANGED <<stored, table, rowSet, filters>>

HasValue == pos # End

NextCell(mode) ==
    /\ started
    /\ HasValue
    /\ pos' = IF stored THEN StoredNext(mode) ELSE MemoryNext(mode)
    /\ UNCHANGED <<stored, table, rowSet, filters, started>>

Next ==
    \/ \E regex \in Regexes : ApplyRowKeyRegex(regex) \/ ApplyColumnRegex(regex)
    \/ \E r \in ColumnRanges : ApplyColumnRange(r)
    \/ \E r \in TimeRanges : ApplyTimestampRange(r)
    \/ Initialize
    \/ \E mode \in NextModes : NextCell(mode)

Spec == Init /\ [][Next]_vars

-----------------------------------------------------------------------------
(* Properties.                                                             *)

Selected ==
    IF stored THEN {[c EXCEPT !.key = <<>>] : c \in StoredCells}
    ELSE {c \in table : /\ c.row \in RowsView
                        /\ c.column \in ColumnsView(c.row)
                        /\ c \in CellsView(c.row, c.column)}

(* The cells and keys there are, and those of them the stream shows.        *)
Everything == IF stored THEN StoredKeys ELSE table

Walked == IF stored THEN StoredCells ELSE Selected

(* Every variable is of its type, and the stream points at a cell that it  *)
(* shows.                                                                  *)
TypeOK ==
    /\ stored \in BOOLEAN
    /\ table \in Tables
    /\ rowSet \in RowSets
    /\ rowRegexes \in SUBSET Regexes /\ IsFiniteSet(rowRegexes)
    /\ columnRegexes \in SUBSET Regexes /\ IsFiniteSet(columnRegexes)
    /\ columnRanges \in SUBSET Interval
    /\ timeRanges \in SUBSET Interval
    /\ askedColumns \in SUBSET ColumnRanges
    /\ askedTimes \in SUBSET TimeRanges
    /\ started \in BOOLEAN
    /\ pos # End => started /\ pos \in Walked

(* What the filters ask for, with every one of them obeyed and timestamps  *)
(* compared in microseconds; the start of a range is in it, the end is not *)
(* (TimestampRange of the Bigtable API).                                   *)
Asked(c) ==
    /\ c.row \in rowSet
    /\ \A regex \in rowRegexes : c.row \in regex
    /\ \A regex \in columnRegexes : c.column \in regex
    /\ \A r \in askedColumns : r.start <= c.column /\ c.column <= r.end
    /\ \A r \in askedTimes :
        r.start <= c.time * 1000 /\ (r.end = 0 \/ c.time * 1000 < r.end)

(* The cells about which the code is known to be wrong: stored under a     *)
(* name with a separator, or in the very millisecond where a range begins  *)
(* or ends, or in no millisecond but a range ends in the first one.        *)
Misread(c) ==
    \/ stored /\ (Len(Parts[c.row]) > 1 \/ Len(Parts[c.column]) > 1)
    \/ \E r \in askedTimes :
        \/ r.start % 1000 # 0 /\ r.start \div 1000 = c.time
        \/ r.end % 1000 # 0 /\ r.end \div 1000 \in {0, c.time}

(* Storage takes a row set or a second regex of a kind over and does not   *)
(* restrict its cells to it.                                               *)
Ignores(c) ==
    /\ stored
    /\ \/ c.row \notin rowSet
       \/ Cardinality(rowRegexes) > 1
       \/ Cardinality(columnRegexes) > 1

(* The ranges and regexes the stream has taken over select what all of     *)
(* them together ask for, in both storages: the caller builds no filter of *)
(* its own once ApplyFilter has returned true.  Nothing that is asked for  *)
(* is lost, whatever else is stored and whatever storage ignores; nothing  *)
(* else is shown unless storage ignores what excludes it, and no cell that *)
(* is not in the table unless a name has a separator.                      *)
SelectsWhatIsAsked ==
    /\ \A c \in table : ~Misread(c) =>
        /\ Asked(c) => c \in Selected
        /\ c \in Selected => Asked(c) \/ Ignores(c)
    /\ Selected \subseteq table \/ \E c \in table : Misread(c)

(* The cells that are left, numbered in the order of the walk.             *)
WalkBefore(c, d) == IF stored THEN KeyBefore(c.key, d.key) ELSE FreshestFirst(c, d)

Rest ==
    {[row |-> c.row, family |-> c.family, column |-> c.column, time |-> c.time,
      at |-> Cardinality({d \in Everything : WalkBefore(d, c)})] :
        c \in {d \in Walked :
                ~started \/ (HasValue /\ ~WalkBefore(d, pos))}}

AtBefore(c, d) == c.at < d.at

(* What a stream of a family may be asked to apply, with success; a column *)
(* range is one of the stream's own family.                                *)
InternalFilter ==
    [kind : {"RowKeyRegex", "ColumnRegex"}, regex : Regexes]
        \union [kind : {"ColumnRange"}, range : ColumnRanges]
        \union [kind : {"TimestampRange"}, range : TimeRanges]

Keeps(filter, c) ==
    /\ filter.kind = "RowKeyRegex" => c.row \in filter.regex
    /\ filter.kind = "ColumnRegex" => c.column \in filter.regex
    /\ filter.kind = "ColumnRange" =>
        filter.range.start <= c.column /\ c.column <= filter.range.end
    /\ filter.kind = "TimestampRange" =>
        TimeIsWithin(FromTimestampRange(filter.range), c.time)

ApplyFilter(filter) ==
    \/ filter.kind = "RowKeyRegex" /\ ApplyRowKeyRegex(filter.regex)
    \/ filter.kind = "ColumnRegex" /\ ApplyColumnRegex(filter.regex)
    \/ filter.kind = "ColumnRange" /\ ApplyColumnRange(filter.range)
    \/ filter.kind = "TimestampRange" /\ ApplyTimestampRange(filter.range)

Source == INSTANCE CellSource WITH Precedes <- AtBefore, rest <- Rest

(* A second regex of a kind takes nothing out in storage; it may bring     *)
(* cells back.                                                             *)
Widens(filter) ==
    /\ stored /\ ~started /\ UNCHANGED started
    /\ \/ filter.kind = "RowKeyRegex" /\ Cardinality(rowRegexes') > 1
       \/ filter.kind = "ColumnRegex" /\ Cardinality(columnRegexes') > 1
    /\ Rest \subseteq Rest'

(* A filter that is applied takes out the cells it leaves out and no       *)
(* other; the stream starts at its first cell; a call of Next leaves       *)
(* behind the cell, its column or its row: nothing that is selected is     *)
(* skipped and nothing is shown twice, although the maps and the keys are  *)
(* walked by nested loops that restart at every column and row.            *)
IsOneStream ==
    /\ Source!Init
    /\ [][Source!Next \/ \E filter \in InternalFilter : Widens(filter)]_<<Rest, started>>
    /\ [][\A filter \in InternalFilter :
            ApplyFilter(filter) => Source!ApplyFilter(filter, TRUE) \/ Widens(filter)]_vars
    /\ [][\A mode \in NextModes : NextCell(mode) => Source!Advance(mode)]_vars

(* A name is ordered as its stored text is.                                *)
OrderedAlike(names) ==
    \A m, n \in names : m < n => PartRank[m] < PartRank[n]

(* Rows and columns come out in order, so that a merge with the other      *)
(* families and the condition filter see a row once: in memory always, in  *)
(* storage when the separator does not change the order of the names.      *)
NeverBack ==
    [][started /\ pos' # End
        /\ (stored => OrderedAlike({c.row : c \in StoredCells}
                                    \union {c.column : c \in StoredCells}))
        => ~ColumnBefore(pos', pos)]_vars

(* The comment on AbstractCellStreamImpl (src/filter.h:112): all streams    *)
(* are sorted by row key, family and column.                               *)
SortedByRow == [][started /\ pos' # End => ~ColumnBefore(pos', pos)]_vars

(* "if the `Apply` call succeeds then we know that the lower layers will   *)
(* filter out the unwanted data" (src/filter.h:73): every regex a stream   *)
(* has taken over must match, while in storage any of them suffices.       *)
RegexesAllMatch ==
    \A c \in Selected : MatchesAll(rowRegexes, c.row) /\ MatchesAll(columnRegexes, c.column)

(* "The ranges have are open on the left and closed on the right. A value  *)
(* zero on the end is treated as infinity." (src/range_set.h:133): the     *)
(* code has them closed on the left and open on the right.                 *)
TimeRangesAsDocumented ==
    \A t \in {c.time : c \in table} :
        InTimeRanges(t) <=>
            \A r \in askedTimes :
                LET by == FromTimestampRange(r)
                IN by.start < t /\ (by.end = 0 \/ t <= by.end)

=============================================================================

------------------------------ MODULE RangeScan ------------------------------
(***************************************************************************)
(* Which rows a read visits and which columns of a row it shows: the       *)
(* StringRangeSet of src/range_set.cc, built by CreateStringRangeSet       *)
(* (src/table.cc) from the keys and ranges a ReadRows asks for, or cut     *)
(* down from All() by the column range filters of a stream, and then the   *)
(* StringRangeFilteredMapView of src/filtered_map.h walking a std::map     *)
(* through that set.                                                       *)
(*                                                                         *)
(* Strings are numbered in their order, 0 being the empty one; Infinity is *)
(* the end no string reaches.  Between two numbered strings there are      *)
(* others, unless the second directly follows the first; Points has one    *)
(* stand-in for all of those.                                              *)
(***************************************************************************)
EXTENDS Integers, Sequences

CONSTANTS
    MaxKey,         \* the strings 0..MaxKey appear in requests and maps
    Consecutive,    \* the k for which no string is between k and k + 1
    MaxRequests     \* bound: keys, ranges or filters in one request

ASSUME RangeScanAssumption ==
    /\ MaxKey \in Nat \ {0}
    /\ Consecutive \subseteq 0..(MaxKey - 1)
    /\ MaxRequests \in Nat

Keys     == 0..MaxKey
Infinity == MaxKey + 1

(* A set is built for the rows of a request or for the columns of a row.   *)
Kinds == {"rows", "columns"}

VARIABLES
    kind,
    pc,         \* where the handler is
    requests,   \* how many keys, ranges or filters it has taken
    ranges,     \* disjoint_ranges_
    asked,      \* history: the points the request asks for
    entries,    \* the keys of the map, `unfiltered_`, once a view is open
    pos,        \* unfiltered_pos_: a key of the map, or End
    fpos,       \* filter_pos_: a range of the set, or NoRange
    seen        \* the keys the view has shown

vars == <<kind, pc, requests, ranges, asked, entries, pos, fpos, seen>>

(***************************************************************************)
(* StringRangeSet::Range.                                                  *)
(***************************************************************************)
Bound(at, open) == [at |-> at, open |-> open]

MakeRange(start, end) == [start |-> start, end |-> end]

(* Infinity is the end of a range only, and a closed one.                  *)
StringRange ==
    {r \in [start : [at : Keys, open : BOOLEAN],
            end : [at : Keys \cup {Infinity}, open : BOOLEAN]] :
        r.end.at = Infinity => ~r.end.open}

All == MakeRange(Bound(0, FALSE), Bound(Infinity, FALSE))

(* detail::ConsecutiveRowKeys: no row key lies between the two.            *)
ConsecutiveRowKeys(lhs, rhs) == rhs = lhs + 1 /\ rhs # Infinity /\ lhs \in Consecutive

IsEmpty(start, end) ==
    \/ start.at > end.at
    \/ start.at = end.at /\ (start.open \/ end.open \/ start.at = Infinity)
    \/ start.at < end.at /\ start.open /\ end.open
          /\ ConsecutiveRowKeys(start.at, end.at)

IsBelowStart(key, r) == IF key = r.start.at THEN r.start.open ELSE key < r.start.at
IsAboveEnd(key, r)   == IF key = r.end.at THEN r.end.open ELSE key > r.end.at

StringStartLess(l, r) ==
    IF l.start.at = r.start.at THEN ~l.start.open /\ r.start.open
                               ELSE l.start.at < r.start.at

(* Mutant: among equal ends the closed one counts as the lesser.           *)
StringEndLess_OpenLast(l, r) ==
    IF l.end.at = r.end.at THEN ~l.end.open /\ r.end.open
                           ELSE l.end.at < r.end.at

StringEndLess(l, r) ==
    IF l.end.at = r.end.at THEN l.end.open /\ ~r.end.open
                           ELSE l.end.at < r.end.at

(* The later start and the earlier end, an open one first among equals.    *)
StringHasOverlap(l, r) ==
    ~IsEmpty(IF StringStartLess(l, r) THEN r.start ELSE l.start,
             IF StringEndLess(l, r) THEN l.end ELSE r.end)

StringAdjacent(l, r) ==
    \/ l.end.open # r.start.open /\ l.end.at = r.start.at
    \/ ~l.end.open /\ ~r.start.open /\ ConsecutiveRowKeys(l.end.at, r.start.at)

INSTANCE RangeSetImpl WITH StartLess   <- StringStartLess,
                           EndLess     <- StringEndLess,
                           HasOverlap  <- StringHasOverlap,
                           Adjacent    <- StringAdjacent

(* FromRowRange and FromColumnRange: an empty or missing bound is no bound. *)
FromRange(start, end) ==
    MakeRange(IF start.at = 0 THEN Bound(0, FALSE) ELSE start,
          IF end.at = 0 THEN Bound(Infinity, FALSE) ELSE end)

Reversed(r) == r.end.at < r.start.at

(***************************************************************************)
(* What a range means: a reference written without the operators above.    *)
(* Point 2k is the string k, point 2k + 1 the strings right after it.      *)
(***************************************************************************)
Points == {2 * k : k \in Keys} \cup {2 * k + 1 : k \in Keys \ Consecutive}

Denotes(r) ==
    {p \in Points :
        /\ IF r.start.open THEN p > 2 * r.start.at ELSE p >= 2 * r.start.at
        /\ IF r.end.open THEN p < 2 * r.end.at ELSE p <= 2 * r.end.at}

Covered == UNION {Denotes(r) : r \in ranges}

(***************************************************************************)
(* The state machine.                                                      *)
(***************************************************************************)
End == MaxKey + 1

(* disjoint_ranges().end(). *)
NoRange == MakeRange(Bound(Infinity, TRUE), Bound(Infinity, TRUE))

Init ==
    /\ kind \in Kinds
    /\ entries = {}
    /\ pc = (IF kind = "rows" THEN "keys" ELSE "filters")
    /\ ranges = (IF kind = "rows" THEN {} ELSE {All})
    /\ asked = (IF kind = "rows" THEN {} ELSE Points)
    /\ requests = 0
    /\ pos = End /\ fpos = NoRange /\ seen = <<>>

TakesRequest ==
    /\ requests < MaxRequests
    /\ requests' = requests + 1

Refuse ==
    /\ pc' = "refused"
    /\ UNCHANGED <<ranges, asked>>

(* CreateStringRangeSet, one of row_keys; an empty key is refused.         *)
SumRowKey ==
    \E k \in Keys :
        LET key == MakeRange(Bound(k, FALSE), Bound(k, FALSE)) IN
        /\ pc = "keys"
        /\ TakesRequest
        /\ \/ /\ k = 0
              /\ Refuse
           \/ /\ k # 0
              /\ ranges' = RangeSetSumImpl(ranges, key)
              /\ asked' = asked \cup Denotes(key)
              /\ pc' = pc
        /\ UNCHANGED <<kind, entries, pos, fpos, seen>>

(* CreateStringRangeSet, one of row_ranges; an empty range is left out.    *)
SumRowRange ==
    \E s \in Keys, e \in Keys, sOpen \in BOOLEAN, eOpen \in BOOLEAN :
        LET r == FromRange(Bound(s, sOpen), Bound(e, eOpen)) IN
        /\ pc \in {"keys", "ranges"}
        /\ TakesRequest
        /\ \/ /\ Reversed(r)
              /\ Refuse
           \/ /\ ~Reversed(r)
              /\ IsEmpty(r.start, r.end)
              /\ pc' = "ranges"
              /\ UNCHANGED <<ranges, asked>>
           \/ /\ ~Reversed(r)
              /\ ~IsEmpty(r.start, r.end)
              /\ ranges' = RangeSetSumImpl(ranges, r)
              /\ asked' = asked \cup Denotes(r)
              /\ pc' = "ranges"
        /\ UNCHANGED <<kind, entries, pos, fpos, seen>>

(* A column range filter of this family reaches the stream.                *)
IntersectColumnRange ==
    \E s \in Keys, e \in Keys, sOpen \in BOOLEAN, eOpen \in BOOLEAN :
        LET r == FromRange(Bound(s, sOpen), Bound(e, eOpen)) IN
        /\ pc = "filters"
        /\ TakesRequest
        /\ \/ /\ Reversed(r)
              /\ Refuse
           \/ /\ ~Reversed(r)
              /\ ranges' = RangeSetIntersectImpl(ranges, r)
              /\ asked' = asked \cap Denotes(r)
              /\ pc' = pc
        /\ UNCHANGED <<kind, entries, pos, fpos, seen>>

(* ReadRows without keys and without ranges reads every row.               *)
ReadEveryRow ==
    /\ pc = "keys"
    /\ requests = 0
    /\ ranges' = RangeSetSumImpl({}, All)
    /\ asked' = Points
    /\ pc' = "built"
    /\ UNCHANGED <<kind, requests, entries, pos, fpos, seen>>

First(keys) == IF keys = {} THEN End ELSE CHOOSE k \in keys : \A x \in keys : k <= x

FirstRange(rs) ==
    IF rs = {} THEN NoRange ELSE CHOOSE r \in rs : \A x \in rs : ~StringStartLess(x, r)

(* Mutant: the view moves to the start of a range that excludes it.        *)
AdvanceToNextRange_LowerBound(map, p, f) ==
    IF f = NoRange THEN End
    ELSE IF p = End \/ ~IsBelowStart(p, f) THEN p
    ELSE First({k \in map : k >= f.start.at})

(* AdvanceToNextRange with filter_pos_ at f: lower_bound or upper_bound of *)
(* its start, unless the position is already inside.                       *)
AdvanceToNextRange(map, p, f) ==
    IF f = NoRange THEN End
    ELSE IF p = End \/ ~IsBelowStart(p, f) THEN p
    ELSE First({k \in map : ~IsBelowStart(k, f)})

(* begin(): the constructor starts at the first entry and the first range  *)
(* of a map that holds any keys (a row key is not empty); the table is     *)
(* locked from here on.                                                    *)
OpenView ==
    /\ \/ pc \in {"filters", "built"}
       \/ pc \in {"keys", "ranges"} /\ requests > 0
    /\ pc' = "moved"
    /\ fpos' = FirstRange(ranges)
    /\ \E map \in SUBSET (IF kind = "rows" THEN Keys \ {0} ELSE Keys) :
        /\ entries' = map
        /\ pos' = AdvanceToNextRange(map, First(map), fpos')
    /\ UNCHANGED <<kind, requests, ranges, asked, seen>>

PastRange ==
    pos # End /\ fpos # NoRange /\ IsAboveEnd(pos, fpos)

(* One turn of the loop of EnsureIteratorValid.                            *)
NextRange ==
    /\ pc = "moved"
    /\ PastRange
    /\ fpos' = FirstRange({r \in ranges : StringStartLess(fpos, r)})
    /\ pos' = AdvanceToNextRange(entries, pos, fpos')
    /\ UNCHANGED <<kind, pc, requests, ranges, asked, entries, seen>>

(* The iterator is valid: it shows an entry, and operator++ moves it on.   *)
ShowEntry ==
    /\ pc = "moved"
    /\ ~PastRange
    /\ pos # End
    /\ seen' = Append(seen, pos)
    /\ pos' = First({k \in entries : k > pos})
    /\ UNCHANGED <<kind, pc, requests, ranges, asked, entries, fpos>>

ReachEnd ==
    /\ pc = "moved"
    /\ pos = End
    /\ pc' = "done"
    /\ UNCHANGED <<kind, requests, ranges, asked, entries, pos, fpos, seen>>

Next ==
    \/ SumRowKey \/ SumRowRange \/ ReadEveryRow \/ IntersectColumnRange
    \/ OpenView \/ NextRange \/ ShowEntry \/ ReachEnd

Spec == Init /\ [][Next]_vars

(***************************************************************************)
(* Properties.                                                             *)
(***************************************************************************)
(* The variables have their types: the bounds of every range are strings   *)
(* or infinity, and the view's positions stay inside the map and the set.  *)
TypeOK ==
    /\ kind \in Kinds
    /\ pc \in {"keys", "ranges", "filters", "built", "moved", "done", "refused"}
    /\ requests \in 0..MaxRequests
    /\ ranges \subseteq StringRange
    /\ asked \subseteq Points
    /\ entries \subseteq Keys
    /\ pos \in entries \cup {End}
    /\ fpos \in ranges \cup {NoRange}
    /\ seen \in Seq(entries)

(* There is a string after every string of l and before every one of r.     *)
StringBetween(l, r) ==
    \E gap \in Points :
        /\ \A p \in Denotes(l) : p < gap
        /\ \A q \in Denotes(r) : gap < q

(* The set is what range_set.h calls a sorted, disjoint set: no range is   *)
(* empty and no string is in two of them; and Sum leaves a string between  *)
(* two ranges, except when their open bounds cross ([x, b) and (a, y] with *)
(* nothing between a and b).                                               *)
RangesAreDisjoint ==
    /\ \A r \in ranges : Denotes(r) # {}
    /\ \A l, r \in ranges :
        l # r /\ ~StringStartLess(r, l) =>
            /\ \A p \in Denotes(l), q \in Denotes(r) : p < q
            /\ StringBetween(l, r) \/ r.start.at < l.end.at

(* The comment of DisjointAndSortedRangesAdjacent: two ranges are adjacent *)
(* when no string fits between them; Sum merges adjacent ranges.           *)
AdjacentRangesAreMerged ==
    \A l, r \in ranges : StringStartLess(l, r) => StringBetween(l, r)

(* A read visits every row it was asked for, however the ranges it names   *)
(* overlap, touch or repeat, and none beyond the first and the last of     *)
(* them; a row's columns are exactly those every column range admits.      *)
AskedIsCovered ==
    /\ asked \subseteq Covered
    /\ kind = "columns" => Covered = asked
    /\ \A p \in Covered : \E lo, hi \in asked : lo <= p /\ p <= hi

(* The filtered view shows the entries of the map that are in the set,     *)
(* each once and in order: what it has shown is always the first part of   *)
(* them, and all of them at the end.                                       *)
ViewShowsTheSelection ==
    LET selection == {k \in entries : 2 * k \in Covered}
        shown == {seen[i] : i \in DOMAIN seen}
    IN pc \in {"moved", "done"} =>
        /\ \A i, j \in DOMAIN seen : i < j => seen[i] < seen[j]
        /\ shown \subseteq selection
        /\ \A k \in selection, s \in shown : k < s => k \in shown
        /\ pc = "done" => selection \subseteq shown

(* The two assertions of DisjointAndSortedRangesAdjacent hold at each of   *)
(* its calls, whatever range is added next: its arguments do not overlap   *)
(* and the first starts before the second.                                 *)
AdjacencyIsAskedInOrder ==
    kind = "rows" /\ pc \in {"keys", "ranges"} =>
        \A s \in Keys, e \in Keys, sOpen \in BOOLEAN, eOpen \in BOOLEAN :
            LET r == FromRange(Bound(s, sOpen), Bound(e, eOpen)) IN
            ~Reversed(r) /\ ~IsEmpty(r.start, r.end) =>
                \A call \in AdjacencyChecks(ranges, r) :
                    /\ ~StringHasOverlap(call[1], call[2])
                    /\ StringStartLess(call[1], call[2])

(* The comment of RangeSetSumImpl: the set is the sum of the ranges that   *)
(* were added to it.                                                       *)
SumIsTheSetSum == asked = Covered

=============================================================================

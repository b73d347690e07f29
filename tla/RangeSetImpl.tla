---------------------------- MODULE RangeSetImpl ----------------------------
(***************************************************************************)
(* The two function templates of src/range_set.cc, RangeSetSumImpl and     *)
(* RangeSetIntersectImpl: how a range is added to, and intersected with, a *)
(* std::set of ranges ordered by StartLess.  The four parameters are what  *)
(* the templates ask of a range type; a range is a record whose start and  *)
(* end hold whatever set_start and set_end copy.                           *)
(***************************************************************************)
CONSTANTS
    StartLess(_, _),    \* the order of the std::set
    EndLess(_, _),
    HasOverlap(_, _),
    Adjacent(_, _)      \* DisjointAndSortedRangesAdjacent

(* std::set keeps the element it has when an equivalent one is inserted.   *)
Insert(ranges, r) ==
    IF \E x \in ranges : ~StartLess(x, r) /\ ~StartLess(r, x)
    THEN ranges ELSE ranges \cup {r}

(* From upper_bound(inserted) on: the ranges that start strictly after it. *)
StartAfter(ranges, inserted) == {r \in ranges : StartLess(inserted, r)}

(* The last of the others, which is before upper_bound, if there is one.   *)
Previous(ranges, inserted) ==
    LET others == ranges \ StartAfter(ranges, inserted)
    IN {p \in others : \A x \in others : ~StartLess(p, x)}

(* Mutant: the previous range is not looked at.                            *)
PreviousMerges_Never(previous, inserted) == FALSE

PreviousMerges(previous, inserted) ==
    HasOverlap(previous, inserted) \/ Adjacent(previous, inserted)

(* The ranges from first_to_remove on.                                     *)
Candidates(ranges, inserted) ==
    StartAfter(ranges, inserted)
        \cup {p \in Previous(ranges, inserted) : PreviousMerges(p, inserted)}

(* The ranges that the loop reaches before it reaches r.                   *)
Before(ranges, r) == {x \in ranges : StartLess(x, r)}

(* inserted_range once some ranges were merged into it: set_start and      *)
(* set_end leave it with the first of all starts and the last of all ends. *)
Merged(inserted, erased) ==
    LET all == {inserted} \cup erased
        first == CHOOSE r \in all : \A x \in all : ~StartLess(x, r)
        last == CHOOSE r \in all : \A x \in all : ~EndLess(r, x)
    IN [start |-> first.start, end |-> last.end]

(* The condition of the do ... while, with merged for inserted_range.      *)
Continues(merged, r) == HasOverlap(r, merged) \/ Adjacent(merged, r)

(* The ranges the do ... while erases.  Its body runs before its condition *)
(* is first tested, so the first candidate is erased whatever it is; each  *)
(* of the others when the condition was true of it and of those before it. *)
Erased(candidates, inserted) ==
    {r \in candidates :
        \A x \in Before(candidates, r) \cup {r} :
            \/ Before(candidates, x) = {}
            \/ Continues(Merged(inserted, Before(candidates, x)), x)}

RangeSetSumImpl(ranges, inserted) ==
    LET erased == Erased(Candidates(ranges, inserted), inserted)
    IN Insert(ranges \ erased, Merged(inserted, erased))

(* The ranges that do not overlap are erased, the others are cut; a cut    *)
(* range is erased and emplaced again.                                     *)
Cut(r, by) ==
    LET started == IF StartLess(r, by) THEN [r EXCEPT !.start = by.start] ELSE r
    IN IF EndLess(by, started) THEN [started EXCEPT !.end = by.end] ELSE started

RangeSetIntersectImpl(ranges, by) ==
    {Cut(r, by) : r \in {x \in ranges : HasOverlap(x, by)}}

(* The ranges at which a Sum tests the condition of its loop.              *)
Tested(candidates, inserted) ==
    {r \in candidates : /\ Before(candidates, r) # {}
                        /\ Before(candidates, r) \subseteq Erased(candidates, inserted)}

(* Mutant: the loop asks with its arguments the other way round.           *)
AdjacencyChecks_Swapped(ranges, inserted) ==
    LET c == Candidates(ranges, inserted)
        merged(r) == Merged(inserted, Before(c, r))
    IN {<<p, inserted>> : p \in
            {x \in Previous(ranges, inserted) : ~HasOverlap(x, inserted)}}
       \cup
       {<<r, merged(r)>> : r \in
            {x \in Tested(c, inserted) : ~HasOverlap(x, merged(x))}}

(* The calls of DisjointAndSortedRangesAdjacent(lhs, rhs) that a Sum makes. *)
AdjacencyChecks(ranges, inserted) ==
    LET c == Candidates(ranges, inserted)
        merged(r) == Merged(inserted, Before(c, r))
    IN {<<p, inserted>> : p \in
            {x \in Previous(ranges, inserted) : ~HasOverlap(x, inserted)}}
       \cup
       {<<merged(r), r>> : r \in
            {x \in Tested(c, inserted) : ~HasOverlap(x, merged(x))}}

=============================================================================

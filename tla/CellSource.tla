----------------------------- MODULE CellSource ------------------------------
(***************************************************************************)
(* What AbstractCellStreamImpl (src/filter.h) promises to its user: a      *)
(* filter is applied or leaves the stream unchanged, until the stream is   *)
(* first looked at; then each call of Next leaves behind exactly the       *)
(* current cell, its column or its row.                                    *)
(***************************************************************************)
EXTENDS CellOrder, FiniteSets

CONSTANTS
    Precedes(_, _),     \* the order the stream keeps
    InternalFilter,     \* the filters its user may ask for
    Keeps(_, _)         \* Keeps(filter, c): the filter lets the cell c pass

VARIABLES
    rest,       \* the cells that have not been left behind
    started     \* HasValue, Value or Next has been called

Firsts == {c \in rest : \A d \in rest : ~Precedes(d, c)}

Init == IsFiniteSet(rest) /\ started = FALSE

(* ApplyFilter returns "applied".                                          *)
ApplyFilter(filter, applied) ==
    /\ ~started
    /\ rest' = IF applied THEN {c \in rest : Keeps(filter, c)} ELSE rest
    /\ UNCHANGED started

Start == ~started /\ started' = TRUE /\ UNCHANGED rest

Advance(mode) ==
    /\ started
    /\ \E c \in Firsts :
        rest' = {d \in rest : d # c /\ ~Matches(mode, c, d)}
    /\ UNCHANGED started

Next ==
    \/ \E filter \in InternalFilter, applied \in BOOLEAN :
            ApplyFilter(filter, applied)
    \/ Start
    \/ \E mode \in NextModes : Advance(mode)

Spec == Init /\ [][Next]_<<rest, started>>

-----------------------------------------------------------------------------
(* Less than is promised, and enough for a user that obeys a refusal by    *)
(* putting the same filter on top: a refused filter has removed some of    *)
(* the cells it leaves out, and none of those it keeps.                    *)
RefuseButNarrow(filter) ==
    /\ ~started
    /\ rest' \subseteq rest
    /\ \A c \in rest : Keeps(filter, c) => c \in rest'
    /\ UNCHANGED started

LenientNext == Next \/ \E filter \in InternalFilter : RefuseButNarrow(filter)

LenientSpec == Init /\ [][LenientNext]_<<rest, started>>

=============================================================================

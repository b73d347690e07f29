--------------------------- MODULE MCFamilyStream ---------------------------
(***************************************************************************)
(* The names a, a!, a/b and b: the exclamation mark sorts before the       *)
(* separator, so "a!/" comes before "a/" although a comes before a!.       *)
(***************************************************************************)
EXTENDS FamilyStream

MCNames == 1..4
MCParts == <<<<1>>, <<2>>, <<1, 4>>, <<4>>>>
MCPartRank == <<2, 1, 3, 4>>

CellAt(r, n, t) == [row |-> r, family |-> 1, column |-> n, time |-> t, key |-> <<>>]

(* Two columns, two rows, a row and a qualifier with a separator, and      *)
(* times whose texts are ordered the other way round.                      *)
Pool == {CellAt(1, 1, 9), CellAt(1, 1, 10), CellAt(1, 4, 9), CellAt(1, 2, 9),
         CellAt(2, 1, 9), CellAt(3, 1, 9), CellAt(4, 3, 9)}

MCTables == SUBSET Pool

MCRowSets == {MCNames, {1, 3}}

MCRegexes == {{1, 2, 3}, {1, 4}}

MCColumnRanges == {[start |-> 1, end |-> 2], [start |-> 2, end |-> 4]}

(* From 10 ms on; up to 10 ms; from within the 9th; up to half the first.  *)
MCTimeRanges == {[start |-> 10000, end |-> 0], [start |-> 9000, end |-> 10000],
                 [start |-> 9500, end |-> 0], [start |-> 0, end |-> 500]}

=============================================================================

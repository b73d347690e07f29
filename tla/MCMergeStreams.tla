--------------------------- MODULE MCMergeStreams ---------------------------
(***************************************************************************)
(* Three streams over five cells: two of one column, and one each that     *)
(* differs in the column, the family or the row.                           *)
(***************************************************************************)
EXTENDS MergeStreams

CONSTANTS s1, s2, s3, MaxCells

MCStreams == {s1, s2, s3}

Cell(r, f, c, t, at) == [row |-> r, family |-> f, column |-> c, time |-> t, at |-> at]

(* The later cell of the column comes first in memory, last in storage.    *)
Earlier == Cell(1, 1, 1, 1, 2)
LaterInMemory == Cell(1, 1, 1, 2, 1)
LaterInStorage == Cell(1, 1, 1, 2, 3)

Others == {Cell(1, 1, 2, 1, 4), Cell(1, 2, 1, 1, 5), Cell(2, 1, 1, 1, 6)}

Pool == Others \union {Earlier, LaterInMemory, LaterInStorage}

Shown == SUBSET (Pool \ {LaterInStorage})
         \union {a \union {Earlier, LaterInStorage} : a \in SUBSET Others}

(* At most MaxCells cells in all; the streams are alike, so only inputs     *)
(* where their lengths do not decrease are taken.                          *)
MCInputs ==
    {[s \in MCStreams |-> CASE s = s1 -> a [] s = s2 -> b [] s = s3 -> c] :
        <<a, b, c>> \in
            {t \in Shown \X Shown \X Shown :
                /\ Cardinality(t[1]) <= Cardinality(t[2])
                /\ Cardinality(t[2]) <= Cardinality(t[3])
                /\ Cardinality(t[1]) + Cardinality(t[2]) + Cardinality(t[3]) <= MaxCells}}

(* A row regex, a family regex, a timestamp range.                         *)
MCFilters == {{c \in Pool : c.row = 2}, {c \in Pool : c.family = 1},
              {c \in Pool : c.time = 1}}

=============================================================================

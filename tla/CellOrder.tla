------------------------------ MODULE CellOrder ------------------------------
(***************************************************************************)
(* Cells as streams show them (CellView, src/cell_view.h), the ways a      *)
(* stream may be advanced (NextMode, src/filter.h) and the order in which  *)
(* streams are merged (src/filter.cc).  A cell is a record with at least a *)
(* row, a family, a column and a time.                                     *)
(***************************************************************************)
EXTENDS Integers, Sequences

(* kCell, kColumn and kRow.                                                *)
NextModes == {"cell", "column", "row"}

SameRow(c, d) == c.row = d.row

SameColumn(c, d) == c.row = d.row /\ c.family = d.family /\ c.column = d.column

(* Next(mode) on the cell c leaves out d as well.                          *)
Matches(mode, c, d) ==
    \/ mode = "column" /\ SameColumn(c, d)
    \/ mode = "row" /\ SameRow(c, d)

(* The first cells by row key, family and column qualifier.                *)
ColumnBefore(c, d) ==
    \/ c.row < d.row
    \/ c.row = d.row /\ c.family < d.family
    \/ c.row = d.row /\ c.family = d.family /\ c.column < d.column

(* Mutant: the families are not compared.                                  *)
MergesBefore_AnyFamily(c, d) ==
    \/ c.row < d.row
    \/ c.row = d.row /\ c.column < d.column
    \/ SameRow(c, d) /\ c.column = d.column /\ c.time < d.time

(* CellStreamGreater says which stream comes out of the heap first; among  *)
(* cells of a column, the lesser timestamp.                                *)
MergesBefore(c, d) ==
    \/ ColumnBefore(c, d)
    \/ SameColumn(c, d) /\ c.time < d.time

(* The map of a column (ColumnRow::cells_) has the freshest cell first.    *)
FreshestFirst(c, d) ==
    \/ ColumnBefore(c, d)
    \/ SameColumn(c, d) /\ c.time > d.time

(* A cell with its place in a stream; names are numbered in their order.   *)
ShownCell == [row : Nat, family : Nat, column : Nat, time : Nat, at : Nat]

(* What a merge asks of a stream: no two cells have the same place, and    *)
(* the places follow the columns.                                          *)
InPlace(shown) ==
    \A c, d \in shown : /\ c.at = d.at => c = d
                        /\ ColumnBefore(c, d) => c.at < d.at

(* What is left of a stream that shows these cells after Next(mode): the   *)
(* cells from the first one on that the mode does not leave out.           *)
Skip(cells, mode) ==
    LET stops == {i \in 2..Len(cells) : ~Matches(mode, cells[1], cells[i])}
    IN IF stops = {} THEN <<>>
       ELSE SubSeq(cells, CHOOSE i \in stops : \A j \in stops : i <= j, Len(cells))

=============================================================================

------------------------------ MODULE RowStreamer ------------------------------
(***************************************************************************)
(* The response of ReadRows (row_streamer.cc, Table::ReadRows): the cells  *)
(* of a stream become chunks that leave out what is as in the chunk        *)
(* before, the chunks are sent in batches, and the last chunk of each row  *)
(* commits the row.                                                        *)
(*                                                                         *)
(* Row keys, column families and qualifiers are byte strings that the code *)
(* compares with each other, so a string may be all three.                 *)
(***************************************************************************)
EXTENDS Naturals, Sequences, FiniteSetsExt

CONSTANTS
    Row,            \* row keys
    Family,         \* column families
    Qualifier,      \* column qualifiers
    None,           \* a field of a chunk that is not set
    MaxPending,     \* chunks kept before they are flushed (200 in the code)
    RowsLimit,      \* rows_limit of the request, 0 for none
    MaxCells        \* bound: cells in the stream

ASSUME RowStreamerAssumption ==
    /\ None \notin Row \union Family \union Qualifier
    /\ MaxPending \in Nat \ {0}
    /\ RowsLimit \in Nat
    /\ MaxCells \in Nat

Cell == [row : Row, fam : Family, qual : Qualifier]

Chunk == [row : Row \union {None}, fam : Family \union {None},
          qual : Qualifier \union {None}, commit : BOOLEAN]

VARIABLES
    state,          \* "streaming", "done" or "aborted"
    streamed,       \* the cells given to Stream, in order
    current_row,    \* current_row_key_
    pending,        \* pending_chunks_
    sent            \* the chunks of the messages written so far

vars == <<state, streamed, current_row, pending, sent>>

TypeOK ==
    /\ state \in {"streaming", "done", "aborted"}
    /\ streamed \in Seq(Cell)
    /\ current_row \in Row \union {None}
    /\ pending \in Seq(Chunk)
    /\ Len(pending) <= MaxPending
    /\ sent \in Seq(Chunk)

Init ==
    /\ state = "streaming"
    /\ streamed = << >>
    /\ current_row = None
    /\ pending = << >>
    /\ sent = << >>

Rows(cells) == {cells[i].row : i \in DOMAIN cells}

(* Mutant: the qualifier is left out when the row is still the same. *)
ChunkOf_SameRow(c) ==
    LET newRow == current_row # c.row
    IN  [row |-> IF newRow THEN c.row ELSE None,
         fam |-> IF newRow \/ current_row # c.fam THEN c.fam ELSE None,
         qual |-> IF newRow THEN c.qual ELSE None,
         commit |-> FALSE]

(***************************************************************************)
(* The code compares current_row_key_, not the current family and the      *)
(* current qualifier, with those of the cell.                              *)
(***************************************************************************)
ChunkOf(c) ==
    LET newRow == current_row # c.row
        newFamily == newRow \/ c.row # c.fam
        newQualifier == newFamily \/ c.row # c.qual
    IN  [row |-> IF newRow THEN c.row ELSE None,
         fam |-> IF newFamily THEN c.fam ELSE None,
         qual |-> IF newQualifier THEN c.qual ELSE None,
         commit |-> FALSE]

CommitLast(chunks) ==
    IF chunks = << >> THEN << >> ELSE [chunks EXCEPT ![Len(chunks)].commit = TRUE]

(* Mutant: all the pending chunks are flushed. *)
HeldBack_None(chunks) == << >>

(* The last chunk stays: whether it commits its row is not known yet. *)
HeldBack(chunks) == IF chunks = << >> THEN << >> ELSE <<chunks[Len(chunks)]>>

(* Write the chunks; the client may have closed the stream. *)
Write(chunks, rest) ==
    \/ /\ sent' = sent \o chunks
       /\ pending' = rest
       /\ UNCHANGED state
    \/ /\ state' = "aborted"
       /\ pending' = rest
       /\ UNCHANGED sent

(* Mutant: the chunk that is held back is dropped. *)
Flush_DropsHeldBack(chunks) ==
    Write(SubSeq(chunks, 1, Len(chunks) - Len(HeldBack(chunks))), << >>)

(* Flush(false) *)
Flush(chunks) ==
    LET held == HeldBack(chunks)
    IN  Write(SubSeq(chunks, 1, Len(chunks) - Len(held)), held)

Full(chunks) == Len(chunks) > MaxPending

(***************************************************************************)
(* The next cell of the stream: of the same row, or of a row that has not  *)
(* been seen, while the rows limit allows it.                              *)
(***************************************************************************)
Stream(c) ==
    /\ state = "streaming"
    /\ Len(streamed) < MaxCells
    /\ \/ c.row = current_row
       \/ /\ c.row \notin Rows(streamed)
          /\ RowsLimit > 0 => Cardinality(Rows(streamed)) < RowsLimit
    /\ streamed' = Append(streamed, c)
    /\ current_row' = c.row
    /\ LET before == IF c.row = current_row THEN pending ELSE CommitLast(pending)
           chunks == Append(before, ChunkOf(c))
       IN  IF Full(chunks)
             THEN Flush(chunks)
             ELSE pending' = chunks /\ UNCHANGED <<state, sent>>

(* The stream ends: Flush(true). *)
Finish ==
    /\ state = "streaming"
    /\ \/ sent' = sent \o CommitLast(pending) /\ state' = "done"
       \/ UNCHANGED sent /\ state' = "aborted"
    /\ pending' = << >>
    /\ current_row' = None
    /\ UNCHANGED streamed

Next == Finish \/ \E c \in Cell : Stream(c)

Spec == Init /\ [][Next]_vars

-----------------------------------------------------------------------------
(***************************************************************************)
(* How a client reads the chunks: a field that is not set is as in the     *)
(* last chunk that set it.                                                 *)
(***************************************************************************)
RowAt(i) == sent[Max({j \in 1 .. i : sent[j].row # None})].row

FamilyAt(i) == sent[Max({j \in 1 .. i : sent[j].fam # None})].fam

QualifierAt(i) == sent[Max({j \in 1 .. i : sent[j].qual # None})].qual

DecodedAt(i) == [row |-> RowAt(i), fam |-> FamilyAt(i), qual |-> QualifierAt(i)]

(***************************************************************************)
(* The client reads back the cells that ReadRows streamed, across batches  *)
(* and rows, except for cells whose row key is the name of their family.   *)
(***************************************************************************)
CellsDecode ==
    \A i \in DOMAIN sent :
        \/ DecodedAt(i) = streamed[i]
        \/ streamed[i].row = streamed[i].fam

(***************************************************************************)
(* A chunk commits its row exactly if it is the last one of the row, so a  *)
(* row is never committed in part and never left uncommitted, wherever     *)
(* the batches end.                                                        *)
(***************************************************************************)
RowsCommittedWhole ==
    \A i \in DOMAIN sent :
        sent[i].commit <=> \/ i < Len(streamed) /\ streamed[i + 1].row # streamed[i].row
                           \/ i = Len(streamed) /\ state = "done"

(* When ReadRows returns OK every cell has been sent, once. *)
AllCellsSent == state = "done" => Len(sent) = Len(streamed)

(***************************************************************************)
(* row_streamer.h: "Objects of this class implement the ReadRows response  *)
(* protocol", so the client reads back all cells that were streamed.       *)
(***************************************************************************)
ImplementsProtocol == \A i \in DOMAIN sent : DecodedAt(i) = streamed[i]

=============================================================================

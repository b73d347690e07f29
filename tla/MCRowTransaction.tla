--------------------------- MODULE MCRowTransaction ---------------------------
(* Constants of RowTransaction for TLC. *)
EXTENDS RowTransaction

(* 1500 truncates to 1 ms, -1 asks for the server's time, -2 is refused. *)
MCMicros == {-2, -1, 1500}

MCMicrosServerTime == {-1}

(* Everything, the oldest millisecond alone, a range that truncates to empty. *)
MCTimeRange ==
    {[start |-> 0, end |-> 0], [start |-> 1000, end |-> 2000], [start |-> 1100, end |-> 1900]}

MCWholeRange == {[start |-> 0, end |-> 0]}

MCTime == {1, 2}
=============================================================================

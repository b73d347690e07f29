----------------------------- MODULE AtomicTable -----------------------------
(***************************************************************************)
(* What a table promises its clients about its cells, with no account of   *)
(* how.  A row request (MutateRow, an entry of MutateRows,                 *)
(* CheckAndMutateRow, ReadModifyWriteRow) changes cells of the one row it  *)
(* names, all at once, or is refused and changes nothing.  Outside row     *)
(* requests cells can only disappear: an administrator drops rows, garbage *)
(* collection runs, the process ends.                                      *)
(***************************************************************************)
CONSTANTS Row, Cell, Contents, None

VARIABLES
    view,       \* the cells a client can observe
    reply       \* how the last operation ended: "ok", "error" or "none"

vars == <<view, reply>>

Init == view = [k \in Cell |-> None] /\ reply = "none"

Succeed(r) ==
    /\ view' \in Contents
    /\ \A k \in Cell : k.row # r => view'[k] = view[k]
    /\ reply' = "ok"

Refuse == UNCHANGED view /\ reply' = "error"

LoseCells ==
    /\ view' \in Contents
    /\ \A k \in Cell : view'[k] \in {view[k], None}
    /\ reply' = "none"

Next == Refuse \/ LoseCells \/ \E r \in Row : Succeed(r)

Spec == Init /\ [][Next]_vars

=============================================================================

---------------------------- MODULE RowTransaction ----------------------------
(***************************************************************************)
(* The row requests of one table (table.cc): MutateRow, the entries of     *)
(* MutateRows, CheckAndMutateRow and ReadModifyWriteRow, each run as a     *)
(* RowTransaction with an undo log over the in-memory column families and, *)
(* when the emulator has a database, written through to Storage mutation   *)
(* by mutation.  Table::mu_ is held from the first to the last step of a   *)
(* request, so a request interleaves only with the end of the process.     *)
(*                                                                         *)
(* A behaviour picks the mutations of a request one at a time, which       *)
(* stands for every list of mutations of which at most MaxUndo change a    *)
(* cell.  The nested maps row -> column -> timestamp of the column         *)
(* families are flattened to a function on cells.                          *)
(***************************************************************************)
EXTENDS Storage, Sequences

CONSTANTS
    Numeric,        \* the values that decode as a big-endian int64
    Aggregate,      \* the families declared with an aggregate value type
    Micros,         \* timestamps, in microseconds, that requests carry
    TimeRange,      \* the time ranges of DeleteFromColumn, in microseconds
    MaxVersions,    \* the max_num_versions garbage collection rule of every family
    Persistent,     \* whether there is a global storage
    MaxUndo         \* bound: entries in the undo log of one request

(***************************************************************************)
(* duration_cast<milliseconds>(microseconds(us)) rounds towards zero.      *)
(***************************************************************************)
Millis(us) == IF us >= 0 THEN us \div 1000 ELSE -((-us) \div 1000)

ASSUME RowTransactionAssumption ==
    /\ Numeric \subseteq Value
    /\ Aggregate \subseteq Family
    /\ Time \subseteq Nat
    /\ Micros \subseteq Int
    /\ \A us \in Micros : us >= 0 => Millis(us) \in Time
    /\ TimeRange \subseteq [start : Nat, end : Nat]
    /\ MaxVersions \in Nat \ {0}
    /\ Persistent \in BOOLEAN
    /\ MaxUndo \in Nat

VARIABLES
    mem,        \* the in-memory column families: Table::column_families_
    pc,         \* "idle", "mutating" or "undoing" (~RowTransaction at work)
    row,        \* row_key_ of the transaction
    tableKey,   \* whether table_key_ is set: FALSE for ReadModifyWriteRow
    undo,       \* the stack undo_, last pushed last
    matched,    \* predicate_matched of CheckAndMutateRow
    reply,      \* how the last operation ended
    snap,       \* history: mem when the request began
    snapStore,  \* history: store when the request began
    acked,      \* history: the persisted cells as the mutations define them
    excused     \* history: cells for which acked makes no claim

control == <<pc, row, tableKey, undo, matched, reply>>
history == <<snap, snapStore, acked, excused>>
vars == <<mem, control, history, storageVars>>

(***************************************************************************)
(* One element of undo holds what one mutation pushed: a function from the *)
(* cells it changed to the values they had.  A cell that had a value is a  *)
(* RestoreValue; one that had none (None) is a DeleteValue.  The cells of  *)
(* one mutation are distinct, so the order among them does not matter.     *)
(***************************************************************************)
UndoEntry == UNION {[S -> MaybeValue] : S \in SUBSET Cell}

TypeOK ==
    /\ StorageTypeOK
    /\ mem \in Contents
    /\ pc \in {"idle", "mutating", "undoing"}
    /\ row \in Row
    /\ tableKey \in BOOLEAN
    /\ undo \in Seq(UndoEntry)
    /\ Len(undo) <= MaxUndo
    /\ pc = "idle" => undo = << >>
    /\ matched \in BOOLEAN
    /\ reply \in {"none", "ok", "error"}
    /\ snap \in Contents
    /\ snapStore \in Contents
    /\ acked \in Contents
    /\ excused \in SUBSET Cell

Init ==
    /\ store = Empty
    /\ handle = [f \in Family |-> "absent"]
    /\ mem = Empty
    /\ pc = "idle"
    /\ row \in Row
    /\ tableKey = TRUE
    /\ undo = << >>
    /\ matched = FALSE
    /\ reply = "none"
    /\ snap = Empty
    /\ snapStore = Empty
    /\ acked = Empty
    /\ excused = {}

-----------------------------------------------------------------------------
(* A request begins: the constructor of RowTransaction. *)

BeginTransaction(r, hasTableKey) ==
    /\ pc = "idle"
    /\ pc' = "mutating"
    /\ row' = r
    /\ tableKey' = hasTableKey
    /\ undo' = << >>
    /\ snap' = mem
    /\ snapStore' = store
    /\ UNCHANGED <<mem, reply, acked, excused>>

MutateRow(r) ==
    /\ BeginTransaction(r, TRUE)
    /\ matched' = FALSE
    /\ UNCHANGED storageVars

ReadModifyWriteRow(r) ==
    /\ BeginTransaction(r, FALSE)
    /\ matched' = FALSE
    /\ UNCHANGED storageVars

(***************************************************************************)
(* The predicate of CheckAndMutateRow passes the cells of some columns.    *)
(* The in-memory streams are restricted to the request's row; the          *)
(* persistent ones are created without the row set and see every row.      *)
(***************************************************************************)
PredicateMatches(r, columns) ==
    IF Persistent
      THEN \E k \in Cell : k.col \in columns /\ store[k] # None
      ELSE \E k \in RowCells(r) : k.col \in columns /\ mem[k] # None

(* Only when no iterator is null: see Restart for the other case. *)
CreateCellStream ==
    IF Persistent THEN ~NullIterator /\ NewIterators ELSE UNCHANGED storageVars

CheckAndMutateRow(r, columns) ==
    /\ BeginTransaction(r, TRUE)
    /\ CreateCellStream
    /\ matched' = PredicateMatches(r, columns)

ReadRows ==
    /\ pc = "idle"
    /\ CreateCellStream
    /\ UNCHANGED <<mem, control, history>>

-----------------------------------------------------------------------------
(* Mutations. *)

Mutating(hasTableKey) ==
    /\ pc = "mutating"
    /\ tableKey = hasTableKey

(* Mutant: overwritten and deleted values are not logged, only new cells. *)
PushUndo_NewCellsOnly(S) ==
    /\ Len(undo) < MaxUndo
    /\ undo' = IF \A k \in S : mem[k] # None THEN undo
               ELSE Append(undo, [k \in S |-> mem[k]])

(* Push an undo entry for the cells S, which the mutation is about to change. *)
PushUndo(S) ==
    /\ Len(undo) < MaxUndo
    /\ undo' = IF S = {} THEN undo ELSE Append(undo, [k \in S |-> mem[k]])

(* History: see AckedCellsPersist. *)
Excuse(S) == excused' = IF Persistent THEN S ELSE {}

(* Mutant: the undo log is lost before the destructor runs. *)
Refused_LogLost ==
    /\ pc' = "undoing"
    /\ undo' = << >>
    /\ Excuse(excused \union RowCells(row))
    /\ UNCHANGED <<mem, row, tableKey, matched, reply, snap, snapStore, acked, storageVars>>

(* A mutation that is refused: DoMutationsWithPossibleRollback returns and   *)
(* the destructor of the RowTransaction starts to undo.                      *)
Refused ==
    /\ pc' = "undoing"
    /\ Excuse(excused \union RowCells(row))
    /\ UNCHANGED <<mem, row, tableKey, undo, matched, reply, snap, snapStore, acked,
                   storageVars>>

(***************************************************************************)
(* The mutations refused before they look at any cell: an unknown column   *)
(* family, a timestamp below -1, AddToCell on a family that is not         *)
(* aggregate, MergeToCell, an unset mutation or rule, or an empty or       *)
(* reversed time range.                                                    *)
(***************************************************************************)
RejectMutation ==
    /\ pc = "mutating"
    /\ Refused

IfPersistent(A) == IF Persistent THEN A ELSE UNCHANGED storageVars

SetCellTime(us, now) == IF us = -1 THEN now ELSE Millis(us)

(* Storage is written before memory, and the result of PutCell is ignored. *)
SetCell(f, c, us, now, v) ==
    LET k == [row |-> row, fam |-> f, col |-> c, ts |-> SetCellTime(us, now)]
    IN  /\ Mutating(TRUE)
        /\ us >= -1
        /\ IfPersistent(PutCell(k, v))
        /\ mem' = [mem EXCEPT ![k] = v]
        /\ PushUndo({k})
        /\ acked' = IF Persistent THEN [acked EXCEPT ![k] = v] ELSE acked
        /\ Excuse(IF handle[f] = "null" THEN excused \union {k} ELSE excused \ {k})
        /\ UNCHANGED <<pc, row, tableKey, matched, reply, snap, snapStore>>

(***************************************************************************)
(* AddToCell: sum, min or max with the cell at the timestamp, when there   *)
(* is one.  Which of the three, and hence the new value, is left open.     *)
(***************************************************************************)
AddToCellTime(us, now) == IF Millis(us) <= 0 THEN now ELSE Millis(us)

AddToCell(f, c, us, now, v) ==
    LET k == [row |-> row, fam |-> f, col |-> c, ts |-> AddToCellTime(us, now)]
    IN  /\ f \in Aggregate
        /\ Mutating(TRUE)
        /\ \/ /\ mem[k] \in Numeric \union {None}
              /\ mem' = [mem EXCEPT ![k] = v]
              /\ PushUndo({k})
              /\ UNCHANGED <<pc, row, tableKey, matched, reply, history, storageVars>>
           \/ /\ mem[k] \in Value \ Numeric
              /\ Refused

(* The cells of the column that DeleteTimeRange erases: an end of 0 is infinity. *)
InTimeRange(S, range) ==
    {k \in S : /\ Millis(range.start) <= k.ts
               /\ range.end = 0 \/ k.ts < Millis(range.end)}

ValidTimeRange(range) == range.end = 0 \/ Millis(range.start) < Millis(range.end)

DeleteFromColumn(f, c, range) ==
    LET column == ColumnCells(row, f, c)
        S == InTimeRange(column, range)
    IN  /\ Mutating(TRUE)
        /\ ValidTimeRange(range)
        /\ mem' = Erase(mem, S)
        /\ PushUndo(Present(mem, S))
        /\ IfPersistent(DeleteColumn(row, f, c))
        /\ acked' = Erase(acked, S)
        /\ Excuse((excused \union column) \ S)
        /\ UNCHANGED <<pc, row, tableKey, matched, reply, snap, snapStore>>

(* The cells S of the row go; the request is refused when memory has none. *)
DeleteCells(S, StorageDelete) ==
    /\ Mutating(TRUE)
    /\ \/ /\ Present(mem, S) # {}
          /\ mem' = Erase(mem, S)
          /\ PushUndo(Present(mem, S))
          /\ StorageDelete
          /\ acked' = Erase(acked, S)
          /\ Excuse(excused \ S)
          /\ UNCHANGED <<pc, row, tableKey, matched, reply, snap, snapStore>>
       \/ /\ Present(mem, S) = {}
          /\ Refused

DeleteFromFamily(f) ==
    DeleteCells(FamilyCells(row, f), IfPersistent(DeleteCFRow(row, f)))

DeleteFromRow ==
    DeleteCells(RowCells(row), IfPersistent(DeleteRow(row)))

(***************************************************************************)
(* A rule of ReadModifyWriteRow: the result goes to a new cell at the      *)
(* server's time, or over the newest cell when that is not older than the  *)
(* server's time.  An increment needs the newest value to be a number.     *)
(* Nothing is written to Storage.                                          *)
(***************************************************************************)
Newest(S) == {k \in S : \A l \in S : l.ts <= k.ts}

ReadModifyWrite(f, c, now, increment, v) ==
    LET newest == Newest(Present(mem, ColumnCells(row, f, c)))
        target == IF \A l \in newest : l.ts < now
                    THEN {[row |-> row, fam |-> f, col |-> c, ts |-> now]}
                    ELSE newest
    IN  /\ Mutating(FALSE)
        /\ \/ /\ increment => v \in Numeric /\ \A l \in newest : mem[l] \in Numeric
              /\ \E k \in target : mem' = [mem EXCEPT ![k] = v] /\ PushUndo({k})
              /\ UNCHANGED <<pc, row, tableKey, matched, reply, history, storageVars>>
           \/ /\ increment
              /\ \E l \in newest : mem[l] \notin Numeric
              /\ Refused

-----------------------------------------------------------------------------
(* The request ends. *)

(* Mutant: the next request starts with the undo log of this one. *)
Finish_KeepsLog(result) ==
    /\ pc' = "idle"
    /\ tableKey' = TRUE
    /\ matched' = FALSE
    /\ reply' = result
    /\ snap' = mem
    /\ snapStore' = store
    /\ UNCHANGED <<mem, row, undo, acked, excused, storageVars>>

Finish(result) ==
    /\ pc' = "idle"
    /\ tableKey' = TRUE
    /\ undo' = << >>
    /\ matched' = FALSE
    /\ reply' = result
    /\ snap' = mem
    /\ snapStore' = store
    /\ UNCHANGED <<mem, row, acked, excused, storageVars>>

Commit ==
    /\ pc = "mutating"
    /\ Finish("ok")

(* Mutant: undo_ is a queue. *)
Top_Oldest == undo[1]

(* The entry Undo takes next: undo_ is a stack. *)
Top == undo[Len(undo)]

(* Mutant: the loop of Undo does not pop. *)
Undo_NoPop ==
    /\ pc = "undoing"
    /\ undo # << >>
    /\ mem' = [k \in Cell |-> IF k \in DOMAIN Top THEN Top[k] ELSE mem[k]]
    /\ UNCHANGED <<control, history, storageVars>>

(***************************************************************************)
(* One turn of the loop of Undo.  A RestoreValue is put back in memory     *)
(* only; a DeleteValue is deleted from Storage, unless table_key_ is       *)
(* empty, and from memory.                                                 *)
(***************************************************************************)
Undo ==
    /\ pc = "undoing"
    /\ undo # << >>
    /\ mem' = [k \in Cell |-> IF k \in DOMAIN Top THEN Top[k] ELSE mem[k]]
    /\ IF Persistent /\ tableKey
         THEN DeleteCell({k \in DOMAIN Top : Top[k] = None})
         ELSE UNCHANGED storageVars
    /\ undo' = SubSeq(undo, 1, Len(undo) - 1)
    /\ UNCHANGED <<pc, row, tableKey, matched, reply, history>>

ReturnError ==
    /\ pc = "undoing"
    /\ undo = << >>
    /\ Finish("error")

-----------------------------------------------------------------------------
(* What else changes cells, each under Table::mu_. *)

LoseCells(S) ==
    /\ pc = "idle"
    /\ mem' = Erase(mem, S)
    /\ reply' = "none"
    /\ snap' = mem'
    /\ UNCHANGED <<pc, row, tableKey, undo, matched, snapStore, acked,
                   excused, storageVars>>

(* The rows of a prefix, or all of them; Storage is not told. *)
DropRowRange(rows) == LoseCells({k \in Cell : k.row \in rows})

(* The cells of a column past the MaxVersions newest; Storage is not told. *)
Collectable ==
    {k \in Cell :
        MaxVersions <= Cardinality({l \in Present(mem, ColumnCells(k.row, k.fam, k.col)) :
                                        k.ts < l.ts})}

RunGC == LoseCells(Collectable)

(***************************************************************************)
(* The process ends, at any step of a request, and starts again on the     *)
(* same database.  Reading a table that has a null handle also ends it.    *)
(***************************************************************************)
Restart ==
    /\ mem' = Empty
    /\ pc' = "idle"
    /\ tableKey' = TRUE
    /\ undo' = << >>
    /\ matched' = FALSE
    /\ reply' = "none"
    /\ snap' = Empty
    /\ snapStore' = store
    /\ Excuse(IF pc = "idle" THEN excused ELSE excused \union RowCells(row))
    /\ Reopen
    /\ UNCHANGED <<row, acked>>

-----------------------------------------------------------------------------
Mutation ==
    \/ RejectMutation
    \/ \E f \in Family, c \in Column, us \in Micros, now \in Time, v \in Value :
          SetCell(f, c, us, now, v)
    \/ \E f \in Family, c \in Column, us \in Micros, now \in Time, v \in Numeric :
          AddToCell(f, c, us, now, v)
    \/ \E f \in Family, c \in Column, range \in TimeRange : DeleteFromColumn(f, c, range)
    \/ \E f \in Family : DeleteFromFamily(f)
    \/ DeleteFromRow
    \/ \E f \in Family, c \in Column, now \in Time, increment \in BOOLEAN, v \in Value :
          ReadModifyWrite(f, c, now, increment, v)

Request ==
    \/ \E r \in Row : MutateRow(r) \/ ReadModifyWriteRow(r)
    \/ \E r \in Row, columns \in SUBSET Column : CheckAndMutateRow(r, columns)
    \/ ReadRows

Next ==
    \/ Request
    \/ Mutation
    \/ Commit
    \/ Undo
    \/ ReturnError
    \/ \E rows \in SUBSET Row : DropRowRange(rows)
    \/ RunGC
    \/ Restart

Spec == Init /\ [][Next]_vars

(***************************************************************************)
(* The thread that serves a request keeps running: a destructor that has   *)
(* begun to undo goes on until the stack is empty, and returns.            *)
(***************************************************************************)
FairSpec == Spec /\ WF_vars(Undo) /\ WF_vars(ReturnError)

-----------------------------------------------------------------------------
(***************************************************************************)
(* Every cell the undo log names is a cell of the row of the request, so   *)
(* undoing (RowTransaction::Undo, which uses row_key_) touches no other    *)
(* row.                                                                    *)
(***************************************************************************)
UndoLogCoversRow ==
    \A i \in 1 .. Len(undo) : \A k \in DOMAIN undo[i] : k.row = row

(***************************************************************************)
(* At every step of a request and of its rollback, the undo log and the    *)
(* column families together still hold the row as it was: a cell that the  *)
(* log does not name is unchanged, and the oldest entry for a cell that it *)
(* names has the cell's first value.  Several mutations of one request may *)
(* set, delete and set again the same cell.                                *)
(***************************************************************************)
UndoLogLeadsBack ==
    \A k \in Cell :
        \/ /\ mem[k] = snap[k]
           /\ \A i \in 1 .. Len(undo) : k \notin DOMAIN undo[i]
        \/ \E i \in 1 .. Len(undo) :
              /\ k \in DOMAIN undo[i]
              /\ undo[i][k] = snap[k]
              /\ \A j \in 1 .. i - 1 : k \notin DOMAIN undo[j]

(***************************************************************************)
(* When ~RowTransaction is done undoing a refused request, the in-memory   *)
(* column families are exactly what they were when the request began.      *)
(***************************************************************************)
RollbackRestoresMemory ==
    pc = "undoing" /\ undo = << >> => mem = snap

AT == INSTANCE AtomicTable WITH view <- IF pc = "idle" THEN mem ELSE snap

(***************************************************************************)
(* The in-memory table implements AtomicTable: a request that is answered  *)
(* OK changes its own row in one step, one that is answered with an error  *)
(* changes nothing, whatever mutations it had done before it was refused.  *)
(***************************************************************************)
AtomicRows == AT!Spec

(***************************************************************************)
(* A rollback that has begun comes to its end: the loop of Undo empties    *)
(* the stack and the request returns, so Table::mu_ is released.           *)
(***************************************************************************)
RollbackEnds == pc = "undoing" ~> pc = "idle"

(***************************************************************************)
(* Every persisted cell is in a column family that Storage has an open     *)
(* handle for, after any sequence of lookups, deletions and reopenings: a  *)
(* cell that exists on disk can be read and deleted.                       *)
(***************************************************************************)
StoredCellsReachable ==
    \A k \in Cell : store[k] # None => handle[k.fam] = "open"

(***************************************************************************)
(* The persisted cells are those the mutations of the requests define,     *)
(* through rollbacks of other rows, dropped rows, garbage collection and   *)
(* restarts: a value that SetCell wrote stays until it is overwritten or   *)
(* deleted.  Excused are the cells of a row whose request was refused or   *)
(* cut off by the end of the process, until they are written again; the    *)
(* cells of a column outside the time range of a DeleteFromColumn; and     *)
(* cells set in a family whose handle is null.                             *)
(***************************************************************************)
AckedCellsPersist ==
    \A k \in Cell \ excused : store[k] = acked[k]

-----------------------------------------------------------------------------
(* What persistence.md says and the code does not do. *)

(***************************************************************************)
(* persistence.md, Rollback consistency: undoing "keeps storage and memory *)
(* consistent when a multi-mutation request fails partway through".  When  *)
(* the two agree as a request begins, they would agree again once the      *)
(* request has been undone.                                                *)
(***************************************************************************)
RollbackKeepsStorageConsistent ==
    pc = "undoing" /\ undo = << >> /\ snap = snapStore => store = mem

(***************************************************************************)
(* persistence.md, Rollback consistency: the DeleteValue path removes "a   *)
(* cell that was newly created in the transaction".  The first entry for a *)
(* cell would then be a DeleteValue only when the cell was not persisted.  *)
(***************************************************************************)
DeleteValueIsNewCell ==
    \A i \in 1 .. Len(undo) : \A k \in DOMAIN undo[i] :
        /\ undo[i][k] = None
        /\ \A j \in 1 .. i - 1 : k \notin DOMAIN undo[j]
        => snapStore[k] = None

(***************************************************************************)
(* persistence.md, Persisted write/delete paths: SetCell mirrors its       *)
(* change to RocksDB.                                                      *)
(***************************************************************************)
SetCellIsMirrored ==
    [][\A f \in Family, c \in Column, us \in Micros, now \in Time, v \in Value :
          SetCell(f, c, us, now, v) =>
            store'[[row |-> row, fam |-> f, col |-> c, ts |-> SetCellTime(us, now)]] = v]_vars

(***************************************************************************)
(* persistence.md, Persisted write/delete paths: DeleteFromColumn mirrors  *)
(* its change to RocksDB, so a cell that it leaves in memory stays in      *)
(* RocksDB as well.                                                        *)
(***************************************************************************)
DeleteFromColumnIsMirrored ==
    [][\A f \in Family, c \in Column, range \in TimeRange :
          DeleteFromColumn(f, c, range) =>
            \A k \in Cell : mem'[k] # None => store'[k] = store[k]]_vars

(***************************************************************************)
(* persistence.md, Read path: the persistent stream "applies row, column,  *)
(* regex, and timestamp filters", so the predicate of CheckAndMutateRow    *)
(* matches only because of a cell of the row it names.                     *)
(***************************************************************************)
PredicateReadsItsRow ==
    [][\A r \in Row, columns \in SUBSET Column :
          CheckAndMutateRow(r, columns) /\ matched' =>
            \E k \in RowCells(r) : k.col \in columns /\ store[k] # None]_vars

=============================================================================

------------------------- MODULE RowTransactionProofs -------------------------
(***************************************************************************)
(* Proofs about RowTransaction for every set of rows, families, columns,   *)
(* timestamps and values, with and without a database, and for undo logs   *)
(* of any length.                                                          *)
(***************************************************************************)
EXTENDS RowTransaction, SequenceTheorems, TLAPS

(***************************************************************************)
(* RollbackRestoresMemory and AtomicRows speak of the last step of a       *)
(* rollback; what is true at every step is that the log, read from its     *)
(* oldest entry, gives the first value of every cell that has changed.     *)
(***************************************************************************)
UndoInv == UndoLogCoversRow /\ UndoLogLeadsBack

IInv == TypeOK /\ UndoInv

-----------------------------------------------------------------------------
(* Cells and contents. *)

(* The cells of a row, a family and a column are cells of the row. *)
LEMMA CellSets ==
    ASSUME NEW r, NEW f, NEW c
    PROVE  /\ RowCells(r) \subseteq Cell
           /\ FamilyCells(r, f) \subseteq RowCells(r)
           /\ ColumnCells(r, f, c) \subseteq RowCells(r)
BY DEF RowCells, FamilyCells, ColumnCells

(* Erase gives contents that differ from the old ones on the erased cells only. *)
LEMMA EraseType ==
    ASSUME NEW m \in Contents, NEW S
    PROVE  /\ Erase(m, S) \in Contents
           /\ \A k \in Cell : k \notin S => Erase(m, S)[k] = m[k]
           /\ \A k \in Cell : k \in S => Erase(m, S)[k] = None
BY DEF Erase, Contents, MaybeValue

(* Erasing S changes only those cells of S that are present. *)
LEMMA ErasePresent ==
    ASSUME NEW m \in Contents, NEW S \in SUBSET Cell
    PROVE  \A k \in Cell : k \notin Present(m, S) => Erase(m, S)[k] = m[k]
BY DEF Erase, Present, Contents

(* Writing one cell gives contents that differ on that cell only. *)
LEMMA UpdateType ==
    ASSUME NEW m \in Contents, NEW k \in Cell, NEW v \in MaybeValue
    PROVE  /\ [m EXCEPT ![k] = v] \in Contents
           /\ \A l \in Cell : l \notin {k} => [m EXCEPT ![k] = v][l] = m[l]
BY DEF Contents

(* The storage operations keep the types of storage. *)
LEMMA StorageTypes ==
    ASSUME StorageTypeOK
    PROVE  /\ \A k \in Cell, v \in Value : PutCell(k, v) => StorageTypeOK'
           /\ \A r, c : \A f \in Family : DeleteColumn(r, f, c) => StorageTypeOK'
           /\ \A S : DeleteCell(S) => StorageTypeOK'
           /\ \A r : DeleteRow(r) => StorageTypeOK'
           /\ \A r, f : DeleteCFRow(r, f) => StorageTypeOK'
           /\ NewIterators => StorageTypeOK'
           /\ Reopen => StorageTypeOK'
           /\ UNCHANGED storageVars => StorageTypeOK'
<1>1. \A S : Erase(store, S) \in Contents
  BY EraseType DEF StorageTypeOK
<1>2. \A f \in Family : GetOrAddHandle(f) \in Handle
  BY DEF StorageTypeOK, GetOrAddHandle, Handle
<1>3. ASSUME NEW k \in Cell, NEW v \in Value, PutCell(k, v) PROVE StorageTypeOK'
  <2>1. k.fam \in Family
    BY DEF Cell
  <2>2. handle' \in [Family -> Handle]
    BY <1>2, <1>3, <2>1 DEF PutCell, StorageTypeOK
  <2>3. store' \in Contents
    BY <1>3, UpdateType DEF PutCell, StorageTypeOK, MaybeValue
  <2> QED BY <2>2, <2>3 DEF StorageTypeOK
<1>4. ASSUME NEW r, NEW c, NEW f \in Family, DeleteColumn(r, f, c) PROVE StorageTypeOK'
  BY <1>1, <1>4 DEF DeleteColumn, StorageTypeOK, Handle
<1>5. \A S : DeleteCell(S) => StorageTypeOK'
  BY <1>1 DEF DeleteCell, StorageTypeOK
<1>6. \A r : DeleteRow(r) => StorageTypeOK'
  BY <1>1 DEF DeleteRow, StorageTypeOK
<1>7. \A r, f : DeleteCFRow(r, f) => StorageTypeOK'
  BY <1>1 DEF DeleteCFRow, StorageTypeOK
<1>8. NewIterators => StorageTypeOK'
  BY <1>2 DEF NewIterators, StorageTypeOK
<1>9. Reopen => StorageTypeOK'
  BY DEF Reopen, StorageTypeOK, Handle
<1> QED BY <1>3, <1>4, <1>5, <1>6, <1>7, <1>8, <1>9 DEF storageVars, StorageTypeOK

-----------------------------------------------------------------------------
(* The undo log. *)

(***************************************************************************)
(* A mutation that changes cells of its row, and first logs their old      *)
(* values, keeps the undo log leading back to the start of the request.    *)
(***************************************************************************)
LEMMA LoggedStep ==
    ASSUME IInv,
           NEW S \in SUBSET Cell, S \subseteq RowCells(row), PushUndo(S),
           \A k \in Cell : k \notin S => mem'[k] = mem[k],
           pc = "mutating", pc' = "mutating", row' = row, snap' = snap
    PROVE  /\ undo' \in Seq(UndoEntry)
           /\ Len(undo') <= MaxUndo
           /\ UndoInv'
<1>1. undo \in Seq(UndoEntry) /\ Len(undo) \in Nat /\ mem \in Contents
  BY DEF IInv, TypeOK
<1>2. CASE S = {}
  <2>1. undo' = undo /\ \A k \in Cell : mem'[k] = mem[k]
    BY <1>2 DEF PushUndo
  <2> QED BY <2>1 DEF IInv, TypeOK, UndoInv, UndoLogCoversRow, UndoLogLeadsBack
<1>3. CASE S # {}
  <2> DEFINE e == [k \in S |-> mem[k]]
  <2>1. e \in UndoEntry
    BY <1>1 DEF UndoEntry, Contents
  <2>2. undo' = Append(undo, e)
    BY <1>3 DEF PushUndo
  <2>3. /\ undo' \in Seq(UndoEntry)
        /\ Len(undo') = Len(undo) + 1
        /\ \A i \in 1 .. Len(undo) : undo'[i] = undo[i]
        /\ undo'[Len(undo) + 1] = e
    BY <1>1, <2>1, <2>2, AppendProperties
  <2>4. Len(undo') <= MaxUndo
    BY <1>1, <2>3, RowTransactionAssumption DEF PushUndo
  <2>5. UndoLogCoversRow'
    BY <1>1, <2>3 DEF UndoLogCoversRow, IInv, UndoInv, RowCells
  <2>6. ASSUME NEW k \in Cell
        PROVE  \/ /\ mem'[k] = snap'[k]
                  /\ \A i \in 1 .. Len(undo') : k \notin DOMAIN undo'[i]
               \/ \E i \in 1 .. Len(undo') :
                     /\ k \in DOMAIN undo'[i]
                     /\ undo'[i][k] = snap'[k]
                     /\ \A j \in 1 .. i - 1 : k \notin DOMAIN undo'[j]
    <3>1. CASE \E i \in 1 .. Len(undo) :
                  /\ k \in DOMAIN undo[i]
                  /\ undo[i][k] = snap[k]
                  /\ \A j \in 1 .. i - 1 : k \notin DOMAIN undo[j]
      BY <1>1, <2>3, <3>1
    <3>2. CASE /\ mem[k] = snap[k]
               /\ \A i \in 1 .. Len(undo) : k \notin DOMAIN undo[i]
      <4>1. CASE k \in S
        BY <1>1, <2>3, <3>2, <4>1
      <4>2. CASE k \notin S
        BY <1>1, <2>3, <3>2, <4>2
      <4> QED BY <4>1, <4>2
    <3> QED BY <3>1, <3>2 DEF IInv, UndoInv, UndoLogLeadsBack
  <2>7. UndoLogLeadsBack'
    BY <2>6 DEF UndoLogLeadsBack
  <2> QED BY <2>3, <2>4, <2>5, <2>7 DEF UndoInv
<1> QED BY <1>2, <1>3

(* SubSeq(s, 1, m) of a sequence is its prefix of length m. *)
LEMMA PopLast ==
    ASSUME NEW S, NEW s \in Seq(S), NEW m \in Nat, \A i \in 1 .. m : s[i] \in S
    PROVE  /\ SubSeq(s, 1, m) \in Seq(S)
           /\ Len(SubSeq(s, 1, m)) = m
           /\ \A i \in 1 .. m : SubSeq(s, 1, m)[i] = s[i]
<1>1. /\ SubSeq(s, 1, m) \in Seq(S)
      /\ Len(SubSeq(s, 1, m)) = IF 1 <= m THEN m - 1 + 1 ELSE 0
      /\ \A i \in 1 .. m - 1 + 1 : SubSeq(s, 1, m)[i] = s[1 + i - 1]
  BY SubSeqProperties
<1> QED BY <1>1

(***************************************************************************)
(* One turn of Undo: putting the top entry back and popping it keeps the   *)
(* rest of the log leading back to the start of the request.               *)
(***************************************************************************)
LEMMA UndoStep ==
    ASSUME IInv, Undo
    PROVE  /\ undo' \in Seq(UndoEntry)
           /\ Len(undo') <= MaxUndo
           /\ mem' \in Contents
           /\ UndoInv'
<1> DEFINE n == Len(undo)
<1>1. undo \in Seq(UndoEntry) /\ n \in Nat \ {0} /\ mem \in Contents /\ n <= MaxUndo
  <2>1. undo \in Seq(UndoEntry) /\ undo # << >> /\ mem \in Contents /\ n <= MaxUndo
    BY DEF IInv, TypeOK, Undo
  <2> QED BY <2>1, EmptySeq, LenProperties
<1>2. Top \in UndoEntry /\ Top = undo[n]
  BY <1>1, ElementOfSeq DEF Top
<1>3. /\ undo' \in Seq(UndoEntry)
      /\ Len(undo') = n - 1
      /\ \A i \in 1 .. n - 1 : undo'[i] = undo[i]
  <2>1. undo' = SubSeq(undo, 1, n - 1)
    BY DEF Undo
  <2>2. \A i \in 1 .. n - 1 : undo[i] \in UndoEntry
    BY <1>1, ElementOfSeq
  <2>3. n - 1 \in Nat
    BY <1>1
  <2>4. /\ SubSeq(undo, 1, n - 1) \in Seq(UndoEntry)
        /\ Len(SubSeq(undo, 1, n - 1)) = n - 1
        /\ \A i \in 1 .. n - 1 : SubSeq(undo, 1, n - 1)[i] = undo[i]
    <3> DEFINE m == n - 1
    <3> HIDE DEF m
    <3> SUFFICES /\ SubSeq(undo, 1, m) \in Seq(UndoEntry)
                 /\ Len(SubSeq(undo, 1, m)) = m
                 /\ \A i \in 1 .. m : SubSeq(undo, 1, m)[i] = undo[i]
      BY DEF m
    <3>1. m \in Nat /\ \A i \in 1 .. m : undo[i] \in UndoEntry
      BY <2>2, <2>3 DEF m
    <3> QED BY <1>1, <3>1, PopLast
  <2> QED BY <2>1, <2>4
<1>4. Len(undo') <= MaxUndo
  BY <1>1, <1>3, RowTransactionAssumption
<1>5. /\ DOMAIN Top \subseteq Cell
      /\ \A k \in DOMAIN Top : Top[k] \in MaybeValue
  BY <1>2 DEF UndoEntry
<1>6. mem' \in Contents
  BY <1>1, <1>5 DEF Undo, Contents
<1>7. row' = row /\ snap' = snap
  BY DEF Undo, history
<1>8. UndoLogCoversRow'
  BY <1>1, <1>3, <1>7 DEF UndoLogCoversRow, IInv, UndoInv
<1>9. ASSUME NEW k \in Cell
      PROVE  \/ /\ mem'[k] = snap'[k]
                /\ \A i \in 1 .. Len(undo') : k \notin DOMAIN undo'[i]
             \/ \E i \in 1 .. Len(undo') :
                   /\ k \in DOMAIN undo'[i]
                   /\ undo'[i][k] = snap'[k]
                   /\ \A j \in 1 .. i - 1 : k \notin DOMAIN undo'[j]
  <2>1. mem'[k] = IF k \in DOMAIN Top THEN Top[k] ELSE mem[k]
    BY <1>9 DEF Undo
  <2>2. CASE /\ mem[k] = snap[k]
             /\ \A i \in 1 .. n : k \notin DOMAIN undo[i]
    BY <1>1, <1>2, <1>3, <1>7, <2>1, <2>2
  <2>3. ASSUME NEW i \in 1 .. n,
               k \in DOMAIN undo[i], undo[i][k] = snap[k],
               \A j \in 1 .. i - 1 : k \notin DOMAIN undo[j]
        PROVE  \/ /\ mem'[k] = snap'[k]
                  /\ \A j \in 1 .. Len(undo') : k \notin DOMAIN undo'[j]
               \/ \E l \in 1 .. Len(undo') :
                     /\ k \in DOMAIN undo'[l]
                     /\ undo'[l][k] = snap'[k]
                     /\ \A j \in 1 .. l - 1 : k \notin DOMAIN undo'[j]
    <3>1. CASE i = n
      BY <1>1, <1>2, <1>3, <1>7, <2>1, <2>3, <3>1
    <3>2. CASE i < n
      <4>1. i \in 1 .. Len(undo') /\ \A j \in 1 .. i - 1 : j \in 1 .. n - 1
        BY <1>1, <1>3, <3>2
      <4> QED BY <1>3, <1>7, <2>3, <4>1
    <3> QED BY <1>1, <3>1, <3>2
  <2> QED BY <2>2, <2>3 DEF IInv, UndoInv, UndoLogLeadsBack
<1>10. UndoLogLeadsBack'
  BY <1>9 DEF UndoLogLeadsBack
<1> QED BY <1>3, <1>4, <1>6, <1>8, <1>10 DEF UndoInv

(* With an empty log, what the log leads back to is memory itself. *)
LEMMA EmptyLog ==
    ASSUME TypeOK, UndoLogLeadsBack, undo = << >>
    PROVE  mem = snap
<1>1. Len(undo) = 0
  BY EmptySeq
<1>2. \A k \in Cell : mem[k] = snap[k]
  BY <1>1 DEF UndoLogLeadsBack
<1> QED BY <1>2 DEF TypeOK, Contents

(* A step that starts or ends a request leaves an empty log and snap = mem. *)
LEMMA FreshLog ==
    ASSUME undo' = << >>, mem' \in Contents, snap' = mem'
    PROVE  /\ undo' \in Seq(UndoEntry)
           /\ Len(undo') <= MaxUndo
           /\ UndoInv'
<1>1. undo' \in Seq(UndoEntry) /\ Len(undo') = 0
  BY EmptySeq
<1>2. Len(undo') <= MaxUndo
  BY <1>1, RowTransactionAssumption
<1> QED BY <1>1, <1>2 DEF UndoInv, UndoLogCoversRow, UndoLogLeadsBack

-----------------------------------------------------------------------------
(* The actions preserve the inductive invariant. *)

(* The timestamps that SetCell and AddToCell write at are cell timestamps. *)
LEMMA TimesOfMutations ==
    ASSUME NEW us \in Micros, NEW now \in Time
    PROVE  /\ us >= -1 => SetCellTime(us, now) \in Time
           /\ AddToCellTime(us, now) \in Time
<1>1. us \in Int /\ (us >= 0 => Millis(us) \in Time)
  BY RowTransactionAssumption
<1>2. us < 0 => Millis(us) <= 0
  BY <1>1 DEF Millis
<1>3. us >= -1 => SetCellTime(us, now) \in Time
  BY <1>1 DEF SetCellTime
<1>4. AddToCellTime(us, now) \in Time
  BY <1>1, <1>2 DEF AddToCellTime
<1> QED BY <1>3, <1>4

(* The excused cells are cells. *)
LEMMA ExcuseType ==
    ASSUME NEW S \in SUBSET Cell, Excuse(S)
    PROVE  excused' \in SUBSET Cell
BY DEF Excuse

(* A mutation that DoMutationsWithPossibleRollback refuses keeps the invariant. *)
LEMMA RefusedStep ==
    ASSUME IInv, pc = "mutating", Refused
    PROVE  IInv'
<1>1. excused' \in SUBSET Cell
  BY ExcuseType, CellSets DEF Refused, IInv, TypeOK
<1>2. TypeOK'
  BY <1>1 DEF IInv, TypeOK, Refused, StorageTypeOK, storageVars
<1>3. UndoInv'
  BY DEF IInv, Refused, UndoInv, UndoLogCoversRow, UndoLogLeadsBack
<1> QED BY <1>2, <1>3 DEF IInv

(* A step of a mutation that is not refused: the parts of IInv that are left. *)
LEMMA MutationStep ==
    ASSUME IInv,
           NEW S \in SUBSET Cell, S \subseteq RowCells(row), PushUndo(S),
           mem' \in Contents, \A k \in Cell : k \notin S => mem'[k] = mem[k],
           pc = "mutating", StorageTypeOK',
           acked' \in Contents, excused' \in SUBSET Cell,
           UNCHANGED <<pc, row, tableKey, matched, reply, snap, snapStore>>
    PROVE  IInv'
<1>1. undo' \in Seq(UndoEntry) /\ Len(undo') <= MaxUndo /\ UndoInv'
  BY LoggedStep
<1>2. TypeOK'
  BY <1>1 DEF IInv, TypeOK
<1> QED BY <1>1, <1>2 DEF IInv

(* RowTransaction::SetCell keeps the invariant. *)
LEMMA SetCellStep ==
    ASSUME IInv, NEW f \in Family, NEW c \in Column, NEW us \in Micros, NEW now \in Time,
           NEW v \in Value, SetCell(f, c, us, now, v)
    PROVE  IInv'
<1> DEFINE k == [row |-> row, fam |-> f, col |-> c, ts |-> SetCellTime(us, now)]
<1>1. pc = "mutating" /\ us >= -1
  BY DEF SetCell, Mutating
<1>2. k \in Cell /\ {k} \in SUBSET Cell /\ {k} \subseteq RowCells(row)
  BY <1>1, TimesOfMutations DEF Cell, RowCells, IInv, TypeOK
<1>3. StorageTypeOK'
  BY <1>2, StorageTypes DEF SetCell, IfPersistent, IInv, TypeOK
<1>4. mem' = [mem EXCEPT ![k] = v] /\ acked' \in {acked, [acked EXCEPT ![k] = v]}
  BY DEF SetCell
<1>5. excused' \in SUBSET Cell
  BY <1>2 DEF SetCell, Excuse, IInv, TypeOK
<1>6. PushUndo({k}) /\ UNCHANGED <<pc, row, tableKey, matched, reply, snap, snapStore>>
  BY DEF SetCell
<1> HIDE DEF k
<1>7. mem' \in Contents /\ \A l \in Cell : l \notin {k} => mem'[l] = mem[l]
  BY <1>2, <1>4 DEF Contents, MaybeValue, IInv, TypeOK
<1>8. acked' \in Contents
  BY <1>2, <1>4 DEF Contents, MaybeValue, IInv, TypeOK
<1> QED BY <1>1, <1>2, <1>3, <1>5, <1>6, <1>7, <1>8, MutationStep

(* RowTransaction::AddToCell keeps the invariant. *)
LEMMA AddToCellStep ==
    ASSUME IInv, NEW f \in Family, NEW c \in Column, NEW us \in Micros, NEW now \in Time,
           NEW v \in Numeric, AddToCell(f, c, us, now, v)
    PROVE  IInv'
<1> DEFINE k == [row |-> row, fam |-> f, col |-> c, ts |-> AddToCellTime(us, now)]
<1>1. pc = "mutating" /\ v \in MaybeValue
  BY RowTransactionAssumption DEF AddToCell, Mutating, MaybeValue
<1>2. k \in Cell /\ {k} \in SUBSET Cell /\ {k} \subseteq RowCells(row)
  BY TimesOfMutations DEF Cell, RowCells, IInv, TypeOK
<1>3. CASE Refused
  BY <1>1, <1>3, RefusedStep
<1>4. CASE ~Refused
  <2>1. /\ mem' = [mem EXCEPT ![k] = v]
        /\ PushUndo({k})
        /\ UNCHANGED <<pc, row, tableKey, matched, reply, snap, snapStore>>
        /\ UNCHANGED <<acked, excused, storageVars>>
    BY <1>4 DEF AddToCell, history
  <2> HIDE DEF k
  <2>2. mem' \in Contents /\ \A l \in Cell : l \notin {k} => mem'[l] = mem[l]
    BY <1>1, <1>2, <2>1 DEF Contents, IInv, TypeOK
  <2>3. StorageTypeOK' /\ acked' \in Contents /\ excused' \in SUBSET Cell
    BY <2>1, StorageTypes DEF IInv, TypeOK
  <2> QED BY <1>1, <1>2, <2>1, <2>2, <2>3, MutationStep
<1> QED BY <1>3, <1>4

(* RowTransaction::DeleteFromColumn keeps the invariant. *)
LEMMA DeleteFromColumnStep ==
    ASSUME IInv, NEW f \in Family, NEW c \in Column, NEW range \in TimeRange,
           DeleteFromColumn(f, c, range)
    PROVE  IInv'
<1> DEFINE column == ColumnCells(row, f, c)
           S == InTimeRange(column, range)
           P == Present(mem, S)
<1>1. pc = "mutating"
  BY DEF DeleteFromColumn, Mutating
<1>2. column \in SUBSET Cell /\ S \in SUBSET Cell /\ P \in SUBSET Cell /\ P \subseteq RowCells(row)
  BY DEF ColumnCells, RowCells, InTimeRange, Present
<1>3. StorageTypeOK'
  BY StorageTypes DEF DeleteFromColumn, IfPersistent, IInv, TypeOK
<1>4. mem' = Erase(mem, S) /\ acked' = Erase(acked, S) /\ PushUndo(P)
  BY DEF DeleteFromColumn
<1>5. excused' \in SUBSET Cell
  BY <1>2 DEF DeleteFromColumn, Excuse, IInv, TypeOK
<1>6. UNCHANGED <<pc, row, tableKey, matched, reply, snap, snapStore>>
  BY DEF DeleteFromColumn
<1> HIDE DEF column, S
<1>7. mem' \in Contents /\ acked' \in Contents
  BY <1>4, EraseType DEF IInv, TypeOK
<1>8. \A k \in Cell : k \notin P => mem'[k] = mem[k]
  BY <1>2, <1>4, ErasePresent DEF IInv, TypeOK
<1> HIDE DEF P
<1> QED BY <1>1, <1>2, <1>3, <1>4, <1>5, <1>6, <1>7, <1>8, MutationStep

(* DeleteFromFamily and DeleteFromRow. *)
LEMMA DeleteCellsStep ==
    ASSUME IInv, NEW S \in SUBSET Cell, S \subseteq RowCells(row), pc = "mutating",
           NEW ACTION StorageDelete, StorageDelete => StorageTypeOK',
           DeleteCells(S, StorageDelete)
    PROVE  IInv'
<1> DEFINE P == Present(mem, S)
<1>1. CASE Refused
  BY <1>1, RefusedStep
<1>2. CASE ~Refused
  <2>1. /\ mem' = Erase(mem, S) /\ acked' = Erase(acked, S)
        /\ PushUndo(P)
        /\ StorageDelete
        /\ Excuse(excused \ S)
        /\ UNCHANGED <<pc, row, tableKey, matched, reply, snap, snapStore>>
    BY <1>2 DEF DeleteCells
  <2>2. mem' \in Contents /\ acked' \in Contents
    BY <2>1, EraseType DEF IInv, TypeOK
  <2>3. \A k \in Cell : k \notin P => mem'[k] = mem[k]
    BY <2>1, ErasePresent DEF IInv, TypeOK
  <2>4. P \in SUBSET Cell /\ P \subseteq RowCells(row) /\ excused' \in SUBSET Cell
    BY <2>1 DEF Present, Excuse, IInv, TypeOK
  <2> HIDE DEF P
  <2> QED BY <2>1, <2>2, <2>3, <2>4, MutationStep
<1> QED BY <1>1, <1>2

(* A rule of RowTransaction::ReadModifyWriteRow keeps the invariant. *)
LEMMA ReadModifyWriteStep ==
    ASSUME IInv, NEW f \in Family, NEW c \in Column, NEW now \in Time,
           NEW increment \in BOOLEAN, NEW v \in Value,
           ReadModifyWrite(f, c, now, increment, v)
    PROVE  IInv'
<1> DEFINE newest == Newest(Present(mem, ColumnCells(row, f, c)))
           target == IF \A l \in newest : l.ts < now
                       THEN {[row |-> row, fam |-> f, col |-> c, ts |-> now]}
                       ELSE newest
<1>1. pc = "mutating" /\ v \in MaybeValue
  BY DEF ReadModifyWrite, Mutating, MaybeValue
<1>2. \A k \in target : k \in Cell /\ {k} \in SUBSET Cell /\ {k} \subseteq RowCells(row)
  <2>1. newest \subseteq RowCells(row)
    BY DEF Newest, Present, ColumnCells, RowCells
  <2>2. [row |-> row, fam |-> f, col |-> c, ts |-> now] \in RowCells(row)
    BY DEF RowCells, Cell, IInv, TypeOK
  <2>3. RowCells(row) \subseteq Cell
    BY DEF RowCells
  <2> HIDE DEF newest
  <2> QED BY <2>1, <2>2, <2>3
<1>3. CASE Refused
  BY <1>1, <1>3, RefusedStep
<1>4. CASE ~Refused
  <2>1. /\ \E k \in target : mem' = [mem EXCEPT ![k] = v] /\ PushUndo({k})
        /\ UNCHANGED <<pc, row, tableKey, matched, reply, snap, snapStore>>
        /\ UNCHANGED <<acked, excused, storageVars>>
    BY <1>4 DEF ReadModifyWrite, history
  <2>2. PICK k \in target : mem' = [mem EXCEPT ![k] = v] /\ PushUndo({k})
    BY <2>1
  <2> HIDE DEF target
  <2>3. mem' \in Contents /\ \A l \in Cell : l \notin {k} => mem'[l] = mem[l]
    BY <1>1, <1>2, <2>2 DEF Contents, IInv, TypeOK
  <2>4. StorageTypeOK' /\ acked' \in Contents /\ excused' \in SUBSET Cell
    BY <2>1, StorageTypes DEF IInv, TypeOK
  <2> QED BY <1>1, <1>2, <2>1, <2>2, <2>3, <2>4, MutationStep
<1> QED BY <1>3, <1>4

(* An empty table with no request satisfies the inductive invariant. *)
THEOREM Initialization == Init => IInv
<1> SUFFICES ASSUME Init PROVE IInv
  OBVIOUS
<1>1. Empty \in Contents
  BY DEF Empty, Contents, MaybeValue
<1>2. undo \in Seq(UndoEntry) /\ Len(undo) = 0
  BY EmptySeq DEF Init
<1>3. StorageTypeOK
  BY <1>1 DEF Init, StorageTypeOK, Handle
<1>4. Len(undo) <= MaxUndo
  BY <1>2, RowTransactionAssumption
<1>5. TypeOK
  BY <1>1, <1>2, <1>3, <1>4 DEF Init, TypeOK
<1>6. UndoInv
  BY <1>2 DEF Init, UndoInv, UndoLogCoversRow, UndoLogLeadsBack
<1> QED BY <1>5, <1>6 DEF IInv

(* Every operation of the table, request or background, keeps the inductive invariant. *)
THEOREM Invariance == IInv /\ [Next]_vars => IInv'
<1> SUFFICES ASSUME IInv, [Next]_vars PROVE IInv'
  OBVIOUS
<1> USE DEF IInv
<1>1. CASE UNCHANGED vars
  BY <1>1 DEF vars, control, history, storageVars, TypeOK, StorageTypeOK, UndoInv,
              UndoLogCoversRow, UndoLogLeadsBack
<1>2. ASSUME NEW r \in Row, NEW hasTableKey \in BOOLEAN,
             BeginTransaction(r, hasTableKey), StorageTypeOK', matched' \in BOOLEAN
      PROVE  IInv'
  <2>1. mem' \in Contents /\ snap' = mem' /\ undo' = << >>
    BY <1>2 DEF BeginTransaction, TypeOK
  <2>2. undo' \in Seq(UndoEntry) /\ Len(undo') <= MaxUndo /\ UndoInv'
    BY <2>1, FreshLog
  <2>3. TypeOK'
    BY <1>2, <2>1, <2>2 DEF BeginTransaction, TypeOK, StorageTypeOK
  <2> QED BY <2>2, <2>3
<1>3. CASE \E r \in Row : MutateRow(r) \/ ReadModifyWriteRow(r)
  BY <1>2, <1>3, StorageTypes DEF MutateRow, ReadModifyWriteRow, TypeOK
<1>4. CASE \E r \in Row, columns \in SUBSET Column : CheckAndMutateRow(r, columns)
  <2>1. PICK r \in Row, columns \in SUBSET Column : CheckAndMutateRow(r, columns)
    BY <1>4
  <2>2. StorageTypeOK' /\ matched' \in BOOLEAN
    BY <2>1, StorageTypes DEF CheckAndMutateRow, CreateCellStream, TypeOK, PredicateMatches
  <2> QED BY <1>2, <2>1, <2>2 DEF CheckAndMutateRow
<1>5. CASE ReadRows
  <2>1. StorageTypeOK'
    BY <1>5, StorageTypes DEF ReadRows, CreateCellStream, TypeOK
  <2> QED BY <1>5, <2>1 DEF ReadRows, control, history, TypeOK, UndoInv,
                            UndoLogCoversRow, UndoLogLeadsBack
<1>6. CASE Mutation
  <2>1. CASE RejectMutation
    BY <2>1, RefusedStep DEF RejectMutation
  <2>2. CASE \E f \in Family, c \in Column, us \in Micros, now \in Time, v \in Value :
                SetCell(f, c, us, now, v)
    BY <2>2, SetCellStep
  <2>3. CASE \E f \in Family, c \in Column, us \in Micros, now \in Time, v \in Numeric :
                AddToCell(f, c, us, now, v)
    BY <2>3, AddToCellStep
  <2>4. CASE \E f \in Family, c \in Column, range \in TimeRange :
                DeleteFromColumn(f, c, range)
    BY <2>4, DeleteFromColumnStep
  <2>5. CASE \E f \in Family : DeleteFromFamily(f)
    <3>1. PICK f \in Family : DeleteFromFamily(f)
      BY <2>5
    <3>2. FamilyCells(row, f) \in SUBSET Cell /\ FamilyCells(row, f) \subseteq RowCells(row)
      BY DEF FamilyCells, RowCells
    <3>3. IfPersistent(DeleteCFRow(row, f)) => StorageTypeOK'
      BY StorageTypes DEF IfPersistent, TypeOK
    <3>4. pc = "mutating"
      BY <3>1 DEF DeleteFromFamily, DeleteCells, Mutating
    <3> QED BY <3>1, <3>2, <3>3, <3>4, DeleteCellsStep DEF DeleteFromFamily
  <2>6. CASE DeleteFromRow
    <3>1. RowCells(row) \in SUBSET Cell
      BY DEF RowCells
    <3>2. IfPersistent(DeleteRow(row)) => StorageTypeOK'
      BY StorageTypes DEF IfPersistent, TypeOK
    <3>3. pc = "mutating"
      BY <2>6 DEF DeleteFromRow, DeleteCells, Mutating
    <3> QED BY <2>6, <3>1, <3>2, <3>3, DeleteCellsStep DEF DeleteFromRow
  <2>7. CASE \E f \in Family, c \in Column, now \in Time, increment \in BOOLEAN, v \in Value :
                ReadModifyWrite(f, c, now, increment, v)
    BY <2>7, ReadModifyWriteStep
  <2> QED BY <1>6, <2>1, <2>2, <2>3, <2>4, <2>5, <2>6, <2>7 DEF Mutation
<1>7. ASSUME NEW result \in {"ok", "error"}, Finish(result)
      PROVE  IInv'
  <2>1. mem' \in Contents /\ snap' = mem' /\ undo' = << >>
    BY <1>7 DEF Finish, TypeOK
  <2>2. undo' \in Seq(UndoEntry) /\ Len(undo') <= MaxUndo /\ UndoInv'
    BY <2>1, FreshLog
  <2>3. StorageTypeOK' /\ snapStore' \in Contents
    BY <1>7, StorageTypes DEF Finish, TypeOK, StorageTypeOK
  <2>4. TypeOK'
    BY <1>7, <2>1, <2>2, <2>3 DEF Finish, TypeOK
  <2> QED BY <2>2, <2>4
<1>8. CASE Commit
  BY <1>7, <1>8 DEF Commit
<1>9. CASE Undo
  <2>1. StorageTypeOK'
    BY <1>9, StorageTypes DEF Undo, TypeOK
  <2>2. /\ undo' \in Seq(UndoEntry) /\ Len(undo') <= MaxUndo
        /\ mem' \in Contents /\ UndoInv'
    BY <1>9, UndoStep
  <2>3. TypeOK'
    BY <1>9, <2>1, <2>2 DEF Undo, TypeOK, history
  <2> QED BY <2>2, <2>3
<1>10. CASE ReturnError
  BY <1>7, <1>10 DEF ReturnError
<1>11. ASSUME NEW S, LoseCells(S)
       PROVE  IInv'
  <2>1. mem' \in Contents /\ snap' = mem' /\ undo' = << >>
    BY <1>11, EraseType DEF LoseCells, TypeOK
  <2>2. undo' \in Seq(UndoEntry) /\ Len(undo') <= MaxUndo /\ UndoInv'
    BY <2>1, FreshLog
  <2>3. TypeOK'
    BY <1>11, <2>1, <2>2 DEF LoseCells, TypeOK, StorageTypeOK, storageVars
  <2> QED BY <2>2, <2>3
<1>12. CASE \E rows \in SUBSET Row : DropRowRange(rows)
  BY <1>11, <1>12 DEF DropRowRange
<1>13. CASE RunGC
  BY <1>11, <1>13 DEF RunGC
<1>14. CASE Restart
  <2>1. mem' \in Contents /\ snap' = mem' /\ undo' = << >>
    BY <1>14 DEF Restart, Empty, Contents, MaybeValue
  <2>2. undo' \in Seq(UndoEntry) /\ Len(undo') <= MaxUndo /\ UndoInv'
    BY <2>1, FreshLog
  <2>3. StorageTypeOK' /\ excused' \in SUBSET Cell
    BY <1>14, StorageTypes DEF Restart, TypeOK, Excuse, RowCells
  <2>4. snapStore' \in Contents
    BY <1>14 DEF Restart, TypeOK, StorageTypeOK
  <2>5. TypeOK'
    BY <1>14, <2>1, <2>2, <2>3, <2>4 DEF Restart, TypeOK
  <2> QED BY <2>2, <2>5
<1> QED BY <1>1, <1>3, <1>4, <1>5, <1>6, <1>8, <1>9, <1>10, <1>12, <1>13, <1>14
        DEF Next, Request

-----------------------------------------------------------------------------
(* Theorems about the specification. *)

(***************************************************************************)
(* The variables keep their types: no mutation writes a cell outside the   *)
(* table, and the undo log of an idle table is empty.                      *)
(***************************************************************************)
THEOREM TypeCorrect == Spec => []TypeOK
<1>1. IInv => TypeOK
  BY DEF IInv
<1> QED BY Initialization, Invariance, <1>1, PTL DEF Spec

(***************************************************************************)
(* At every step of every request and rollback the undo log names cells of *)
(* the request's row only.                                                 *)
(***************************************************************************)
THEOREM UndoLogOfOneRow == Spec => []UndoLogCoversRow
<1>1. IInv => UndoLogCoversRow
  BY DEF IInv, UndoInv
<1> QED BY Initialization, Invariance, <1>1, PTL DEF Spec

(***************************************************************************)
(* At every step of every request and rollback the undo log leads back to  *)
(* the table as it was.                                                    *)
(***************************************************************************)
THEOREM UndoLog == Spec => []UndoLogLeadsBack
<1>1. IInv => UndoLogLeadsBack
  BY DEF IInv, UndoInv
<1> QED BY Initialization, Invariance, <1>1, PTL DEF Spec

(***************************************************************************)
(* ~RowTransaction restores the in-memory column families exactly, for     *)
(* every request that is refused and whatever it had done before.          *)
(***************************************************************************)
THEOREM Rollback == Spec => []RollbackRestoresMemory
<1>1. IInv => RollbackRestoresMemory
  BY EmptyLog DEF IInv, UndoInv, RollbackRestoresMemory
<1> QED BY Initialization, Invariance, <1>1, PTL DEF Spec

(* A request that is being undone has one entry less to undo, or returns.  *)
UndoesAnEntry ==
    pc = "undoing" =>
        \/ pc' = "idle"
        \/ pc' = "undoing" /\ Len(undo') < Len(undo)

(***************************************************************************)
(* The loop of RowTransaction::Undo is bounded by the log, which nothing   *)
(* adds to while it runs: no other request, collection or deletion comes   *)
(* in between, and none of its turns is idle.                              *)
(***************************************************************************)
THEOREM RollbackIsBounded == Spec => [][UndoesAnEntry]_vars
<1>1. ASSUME TypeOK, pc = "undoing", Next PROVE UndoesAnEntry
  <2>1. CASE Undo
    <3>1. undo \in Seq(UndoEntry) /\ undo # << >>
      BY <1>1, <2>1 DEF TypeOK, Undo
    <3>2. Len(undo) \in Nat /\ Len(undo) > 0
      BY <3>1, LenProperties, EmptySeq
    <3>3. Len(SubSeq(undo, 1, Len(undo) - 1)) = Len(undo) - 1
      BY <3>1, <3>2, SubSeqProperties
    <3> QED BY <1>1, <2>1, <3>2, <3>3 DEF Undo, UndoesAnEntry
  <2>2. CASE ReturnError
    BY <2>2 DEF ReturnError, Finish, UndoesAnEntry
  <2>3. CASE Restart
    BY <2>3 DEF Restart, UndoesAnEntry
  <2>4. ~Request
    BY <1>1 DEF Request, MutateRow, ReadModifyWriteRow, CheckAndMutateRow, ReadRows,
                BeginTransaction
  <2>5. ~Mutation /\ ~Commit
    BY <1>1 DEF Mutation, RejectMutation, SetCell, AddToCell, DeleteFromColumn, DeleteFromFamily,
                DeleteFromRow, DeleteCells, ReadModifyWrite, Mutating, Commit
  <2>6. ~RunGC /\ ~\E rows \in SUBSET Row : DropRowRange(rows)
    BY <1>1 DEF RunGC, DropRowRange, LoseCells
  <2> QED BY <1>1, <2>1, <2>2, <2>3, <2>4, <2>5, <2>6 DEF Next
<1>2. TypeOK /\ [Next]_vars => [UndoesAnEntry]_vars
  BY <1>1 DEF UndoesAnEntry
<1> QED BY <1>2, TypeCorrect, PTL DEF Spec

(***************************************************************************)
(* What a request did to its row is confined to the row: outside it,       *)
(* memory is what it was when the request began.                           *)
(***************************************************************************)
LEMMA OtherRowsUnchanged ==
    ASSUME UndoInv
    PROVE  \A k \in Cell : k.row # row => mem[k] = snap[k]
BY DEF UndoInv, UndoLogCoversRow, UndoLogLeadsBack

(***************************************************************************)
(* The in-memory table with its undo log implements AtomicTable.           *)
(***************************************************************************)
THEOREM Atomicity == Spec => AtomicRows
<1>1. Init => AT!Init
  BY DEF Init, AT!Init, Empty
<1>2. ASSUME IInv, IInv', [Next]_vars PROVE [AT!Next]_AT!vars
  <2> USE DEF AT!vars
  <2>1. CASE UNCHANGED vars
    BY <2>1 DEF vars, control, history
  <2>2. CASE Request
    BY <2>2 DEF Request, MutateRow, ReadModifyWriteRow, CheckAndMutateRow, ReadRows,
                BeginTransaction, control, history
  <2>3. CASE Mutation
    <3>1. pc = "mutating" /\ Refused => UNCHANGED AT!vars
      BY DEF Refused
    <3>2. pc = "mutating" /\ UNCHANGED <<pc, reply, snap>> => UNCHANGED AT!vars
      OBVIOUS
    <3>3. CASE RejectMutation
      BY <3>1, <3>3 DEF RejectMutation
    <3>4. ASSUME NEW f, NEW c, NEW us, NEW now, NEW v, SetCell(f, c, us, now, v)
          PROVE  UNCHANGED AT!vars
      BY <3>2, <3>4 DEF SetCell, Mutating
    <3>5. ASSUME NEW f, NEW c, NEW us, NEW now, NEW v, AddToCell(f, c, us, now, v)
          PROVE  UNCHANGED AT!vars
      BY <3>1, <3>2, <3>5 DEF AddToCell, Mutating, history
    <3>6. ASSUME NEW f, NEW c, NEW range, DeleteFromColumn(f, c, range)
          PROVE  UNCHANGED AT!vars
      BY <3>2, <3>6 DEF DeleteFromColumn, Mutating
    <3>7. ASSUME NEW S, NEW ACTION StorageDelete, DeleteCells(S, StorageDelete)
          PROVE  UNCHANGED AT!vars
      BY <3>1, <3>2, <3>7 DEF DeleteCells, Mutating
    <3>8. ASSUME NEW f, DeleteFromFamily(f) PROVE UNCHANGED AT!vars
      BY <3>7, <3>8 DEF DeleteFromFamily
    <3>9. CASE DeleteFromRow
      BY <3>7, <3>9 DEF DeleteFromRow
    <3>10. ASSUME NEW f, NEW c, NEW now, NEW increment, NEW v,
                  ReadModifyWrite(f, c, now, increment, v)
           PROVE  UNCHANGED AT!vars
      BY <3>1, <3>2, <3>10 DEF ReadModifyWrite, Mutating, history
    <3> QED BY <2>3, <3>3, <3>4, <3>5, <3>6, <3>8, <3>9, <3>10 DEF Mutation
  <2>4. CASE Commit
    <3>1. /\ pc = "mutating" /\ pc' = "idle" /\ mem' = mem /\ reply' = "ok"
      BY <2>4 DEF Commit, Finish
    <3>2. row \in Row /\ mem \in Contents
      BY <1>2 DEF IInv, TypeOK
    <3>3. \A k \in Cell : k.row # row => mem[k] = snap[k]
      BY <1>2, OtherRowsUnchanged DEF IInv
    <3>4. AT!Succeed(row)
      BY <3>1, <3>2, <3>3 DEF AT!Succeed
    <3> QED BY <3>2, <3>4 DEF AT!Next
  <2>5. CASE Undo
    BY <2>5 DEF Undo, history
  <2>6. CASE ReturnError
    <3>1. mem = snap
      BY <1>2, <2>6, EmptyLog DEF IInv, UndoInv, ReturnError
    <3>2. AT!Refuse
      BY <2>6, <3>1 DEF AT!Refuse, ReturnError, Finish
    <3> QED BY <3>2 DEF AT!Next
  <2>7. ASSUME NEW S, LoseCells(S) PROVE AT!Next
    <3>1. /\ pc = "idle" /\ pc' = "idle" /\ mem' = Erase(mem, S) /\ reply' = "none"
      BY <2>7 DEF LoseCells
    <3>2. mem' \in Contents /\ \A k \in Cell : mem'[k] \in {mem[k], None}
      BY <1>2, <3>1, EraseType DEF IInv, TypeOK
    <3>3. AT!LoseCells
      BY <3>1, <3>2 DEF AT!LoseCells
    <3> QED BY <3>3 DEF AT!Next
  <2>8. CASE (\E rows \in SUBSET Row : DropRowRange(rows)) \/ RunGC
    BY <2>7, <2>8 DEF DropRowRange, RunGC
  <2>9. CASE Restart
    <3>1. /\ pc' = "idle" /\ mem' = Empty /\ reply' = "none"
      BY <2>9 DEF Restart
    <3>2. mem' \in Contents /\ \A k \in Cell : mem'[k] = None
      BY <3>1 DEF Empty, Contents, MaybeValue
    <3>3. AT!LoseCells
      BY <3>1, <3>2 DEF AT!LoseCells
    <3> QED BY <3>3 DEF AT!Next
  <2> QED BY <1>2, <2>1, <2>2, <2>3, <2>4, <2>5, <2>6, <2>8, <2>9 DEF Next
<1> QED BY Initialization, Invariance, <1>1, <1>2, PTL DEF Spec, AtomicRows, AT!Spec

-----------------------------------------------------------------------------
(* What is on disk. *)

(***************************************************************************)
(* The parts of the invariant about Storage.  Without a database nothing   *)
(* is ever stored; while a request is undone, which deletes cells of its   *)
(* row from the disk, no claim is made about that row.                     *)
(***************************************************************************)
StorageInv ==
    /\ StoredCellsReachable
    /\ AckedCellsPersist
    /\ ~Persistent => store = Empty /\ acked = Empty
    /\ Persistent /\ pc = "undoing" => RowCells(row) \subseteq excused

(* What a range deletion leaves: the cells it was to delete are gone, also   *)
(* those without a handle, and no other cell has changed.                    *)
LEMMA ReachableErase ==
    ASSUME TypeOK, StoredCellsReachable, NEW S \in SUBSET Cell,
           store' = Erase(store, Reachable(S))
    PROVE  /\ \A k \in S : store'[k] = None
           /\ \A k \in Cell : k \notin S => store'[k] = store[k]
           /\ \A k \in Cell : store'[k] # None => store[k] # None
<1>1. store \in Contents
  BY DEF TypeOK, StorageTypeOK
<1>2. ASSUME NEW k \in S PROVE store'[k] = None
  <2>1. CASE k \in Reachable(S)
    BY <1>1, <2>1, EraseType
  <2>2. CASE k \notin Reachable(S)
    BY <1>1, <2>2, EraseType DEF Reachable, StoredCellsReachable
  <2> QED BY <2>1, <2>2
<1>3. ASSUME NEW k \in Cell, k \notin S PROVE store'[k] = store[k]
  BY <1>1, <1>3, EraseType DEF Reachable
<1> QED BY <1>2, <1>3

(* A delete mutation of the cells S: acked and the disk lose the same cells. *)
LEMMA DeletedOnDisk ==
    ASSUME IInv, StorageInv, pc = "mutating", pc' = "mutating",
           NEW S \in SUBSET Cell, NEW D \in SUBSET Cell, S \subseteq D,
           acked' = Erase(acked, S), Excuse((excused \union D) \ S),
           IF Persistent
             THEN /\ store' = Erase(store, Reachable(D))
                  /\ \A f \in Family : handle[f] = "open" => handle'[f] = "open"
             ELSE UNCHANGED storageVars
    PROVE  StorageInv'
<1>1. TypeOK /\ store \in Contents /\ acked \in Contents
  BY DEF IInv, TypeOK, StorageTypeOK
<1>2. CASE ~Persistent
  <2>1. store' = store /\ handle' = handle /\ excused' = {} /\ excused' \subseteq Cell
    BY <1>2 DEF Excuse, storageVars
  <2>2. store = Empty /\ acked = Empty
    BY <1>2 DEF StorageInv
  <2>3. acked' = Empty
    BY <2>2 DEF Erase, Empty
  <2> QED BY <1>2, <2>1, <2>2, <2>3 DEF StorageInv, StoredCellsReachable, AckedCellsPersist, Empty
<1>3. CASE Persistent
  <2>1. /\ \A k \in D : store'[k] = None
        /\ \A k \in Cell : k \notin D => store'[k] = store[k]
        /\ \A k \in Cell : store'[k] # None => store[k] # None
    BY <1>1, <1>3, ReachableErase DEF StorageInv
  <2>2. excused' = (excused \union D) \ S
    BY <1>3 DEF Excuse
  <2>3. \A k \in Cell : acked'[k] = IF k \in S THEN None ELSE acked[k]
    BY <1>1, EraseType
  <2>4. AckedCellsPersist'
    BY <2>1, <2>2, <2>3 DEF AckedCellsPersist, StorageInv
  <2>5. \A k \in Cell : k.fam \in Family
    BY DEF Cell
  <2>6. StoredCellsReachable'
    BY <1>3, <2>1, <2>5 DEF StoredCellsReachable, StorageInv
  <2> QED BY <1>3, <2>4, <2>6 DEF StorageInv
<1> QED BY <1>2, <1>3

(* A refused mutation changes nothing and gives up the claim about its row. *)
LEMMA RefusedOnDisk ==
    ASSUME StorageInv, Refused
    PROVE  StorageInv'
<1>1. store' = store /\ handle' = handle /\ acked' = acked /\ row' = row
  BY DEF Refused, storageVars
<1>2. excused' = IF Persistent THEN excused \union RowCells(row) ELSE {}
  BY DEF Refused, Excuse
<1>3. ~Persistent => \A k \in Cell : store[k] = acked[k]
  BY DEF StorageInv
<1>4. StoredCellsReachable' /\ AckedCellsPersist'
  BY <1>1, <1>2, <1>3 DEF StorageInv, StoredCellsReachable, AckedCellsPersist
<1>5. RowCells(row') = RowCells(row)
  BY <1>1
<1> QED BY <1>1, <1>2, <1>4, <1>5 DEF StorageInv, RowCells

(* SetCell writes the cell, or is excused because the handle is null. *)
LEMMA SetCellOnDisk ==
    ASSUME IInv, StorageInv, NEW f \in Family, NEW c \in Column, NEW us \in Micros,
           NEW now \in Time, NEW v \in Value, SetCell(f, c, us, now, v)
    PROVE  StorageInv'
<1> DEFINE k == [row |-> row, fam |-> f, col |-> c, ts |-> SetCellTime(us, now)]
<1>1. k \in Cell /\ k.fam = f /\ pc' = "mutating"
  BY TimesOfMutations DEF Cell, IInv, TypeOK, SetCell, Mutating
<1>2. store \in Contents /\ acked \in Contents /\ handle \in [Family -> Handle] /\ v # None
  BY NoneAssumption DEF IInv, TypeOK, StorageTypeOK
<1>3. /\ IfPersistent(PutCell(k, v))
      /\ acked' = IF Persistent THEN [acked EXCEPT ![k] = v] ELSE acked
      /\ Excuse(IF handle[f] = "null" THEN excused \union {k} ELSE excused \ {k})
  BY DEF SetCell
<1> HIDE DEF k
<1>4. CASE ~Persistent
  BY <1>1, <1>3, <1>4 DEF IfPersistent, storageVars, Excuse, StorageInv,
                          StoredCellsReachable, AckedCellsPersist
<1>5. CASE Persistent
  <2>1. \A l \in Cell : l.fam \in Family
    BY DEF Cell
  <2>2. \A g \in Family : handle[g] = "open" => handle'[g] = "open"
    BY <1>1, <1>2, <1>3, <1>5 DEF IfPersistent, PutCell, GetOrAddHandle
  <2>3. CASE handle[f] = "null"
    <3>1. store' = store /\ excused' = excused \union {k} /\ acked' = [acked EXCEPT ![k] = v]
      BY <1>1, <1>3, <1>5, <2>3 DEF IfPersistent, PutCell, GetOrAddHandle, Excuse
    <3>2. AckedCellsPersist'
      BY <1>1, <1>2, <3>1 DEF StorageInv, AckedCellsPersist, Contents
    <3>3. StoredCellsReachable'
      BY <2>1, <2>2, <3>1 DEF StorageInv, StoredCellsReachable
    <3> QED BY <1>1, <1>5, <3>2, <3>3 DEF StorageInv
  <2>4. CASE handle[f] # "null"
    <3>1. /\ store' = [store EXCEPT ![k] = v] /\ acked' = [acked EXCEPT ![k] = v]
          /\ excused' = excused \ {k} /\ handle'[f] = "open"
      BY <1>1, <1>2, <1>3, <1>5, <2>4 DEF IfPersistent, PutCell, GetOrAddHandle, Excuse, Handle
    <3>2. AckedCellsPersist'
      BY <1>1, <1>2, <3>1 DEF StorageInv, AckedCellsPersist, Contents
    <3>3. StoredCellsReachable'
      BY <1>1, <1>2, <2>1, <2>2, <3>1 DEF StorageInv, StoredCellsReachable, Contents
    <3> QED BY <1>1, <1>5, <3>2, <3>3 DEF StorageInv
  <2> QED BY <2>3, <2>4
<1> QED BY <1>4, <1>5

(* Steps that leave the disk, acked and excused alone and start no rollback. *)
LEMMA DiskUntouched ==
    ASSUME StorageInv, UNCHANGED <<acked, excused, storageVars>>,
           pc' # "undoing" \/ UNCHANGED <<pc, row>>
    PROVE  StorageInv'
<1>1. store' = store /\ handle' = handle
  BY DEF storageVars
<1>2. Persistent /\ pc' = "undoing" => RowCells(row)' \subseteq excused'
  BY DEF StorageInv, RowCells
<1> QED BY <1>1, <1>2 DEF StorageInv, StoredCellsReachable, AckedCellsPersist

(* Opening the iterators of a reader only opens more column families. *)
LEMMA ReadersOnDisk ==
    ASSUME StorageInv, CreateCellStream, UNCHANGED <<acked, excused>>, pc = "idle",
           pc' # "undoing"
    PROVE  StorageInv'
<1>1. store' = store
  BY DEF CreateCellStream, NewIterators, storageVars
<1>2. \A f \in Family : handle[f] = "open" => handle'[f] = "open"
  BY DEF CreateCellStream, NewIterators, storageVars, GetOrAddHandle
<1>3. \A k \in Cell : k.fam \in Family
  BY DEF Cell
<1> QED BY <1>1, <1>2, <1>3 DEF StorageInv, StoredCellsReachable, AckedCellsPersist

(* A turn of Undo deletes cells of the row for which acked makes no claim. *)
LEMMA UndoOnDisk ==
    ASSUME IInv, StorageInv, Undo
    PROVE  StorageInv'
<1> DEFINE S == {k \in DOMAIN Top : Top[k] = None}
<1>1. UNCHANGED <<pc, row, acked, excused>> /\ pc = "undoing"
  BY DEF Undo, history
<1>2. CASE ~(Persistent /\ tableKey)
  BY <1>1, <1>2, DiskUntouched DEF Undo
<1>3. CASE Persistent /\ tableKey
  <2>1. store' = Erase(store, Reachable(S)) /\ handle' = handle
    BY <1>3 DEF Undo, DeleteCell
  <2>2. /\ undo \in Seq(UndoEntry) /\ undo # << >>
    BY DEF IInv, TypeOK, Undo
  <2>3. Len(undo) \in 1 .. Len(undo)
    BY <2>2, EmptySeq, LenProperties
  <2>4. Top \in UndoEntry /\ \A k \in DOMAIN Top : k.row = row
    BY <2>2, <2>3, ElementOfSeq DEF Top, IInv, UndoInv, UndoLogCoversRow
  <2>5. DOMAIN Top \subseteq RowCells(row)
    BY <2>4 DEF UndoEntry, RowCells
  <2>6. S \subseteq excused /\ S \in SUBSET Cell
    BY <1>1, <1>3, <2>5 DEF StorageInv, RowCells
  <2> HIDE DEF S
  <2>7. /\ \A k \in Cell : k \notin S => store'[k] = store[k]
        /\ \A k \in Cell : store'[k] # None => store[k] # None
    BY <2>1, <2>6, ReachableErase DEF IInv, StorageInv
  <2>8. AckedCellsPersist'
    BY <1>1, <2>6, <2>7 DEF StorageInv, AckedCellsPersist
  <2>9. StoredCellsReachable'
    BY <2>1, <2>7 DEF StorageInv, StoredCellsReachable
  <2>10. RowCells(row)' \subseteq excused'
    BY <1>1, <1>3 DEF StorageInv, RowCells
  <2> QED BY <1>3, <2>8, <2>9, <2>10 DEF StorageInv
<1> QED BY <1>2, <1>3

(* The reopened database has the cells and the open families it had. *)
LEMMA RestartOnDisk ==
    ASSUME StorageInv, Restart
    PROVE  StorageInv'
<1>1. store' = store /\ acked' = acked /\ pc' = "idle"
  BY DEF Restart, Reopen
<1>2. \A f \in Family : handle[f] = "open" => handle'[f] = "open"
  BY DEF Restart, Reopen
<1>3. \A k \in Cell : k.fam \in Family
  BY DEF Cell
<1>4. Persistent => excused \subseteq excused'
  BY DEF Restart, Excuse
<1>5. ~Persistent => \A k \in Cell : store[k] = acked[k]
  BY DEF StorageInv
<1>6. AckedCellsPersist'
  BY <1>1, <1>4, <1>5 DEF StorageInv, AckedCellsPersist
<1>7. StoredCellsReachable'
  BY <1>1, <1>2, <1>3 DEF StorageInv, StoredCellsReachable
<1> QED BY <1>1, <1>6, <1>7 DEF StorageInv

(***************************************************************************)
(* Each operation of the table keeps the invariant about the disk.         *)
(***************************************************************************)
THEOREM StorageInvariance == IInv /\ StorageInv /\ [Next]_vars => StorageInv'
<1> SUFFICES ASSUME IInv, StorageInv, [Next]_vars PROVE StorageInv'
  OBVIOUS
<1>1. CASE UNCHANGED vars
  BY <1>1, DiskUntouched DEF vars, control, history
<1>2. CASE \E r \in Row : MutateRow(r) \/ ReadModifyWriteRow(r)
  BY <1>2, DiskUntouched DEF MutateRow, ReadModifyWriteRow, BeginTransaction
<1>3. CASE \E r \in Row, columns \in SUBSET Column : CheckAndMutateRow(r, columns)
  BY <1>3, ReadersOnDisk DEF CheckAndMutateRow, BeginTransaction
<1>4. CASE ReadRows
  BY <1>4, ReadersOnDisk DEF ReadRows, control, history
<1>5. CASE RejectMutation
  BY <1>5, RefusedOnDisk DEF RejectMutation
<1>6. CASE \E f \in Family, c \in Column, us \in Micros, now \in Time, v \in Value :
              SetCell(f, c, us, now, v)
  BY <1>6, SetCellOnDisk
<1>7. CASE \E f \in Family, c \in Column, us \in Micros, now \in Time, v \in Numeric :
              AddToCell(f, c, us, now, v)
  <2>1. PICK f \in Family, c \in Column, us \in Micros, now \in Time, v \in Numeric :
           AddToCell(f, c, us, now, v)
    BY <1>7
  <2>2. Refused \/ UNCHANGED <<pc, row, acked, excused, storageVars>>
    BY <2>1 DEF AddToCell, history
  <2> QED BY <2>2, RefusedOnDisk, DiskUntouched
<1>8. CASE \E f \in Family, c \in Column, range \in TimeRange : DeleteFromColumn(f, c, range)
  <2>1. PICK f \in Family, c \in Column, range \in TimeRange : DeleteFromColumn(f, c, range)
    BY <1>8
  <2> DEFINE D == ColumnCells(row, f, c)
             S == InTimeRange(D, range)
  <2>2. D \in SUBSET Cell /\ S \in SUBSET Cell /\ S \subseteq D
    BY DEF ColumnCells, InTimeRange
  <2>3. /\ pc = "mutating" /\ pc' = "mutating"
        /\ acked' = Erase(acked, S) /\ Excuse((excused \union D) \ S)
        /\ IfPersistent(DeleteColumn(row, f, c))
    BY <2>1 DEF DeleteFromColumn, Mutating
  <2>4. IF Persistent
          THEN /\ store' = Erase(store, Reachable(D))
               /\ \A g \in Family : handle[g] = "open" => handle'[g] = "open"
          ELSE UNCHANGED storageVars
    BY <2>3 DEF IfPersistent, DeleteColumn, IInv, TypeOK, StorageTypeOK
  <2> HIDE DEF D, S
  <2> QED BY <2>2, <2>3, <2>4, DeletedOnDisk
<1>9. ASSUME NEW S \in SUBSET Cell, NEW ACTION StorageDelete,
             DeleteCells(S, IfPersistent(StorageDelete)),
             StorageDelete => store' = Erase(store, Reachable(S)) /\ handle' = handle
      PROVE  StorageInv'
  <2>1. CASE Refused
    BY <2>1, RefusedOnDisk
  <2>2. CASE ~Refused
    <3>1. /\ pc = "mutating" /\ pc' = "mutating" /\ IfPersistent(StorageDelete)
          /\ acked' = Erase(acked, S) /\ Excuse(excused \ S)
      BY <1>9, <2>2 DEF DeleteCells, Mutating
    <3>2. Excuse((excused \union S) \ S)
      <4>1. (excused \union S) \ S = excused \ S
        OBVIOUS
      <4> QED BY <3>1, <4>1
    <3>3. IF Persistent
            THEN /\ store' = Erase(store, Reachable(S))
                 /\ \A g \in Family : handle[g] = "open" => handle'[g] = "open"
            ELSE UNCHANGED storageVars
      BY <1>9, <3>1 DEF IfPersistent
    <3> QED BY <3>1, <3>2, <3>3, DeletedOnDisk
  <2> QED BY <2>1, <2>2
<1>10. CASE \E f \in Family : DeleteFromFamily(f)
  <2>1. PICK f \in Family : DeleteFromFamily(f)
    BY <1>10
  <2>2. DeleteCFRow(row, f) =>
          store' = Erase(store, Reachable(FamilyCells(row, f))) /\ handle' = handle
    BY DEF DeleteCFRow
  <2>3. FamilyCells(row, f) \in SUBSET Cell
    BY DEF FamilyCells
  <2> QED BY <1>9, <2>1, <2>2, <2>3 DEF DeleteFromFamily
<1>11. CASE DeleteFromRow
  <2>1. DeleteRow(row) => store' = Erase(store, Reachable(RowCells(row))) /\ handle' = handle
    BY DEF DeleteRow
  <2>2. RowCells(row) \in SUBSET Cell
    BY DEF RowCells
  <2> QED BY <1>9, <1>11, <2>1, <2>2 DEF DeleteFromRow
<1>12. CASE \E f \in Family, c \in Column, now \in Time, increment \in BOOLEAN, v \in Value :
               ReadModifyWrite(f, c, now, increment, v)
  <2>1. PICK f \in Family, c \in Column, now \in Time, increment \in BOOLEAN, v \in Value :
           ReadModifyWrite(f, c, now, increment, v)
    BY <1>12
  <2>2. Refused \/ UNCHANGED <<pc, row, acked, excused, storageVars>>
    BY <2>1 DEF ReadModifyWrite, history
  <2> QED BY <2>2, RefusedOnDisk, DiskUntouched
<1>13. CASE Commit \/ ReturnError
  BY <1>13, DiskUntouched DEF Commit, ReturnError, Finish
<1>14. CASE Undo
  BY <1>14, UndoOnDisk
<1>15. CASE (\E rows \in SUBSET Row : DropRowRange(rows)) \/ RunGC
  BY <1>15, DiskUntouched DEF DropRowRange, RunGC, LoseCells
<1>16. CASE Restart
  BY <1>16, RestartOnDisk
<1> QED BY <1>1, <1>2, <1>3, <1>4, <1>5, <1>6, <1>7, <1>8, <1>10, <1>11, <1>12, <1>13,
           <1>14, <1>15, <1>16
        DEF Next, Request, Mutation

(* The empty database satisfies the invariant about the disk. *)
LEMMA StorageInitialization == Init => StorageInv
BY DEF Init, StorageInv, StoredCellsReachable, AckedCellsPersist, Empty

(* What is on disk keeps its invariant in every execution. *)
LEMMA StorageInductive == Spec => []StorageInv
BY Initialization, Invariance, StorageInitialization, StorageInvariance, PTL DEF Spec

(***************************************************************************)
(* Every persisted cell stays reachable through cf_handles_, through       *)
(* rollbacks, dropped rows, garbage collection and restarts.               *)
(***************************************************************************)
THEOREM CellsStayReachable == Spec => []StoredCellsReachable
<1>1. StorageInv => StoredCellsReachable
  BY DEF StorageInv
<1> QED BY <1>1, StorageInductive, PTL

(***************************************************************************)
(* Outside the excused cells the disk holds what the mutations say, also   *)
(* after a rollback and a restart.                                         *)
(***************************************************************************)
THEOREM PersistedCells == Spec => []AckedCellsPersist
<1>1. StorageInv => AckedCellsPersist
  BY DEF StorageInv
<1> QED BY <1>1, StorageInductive, PTL

-----------------------------------------------------------------------------
(* Which rows a request touches on disk, and when. *)

(* A step changes the disk only in the row of a request; a rollback, which   *)
(* does not put back what was there, never writes anything else instead;     *)
(* nothing is written between requests.                                      *)
DiskStep ==
    /\ \A k \in Cell : k.row # row => store'[k] = store[k]
    /\ pc = "undoing" => \A k \in Cell : store'[k] \in {store[k], None}
    /\ pc = "idle" => store' = store

OtherRowsOnDisk == pc # "idle" => \A k \in Cell : k.row # row => store[k] = snapStore[k]

(* A mutation that erases cells of the row, as far as handles reach them.    *)
LEMMA ErasesInRow ==
    ASSUME IInv, NEW S \in SUBSET RowCells(row), pc = "mutating",
           store' = Erase(store, Reachable(S))
    PROVE  DiskStep
<1>1. store \in Contents /\ S \in SUBSET Cell /\ \A k \in S : k.row = row
  BY DEF IInv, TypeOK, StorageTypeOK, RowCells
<1>2. \A k \in Cell : k.row # row => store'[k] = store[k]
  BY <1>1, EraseType DEF Reachable
<1> QED BY <1>2 DEF DiskStep

(* Each operation of the table touches its row only. *)
LEMMA EachDiskStep == IInv /\ [Next]_vars => DiskStep
<1> SUFFICES ASSUME IInv, [Next]_vars PROVE DiskStep
  OBVIOUS
<1>0. store \in Contents
  BY DEF IInv, TypeOK, StorageTypeOK
<1>1. ASSUME UNCHANGED store PROVE DiskStep
  BY <1>1 DEF DiskStep
<1>2. CASE UNCHANGED vars
  BY <1>1, <1>2 DEF vars, storageVars
<1>3. CASE Request
  BY <1>1, <1>3 DEF Request, MutateRow, ReadModifyWriteRow, CheckAndMutateRow, ReadRows,
                    CreateCellStream, NewIterators, storageVars
<1>4. CASE Refused
  BY <1>1, <1>4 DEF Refused, storageVars
<1>5. ASSUME NEW f \in Family, NEW c \in Column, NEW us \in Micros, NEW now \in Time,
             NEW v \in Value, SetCell(f, c, us, now, v)
      PROVE  DiskStep
  <2> DEFINE k == [row |-> row, fam |-> f, col |-> c, ts |-> SetCellTime(us, now)]
  <2>1. k.row = row /\ pc = "mutating" /\ IfPersistent(PutCell(k, v))
    BY <1>5 DEF SetCell, Mutating
  <2> HIDE DEF k
  <2>2. store' = store \/ store' = [store EXCEPT ![k] = v]
    BY <2>1 DEF IfPersistent, PutCell, storageVars
  <2> QED BY <1>0, <1>1, <2>1, <2>2 DEF DiskStep, Contents
<1>6. ASSUME NEW f \in Family, NEW c \in Column, NEW us \in Micros, NEW now \in Time,
             NEW v \in Numeric, AddToCell(f, c, us, now, v)
      PROVE  DiskStep
  BY <1>1, <1>4, <1>6 DEF AddToCell, storageVars
<1>7. ASSUME NEW f \in Family, NEW c \in Column, NEW range \in TimeRange,
             DeleteFromColumn(f, c, range)
      PROVE  DiskStep
  <2>1. pc = "mutating" /\ IfPersistent(DeleteColumn(row, f, c))
    BY <1>7 DEF DeleteFromColumn, Mutating
  <2>2. ColumnCells(row, f, c) \in SUBSET RowCells(row)
    BY DEF ColumnCells, RowCells
  <2>3. store' = store \/ store' = Erase(store, Reachable(ColumnCells(row, f, c)))
    BY <2>1 DEF IfPersistent, DeleteColumn, storageVars
  <2> QED BY <1>1, <2>1, <2>2, <2>3, ErasesInRow
<1>8. ASSUME NEW S \in SUBSET RowCells(row), NEW ACTION StorageDelete,
             DeleteCells(S, IfPersistent(StorageDelete)),
             StorageDelete => store' = Erase(store, Reachable(S))
      PROVE  DiskStep
  <2>1. pc = "mutating" /\ (Refused \/ IfPersistent(StorageDelete))
    BY <1>8 DEF DeleteCells, Mutating
  <2>2. CASE IfPersistent(StorageDelete)
    <3>1. store' = store \/ store' = Erase(store, Reachable(S))
      BY <1>8, <2>2 DEF IfPersistent, storageVars
    <3> QED BY <1>1, <2>1, <3>1, ErasesInRow
  <2> QED BY <1>4, <2>1, <2>2
<1>9. ASSUME NEW f \in Family, DeleteFromFamily(f) PROVE DiskStep
  <2>1. FamilyCells(row, f) \in SUBSET RowCells(row)
    BY DEF FamilyCells, RowCells
  <2>2. DeleteCFRow(row, f) => store' = Erase(store, Reachable(FamilyCells(row, f)))
    BY DEF DeleteCFRow
  <2> QED BY <1>8, <1>9, <2>1, <2>2 DEF DeleteFromFamily
<1>10. CASE DeleteFromRow
  <2>1. DeleteRow(row) => store' = Erase(store, Reachable(RowCells(row)))
    BY DEF DeleteRow
  <2> QED BY <1>8, <1>10, <2>1 DEF DeleteFromRow
<1>11. ASSUME NEW f \in Family, NEW c \in Column, NEW now \in Time,
              NEW increment \in BOOLEAN, NEW v \in Value,
              ReadModifyWrite(f, c, now, increment, v)
       PROVE  DiskStep
  BY <1>1, <1>4, <1>11 DEF ReadModifyWrite, storageVars
<1>12. CASE Commit \/ ReturnError
  BY <1>1, <1>12 DEF Commit, ReturnError, Finish, storageVars
<1>13. CASE Undo
  <2> DEFINE S == {k \in DOMAIN Top : Top[k] = None}
  <2>1. pc = "undoing" /\ (store' = store \/ store' = Erase(store, Reachable(S)))
    BY <1>13 DEF Undo, DeleteCell, storageVars
  <2>2. undo \in Seq(UndoEntry) /\ undo # << >>
    BY <1>13 DEF IInv, TypeOK, Undo
  <2>3. Len(undo) \in 1 .. Len(undo)
    BY <2>2, EmptySeq, LenProperties
  <2>4. Top \in UndoEntry /\ \A k \in DOMAIN Top : k.row = row
    BY <2>2, <2>3, ElementOfSeq DEF Top, IInv, UndoInv, UndoLogCoversRow
  <2>5. S \in SUBSET Cell /\ \A k \in S : k.row = row
    BY <2>4 DEF UndoEntry
  <2> HIDE DEF S
  <2>6. store' = store \/ \A k \in Cell : /\ k \notin S => store'[k] = store[k]
                                          /\ store'[k] \in {store[k], None}
    BY <1>0, <2>1, <2>5, EraseType DEF Reachable
  <2> QED BY <2>1, <2>5, <2>6 DEF DiskStep
<1>14. CASE (\E rows \in SUBSET Row : DropRowRange(rows)) \/ RunGC
  BY <1>1, <1>14 DEF DropRowRange, RunGC, LoseCells, storageVars
<1>15. CASE Restart
  BY <1>1, <1>15 DEF Restart, Reopen
<1> QED BY <1>2, <1>3, <1>4, <1>5, <1>6, <1>7, <1>9, <1>10, <1>11, <1>12, <1>13, <1>14, <1>15
        DEF Next, Mutation, RejectMutation

(* A request is of one row, and compares with the disk it began with. *)
LEMMA SnapshotStays ==
    ASSUME [Next]_vars
    PROVE  \/ pc' = "idle"
           \/ pc = "idle" /\ snapStore' = store
           \/ pc # "idle" /\ UNCHANGED <<row, snapStore>>
<1> DEFINE Stays == \/ pc' = "idle"
                    \/ pc = "idle" /\ snapStore' = store
                    \/ pc # "idle" /\ UNCHANGED <<row, snapStore>>
<1> SUFFICES Stays
  OBVIOUS
<1>1. ASSUME UNCHANGED <<pc, row, snapStore>> PROVE Stays
  BY <1>1
<1>2. ASSUME pc = "mutating", Refused PROVE Stays
  BY <1>2 DEF Refused
<1>3. CASE UNCHANGED vars
  BY <1>1, <1>3 DEF vars, control, history
<1>4. CASE Request
  BY <1>4 DEF Request, MutateRow, ReadModifyWriteRow, CheckAndMutateRow, ReadRows,
              BeginTransaction, control, history
<1>5. CASE Mutation
  <2>1. ASSUME NEW S, NEW ACTION StorageDelete, DeleteCells(S, StorageDelete) PROVE Stays
    BY <1>1, <1>2, <2>1 DEF DeleteCells, Mutating
  <2> HIDE DEF Stays
  <2>2. CASE RejectMutation
    BY <1>2, <2>2 DEF RejectMutation
  <2>3. ASSUME NEW f, NEW c, NEW us, NEW now, NEW v, SetCell(f, c, us, now, v) PROVE Stays
    BY <1>1, <2>3 DEF SetCell
  <2>4. ASSUME NEW f, NEW c, NEW us, NEW now, NEW v, AddToCell(f, c, us, now, v) PROVE Stays
    BY <1>1, <1>2, <2>4 DEF AddToCell, Mutating, history
  <2>5. ASSUME NEW f, NEW c, NEW range, DeleteFromColumn(f, c, range) PROVE Stays
    BY <1>1, <2>5 DEF DeleteFromColumn
  <2>6. ASSUME NEW f, DeleteFromFamily(f) PROVE Stays
    BY <2>1, <2>6 DEF DeleteFromFamily
  <2>7. CASE DeleteFromRow
    BY <2>1, <2>7 DEF DeleteFromRow
  <2>8. ASSUME NEW f, NEW c, NEW now, NEW increment, NEW v,
               ReadModifyWrite(f, c, now, increment, v)
        PROVE  Stays
    BY <1>1, <1>2, <2>8 DEF ReadModifyWrite, Mutating, history
  <2> QED BY <1>5, <2>2, <2>3, <2>4, <2>5, <2>6, <2>7, <2>8 DEF Mutation
<1>6. CASE Commit \/ ReturnError \/ Restart
  BY <1>6 DEF Commit, ReturnError, Finish, Restart
<1>7. CASE Undo
  BY <1>7 DEF Undo, history
<1>8. CASE (\E rows \in SUBSET Row : DropRowRange(rows)) \/ RunGC
  BY <1>8 DEF DropRowRange, RunGC, LoseCells
<1> QED BY <1>3, <1>4, <1>5, <1>6, <1>7, <1>8 DEF Next

(***************************************************************************)
(* Neither a mutation nor the rollback of one changes another row on disk, *)
(* and a rollback adds no cells.  A key is a record in Storage: this is    *)
(* about which row the code names, through the undo log and across         *)
(* restarts, not about rows whose text contains the separator of the keys. *)
(***************************************************************************)
THEOREM DiskIsChangedByRow == Spec => [][DiskStep]_vars
BY Initialization, Invariance, EachDiskStep, PTL DEF Spec

(***************************************************************************)
(* Rows are isolated on disk: whatever a request has done and undone, the  *)
(* other rows are on disk as they were when it began.                      *)
(***************************************************************************)
THEOREM RowsAreIsolatedOnDisk == Spec => []OtherRowsOnDisk
<1>1. Init => OtherRowsOnDisk
  BY DEF Init, OtherRowsOnDisk
<1>2. ASSUME IInv, OtherRowsOnDisk, DiskStep, [Next]_vars PROVE OtherRowsOnDisk'
  BY <1>2, SnapshotStays DEF DiskStep, OtherRowsOnDisk
<1> QED BY <1>1, <1>2, EachDiskStep, Initialization, Invariance, PTL DEF Spec

=============================================================================

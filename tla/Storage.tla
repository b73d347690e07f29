------------------------------- MODULE Storage -------------------------------
(***************************************************************************)
(* The data half of class Storage (storage.cc): the cells of one Bigtable  *)
(* table in RocksDB.  Each Bigtable column family is a RocksDB column      *)
(* family of its own and is reached through cf_handles_, the map from      *)
(* column family names to RocksDB handles.                                 *)
(*                                                                         *)
(* A key /tables/<t>/<row>/<qualifier>/<ts> of column family <t>/<fam> is  *)
(* the record [row, fam, col, ts]; a range deletion on a key prefix is the *)
(* deletion of the cells that agree with it on the leading fields.  The    *)
(* module is used through EXTENDS by the components that call Storage.     *)
(***************************************************************************)
EXTENDS Integers, FiniteSets

CONSTANTS
    Row,        \* row keys
    Family,     \* column families of the table's schema
    Column,     \* column qualifiers
    Time,       \* cell timestamps, in milliseconds
    Value,      \* cell values
    None        \* no cell

ASSUME NoneAssumption == None \notin Value

Cell == [row : Row, fam : Family, col : Column, ts : Time]

MaybeValue == Value \union {None}

Contents == [Cell -> MaybeValue]

Empty == [k \in Cell |-> None]

(***************************************************************************)
(* What a family's entry of cf_handles_ can be: there is no entry, an      *)
(* entry for an open RocksDB column family, or an entry that holds a null  *)
(* pointer.                                                                *)
(***************************************************************************)
Handle == {"absent", "open", "null"}

VARIABLES
    store,      \* the persisted cells
    handle      \* cf_handles_, per family

storageVars == <<store, handle>>

StorageTypeOK ==
    /\ store \in Contents
    /\ handle \in [Family -> Handle]

(* Mutant: a key prefix that leaves the row key out. *)
RowCells_AnyRow(r) == {k \in Cell : r \in Row}

RowCells(r) == {k \in Cell : k.row = r}

FamilyCells(r, f) == {k \in Cell : k.row = r /\ k.fam = f}

ColumnCells(r, f, c) == {k \in Cell : k.row = r /\ k.fam = f /\ k.col = c}

Erase(m, S) == [k \in Cell |-> IF k \in S THEN None ELSE m[k]]

Present(m, S) == {k \in S : m[k] # None}

-----------------------------------------------------------------------------
(***************************************************************************)
(* GetOrAddHandle creates the column family the first time it is named and *)
(* returns whatever the map holds after that, a null pointer included.     *)
(***************************************************************************)
GetOrAddHandle(f) == IF handle[f] = "absent" THEN "open" ELSE handle[f]

(* PutCell: nothing is written, and no error surfaces, when the handle is null. *)
PutCell(k, v) ==
    /\ handle' = [handle EXCEPT ![k.fam] = GetOrAddHandle(k.fam)]
    /\ store' = IF GetOrAddHandle(k.fam) = "open"
                  THEN [store EXCEPT ![k] = v]
                  ELSE store

(***************************************************************************)
(* A range deletion through a null handle goes to RocksDB's default column *)
(* family, which holds no cells.                                           *)
(***************************************************************************)
Reachable(S) == {k \in S : handle[k.fam] = "open"}

(***************************************************************************)
(* DeleteColumn looks its handle up with cf_handles_[name], which inserts  *)
(* a null entry for a name that is not there.  Every timestamp goes.       *)
(***************************************************************************)
DeleteColumn(r, f, c) ==
    /\ handle' = [handle EXCEPT ![f] = IF @ = "absent" THEN "null" ELSE @]
    /\ store' = Erase(store, Reachable(ColumnCells(r, f, c)))

DeleteCell(S) ==
    /\ store' = Erase(store, Reachable(S))
    /\ UNCHANGED handle

DeleteRow(r) ==
    /\ store' = Erase(store, Reachable(RowCells(r)))
    /\ UNCHANGED handle

(* Mutant: the range deletion goes to every column family. *)
DeleteCFRow_EveryFamily(r, f) ==
    /\ store' = Erase(store, Reachable(RowCells(r)))
    /\ UNCHANGED handle

DeleteCFRow(r, f) ==
    /\ store' = Erase(store, Reachable(FamilyCells(r, f)))
    /\ UNCHANGED handle

(***************************************************************************)
(* NewIterator on every family of a table, as reading the table does: the  *)
(* families that had no RocksDB column family get one.                     *)
(***************************************************************************)
NewIterators ==
    /\ handle' = [f \in Family |-> GetOrAddHandle(f)]
    /\ UNCHANGED store

(* An iterator on a null handle is a null pointer that the stream dereferences. *)
NullIterator == \E f \in Family : handle[f] = "null"

(* Mutant: the constructor opens the default column family only. *)
Reopen_DefaultOnly ==
    /\ handle' = [f \in Family |-> "absent"]
    /\ UNCHANGED store

(***************************************************************************)
(* The process ends and a new one opens the database: the constructor maps *)
(* the column families that exist on disk, so null entries are gone.       *)
(***************************************************************************)
Reopen ==
    /\ handle' = [f \in Family |-> IF handle[f] = "open" THEN "open" ELSE "absent"]
    /\ UNCHANGED store

=============================================================================

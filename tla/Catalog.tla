------------------------------- MODULE Catalog -------------------------------
(***************************************************************************)
(* The tables of the emulator and their schemas: Cluster::table_by_name_   *)
(* (cluster.cc), the schema half of Table (table.cc), what store_schema    *)
(* and Storage::DeleteTable keep on disk, and the startup of the process   *)
(* (emulator.cc), which restores the tables while the gRPC server already  *)
(* serves requests.                                                        *)
(*                                                                         *)
(* Requests run concurrently.  A step ends where a thread takes or         *)
(* releases a mutex or has read or written the database, so every order of *)
(* the accesses to shared state is a behaviour.                            *)
(***************************************************************************)
EXTENDS Naturals

CONSTANTS
    Name,               \* table names
    Family,             \* column family names
    Rule,               \* what a schema may say of a family: its rule, its type
    ValidRule,          \* those of them that ConstructColumnFamily accepts
    NewSchema,          \* the schemas that CreateTable requests carry
    Updates,            \* the UpdateTable requests
    Client,             \* threads of the gRPC server
    Main,               \* the thread that runs main()
    Object,             \* Table objects; the number of them is a bound
    None,               \* a null pointer, a free mutex, an absent row
    EarlyRequests,      \* whether requests arrive before the startup is over
    MaxModifications,   \* bound: modifications in one ModifyColumnFamilies
    MaxRestarts         \* bound: ends of the process

Process == Client \union {Main}

(* The column families of a schema, each with its rule. *)
Families == UNION {[F -> Rule] : F \in SUBSET Family}

(***************************************************************************)
(* The fields of a schema that a request may change; of                    *)
(* change_stream_config only whether the schema has it.                    *)
(***************************************************************************)
Schema == [families : Families, deletion_protection : BOOLEAN,
           change_stream_config : BOOLEAN]

(* The schemas that Construct does not refuse.                             *)
Constructible(schema) ==
    /\ ~schema.change_stream_config
    /\ \A f \in DOMAIN schema.families : schema.families[f] \in ValidRule

(* The schema of an update: deletion_protection, and whether the mask names *)
(* a change_stream_config that is there.                                    *)
UpdateRequest == [protect : BOOLEAN, stream : BOOLEAN]

(***************************************************************************)
(* A Table object: name_, schema_, the rules of column_families_ and those *)
(* of its families that hold cells in memory.                              *)
(***************************************************************************)
TableObject ==
    [name : Name, schema : Schema, running : Families, cells : SUBSET Family]

(***************************************************************************)
(* What ModifyColumnFamilies works on: new_schema, and new_column_families *)
(* as the families it shares with column_families_ and those it created.   *)
(***************************************************************************)
Copy == [families : Families, kept : SUBSET Family, fresh : Families,
         done : 0 .. MaxModifications]

(***************************************************************************)
(* A manifest, as the number of its lines that name each table.  The order *)
(* of the lines says only which table is restored first.                   *)
(***************************************************************************)
Manifest == [Name -> Nat]

NoLines == [n \in Name |-> 0]

ASSUME CatalogAssumption ==
    /\ Main \notin Client
    /\ None \notin Object \union Process \union TableObject \union Schema
    /\ ValidRule \subseteq Rule
    /\ NewSchema \subseteq {schema \in Schema : Constructible(schema)}
    /\ Updates \subseteq UpdateRequest
    /\ EarlyRequests \in BOOLEAN
    /\ MaxModifications \in Nat
    /\ MaxRestarts \in Nat

VARIABLES
    tables,     \* Cluster::table_by_name_
    object,     \* the Table objects that exist; None for memory not in use
    clusterMu,  \* the holder of Cluster::mu_
    tableMu,    \* the holder of each object's Table::mu_
    pc,         \* where each thread is
    ptr,        \* the shared_ptr<Table> each thread holds
    read,       \* the manifest a thread has read
    copy,       \* the copies of a ModifyColumnFamilies
    phase,      \* how far main() is
    lines,      \* the manifest lines main() has yet to restore
    manifest,   \* on disk: the lines of /sys/tables/_manifest
    schemaRow,  \* on disk: the schema under /sys/tables/<name>
    cfs,        \* on disk: the column families <name>/<family> that hold cells
    restarts,   \* ends of the process so far
    stale       \* history: tables whose row a refused CreateTable overwrote

disk == <<manifest, schemaRow, cfs>>
memory == <<tables, object>>
mutexes == <<clusterMu, tableMu>>
locals == <<pc, ptr, read, copy>>
startup == <<phase, lines, restarts>>
vars == <<memory, mutexes, locals, startup, disk, stale>>

NoCopy == [families |-> << >>, kept |-> {}, fresh |-> << >>, done |-> 0]

Init ==
    /\ tables = [n \in Name |-> None]
    /\ object = [o \in Object |-> None]
    /\ clusterMu = None
    /\ tableMu = [o \in Object |-> None]
    /\ pc = [p \in Process |-> "idle"]
    /\ ptr = [p \in Process |-> None]
    /\ read = [p \in Process |-> NoLines]
    /\ copy = [p \in Process |-> NoCopy]
    /\ phase = "closed"
    /\ lines = NoLines
    /\ manifest = NoLines
    /\ schemaRow = [n \in Name |-> None]
    /\ cfs = {}
    /\ restarts = 0
    /\ stale = {}

-----------------------------------------------------------------------------
(* GetGlobalStorage() returns a database from InitGlobalStorage on. *)
HasStorage == phase # "closed"

Accepts(p) ==
    /\ p \in Client
    /\ pc[p] = "idle"
    /\ EarlyRequests \/ phase = "serving"

Goto(p, label) == pc' = [pc EXCEPT ![p] = label]

Release(o) == tableMu' = [tableMu EXCEPT ![o] = None]

(***************************************************************************)
(* p lets its shared_ptr go, when the map is tbls and the objects objs: an *)
(* object that nothing else points to is destroyed.                        *)
(***************************************************************************)
DropPtr(p, tbls, objs) ==
    /\ ptr' = [ptr EXCEPT ![p] = None]
    /\ object' = [o \in Object |->
                    IF \/ \E n \in Name : tbls[n] = o
                       \/ \E q \in Process \ {p} : ptr[q] = o
                      THEN objs[o] ELSE None]

Obj(p) == object[ptr[p]]

-----------------------------------------------------------------------------
(* Table::Construct and store_schema *)

(***************************************************************************)
(* A new Table object with a schema that is not refused, up to the call of *)
(* store_schema.  A request whose schema is refused changes nothing.       *)
(***************************************************************************)
Construct(p, n, schema) ==
    /\ \E o \in Object :
          /\ object[o] = None
          /\ object' = [object EXCEPT ![o] =
                           [name |-> n, schema |-> schema,
                            running |-> schema.families, cells |-> {}]]
          /\ ptr' = [ptr EXCEPT ![p] = o]
    /\ Goto(p, "store_new")
    /\ UNCHANGED <<tables, mutexes, read, copy, disk, stale>>

CreateTable(p, n, schema) ==
    /\ Accepts(p)
    /\ Construct(p, n, schema)
    /\ UNCHANGED startup

(* store_schema reads the manifest; without a database it returns at once. *)
ReadManifest(p, from, to, after) ==
    /\ pc[p] = from
    /\ Goto(p, IF HasStorage THEN to ELSE after)
    /\ read' = [read EXCEPT ![p] = IF HasStorage THEN manifest ELSE NoLines]
    /\ UNCHANGED <<memory, mutexes, ptr, copy, startup, disk, stale>>

(* Mutant: every batch adds the table to the manifest. *)
Present_Never(p) == FALSE

(* Whether the manifest that was read lists the table. *)
Present(p) == read[p][Obj(p).name] > 0

(***************************************************************************)
(* The batch: the schema and, if the manifest that was read does not list  *)
(* the table, that manifest with the table added.                          *)
(***************************************************************************)
PutBatch(p) ==
    /\ schemaRow' = [schemaRow EXCEPT ![Obj(p).name] = Obj(p).schema]
    /\ manifest' = IF Present(p) THEN manifest
                   ELSE [read[p] EXCEPT ![Obj(p).name] = @ + 1]
    /\ read' = [read EXCEPT ![p] = NoLines]
    /\ UNCHANGED cfs

StoreNew(p) ==
    /\ pc[p] = "write_new"
    /\ PutBatch(p)
    /\ Goto(p, "emplace")
    /\ UNCHANGED <<memory, mutexes, ptr, copy, startup, stale>>

(* The end of CreateTable, and AttachTable for main(): the first one wins. *)
Emplace(p) ==
    LET n == Obj(p).name
    IN  /\ pc[p] = "emplace"
        /\ clusterMu = None
        /\ tables' = IF tables[n] = None THEN [tables EXCEPT ![n] = ptr[p]] ELSE tables
        /\ stale' = IF tables[n] = None THEN stale \ {n} ELSE stale \union {n}
        /\ DropPtr(p, tables', object)
        /\ Goto(p, "idle")
        /\ UNCHANGED <<mutexes, read, copy, startup, disk>>

-----------------------------------------------------------------------------
(* Requests on a table that exists *)

(* FindTable: from here on the thread has the object, in the map or not. *)
FindTable(p, n, op) ==
    /\ Accepts(p)
    /\ clusterMu = None
    /\ tables[n] # None
    /\ ptr' = [ptr EXCEPT ![p] = tables[n]]
    /\ Goto(p, op)
    /\ UNCHANGED <<memory, mutexes, read, copy, startup, disk, stale>>

Lock(p) ==
    /\ tableMu[ptr[p]] = None
    /\ tableMu' = [tableMu EXCEPT ![ptr[p]] = p]

Return(p) ==
    /\ Release(ptr[p])
    /\ DropPtr(p, tables, object)
    /\ Goto(p, "idle")

(***************************************************************************)
(* The schema with the fields that a mask may name: deletion_protection,   *)
(* and change_stream_config with its part.  MergeMessageTo sets a message  *)
(* but never clears one, so a change_stream_config is there to stay.       *)
(***************************************************************************)
Merged(schema, request) ==
    [schema EXCEPT !.deletion_protection = request.protect,
                   !.change_stream_config = @ \/ request.stream]

(* Mutant: an update is not persisted. *)
Update_NotPersisted(p, request) ==
    /\ pc[p] = "update"
    /\ Lock(p)
    /\ object' = [object EXCEPT ![ptr[p]].schema = Merged(@, request)]
    /\ Goto(p, "skip")
    /\ UNCHANGED <<tables, clusterMu, ptr, read, copy, startup, disk, stale>>

(* Table::Update, up to the call of store_schema.                           *)
Update(p, request) ==
    /\ pc[p] = "update"
    /\ Lock(p)
    /\ object' = [object EXCEPT ![ptr[p]].schema = Merged(@, request)]
    /\ Goto(p, "store")
    /\ UNCHANGED <<tables, clusterMu, ptr, read, copy, startup, disk, stale>>

(* A mask with another field is refused before mu_ is taken. *)
RefuseUpdate(p) ==
    /\ pc[p] = "update"
    /\ DropPtr(p, tables, object)
    /\ Goto(p, "idle")
    /\ UNCHANGED <<tables, mutexes, read, copy, startup, disk, stale>>

(* The end of Update and of ModifyColumnFamilies. *)
StoreSchema(p) ==
    /\ pc[p] = "write"
    /\ PutBatch(p)
    /\ stale' = stale \ {Obj(p).name}
    /\ Return(p)
    /\ UNCHANGED <<tables, clusterMu, copy, startup>>

(* store_schema without a database. *)
SkipStore(p) ==
    /\ pc[p] = "skip"
    /\ Return(p)
    /\ UNCHANGED <<tables, clusterMu, read, copy, startup, disk, stale>>

(* A row request that writes a cell of family f: memory and RocksDB. *)
WriteCell(p, f) ==
    /\ pc[p] = "write_cell"
    /\ tableMu[ptr[p]] = None
    /\ f \in DOMAIN Obj(p).running
    /\ DropPtr(p, tables, [object EXCEPT ![ptr[p]].cells = @ \union {f}])
    /\ cfs' = IF HasStorage THEN cfs \union {<<Obj(p).name, f>>} ELSE cfs
    /\ Goto(p, "idle")
    /\ UNCHANGED <<tables, mutexes, read, copy, startup, manifest, schemaRow, stale>>

(* A row request that names no family of the table. *)
WriteNothing(p) ==
    /\ pc[p] = "write_cell"
    /\ tableMu[ptr[p]] = None
    /\ DropPtr(p, tables, object)
    /\ Goto(p, "idle")
    /\ UNCHANGED <<tables, mutexes, read, copy, startup, disk, stale>>

-----------------------------------------------------------------------------
(* Table::ModifyColumnFamilies *)

ModifyColumnFamilies(p) ==
    /\ pc[p] = "modify"
    /\ Lock(p)
    /\ copy' = [copy EXCEPT ![p] =
                  [families |-> Obj(p).schema.families, kept |-> DOMAIN Obj(p).running,
                   fresh |-> << >>, done |-> 0]]
    /\ Goto(p, "modifying")
    /\ UNCHANGED <<memory, clusterMu, ptr, read, startup, disk, stale>>

With(fams, f, g) == [h \in DOMAIN fams \union {f} |-> IF h = f THEN g ELSE fams[h]]

Without(fams, f) == [h \in DOMAIN fams \ {f} |-> fams[h]]

Modification(p) ==
    /\ pc[p] = "modifying"
    /\ copy[p].done < MaxModifications
    /\ UNCHANGED <<tables, mutexes, pc, ptr, read, startup, manifest, schemaRow, stale>>

(* Mutant: the schema keeps a family that was dropped. *)
Drop_SchemaKept(p, f) ==
    /\ Modification(p)
    /\ ~Obj(p).schema.deletion_protection
    /\ f \in copy[p].kept \union DOMAIN copy[p].fresh
    /\ copy' = [copy EXCEPT ![p].kept = @ \ {f},
                            ![p].fresh = Without(@, f),
                            ![p].done = @ + 1]
    /\ cfs' = IF HasStorage THEN cfs \ {<<Obj(p).name, f>>} ELSE cfs
    /\ UNCHANGED object

(* The copies lose the family; RocksDB loses its cells there and then. *)
Drop(p, f) ==
    /\ Modification(p)
    /\ ~Obj(p).schema.deletion_protection
    /\ f \in copy[p].kept \union DOMAIN copy[p].fresh
    /\ copy' = [copy EXCEPT ![p] = [families |-> Without(@.families, f),
                                    kept |-> @.kept \ {f},
                                    fresh |-> Without(@.fresh, f),
                                    done |-> @.done + 1]]
    /\ cfs' = IF HasStorage THEN cfs \ {<<Obj(p).name, f>>} ELSE cfs
    /\ UNCHANGED object

(***************************************************************************)
(* The schema gets what MergeMessageTo makes of its definition of the      *)
(* family and of the update (merged): only what the mask names, lists of   *)
(* rules appended to one another.  A mask that names a part of value_type  *)
(* passes the test on value_type, so the result may be a definition that   *)
(* ConstructColumnFamily refuses.  The rule of the family is then g: the   *)
(* update's, which must be valid, or if it has none the one it was.  A     *)
(* family that the copy shares with the table takes it there and then.     *)
(***************************************************************************)
UpdateRule(p, f, g, merged) ==
    /\ Modification(p)
    /\ f \in DOMAIN copy[p].families
    /\ copy' = [copy EXCEPT ![p] =
                  [families |-> With(@.families, f, merged),
                   kept |-> @.kept,
                   fresh |-> IF f \in DOMAIN @.fresh THEN With(@.fresh, f, g) ELSE @.fresh,
                   done |-> @.done + 1]]
    /\ object' = IF f \in copy[p].kept
                   THEN [object EXCEPT ![ptr[p]].running = With(@, f, g)]
                   ELSE object
    /\ UNCHANGED cfs

CreateFamily(p, f, g) ==
    /\ Modification(p)
    /\ f \notin copy[p].kept \union DOMAIN copy[p].fresh
    /\ copy' = [copy EXCEPT ![p] = [families |-> With(@.families, f, g),
                                    kept |-> @.kept,
                                    fresh |-> With(@.fresh, f, g),
                                    done |-> @.done + 1]]
    /\ UNCHANGED <<object, cfs>>

(***************************************************************************)
(* A modification is refused: a family that is not there, or is there      *)
(* already, a protected table, a bad mask or rule.  The copies are         *)
(* forgotten.                                                              *)
(***************************************************************************)
RefuseModification(p) ==
    /\ pc[p] = "modifying"
    /\ copy[p].done < MaxModifications
    /\ copy' = [copy EXCEPT ![p] = NoCopy]
    /\ Return(p)
    /\ UNCHANGED <<tables, clusterMu, read, startup, disk, stale>>

(* After the last modification the copies become the table's. *)
SwapCopies(p) ==
    /\ pc[p] = "modifying"
    /\ object' = [object EXCEPT ![ptr[p]] =
                    [name |-> @.name,
                     schema |-> [@.schema EXCEPT !.families = copy[p].families],
                     running |-> [f \in copy[p].kept \union DOMAIN copy[p].fresh |->
                                    IF f \in copy[p].kept THEN @.running[f]
                                                          ELSE copy[p].fresh[f]],
                     cells |-> @.cells \intersect copy[p].kept]]
    /\ copy' = [copy EXCEPT ![p] = NoCopy]
    /\ Goto(p, "store")
    /\ UNCHANGED <<tables, mutexes, ptr, read, startup, disk, stale>>

-----------------------------------------------------------------------------
(* Cluster::DeleteTable: Cluster::mu_ is held from the lookup to the end. *)

DeleteTable(p, n) ==
    /\ Accepts(p)
    /\ clusterMu = None
    /\ tables[n] # None
    /\ clusterMu' = p
    /\ ptr' = [ptr EXCEPT ![p] = tables[n]]
    /\ Goto(p, "protected?")
    /\ UNCHANGED <<memory, tableMu, read, copy, startup, disk, stale>>

(* IsDeleteProtected takes Table::mu_. *)
IsDeleteProtected(p) ==
    /\ pc[p] = "protected?"
    /\ tableMu[ptr[p]] = None
    /\ IF Obj(p).schema.deletion_protection
         THEN /\ clusterMu' = None
              /\ DropPtr(p, tables, object)
              /\ Goto(p, "idle")
         ELSE /\ Goto(p, "delete")
              /\ UNCHANGED <<clusterMu, ptr, object>>
    /\ UNCHANGED <<tables, tableMu, read, copy, startup, disk, stale>>

(* Mutant: a manifest that does not list the table is read again. *)
DeleteManifestLine_Retries(p) ==
    /\ pc[p] = "write_manifest"
    /\ IF read[p][Obj(p).name] > 0
         THEN /\ manifest' = [read[p] EXCEPT ![Obj(p).name] = 0]
              /\ Goto(p, "drop_families")
         ELSE /\ Goto(p, "delete")
              /\ UNCHANGED manifest
    /\ read' = [read EXCEPT ![p] = NoLines]
    /\ UNCHANGED <<memory, mutexes, ptr, copy, startup, schemaRow, cfs, stale>>

(* Storage::DeleteTable does nothing for a table that the manifest does not list. *)
DeleteManifestLine(p) ==
    /\ pc[p] = "write_manifest"
    /\ IF read[p][Obj(p).name] > 0
         THEN /\ manifest' = [read[p] EXCEPT ![Obj(p).name] = 0]
              /\ Goto(p, "drop_families")
         ELSE /\ Goto(p, "erase")
              /\ UNCHANGED manifest
    /\ read' = [read EXCEPT ![p] = NoLines]
    /\ UNCHANGED <<memory, mutexes, ptr, copy, startup, schemaRow, cfs, stale>>

(* Mutant: the families of the table are left in the database. *)
DeleteFamilies_Kept(p) ==
    /\ pc[p] = "drop_families"
    /\ Goto(p, "delete_schema")
    /\ UNCHANGED <<memory, mutexes, ptr, read, copy, startup, disk, stale>>

DeleteFamilies(p) ==
    /\ pc[p] = "drop_families"
    /\ cfs' = {cf \in cfs : cf[1] # Obj(p).name}
    /\ Goto(p, "delete_schema")
    /\ UNCHANGED <<memory, mutexes, ptr, read, copy, startup, manifest, schemaRow, stale>>

DeleteSchemaRow(p) ==
    /\ pc[p] = "delete_schema"
    /\ schemaRow' = [schemaRow EXCEPT ![Obj(p).name] = None]
    /\ Goto(p, "erase")
    /\ UNCHANGED <<memory, mutexes, ptr, read, copy, startup, manifest, cfs, stale>>

(* Mutant: the table is destroyed with its entry in the map. *)
EraseTable_Destroys(p) ==
    /\ pc[p] = "erase"
    /\ tables' = [tables EXCEPT ![Obj(p).name] = None]
    /\ stale' = stale \ {Obj(p).name}
    /\ clusterMu' = None
    /\ ptr' = [ptr EXCEPT ![p] = None]
    /\ object' = [object EXCEPT ![ptr[p]] = None]
    /\ Goto(p, "idle")
    /\ UNCHANGED <<tableMu, read, copy, startup, disk>>

EraseTable(p) ==
    /\ pc[p] = "erase"
    /\ tables' = [tables EXCEPT ![Obj(p).name] = None]
    /\ stale' = stale \ {Obj(p).name}
    /\ clusterMu' = None
    /\ DropPtr(p, tables', object)
    /\ Goto(p, "idle")
    /\ UNCHANGED <<tableMu, read, copy, startup, disk>>

-----------------------------------------------------------------------------
(* main() and the end of the process *)

InitGlobalStorage ==
    /\ phase = "closed"
    /\ phase' = "open"
    /\ UNCHANGED <<memory, mutexes, locals, lines, restarts, disk, stale>>

LoadManifest ==
    /\ phase = "open"
    /\ phase' = "restoring"
    /\ lines' = manifest
    /\ UNCHANGED <<memory, mutexes, locals, restarts, disk, stale>>

(* A line that names n is taken. *)
TakeLine(n) ==
    /\ phase = "restoring"
    /\ pc[Main] = "idle"
    /\ lines[n] > 0
    /\ lines' = [lines EXCEPT ![n] = @ - 1]

(* The schema of the table is there and Table::Create accepts it. *)
IsRestorable(n) == schemaRow[n] # None /\ Constructible(schemaRow[n])

(* Mutant: only the first line of the manifest is restored. *)
RestoreTable_FirstLineOnly(n) ==
    /\ phase = "restoring"
    /\ pc[Main] = "idle"
    /\ lines[n] > 0
    /\ lines' = NoLines
    /\ IsRestorable(n)
    /\ Construct(Main, n, schemaRow[n])
    /\ UNCHANGED <<phase, restarts>>

(* A line of the manifest: Table::Create, then AttachTable. *)
RestoreTable(n) ==
    /\ TakeLine(n)
    /\ IsRestorable(n)
    /\ Construct(Main, n, schemaRow[n])
    /\ UNCHANGED <<phase, restarts>>

(***************************************************************************)
(* A line is skipped with a message when its schema is gone or Create      *)
(* refuses it; both stay on disk.  A row can always be parsed, because     *)
(* only store_schema writes it.                                            *)
(***************************************************************************)
SkipLine(n) ==
    /\ TakeLine(n)
    /\ ~IsRestorable(n)
    /\ UNCHANGED <<memory, mutexes, locals, phase, restarts, disk, stale>>

StartupDone ==
    /\ phase = "restoring"
    /\ pc[Main] = "idle"
    /\ lines = NoLines
    /\ phase' = "serving"
    /\ UNCHANGED <<memory, mutexes, locals, lines, restarts, disk, stale>>

(* The process ends at any point; what was written to RocksDB stays. *)
Restart ==
    /\ restarts < MaxRestarts
    /\ restarts' = restarts + 1
    /\ tables' = [n \in Name |-> None]
    /\ object' = [o \in Object |-> None]
    /\ clusterMu' = None
    /\ tableMu' = [o \in Object |-> None]
    /\ pc' = [p \in Process |-> "idle"]
    /\ ptr' = [p \in Process |-> None]
    /\ read' = [p \in Process |-> NoLines]
    /\ copy' = [p \in Process |-> NoCopy]
    /\ phase' = "closed"
    /\ lines' = NoLines
    /\ stale' = {}
    /\ UNCHANGED disk

-----------------------------------------------------------------------------
(* The steps a thread takes by itself once a request has begun. *)
Step(p) ==
    \/ ReadManifest(p, "store_new", "write_new", "emplace")
    \/ StoreNew(p)
    \/ Emplace(p)
    \/ \E request \in Updates : Update(p, request)
    \/ RefuseUpdate(p)
    \/ ReadManifest(p, "store", "write", "skip")
    \/ StoreSchema(p)
    \/ SkipStore(p)
    \/ \E f \in Family : WriteCell(p, f)
    \/ WriteNothing(p)
    \/ ModifyColumnFamilies(p)
    \/ \E f \in Family : Drop(p, f)
    \/ \E f \in Family, g \in ValidRule, merged \in Rule : UpdateRule(p, f, g, merged)
    \/ \E f \in Family, g \in ValidRule : CreateFamily(p, f, g)
    \/ RefuseModification(p)
    \/ SwapCopies(p)
    \/ IsDeleteProtected(p)
    \/ ReadManifest(p, "delete", "write_manifest", "erase")
    \/ DeleteManifestLine(p)
    \/ DeleteFamilies(p)
    \/ DeleteSchemaRow(p)
    \/ EraseTable(p)

Request(p) ==
    \/ \E n \in Name, schema \in NewSchema : CreateTable(p, n, schema)
    \/ \E n \in Name, op \in {"update", "modify", "write_cell"} : FindTable(p, n, op)
    \/ \E n \in Name : DeleteTable(p, n)

Startup ==
    \/ InitGlobalStorage
    \/ LoadManifest
    \/ \E n \in Name : RestoreTable(n) \/ SkipLine(n)
    \/ StartupDone

Next ==
    \/ \E p \in Process : Step(p)
    \/ \E p \in Client : Request(p)
    \/ Startup
    \/ Restart

Spec == Init /\ [][Next]_vars

(* A thread that can take a step of its request takes one. *)
FairSpec == Spec /\ \A p \in Process : WF_vars(Step(p))

-----------------------------------------------------------------------------
Label == {"idle", "store_new", "write_new", "emplace", "update", "store", "write",
          "skip", "write_cell", "modify", "modifying", "protected?", "delete",
          "write_manifest", "drop_families", "delete_schema", "erase"}

TypeOK ==
    /\ tables \in [Name -> Object \union {None}]
    /\ object \in [Object -> TableObject \union {None}]
    /\ clusterMu \in Process \union {None}
    /\ tableMu \in [Object -> Process \union {None}]
    /\ pc \in [Process -> Label]
    /\ ptr \in [Process -> Object \union {None}]
    /\ \A p \in Process : pc[p] # "idle" <=> ptr[p] # None
    /\ read \in [Process -> Manifest]
    /\ copy \in [Process -> Copy]
    /\ phase \in {"closed", "open", "restoring", "serving"}
    /\ lines \in Manifest
    /\ manifest \in Manifest
    /\ schemaRow \in [Name -> Schema \union {None}]
    /\ cfs \in SUBSET (Name \X Family)
    /\ restarts \in 0 .. MaxRestarts
    /\ stale \in SUBSET Name

(***************************************************************************)
(* An object that the map or a thread points to exists: DeleteTable and a  *)
(* refused CreateTable never destroy a Table that another request uses.    *)
(***************************************************************************)
NoDanglingTable ==
    /\ \A n \in Name : tables[n] # None => object[tables[n]] # None /\ object[tables[n]].name = n
    /\ \A p \in Process : ptr[p] # None => object[ptr[p]] # None

(***************************************************************************)
(* store_schema "avoids duplicate manifest entries" (persistence.md), also *)
(* when several tables are created, updated, deleted and restored at once. *)
(***************************************************************************)
ManifestHasNoDuplicates == \A n \in Name : manifest[n] <= 1

(***************************************************************************)
(* ModifyColumnFamilies never meets its two internal errors, "Column       *)
(* family with no schema" and "Column family with schema but no data": the *)
(* schema and the running families name the same families, in the table    *)
(* and in the copies, for every sequence of modifications and refusals.    *)
(***************************************************************************)
FamiliesMatchSchema ==
    /\ \A o \in Object : object[o] # None =>
          DOMAIN object[o].running = DOMAIN object[o].schema.families
    /\ \A p \in Process :
          DOMAIN copy[p].families = copy[p].kept \union DOMAIN copy[p].fresh

(***************************************************************************)
(* DeleteTable waits for Table::mu_ while it holds Cluster::mu_, which     *)
(* every other request needs.  It always gets it and lets Cluster::mu_ go: *)
(* no new request can find the table, and those that have it return.       *)
(***************************************************************************)
ClusterMutexReleased == clusterMu # None ~> clusterMu = None

Quiescent == phase = "serving" /\ \A p \in Process : pc[p] = "idle"

(***************************************************************************)
(* Between requests the manifest lists every table of the cluster, and     *)
(* besides them only tables whose stored schema Construct refuses.  So a   *)
(* restart brings back every table that was created, unless a request has  *)
(* put into its schema what Construct refuses, and none that was deleted,  *)
(* wherever the process ended before.  Requests come one at a time, after  *)
(* the startup.                                                            *)
(***************************************************************************)
ManifestListsTables ==
    Quiescent => \A n \in Name :
        /\ tables[n] # None => manifest[n] > 0
        /\ manifest[n] > 0 /\ tables[n] = None =>
              schemaRow[n] # None /\ ~Constructible(schemaRow[n])

(***************************************************************************)
(* Between requests the row of a table on disk is the table's schema,      *)
(* unless a refused CreateTable has overwritten it.                        *)
(***************************************************************************)
StoredSchemaIsCurrent ==
    Quiescent => \A n \in Name \ stale :
                    tables[n] # None => schemaRow[n] = object[tables[n]].schema

(***************************************************************************)
(* When DeleteTable takes a table out of the cluster nothing of it is left *)
(* on disk: no manifest line, no schema and no cells, not even those of a  *)
(* deletion of the same table that the end of the process cut off.         *)
(***************************************************************************)
DeleteLeavesNothing ==
    [][\A n \in Name :
          tables[n] # None /\ tables'[n] = None /\ restarts' = restarts =>
            /\ manifest'[n] = 0
            /\ schemaRow'[n] = None
            /\ \A f \in Family : <<n, f>> \notin cfs']_vars

-----------------------------------------------------------------------------
(* What persistence.md says and the code does not do. *)

(***************************************************************************)
(* persistence.md, Schema persistence: "Schema persistence happens on:     *)
(* table create".  A table that was created would be in the manifest.      *)
(***************************************************************************)
CreatedTablesAreListed ==
    Quiescent => \A n \in Name : tables[n] # None => manifest[n] > 0

(***************************************************************************)
(* persistence.md, Persisted write/delete paths: "Drop table" mirrors its  *)
(* change to RocksDB.  A table that was deleted would not be listed.       *)
(***************************************************************************)
DeletedTablesAreNotListed ==
    Quiescent => \A n \in Name : tables[n] = None => manifest[n] = 0

(***************************************************************************)
(* persistence.md, Startup restore, of each schema the manifest references: *)
(* "Runtime `Table` instances are created and attached to the cluster".    *)
(* Requests come one at a time, after the startup.                         *)
(***************************************************************************)
ListedTablesAreRestored ==
    Quiescent => \A n \in Name : manifest[n] > 0 => tables[n] # None

(***************************************************************************)
(* persistence.md, Startup restore: "This restores table definitions".     *)
(* The row of a table would be the table's schema.                         *)
(***************************************************************************)
StoredSchemaIsTheTables ==
    Quiescent => \A n \in Name : tables[n] # None => schemaRow[n] = object[tables[n]].schema

(***************************************************************************)
(* persistence.md, Persisted write/delete paths: "Drop column family"      *)
(* mirrors its change to RocksDB.  A family that keeps its cells in memory *)
(* would keep them in RocksDB.                                             *)
(***************************************************************************)
CellsInMemoryAreStored ==
    Quiescent => \A n \in Name : tables[n] # None =>
                    \A f \in object[tables[n]].cells : <<n, f>> \in cfs

=============================================================================

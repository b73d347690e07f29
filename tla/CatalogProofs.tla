---------------------------- MODULE CatalogProofs ----------------------------
(***************************************************************************)
(* Proofs about Catalog, in three parts.                                   *)
(*                                                                         *)
(* IInv holds whatever requests run at once.  From it follow the types,    *)
(* NoDanglingTable, FamiliesMatchSchema and ManifestHasNoDuplicates.       *)
(*                                                                         *)
(* With ClusterMutex it gives what ClusterMutexReleased rests on: threads  *)
(* never wait for each other in a circle (WaitsEnd), a request ends after  *)
(* boundedly many steps (RequestsAdvance), and the requests a DeleteTable  *)
(* waits for only grow fewer (NobodyGetsAhead).                            *)
(*                                                                         *)
(* SequentialInv holds when requests come one at a time after the startup  *)
(* (OneAtATime), wherever the process ends.  It says of every step of a    *)
(* request what is on disk; ManifestListsTables, StoredSchemaIsCurrent and *)
(* DeleteLeavesNothing are what is left of it between requests.            *)
(***************************************************************************)
EXTENDS Catalog, TLAPS

-----------------------------------------------------------------------------
(* The inductive invariant                                                 *)

(* The steps of a request between Lock and Return.                         *)
Locked == {"modifying", "store", "write", "skip"}

(* A mutex of a table is held by the thread that runs such a step of it.   *)
TableMutex ==
    /\ \A o \in Object : tableMu[o] # None =>
          ptr[tableMu[o]] = o /\ pc[tableMu[o]] \in Locked
    /\ \A p \in Process : pc[p] \in Locked => tableMu[ptr[p]] = p

(* The copies share with the table only families that the table still has. *)
KeptAreRunning ==
    \A p \in Process : pc[p] = "modifying" => copy[p].kept \subseteq DOMAIN Obj(p).running

(* Nobody has read a manifest with two lines for a table.                  *)
NoDuplicateIsRead ==
    \A p \in Process, n \in Name : read[p][n] <= 1

IInv ==
    /\ TypeOK
    /\ NoDanglingTable
    /\ TableMutex
    /\ KeptAreRunning
    /\ FamiliesMatchSchema
    /\ ManifestHasNoDuplicates
    /\ NoDuplicateIsRead

-----------------------------------------------------------------------------
(* Families of a schema                                                    *)

LEMMA EmptyFamilies == << >> \in Families /\ DOMAIN << >> = {}
<1>1. DOMAIN << >> = {}
  OBVIOUS
<1>2. << >> \in [{} -> Rule]
  OBVIOUS
<1> QED BY <1>1, <1>2 DEF Families

LEMMA FamiliesAre ==
    ASSUME NEW F \in Families PROVE DOMAIN F \subseteq Family /\ F \in [DOMAIN F -> Rule]
BY DEF Families

LEMMA WithFamily ==
    ASSUME NEW F \in Families, NEW f \in Family, NEW g \in Rule
    PROVE  With(F, f, g) \in Families /\ DOMAIN With(F, f, g) = DOMAIN F \union {f}
<1>1. DOMAIN F \in SUBSET Family /\ F \in [DOMAIN F -> Rule]
  BY FamiliesAre
<1>2. With(F, f, g) \in [DOMAIN F \union {f} -> Rule]
  BY <1>1 DEF With
<1>3. DOMAIN F \union {f} \in SUBSET Family
  BY <1>1
<1> QED BY <1>2, <1>3 DEF Families, With

LEMMA WithoutFamily ==
    ASSUME NEW F \in Families, NEW f \in Family
    PROVE  Without(F, f) \in Families /\ DOMAIN Without(F, f) = DOMAIN F \ {f}
<1>1. DOMAIN F \in SUBSET Family /\ F \in [DOMAIN F -> Rule]
  BY FamiliesAre
<1>2. Without(F, f) \in [DOMAIN F \ {f} -> Rule]
  BY <1>1 DEF Without
<1>3. DOMAIN F \ {f} \in SUBSET Family
  BY <1>1
<1> QED BY <1>2, <1>3 DEF Families, Without

-----------------------------------------------------------------------------
(* Objects and the pointers to them                                        *)

(* What a map of tables points to exists and has the name.                 *)
Exists(tbls, objs) ==
    \A n \in Name : tbls[n] # None => objs[tbls[n]] # None /\ objs[tbls[n]].name = n

(* A thread in the middle of a request has a Table.                        *)
LEMMA HasTable ==
    ASSUME TypeOK, NoDanglingTable, NEW p \in Process, pc[p] # "idle"
    PROVE  /\ ptr[p] \in Object /\ ptr[p] # None
           /\ Obj(p) # None /\ Obj(p) \in TableObject
           /\ Obj(p).name \in Name /\ Obj(p).schema \in Schema
           /\ Obj(p).running \in Families /\ Obj(p).schema.families \in Families
           /\ Obj(p).cells \in SUBSET Family
<1>1. ptr[p] \in Object /\ ptr[p] # None
  BY DEF TypeOK
<1>2. object[ptr[p]] \in TableObject /\ object[ptr[p]] # None
  BY <1>1 DEF TypeOK, NoDanglingTable
<1> QED BY <1>1, <1>2 DEF Obj, TableObject, Schema

(* A pointer that goes leaves every object that another one points to.     *)
LEMMA PtrGoes ==
    ASSUME TypeOK, NEW p \in Process,
           NEW tbls \in [Name -> Object \union {None}],
           NEW objs \in [Object -> TableObject \union {None}],
           Exists(tbls, objs),
           \A q \in Process : ptr[q] # None => objs[ptr[q]] # None,
           DropPtr(p, tbls, objs)
    PROVE  /\ ptr' \in [Process -> Object \union {None}]
           /\ ptr' = [ptr EXCEPT ![p] = None]
           /\ object' \in [Object -> TableObject \union {None}]
           /\ Exists(tbls, object')
           /\ \A q \in Process : ptr'[q] # None => object'[ptr'[q]] # None
           /\ \A q \in Process : q # p /\ ptr[q] # None => object'[ptr[q]] = objs[ptr[q]]
           /\ \A o \in Object : object'[o] # None => object'[o] = objs[o]
<1>1. ptr \in [Process -> Object \union {None}] /\ None \notin Object
  BY CatalogAssumption DEF TypeOK
<1>2. /\ ptr' = [ptr EXCEPT ![p] = None]
      /\ ptr' \in [Process -> Object \union {None}]
  BY <1>1 DEF DropPtr
<1>3. object' \in [Object -> TableObject \union {None}]
  BY DEF DropPtr
<1>4. \A o \in Object : object'[o] # None => object'[o] = objs[o]
  BY DEF DropPtr
<1>5. \A q \in Process : q # p /\ ptr[q] # None => object'[ptr[q]] = objs[ptr[q]]
  BY <1>1 DEF DropPtr
<1>6. \A n \in Name : tbls[n] # None => object'[tbls[n]] = objs[tbls[n]]
  BY <1>1 DEF DropPtr
<1>7. \A q \in Process : ptr'[q] # None => object'[ptr'[q]] # None
  BY <1>1, <1>2, <1>5
<1> QED BY <1>2, <1>3, <1>4, <1>5, <1>6, <1>7 DEF Exists

-----------------------------------------------------------------------------
(* Types and pointers: what the steps of a request do to them              *)

(* A batch keeps the disk well-formed.                                     *)
LEMMA BatchTypes ==
    ASSUME TypeOK, NoDanglingTable, NEW p \in Process, pc[p] # "idle", PutBatch(p)
    PROVE  /\ schemaRow' \in [Name -> Schema \union {None}] /\ manifest' \in Manifest
           /\ read' \in [Process -> Manifest] /\ cfs' = cfs
<1>1. Obj(p).name \in Name /\ Obj(p).schema \in Schema
  BY HasTable
<1>2. read[p] \in [Name -> Nat] /\ manifest \in [Name -> Nat]
  BY DEF TypeOK, Manifest
<1>3. [read[p] EXCEPT ![Obj(p).name] = @ + 1] \in Manifest
  BY <1>1, <1>2 DEF Manifest
<1>4. NoLines \in Manifest
  BY DEF NoLines, Manifest
<1> QED BY <1>1, <1>3, <1>4 DEF PutBatch, TypeOK

(* The memory stays well-formed when a pointer goes.                       *)
LEMMA DropTypes ==
    ASSUME TypeOK, NoDanglingTable, NEW p \in Process,
           NEW tbls \in [Name -> Object \union {None}],
           NEW objs \in [Object -> TableObject \union {None}],
           Exists(tbls, objs),
           \A q \in Process : ptr[q] # None => objs[ptr[q]] # None,
           DropPtr(p, tbls, objs), Goto(p, "idle"), tables' = tbls
    PROVE  /\ NoDanglingTable'
           /\ tables' \in [Name -> Object \union {None}]
           /\ object' \in [Object -> TableObject \union {None}]
           /\ pc' \in [Process -> Label]
           /\ ptr' \in [Process -> Object \union {None}]
           /\ \A q \in Process : pc'[q] # "idle" <=> ptr'[q] # None
<1>1. /\ ptr' \in [Process -> Object \union {None}]
      /\ ptr' = [ptr EXCEPT ![p] = None]
      /\ object' \in [Object -> TableObject \union {None}]
      /\ Exists(tbls, object')
      /\ \A q \in Process : ptr'[q] # None => object'[ptr'[q]] # None
  BY PtrGoes
<1>2. pc' = [pc EXCEPT ![p] = "idle"] /\ pc' \in [Process -> Label]
  BY DEF Goto, TypeOK, Label
<1>3. \A q \in Process : pc'[q] # "idle" <=> ptr'[q] # None
  BY <1>1, <1>2 DEF TypeOK
<1>4. NoDanglingTable'
  BY <1>1 DEF NoDanglingTable, Exists
<1> QED BY <1>1, <1>2, <1>3, <1>4

(* The objects when the Table of p becomes t.                              *)
Changed(p, t) == [object EXCEPT ![ptr[p]] = t]

(* A Table that changes keeps its name.                                    *)
LEMMA TableChanges ==
    ASSUME TypeOK, NoDanglingTable, NEW p \in Process, pc[p] # "idle",
           NEW t \in TableObject, t.name = Obj(p).name
    PROVE  /\ Changed(p, t) \in [Object -> TableObject \union {None}]
           /\ Changed(p, t)[ptr[p]] = t /\ t # None
           /\ \A o \in Object : o # ptr[p] => Changed(p, t)[o] = object[o]
           /\ Exists(tables, Changed(p, t))
           /\ \A q \in Process : ptr[q] # None => Changed(p, t)[ptr[q]] # None
<1>1. ptr[p] \in Object /\ ptr[p] # None /\ t # None
  BY HasTable, CatalogAssumption
<1>2. Changed(p, t) \in [Object -> TableObject \union {None}]
  BY DEF TypeOK, Changed
<1>3. Exists(tables, Changed(p, t))
  BY <1>1 DEF TypeOK, NoDanglingTable, Exists, Obj, Changed
<1>4. \A q \in Process : ptr[q] # None => Changed(p, t)[ptr[q]] # None
  BY <1>1 DEF TypeOK, NoDanglingTable, Changed
<1>5. Changed(p, t)[ptr[p]] = t
  BY <1>1 DEF TypeOK, Changed
<1>6. \A o \in Object : o # ptr[p] => Changed(p, t)[o] = object[o]
  BY DEF TypeOK, Changed
<1> QED BY <1>1, <1>2, <1>3, <1>4, <1>5, <1>6

(* A request that ends.                                                    *)
LEMMA Drops ==
    ASSUME TypeOK, NoDanglingTable, NEW p \in Process,
           DropPtr(p, tables, object), Goto(p, "idle"), tables' = tables
    PROVE  /\ NoDanglingTable' /\ tables' \in [Name -> Object \union {None}]
           /\ object' \in [Object -> TableObject \union {None}]
           /\ pc' \in [Process -> Label]
           /\ ptr' \in [Process -> Object \union {None}]
           /\ \A q \in Process : pc'[q] # "idle" <=> ptr'[q] # None
<1>1. /\ tables \in [Name -> Object \union {None}]
      /\ object \in [Object -> TableObject \union {None}]
      /\ Exists(tables, object)
      /\ \A q \in Process : ptr[q] # None => object[ptr[q]] # None
  BY DEF TypeOK, NoDanglingTable, Exists
<1> QED BY <1>1, DropTypes

LEMMA Returns ==
    ASSUME TypeOK, NoDanglingTable, NEW p \in Process, pc[p] # "idle",
           Return(p), tables' = tables
    PROVE  /\ NoDanglingTable' /\ tables' \in [Name -> Object \union {None}]
           /\ object' \in [Object -> TableObject \union {None}]
           /\ pc' \in [Process -> Label]
           /\ ptr' \in [Process -> Object \union {None}]
           /\ tableMu' \in [Object -> Process \union {None}]
           /\ \A q \in Process : pc'[q] # "idle" <=> ptr'[q] # None
<1>1. tableMu' \in [Object -> Process \union {None}]
  BY DEF Return, Release, TypeOK
<1> QED BY <1>1, Drops DEF Return

LEMMA NoCopyType == NoCopy \in Copy /\ DOMAIN NoCopy.families = {} /\ NoCopy.kept = {}
                    /\ DOMAIN NoCopy.fresh = {}
BY EmptyFamilies, CatalogAssumption DEF NoCopy, Copy

(* A Table that is created is pointed to by its creator alone.             *)
LEMMA Constructs ==
    ASSUME TypeOK, NoDanglingTable, NEW p \in Process, pc[p] = "idle",
           NEW n \in Name, NEW schema \in Schema, Construct(p, n, schema)
    PROVE  /\ NoDanglingTable' /\ tables' \in [Name -> Object \union {None}]
           /\ object' \in [Object -> TableObject \union {None}]
           /\ pc' \in [Process -> Label]
           /\ ptr' \in [Process -> Object \union {None}]
           /\ \A q \in Process : pc'[q] # "idle" <=> ptr'[q] # None
<1> DEFINE t == [name |-> n, schema |-> schema, running |-> schema.families, cells |-> {}]
<1>1. t \in TableObject /\ t # None
  BY CatalogAssumption DEF TableObject, Schema
<1>2. PICK o \in Object : /\ object[o] = None
                         /\ object' = [object EXCEPT ![o] = t]
                         /\ ptr' = [ptr EXCEPT ![p] = o]
  BY DEF Construct
<1> HIDE DEF t
<1>3. tables' = tables /\ pc' = [pc EXCEPT ![p] = "store_new"]
  BY DEF Construct, Goto
<1>4. o # None
  BY CatalogAssumption
<1>5. /\ object' \in [Object -> TableObject \union {None}]
      /\ ptr' \in [Process -> Object \union {None}]
  BY <1>1, <1>2 DEF TypeOK
<1>6. NoDanglingTable'
  BY <1>1, <1>2, <1>3, <1>4 DEF TypeOK, NoDanglingTable
<1>7. \A q \in Process : pc'[q] # "idle" <=> ptr'[q] # None
  BY <1>2, <1>3, <1>4 DEF TypeOK, Label
<1>8. pc' \in [Process -> Label] /\ tables' \in [Name -> Object \union {None}]
  BY <1>3 DEF TypeOK, Label
<1> QED BY <1>5, <1>6, <1>7, <1>8

LEMMA TypesAndPointers ==
    ASSUME IInv, [Next]_vars
    PROVE  TypeOK' /\ NoDanglingTable'
<1> USE DEF IInv
<1>A. TypeOK /\ NoDanglingTable
  OBVIOUS
<1>1. ASSUME NEW p \in Process, NEW from \in Label \ {"idle"},
             NEW to \in Label \ {"idle"}, NEW after \in Label \ {"idle"},
             ReadManifest(p, from, to, after)
      PROVE  TypeOK' /\ NoDanglingTable'
  BY <1>1, <1>A DEF ReadManifest, Goto, TypeOK, NoDanglingTable, NoLines, Manifest, memory,
     mutexes, startup, disk, vars
<1>2. ASSUME NEW p \in Process, StoreNew(p) PROVE TypeOK' /\ NoDanglingTable'
  BY <1>2, <1>A, BatchTypes
  DEF StoreNew, Goto, TypeOK, NoDanglingTable, memory, mutexes, startup, Label
<1>3. ASSUME NEW p \in Process, NEW request \in Updates, Update(p, request)
      PROVE  TypeOK' /\ NoDanglingTable'
  <2> DEFINE schema == Merged(Obj(p).schema, request)
             t == [Obj(p) EXCEPT !.schema = schema]
  <2>1. pc[p] # "idle" /\ ptr[p] \in Object
    BY <1>3, <1>A, HasTable DEF Update
  <2>0. schema \in Schema
    <3>1. request.protect \in BOOLEAN /\ request.stream \in BOOLEAN
      BY CatalogAssumption DEF UpdateRequest
    <3>2. Obj(p).schema \in Schema
      BY <1>A, <2>1, HasTable
    <3> QED BY <3>1, <3>2 DEF Merged, Schema
  <2>7. object' = [object EXCEPT ![ptr[p]].schema = schema]
    BY <1>3 DEF Update, Obj
  <2> HIDE DEF schema
  <2>2. t \in TableObject /\ t.name = Obj(p).name
    BY <1>A, <2>0, <2>1, HasTable DEF TableObject
  <2>3. object' = Changed(p, t)
    BY <2>7 DEF Obj, Changed
  <2> HIDE DEF t
  <2>4. /\ object' \in [Object -> TableObject \union {None}]
        /\ Exists(tables, object')
        /\ \A q \in Process : ptr[q] # None => object'[ptr[q]] # None
    BY <1>A, <2>1, <2>2, <2>3, TableChanges
  <2>5. /\ pc' = [pc EXCEPT ![p] = "store"] /\ UNCHANGED <<tables, ptr>>
        /\ tableMu' = [tableMu EXCEPT ![ptr[p]] = p]
    BY <1>3 DEF Update, Goto, Lock
  <2>6. NoDanglingTable'
    BY <2>4, <2>5 DEF Exists, NoDanglingTable
  <2> QED BY <1>3, <1>A, <2>1, <2>4, <2>5, <2>6 DEF Update, TypeOK, startup, disk, Label
<1>4. ASSUME NEW p \in Process, Emplace(p) PROVE TypeOK' /\ NoDanglingTable'
  <2>1. /\ tables' \in [Name -> Object \union {None}] /\ Exists(tables', object)
        /\ stale' \in SUBSET Name
    BY <1>4, <1>A, HasTable DEF Emplace, TypeOK, NoDanglingTable, Exists, Obj
  <2>2. DropPtr(p, tables', object) /\ Goto(p, "idle")
    BY <1>4 DEF Emplace
  <2>3. object \in [Object -> TableObject \union {None}]
    BY <1>A DEF TypeOK
  <2>4. \A q \in Process : ptr[q] # None => object[ptr[q]] # None
    BY <1>A DEF NoDanglingTable
  <2>5. /\ NoDanglingTable'
        /\ object' \in [Object -> TableObject \union {None}]
        /\ pc' \in [Process -> Label]
        /\ ptr' \in [Process -> Object \union {None}]
        /\ \A q \in Process : pc'[q] # "idle" <=> ptr'[q] # None
    BY <1>A, <2>1, <2>2, <2>3, <2>4, DropTypes
  <2> QED BY <1>4, <1>A, <2>1, <2>5 DEF Emplace, TypeOK, mutexes, startup, disk
<1>5. ASSUME NEW p \in Process, StoreSchema(p) PROVE TypeOK' /\ NoDanglingTable'
  <2>1. pc[p] # "idle" /\ PutBatch(p) /\ Return(p)
    BY <1>5 DEF StoreSchema
  <2>2. /\ schemaRow' \in [Name -> Schema \union {None}] /\ manifest' \in Manifest
        /\ read' \in [Process -> Manifest] /\ cfs' = cfs
    BY <1>A, <2>1, BatchTypes
  <2>3. tables' = tables
    BY <1>5 DEF StoreSchema
  <2>4. /\ NoDanglingTable' /\ tables' \in [Name -> Object \union {None}]
        /\ object' \in [Object -> TableObject \union {None}]
        /\ pc' \in [Process -> Label]
        /\ ptr' \in [Process -> Object \union {None}]
        /\ tableMu' \in [Object -> Process \union {None}]
        /\ \A q \in Process : pc'[q] # "idle" <=> ptr'[q] # None
    BY <1>A, <2>1, <2>3, Returns
  <2> QED BY <1>5, <1>A, <2>2, <2>4 DEF StoreSchema, TypeOK, startup
<1>6. ASSUME NEW p \in Process, SkipStore(p) PROVE TypeOK' /\ NoDanglingTable'
  BY <1>6, <1>A, Returns DEF SkipStore, TypeOK, startup, disk
<1>7. ASSUME NEW p \in Process, NEW f \in Family, WriteCell(p, f)
      PROVE  TypeOK' /\ NoDanglingTable'
  <2> DEFINE t == [Obj(p) EXCEPT !.cells = @ \union {f}]
             objs == [object EXCEPT ![ptr[p]].cells = @ \union {f}]
  <2>1. pc[p] # "idle" /\ ptr[p] \in Object
    BY <1>7, <1>A, HasTable DEF WriteCell
  <2>2. t \in TableObject /\ t.name = Obj(p).name
    BY <1>A, <2>1, HasTable DEF TableObject
  <2>3. objs = Changed(p, t)
    BY DEF Obj, Changed
  <2>4. DropPtr(p, tables, objs) /\ Goto(p, "idle") /\ tables' = tables
    BY <1>7 DEF WriteCell
  <2> HIDE DEF t, objs
  <2>5. /\ objs \in [Object -> TableObject \union {None}]
        /\ Exists(tables, objs)
        /\ \A q \in Process : ptr[q] # None => objs[ptr[q]] # None
    BY <1>A, <2>1, <2>2, <2>3, TableChanges
  <2>6. /\ NoDanglingTable' /\ tables' \in [Name -> Object \union {None}]
        /\ object' \in [Object -> TableObject \union {None}]
        /\ pc' \in [Process -> Label]
        /\ ptr' \in [Process -> Object \union {None}]
        /\ \A q \in Process : pc'[q] # "idle" <=> ptr'[q] # None
    BY <1>A, <2>4, <2>5, DropTypes DEF TypeOK
  <2>7. cfs' \in SUBSET (Name \X Family)
    <3>1. <<Obj(p).name, f>> \in Name \X Family /\ cfs \subseteq Name \X Family
      BY <1>A, <2>1, HasTable DEF TypeOK
    <3> QED BY <1>7, <3>1 DEF WriteCell
  <2> QED BY <1>7, <1>A, <2>6, <2>7 DEF WriteCell, TypeOK, mutexes, startup
<1>8. ASSUME NEW p \in Process, WriteNothing(p) \/ RefuseUpdate(p)
      PROVE  TypeOK' /\ NoDanglingTable'
  BY <1>8, <1>A, Drops DEF WriteNothing, RefuseUpdate, TypeOK, mutexes, startup, disk
<1>9. ASSUME NEW p \in Process, ModifyColumnFamilies(p) PROVE TypeOK' /\ NoDanglingTable'
  <2>1. pc[p] = "modify" /\ ptr[p] \in Object
    BY <1>9, <1>A, HasTable DEF ModifyColumnFamilies
  <2>2. Obj(p).schema.families \in Families /\ DOMAIN Obj(p).running \in SUBSET Family
    BY <1>A, <2>1, HasTable, FamiliesAre
  <2>3. copy' \in [Process -> Copy]
    BY <1>9, <1>A, <2>2, EmptyFamilies, CatalogAssumption DEF ModifyColumnFamilies, TypeOK, Copy
  <2>4. pc' = [pc EXCEPT ![p] = "modifying"] /\ UNCHANGED <<tables, object, ptr>>
    BY <1>9 DEF ModifyColumnFamilies, Goto, memory
  <2>5. tableMu' \in [Object -> Process \union {None}]
    BY <1>9, <1>A DEF ModifyColumnFamilies, Lock, TypeOK
  <2> QED BY <1>9, <1>A, <2>1, <2>3, <2>4, <2>5
      DEF ModifyColumnFamilies, TypeOK, NoDanglingTable, startup, disk, Label
<1>10. ASSUME NEW p \in Process, NEW f \in Family, Drop(p, f)
       PROVE  TypeOK' /\ NoDanglingTable'
  <2>1. /\ copy[p] \in Copy /\ copy[p].done < MaxModifications
        /\ Without(copy[p].families, f) \in Families
        /\ Without(copy[p].fresh, f) \in Families
    BY <1>10, <1>A, WithoutFamily DEF Drop, Modification, TypeOK, Copy
  <2>2. copy' \in [Process -> Copy]
    BY <1>10, <1>A, <2>1, CatalogAssumption DEF Drop, TypeOK, Copy
  <2>3. cfs' \in SUBSET (Name \X Family)
    BY <1>10, <1>A DEF Drop, TypeOK
  <2> QED BY <1>10, <1>A, <2>2, <2>3
      DEF Drop, Modification, TypeOK, NoDanglingTable, mutexes, startup
<1>11. ASSUME NEW p \in Process, NEW f \in Family, NEW g \in ValidRule,
              NEW merged \in Rule, UpdateRule(p, f, g, merged)
       PROVE  TypeOK' /\ NoDanglingTable'
  <2>0. g \in Rule
    BY CatalogAssumption
  <2>1. /\ copy[p] \in Copy /\ copy[p].done < MaxModifications
        /\ With(copy[p].families, f, merged) \in Families
        /\ With(copy[p].fresh, f, g) \in Families
    BY <1>11, <1>A, <2>0, WithFamily DEF UpdateRule, Modification, TypeOK, Copy
  <2>2. copy' \in [Process -> Copy]
    <3> DEFINE c == [families |-> With(copy[p].families, f, merged),
                     kept |-> copy[p].kept,
                     fresh |-> IF f \in DOMAIN copy[p].fresh
                              THEN With(copy[p].fresh, f, g) ELSE copy[p].fresh,
                     done |-> copy[p].done + 1]
    <3>1. copy[p].done + 1 \in 0 .. MaxModifications
      BY <2>1, CatalogAssumption DEF Copy
    <3>2. c \in Copy
      BY <2>1, <3>1 DEF Copy
    <3>3. copy' = [copy EXCEPT ![p] = c]
      BY <1>11 DEF UpdateRule
    <3> HIDE DEF c
    <3> QED BY <1>A, <3>2, <3>3 DEF TypeOK
  <2>3. /\ object' \in [Object -> TableObject \union {None}]
        /\ Exists(tables, object')
        /\ \A q \in Process : ptr[q] # None => object'[ptr[q]] # None
    <3>1. CASE f \notin copy[p].kept
      BY <1>11, <1>A, <3>1 DEF UpdateRule, TypeOK, NoDanglingTable, Exists
    <3>2. CASE f \in copy[p].kept
      <4> DEFINE t == [Obj(p) EXCEPT !.running = With(@, f, g)]
      <4>1. pc[p] # "idle" /\ ptr[p] \in Object
        BY <1>11, <1>A, HasTable DEF UpdateRule, Modification
      <4>2. t \in TableObject /\ t.name = Obj(p).name
        BY <1>A, <2>0, <4>1, HasTable, WithFamily DEF TableObject
      <4>3. object' = Changed(p, t)
        BY <1>11, <3>2 DEF UpdateRule, Obj, Changed
      <4> HIDE DEF t
      <4> QED BY <1>A, <4>1, <4>2, <4>3, TableChanges
    <3> QED BY <3>1, <3>2
  <2> QED BY <1>11, <1>A, <2>2, <2>3
      DEF UpdateRule, Modification, TypeOK, NoDanglingTable, Exists, mutexes, startup
<1>12. ASSUME NEW p \in Process, NEW f \in Family, NEW g \in ValidRule, CreateFamily(p, f, g)
       PROVE  TypeOK' /\ NoDanglingTable'
  <2>1. /\ copy[p] \in Copy /\ copy[p].done < MaxModifications
        /\ With(copy[p].families, f, g) \in Families
        /\ With(copy[p].fresh, f, g) \in Families
    BY <1>12, <1>A, CatalogAssumption, WithFamily DEF CreateFamily, Modification, TypeOK, Copy
  <2>2. copy' \in [Process -> Copy]
    <3> DEFINE c == [families |-> With(copy[p].families, f, g),
                     kept |-> copy[p].kept,
                     fresh |-> With(copy[p].fresh, f, g),
                     done |-> copy[p].done + 1]
    <3>1. copy[p].done + 1 \in 0 .. MaxModifications
      BY <2>1, CatalogAssumption DEF Copy
    <3>2. c \in Copy
      BY <2>1, <3>1 DEF Copy
    <3>3. copy' = [copy EXCEPT ![p] = c]
      BY <1>12 DEF CreateFamily
    <3> HIDE DEF c
    <3> QED BY <1>A, <3>2, <3>3 DEF TypeOK
  <2> QED BY <1>12, <1>A, <2>2
      DEF CreateFamily, Modification, TypeOK, NoDanglingTable, mutexes, startup
<1>13. ASSUME NEW p \in Process, RefuseModification(p) PROVE TypeOK' /\ NoDanglingTable'
  <2>1. copy' \in [Process -> Copy]
    BY <1>13, <1>A, NoCopyType DEF RefuseModification, TypeOK
  <2> QED BY <1>13, <1>A, <2>1, Returns DEF RefuseModification, TypeOK, startup, disk
<1>14. ASSUME NEW p \in Process, SwapCopies(p) PROVE TypeOK' /\ NoDanglingTable'
  <2> DEFINE both == [f \in copy[p].kept \union DOMAIN copy[p].fresh |->
                        IF f \in copy[p].kept THEN Obj(p).running[f] ELSE copy[p].fresh[f]]
             t == [name |-> Obj(p).name,
                   schema |-> [Obj(p).schema EXCEPT !.families = copy[p].families],
                   running |-> both,
                   cells |-> Obj(p).cells \intersect copy[p].kept]
  <2>1. pc[p] # "idle" /\ ptr[p] \in Object /\ copy[p] \in Copy
    BY <1>14, <1>A, HasTable DEF SwapCopies, TypeOK
  <2>2. both \in Families
    <3>1. copy[p].kept \subseteq DOMAIN Obj(p).running
      BY <1>14 DEF SwapCopies, KeptAreRunning
    <3>2. /\ Obj(p).running \in [DOMAIN Obj(p).running -> Rule]
          /\ copy[p].fresh \in [DOMAIN copy[p].fresh -> Rule]
          /\ DOMAIN copy[p].fresh \subseteq Family /\ copy[p].kept \subseteq Family
      BY <1>A, <2>1, HasTable, FamiliesAre DEF Copy
    <3>3. both \in [copy[p].kept \union DOMAIN copy[p].fresh -> Rule]
      BY <3>1, <3>2
    <3> QED BY <3>2, <3>3 DEF Families
  <2>3. object' = Changed(p, t)
    BY <1>14 DEF SwapCopies, Obj, Changed
  <2> HIDE DEF both
  <2>4. t \in TableObject /\ t.name = Obj(p).name
    BY <1>A, <2>1, <2>2, HasTable DEF TableObject, Schema, Copy
  <2> HIDE DEF t
  <2>5. /\ object' \in [Object -> TableObject \union {None}]
        /\ Exists(tables, object')
        /\ \A q \in Process : ptr[q] # None => object'[ptr[q]] # None
    BY <1>A, <2>1, <2>3, <2>4, TableChanges
  <2>6. copy' \in [Process -> Copy]
    BY <1>14, <1>A, NoCopyType DEF SwapCopies, TypeOK
  <2>7. pc' = [pc EXCEPT ![p] = "store"] /\ UNCHANGED <<tables, ptr>>
    BY <1>14 DEF SwapCopies, Goto
  <2>8. NoDanglingTable'
    BY <2>5, <2>7 DEF Exists, NoDanglingTable
  <2> QED BY <1>14, <1>A, <2>1, <2>5, <2>6, <2>7, <2>8
      DEF SwapCopies, TypeOK, mutexes, startup, disk, Label
<1>15. ASSUME NEW p \in Client, NEW n \in Name, NEW schema \in NewSchema,
              CreateTable(p, n, schema)
       PROVE  TypeOK' /\ NoDanglingTable'
  <2>1. p \in Process /\ schema \in Schema /\ pc[p] = "idle" /\ Construct(p, n, schema)
    BY <1>15, CatalogAssumption DEF CreateTable, Accepts, Process
  <2>2. /\ NoDanglingTable' /\ tables' \in [Name -> Object \union {None}]
        /\ object' \in [Object -> TableObject \union {None}]
        /\ pc' \in [Process -> Label]
        /\ ptr' \in [Process -> Object \union {None}]
        /\ \A q \in Process : pc'[q] # "idle" <=> ptr'[q] # None
    BY <1>A, <2>1, Constructs
  <2> QED BY <1>15, <1>A, <2>2 DEF CreateTable, Construct, TypeOK, mutexes, startup, disk
<1>16. ASSUME NEW p \in Client, NEW n \in Name, NEW op \in {"update", "modify", "write_cell"},
              FindTable(p, n, op)
       PROVE  TypeOK' /\ NoDanglingTable'
  <2>1. p \in Process /\ pc' = [pc EXCEPT ![p] = op] /\ UNCHANGED <<tables, object>>
        /\ ptr' = [ptr EXCEPT ![p] = tables[n]] /\ tables[n] # None
    BY <1>16 DEF FindTable, Goto, Process, memory
  <2> QED BY <1>16, <1>A, <2>1
      DEF FindTable, TypeOK, NoDanglingTable, mutexes, startup, disk, Label
<1>17. ASSUME NEW p \in Client, NEW n \in Name, DeleteTable(p, n)
       PROVE  TypeOK' /\ NoDanglingTable'
  <2>1. p \in Process /\ pc' = [pc EXCEPT ![p] = "protected?"] /\ UNCHANGED <<tables, object>>
        /\ ptr' = [ptr EXCEPT ![p] = tables[n]] /\ tables[n] # None
    BY <1>17 DEF DeleteTable, Goto, Process, memory
  <2> QED BY <1>17, <1>A, <2>1
      DEF DeleteTable, TypeOK, NoDanglingTable, startup, disk, Label
<1>18. ASSUME NEW p \in Process, IsDeleteProtected(p) PROVE TypeOK' /\ NoDanglingTable'
  <2>1. CASE Obj(p).schema.deletion_protection
    BY <1>18, <1>A, <2>1, Drops DEF IsDeleteProtected, TypeOK, startup, disk
  <2>2. CASE ~Obj(p).schema.deletion_protection
    <3>1. /\ pc[p] # "idle" /\ pc' = [pc EXCEPT ![p] = "delete"]
          /\ UNCHANGED <<tables, object, ptr, clusterMu>>
      BY <1>18, <2>2 DEF IsDeleteProtected, Goto
    <3> QED BY <1>18, <1>A, <3>1
        DEF IsDeleteProtected, TypeOK, NoDanglingTable, startup, disk, Label
  <2> QED BY <2>1, <2>2
<1>19. ASSUME NEW p \in Process, DeleteManifestLine(p) PROVE TypeOK' /\ NoDanglingTable'
  <2>1. /\ read[p] \in Manifest /\ Obj(p).name \in Name
        /\ [read[p] EXCEPT ![Obj(p).name] = 0] \in Manifest
        /\ NoLines \in Manifest
    BY <1>19, <1>A, HasTable DEF DeleteManifestLine, TypeOK, Manifest, NoLines
  <2>2. manifest' \in Manifest /\ read' \in [Process -> Manifest]
    BY <1>19, <1>A, <2>1 DEF DeleteManifestLine, TypeOK
  <2>3. PICK to \in {"drop_families", "erase"} : pc' = [pc EXCEPT ![p] = to]
    BY <1>19 DEF DeleteManifestLine, Goto
  <2>4. pc[p] # "idle" /\ UNCHANGED <<tables, object, ptr>>
    BY <1>19 DEF DeleteManifestLine, memory
  <2> QED BY <1>19, <1>A, <2>2, <2>3, <2>4
      DEF DeleteManifestLine, TypeOK, NoDanglingTable, mutexes, startup, Label
<1>20. ASSUME NEW p \in Process, DeleteFamilies(p) PROVE TypeOK' /\ NoDanglingTable'
  <2>1. cfs' \in SUBSET (Name \X Family)
    BY <1>20, <1>A DEF DeleteFamilies, TypeOK
  <2> QED BY <1>20, <1>A, <2>1
      DEF DeleteFamilies, Goto, TypeOK, NoDanglingTable, memory, mutexes, startup, Label
<1>21. ASSUME NEW p \in Process, DeleteSchemaRow(p) PROVE TypeOK' /\ NoDanglingTable'
  BY <1>21, <1>A
  DEF DeleteSchemaRow, Goto, TypeOK, NoDanglingTable, memory, mutexes, startup, Label
<1>22. ASSUME NEW p \in Process, EraseTable(p) PROVE TypeOK' /\ NoDanglingTable'
  <2>1. /\ tables' \in [Name -> Object \union {None}] /\ Exists(tables', object)
        /\ stale' \in SUBSET Name
    BY <1>22, <1>A DEF EraseTable, TypeOK, NoDanglingTable, Exists
  <2>2. DropPtr(p, tables', object) /\ Goto(p, "idle")
    BY <1>22 DEF EraseTable
  <2>3. /\ object \in [Object -> TableObject \union {None}]
        /\ \A q \in Process : ptr[q] # None => object[ptr[q]] # None
    BY <1>A DEF TypeOK, NoDanglingTable
  <2>4. /\ NoDanglingTable'
        /\ object' \in [Object -> TableObject \union {None}]
        /\ pc' \in [Process -> Label]
        /\ ptr' \in [Process -> Object \union {None}]
        /\ \A q \in Process : pc'[q] # "idle" <=> ptr'[q] # None
    BY <1>A, <2>1, <2>2, <2>3, DropTypes
  <2> QED BY <1>22, <1>A, <2>1, <2>4 DEF EraseTable, TypeOK, startup, disk
<1>23. ASSUME InitGlobalStorage \/ LoadManifest \/ StartupDone PROVE TypeOK' /\ NoDanglingTable'
  BY <1>23, <1>A
  DEF InitGlobalStorage, LoadManifest, StartupDone, TypeOK, NoDanglingTable, memory, mutexes,
      locals, disk
<1>24. ASSUME NEW n \in Name, TakeLine(n) PROVE lines' \in Manifest
  BY <1>24, <1>A DEF TakeLine, TypeOK, Manifest
<1>25. ASSUME NEW n \in Name, RestoreTable(n) PROVE TypeOK' /\ NoDanglingTable'
  <2>1. /\ Main \in Process /\ pc[Main] = "idle" /\ schemaRow[n] \in Schema
        /\ Construct(Main, n, schemaRow[n]) /\ lines' \in Manifest
    BY <1>24, <1>25, <1>A DEF RestoreTable, TakeLine, IsRestorable, Process, TypeOK
  <2>2. /\ NoDanglingTable' /\ tables' \in [Name -> Object \union {None}]
        /\ object' \in [Object -> TableObject \union {None}]
        /\ pc' \in [Process -> Label]
        /\ ptr' \in [Process -> Object \union {None}]
        /\ \A q \in Process : pc'[q] # "idle" <=> ptr'[q] # None
    BY <1>A, <2>1, Constructs
  <2> QED BY <1>25, <1>A, <2>1, <2>2 DEF RestoreTable, Construct, TypeOK, mutexes, disk
<1>26. ASSUME NEW n \in Name, SkipLine(n) PROVE TypeOK' /\ NoDanglingTable'
  BY <1>24, <1>26, <1>A
  DEF SkipLine, TypeOK, NoDanglingTable, memory, mutexes, locals, disk
<1>27. CASE Restart
  <2>1. NoLines \in Manifest /\ restarts' \in 0 .. MaxRestarts
    BY <1>27, <1>A, CatalogAssumption DEF Restart, TypeOK, NoLines, Manifest
  <2>2. tables' \in [Name -> Object \union {None}] /\ object' \in [Object -> TableObject \union {None}]
    BY <1>27 DEF Restart
  <2> QED BY <1>27, <1>A, <2>1, <2>2, NoCopyType DEF Restart, TypeOK, NoDanglingTable, disk, Label
<1>28. CASE UNCHANGED vars
  BY <1>28, <1>A
  DEF vars, memory, mutexes, locals, startup, disk, TypeOK, NoDanglingTable
<1> QED
  BY <1>1, <1>2, <1>3, <1>4, <1>5, <1>6, <1>7, <1>8, <1>9, <1>10, <1>11, <1>12, <1>13, <1>14,
     <1>15, <1>16, <1>17, <1>18, <1>19, <1>20, <1>21, <1>22, <1>23, <1>25, <1>26, <1>27, <1>28
  DEF Next, Step, Request, Startup, Label

-----------------------------------------------------------------------------
(* The mutexes of the tables and the families of tables and copies         *)

(* The part of the invariant that is about them.                           *)
Modifying == TableMutex /\ KeptAreRunning /\ FamiliesMatchSchema

(* The Tables that a step leaves have the families they had.               *)
SameFamilies ==
    \A o \in Object : object'[o] # None =>
        /\ object[o] # None
        /\ object'[o].schema.families = object[o].schema.families
        /\ DOMAIN object'[o].running = DOMAIN object[o].running

(* The other threads keep their places, pointers and copies.               *)
OthersStay(p) ==
    \A q \in Process : q # p =>
        pc'[q] = pc[q] /\ ptr'[q] = ptr[q] /\ copy'[q] = copy[q]

(* Two threads never modify one table at a time.                           *)
LEMMA OneModifies ==
    ASSUME TypeOK, TableMutex, NEW p \in Process, NEW q \in Process, p # q,
           pc[p] \in Locked, pc[q] \in Locked
    PROVE  ptr[p] # ptr[q]
BY DEF TableMutex

LEMMA FamiliesStay ==
    ASSUME TypeOK', Modifying, NEW p \in Process, OthersStay(p), SameFamilies,
           \A q \in Process : ptr'[q] # None => object'[ptr'[q]] # None,
           DOMAIN copy'[p].families = copy'[p].kept \union DOMAIN copy'[p].fresh,
           pc'[p] = "modifying" =>
              pc[p] = "modifying" /\ ptr'[p] = ptr[p] /\ copy'[p].kept \subseteq copy[p].kept
    PROVE  KeptAreRunning' /\ FamiliesMatchSchema'
<1>1. FamiliesMatchSchema'
  BY DEF Modifying, FamiliesMatchSchema, SameFamilies, OthersStay
<1>2. ASSUME NEW q \in Process, pc'[q] = "modifying"
      PROVE  copy'[q].kept \subseteq DOMAIN object'[ptr'[q]].running
  <2>1. ptr'[q] \in Object /\ ptr'[q] # None /\ object'[ptr'[q]] # None
    BY <1>2, CatalogAssumption DEF TypeOK
  <2>2. pc[q] = "modifying" /\ ptr'[q] = ptr[q] /\ copy'[q].kept \subseteq copy[q].kept
    BY <1>2 DEF OthersStay
  <2>3. copy[q].kept \subseteq DOMAIN object[ptr[q]].running
    BY <2>2 DEF Modifying, KeptAreRunning, Obj
  <2> QED BY <2>1, <2>2, <2>3 DEF SameFamilies
<1> QED BY <1>1, <1>2 DEF KeptAreRunning, Obj

(* A step that neither takes nor releases a mutex.                         *)
LEMMA MutexStays ==
    ASSUME TypeOK, TypeOK', TableMutex, NEW p \in Process, OthersStay(p), UNCHANGED tableMu,
           pc[p] \in Locked <=> pc'[p] \in Locked,
           pc[p] \in Locked => ptr'[p] = ptr[p]
    PROVE  TableMutex'
<1>1. ASSUME NEW o \in Object, tableMu'[o] # None
      PROVE  ptr'[tableMu'[o]] = o /\ pc'[tableMu'[o]] \in Locked
  <2>1. tableMu[o] \in Process /\ ptr[tableMu[o]] = o /\ pc[tableMu[o]] \in Locked
    BY <1>1 DEF TypeOK, TableMutex
  <2> QED BY <2>1 DEF OthersStay
<1>2. ASSUME NEW q \in Process, pc'[q] \in Locked
      PROVE  tableMu'[ptr'[q]] = q
  BY <1>2 DEF TableMutex, OthersStay
<1> QED BY <1>1, <1>2 DEF TableMutex

(* A step that takes the mutex of the table.                               *)
LEMMA MutexTaken ==
    ASSUME TypeOK, TypeOK', TableMutex, NEW p \in Process, OthersStay(p),
           Lock(p), ptr'[p] = ptr[p], pc[p] # "idle", pc'[p] \in Locked
    PROVE  TableMutex'
<1>1. ptr[p] \in Object /\ tableMu' = [tableMu EXCEPT ![ptr[p]] = p]
      /\ tableMu[ptr[p]] = None /\ None \notin Process /\ None \notin Object
  BY CatalogAssumption DEF TypeOK, Lock
<1>2. ASSUME NEW o \in Object, tableMu'[o] # None
      PROVE  ptr'[tableMu'[o]] = o /\ pc'[tableMu'[o]] \in Locked
  <2>1. CASE o = ptr[p]
    BY <1>1, <2>1 DEF TypeOK
  <2>2. CASE o # ptr[p]
    <3>1. tableMu'[o] = tableMu[o] /\ tableMu[o] \in Process
      BY <1>1, <1>2, <2>2 DEF TypeOK
    <3>2. ptr[tableMu[o]] = o /\ pc[tableMu[o]] \in Locked
      BY <1>2, <3>1 DEF TableMutex
    <3> QED BY <2>2, <3>1, <3>2 DEF OthersStay
  <2> QED BY <2>1, <2>2
<1>3. ASSUME NEW q \in Process, pc'[q] \in Locked
      PROVE  tableMu'[ptr'[q]] = q
  <2>1. CASE q = p
    BY <1>1, <2>1 DEF TypeOK
  <2>2. CASE q # p
    <3>1. pc[q] \in Locked /\ ptr'[q] = ptr[q] /\ tableMu[ptr[q]] = q
      BY <1>3, <2>2 DEF TableMutex, OthersStay
    <3>2. ptr[q] # ptr[p]
      BY <1>1, <3>1
    <3>3. ptr[q] \in Object
      BY <3>1 DEF TypeOK, Locked
    <3> QED BY <1>1, <3>1, <3>2, <3>3 DEF TypeOK
  <2> QED BY <2>1, <2>2
<1> QED BY <1>2, <1>3 DEF TableMutex

(* A step that releases it.                                                *)
LEMMA MutexReleased ==
    ASSUME TypeOK, TypeOK', TableMutex, NEW p \in Process, OthersStay(p),
           Release(ptr[p]), pc[p] \in Locked, pc'[p] = "idle"
    PROVE  TableMutex'
<1>1. ptr[p] \in Object /\ tableMu' = [tableMu EXCEPT ![ptr[p]] = None]
      /\ tableMu[ptr[p]] = p
  BY DEF TypeOK, Release, TableMutex, Locked
<1>2. ASSUME NEW o \in Object, tableMu'[o] # None
      PROVE  ptr'[tableMu'[o]] = o /\ pc'[tableMu'[o]] \in Locked
  <2>1. o # ptr[p] /\ tableMu'[o] = tableMu[o] /\ tableMu[o] \in Process
    BY <1>1, <1>2 DEF TypeOK
  <2>2. ptr[tableMu[o]] = o /\ pc[tableMu[o]] \in Locked
    BY <1>2, <2>1 DEF TableMutex
  <2> QED BY <2>1, <2>2 DEF OthersStay
<1>3. ASSUME NEW q \in Process, pc'[q] \in Locked
      PROVE  tableMu'[ptr'[q]] = q
  <2>1. q # p /\ pc[q] \in Locked /\ ptr'[q] = ptr[q] /\ tableMu[ptr[q]] = q
    BY <1>3 DEF TableMutex, OthersStay, Locked
  <2>2. ptr[q] \in Object /\ ptr[q] # ptr[p]
    BY <1>1, <2>1 DEF TypeOK, Locked
  <2> QED BY <1>1, <2>1, <2>2 DEF TypeOK
<1> QED BY <1>2, <1>3 DEF TableMutex

(* A step of p that changes no table and no mutex, and no pointer or copy. *)
LEMMA QuietStep ==
    ASSUME IInv, TypeOK', NoDanglingTable', NEW p \in Process, NEW l \in Label,
           pc' = [pc EXCEPT ![p] = l], UNCHANGED <<object, tableMu, ptr, copy>>,
           pc[p] \in Locked <=> l \in Locked, l # "modifying"
    PROVE  Modifying'
<1>1. OthersStay(p) /\ pc'[p] = l
  BY DEF IInv, TypeOK, OthersStay
<1>2. TableMutex'
  BY <1>1, MutexStays DEF IInv
<1>3. SameFamilies
  BY DEF SameFamilies
<1>4. DOMAIN copy'[p].families = copy'[p].kept \union DOMAIN copy'[p].fresh
  BY DEF IInv, FamiliesMatchSchema
<1>5. \A q \in Process : ptr'[q] # None => object'[ptr'[q]] # None
  BY DEF NoDanglingTable
<1> QED BY <1>1, <1>2, <1>3, <1>4, <1>5, FamiliesStay DEF IInv, Modifying

(* A request that ends without the mutex.                                  *)
LEMMA EndStep ==
    ASSUME IInv, TypeOK', NoDanglingTable', NEW p \in Process, NEW tbls,
           DropPtr(p, tbls, object), Goto(p, "idle"), UNCHANGED <<tableMu, copy>>,
           pc[p] \notin Locked
    PROVE  Modifying'
<1>1. OthersStay(p) /\ pc'[p] = "idle"
  BY DEF IInv, TypeOK, OthersStay, DropPtr, Goto
<1>2. TableMutex'
  BY <1>1, MutexStays DEF IInv, Locked
<1>3. SameFamilies
  BY DEF SameFamilies, DropPtr
<1>4. DOMAIN copy'[p].families = copy'[p].kept \union DOMAIN copy'[p].fresh
  BY DEF IInv, FamiliesMatchSchema
<1>5. \A q \in Process : ptr'[q] # None => object'[ptr'[q]] # None
  BY DEF NoDanglingTable
<1> QED BY <1>1, <1>2, <1>3, <1>4, <1>5, FamiliesStay DEF IInv, Modifying

(* A request that ends with the mutex.                                     *)
LEMMA ReturnStep ==
    ASSUME IInv, TypeOK', NoDanglingTable', NEW p \in Process, Return(p), pc[p] \in Locked,
           copy' = copy \/ copy' = [copy EXCEPT ![p] = NoCopy]
    PROVE  Modifying'
<1>1. OthersStay(p) /\ pc'[p] = "idle"
  BY DEF IInv, TypeOK, OthersStay, Return, DropPtr, Goto
<1>2. TableMutex'
  BY <1>1, MutexReleased DEF IInv, Return
<1>3. SameFamilies
  BY DEF SameFamilies, Return, DropPtr
<1>4. DOMAIN copy'[p].families = copy'[p].kept \union DOMAIN copy'[p].fresh
  <2>1. CASE copy' = copy
    BY <2>1 DEF IInv, FamiliesMatchSchema
  <2>2. CASE copy' = [copy EXCEPT ![p] = NoCopy]
    BY <2>2, NoCopyType DEF IInv, TypeOK
  <2> QED BY <2>1, <2>2
<1>5. \A q \in Process : ptr'[q] # None => object'[ptr'[q]] # None
  BY DEF NoDanglingTable
<1> QED BY <1>1, <1>2, <1>3, <1>4, <1>5, FamiliesStay DEF IInv, Modifying

(* A request that begins, with a table that it finds.                      *)
LEMMA FindStep ==
    ASSUME IInv, TypeOK', NoDanglingTable', NEW p \in Process, NEW l \in Label \ Locked,
           NEW n \in Name, ptr' = [ptr EXCEPT ![p] = tables[n]], pc' = [pc EXCEPT ![p] = l],
           pc[p] = "idle", UNCHANGED <<object, tableMu, copy>>
    PROVE  Modifying'
<1>1. OthersStay(p) /\ pc'[p] = l
  BY DEF IInv, TypeOK, OthersStay
<1>2. TableMutex'
  BY <1>1, MutexStays DEF IInv, Locked
<1>3. SameFamilies
  BY DEF SameFamilies
<1>4. DOMAIN copy'[p].families = copy'[p].kept \union DOMAIN copy'[p].fresh
  BY DEF IInv, FamiliesMatchSchema
<1>5. \A q \in Process : ptr'[q] # None => object'[ptr'[q]] # None
  BY DEF NoDanglingTable
<1> QED BY <1>1, <1>2, <1>3, <1>4, <1>5, FamiliesStay DEF IInv, Modifying, Locked

(* A request that begins with a table of its own.                          *)
LEMMA ConstructStep ==
    ASSUME IInv, TypeOK', NoDanglingTable', NEW p \in Process, NEW n \in Name,
           NEW schema \in Schema, Construct(p, n, schema), pc[p] = "idle"
    PROVE  Modifying'
<1>1. /\ OthersStay(p) /\ pc'[p] = "store_new"
      /\ UNCHANGED <<tableMu, copy>>
  BY DEF IInv, TypeOK, OthersStay, Construct, Goto, mutexes
<1>2. TableMutex'
  BY <1>1, MutexStays DEF IInv, Locked
<1>3. PICK o \in Object :
         /\ object[o] = None
         /\ object' = [object EXCEPT ![o] = [name |-> n, schema |-> schema,
                                            running |-> schema.families, cells |-> {}]]
  BY DEF Construct
<1>4. FamiliesMatchSchema'
  BY <1>1, <1>3 DEF IInv, TypeOK, FamiliesMatchSchema
<1>5. ASSUME NEW q \in Process, pc'[q] = "modifying"
      PROVE  copy'[q].kept \subseteq DOMAIN object'[ptr'[q]].running
  <2>1. q # p /\ pc[q] = "modifying" /\ ptr'[q] = ptr[q] /\ copy'[q] = copy[q]
    BY <1>1, <1>5 DEF OthersStay
  <2>2. ptr[q] \in Object /\ object[ptr[q]] # None
    BY <2>1, HasTable DEF IInv, Obj
  <2>3. object'[ptr[q]] = object[ptr[q]]
    BY <1>3, <2>2 DEF IInv, TypeOK
  <2> QED BY <2>1, <2>3 DEF IInv, KeptAreRunning, Obj
<1> QED BY <1>2, <1>4, <1>5 DEF Modifying, KeptAreRunning, Obj

(* A modification in the copies, which share less with the table than before. *)
LEMMA CopyStep ==
    ASSUME IInv, TypeOK', NoDanglingTable', NEW p \in Process, Modification(p), SameFamilies,
           NEW c, copy' = [copy EXCEPT ![p] = c],
           DOMAIN c.families = c.kept \union DOMAIN c.fresh, c.kept \subseteq copy[p].kept
    PROVE  Modifying'
<1>1. OthersStay(p) /\ copy'[p] = c /\ UNCHANGED <<pc, ptr, tableMu>>
  BY DEF IInv, TypeOK, OthersStay, Modification, mutexes
<1>2. TableMutex'
  BY <1>1, MutexStays DEF IInv
<1>5. \A q \in Process : ptr'[q] # None => object'[ptr'[q]] # None
  BY DEF NoDanglingTable
<1> QED BY <1>1, <1>2, <1>5, FamiliesStay DEF IInv, Modifying, Modification

LEMMA ModifyingIsInvariant ==
    ASSUME IInv, [Next]_vars
    PROVE  Modifying'
<1>A. TypeOK /\ NoDanglingTable /\ TableMutex /\ Modifying
  BY DEF IInv, Modifying
<1>B. TypeOK' /\ NoDanglingTable'
  BY TypesAndPointers
<1>C. \A q \in Process : ptr'[q] # None => object'[ptr'[q]] # None
  BY <1>B DEF NoDanglingTable
<1>1. ASSUME NEW p \in Process, NEW from \in Label, NEW to \in Label, NEW after \in Label,
             ReadManifest(p, from, to, after), to # "modifying", after # "modifying",
             from \in Locked <=> to \in Locked, from \in Locked <=> after \in Locked
      PROVE  Modifying'
  <2>1. PICK l \in {to, after} : pc' = [pc EXCEPT ![p] = l]
    BY <1>1 DEF ReadManifest, Goto
  <2>2. pc[p] = from /\ UNCHANGED <<object, tableMu, ptr, copy>>
    BY <1>1 DEF ReadManifest, memory, mutexes
  <2> QED BY <1>1, <1>B, <2>1, <2>2, QuietStep
<1>2. ASSUME NEW p \in Process, StoreNew(p) PROVE Modifying'
  <2>1. /\ pc[p] = "write_new" /\ pc' = [pc EXCEPT ![p] = "emplace"]
        /\ UNCHANGED <<object, tableMu, ptr, copy>>
    BY <1>2 DEF StoreNew, Goto, memory, mutexes
  <2> QED BY <1>B, <2>1, QuietStep DEF Locked, Label
<1>3. ASSUME NEW p \in Process, NEW request \in Updates, Update(p, request)
      PROVE  Modifying'
  <2> DEFINE schema == Merged(Obj(p).schema, request)
  <2>1. /\ pc[p] = "update" /\ pc' = [pc EXCEPT ![p] = "store"]
        /\ Lock(p) /\ UNCHANGED <<ptr, copy>>
        /\ object' = [object EXCEPT ![ptr[p]].schema = schema]
    BY <1>3 DEF Update, Goto, Obj
  <2>6. schema.families = Obj(p).schema.families
    BY <1>A, <2>1, HasTable DEF Merged, Schema
  <2> HIDE DEF schema
  <2>2. OthersStay(p) /\ pc'[p] = "store"
    BY <1>A, <2>1 DEF TypeOK, OthersStay
  <2>3. TableMutex'
    BY <1>A, <1>B, <2>1, <2>2, MutexTaken DEF Locked
  <2>4. SameFamilies
    BY <1>A, <2>1, <2>6, HasTable DEF SameFamilies, TypeOK, TableObject, Obj
  <2>5. DOMAIN copy'[p].families = copy'[p].kept \union DOMAIN copy'[p].fresh
    BY <1>A, <2>1 DEF Modifying, FamiliesMatchSchema
  <2> QED BY <1>A, <1>B, <1>C, <2>2, <2>3, <2>4, <2>5, FamiliesStay DEF Modifying
<1>4. ASSUME NEW p \in Process, Emplace(p) PROVE Modifying'
  <2>1. /\ DropPtr(p, tables', object) /\ Goto(p, "idle") /\ UNCHANGED <<tableMu, copy>>
        /\ pc[p] \notin Locked
    BY <1>4 DEF Emplace, mutexes, Locked
  <2> QED BY <1>B, <2>1, EndStep
<1>5. ASSUME NEW p \in Process, StoreSchema(p) PROVE Modifying'
  BY <1>5, <1>B, ReturnStep DEF StoreSchema, Locked
<1>6. ASSUME NEW p \in Process, SkipStore(p) PROVE Modifying'
  BY <1>6, <1>B, ReturnStep DEF SkipStore, Locked
<1>7. ASSUME NEW p \in Process, NEW f \in Family, WriteCell(p, f) PROVE Modifying'
  <2>1. /\ pc[p] = "write_cell" /\ Goto(p, "idle") /\ UNCHANGED <<tableMu, copy>>
        /\ DropPtr(p, tables, [object EXCEPT ![ptr[p]].cells = @ \union {f}])
    BY <1>7 DEF WriteCell, mutexes
  <2>2. OthersStay(p) /\ pc'[p] = "idle"
    BY <1>A, <2>1 DEF TypeOK, OthersStay, DropPtr, Goto
  <2>3. TableMutex'
    BY <1>A, <1>B, <2>1, <2>2, MutexStays DEF Locked
  <2>4. SameFamilies
    BY <1>A, <2>1, HasTable DEF SameFamilies, DropPtr, TypeOK, TableObject, Obj
  <2>5. DOMAIN copy'[p].families = copy'[p].kept \union DOMAIN copy'[p].fresh
    BY <1>A, <2>1 DEF Modifying, FamiliesMatchSchema
  <2> QED BY <1>A, <1>B, <1>C, <2>2, <2>3, <2>4, <2>5, FamiliesStay DEF Modifying
<1>8. ASSUME NEW p \in Process, WriteNothing(p) \/ RefuseUpdate(p) PROVE Modifying'
  BY <1>8, <1>B, EndStep DEF WriteNothing, RefuseUpdate, mutexes, Locked
<1>9. ASSUME NEW p \in Process, ModifyColumnFamilies(p) PROVE Modifying'
  <2>1. /\ pc[p] = "modify" /\ pc' = [pc EXCEPT ![p] = "modifying"]
        /\ Lock(p) /\ UNCHANGED <<object, ptr>>
        /\ copy' = [copy EXCEPT ![p] =
              [families |-> Obj(p).schema.families, kept |-> DOMAIN Obj(p).running,
               fresh |-> << >>, done |-> 0]]
    BY <1>9 DEF ModifyColumnFamilies, Goto, memory
  <2>2. OthersStay(p) /\ pc'[p] = "modifying"
    BY <1>A, <2>1 DEF TypeOK, OthersStay
  <2>3. TableMutex'
    BY <1>A, <1>B, <2>1, <2>2, MutexTaken DEF Locked
  <2>4. /\ copy'[p].kept = DOMAIN Obj(p).running
        /\ DOMAIN copy'[p].fresh = {}
        /\ DOMAIN copy'[p].families = DOMAIN Obj(p).schema.families
    BY <1>A, <2>1, EmptyFamilies DEF TypeOK
  <2>5. DOMAIN Obj(p).running = DOMAIN Obj(p).schema.families
    BY <1>A, <2>1, HasTable DEF Modifying, FamiliesMatchSchema, Obj
  <2>6. FamiliesMatchSchema'
    BY <1>A, <2>1, <2>2, <2>4, <2>5 DEF Modifying, FamiliesMatchSchema, OthersStay
  <2>7. KeptAreRunning'
    BY <1>A, <2>1, <2>2, <2>4 DEF Modifying, KeptAreRunning, OthersStay, Obj
  <2> QED BY <2>3, <2>6, <2>7 DEF Modifying
<1>10. ASSUME NEW p \in Process, NEW f \in Family, Drop(p, f) PROVE Modifying'
  <2> DEFINE c == [families |-> Without(copy[p].families, f), kept |-> copy[p].kept \ {f},
                   fresh |-> Without(copy[p].fresh, f), done |-> copy[p].done + 1]
  <2>1. Modification(p) /\ SameFamilies /\ copy' = [copy EXCEPT ![p] = c]
    BY <1>10 DEF Drop, SameFamilies
  <2>2. /\ DOMAIN Without(copy[p].families, f) = DOMAIN copy[p].families \ {f}
        /\ DOMAIN Without(copy[p].fresh, f) = DOMAIN copy[p].fresh \ {f}
    BY DEF Without
  <2>3. DOMAIN copy[p].families = copy[p].kept \union DOMAIN copy[p].fresh
    BY <1>A DEF Modifying, FamiliesMatchSchema
  <2>4. DOMAIN c.families = c.kept \union DOMAIN c.fresh /\ c.kept \subseteq copy[p].kept
    BY <2>2, <2>3
  <2> HIDE DEF c
  <2> QED BY <1>B, <2>1, <2>4, CopyStep
<1>11. ASSUME NEW p \in Process, NEW f \in Family, NEW g \in ValidRule,
              NEW merged \in Rule, UpdateRule(p, f, g, merged)
       PROVE  Modifying'
  <2> DEFINE c == [families |-> With(copy[p].families, f, merged),
                   kept |-> copy[p].kept,
                   fresh |-> IF f \in DOMAIN copy[p].fresh
                               THEN With(copy[p].fresh, f, g) ELSE copy[p].fresh,
                   done |-> copy[p].done + 1]
  <2>1. /\ Modification(p) /\ copy' = [copy EXCEPT ![p] = c] /\ pc[p] = "modifying"
        /\ f \in DOMAIN copy[p].families
    BY <1>11 DEF UpdateRule, Modification
  <2>2. /\ DOMAIN With(copy[p].families, f, merged) = DOMAIN copy[p].families \union {f}
        /\ DOMAIN With(copy[p].fresh, f, g) = DOMAIN copy[p].fresh \union {f}
    BY DEF With
  <2>3. DOMAIN copy[p].families = copy[p].kept \union DOMAIN copy[p].fresh
    BY <1>A DEF Modifying, FamiliesMatchSchema
  <2>4. DOMAIN c.families = c.kept \union DOMAIN c.fresh /\ c.kept \subseteq copy[p].kept
    BY <2>1, <2>2, <2>3
  <2>5. SameFamilies
    <3>1. CASE f \notin copy[p].kept
      BY <1>11, <3>1 DEF UpdateRule, SameFamilies
    <3>2. CASE f \in copy[p].kept
      <4>1. f \in DOMAIN Obj(p).running
        BY <1>A, <2>1, <3>2 DEF Modifying, KeptAreRunning
      <4>2. DOMAIN With(Obj(p).running, f, g) = DOMAIN Obj(p).running
        BY <4>1 DEF With
      <4>3. object' = [object EXCEPT ![ptr[p]].running = With(@, f, g)]
        BY <1>11, <3>2 DEF UpdateRule
      <4>4. ptr[p] \in Object /\ object[ptr[p]] # None /\ object[ptr[p]] \in TableObject
        BY <1>A, <2>1, HasTable DEF Obj
      <4> QED BY <1>A, <4>2, <4>3, <4>4 DEF SameFamilies, TypeOK, TableObject, Obj
    <3> QED BY <3>1, <3>2
  <2> HIDE DEF c
  <2> QED BY <1>B, <2>1, <2>4, <2>5, CopyStep
<1>12. ASSUME NEW p \in Process, NEW f \in Family, NEW g \in ValidRule, CreateFamily(p, f, g)
       PROVE  Modifying'
  <2> DEFINE c == [families |-> With(copy[p].families, f, g), kept |-> copy[p].kept,
                   fresh |-> With(copy[p].fresh, f, g), done |-> copy[p].done + 1]
  <2>1. Modification(p) /\ SameFamilies /\ copy' = [copy EXCEPT ![p] = c]
    BY <1>12 DEF CreateFamily, SameFamilies
  <2>2. /\ DOMAIN With(copy[p].families, f, g) = DOMAIN copy[p].families \union {f}
        /\ DOMAIN With(copy[p].fresh, f, g) = DOMAIN copy[p].fresh \union {f}
    BY DEF With
  <2>3. DOMAIN copy[p].families = copy[p].kept \union DOMAIN copy[p].fresh
    BY <1>A DEF Modifying, FamiliesMatchSchema
  <2>4. DOMAIN c.families = c.kept \union DOMAIN c.fresh /\ c.kept \subseteq copy[p].kept
    BY <2>2, <2>3
  <2> HIDE DEF c
  <2> QED BY <1>B, <2>1, <2>4, CopyStep
<1>13. ASSUME NEW p \in Process, RefuseModification(p) PROVE Modifying'
  BY <1>13, <1>B, ReturnStep DEF RefuseModification, Locked
<1>14. ASSUME NEW p \in Process, SwapCopies(p) PROVE Modifying'
  <2> DEFINE t == [name |-> Obj(p).name,
                   schema |-> [Obj(p).schema EXCEPT !.families = copy[p].families],
                   running |-> [f \in copy[p].kept \union DOMAIN copy[p].fresh |->
                                  IF f \in copy[p].kept THEN Obj(p).running[f]
                                                        ELSE copy[p].fresh[f]],
                   cells |-> Obj(p).cells \intersect copy[p].kept]
  <2>1. /\ pc[p] = "modifying" /\ pc' = [pc EXCEPT ![p] = "store"]
        /\ copy' = [copy EXCEPT ![p] = NoCopy] /\ UNCHANGED <<tableMu, ptr>>
        /\ object' = [object EXCEPT ![ptr[p]] = t]
    BY <1>14 DEF SwapCopies, Goto, Obj, mutexes
  <2>2. OthersStay(p) /\ pc'[p] = "store"
    BY <1>A, <2>1 DEF TypeOK, OthersStay
  <2>3. TableMutex'
    BY <1>A, <1>B, <2>1, <2>2, MutexStays DEF Locked
  <2>4. DOMAIN t.running = DOMAIN t.schema.families
    <3>1. t.schema.families = copy[p].families
      BY <1>A, <2>1, HasTable DEF Schema
    <3> QED BY <1>A, <3>1 DEF Modifying, FamiliesMatchSchema
  <2> HIDE DEF t
  <2>5. FamiliesMatchSchema'
    <3>1. \A o \in Object : object'[o] # None =>
             DOMAIN object'[o].running = DOMAIN object'[o].schema.families
      BY <1>A, <2>1, <2>4 DEF TypeOK, Modifying, FamiliesMatchSchema
    <3>2. \A q \in Process :
             DOMAIN copy'[q].families = copy'[q].kept \union DOMAIN copy'[q].fresh
      BY <1>A, <2>1, NoCopyType DEF TypeOK, Modifying, FamiliesMatchSchema
    <3> QED BY <3>1, <3>2 DEF FamiliesMatchSchema
  <2>6. ASSUME NEW q \in Process, pc'[q] = "modifying"
        PROVE  copy'[q].kept \subseteq DOMAIN object'[ptr'[q]].running
    <3>1. q # p /\ pc[q] = "modifying" /\ ptr'[q] = ptr[q] /\ copy'[q] = copy[q]
      BY <2>2, <2>6 DEF OthersStay
    <3>2. ptr[q] # ptr[p] /\ ptr[q] \in Object
      BY <1>A, <2>1, <3>1, OneModifies, HasTable DEF Locked
    <3>3. object'[ptr[q]] = object[ptr[q]]
      BY <1>A, <2>1, <3>2 DEF TypeOK
    <3> QED BY <1>A, <3>1, <3>3 DEF Modifying, KeptAreRunning, Obj
  <2> QED BY <2>3, <2>5, <2>6 DEF Modifying, KeptAreRunning, Obj
<1>15. ASSUME NEW p \in Client, NEW n \in Name, NEW schema \in NewSchema,
              CreateTable(p, n, schema)
       PROVE  Modifying'
  <2>1. p \in Process /\ schema \in Schema /\ pc[p] = "idle" /\ Construct(p, n, schema)
    BY <1>15, CatalogAssumption DEF CreateTable, Accepts, Process
  <2> QED BY <1>B, <2>1, ConstructStep
<1>16. ASSUME NEW p \in Client, NEW n \in Name, NEW op \in {"update", "modify", "write_cell"},
              FindTable(p, n, op)
       PROVE  Modifying'
  <2>1. /\ p \in Process /\ pc[p] = "idle" /\ pc' = [pc EXCEPT ![p] = op]
        /\ ptr' = [ptr EXCEPT ![p] = tables[n]] /\ UNCHANGED <<object, tableMu, copy>>
    BY <1>16 DEF FindTable, Accepts, Goto, Process, memory, mutexes
  <2>2. op \in Label \ Locked
    BY DEF Label, Locked
  <2> QED BY <1>B, <2>1, <2>2, FindStep
<1>17. ASSUME NEW p \in Client, NEW n \in Name, DeleteTable(p, n) PROVE Modifying'
  <2>1. /\ p \in Process /\ pc[p] = "idle" /\ pc' = [pc EXCEPT ![p] = "protected?"]
        /\ ptr' = [ptr EXCEPT ![p] = tables[n]] /\ UNCHANGED <<object, tableMu, copy>>
    BY <1>17 DEF DeleteTable, Accepts, Goto, Process, memory
  <2>2. "protected?" \in Label \ Locked
    BY DEF Label, Locked
  <2> QED BY <1>B, <2>1, <2>2, FindStep
<1>18. ASSUME NEW p \in Process, IsDeleteProtected(p) PROVE Modifying'
  <2>1. CASE Obj(p).schema.deletion_protection
    BY <1>18, <1>B, <2>1, EndStep DEF IsDeleteProtected, Locked
  <2>2. CASE ~Obj(p).schema.deletion_protection
    <3>1. /\ pc[p] = "protected?" /\ pc' = [pc EXCEPT ![p] = "delete"]
          /\ UNCHANGED <<object, tableMu, ptr, copy>>
      BY <1>18, <2>2 DEF IsDeleteProtected, Goto
    <3> QED BY <1>B, <3>1, QuietStep DEF Label, Locked
  <2> QED BY <2>1, <2>2
<1>19. ASSUME NEW p \in Process, DeleteManifestLine(p) PROVE Modifying'
  <2>1. PICK l \in {"drop_families", "erase"} : pc' = [pc EXCEPT ![p] = l]
    BY <1>19 DEF DeleteManifestLine, Goto
  <2>2. pc[p] = "write_manifest" /\ UNCHANGED <<object, tableMu, ptr, copy>>
    BY <1>19 DEF DeleteManifestLine, memory, mutexes
  <2> QED BY <1>B, <2>1, <2>2, QuietStep DEF Label, Locked
<1>20. ASSUME NEW p \in Process, DeleteFamilies(p) PROVE Modifying'
  <2>1. /\ pc[p] = "drop_families" /\ pc' = [pc EXCEPT ![p] = "delete_schema"]
        /\ UNCHANGED <<object, tableMu, ptr, copy>>
    BY <1>20 DEF DeleteFamilies, Goto, memory, mutexes
  <2> QED BY <1>B, <2>1, QuietStep DEF Label, Locked
<1>21. ASSUME NEW p \in Process, DeleteSchemaRow(p) PROVE Modifying'
  <2>1. /\ pc[p] = "delete_schema" /\ pc' = [pc EXCEPT ![p] = "erase"]
        /\ UNCHANGED <<object, tableMu, ptr, copy>>
    BY <1>21 DEF DeleteSchemaRow, Goto, memory, mutexes
  <2> QED BY <1>B, <2>1, QuietStep DEF Label, Locked
<1>22. ASSUME NEW p \in Process, EraseTable(p) PROVE Modifying'
  <2>1. /\ DropPtr(p, tables', object) /\ Goto(p, "idle") /\ UNCHANGED <<tableMu, copy>>
        /\ pc[p] \notin Locked
    BY <1>22 DEF EraseTable, Locked
  <2> QED BY <1>B, <2>1, EndStep
<1>23. ASSUME \/ InitGlobalStorage \/ LoadManifest \/ StartupDone
              \/ \E n \in Name : SkipLine(n)
              \/ UNCHANGED vars
       PROVE  Modifying'
  <2>1. UNCHANGED <<object, tableMu, pc, ptr, copy>>
    BY <1>23 DEF InitGlobalStorage, LoadManifest, StartupDone, SkipLine, memory, mutexes,
                 locals, vars
  <2> QED BY <1>A, <2>1
      DEF Modifying, TableMutex, KeptAreRunning, FamiliesMatchSchema, Obj
<1>24. ASSUME NEW n \in Name, RestoreTable(n) PROVE Modifying'
  <2>1. /\ Main \in Process /\ pc[Main] = "idle" /\ schemaRow[n] \in Schema
        /\ Construct(Main, n, schemaRow[n])
    BY <1>24, <1>A DEF RestoreTable, TakeLine, IsRestorable, Process, TypeOK
  <2> QED BY <1>B, <2>1, ConstructStep
<1>25. CASE Restart
  BY <1>25, NoCopyType
  DEF Restart, Modifying, TableMutex, KeptAreRunning, FamiliesMatchSchema, Locked
<1>26. ASSUME NEW p \in Process,
              \/ ReadManifest(p, "store_new", "write_new", "emplace")
              \/ ReadManifest(p, "store", "write", "skip")
              \/ ReadManifest(p, "delete", "write_manifest", "erase")
       PROVE  Modifying'
  BY <1>1, <1>26 DEF Label, Locked
<1> QED
  BY <1>26, <1>2, <1>3, <1>4, <1>5, <1>6, <1>7, <1>8, <1>9, <1>10, <1>11, <1>12, <1>13, <1>14,
     <1>15, <1>16, <1>17, <1>18, <1>19, <1>20, <1>21, <1>22, <1>23, <1>24, <1>25
  DEF Next, Step, Request, Startup

-----------------------------------------------------------------------------
(* The manifest                                                            *)

LEMMA NoLineTwice ==
    ASSUME IInv, [Next]_vars
    PROVE  ManifestHasNoDuplicates' /\ NoDuplicateIsRead'
<1>A. /\ manifest \in [Name -> Nat] /\ read \in [Process -> [Name -> Nat]]
      /\ \A n \in Name : manifest[n] <= 1
      /\ \A p \in Process, n \in Name : read[p][n] <= 1
  BY DEF IInv, TypeOK, Manifest, ManifestHasNoDuplicates, NoDuplicateIsRead
<1>B. \A n \in Name : NoLines[n] <= 1
  BY DEF NoLines
<1>1. ASSUME NEW p \in Process, NEW from, NEW to, NEW after, ReadManifest(p, from, to, after)
      PROVE  ManifestHasNoDuplicates' /\ NoDuplicateIsRead'
  <2>1. manifest' = manifest /\ (\/ read' = [read EXCEPT ![p] = manifest]
                                \/ read' = [read EXCEPT ![p] = NoLines])
    BY <1>1 DEF ReadManifest, disk
  <2> QED BY <1>A, <1>B, <2>1 DEF ManifestHasNoDuplicates, NoDuplicateIsRead
<1>2. ASSUME NEW p \in Process, PutBatch(p), pc[p] # "idle"
      PROVE  ManifestHasNoDuplicates' /\ NoDuplicateIsRead'
  <2>1. Obj(p).name \in Name
    BY <1>2, HasTable DEF IInv
  <2>2. ManifestHasNoDuplicates'
    <3>1. CASE Present(p)
      BY <1>2, <1>A, <3>1 DEF PutBatch, ManifestHasNoDuplicates
    <3>2. CASE ~Present(p)
      <4>1. read[p][Obj(p).name] = 0
        BY <1>A, <2>1, <3>2 DEF Present
      <4>2. manifest' = [read[p] EXCEPT ![Obj(p).name] = @ + 1]
        BY <1>2, <3>2 DEF PutBatch
      <4>3. ASSUME NEW n \in Name PROVE manifest'[n] <= 1
        <5>1. CASE n = Obj(p).name
          BY <1>A, <2>1, <4>1, <4>2, <5>1
        <5>2. CASE n # Obj(p).name
          BY <1>A, <2>1, <4>2, <5>2
        <5> QED BY <5>1, <5>2
      <4> QED BY <4>3 DEF ManifestHasNoDuplicates
    <3> QED BY <3>1, <3>2
  <2>3. NoDuplicateIsRead'
    BY <1>2, <1>A, <1>B DEF PutBatch, NoDuplicateIsRead
  <2> QED BY <2>2, <2>3
<1>3. ASSUME NEW p \in Process, DeleteManifestLine(p)
      PROVE  ManifestHasNoDuplicates' /\ NoDuplicateIsRead'
  <2>1. NoDuplicateIsRead'
    BY <1>3, <1>A, <1>B DEF DeleteManifestLine, NoDuplicateIsRead
  <2>2. manifest' = manifest \/ manifest' = [read[p] EXCEPT ![Obj(p).name] = 0]
    BY <1>3 DEF DeleteManifestLine
  <2>3. ManifestHasNoDuplicates'
    BY <1>A, <2>2 DEF ManifestHasNoDuplicates
  <2> QED BY <2>1, <2>3
<1>4. ASSUME UNCHANGED manifest,
             read' = read \/ read' = [p \in Process |-> NoLines]
      PROVE  ManifestHasNoDuplicates' /\ NoDuplicateIsRead'
  BY <1>4, <1>A, <1>B DEF ManifestHasNoDuplicates, NoDuplicateIsRead
<1>5. ASSUME NEW p \in Process, StoreNew(p) \/ StoreSchema(p)
      PROVE  PutBatch(p) /\ pc[p] # "idle"
  BY <1>5 DEF StoreNew, StoreSchema
<1>6. ASSUME NEW p \in Process,
             \/ Emplace(p) \/ SkipStore(p) \/ WriteNothing(p) \/ ModifyColumnFamilies(p)
             \/ RefuseUpdate(p) \/ RefuseModification(p) \/ SwapCopies(p) \/ IsDeleteProtected(p)
             \/ DeleteFamilies(p) \/ DeleteSchemaRow(p) \/ EraseTable(p)
             \/ \E request \in Updates : Update(p, request)
             \/ \E f \in Family : WriteCell(p, f) \/ Drop(p, f)
             \/ \E f \in Family, g \in ValidRule, merged \in Rule : UpdateRule(p, f, g, merged)
             \/ \E f \in Family, g \in ValidRule : CreateFamily(p, f, g)
      PROVE  UNCHANGED <<manifest, read>>
  BY <1>6
  DEF Emplace, SkipStore, WriteNothing, RefuseUpdate, ModifyColumnFamilies,
      RefuseModification, SwapCopies, IsDeleteProtected, DeleteFamilies, DeleteSchemaRow,
      EraseTable, Update, WriteCell, Drop, UpdateRule, CreateFamily, Modification, disk
<1>7. ASSUME NEW p \in Client, Request(p) PROVE UNCHANGED <<manifest, read>>
  BY <1>7 DEF Request, CreateTable, Construct, FindTable, DeleteTable, disk
<1>8. ASSUME Startup \/ UNCHANGED vars PROVE UNCHANGED <<manifest, read>>
  BY <1>8 DEF Startup, InitGlobalStorage, LoadManifest, RestoreTable, Construct, SkipLine,
              StartupDone, locals, disk, vars
<1>9. ASSUME Restart PROVE UNCHANGED manifest /\ read' = [p \in Process |-> NoLines]
  BY <1>9 DEF Restart, disk
<1> QED
  BY <1>1, <1>2, <1>3, <1>4, <1>5, <1>6, <1>7, <1>8, <1>9 DEF Next, Step

-----------------------------------------------------------------------------
LEMMA Initially == Init => IInv
<1> SUFFICES ASSUME Init PROVE IInv
  OBVIOUS
<1>1. NoLines \in Manifest /\ \A n \in Name : NoLines[n] <= 1
  BY DEF NoLines, Manifest
<1>2. TypeOK
  BY <1>1, NoCopyType, CatalogAssumption DEF Init, TypeOK, Label
<1>3. NoDanglingTable /\ TableMutex /\ KeptAreRunning /\ FamiliesMatchSchema
  BY NoCopyType
  DEF Init, NoDanglingTable, TableMutex, KeptAreRunning, FamiliesMatchSchema, Locked
<1>4. ManifestHasNoDuplicates /\ NoDuplicateIsRead
  BY <1>1 DEF Init, ManifestHasNoDuplicates, NoDuplicateIsRead
<1> QED BY <1>2, <1>3, <1>4 DEF IInv

LEMMA Invariance == IInv /\ [Next]_vars => IInv'
<1> SUFFICES ASSUME IInv, [Next]_vars PROVE IInv'
  OBVIOUS
<1> QED BY TypesAndPointers, ModifyingIsInvariant, NoLineTwice DEF IInv, Modifying

(* The inductive invariant holds at each step of every execution.          *)
LEMMA Inductive == Spec => []IInv
BY Initially, Invariance, PTL DEF Spec

-----------------------------------------------------------------------------
(* Every variable has its type, and a thread has a Table exactly while it  *)
(* serves a request.                                                       *)
THEOREM TypeCorrect == Spec => []TypeOK
<1>1. IInv => TypeOK
  BY DEF IInv
<1> QED BY <1>1, Inductive, PTL

(* Whatever requests come at once, and wherever the process ends, a Table  *)
(* that the cluster or a request points to exists.                         *)
THEOREM TablesOutliveRequests == Spec => []NoDanglingTable
<1>1. IInv => NoDanglingTable
  BY DEF IInv
<1> QED BY <1>1, Inductive, PTL

(* ModifyColumnFamilies never meets a family without a schema or a schema  *)
(* without its family.                                                     *)
THEOREM SchemaNamesTheFamilies == Spec => []FamiliesMatchSchema
<1>1. IInv => FamiliesMatchSchema
  BY DEF IInv
<1> QED BY <1>1, Inductive, PTL

(* store_schema never writes a second line for a table, also when another  *)
(* thread has written the manifest since it was read.                      *)
THEOREM NoDuplicateLines == Spec => []ManifestHasNoDuplicates
<1>1. IInv => ManifestHasNoDuplicates
  BY DEF IInv
<1> QED BY <1>1, Inductive, PTL

-----------------------------------------------------------------------------
(* The mutexes: who waits, for whom, and for how long                      *)

(* DeleteTable holds Cluster::mu_ from its lookup to its end.              *)
Deleting == {"protected?", "delete", "write_manifest", "drop_families", "delete_schema", "erase"}

(* Nobody but DeleteTable holds it over a step.                            *)
ClusterMutex == \A p \in Process : clusterMu = p <=> pc[p] \in Deleting

(* A step that needs the mutex of the table, to hold it or to pass.        *)
NeedsTable == {"update", "modify", "write_cell", "protected?"}

(* The guards of Step(p): the thread serves a request, and a mutex that    *)
(* its next step needs is free.                                            *)
CanStep(p) ==
    /\ pc[p] # "idle"
    /\ pc[p] = "emplace" => clusterMu = None
    /\ pc[p] \in NeedsTable => tableMu[ptr[p]] = None

WaitsFor(p, q) ==
    \/ pc[p] = "emplace" /\ clusterMu = q
    \/ pc[p] \in NeedsTable /\ tableMu[ptr[p]] = q

(***************************************************************************)
(* A thread that serves a request can go on, or waits for a thread that    *)
(* can, or for a DeleteTable that waits for a thread that can: no two      *)
(* threads wait for each other.                                            *)
(***************************************************************************)
WaitsEnd ==
    \A p \in Process : pc[p] # "idle" =>
        \/ CanStep(p)
        \/ \E q \in Process :
              /\ WaitsFor(p, q)
              /\ CanStep(q) \/ \E r \in Process : WaitsFor(q, r) /\ CanStep(r)

(* The steps that a request takes at most until its thread is idle.        *)
StepsFrom(place, done) ==
    CASE place = "idle" -> 0
      [] place \in {"emplace", "write", "skip", "write_cell", "erase"} -> 1
      [] place \in {"write_new", "store", "delete_schema"} -> 2
      [] place \in {"store_new", "update", "drop_families"} -> 3
      [] place = "modifying" -> 3 + (MaxModifications - done)
      [] place = "write_manifest" -> 4
      [] place = "modify" -> 4 + MaxModifications
      [] place = "delete" -> 5
      [] place = "protected?" -> 6

StepsLeft(p) == StepsFrom(pc[p], copy[p].done)

(***************************************************************************)
(* A step of a request takes it nearer to its end, and no step of another  *)
(* thread sets it back.                                                    *)
(***************************************************************************)
RequestsAdvance ==
    \A p \in Process : Step(p) =>
        /\ StepsLeft(p)' < StepsLeft(p)
        /\ \A q \in Process \ {p} : StepsLeft(q)' = StepsLeft(q)

(* The steps of a request on a table that it has found.                    *)
Using == {"update", "modify", "write_cell"} \union Locked

(* The requests that had found a table before DeleteTable did.             *)
Ahead(o) == {q \in Process : ptr[q] = o /\ pc[q] \in Using}

(***************************************************************************)
(* While DeleteTable waits for a table, or deletes it, no request gets     *)
(* ahead of it.                                                            *)
(***************************************************************************)
NobodyGetsAhead ==
    \A p \in Process :
        clusterMu = p /\ clusterMu' = p => Ahead(ptr[p])' \subseteq Ahead(ptr[p])

(* What a step of a request does to its thread and to Cluster::mu_.        *)
Moves(p) ==
    \E l \in Label :
        /\ pc' = [pc EXCEPT ![p] = l]
        /\ StepsFrom(l, copy'[p].done) < StepsFrom(pc[p], copy[p].done)
        /\ copy' = copy \/ \E c : copy' = [copy EXCEPT ![p] = c]
        /\ l \in Using => pc[p] \in Using
        /\ ptr' = ptr \/ (l = "idle" /\ ptr' = [ptr EXCEPT ![p] = None])
        /\ \/ clusterMu' = clusterMu /\ (pc[p] \in Deleting <=> l \in Deleting)
           \/ clusterMu' = None /\ pc[p] \in Deleting /\ l = "idle"

LEMMA StepCounts ==
    ASSUME NEW d
    PROVE  /\ StepsFrom("idle", d) = 0
           /\ StepsFrom("emplace", d) = 1 /\ StepsFrom("write", d) = 1
           /\ StepsFrom("skip", d) = 1 /\ StepsFrom("write_cell", d) = 1
           /\ StepsFrom("erase", d) = 1
           /\ StepsFrom("write_new", d) = 2 /\ StepsFrom("store", d) = 2
           /\ StepsFrom("delete_schema", d) = 2
           /\ StepsFrom("store_new", d) = 3 /\ StepsFrom("update", d) = 3
           /\ StepsFrom("drop_families", d) = 3
           /\ StepsFrom("modifying", d) = 3 + (MaxModifications - d)
           /\ StepsFrom("write_manifest", d) = 4
           /\ StepsFrom("modify", d) = 4 + MaxModifications
           /\ StepsFrom("delete", d) = 5
           /\ StepsFrom("protected?", d) = 6
BY DEF StepsFrom

LEMMA StepMoves ==
    ASSUME TypeOK, TypeOK', NEW p \in Process, Step(p)
    PROVE  Moves(p)
<1>A. /\ copy[p].done \in 0 .. MaxModifications /\ copy'[p].done \in 0 .. MaxModifications
      /\ MaxModifications \in Nat
      /\ copy \in [Process -> Copy]
  BY CatalogAssumption DEF TypeOK, Copy
<1> DEFINE d == copy[p].done
           e == copy'[p].done
<1>B. d \in 0 .. MaxModifications /\ e \in 0 .. MaxModifications
  BY <1>A
<1> HIDE DEF d, e
(* A step to another place, which keeps the pointer and Cluster::mu_.      *)
<1>C. ASSUME NEW l \in Label, Goto(p, l), UNCHANGED <<ptr, clusterMu>>,
             copy' = copy \/ \E c : copy' = [copy EXCEPT ![p] = c],
             StepsFrom(l, e) < StepsFrom(pc[p], d), l \in Using => pc[p] \in Using,
             pc[p] \in Deleting <=> l \in Deleting
      PROVE  Moves(p)
  BY <1>C DEF Moves, Goto, d, e
(* The end of a request.                                                   *)
<1>D. ASSUME NEW tbls, NEW objs, Goto(p, "idle"), DropPtr(p, tbls, objs),
             copy' = copy \/ \E c : copy' = [copy EXCEPT ![p] = c],
             0 < StepsFrom(pc[p], d),
             \/ clusterMu' = clusterMu /\ pc[p] \notin Deleting
             \/ clusterMu' = None /\ pc[p] \in Deleting
      PROVE  Moves(p)
  <2>1. StepsFrom("idle", e) < StepsFrom(pc[p], d)
    BY <1>D, StepCounts
  <2>2. "idle" \in Label /\ "idle" \notin Using /\ "idle" \notin Deleting
    BY DEF Label, Using, Locked, Deleting
  <2>3. pc' = [pc EXCEPT ![p] = "idle"] /\ ptr' = [ptr EXCEPT ![p] = None]
    BY <1>D DEF Goto, DropPtr
  <2> QED BY <1>D, <2>1, <2>2, <2>3 DEF Moves, d, e
(* A modification stays where it is and is one modification further.       *)
<1>E. ASSUME Modification(p), NEW c, copy' = [copy EXCEPT ![p] = c], c.done = copy[p].done + 1
      PROVE  Moves(p)
  <2>1. pc[p] = "modifying" /\ UNCHANGED <<pc, ptr, clusterMu>> /\ d < MaxModifications
    BY <1>E DEF Modification, mutexes, d
  <2>2. e = d + 1
    BY <1>A, <1>E DEF d, e
  <2>3. d \in Nat /\ MaxModifications - (d + 1) < MaxModifications - d
    BY <1>A, <1>B
  <2>4. StepsFrom("modifying", e) < StepsFrom("modifying", d)
    <3>1. 3 + (MaxModifications - (d + 1)) < 3 + (MaxModifications - d)
      BY <1>A, <2>3
    <3> QED BY <2>2, <3>1, StepCounts
  <2>5. pc' = [pc EXCEPT ![p] = "modifying"] /\ "modifying" \in Label
    BY <2>1 DEF TypeOK, Label
  <2> QED BY <1>E, <2>1, <2>4, <2>5 DEF Moves, d, e
<1>1. ASSUME NEW from \in Label, NEW to \in Label, NEW after \in Label,
             ReadManifest(p, from, to, after),
             StepsFrom(to, e) < StepsFrom(from, d), StepsFrom(after, e) < StepsFrom(from, d),
             to \in Using => from \in Using, after \in Using => from \in Using,
             from \in Deleting <=> to \in Deleting, from \in Deleting <=> after \in Deleting
      PROVE  Moves(p)
  <2>1. PICK l \in {to, after} : Goto(p, l)
    BY <1>1 DEF ReadManifest, Goto
  <2>2. pc[p] = from /\ UNCHANGED <<ptr, clusterMu, copy>>
    BY <1>1 DEF ReadManifest, mutexes
  <2> QED BY <1>1, <1>C, <2>1, <2>2
<1>2. CASE ReadManifest(p, "store_new", "write_new", "emplace")
  <2>1. /\ StepsFrom("write_new", e) < StepsFrom("store_new", d)
        /\ StepsFrom("emplace", e) < StepsFrom("store_new", d)
    BY StepCounts
  <2> QED BY <1>1, <1>2, <2>1 DEF Label, Using, Locked, Deleting
<1>3. CASE StoreNew(p)
  <2>1. /\ pc[p] = "write_new" /\ Goto(p, "emplace") /\ UNCHANGED <<ptr, clusterMu, copy>>
    BY <1>3 DEF StoreNew, mutexes
  <2>2. StepsFrom("emplace", e) < StepsFrom("write_new", d)
    BY StepCounts
  <2> QED BY <1>C, <2>1, <2>2 DEF Label, Using, Locked, Deleting
<1>4. CASE Emplace(p)
  <2>1. /\ pc[p] = "emplace" /\ Goto(p, "idle") /\ DropPtr(p, tables', object)
        /\ UNCHANGED <<clusterMu, copy>>
    BY <1>4 DEF Emplace, mutexes
  <2>2. 0 < StepsFrom("emplace", d)
    BY StepCounts
  <2> QED BY <1>D, <2>1, <2>2 DEF Deleting
<1>5. ASSUME NEW request \in Updates, Update(p, request) PROVE Moves(p)
  <2>1. pc[p] = "update" /\ Goto(p, "store") /\ UNCHANGED <<ptr, clusterMu, copy>>
    BY <1>5 DEF Update
  <2>2. StepsFrom("store", e) < StepsFrom("update", d)
    BY StepCounts
  <2> QED BY <1>C, <2>1, <2>2 DEF Label, Using, Locked, Deleting
<1>6. CASE ReadManifest(p, "store", "write", "skip")
  <2>1. /\ StepsFrom("write", e) < StepsFrom("store", d)
        /\ StepsFrom("skip", e) < StepsFrom("store", d)
    BY StepCounts
  <2> QED BY <1>1, <1>6, <2>1 DEF Label, Using, Locked, Deleting
<1>7. CASE StoreSchema(p) \/ SkipStore(p)
  <2>1. /\ pc[p] \in {"write", "skip"} /\ Goto(p, "idle") /\ DropPtr(p, tables, object)
        /\ UNCHANGED <<clusterMu, copy>>
    BY <1>7 DEF StoreSchema, SkipStore, Return
  <2>2. 0 < StepsFrom(pc[p], d)
    BY <2>1, StepCounts
  <2> QED BY <1>D, <2>1, <2>2 DEF Deleting
<1>8. ASSUME NEW f \in Family, WriteCell(p, f) PROVE Moves(p)
  <2>1. /\ pc[p] = "write_cell" /\ Goto(p, "idle")
        /\ DropPtr(p, tables, [object EXCEPT ![ptr[p]].cells = @ \union {f}])
        /\ UNCHANGED <<clusterMu, copy>>
    BY <1>8 DEF WriteCell, mutexes
  <2>2. 0 < StepsFrom("write_cell", d)
    BY StepCounts
  <2> QED BY <1>D, <2>1, <2>2 DEF Deleting
<1>9. CASE WriteNothing(p) \/ RefuseUpdate(p)
  <2>1. /\ pc[p] \in {"write_cell", "update"} /\ Goto(p, "idle") /\ DropPtr(p, tables, object)
        /\ UNCHANGED <<clusterMu, copy>>
    BY <1>9 DEF WriteNothing, RefuseUpdate, mutexes
  <2>2. 0 < StepsFrom(pc[p], d)
    BY <2>1, StepCounts
  <2> QED BY <1>D, <2>1, <2>2 DEF Deleting
<1>10. CASE ModifyColumnFamilies(p)
  <2> DEFINE c == [families |-> Obj(p).schema.families, kept |-> DOMAIN Obj(p).running,
                   fresh |-> << >>, done |-> 0]
  <2>1. /\ pc[p] = "modify" /\ Goto(p, "modifying") /\ UNCHANGED <<ptr, clusterMu>>
        /\ copy' = [copy EXCEPT ![p] = c]
    BY <1>10 DEF ModifyColumnFamilies
  <2>2. 3 + (MaxModifications - e) < 4 + MaxModifications
    BY <1>A, <1>B
  <2>3. StepsFrom("modifying", e) < StepsFrom("modify", d)
    BY <2>2, StepCounts
  <2> QED BY <1>C, <2>1, <2>3 DEF Label, Using, Locked, Deleting
<1>11. ASSUME NEW f \in Family, Drop(p, f) PROVE Moves(p)
  BY <1>11, <1>E DEF Drop
<1>12. ASSUME NEW f \in Family, NEW g \in ValidRule, NEW merged \in Rule,
              UpdateRule(p, f, g, merged)
       PROVE  Moves(p)
  <2> DEFINE c == [families |-> With(copy[p].families, f, merged),
                   kept |-> copy[p].kept,
                   fresh |-> IF f \in DOMAIN copy[p].fresh THEN With(copy[p].fresh, f, g)
                                                           ELSE copy[p].fresh,
                   done |-> copy[p].done + 1]
  <2>1. Modification(p) /\ copy' = [copy EXCEPT ![p] = c]
    BY <1>12, <1>A DEF UpdateRule
  <2>2. c.done = copy[p].done + 1
    OBVIOUS
  <2> HIDE DEF c
  <2> QED BY <1>E, <2>1, <2>2
<1>13. ASSUME NEW f \in Family, NEW g \in ValidRule, CreateFamily(p, f, g) PROVE Moves(p)
  BY <1>13, <1>E DEF CreateFamily
<1>14. 2 < 3 + (MaxModifications - d) /\ 0 < 3 + (MaxModifications - d)
  BY <1>A, <1>B
<1>15. CASE RefuseModification(p)
  <2>1. /\ pc[p] = "modifying" /\ Goto(p, "idle") /\ DropPtr(p, tables, object)
        /\ clusterMu' = clusterMu /\ copy' = [copy EXCEPT ![p] = NoCopy]
    BY <1>15 DEF RefuseModification, Return
  <2>2. 0 < StepsFrom("modifying", d)
    BY <1>14, StepCounts
  <2> QED BY <1>D, <2>1, <2>2 DEF Deleting
<1>16. CASE SwapCopies(p)
  <2>1. /\ pc[p] = "modifying" /\ Goto(p, "store") /\ UNCHANGED <<ptr, clusterMu>>
        /\ copy' = [copy EXCEPT ![p] = NoCopy]
    BY <1>16 DEF SwapCopies, mutexes
  <2>2. StepsFrom("store", e) < StepsFrom("modifying", d)
    BY <1>14, StepCounts
  <2> QED BY <1>C, <2>1, <2>2 DEF Label, Using, Locked, Deleting
<1>17. CASE IsDeleteProtected(p)
  <2>1. pc[p] = "protected?" /\ copy' = copy
    BY <1>17 DEF IsDeleteProtected
  <2>2. CASE Obj(p).schema.deletion_protection
    <3>1. clusterMu' = None /\ DropPtr(p, tables, object) /\ Goto(p, "idle")
      BY <1>17, <2>2 DEF IsDeleteProtected
    <3>2. 0 < StepsFrom("protected?", d)
      BY StepCounts
    <3> QED BY <1>D, <2>1, <3>1, <3>2 DEF Deleting
  <2>3. CASE ~Obj(p).schema.deletion_protection
    <3>1. Goto(p, "delete") /\ UNCHANGED <<clusterMu, ptr>>
      BY <1>17, <2>3 DEF IsDeleteProtected
    <3>2. StepsFrom("delete", e) < StepsFrom("protected?", d)
      BY StepCounts
    <3> QED BY <1>C, <2>1, <3>1, <3>2 DEF Label, Using, Locked, Deleting
  <2> QED BY <2>2, <2>3
<1>18. CASE ReadManifest(p, "delete", "write_manifest", "erase")
  <2>1. /\ StepsFrom("write_manifest", e) < StepsFrom("delete", d)
        /\ StepsFrom("erase", e) < StepsFrom("delete", d)
    BY StepCounts
  <2> QED BY <1>1, <1>18, <2>1 DEF Label, Using, Locked, Deleting
<1>19. CASE DeleteManifestLine(p)
  <2>1. PICK l \in {"drop_families", "erase"} : Goto(p, l)
    BY <1>19 DEF DeleteManifestLine
  <2>2. pc[p] = "write_manifest" /\ UNCHANGED <<ptr, clusterMu, copy>>
    BY <1>19 DEF DeleteManifestLine, mutexes
  <2>3. StepsFrom(l, e) < StepsFrom("write_manifest", d)
    BY StepCounts
  <2> QED BY <1>C, <2>1, <2>2, <2>3 DEF Label, Using, Locked, Deleting
<1>20. CASE DeleteFamilies(p)
  <2>1. pc[p] = "drop_families" /\ Goto(p, "delete_schema") /\ UNCHANGED <<ptr, clusterMu, copy>>
    BY <1>20 DEF DeleteFamilies, mutexes
  <2>2. StepsFrom("delete_schema", e) < StepsFrom("drop_families", d)
    BY StepCounts
  <2> QED BY <1>C, <2>1, <2>2 DEF Label, Using, Locked, Deleting
<1>21. CASE DeleteSchemaRow(p)
  <2>1. pc[p] = "delete_schema" /\ Goto(p, "erase") /\ UNCHANGED <<ptr, clusterMu, copy>>
    BY <1>21 DEF DeleteSchemaRow, mutexes
  <2>2. StepsFrom("erase", e) < StepsFrom("delete_schema", d)
    BY StepCounts
  <2> QED BY <1>C, <2>1, <2>2 DEF Label, Using, Locked, Deleting
<1>22. CASE EraseTable(p)
  <2>1. /\ pc[p] = "erase" /\ Goto(p, "idle") /\ DropPtr(p, tables', object)
        /\ clusterMu' = None /\ copy' = copy
    BY <1>22 DEF EraseTable
  <2>2. 0 < StepsFrom("erase", d)
    BY StepCounts
  <2> QED BY <1>D, <2>1, <2>2 DEF Deleting
<1> QED
  BY <1>2, <1>3, <1>4, <1>5, <1>6, <1>7, <1>8, <1>9, <1>10, <1>11, <1>12, <1>13, <1>15, <1>16,
     <1>17, <1>18, <1>19, <1>20, <1>21, <1>22 DEF Step

(* What the construction of a Table does to them.                          *)
LEMMA ConstructMoves ==
    ASSUME TypeOK, NEW p \in Process, NEW n, NEW schema, pc[p] = "idle", Construct(p, n, schema)
    PROVE  /\ pc' = [pc EXCEPT ![p] = "store_new"] /\ clusterMu' = clusterMu
           /\ \E o : ptr' = [ptr EXCEPT ![p] = o]
BY DEF Construct, Goto, mutexes

LEMMA ClusterMutexIsInvariant ==
    ASSUME TypeOK, TypeOK', ClusterMutex, [Next]_vars
    PROVE  ClusterMutex'
<1>A. None \notin Process /\ pc \in [Process -> Label]
  BY CatalogAssumption DEF TypeOK
<1>1. ASSUME NEW p \in Process, NEW l \in Label, pc' = [pc EXCEPT ![p] = l],
             clusterMu' = clusterMu, pc[p] \in Deleting <=> l \in Deleting
      PROVE  ClusterMutex'
  BY <1>A, <1>1 DEF ClusterMutex
<1>2. ASSUME NEW p \in Process, pc' = [pc EXCEPT ![p] = "idle"],
             clusterMu' = None, pc[p] \in Deleting
      PROVE  ClusterMutex'
  BY <1>A, <1>2 DEF ClusterMutex, Deleting
<1>3. ASSUME NEW p \in Process, Step(p) PROVE ClusterMutex'
  BY <1>1, <1>2, <1>3, StepMoves DEF Moves
<1>4. ASSUME NEW p \in Process, NEW n, NEW schema, pc[p] = "idle", Construct(p, n, schema)
      PROVE  ClusterMutex'
  BY <1>1, <1>4, ConstructMoves DEF Label, Deleting
<1>5. ASSUME NEW p \in Client, Request(p) PROVE ClusterMutex'
  <2>1. p \in Process
    BY DEF Process
  <2>2. ASSUME NEW n \in Name, NEW schema \in NewSchema, CreateTable(p, n, schema)
        PROVE  ClusterMutex'
    BY <1>4, <2>1, <2>2 DEF CreateTable, Accepts
  <2>3. ASSUME NEW n \in Name, NEW op \in {"update", "modify", "write_cell"},
               FindTable(p, n, op)
        PROVE  ClusterMutex'
    <3>1. pc[p] = "idle" /\ pc' = [pc EXCEPT ![p] = op] /\ clusterMu' = clusterMu
      BY <2>3 DEF FindTable, Accepts, Goto, mutexes
    <3> QED BY <1>1, <2>1, <3>1 DEF Label, Deleting
  <2>4. ASSUME NEW n \in Name, DeleteTable(p, n) PROVE ClusterMutex'
    <3>1. /\ pc' = [pc EXCEPT ![p] = "protected?"]
          /\ clusterMu = None /\ clusterMu' = p
      BY <2>4 DEF DeleteTable, Goto
    <3> QED BY <1>A, <2>1, <3>1 DEF ClusterMutex, Deleting
  <2> QED BY <1>5, <2>2, <2>3, <2>4 DEF Request
<1>6. CASE InitGlobalStorage \/ LoadManifest \/ StartupDone \/ UNCHANGED vars
           \/ \E n \in Name : SkipLine(n)
  <2>1. UNCHANGED <<pc, clusterMu>>
    BY <1>6 DEF InitGlobalStorage, LoadManifest, StartupDone, SkipLine, mutexes, locals, vars
  <2> QED BY <2>1 DEF ClusterMutex
<1>7. ASSUME NEW n \in Name, RestoreTable(n) PROVE ClusterMutex'
  BY <1>4, <1>7 DEF RestoreTable, TakeLine, Process
<1>8. CASE Restart
  BY <1>A, <1>8 DEF Restart, ClusterMutex, Deleting
<1> QED BY <1>3, <1>5, <1>6, <1>7, <1>8 DEF Next, Startup

LEMMA MutexesInductive == Spec => [](IInv /\ ClusterMutex)
<1>1. Init => IInv /\ ClusterMutex
  <2>1. Init => ClusterMutex
    BY CatalogAssumption DEF Init, ClusterMutex, Deleting
  <2> QED BY <2>1, Initially
<1>2. IInv /\ ClusterMutex /\ [Next]_vars => (IInv /\ ClusterMutex)'
  <2> SUFFICES ASSUME IInv, ClusterMutex, [Next]_vars PROVE IInv' /\ ClusterMutex'
    OBVIOUS
  <2>1. IInv'
    BY Invariance
  <2>2. TypeOK /\ TypeOK'
    BY <2>1 DEF IInv
  <2> QED BY <2>1, <2>2, ClusterMutexIsInvariant
<1> QED BY <1>1, <1>2, PTL DEF Spec

(* Requests and DeleteTable wait for the mutexes of tables, and all of     *)
(* them for Cluster::mu_, but never in a circle: there is no deadlock.     *)
THEOREM NoDeadlock == Spec => []WaitsEnd
<1>1. ASSUME IInv, ClusterMutex PROVE WaitsEnd
  <2>A. /\ TypeOK /\ TableMutex /\ None \notin Process
        /\ clusterMu \in Process \union {None} /\ tableMu \in [Object -> Process \union {None}]
    BY <1>1, CatalogAssumption DEF IInv, TypeOK
  <2>1. ASSUME NEW p \in Process, pc[p] \in NeedsTable, tableMu[ptr[p]] # None
        PROVE  \E q \in Process : WaitsFor(p, q) /\ CanStep(q)
    <3>1. ptr[p] \in Object
      BY <2>A, <2>1, CatalogAssumption DEF TypeOK, NeedsTable
    <3>2. tableMu[ptr[p]] \in Process /\ pc[tableMu[ptr[p]]] \in Locked
      BY <2>A, <2>1, <3>1 DEF TableMutex
    <3>3. CanStep(tableMu[ptr[p]])
      BY <3>2 DEF CanStep, Locked, NeedsTable
    <3> QED BY <2>1, <3>2, <3>3 DEF WaitsFor
  <2>2. ASSUME NEW p \in Process, pc[p] = "emplace", clusterMu # None
        PROVE  \E q \in Process :
                  /\ WaitsFor(p, q)
                  /\ CanStep(q) \/ \E r \in Process : WaitsFor(q, r) /\ CanStep(r)
    <3>1. clusterMu \in Process /\ pc[clusterMu] \in Deleting
      BY <1>1, <2>A, <2>2 DEF ClusterMutex
    <3>2. CASE CanStep(clusterMu)
      BY <2>2, <3>1, <3>2 DEF WaitsFor
    <3>3. CASE ~CanStep(clusterMu)
      <4>1. pc[clusterMu] \in NeedsTable /\ tableMu[ptr[clusterMu]] # None
        BY <3>1, <3>3 DEF CanStep, Deleting
      <4>2. \E r \in Process : WaitsFor(clusterMu, r) /\ CanStep(r)
        BY <2>1, <3>1, <4>1
      <4> QED BY <2>2, <3>1, <4>2 DEF WaitsFor
    <3> QED BY <3>2, <3>3
  <2>3. ASSUME NEW p \in Process, pc[p] # "idle", ~CanStep(p)
        PROVE  \/ pc[p] \in NeedsTable /\ tableMu[ptr[p]] # None
               \/ pc[p] = "emplace" /\ clusterMu # None
    BY <2>3 DEF CanStep
  <2> QED BY <2>1, <2>2, <2>3 DEF WaitsEnd
<1> QED BY <1>1, MutexesInductive, PTL

(* A request ends after boundedly many steps of its own, however the steps *)
(* of other threads fall in between.                                       *)
THEOREM RequestsAreShort == Spec => [][RequestsAdvance]_vars
<1>1. ASSUME TypeOK, TypeOK' PROVE RequestsAdvance
  <2> SUFFICES ASSUME NEW p \in Process, Step(p)
               PROVE  /\ StepsLeft(p)' < StepsLeft(p)
                      /\ \A q \in Process \ {p} : StepsLeft(q)' = StepsLeft(q)
    BY DEF RequestsAdvance
  <2>1. PICK l \in Label :
           /\ pc' = [pc EXCEPT ![p] = l]
           /\ StepsFrom(l, copy'[p].done) < StepsFrom(pc[p], copy[p].done)
           /\ copy' = copy \/ \E c : copy' = [copy EXCEPT ![p] = c]
    BY <1>1, StepMoves DEF Moves
  <2>2. pc'[p] = l /\ \A q \in Process \ {p} : pc'[q] = pc[q] /\ copy'[q] = copy[q]
    BY <1>1, <2>1 DEF TypeOK
  <2> QED BY <2>1, <2>2 DEF StepsLeft
<1>2. IInv => TypeOK
  BY DEF IInv
<1>3. TypeOK /\ TypeOK' /\ [Next]_vars => [RequestsAdvance]_vars
  BY <1>1
<1> QED BY <1>2, <1>3, Inductive, PTL DEF Spec

(* The requests that DeleteTable waits for are those that had found the    *)
(* table before: as long as it holds Cluster::mu_ they only grow fewer.    *)
THEOREM DeletionIsNotOvertaken == Spec => [][NobodyGetsAhead]_vars
<1>1. ASSUME TypeOK, TypeOK', ClusterMutex, ClusterMutex', Next
      PROVE  NobodyGetsAhead
  <2>A. None \notin Process /\ pc \in [Process -> Label] /\ ptr \in [Process -> Object \union {None}]
    BY <1>1, CatalogAssumption DEF TypeOK
  <2> SUFFICES ASSUME NEW p \in Process, clusterMu = p, clusterMu' = p
               PROVE  Ahead(ptr[p])' \subseteq Ahead(ptr[p])
    BY DEF NobodyGetsAhead
  <2>B. pc[p] \in Deleting /\ pc'[p] \in Deleting
    BY <1>1 DEF ClusterMutex
  <2>1. ASSUME NEW q \in Process, NEW l, pc' = [pc EXCEPT ![q] = l],
               l \in Using => pc[q] \in Using,
               ptr' = ptr \/ (l \notin Using \union Deleting /\ \E o : ptr' = [ptr EXCEPT ![q] = o])
        PROVE  Ahead(ptr[p])' \subseteq Ahead(ptr[p])
    <3>1. ptr'[p] = ptr[p]
      BY <2>A, <2>B, <2>1
    <3>2. ASSUME NEW r \in Process, ptr'[r] = ptr'[p], pc'[r] \in Using
          PROVE  ptr[r] = ptr[p] /\ pc[r] \in Using
      BY <2>A, <2>1, <3>1, <3>2
    <3> QED BY <3>2 DEF Ahead
  <2>2. ASSUME NEW q \in Process, Step(q) PROVE Ahead(ptr[p])' \subseteq Ahead(ptr[p])
    <3>1. "idle" \notin Using \union Deleting
      BY DEF Using, Deleting, Locked
    <3> QED BY <1>1, <2>1, <2>2, <3>1, StepMoves DEF Moves
  <2>3. ASSUME NEW q \in Process, NEW n, NEW schema, pc[q] = "idle", Construct(q, n, schema)
        PROVE  Ahead(ptr[p])' \subseteq Ahead(ptr[p])
    <3>1. "store_new" \notin Using \union Deleting
      BY DEF Using, Deleting, Locked
    <3> QED BY <1>1, <2>1, <2>3, <3>1, ConstructMoves
  <2>4. ASSUME NEW q \in Client, Request(q) PROVE Ahead(ptr[p])' \subseteq Ahead(ptr[p])
    <3>1. PICK n \in Name, schema \in NewSchema : CreateTable(q, n, schema)
      BY <2>A, <2>4 DEF Request, FindTable, DeleteTable
    <3> QED BY <2>3, <3>1 DEF CreateTable, Accepts, Process
  <2>5. CASE InitGlobalStorage \/ LoadManifest \/ StartupDone \/ \E n \in Name : SkipLine(n)
    <3>1. UNCHANGED <<pc, ptr>>
      BY <2>5 DEF InitGlobalStorage, LoadManifest, StartupDone, SkipLine, locals
    <3> QED BY <3>1 DEF Ahead
  <2>6. ASSUME NEW n \in Name, RestoreTable(n) PROVE Ahead(ptr[p])' \subseteq Ahead(ptr[p])
    BY <2>3, <2>6 DEF RestoreTable, TakeLine, Process
  <2>7. ~Restart
    BY <2>A DEF Restart
  <2> QED BY <1>1, <2>2, <2>4, <2>5, <2>6, <2>7 DEF Next, Startup
<1>2. IInv => TypeOK
  BY DEF IInv
<1>3. TypeOK /\ TypeOK' /\ ClusterMutex /\ ClusterMutex' /\ [Next]_vars => [NobodyGetsAhead]_vars
  BY <1>1
<1> QED BY <1>2, <1>3, MutexesInductive, PTL DEF Spec

-----------------------------------------------------------------------------
(* Requests that come one at a time, after the startup                     *)

OneAtATime == ~EarlyRequests /\ \A c \in Client, d \in Client : c = d

(* The steps of a request that creates a table, and of main() restoring one. *)
Creating == {"store_new", "write_new", "emplace"}

(* Clients are served after the startup; before, main() is alone.          *)
Turns ==
    /\ phase # "serving" => \A c \in Client : pc[c] = "idle"
    /\ phase # "restoring" => pc[Main] = "idle"
    /\ phase \in {"closed", "open"} => \A n \in Name : tables[n] = None
    /\ pc[Main] \in {"idle"} \union Creating

(* The table of a request on an existing table is still in the cluster.    *)
TableIsListed ==
    \A p \in Process : pc[p] \notin {"idle"} \union Creating => tables[Obj(p).name] = ptr[p]

(* Nobody has written the manifest since it was read.                      *)
ReadIsCurrent ==
    \A p \in Process : pc[p] \in {"write_new", "write", "write_manifest"} => read[p] = manifest

At(n, places) == \E p \in Process : pc[p] \in places /\ Obj(p).name = n

(* The table is in the manifest and may still come into the cluster.       *)
Expected(n) ==
    \/ phase = "restoring" /\ lines[n] > 0
    \/ pc[Main] # "idle" /\ Obj(Main).name = n
    \/ At(n, {"emplace"})

Deleted(n) == At(n, {"drop_families", "delete_schema", "erase"})

(***************************************************************************)
(* What the manifest lists, in every step of a request.  A table that is   *)
(* listed and not in the cluster is still to come, or has been passed over *)
(* because Construct refuses its schema.                                   *)
(***************************************************************************)
Listing ==
    \A n \in Name :
        /\ manifest[n] > 0 => schemaRow[n] # None
        /\ Deleted(n) => manifest[n] = 0
        /\ phase \in {"restoring", "serving"} /\ ~Deleted(n) =>
              /\ tables[n] # None \/ Expected(n) => manifest[n] > 0
              /\ manifest[n] > 0 =>
                    tables[n] # None \/ Expected(n) \/ ~Constructible(schemaRow[n])

(* What the rows of the tables are, in every step of a request.            *)
Rows ==
    /\ \A n \in Name :
          tables[n] # None /\ n \notin stale /\ ~At(n, {"store", "write", "emplace", "erase"}) =>
              schemaRow[n] = object[tables[n]].schema
    /\ \A p \in Process :
          /\ pc[p] = "emplace" => schemaRow[Obj(p).name] = Obj(p).schema
          /\ pc[p] = "erase" => schemaRow[Obj(p).name] = None
          /\ pc[p] \in {"delete_schema", "erase"} => \A f \in Family : <<Obj(p).name, f>> \notin cfs

SequentialInv ==
    /\ IInv
    /\ Turns
    /\ TableIsListed
    /\ ReadIsCurrent
    /\ Listing
    /\ Rows

(* The same, when p is the only thread that may be serving a request.      *)
Attached(p, n) ==
    \/ tables[n] # None
    \/ phase = "restoring" /\ lines[n] > 0
    \/ p = Main /\ pc[p] # "idle" /\ Obj(p).name = n
    \/ pc[p] = "emplace" /\ Obj(p).name = n

Local(p) ==
    /\ pc[p] \notin {"idle"} \union Creating => tables[Obj(p).name] = ptr[p]
    /\ pc[p] \in {"write_new", "write", "write_manifest"} => read[p] = manifest
    /\ \A n \in Name : manifest[n] > 0 => schemaRow[n] # None
    /\ pc[p] \in {"drop_families", "delete_schema", "erase"} => manifest[Obj(p).name] = 0
    /\ phase \in {"restoring", "serving"} =>
          \A n \in Name :
             \/ pc[p] \in {"drop_families", "delete_schema", "erase"} /\ Obj(p).name = n
             \/ /\ Attached(p, n) => manifest[n] > 0
                /\ manifest[n] > 0 => Attached(p, n) \/ ~Constructible(schemaRow[n])
    /\ \A n \in Name :
          \/ tables[n] = None
          \/ n \in stale
          \/ pc[p] \in {"store", "write", "emplace", "erase"} /\ Obj(p).name = n
          \/ schemaRow[n] = object[tables[n]].schema
    /\ pc[p] = "emplace" => schemaRow[Obj(p).name] = Obj(p).schema
    /\ pc[p] = "erase" => schemaRow[Obj(p).name] = None
    /\ pc[p] \in {"delete_schema", "erase"} => \A f \in Family : <<Obj(p).name, f>> \notin cfs

LEMMA LocalSuffices ==
    ASSUME NEW p \in Process, \A q \in Process : q # p => pc[q] = "idle",
           pc[p] # "idle" => Obj(p).name \in Name
    PROVE  TableIsListed /\ ReadIsCurrent /\ Listing /\ Rows <=> Local(p)
<1>A. Main \in Process
  BY DEF Process
<1>1. ASSUME NEW n, NEW places, "idle" \notin places
      PROVE  At(n, places) <=> pc[p] \in places /\ Obj(p).name = n
  BY <1>1 DEF At
<1>2. \A n : /\ Deleted(n) <=> /\ pc[p] \in {"drop_families", "delete_schema", "erase"}
                               /\ Obj(p).name = n
             /\ Expected(n) <=> \/ phase = "restoring" /\ lines[n] > 0
                                \/ p = Main /\ pc[p] # "idle" /\ Obj(p).name = n
                                \/ pc[p] = "emplace" /\ Obj(p).name = n
  BY <1>A, <1>1 DEF Deleted, Expected
<1>3. \A n : At(n, {"store", "write", "emplace", "erase"})
               <=> pc[p] \in {"store", "write", "emplace", "erase"} /\ Obj(p).name = n
  BY <1>1
<1>4. TableIsListed /\ ReadIsCurrent
         <=> /\ pc[p] \notin {"idle"} \union Creating => tables[Obj(p).name] = ptr[p]
             /\ pc[p] \in {"write_new", "write", "write_manifest"} => read[p] = manifest
  BY DEF TableIsListed, ReadIsCurrent, Creating
<1>5. Rows
         <=> /\ \A n \in Name :
                   \/ tables[n] = None
                   \/ n \in stale
                   \/ pc[p] \in {"store", "write", "emplace", "erase"} /\ Obj(p).name = n
                   \/ schemaRow[n] = object[tables[n]].schema
             /\ pc[p] = "emplace" => schemaRow[Obj(p).name] = Obj(p).schema
             /\ pc[p] = "erase" => schemaRow[Obj(p).name] = None
             /\ pc[p] \in {"delete_schema", "erase"} =>
                   \A f \in Family : <<Obj(p).name, f>> \notin cfs
  BY <1>3 DEF Rows
<1>6. Listing
         <=> /\ \A n \in Name : manifest[n] > 0 => schemaRow[n] # None
             /\ pc[p] \in {"drop_families", "delete_schema", "erase"} => manifest[Obj(p).name] = 0
             /\ phase \in {"restoring", "serving"} =>
                   \A n \in Name :
                      \/ pc[p] \in {"drop_families", "delete_schema", "erase"} /\ Obj(p).name = n
                      \/ /\ Attached(p, n) => manifest[n] > 0
                         /\ manifest[n] > 0 => Attached(p, n) \/ ~Constructible(schemaRow[n])
  <2> DEFINE D(n) == pc[p] \in {"drop_families", "delete_schema", "erase"} /\ Obj(p).name = n
             E(n) == \/ phase = "restoring" /\ lines[n] > 0
                     \/ p = Main /\ pc[p] # "idle" /\ Obj(p).name = n
                     \/ pc[p] = "emplace" /\ Obj(p).name = n
  <2>1. \A n : (Deleted(n) <=> D(n)) /\ (Expected(n) <=> E(n))
    BY <1>2
  <2>2. Listing
           <=> \A n \in Name :
                 /\ manifest[n] > 0 => schemaRow[n] # None
                 /\ D(n) => manifest[n] = 0
                 /\ phase \in {"restoring", "serving"} /\ ~D(n) =>
                       /\ tables[n] # None \/ E(n) => manifest[n] > 0
                       /\ manifest[n] > 0 =>
                             tables[n] # None \/ E(n) \/ ~Constructible(schemaRow[n])
    <3> HIDE DEF D, E
    <3> QED BY <2>1 DEF Listing
  <2>3. (\A n \in Name : D(n) => manifest[n] = 0)
           <=> (pc[p] \in {"drop_families", "delete_schema", "erase"} => manifest[Obj(p).name] = 0)
    OBVIOUS
  <2>4. \A n : Attached(p, n) <=> tables[n] # None \/ E(n)
    BY DEF Attached
  <2> QED BY <2>2, <2>3, <2>4
<1> QED BY <1>4, <1>5, <1>6 DEF Local

LocalIsEnough ==
    \A p \in Process :
       /\ \A q \in Process : q # p => pc[q] = "idle"
       /\ pc[p] # "idle" => Obj(p).name \in Name
       => (TableIsListed /\ ReadIsCurrent /\ Listing /\ Rows <=> Local(p))

(* It is so before and after every step.                                   *)
LEMMA LocalIsEnoughNow == LocalIsEnough
BY LocalSuffices DEF LocalIsEnough

LEMMA LocalIsEnoughNext == LocalIsEnough'
BY LocalIsEnoughNow, PTL

LEMMA Alone ==
    ASSUME OneAtATime, SequentialInv, NEW p \in Process, pc[p] # "idle"
    PROVE  /\ \A q \in Process : q # p => pc[q] = "idle"
           /\ \/ phase = "restoring" /\ p = Main /\ pc[p] \in Creating
              \/ phase = "serving" /\ p # Main
           /\ Local(p)
           /\ Obj(p).name \in Name
<1>A. Obj(p).name \in Name
  BY HasTable DEF SequentialInv, IInv
<1>B. (\A q \in Process : q # p => pc[q] = "idle") => Local(p)
  BY <1>A, LocalIsEnoughNow DEF SequentialInv, LocalIsEnough
<1>1. CASE p = Main
  <2>1. phase = "restoring" /\ pc[p] \in Creating
    BY <1>1 DEF SequentialInv, Turns
  <2>2. \A q \in Process : q # p => pc[q] = "idle"
    BY <1>1, <2>1 DEF SequentialInv, Turns, Process
  <2> QED BY <1>A, <1>B, <1>1, <2>1, <2>2
<1>2. CASE p # Main
  <2>1. p \in Client /\ phase = "serving"
    BY <1>2 DEF SequentialInv, Turns, Process
  <2>2. pc[Main] = "idle"
    BY <2>1 DEF SequentialInv, Turns
  <2>3. \A q \in Process : q # p => pc[q] = "idle"
    BY <2>1, <2>2 DEF OneAtATime, Process
  <2> QED BY <1>A, <1>B, <1>2, <2>1, <2>3
<1> QED BY <1>1, <1>2

LEMMA AllIdle ==
    ASSUME SequentialInv, NEW p \in Process, \A q \in Process : pc[q] = "idle"
    PROVE  Local(p)
BY LocalIsEnoughNow DEF SequentialInv, LocalIsEnough

LEMMA Conclude ==
    ASSUME SequentialInv, [Next]_vars, NEW p \in Process,
           \A q \in Process : q # p => pc'[q] = "idle",
           Local(p)', Turns'
    PROVE  SequentialInv'
<1>1. IInv'
  BY Invariance DEF SequentialInv
<1>2. ASSUME pc'[p] # "idle" PROVE Obj(p)'.name \in Name
  <2>1. ptr'[p] \in Object /\ object'[ptr'[p]] # None
    BY <1>1, <1>2, CatalogAssumption DEF IInv, TypeOK, NoDanglingTable
  <2> QED BY <1>1, <2>1 DEF IInv, TypeOK, TableObject, Obj
<1>3. TableIsListed' /\ ReadIsCurrent' /\ Listing' /\ Rows'
  BY <1>2, LocalIsEnoughNext DEF LocalIsEnough
<1> QED BY <1>1, <1>3 DEF SequentialInv

(* A step of a request leaves the turns as they are.                       *)
LEMMA SameTurn ==
    ASSUME OneAtATime, SequentialInv, NEW p \in Process, pc[p] # "idle",
           NEW l, pc' = [pc EXCEPT ![p] = l], phase' = phase, lines' = lines,
           p = Main => l \in {"idle"} \union Creating
    PROVE  /\ \A q \in Process : q # p => pc'[q] = "idle"
           /\ Turns'
<1>1. /\ \A q \in Process : q # p => pc[q] = "idle"
      /\ \/ phase = "restoring" /\ p = Main
         \/ phase = "serving" /\ p # Main
  BY Alone
<1>2. \A q \in Process : q # p => pc'[q] = "idle"
  BY <1>1 DEF SequentialInv, IInv, TypeOK
<1>3. p = Main => pc'[Main] = l
  BY DEF SequentialInv, IInv, TypeOK
<1> QED BY <1>1, <1>2, <1>3 DEF Turns, SequentialInv, Process

LEMMA TablesStay ==
    ASSUME NEW p \in Process, NEW objs, NEW tbls \in [Name -> Object \union {None}],
           DropPtr(p, tbls, objs)
    PROVE  \A n \in Name : tbls[n] # None => object'[tbls[n]] = objs[tbls[n]]
BY DEF DropPtr

(* A batch adds the table to the manifest.                                 *)
LEMMA BatchLists ==
    ASSUME NEW p \in Process, read[p] = manifest, manifest \in [Name -> Nat],
           schemaRow \in [Name -> Schema \union {None}], Obj(p).name \in Name, PutBatch(p)
    PROVE  /\ schemaRow' = [schemaRow EXCEPT ![Obj(p).name] = Obj(p).schema]
           /\ \A n \in Name : manifest'[n] > 0 <=> manifest[n] > 0 \/ n = Obj(p).name
<1>1. CASE Present(p)
  BY <1>1 DEF PutBatch, Present
<1>2. CASE ~Present(p)
  <2>1. manifest' = [manifest EXCEPT ![Obj(p).name] = @ + 1]
    BY <1>2 DEF PutBatch
  <2>2. ASSUME NEW n \in Name PROVE manifest'[n] > 0 <=> manifest[n] > 0 \/ n = Obj(p).name
    BY <2>1
  <2> QED BY <2>2 DEF PutBatch
<1> QED BY <1>1, <1>2

(* A client whose request is accepted is alone.                            *)
LEMMA Begins ==
    ASSUME OneAtATime, SequentialInv, NEW c \in Client, Accepts(c)
    PROVE  /\ c \in Process /\ c # Main /\ phase = "serving"
           /\ \A q \in Process : pc[q] = "idle"
           /\ Local(c)
<1>1. c \in Process /\ c # Main /\ phase = "serving"
  BY CatalogAssumption DEF Accepts, OneAtATime, Process
<1>2. \A q \in Process : pc[q] = "idle"
  BY <1>1 DEF Accepts, OneAtATime, SequentialInv, Turns, Process
<1> QED BY <1>1, <1>2, AllIdle

(* A new Table takes the place of no other.                                *)
LEMMA ConstructsOwn ==
    ASSUME TypeOK, NoDanglingTable, NEW p \in Process, NEW n \in Name, NEW schema,
           Construct(p, n, schema)
    PROVE  /\ Obj(p)'.name = n
           /\ \A m \in Name : tables[m] # None => object'[tables[m]] = object[tables[m]]
<1>1. PICK o \in Object :
         /\ object[o] = None
         /\ object' = [object EXCEPT ![o] = [name |-> n, schema |-> schema,
                                            running |-> schema.families, cells |-> {}]]
         /\ ptr' = [ptr EXCEPT ![p] = o]
  BY DEF Construct
<1>2. Obj(p)'.name = n
  BY <1>1 DEF TypeOK, Obj
<1>3. \A m \in Name : tables[m] # None => object'[tables[m]] = object[tables[m]]
  BY <1>1 DEF TypeOK, NoDanglingTable
<1> QED BY <1>2, <1>3

LEMMA SequentialStep ==
    ASSUME OneAtATime, SequentialInv, [Next]_vars
    PROVE  SequentialInv'
<1>A. IInv /\ TypeOK /\ NoDanglingTable /\ OneAtATime /\ SequentialInv /\ [Next]_vars
  BY DEF SequentialInv, IInv
<1>1. ASSUME NEW p \in Process, ReadManifest(p, "store_new", "write_new", "emplace")
      PROVE  SequentialInv'
  <2>1. /\ pc[p] = "store_new" /\ pc' = [pc EXCEPT ![p] = IF HasStorage THEN "write_new" ELSE "emplace"] /\ UNCHANGED <<phase, lines>>
        /\ read' = [read EXCEPT ![p] = IF HasStorage THEN manifest ELSE NoLines]
        /\ UNCHANGED <<tables, object, ptr, manifest, schemaRow, cfs, stale>>
    BY <1>1 DEF ReadManifest, Goto, memory, startup, disk
  <2>2. /\ \A q \in Process : q # p => pc[q] = "idle"
        /\ \/ phase = "restoring" /\ p = Main /\ pc[p] \in Creating
           \/ phase = "serving" /\ p # Main
        /\ Local(p) /\ Obj(p).name \in Name
    BY <1>A, <2>1, Alone
  <2>3. (\A q \in Process : q # p => pc'[q] = "idle") /\ Turns' /\ pc'[p] = IF HasStorage THEN "write_new" ELSE "emplace"
    BY <1>A, <2>1, <2>2, SameTurn DEF Creating, TypeOK
  <2>4. Local(p)'
    <3>1. HasStorage /\ pc'[p] = "write_new" /\ read'[p] = manifest
      BY <1>A, <2>1, <2>2, <2>3 DEF HasStorage, TypeOK
    <3> QED BY <2>1, <2>2, <3>1 DEF Local, Attached, Obj, Creating
  <2> QED BY <1>A, <2>3, <2>4, Conclude
<1>2. ASSUME NEW p \in Process, ReadManifest(p, "store", "write", "skip")
      PROVE  SequentialInv'
  <2>1. /\ pc[p] = "store" /\ pc' = [pc EXCEPT ![p] = IF HasStorage THEN "write" ELSE "skip"] /\ UNCHANGED <<phase, lines>>
        /\ read' = [read EXCEPT ![p] = IF HasStorage THEN manifest ELSE NoLines]
        /\ UNCHANGED <<tables, object, ptr, manifest, schemaRow, cfs, stale>>
    BY <1>2 DEF ReadManifest, Goto, memory, startup, disk
  <2>2. /\ \A q \in Process : q # p => pc[q] = "idle"
        /\ \/ phase = "restoring" /\ p = Main /\ pc[p] \in Creating
           \/ phase = "serving" /\ p # Main
        /\ Local(p) /\ Obj(p).name \in Name
    BY <1>A, <2>1, Alone
  <2>3. (\A q \in Process : q # p => pc'[q] = "idle") /\ Turns' /\ pc'[p] = IF HasStorage THEN "write" ELSE "skip"
    BY <1>A, <2>1, <2>2, SameTurn DEF Creating, TypeOK
  <2>4. Local(p)'
    <3>1. HasStorage /\ pc'[p] = "write" /\ read'[p] = manifest
      BY <1>A, <2>1, <2>2, <2>3 DEF HasStorage, TypeOK
    <3> QED BY <2>1, <2>2, <3>1 DEF Local, Attached, Obj, Creating
  <2> QED BY <1>A, <2>3, <2>4, Conclude
<1>3. ASSUME NEW p \in Process, ReadManifest(p, "delete", "write_manifest", "erase")
      PROVE  SequentialInv'
  <2>1. /\ pc[p] = "delete" /\ pc' = [pc EXCEPT ![p] = IF HasStorage THEN "write_manifest" ELSE "erase"] /\ UNCHANGED <<phase, lines>>
        /\ read' = [read EXCEPT ![p] = IF HasStorage THEN manifest ELSE NoLines]
        /\ UNCHANGED <<tables, object, ptr, manifest, schemaRow, cfs, stale>>
    BY <1>3 DEF ReadManifest, Goto, memory, startup, disk
  <2>2. /\ \A q \in Process : q # p => pc[q] = "idle"
        /\ \/ phase = "restoring" /\ p = Main /\ pc[p] \in Creating
           \/ phase = "serving" /\ p # Main
        /\ Local(p) /\ Obj(p).name \in Name
    BY <1>A, <2>1, Alone
  <2>3. (\A q \in Process : q # p => pc'[q] = "idle") /\ Turns' /\ pc'[p] = IF HasStorage THEN "write_manifest" ELSE "erase"
    BY <1>A, <2>1, <2>2, SameTurn DEF Creating, TypeOK
  <2>4. Local(p)'
    <3>1. HasStorage /\ pc'[p] = "write_manifest" /\ read'[p] = manifest
      BY <1>A, <2>1, <2>2, <2>3 DEF HasStorage, TypeOK
    <3> QED BY <2>1, <2>2, <3>1 DEF Local, Attached, Obj, Creating
  <2> QED BY <1>A, <2>3, <2>4, Conclude
<1>4. ASSUME NEW p \in Process, StoreNew(p)
      PROVE  SequentialInv'
  <2>1. /\ pc[p] = "write_new" /\ pc' = [pc EXCEPT ![p] = "emplace"] /\ UNCHANGED <<phase, lines>>
        /\ PutBatch(p)
        /\ UNCHANGED <<tables, object, ptr, stale>>
    BY <1>4 DEF StoreNew, Goto, memory, startup
  <2>2. /\ \A q \in Process : q # p => pc[q] = "idle"
        /\ \/ phase = "restoring" /\ p = Main /\ pc[p] \in Creating
           \/ phase = "serving" /\ p # Main
        /\ Local(p) /\ Obj(p).name \in Name
    BY <1>A, <2>1, Alone
  <2>3. (\A q \in Process : q # p => pc'[q] = "idle") /\ Turns' /\ pc'[p] = "emplace"
    BY <1>A, <2>1, <2>2, SameTurn DEF Creating, TypeOK
  <2>4. Local(p)'
    <3>1. /\ read[p] = manifest /\ manifest \in [Name -> Nat]
          /\ schemaRow \in [Name -> Schema \union {None}]
          /\ Obj(p).schema # None
      BY <1>A, <2>1, <2>2, HasTable, CatalogAssumption DEF Local, Attached, TypeOK, Manifest
    <3>2. /\ schemaRow' = [schemaRow EXCEPT ![Obj(p).name] = Obj(p).schema]
          /\ \A n \in Name : manifest'[n] > 0 <=> manifest[n] > 0 \/ n = Obj(p).name
      BY <2>1, <2>2, <3>1, BatchLists
    <3> QED BY <2>1, <2>2, <2>3, <3>1, <3>2 DEF Local, Attached, Obj, Creating
  <2> QED BY <1>A, <2>3, <2>4, Conclude
<1>5. ASSUME NEW p \in Process, Emplace(p)
      PROVE  SequentialInv'
  <2>1. /\ pc[p] = "emplace" /\ pc' = [pc EXCEPT ![p] = "idle"] /\ UNCHANGED <<phase, lines>>
        /\ tables' = IF tables[Obj(p).name] = None THEN [tables EXCEPT ![Obj(p).name] = ptr[p]] ELSE tables
        /\ stale' = IF tables[Obj(p).name] = None THEN stale \ {Obj(p).name} ELSE stale \union {Obj(p).name}
        /\ DropPtr(p, tables', object)
        /\ UNCHANGED <<manifest, schemaRow, cfs>>
    BY <1>5 DEF Emplace, Goto, startup, disk
  <2>2. /\ \A q \in Process : q # p => pc[q] = "idle"
        /\ \/ phase = "restoring" /\ p = Main /\ pc[p] \in Creating
           \/ phase = "serving" /\ p # Main
        /\ Local(p) /\ Obj(p).name \in Name
    BY <1>A, <2>1, Alone
  <2>3. (\A q \in Process : q # p => pc'[q] = "idle") /\ Turns' /\ pc'[p] = "idle"
    BY <1>A, <2>1, <2>2, SameTurn DEF Creating, TypeOK
  <2>4. Local(p)'
    <3>1. /\ tables \in [Name -> Object \union {None}] /\ ptr[p] \in Object /\ ptr[p] # None
          /\ schemaRow[Obj(p).name] = Obj(p).schema
      BY <1>A, <2>1, <2>2, HasTable DEF TypeOK, Local, Attached
    <3>2. \A n \in Name : tables'[n] # None => object'[tables'[n]] = object[tables'[n]]
      <4>1. tables' \in [Name -> Object \union {None}]
        BY <2>1, <3>1
      <4> QED BY <2>1, <4>1, TablesStay
    <3>3. \A n \in Name : tables'[n] # None <=> tables[n] # None \/ n = Obj(p).name
      BY <2>1, <2>2, <3>1
    <3>4. ASSUME NEW n \in Name, tables'[n] # None, n \notin stale'
          PROVE  schemaRow'[n] = object'[tables'[n]].schema
      <4>1. CASE n = Obj(p).name
        BY <2>1, <2>2, <3>1, <3>2, <3>4, <4>1 DEF Obj
      <4>2. CASE n # Obj(p).name
        BY <2>1, <2>2, <3>1, <3>2, <3>4, <4>2 DEF Local, Attached
      <4> QED BY <4>1, <4>2
    <3> QED BY <2>1, <2>2, <2>3, <3>3, <3>4 DEF Local, Attached, Creating
  <2> QED BY <1>A, <2>3, <2>4, Conclude
<1>6. ASSUME NEW p \in Process, NEW request \in Updates, Update(p, request)
      PROVE  SequentialInv'
  <2>1. /\ pc[p] = "update" /\ pc' = [pc EXCEPT ![p] = "store"] /\ UNCHANGED <<phase, lines>>
        /\ object' = [object EXCEPT ![ptr[p]].schema = Merged(@, request)]
        /\ UNCHANGED <<tables, ptr, manifest, schemaRow, cfs, stale>>
    BY <1>6 DEF Update, Goto, startup, disk
  <2>2. /\ \A q \in Process : q # p => pc[q] = "idle"
        /\ \/ phase = "restoring" /\ p = Main /\ pc[p] \in Creating
           \/ phase = "serving" /\ p # Main
        /\ Local(p) /\ Obj(p).name \in Name
    BY <1>A, <2>1, Alone
  <2>3. (\A q \in Process : q # p => pc'[q] = "idle") /\ Turns' /\ pc'[p] = "store"
    BY <1>A, <2>1, <2>2, SameTurn DEF Creating, TypeOK
  <2>4. Local(p)'
    <3>1. /\ tables[Obj(p).name] = ptr[p] /\ ptr[p] \in Object
          /\ Obj(p) \in TableObject
      BY <1>A, <2>1, <2>2, HasTable DEF Local, Attached, Creating
    <3>2. Obj(p)'.name = Obj(p).name
      BY <1>A, <2>1, <3>1 DEF TypeOK, Obj, TableObject
    <3>3. \A n \in Name : tables[n] # None /\ n # Obj(p).name =>
                             object'[tables[n]] = object[tables[n]]
      BY <1>A, <2>1, <3>1 DEF TypeOK, NoDanglingTable, Obj
    <3>4. /\ pc[p] = "update" /\ UNCHANGED <<phase, lines>>
          /\ UNCHANGED <<tables, ptr, manifest, schemaRow, cfs, stale>>
      BY <2>1
    <3> QED BY <2>2, <2>3, <3>1, <3>2, <3>3, <3>4 DEF Local, Attached, Creating
  <2> QED BY <1>A, <2>3, <2>4, Conclude
<1>7. ASSUME NEW p \in Process, StoreSchema(p)
      PROVE  SequentialInv'
  <2>1. /\ pc[p] = "write" /\ pc' = [pc EXCEPT ![p] = "idle"] /\ UNCHANGED <<phase, lines>>
        /\ PutBatch(p)
        /\ DropPtr(p, tables, object)
        /\ stale' = stale \ {Obj(p).name}
        /\ tables' = tables
    BY <1>7 DEF StoreSchema, Return, Goto, startup
  <2>2. /\ \A q \in Process : q # p => pc[q] = "idle"
        /\ \/ phase = "restoring" /\ p = Main /\ pc[p] \in Creating
           \/ phase = "serving" /\ p # Main
        /\ Local(p) /\ Obj(p).name \in Name
    BY <1>A, <2>1, Alone
  <2>3. (\A q \in Process : q # p => pc'[q] = "idle") /\ Turns' /\ pc'[p] = "idle"
    BY <1>A, <2>1, <2>2, SameTurn DEF Creating, TypeOK
  <2>4. Local(p)'
    <3>1. /\ read[p] = manifest /\ manifest \in [Name -> Nat]
          /\ schemaRow \in [Name -> Schema \union {None}]
          /\ Obj(p).schema # None
          /\ tables \in [Name -> Object \union {None}]
          /\ tables[Obj(p).name] = ptr[p] /\ ptr[p] # None
      BY <1>A, <2>1, <2>2, HasTable, CatalogAssumption DEF Local, Attached, TypeOK, Manifest, Creating
    <3>2. \A n \in Name : tables[n] # None => object'[tables[n]] = object[tables[n]]
      BY <2>1, <3>1, TablesStay
    <3>3. /\ schemaRow' = [schemaRow EXCEPT ![Obj(p).name] = Obj(p).schema]
          /\ \A n \in Name : manifest'[n] > 0 <=> manifest[n] > 0 \/ n = Obj(p).name
      BY <2>1, <2>2, <3>1, BatchLists
    <3>4. ASSUME NEW n \in Name, tables'[n] # None, n \notin stale'
          PROVE  schemaRow'[n] = object'[tables'[n]].schema
      <4>1. CASE n = Obj(p).name
        BY <2>1, <2>2, <3>1, <3>2, <3>3, <4>1 DEF Obj
      <4>2. CASE n # Obj(p).name
        BY <2>1, <2>2, <3>1, <3>2, <3>3, <3>4, <4>2 DEF Local, Attached
      <4> QED BY <4>1, <4>2
    <3>5. \A n \in Name : schemaRow[n] # None => schemaRow'[n] # None
      BY <3>1, <3>3
    <3>6. schemaRow'[Obj(p).name] # None
      BY <2>2, <3>1, <3>3
    <3> QED BY <2>1, <2>2, <2>3, <3>1, <3>3, <3>4, <3>5, <3>6 DEF Local, Attached, Creating
  <2> QED BY <1>A, <2>3, <2>4, Conclude
<1>8. ASSUME NEW p \in Process, SkipStore(p)
      PROVE  SequentialInv'
  <2>1. /\ pc[p] = "skip" /\ pc' = [pc EXCEPT ![p] = "idle"] /\ UNCHANGED <<phase, lines>>
        /\ DropPtr(p, tables, object)
        /\ UNCHANGED <<tables, manifest, schemaRow, cfs, stale>>
    BY <1>8 DEF SkipStore, Return, Goto, startup, disk
  <2>2. /\ \A q \in Process : q # p => pc[q] = "idle"
        /\ \/ phase = "restoring" /\ p = Main /\ pc[p] \in Creating
           \/ phase = "serving" /\ p # Main
        /\ Local(p) /\ Obj(p).name \in Name
    BY <1>A, <2>1, Alone
  <2>3. (\A q \in Process : q # p => pc'[q] = "idle") /\ Turns' /\ pc'[p] = "idle"
    BY <1>A, <2>1, <2>2, SameTurn DEF Creating, TypeOK
  <2>4. Local(p)'
    <3>1. tables \in [Name -> Object \union {None}]
      BY <1>A DEF TypeOK
    <3>2. \A n \in Name : tables[n] # None => object'[tables[n]] = object[tables[n]]
      BY <2>1, <3>1, TablesStay
    <3> QED BY <2>1, <2>2, <2>3, <3>2 DEF Local, Attached, Creating
  <2> QED BY <1>A, <2>3, <2>4, Conclude
<1>9. ASSUME NEW p \in Process, NEW f \in Family, WriteCell(p, f)
      PROVE  SequentialInv'
  <2>1. /\ pc[p] = "write_cell" /\ pc' = [pc EXCEPT ![p] = "idle"] /\ UNCHANGED <<phase, lines>>
        /\ DropPtr(p, tables, [object EXCEPT ![ptr[p]].cells = @ \union {f}])
        /\ UNCHANGED <<tables, manifest, schemaRow, stale>>
    BY <1>9 DEF WriteCell, Goto, startup
  <2>2. /\ \A q \in Process : q # p => pc[q] = "idle"
        /\ \/ phase = "restoring" /\ p = Main /\ pc[p] \in Creating
           \/ phase = "serving" /\ p # Main
        /\ Local(p) /\ Obj(p).name \in Name
    BY <1>A, <2>1, Alone
  <2>3. (\A q \in Process : q # p => pc'[q] = "idle") /\ Turns' /\ pc'[p] = "idle"
    BY <1>A, <2>1, <2>2, SameTurn DEF Creating, TypeOK
  <2>4. Local(p)'
    <3>1. tables \in [Name -> Object \union {None}] /\ ptr[p] \in Object /\ Obj(p) \in TableObject
      BY <1>A, <2>1, HasTable DEF TypeOK
    <3>2. \A n \in Name : tables[n] # None => object'[tables[n]].schema = object[tables[n]].schema
      <4> DEFINE objs == [object EXCEPT ![ptr[p]].cells = @ \union {f}]
      <4>1. \A o \in Object : object[o] # None => objs[o].schema = object[o].schema
        BY <1>A, <3>1 DEF TypeOK, TableObject, Obj
      <4>2. DropPtr(p, tables, objs)
        BY <2>1
      <4> HIDE DEF objs
      <4>3. \A n \in Name : tables[n] # None => object'[tables[n]] = objs[tables[n]]
        BY <3>1, <4>2, TablesStay
      <4> QED BY <1>A, <3>1, <4>1, <4>3 DEF NoDanglingTable
    <3> QED BY <2>1, <2>2, <2>3, <3>2 DEF Local, Attached, Creating
  <2> QED BY <1>A, <2>3, <2>4, Conclude
<1>10. ASSUME NEW p \in Process, WriteNothing(p) \/ RefuseUpdate(p)
      PROVE  SequentialInv'
  <2>1. /\ pc[p] \in {"write_cell", "update"} /\ pc' = [pc EXCEPT ![p] = "idle"] /\ UNCHANGED <<phase, lines>>
        /\ DropPtr(p, tables, object)
        /\ UNCHANGED <<tables, manifest, schemaRow, cfs, stale>>
    BY <1>10 DEF WriteNothing, RefuseUpdate, Goto, startup, disk
  <2>2. /\ \A q \in Process : q # p => pc[q] = "idle"
        /\ \/ phase = "restoring" /\ p = Main /\ pc[p] \in Creating
           \/ phase = "serving" /\ p # Main
        /\ Local(p) /\ Obj(p).name \in Name
    BY <1>A, <2>1, Alone
  <2>3. (\A q \in Process : q # p => pc'[q] = "idle") /\ Turns' /\ pc'[p] = "idle"
    BY <1>A, <2>1, <2>2, SameTurn DEF Creating, TypeOK
  <2>4. Local(p)'
    <3>1. tables \in [Name -> Object \union {None}]
      BY <1>A DEF TypeOK
    <3>2. \A n \in Name : tables[n] # None => object'[tables[n]] = object[tables[n]]
      BY <2>1, <3>1, TablesStay
    <3> QED BY <2>1, <2>2, <2>3, <3>2 DEF Local, Attached, Creating
  <2> QED BY <1>A, <2>3, <2>4, Conclude
<1>11. ASSUME NEW p \in Process, ModifyColumnFamilies(p)
      PROVE  SequentialInv'
  <2>1. /\ pc[p] = "modify" /\ pc' = [pc EXCEPT ![p] = "modifying"] /\ UNCHANGED <<phase, lines>>
        /\ UNCHANGED <<tables, object, ptr, manifest, schemaRow, cfs, stale>>
    BY <1>11 DEF ModifyColumnFamilies, Goto, memory, startup, disk
  <2>2. /\ \A q \in Process : q # p => pc[q] = "idle"
        /\ \/ phase = "restoring" /\ p = Main /\ pc[p] \in Creating
           \/ phase = "serving" /\ p # Main
        /\ Local(p) /\ Obj(p).name \in Name
    BY <1>A, <2>1, Alone
  <2>3. (\A q \in Process : q # p => pc'[q] = "idle") /\ Turns' /\ pc'[p] = "modifying"
    BY <1>A, <2>1, <2>2, SameTurn DEF Creating, TypeOK
  <2>4. Local(p)'
    BY <2>1, <2>2, <2>3 DEF Local, Attached, Obj, Creating
  <2> QED BY <1>A, <2>3, <2>4, Conclude
<1>12. ASSUME NEW p \in Process, NEW f \in Family, Drop(p, f)
       PROVE  SequentialInv'
  <2>1. /\ pc[p] = "modifying" /\ pc' = pc /\ UNCHANGED <<phase, lines>>
        /\ UNCHANGED <<tables, ptr, manifest, schemaRow, stale>>
    BY <1>12 DEF Drop, Modification, startup
  <2>2. /\ \A q \in Process : q # p => pc[q] = "idle"
        /\ \/ phase = "restoring" /\ p = Main /\ pc[p] \in Creating
           \/ phase = "serving" /\ p # Main
        /\ Local(p) /\ Obj(p).name \in Name
    BY <1>A, <2>1, Alone
  <2>3. Turns'
    BY <1>A, <2>1 DEF SequentialInv, Turns
  <2>4. Local(p)'
    <3>1. object' = object
      BY <1>12 DEF Drop
    <3> QED BY <2>1, <2>2, <3>1 DEF Local, Attached, Obj, Creating
  <2> QED BY <1>A, <2>1, <2>2, <2>3, <2>4, Conclude
<1>13. ASSUME NEW p \in Process, NEW f \in Family, NEW g \in ValidRule, CreateFamily(p, f, g)
       PROVE  SequentialInv'
  <2>1. /\ pc[p] = "modifying" /\ pc' = pc /\ UNCHANGED <<phase, lines>>
        /\ UNCHANGED <<tables, ptr, manifest, schemaRow, stale>>
    BY <1>13 DEF CreateFamily, Modification, startup
  <2>2. /\ \A q \in Process : q # p => pc[q] = "idle"
        /\ \/ phase = "restoring" /\ p = Main /\ pc[p] \in Creating
           \/ phase = "serving" /\ p # Main
        /\ Local(p) /\ Obj(p).name \in Name
    BY <1>A, <2>1, Alone
  <2>3. Turns'
    BY <1>A, <2>1 DEF SequentialInv, Turns
  <2>4. Local(p)'
    <3>1. object' = object
      BY <1>13 DEF CreateFamily
    <3> QED BY <2>1, <2>2, <3>1 DEF Local, Attached, Obj, Creating
  <2> QED BY <1>A, <2>1, <2>2, <2>3, <2>4, Conclude
<1>14. ASSUME NEW p \in Process, NEW f \in Family, NEW g \in ValidRule, NEW merged \in Rule,
              UpdateRule(p, f, g, merged)
       PROVE  SequentialInv'
  <2>1. /\ pc[p] = "modifying" /\ pc' = pc /\ UNCHANGED <<phase, lines>>
        /\ UNCHANGED <<tables, ptr, manifest, schemaRow, stale>>
    BY <1>14 DEF UpdateRule, Modification, startup
  <2>2. /\ \A q \in Process : q # p => pc[q] = "idle"
        /\ \/ phase = "restoring" /\ p = Main /\ pc[p] \in Creating
           \/ phase = "serving" /\ p # Main
        /\ Local(p) /\ Obj(p).name \in Name
    BY <1>A, <2>1, Alone
  <2>3. Turns'
    BY <1>A, <2>1 DEF SequentialInv, Turns
  <2>4. Local(p)'
    <3>1. ptr[p] \in Object /\ Obj(p) \in TableObject /\ object \in [Object -> TableObject \union {None}]
      BY <1>A, <2>1, HasTable DEF TypeOK
    <3>2. \/ object' = object
          \/ object' = [object EXCEPT ![ptr[p]].running = With(@, f, g)]
      BY <1>14 DEF UpdateRule
    <3>3. \A o \in Object : object[o] # None => /\ object'[o].schema = object[o].schema
                                               /\ object'[o].name = object[o].name
      BY <3>1, <3>2 DEF TableObject, Obj
    <3>4. \A n \in Name : tables[n] # None => object'[tables[n]].schema = object[tables[n]].schema
      BY <1>A, <3>3 DEF TypeOK, NoDanglingTable
    <3>5. Obj(p)'.name = Obj(p).name
      BY <1>A, <2>1, <3>1, <3>3, HasTable DEF Obj
    <3> QED BY <2>1, <2>2, <3>4, <3>5 DEF Local, Attached, Creating
  <2> QED BY <1>A, <2>1, <2>2, <2>3, <2>4, Conclude
<1>15. ASSUME NEW p \in Process, RefuseModification(p)
      PROVE  SequentialInv'
  <2>1. /\ pc[p] = "modifying" /\ pc' = [pc EXCEPT ![p] = "idle"] /\ UNCHANGED <<phase, lines>>
        /\ DropPtr(p, tables, object)
        /\ UNCHANGED <<tables, manifest, schemaRow, cfs, stale>>
    BY <1>15 DEF RefuseModification, Return, Goto, startup, disk
  <2>2. /\ \A q \in Process : q # p => pc[q] = "idle"
        /\ \/ phase = "restoring" /\ p = Main /\ pc[p] \in Creating
           \/ phase = "serving" /\ p # Main
        /\ Local(p) /\ Obj(p).name \in Name
    BY <1>A, <2>1, Alone
  <2>3. (\A q \in Process : q # p => pc'[q] = "idle") /\ Turns' /\ pc'[p] = "idle"
    BY <1>A, <2>1, <2>2, SameTurn DEF Creating, TypeOK
  <2>4. Local(p)'
    <3>1. tables \in [Name -> Object \union {None}]
      BY <1>A DEF TypeOK
    <3>2. \A n \in Name : tables[n] # None => object'[tables[n]] = object[tables[n]]
      BY <2>1, <3>1, TablesStay
    <3> QED BY <2>1, <2>2, <2>3, <3>2 DEF Local, Attached, Creating
  <2> QED BY <1>A, <2>3, <2>4, Conclude
<1>16. ASSUME NEW p \in Process, SwapCopies(p)
       PROVE  SequentialInv'
  <2>1. /\ pc[p] = "modifying" /\ pc' = [pc EXCEPT ![p] = "store"] /\ UNCHANGED <<phase, lines>>
        /\ UNCHANGED <<tables, ptr, manifest, schemaRow, cfs, stale>>
    BY <1>16 DEF SwapCopies, Goto, startup, disk
  <2>2. /\ \A q \in Process : q # p => pc[q] = "idle"
        /\ \/ phase = "restoring" /\ p = Main /\ pc[p] \in Creating
           \/ phase = "serving" /\ p # Main
        /\ Local(p) /\ Obj(p).name \in Name
    BY <1>A, <2>1, Alone
  <2>3. (\A q \in Process : q # p => pc'[q] = "idle") /\ Turns' /\ pc'[p] = "store"
    BY <1>A, <2>1, <2>2, SameTurn DEF Creating, TypeOK
  <2>4. Local(p)'
    <3>1. /\ tables[Obj(p).name] = ptr[p] /\ ptr[p] \in Object
          /\ Obj(p) \in TableObject
      BY <1>A, <2>1, <2>2, HasTable DEF Local, Attached, Creating
    <3> DEFINE t == [name |-> Obj(p).name,
                     schema |-> [Obj(p).schema EXCEPT !.families = copy[p].families],
                     running |-> [f \in copy[p].kept \union DOMAIN copy[p].fresh |->
                                    IF f \in copy[p].kept THEN Obj(p).running[f]
                                                          ELSE copy[p].fresh[f]],
                     cells |-> Obj(p).cells \intersect copy[p].kept]
    <3>2. object' = [object EXCEPT ![ptr[p]] = t] /\ t.name = Obj(p).name
      BY <1>16 DEF SwapCopies, Obj
    <3> HIDE DEF t
    <3>3. Obj(p)'.name = Obj(p).name
      BY <1>A, <2>1, <3>1, <3>2 DEF TypeOK, Obj
    <3>4. \A n \in Name : tables[n] # None /\ n # Obj(p).name =>
                             object'[tables[n]] = object[tables[n]]
      BY <1>A, <2>1, <3>1, <3>2 DEF TypeOK, NoDanglingTable, Obj
    <3> QED BY <2>1, <2>2, <2>3, <3>1, <3>3, <3>4 DEF Local, Attached, Creating
  <2> QED BY <1>A, <2>3, <2>4, Conclude
<1>17. ASSUME NEW p \in Process, IsDeleteProtected(p)
       PROVE  SequentialInv'
  <2>1. PICK l \in {"idle", "delete"} : pc' = [pc EXCEPT ![p] = l]
    BY <1>17 DEF IsDeleteProtected, Goto
  <2>2. /\ pc[p] = "protected?" /\ UNCHANGED <<phase, lines>>
        /\ UNCHANGED <<tables, manifest, schemaRow, cfs, stale>>
        /\ \/ l = "idle" /\ DropPtr(p, tables, object)
           \/ l = "delete" /\ UNCHANGED <<object, ptr>>
    <3>1. p \in DOMAIN pc /\ pc'[p] = l
      BY <1>A, <2>1 DEF TypeOK
    <3> QED BY <1>A, <1>17, <2>1, <3>1 DEF IsDeleteProtected, Goto, startup, disk
  <2>3. /\ \A q \in Process : q # p => pc[q] = "idle"
        /\ \/ phase = "restoring" /\ p = Main /\ pc[p] \in Creating
           \/ phase = "serving" /\ p # Main
        /\ Local(p) /\ Obj(p).name \in Name
    BY <1>A, <2>2, Alone
  <2>4. (\A q \in Process : q # p => pc'[q] = "idle") /\ Turns' /\ pc'[p] = l
    BY <1>A, <2>1, <2>2, <2>3, SameTurn DEF Creating, TypeOK
  <2>5. CASE l = "delete"
    <3>1. Local(p)'
      BY <2>2, <2>3, <2>4, <2>5 DEF Local, Attached, Obj, Creating
    <3> QED BY <1>A, <2>4, <3>1, Conclude
  <2>6. CASE l = "idle"
    <3>1. tables \in [Name -> Object \union {None}]
      BY <1>A DEF TypeOK
    <3>2. \A n \in Name : tables[n] # None => object'[tables[n]] = object[tables[n]]
      BY <2>2, <2>6, <3>1, TablesStay
    <3>3. Local(p)'
      BY <2>2, <2>3, <2>4, <2>6, <3>2 DEF Local, Attached, Creating
    <3> QED BY <1>A, <2>4, <3>3, Conclude
  <2> QED BY <2>5, <2>6
<1>18. ASSUME NEW p \in Process, DeleteManifestLine(p)
       PROVE  SequentialInv'
  <2>1. /\ pc[p] = "write_manifest" /\ UNCHANGED <<phase, lines>>
        /\ UNCHANGED <<tables, object, ptr, schemaRow, cfs, stale>>
    BY <1>18 DEF DeleteManifestLine, memory, startup
  <2>2. /\ \A q \in Process : q # p => pc[q] = "idle"
        /\ \/ phase = "restoring" /\ p = Main /\ pc[p] \in Creating
           \/ phase = "serving" /\ p # Main
        /\ Local(p) /\ Obj(p).name \in Name
    BY <1>A, <2>1, Alone
  <2>3. /\ read[p] = manifest /\ manifest \in [Name -> Nat]
        /\ manifest[Obj(p).name] > 0
    BY <1>A, <2>1, <2>2, HasTable DEF Local, Attached, TypeOK, Manifest, Creating
  <2>4. pc' = [pc EXCEPT ![p] = "drop_families"] /\ manifest' = [manifest EXCEPT ![Obj(p).name] = 0]
    BY <1>18, <2>3 DEF DeleteManifestLine, Goto
  <2>5. (\A q \in Process : q # p => pc'[q] = "idle") /\ Turns' /\ pc'[p] = "drop_families"
    BY <1>A, <2>1, <2>2, <2>4, SameTurn DEF Creating, TypeOK
  <2>6. Local(p)'
    BY <2>1, <2>2, <2>3, <2>4, <2>5 DEF Local, Attached, Obj, Creating
  <2> QED BY <1>A, <2>5, <2>6, Conclude
<1>19. ASSUME NEW p \in Process, DeleteFamilies(p)
      PROVE  SequentialInv'
  <2>1. /\ pc[p] = "drop_families" /\ pc' = [pc EXCEPT ![p] = "delete_schema"] /\ UNCHANGED <<phase, lines>>
        /\ cfs' = {cf \in cfs : cf[1] # Obj(p).name}
        /\ UNCHANGED <<tables, object, ptr, manifest, schemaRow, stale>>
    BY <1>19 DEF DeleteFamilies, Goto, memory, startup
  <2>2. /\ \A q \in Process : q # p => pc[q] = "idle"
        /\ \/ phase = "restoring" /\ p = Main /\ pc[p] \in Creating
           \/ phase = "serving" /\ p # Main
        /\ Local(p) /\ Obj(p).name \in Name
    BY <1>A, <2>1, Alone
  <2>3. (\A q \in Process : q # p => pc'[q] = "idle") /\ Turns' /\ pc'[p] = "delete_schema"
    BY <1>A, <2>1, <2>2, SameTurn DEF Creating, TypeOK
  <2>4. Local(p)'
    BY <2>1, <2>2, <2>3 DEF Local, Attached, Obj, Creating
  <2> QED BY <1>A, <2>3, <2>4, Conclude
<1>20. ASSUME NEW p \in Process, DeleteSchemaRow(p)
      PROVE  SequentialInv'
  <2>1. /\ pc[p] = "delete_schema" /\ pc' = [pc EXCEPT ![p] = "erase"] /\ UNCHANGED <<phase, lines>>
        /\ schemaRow' = [schemaRow EXCEPT ![Obj(p).name] = None]
        /\ UNCHANGED <<tables, object, ptr, manifest, cfs, stale>>
    BY <1>20 DEF DeleteSchemaRow, Goto, memory, startup
  <2>2. /\ \A q \in Process : q # p => pc[q] = "idle"
        /\ \/ phase = "restoring" /\ p = Main /\ pc[p] \in Creating
           \/ phase = "serving" /\ p # Main
        /\ Local(p) /\ Obj(p).name \in Name
    BY <1>A, <2>1, Alone
  <2>3. (\A q \in Process : q # p => pc'[q] = "idle") /\ Turns' /\ pc'[p] = "erase"
    BY <1>A, <2>1, <2>2, SameTurn DEF Creating, TypeOK
  <2>4. Local(p)'
    <3>1. schemaRow \in [Name -> Schema \union {None}] /\ manifest \in [Name -> Nat]
      BY <1>A DEF TypeOK, Manifest
    <3>2. /\ schemaRow'[Obj(p).name] = None
          /\ \A n \in Name : n # Obj(p).name => schemaRow'[n] = schemaRow[n]
      BY <2>1, <2>2, <3>1
    <3>3. /\ pc[p] = "delete_schema" /\ UNCHANGED <<phase, lines>>
          /\ UNCHANGED <<tables, object, ptr, manifest, cfs, stale>>
      BY <2>1
    <3>4. manifest[Obj(p).name] = 0
      BY <2>2, <3>3 DEF Local, Attached
    <3>5. \A n \in Name : manifest[n] > 0 => schemaRow'[n] # None
      <4>1. \A n \in Name : manifest[n] > 0 => n # Obj(p).name /\ schemaRow[n] # None
        <5>1. \A n \in Name : manifest[n] > 0 => schemaRow[n] # None
          BY <2>2 DEF Local, Attached
        <5> QED BY <3>1, <3>4, <5>1
      <4> QED BY <3>2, <4>1
    <3> QED BY <2>2, <2>3, <3>2, <3>3, <3>4, <3>5 DEF Local, Attached, Obj, Creating
  <2> QED BY <1>A, <2>3, <2>4, Conclude
<1>21. ASSUME NEW p \in Process, EraseTable(p)
      PROVE  SequentialInv'
  <2>1. /\ pc[p] = "erase" /\ pc' = [pc EXCEPT ![p] = "idle"] /\ UNCHANGED <<phase, lines>>
        /\ tables' = [tables EXCEPT ![Obj(p).name] = None]
        /\ stale' = stale \ {Obj(p).name}
        /\ DropPtr(p, tables', object)
        /\ UNCHANGED <<manifest, schemaRow, cfs>>
    BY <1>21 DEF EraseTable, Goto, startup, disk
  <2>2. /\ \A q \in Process : q # p => pc[q] = "idle"
        /\ \/ phase = "restoring" /\ p = Main /\ pc[p] \in Creating
           \/ phase = "serving" /\ p # Main
        /\ Local(p) /\ Obj(p).name \in Name
    BY <1>A, <2>1, Alone
  <2>3. (\A q \in Process : q # p => pc'[q] = "idle") /\ Turns' /\ pc'[p] = "idle"
    BY <1>A, <2>1, <2>2, SameTurn DEF Creating, TypeOK
  <2>4. Local(p)'
    <3>1. tables \in [Name -> Object \union {None}] /\ manifest \in [Name -> Nat]
      BY <1>A DEF TypeOK, Manifest
    <3>2. \A n \in Name : tables'[n] # None =>
             /\ n # Obj(p).name /\ tables'[n] = tables[n]
             /\ object'[tables'[n]] = object[tables'[n]]
      <4>1. tables' \in [Name -> Object \union {None}]
        BY <2>1, <3>1
      <4>2. \A n \in Name : tables'[n] # None => object'[tables'[n]] = object[tables'[n]]
        <5>1. DropPtr(p, tables', object)
          BY <2>1
        <5> QED BY <4>1, <5>1, TablesStay
      <4> QED BY <2>1, <2>2, <3>1, <4>2
    <3>3. \A n \in Name : n # Obj(p).name => tables'[n] = tables[n]
      BY <2>1, <3>1
    <3>4. tables'[Obj(p).name] = None
      BY <2>1, <2>2, <3>1
    <3>5. /\ pc[p] = "erase" /\ UNCHANGED <<phase, lines, manifest, schemaRow, cfs>>
          /\ stale' = stale \ {Obj(p).name}
      BY <2>1
    <3>6. manifest[Obj(p).name] = 0
      BY <2>2, <3>5 DEF Local, Attached
    <3>7. \A n \in Name : \/ tables'[n] = None
                           \/ n \in stale'
                           \/ schemaRow[n] = object'[tables'[n]].schema
      BY <2>2, <3>2, <3>3, <3>5 DEF Local, Attached
    <3> QED BY <2>2, <2>3, <3>1, <3>3, <3>4, <3>5, <3>6, <3>7 DEF Local, Attached, Creating
  <2> QED BY <1>A, <2>3, <2>4, Conclude
<1>22. ASSUME NEW c \in Client, NEW n \in Name, NEW schema \in NewSchema,
              CreateTable(c, n, schema)
       PROVE  SequentialInv'
  <2>1. Accepts(c) /\ Construct(c, n, schema) /\ UNCHANGED <<phase, lines>>
    BY <1>22 DEF CreateTable, startup
  <2>2. /\ c \in Process /\ c # Main /\ phase = "serving"
        /\ \A q \in Process : pc[q] = "idle"
        /\ Local(c)
    BY <1>A, <2>1, Begins
  <2>3. /\ pc' = [pc EXCEPT ![c] = "store_new"]
        /\ UNCHANGED <<tables, manifest, schemaRow, cfs, stale>>
    BY <2>1 DEF Construct, Goto, disk
  <2>4. (\A q \in Process : q # c => pc'[q] = "idle") /\ pc'[c] = "store_new" /\ Turns'
    BY <1>A, <2>1, <2>2, <2>3 DEF TypeOK, Turns, Process
  <2>5. \A m \in Name : tables[m] # None => object'[tables[m]] = object[tables[m]]
    BY <1>A, <2>1, <2>2, ConstructsOwn
  <2>6. Local(c)'
    BY <2>1, <2>2, <2>3, <2>4, <2>5 DEF Local, Attached, Creating
  <2> QED BY <1>A, <2>2, <2>4, <2>6, Conclude
<1>23. ASSUME NEW c \in Client, NEW n \in Name, NEW op \in {"update", "modify", "write_cell"},
              FindTable(c, n, op)
       PROVE  SequentialInv'
  <2>1. /\ Accepts(c) /\ UNCHANGED <<phase, lines>> /\ pc' = [pc EXCEPT ![c] = op]
        /\ ptr' = [ptr EXCEPT ![c] = tables[n]] /\ tables[n] # None
        /\ UNCHANGED <<tables, object, manifest, schemaRow, cfs, stale>>
    BY <1>23 DEF FindTable, startup, memory, disk, Goto
  <2>2. /\ c \in Process /\ c # Main /\ phase = "serving"
        /\ \A q \in Process : pc[q] = "idle"
        /\ Local(c)
    BY <1>A, <2>1, Begins
  <2>3. (\A q \in Process : q # c => pc'[q] = "idle") /\ pc'[c] = op /\ Turns'
    BY <1>A, <2>1, <2>2 DEF TypeOK, Turns, Process
  <2>4. Obj(c)'.name = n /\ ptr'[c] = tables[n]
    BY <1>A, <2>1, <2>2 DEF TypeOK, NoDanglingTable, Obj
  <2>5. Local(c)'
    BY <2>1, <2>2, <2>3, <2>4 DEF Local, Attached, Creating
  <2> QED BY <1>A, <2>2, <2>3, <2>5, Conclude
<1>24. ASSUME NEW c \in Client, NEW n \in Name, DeleteTable(c, n)
       PROVE  SequentialInv'
  <2>1. /\ Accepts(c) /\ UNCHANGED <<phase, lines>> /\ pc' = [pc EXCEPT ![c] = "protected?"]
        /\ ptr' = [ptr EXCEPT ![c] = tables[n]] /\ tables[n] # None
        /\ UNCHANGED <<tables, object, manifest, schemaRow, cfs, stale>>
    BY <1>24 DEF DeleteTable, startup, memory, disk, Goto
  <2>2. /\ c \in Process /\ c # Main /\ phase = "serving"
        /\ \A q \in Process : pc[q] = "idle"
        /\ Local(c)
    BY <1>A, <2>1, Begins
  <2>3. (\A q \in Process : q # c => pc'[q] = "idle") /\ pc'[c] = "protected?" /\ Turns'
    BY <1>A, <2>1, <2>2 DEF TypeOK, Turns, Process
  <2>4. Obj(c)'.name = n /\ ptr'[c] = tables[n]
    BY <1>A, <2>1, <2>2 DEF TypeOK, NoDanglingTable, Obj
  <2>5. Local(c)'
    BY <2>1, <2>2, <2>3, <2>4 DEF Local, Attached, Creating
  <2> QED BY <1>A, <2>2, <2>3, <2>5, Conclude
<1>25. /\ Main \in Process
       /\ phase # "serving" /\ pc[Main] = "idle" => Local(Main) /\ \A q \in Process : pc[q] = "idle"
  BY <1>A, AllIdle DEF SequentialInv, Turns, Process
<1>26. ASSUME InitGlobalStorage PROVE SequentialInv'
  <2>1. UNCHANGED <<tables, object, pc, ptr, read, manifest, schemaRow, cfs, stale>>
    BY <1>26 DEF InitGlobalStorage, memory, locals, disk
  <2>2. phase = "closed" /\ phase' = "open"
    BY <1>26 DEF InitGlobalStorage
  <2>3. lines' = lines
    BY <1>26 DEF InitGlobalStorage
  <2>4. pc[Main] = "idle" /\ phase # "serving"
    BY <1>A, <2>2 DEF SequentialInv, Turns
  <2>5. Turns'
    BY <1>A, <2>1, <2>2, <2>4, <1>25 DEF SequentialInv, Turns, Process
  <2>6. Local(Main)'
    BY <2>1, <2>2, <2>4, <1>25 DEF Local, Attached, Creating, Obj
  <2>7. \A q \in Process : pc'[q] = "idle"
    BY <2>1, <2>2, <2>4, <1>25
  <2> QED BY <1>A, <1>25, <2>5, <2>6, <2>7, Conclude
<1>27. ASSUME LoadManifest PROVE SequentialInv'
  <2>1. UNCHANGED <<tables, object, pc, ptr, read, manifest, schemaRow, cfs, stale>>
    BY <1>27 DEF LoadManifest, memory, locals, disk
  <2>2. phase = "open" /\ phase' = "restoring" /\ lines' = manifest
    BY <1>27 DEF LoadManifest
  <2>4. pc[Main] = "idle" /\ phase # "serving" /\ \A n \in Name : tables[n] = None
    BY <1>A, <2>2 DEF SequentialInv, Turns
  <2>5. Turns'
    BY <1>A, <2>1, <2>2, <2>4, <1>25 DEF SequentialInv, Turns, Process
  <2>6. Local(Main)'
    BY <2>1, <2>2, <2>4, <1>25 DEF Local, Attached, Creating, Obj
  <2>7. \A q \in Process : pc'[q] = "idle"
    BY <2>1, <2>2, <2>4, <1>25
  <2> QED BY <1>A, <1>25, <2>5, <2>6, <2>7, Conclude
<1>28. ASSUME StartupDone PROVE SequentialInv'
  <2>1. UNCHANGED <<tables, object, pc, ptr, read, manifest, schemaRow, cfs, stale>>
    BY <1>28 DEF StartupDone, memory, locals, disk
  <2>2. /\ phase = "restoring" /\ phase' = "serving" /\ lines' = lines /\ lines = NoLines
        /\ pc[Main] = "idle"
    BY <1>28 DEF StartupDone
  <2>4. pc[Main] = "idle" /\ phase # "serving" /\ \A n \in Name : ~(lines[n] > 0)
    BY <2>2 DEF NoLines
  <2>5. Turns'
    BY <1>A, <2>1, <2>2, <2>4, <1>25 DEF SequentialInv, Turns, Process
  <2>6. Local(Main)'
    BY <2>1, <2>2, <2>4, <1>25 DEF Local, Attached, Creating, Obj
  <2>7. \A q \in Process : pc'[q] = "idle"
    BY <2>1, <2>2, <1>25
  <2> QED BY <1>A, <1>25, <2>5, <2>6, <2>7, Conclude
<1>29. ASSUME NEW n \in Name, SkipLine(n) PROVE SequentialInv'
  <2>1. UNCHANGED <<tables, object, pc, ptr, read, manifest, schemaRow, cfs, stale>>
    BY <1>29 DEF SkipLine, memory, locals, disk
  <2>2. /\ phase = "restoring" /\ phase' = "restoring" /\ pc[Main] = "idle"
        /\ lines[n] > 0 /\ lines' = [lines EXCEPT ![n] = @ - 1]
        /\ schemaRow[n] # None => ~Constructible(schemaRow[n])
    BY <1>29 DEF SkipLine, TakeLine, IsRestorable
  <2>3. Local(Main)
    BY <2>2, <1>25
  <2>4. \A m \in Name : /\ lines'[m] > 0 => lines[m] > 0
                       /\ lines[m] > 0 => lines'[m] > 0 \/ m = n
    BY <1>A, <2>2 DEF TypeOK, Manifest
  <2>5. Turns'
    BY <1>A, <2>1, <2>2 DEF SequentialInv, Turns
  <2>6. Local(Main)'
    <3>1. \A m \in Name :
             /\ tables[m] # None \/ lines[m] > 0 => manifest[m] > 0
             /\ manifest[m] > 0 => /\ schemaRow[m] # None
                                   /\ \/ tables[m] # None
                                      \/ lines[m] > 0
                                      \/ ~Constructible(schemaRow[m])
      BY <2>2, <2>3 DEF Local, Attached
    <3>2. \A m \in Name :
             /\ tables[m] # None \/ lines'[m] > 0 => manifest[m] > 0
             /\ manifest[m] > 0 =>
                   tables[m] # None \/ lines'[m] > 0 \/ ~Constructible(schemaRow[m])
      BY <2>2, <2>4, <3>1
    <3> QED BY <2>1, <2>2, <2>3, <3>2 DEF Local, Attached, Creating
  <2>7. \A q \in Process : pc'[q] = "idle"
    BY <2>1, <2>2, <1>25
  <2> QED BY <1>A, <1>25, <2>5, <2>6, <2>7, Conclude
<1>30. ASSUME NEW n \in Name, RestoreTable(n) PROVE SequentialInv'
  <2>1. /\ phase = "restoring" /\ phase' = phase /\ pc[Main] = "idle" /\ lines[n] > 0
        /\ lines' = [lines EXCEPT ![n] = @ - 1] /\ Construct(Main, n, schemaRow[n])
    BY <1>30 DEF RestoreTable, TakeLine
  <2>2. Local(Main) /\ \A q \in Process : pc[q] = "idle"
    BY <2>1, <1>25
  <2>3. /\ pc' = [pc EXCEPT ![Main] = "store_new"]
        /\ UNCHANGED <<tables, manifest, schemaRow, cfs, stale>>
    BY <2>1 DEF Construct, Goto, disk
  <2>4. (\A q \in Process : q # Main => pc'[q] = "idle") /\ pc'[Main] = "store_new"
    BY <1>A, <1>25, <2>2, <2>3 DEF TypeOK
  <2>5. Turns'
    BY <1>A, <2>1, <2>4, CatalogAssumption DEF SequentialInv, Turns, Process, Creating
  <2>6. /\ Obj(Main)'.name = n
        /\ \A m \in Name : tables[m] # None => object'[tables[m]] = object[tables[m]]
    BY <1>A, <1>25, <2>1, ConstructsOwn
  <2>7. \A m \in Name : lines'[m] > 0 \/ m = n <=> lines[m] > 0
    BY <1>A, <2>1 DEF TypeOK, Manifest
  <2>8. Local(Main)'
    <3>1. phase = "restoring" /\ phase' = phase
      BY <2>1
    <3>2. \A m \in Name :
             /\ tables[m] # None \/ lines[m] > 0 => manifest[m] > 0
             /\ manifest[m] > 0 =>
                   tables[m] # None \/ lines[m] > 0 \/ ~Constructible(schemaRow[m])
      BY <2>1, <2>2 DEF Local, Attached
    <3>3. \A m \in Name : \/ tables[m] = None
                          \/ m \in stale
                          \/ schemaRow[m] = object'[tables[m]].schema
      BY <2>1, <2>2, <2>6 DEF Local, Attached
    <3>4. \A m \in Name : manifest[m] > 0 => schemaRow[m] # None
      BY <2>2 DEF Local, Attached
    <3>5. \A m \in Name :
             LET attached == tables[m] # None \/ lines'[m] > 0 \/ Obj(Main)'.name = m
             IN  /\ attached => manifest[m] > 0
                 /\ manifest[m] > 0 => attached \/ ~Constructible(schemaRow[m])
      BY <2>6, <2>7, <3>2
    <3> QED BY <2>3, <2>4, <3>1, <3>3, <3>4, <3>5 DEF Local, Attached, Creating
  <2> QED BY <1>A, <1>25, <2>4, <2>5, <2>8, Conclude
<1>31. ASSUME Restart PROVE SequentialInv'
  <2>1. /\ \A q \in Process : pc'[q] = "idle"
        /\ phase' = "closed" /\ \A n \in Name : tables'[n] = None
        /\ UNCHANGED <<manifest, schemaRow, cfs>>
    BY <1>31 DEF Restart, disk
  <2>2. \A m \in Name : manifest[m] > 0 => schemaRow[m] # None
    BY <1>A DEF SequentialInv, Listing
  <2>3. Turns' /\ Local(Main)'
    BY <2>1, <2>2 DEF Turns, Local, Attached, Process, Creating
  <2> QED BY <1>A, <1>25, <2>1, <2>3, Conclude
<1>32. ASSUME UNCHANGED vars PROVE SequentialInv'
  <2>1. IInv'
    BY <1>A, Invariance
  <2>2. UNCHANGED <<tables, object, pc, ptr, read, manifest, schemaRow, cfs, stale, phase, lines>>
    BY <1>32 DEF vars, memory, locals, disk, startup
  <2>3. Turns'
    BY <1>A, <2>2 DEF SequentialInv, Turns
  <2>4. TableIsListed' /\ ReadIsCurrent'
    BY <1>A, <2>2 DEF SequentialInv, TableIsListed, ReadIsCurrent, Obj
  <2>5. Listing'
    BY <1>A, <2>2 DEF SequentialInv, Listing, Deleted, Expected, At, Obj
  <2>6. Rows'
    BY <1>A, <2>2 DEF SequentialInv, Rows, At, Obj
  <2> QED BY <2>1, <2>3, <2>4, <2>5, <2>6 DEF SequentialInv
<1> QED
  BY <1>1, <1>2, <1>3, <1>4, <1>5, <1>6, <1>7, <1>8, <1>9, <1>10, <1>11, <1>12, <1>13,
     <1>14, <1>15, <1>16, <1>17, <1>18, <1>19, <1>20, <1>21, <1>22, <1>23, <1>24, <1>26, <1>27, <1>28, <1>29, <1>30, <1>31, <1>32,
     <1>A DEF Next, Step, Request, Startup

LEMMA SequentialInitially == OneAtATime /\ Init => SequentialInv
<1> SUFFICES ASSUME OneAtATime, Init PROVE SequentialInv
  OBVIOUS
<1>1. IInv
  BY Initially
<1>2. Turns /\ TableIsListed /\ ReadIsCurrent
  BY DEF Init, Turns, TableIsListed, ReadIsCurrent, Process
<1>3. Listing /\ Rows
  BY DEF Init, Listing, Rows, Deleted, Expected, At, NoLines
<1> QED BY <1>1, <1>2, <1>3 DEF SequentialInv

LEMMA SequentialInductive ==
    ASSUME OneAtATime PROVE Spec => []SequentialInv
<1>1. Init => SequentialInv
  BY SequentialInitially
<1>2. SequentialInv /\ [Next]_vars => SequentialInv'
  BY SequentialStep
<1> QED BY <1>1, <1>2, PTL DEF Spec

(* Only DeleteTable and the end of the process take a table away.          *)
LEMMA TakenAway ==
    ASSUME TypeOK, [Next]_vars, NEW n \in Name, tables[n] # None, tables'[n] = None,
           restarts' = restarts
    PROVE  \E p \in Process : EraseTable(p) /\ Obj(p).name = n
<1>1. ~Restart
  BY DEF Restart, TypeOK
<1>2. ASSUME Startup \/ UNCHANGED vars PROVE UNCHANGED tables
  BY <1>2 DEF Startup, InitGlobalStorage, LoadManifest, RestoreTable, Construct, SkipLine,
              StartupDone, memory, vars
<1>3. ASSUME NEW p \in Client, Request(p) PROVE UNCHANGED tables
  BY <1>3 DEF Request, CreateTable, Construct, FindTable, DeleteTable, memory
<1>4. ASSUME NEW p \in Process, Step(p), ~EraseTable(p)
      PROVE  tables' = tables \/ \E m, o : tables[m] = None /\ tables' = [tables EXCEPT ![m] = o]
  <2>1. CASE Emplace(p)
    BY <2>1 DEF Emplace
  <2>2. CASE ~Emplace(p)
    BY <1>4, <2>2
    DEF Step, ReadManifest, StoreNew, Update, RefuseUpdate, StoreSchema, SkipStore, WriteCell,
        WriteNothing, ModifyColumnFamilies, Drop, UpdateRule, CreateFamily, Modification, RefuseModification,
        SwapCopies, IsDeleteProtected, DeleteManifestLine, DeleteFamilies, DeleteSchemaRow, memory
  <2> QED BY <2>1, <2>2
<1>5. ASSUME NEW p \in Process, Step(p), ~EraseTable(p) PROVE FALSE
  BY <1>4, <1>5 DEF TypeOK
<1>6. PICK p \in Process : EraseTable(p)
  BY <1>1, <1>2, <1>3, <1>5 DEF Next
<1>7. Obj(p).name = n
  BY <1>6 DEF EraseTable, TypeOK
<1> QED BY <1>6, <1>7

-----------------------------------------------------------------------------
(***************************************************************************)
(* Between requests the manifest lists the tables of the cluster, wherever *)
(* the process has ended before, and besides them only tables whose stored *)
(* schema Construct refuses: the end of the process loses no table that it *)
(* could restore, and brings none back that was deleted.                   *)
(***************************************************************************)
THEOREM RestartRestoresTheTables ==
    ASSUME OneAtATime PROVE Spec => []ManifestListsTables
<1>1. SequentialInv => ManifestListsTables
  <2> SUFFICES ASSUME SequentialInv, Quiescent, NEW n \in Name
               PROVE  /\ tables[n] # None => manifest[n] > 0
                      /\ manifest[n] > 0 /\ tables[n] = None =>
                            schemaRow[n] # None /\ ~Constructible(schemaRow[n])
    BY DEF ManifestListsTables
  <2>1. ~Deleted(n) /\ ~Expected(n)
    BY DEF Quiescent, Deleted, Expected, At, Process
  <2> QED BY <2>1 DEF SequentialInv, Listing, Quiescent
<1> QED BY <1>1, SequentialInductive, PTL

(* Between requests the row of a table is its schema, but for a row that a *)
(* refused CreateTable has overwritten.                                    *)
THEOREM RestartRestoresTheSchemas ==
    ASSUME OneAtATime PROVE Spec => []StoredSchemaIsCurrent
<1>1. SequentialInv => StoredSchemaIsCurrent
  BY DEF SequentialInv, Rows, StoredSchemaIsCurrent, Quiescent, At
<1> QED BY <1>1, SequentialInductive, PTL

(* DeleteTable leaves no line, no schema and no cells of the table on      *)
(* disk when it takes the table out of the cluster.                        *)
THEOREM DeletionIsComplete ==
    ASSUME OneAtATime PROVE Spec => DeleteLeavesNothing
<1>1. ASSUME SequentialInv, [Next]_vars, NEW n \in Name, tables[n] # None, tables'[n] = None,
             restarts' = restarts
      PROVE  /\ manifest'[n] = 0
             /\ schemaRow'[n] = None
             /\ \A f \in Family : <<n, f>> \notin cfs'
  <2>1. PICK p \in Process : EraseTable(p) /\ Obj(p).name = n
    BY <1>1, TakenAway DEF SequentialInv, IInv
  <2>2. pc[p] = "erase" /\ UNCHANGED <<manifest, schemaRow, cfs>>
    BY <2>1 DEF EraseTable, disk
  <2>3. Local(p)
    BY <1>1, <2>2, Alone
  <2> QED BY <2>1, <2>2, <2>3 DEF Local, Attached
<1>2. SequentialInv /\ [Next]_vars =>
         [\A n \in Name :
             tables[n] # None /\ tables'[n] = None /\ restarts' = restarts =>
               /\ manifest'[n] = 0
               /\ schemaRow'[n] = None
               /\ \A f \in Family : <<n, f>> \notin cfs']_vars
  BY <1>1
<1> QED BY <1>2, SequentialInductive, PTL DEF Spec, DeleteLeavesNothing

=============================================================================

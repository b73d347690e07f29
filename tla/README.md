# A TLA+ verification of bigtable-emulator

An emulator of Google Cloud Bigtable: one process with a gRPC server, tables
held in memory, and since the persistence work (`persistence.md`) a RocksDB
database that mirrors some of what is in memory and from which reads are served.
This directory models its core logic, model-checks it with TLC and proves with
TLAPS, for every value of the constants, every safety property that is checked
outside the row filters and SampleRowKeys, and the safety that liveness rests on. Everything is translated from
the C++ source; `PROJECT.json` gives the lines of every definition.

## 1. The system

| component | state | operations | interacts with |
|---|---|---|---|
| gRPC services (`server.cc`) | none | one handler per RPC, concurrent, each holding a `shared_ptr<Table>` while it works | cluster, tables |
| cluster (`cluster.cc`) | `table_by_name_` under `Cluster::mu_` | CreateTable, DeleteTable, FindTable, AttachTable, ListTables, GetTable | tables, storage |
| table schema (`table.cc`) | `schema_`, `column_families_` under `Table::mu_` | Construct, Update, ModifyColumnFamilies, `store_schema` | storage |
| row requests (`table.cc`, `RowTransaction`) | the cells, the undo log | MutateRow(s), CheckAndMutateRow, ReadModifyWriteRow, Undo, DropRowRange | column families, storage, streams |
| column families, GC rules (`column_family.cc`) | maps row → column → timestamp | SetCell, deletions, RunGC | tables |
| GC thread (`table.cc`, `table.h`) | `stop_flag_`, `gc_mtx_`, `cv_` | wait a minute, RunGC; `~Table` stops and joins it | table |
| storage (`storage.cc`) | RocksDB, `cf_handles_` | PutCell, Delete*, PutBatch, GetRow, iterators | all of the above |
| startup (`emulator.cc`) | none | start the server, open the database, restore the tables of the manifest, wait | cluster, storage |
| ReadRows response (`row_streamer.cc`) | pending chunks, last row/family/qualifier | Stream, Flush | streams, gRPC |
| range sets (`range_set.cc`), filtered views (`filtered_map.h`) | disjoint sorted ranges; two iterators | Sum, Intersect; walk a map through the set | row sets, filters |
| cell streams and filters (`filter.cc`, `column_family.cc`) | trees of streams | Next, ApplyFilter, merge, condition | column families or RocksDB |
| SampleRowKeys (`table.cc`) | offset, the flag `wrote_a_sample` | one response per sampled row, a stand-in, a last one | streams, gRPC |

What is hard in it, and what makes it correct:

* **Row requests** change memory and RocksDB mutation by mutation and may be
  refused or cut off in the middle. A request must be atomic on its row; what was
  persisted must stay; memory and RocksDB must not drift apart.
* **Schemas** are persisted by a read–modify–write of a common manifest, under
  mutexes that are per table, while tables are created, changed, deleted and
  restored at once, and the process may end between any two writes.
* **Threads**: a table is owned by whoever holds a pointer to it; its destructor
  joins a thread that sleeps or collects garbage in the table.
* **Data structures**: the merge of ranges with open and closed bounds, the walk
  of two iterators, the verdicts of garbage collection, the chunks that leave
  out what did not change. Their mistakes are at boundaries.
* **Streams** are trees of filters that skip by cells, columns and rows, that
  move below one another, and that keep counts of what they have seen. What the
  reader gets must be what the filter says, whatever order the tree was built
  in, and the same cells must come out of memory and of RocksDB.

The hazards are listed with their lines in `PROJECT.json`.

## 2. The modules

| module | models | used by |
|---|---|---|
| `Storage` | cells of a table in RocksDB, `cf_handles_` with its null entries | `RowTransaction` |
| `RowTransaction` | the row requests of a table, the undo log, DropRowRange, GC as a whole, restarts | `MCRowTransaction`, proofs |
| `AtomicTable` | what the in-memory table promises: a request changes one row at once or nothing | refined by `RowTransaction` |
| `RowTransactionProofs` | theorems on `RowTransaction` | |
| `Catalog` | cluster, schemas, manifest, startup, deletion, process end | `MCCatalog`, proofs |
| `CatalogProofs` | theorems on `Catalog` | |
| `GCThread` | one table's clients, GC thread and destructor | run directly, proofs |
| `GCThreadProofs` | theorems on `GCThread` | |
| `GCRule` | validity and verdict of (nested) rules; `GCRuleGarbage`, the reference | `MCColumnGC` |
| `ColumnGC` | `ColumnRow::RunGC` step by step, the clock going on | `MCColumnGC`, proofs |
| `ColumnGCProofs` | theorems on `ColumnGC` | |
| `RowStreamer` | the response of ReadRows | run directly, proofs |
| `RowStreamerProofs` | theorems on `RowStreamer` | |
| `RangeSetImpl` | the templates `RangeSetSumImpl`, `RangeSetIntersectImpl`, with the range type as parameter | `RangeScan`, `FamilyStream` |
| `RangeScan` | string ranges, row sets, column range filters and the filtered view | run directly, proofs |
| `RangeScanProofs` | theorems on `RangeSetImpl` for strings and on `RangeScan` | |
| `CellOrder` | cells and their places in a stream, the three modes of `Next`, the order of a merge | all stream modules |
| `CellSource` | what `AbstractCellStreamImpl` promises: one stream of cells; and a lenient form of it | refined by `FamilyStream`, in its lenient form by `MergeStreams` |
| `MergeStreams` | `MergeCellStreams`, loop by loop | `MCMergeStreams`, proofs |
| `MergeStreamsProofs` | theorems on `MergeStreams`, with the refinement of `CellSource` | |
| `FamilyStream` | the stream of a column family, in memory and in RocksDB | `MCFamilyStream`, proofs |
| `FamilyStreamProofs` | theorems on `FamilyStream`, with the refinement of `CellSource` | |
| `FilterMeaning` | what a row filter says: the reference, and where the code differs | `Filters` |
| `Filters` | `CreateFilter`, every filter, and a reader of the stream it makes | `SampleRowKeys` |
| `SampleRowKeys` | `Table::SampleRowKeys` beside ReadRows, on the streams of `Filters` | `MCFilters` |

`MC*` modules only give constants their values (`MCColumnGC` gives `ColumnGC` the
definitions of `GCRule` as its verdict and its reference). The `TypeOK` of each module with a
proof module is a theorem; the run RowTransaction_storage also checks its own. Definitions named
`<Definition>_<Fault>`, each with a comment "Mutant", are faulty forms of the
definition below them; no specification uses them. Each shows that a property
fails when the code has that fault.

### RowTransaction and Storage

State: `mem` is `column_families_`, its nested maps flattened to a function on
cells; `store` and `handle` are RocksDB and `cf_handles_`; `pc`, `row`,
`tableKey`, `undo` are the transaction. One action per request start
(`MutateRow`, `CheckAndMutateRow`, `ReadModifyWriteRow`, `ReadRows`), per
mutation kind, and for `Commit`, `Undo` (one turn of the loop) and
`ReturnError`. `Table::mu_` is held from the first to the last step of a request,
so only `Restart` can come between them. An action such as `SetCell` is the
whole of `RowTransaction::SetCell`: the write to RocksDB, the change of memory
and the undo entry. `Persistent` says whether there is a database. Without it,
memory is what clients read; with it, RocksDB is.

Modelled as they are in the code, although surprising: the null handle that
`DeleteColumn` leaves in `cf_handles_`; `PutCell` failing silently on it;
`AddToCell` and `ReadModifyWriteRow` writing memory only; `DeleteFromColumn`
deleting all timestamps in RocksDB; `Undo` restoring values in memory only;
DropRowRange and GC leaving RocksDB alone; predicates that see all rows.
A read that would dereference a null iterator ends the process, which `Restart`
covers.

History variables (`snap`, `snapStore`, `acked`, `excused`) are never read by
an action. `acked` is what the persisted cells should be if one follows the
mutations; `excused` are the cells for which the code cannot keep that: the row of
a request that was refused or cut off, until written again; the cells of the
column outside a DeleteFromColumn's range; cells set through a null handle. The excuses
are the findings below, so `AckedCellsPersist` says that nothing *else* is lost.

### Catalog

Every thread has a program counter, a `shared_ptr` (`ptr`), a manifest it has
read (`read`) and the two copies a ModifyColumnFamilies works on (`copy`). A
manifest is a bag of lines: how often each name stands in it. The order of the lines
only says which table `main()` restores first, and that is left open. A schema has the
fields a request can change: the families with their definitions, `deletion_protection`,
and whether there is a `change_stream_config`. `Rule` are all definitions of a family and
`ValidRule` those that `ConstructColumnFamily` accepts; `Constructible` says which
schemas `Table::Construct` does not refuse. Requests whose schema is refused change
nothing; an update (`Merged`, `UpdateRule`) may however persist a schema that the *next*
start refuses, and then `main()` leaves the line where it is and goes on (`SkipLine`). Steps
end where a mutex is taken or released or the database has been read or
written. An object is destroyed when neither the map nor a thread points to it,
as by `shared_ptr`. `phase` is how far `main()` is: `closed` (the server answers,
no database), `open`, `restoring`, `serving`. `cfs` are the RocksDB column
families that hold cells. `EarlyRequests = FALSE` lets requests come only
after the startup, so that the runs can tell what holds with and without
the race. `Restart` may happen at any step.

### GCThread, ColumnGC, RowStreamer, RangeScan

`GCThread` splits `wait_for` into its predicate, the atomic release-and-wait,
the notification, the time-out and the spurious wake-up, and `~Table` into
flag, notification and join.

`ColumnGC` has the rules, the verdict on a cell, the reference `Garbage` and the depth of a
rule as constants, tied together by one equation for each kind of rule
(`RuleAssumption`, `VerdictAssumption`, `GarbageAssumption`). `MCColumnGC` gives it the recursive
definitions of `GCRule`, and TLC evaluates the assumptions for them; the proofs have only the equations.

`RowStreamer` compares `current_row_key_` with family and qualifier as
the code does, so strings are drawn from sets that overlap.

`RangeScan` numbers strings in their order and says by `Consecutive` between
which of them nothing lies; `Points` has a stand-in for the strings in between.
Ranges are written as the code has them. `disjoint_ranges_` is a set of them, which
the code's `StartLess` orders; `filter_pos_` (`fpos`) is a range of the set or
`NoRange`, the end. The reference, `Denotes`, is written without the code's
comparisons. The model covers in-memory streams; a
persistent stream does not get the row set (a finding).

### The streams: CellSource, MergeStreams, FamilyStream

`CellSource` is the interface of `filter.h`: `rest` is the set of cells not yet left
behind. Until the stream is first looked at, a filter may be applied, which takes out
exactly the cells it does not keep, or refused, which leaves the stream unchanged; then
`Next(mode)` leaves behind exactly the first cell, its column, or its row. `LenientSpec`
promises less of a refused filter: it may have taken out cells, but none that it keeps,
which is enough for a user that puts the same filter on top.

`MergeStreams` follows `MergeCellStreams` step by step: `heap` and `pending`
are the two parts of `unfinished_streams_`, split at `to_readd_begin`; the loop that
pops streams, the loop that advances them, and the swap with the last element
when one is finished are actions. `ApplyFilter` asks every stream, and those that accept stay
filtered when another refuses. So the merge keeps the strict interface for a filter that
is applied and only the lenient one for a filter that is refused (`IsOneStream`), contrary
to `filter.h:133` (`UnchangedWhenRefused`, refuted). The cells under the heap are any finite sets whose
cells have places (`at`) that follow the column order. The refinement maps `rest` to the cells of all streams, each with the
stream it comes from; a call takes effect when the streams to advance are known
(`StopPopping`). Which of two equal streams is in front is left open, as
`std::pop_heap` leaves it.

`FamilyStream` has both streams of a column family behind one interface:
`stored` says which. In memory the three nested views are sets (`RowsView`,
`ColumnsView`, `CellsView`) and `FirstOfRows`, `FirstOfColumns` are the loops
that pass over rows and columns with nothing to show. A stream intersects the
whole of time with ranges, so its set never has more than one range and the
timestamp view shows just the cells inside it. A range has its start in it and not its
end, as the code has it and the Bigtable API; the comment at `range_set.h:133` says the
opposite (`TimeRangesAsDocumented`, refuted). In RocksDB a key is text; a name
is cut at its separators into parts, and `PartRank` orders the parts as their bytes
with the separator appended, so that `a!/` comes before `a/`. `Parse` is
`ParseCurrentKey`. Timestamps are compared as text (10 before 9).

`SelectsWhatIsAsked` compares, cell by cell, with the conjunction of everything that was
applied, timestamps in microseconds. Two things are excused, each for the cells it
concerns. `Misread` cells may be lost or shown: those stored under a name with a
separator, those in the millisecond that a finer bound cuts, and all cells if a range ends within
the first millisecond, since its end becomes 0, infinity. What storage `Ignores` may be shown but
never lost: rows outside the row set, which is not passed on, and cells of which a second regex
of a kind does not match, since any of them suffices. Refuted properties say that each of these
is a disagreement of the code. `IsOneStream` holds the stream to the strict interface: each filter takes
out just what it leaves out by the code's comparison of milliseconds, for all names;
only a second regex of a kind in storage (`Widens`) takes out nothing, and may bring cells back.

### FilterMeaning, Filters, SampleRowKeys

A filter is a record and a stream is a record; a constructor called twice is a
stream used twice. `Make` is `CreateFilterImpl`, `Apply` is `ApplyFilter` with
`filter_filter` (`Lets`), `Advance` is `Next`, `Pull` the loop of
`TrivialFilter`, `OnNewRow` that of `ConditionStream`. `Build`, `Read` and
`Finish` are ReadRows: the stream is made, its cells are taken one by one.
`stored` chooses the storage: RocksDB has the oldest cell of a column
first, one matching regex is enough, and its families have names with a prefix.
The draws of the row sample filter are the set of rows its record keeps.

`FilterMeaning` says what the filter does to the sequence of all cells, with
no streams: a filter keeps some, a limit keeps the first of each row or column, a
chain composes, an interleave merges, a condition chooses per row. `Regular`
names the filters for which the code does something else, which are gaps of
the code: a limit per row does not count cells of columns that a later filter skips;
a timestamp range above a count moves on by column at a cell that is too new; a
count above an interleave sees the oldest cell of several streams first; a sink in
a branch of a condition takes all rows. `RegularInStorage` adds those of RocksDB.

`SampleRowKeys` adds the request of that name: the first row is measured, sampled
rows are answered with growing offsets, and at the end `wrote_a_sample`, which is
never set to false, may read as either value if no row was sampled.

## 3. The runs

`tlc -workers 2 -config X.cfg M` for each row; all finish within the bounds shown.

| run | module | bounds | checks |
|---|---|---|---|
| RowTransaction_ram | MCRowTransaction | 2 rows, 1 family, 1 column, 2 timestamps, 2 values (one not a number), 2 changes per request, no database | `UndoLogLeadsBack`, `RollbackRestoresMemory`, `AtomicRows` (refinement of `AtomicTable`), `RollbackEnds` |
| RowTransaction_storage | MCRowTransaction | 2 rows, 2 families (one aggregate), database, restarts | `TypeOK`, `UndoLogCoversRow`, `StoredCellsReachable`, `AckedCellsPersist` |
| Catalog_sequential | MCCatalog | 2 tables, 1 client, 2 definitions of a family, one of which Construct refuses, 2 modifications, all updates, 2 restarts, requests after the startup | `ManifestListsTables`, `StoredSchemaIsCurrent`, `FamiliesMatchSchema`, `DeleteLeavesNothing` |
| Catalog_concurrent | MCCatalog | 1 table name, 2 clients and main at once, one update (both fields), 2 objects, 1 restart | `NoDanglingTable`, `ManifestHasNoDuplicates`, `ClusterMutexReleased` |
| GCThread | GCThread | 3 clients | `NoUseAfterFree`, `OneDestructor`, `DestructorReturns` |
| ColumnGC | MCColumnGC | 4 timestamps, clock to 4, rules nested 3 deep | `NewestSurvive`, `CollectsWhatTheRuleSays`, `NoGarbageLeft` |
| RowStreamer | RowStreamer | 5 cells, batches of 2, rows limit 2 | `CellsDecode`, `RowsCommittedWhole`, `AllCellsSent` |
| RangeScan | RangeScan | 5 strings, 4 keys/ranges/filters, all maps | `RangesAreDisjoint`, `AskedIsCovered`, `ViewShowsTheSelection`, `AdjacencyIsAskedInOrder` |
| MergeStreams | MCMergeStreams | 3 streams, at most 6 cells out of 5 different ones, 3 filters, any modes | `UnfinishedAreKept`, `AppliedFiltersHold`, `NeverBack`, `NextReturns`, `IsOneStream` (refinement of `CellSource`, lenient where a filter is refused) |
| FamilyStream | MCFamilyStream | all tables over 7 cells, 4 names (one with a separator, one that sorts differently in storage), 4 time ranges, two of them finer than a millisecond, 2 filters, both storages | `SelectsWhatIsAsked`, `IsOneStream` (refinement of `CellSource`), `NeverBack` |
| Filters | MCFilters | 11 tables of up to 6 cells, some 3,400 filters: every kind, chains of 2 and 3, interleaves and conditions, both storages; row samples | `ShowsWhatTheFilterSays`, `InColumnOrder`, `DrawnRowsAreSampled`, `OffsetsIncrease` |

Why these bounds are enough to be of interest. Undo: two changes let a cell be
changed twice and two cells once, with the orders that matter. Storage: two rows
and two families tell range deletions of a row, a family and a column apart, and
a second family is what a wrong handle would touch. Catalog: two names tell
the lines of the manifest apart, so that a write of one can lose the other's; a second client or `main()`
is what every race needs; a definition of a family that is refused and an update of each field let a
schema become one that the next start skips while another table's does not; two objects are one deleted but held and one created
or restored in its place. The concurrent run leaves single modifications out:
they happen under the table's mutex and are the business of the sequential run. Streamer: five cells over batches of two let a batch end
inside a row and at its end. Ranges: two ranges in the set and one inserted that
starts before, in, between or after them need five strings, and a further request
to act on the result. Merge: three streams let one be finished while two
others are advanced behind the heap; two cells of a column and one each that differs in
column, family and row tell the modes apart. Family: the cells cover two
versions with texts in the other order, a second column and row, and names the
separator cuts; two filters are what it takes for one to change the other; the time ranges
meet at a bound, and one begins and one ends inside a millisecond.
Filters: three versions, two columns, two families with a column of the same name, two
rows; a chain of three has a filter pushed past two others.

`CHECK_DEADLOCK FALSE` is used where the system really stops: a response that has
been sent (RowStreamer, RangeScan, Filters), a stream that is at its end
(MergeStreams, FamilyStream) and a table that has been destroyed (GCThread).

Fairness. `RowTransaction`: weak fairness of `Undo` and `ReturnError`, the rest of
a destructor that already runs. `Catalog`: weak fairness of each thread's steps; a
mutex in `Catalog` is only contended by threads that leave it for good, so
weak fairness is enough. `GCThread`: weak fairness of the running threads,
and strong fairness of `SetStopFlag`, which needs `gc_mtx_`: the thread releases it
for up to a minute each time it waits. No time-out, spurious wake-up or
request is assumed to happen. `MergeStreams`: weak fairness of `Return`, the loops
of a call of `Next` that has begun; whether it is called again is up to its user.

### Findings

One run checks a statement of the repository that the code does not keep; TLC
finds it violated, and `PROJECT.json` quotes the statement:
RowTransaction_rollback_finding, in which a rollback restores overwritten and
deleted values in memory only, so that storage and memory differ.

More disagreements of the same kinds were met while modelling. Their properties stand
at the end of their modules, and the configuration named here refutes them; they are
not among the runs. Some configurations list several properties: TLC stops at the
first one it refutes, so leave in the one to be looked at.

| configuration, module | property | what the code does |
|---|---|---|
| RowTransaction_findings, MCRowTransaction | `SetCellIsMirrored` | after DeleteColumn on a family never written, SetCell no longer reaches RocksDB (`storage.cc:260`) |
| | `DeleteValueIsNewCell` | after a restart a persisted cell counts as new, and rollback deletes it (`table.cc:1252`) |
| | `DeleteFromColumnIsMirrored` | DeleteFromColumn deletes all timestamps from RocksDB (`table.cc:1144`) |
| RowTransaction_predicate_finding, MCRowTransaction | `PredicateReadsItsRow` | with a database the predicate of CheckAndMutateRow sees all rows (`table.cc:543`) |
| Catalog_lostcreate_finding, MCCatalog | `CreatedTablesAreListed` | two creations at once lose a manifest line (`table.cc:68`) |
| Catalog_earlycreate_finding, MCCatalog | `CreatedTablesAreListed` | a table created before the database is open is not persisted (`emulator.cc:58`) |
| Catalog_deleted_finding, MCCatalog | `DeletedTablesAreNotListed` | an update that outlives its table puts it back in the manifest (`table.cc:68`) |
| Catalog_refusedcreate_finding, MCCatalog | `StoredSchemaIsTheTables` | a refused CreateTable has overwritten the stored schema (`cluster.cc:96`) |
| Catalog_dropfamily_finding, MCCatalog | `CellsInMemoryAreStored` | a refused ModifyColumnFamilies has dropped families from RocksDB (`table.cc:234`) |
| Catalog_notrestored_finding, MCCatalog | `ListedTablesAreRestored` | an UpdateTable with `change_stream_config` (`table.cc:391`) persists a schema that the next start refuses and skips (`emulator.cc:84`): the table can be neither found nor deleted |
| RowStreamer_protocol_finding, RowStreamer | `ImplementsProtocol` | a change of family is left out when the row key is that family's name (`row_streamer.cc:45`) |
| RangeScan_findings, RangeScan | `SumIsTheSetSum` | adding a range merges it with the next one whatever lies between (`range_set.cc:177`) |
| | `AdjacentRangesAreMerged` | crossing open bounds with nothing between them are not adjacent (`range_set.cc:106`) |
| MergeStreams_findings, MCMergeStreams | `SortedByTimestamp` | among cells of a column the merge takes the oldest first, its streams the newest (`filter.cc:397`) |
| | `UnchangedWhenRefused` | a filter that one of the merged streams refuses stays applied to the others, although `filter.h:133` says a refused filter leaves the stream unchanged (`filter.cc:407`) |
| FamilyStream_findings, MCFamilyStream | `SortedByRow` | stored rows come out in the order of their text with the separator: `a!` before `a` (`storage.cc:92`) |
| | `RegexesAllMatch` | in storage one of several regexes suffices (`column_family.cc:949`) |
| | `TimeRangesAsDocumented` | timestamp ranges are closed on the left and open on the right (`range_set.cc:510`), not the other way round as the comment on the class says (`range_set.h:133`) |
| Filters_findings, MCFilters | `AlwaysWhatTheFilterSays` | in memory, filters that do not compose: see `Regular` (`filter.cc:910`) |
| | `StorageAppliesFilters` | in RocksDB a column range drops every family, an anchored family regex drops its own (`table.cc:586`) |
| | `ColumnLimitKeepsTheLatest` | in RocksDB a limit per column keeps the oldest cells (`filter.cc:165`) |
| | `PopulatedTableHasASample` | no sample for a table with rows when the uninitialised flag reads true (`table.cc:894`) |

The passing properties around a finding say how far the damage goes:
`ManifestListsTables` and `StoredSchemaIsCurrent` hold when requests come one
at a time and after the startup, and the first lets only those tables be missing whose stored
schema Construct refuses; a merge that refuses a filter loses no cell the filter keeps; `CellsDecode` holds for all cells but those
whose row key is their family's name; `AskedIsCovered` says that a read misses
nothing and stays between its first and last row; `ShowsWhatTheFilterSays`
holds for all filters but the pairs named in `Regular`.

## 4. What is proved

`tlapm <Module>Proofs.tla` for the eight proof modules; nothing is left without a
proof. Every theorem has the form `Spec => ...` and holds for all values of
the constants that satisfy the module's ASSUMEs, which say what the constants are
and, where a line below says so, one thing more. TLC evaluates them on every run.
Each invariant `IInv` was checked by TLC before it was proved.

| module | theorems, with the property of a run that each one states |
|---|---|
| RowTransactionProofs | `TypeCorrect` (`TypeOK`), `UndoLogOfOneRow` (`UndoLogCoversRow`), `UndoLog` (`UndoLogLeadsBack`), `Rollback` (`RollbackRestoresMemory`), `Atomicity` (`AtomicRows`), `CellsStayReachable` (`StoredCellsReachable`), `PersistedCells` (`AckedCellsPersist`), `DiskIsChangedByRow`, `RowsAreIsolatedOnDisk`, `RollbackIsBounded` |
| CatalogProofs | `TypeCorrect`, `TablesOutliveRequests` (`NoDanglingTable`), `SchemaNamesTheFamilies` (`FamiliesMatchSchema`), `NoDuplicateLines` (`ManifestHasNoDuplicates`), `NoDeadlock`, `RequestsAreShort`, `DeletionIsNotOvertaken`; with `OneAtATime`: `RestartRestoresTheTables` (`ManifestListsTables`), `RestartRestoresTheSchemas` (`StoredSchemaIsCurrent`), `DeletionIsComplete` (`DeleteLeavesNothing`) |
| GCThreadProofs | `TypeCorrect`, `DestroyedAfterLastUse` (`NoUseAfterFree`), `DestroyedOnce` (`OneDestructor`), `NotificationIsNotLost`, `NoDeadlock`, `ThreadEndsInTwoSteps` |
| ColumnGCProofs | `TypeCorrect`, `OldestGoFirst` (`NewestSurvive`), `RuleIsFollowed` (`CollectsWhatTheRuleSays`), `OneRunIsEnough` (`NoGarbageLeft`) |
| RowStreamerProofs | `TypeCorrect`, `CellsReadBack` (`CellsDecode`), `CommitsAreWhole` (`RowsCommittedWhole`), `NothingIsLeft` (`AllCellsSent`) |
| RangeScanProofs | `TypeCorrect`, `SumKeepsTheSet` (on the operator), `SetStaysDisjoint` (`RangesAreDisjoint`), `RequestIsCovered` (`AskedIsCovered`), `AssertionsHold` (`AdjacencyIsAskedInOrder`), `ViewIsTheSelection` (`ViewShowsTheSelection`) |
| MergeStreamsProofs | `TypeCorrect`, `NoStreamIsLost` (`UnfinishedAreKept`), `FiltersHold` (`AppliedFiltersHold`), `InOrder` (`NeverBack`), `MergeIsOneStream` (`IsOneStream`), `CallsEnd` |
| FamilyStreamProofs | `TypeCorrect`, `FiltersAreObeyed` (`SelectsWhatIsAsked`), `NeverGoesBack` (`NeverBack`), `FamilyIsOneStream` (`IsOneStream`), `FamiliesCanBeMerged` |

**RowTransaction.** Assumed: `None` is not a value (`NoneAssumption`); requests
carry timestamps that are in `Time` once truncated, and the like. Atomicity says that
`RowTransaction` implements `AtomicTable` under the mapping
`view <- IF pc = "idle" THEN mem ELSE snap`.
`RollbackRestoresMemory` is not inductive: it speaks of the moment when the log is
empty. The invariant `IInv` adds `UndoLogLeadsBack`: for each cell, either no
entry names it and memory holds its first value, or the *oldest* entry that
names it does. Pushing an entry keeps it because the entry records memory as it
is: if an older entry names the cell that one still decides, if not memory held
the first value. Popping the newest entry puts back its value: if it was the
oldest for a cell, memory holds the first value again. Two lemmas state just that
and are cited by every mutation. When the log is empty nothing is named, so
memory is the snapshot. Atomicity follows: every step but the last is a stutter of
`view`, and the last one changes only cells the log names, which
`UndoLogCoversRow` puts in the request's row.
`AckedCellsPersist` needs `IInv` (undoing touches only the request's row,
which is excused) and `StoredCellsReachable` (a deletion reaches every
persisted cell, so `store` and `acked` lose the same ones).
Two theorems say what the excuses cannot hide. The excused cells of a refused request are in its row:
a step changes the disk only there, and a rollback only deletes (`DiskIsChangedByRow`), so the
other rows are on disk as they were when the request began (`RowsAreIsolatedOnDisk`). Both
are about the rows the code names; whether the text of one key is a prefix of
another's is not modelled here. `RollbackIsBounded`: while a request is undone each step takes an entry
from its log or returns.

**Catalog.** Whatever runs at once: a mutex of a table is held by the thread
that runs one of the steps under it (`TableMutex`), so nobody else changes the schema
between the copies of a ModifyColumnFamilies and their taking over; the copies share
only families the table still has (`KeptAreRunning`); and a manifest that a thread has
read has no line twice (`NoDuplicateIsRead`), so what it writes back has none.
The other three theorems are false when requests overlap, as the findings show. They
assume `OneAtATime`: one client, which comes after the startup. Even so the
properties speak only of the moments between requests. `SequentialInv` says of every
step of a request, also of those at which the process may end, what is on disk:
who is expected in the manifest (`Expected`), who is already out of it (`Deleted`),
that a manifest that was read is still the one on disk (`ReadIsCurrent`), and what the
row of each table holds (`Rows`). A line whose schema Construct refuses is one that
no table needs to answer for: it is skipped, nothing creates its table but a CreateTable of
the same name, which overwrites the schema. The proof goes through the end of the process at each of
these steps and through the restoring of table after table by `main()`.
About the mutexes, again for any number of clients and during the startup: a thread that
cannot go on waits for one that can, or for a DeleteTable that holds `Cluster::mu_` and itself waits
for one that can (`NoDeadlock`); it needs that the cluster's mutex is held exactly by
the thread that deletes (`ClusterMutex`) and a table's by one of the `Locked` steps
(`TableMutex`), none of which wants the cluster's. Each step of a request leaves fewer of
its own to come (`RequestsAreShort`, by the measure `StepsLeft`). And no request that comes
during a deletion gets ahead of it (`DeletionIsNotOvertaken`), because it has to find the table first.
`CanStep`, which says when a thread can go on, is `ENABLED Step`; TLC was used to compare them.

**GCThread.** The properties speak of a destructor that runs or has run. What
leads there: while the table has an owner (the cluster or a request) it is not freed
and nobody is in its destructor (`OwnedUntilTheEnd`); of two threads in the
destructor one is the other, and it frees the table when the thread has
ended (`OneEnd`).
`Stopping` says where the thread can be once the flag is set: not between its test
and its wait, because `~Table` sets the flag under `gc_mtx_`. So the
notification finds it asleep or before its test, and is not lost (`NotificationIsNotLost`); a
destructor, or a request, that cannot go on waits for a thread that can
(`NoDeadlock`); and the thread ends within two of its steps, without another collection
(`ThreadEndsInTwoSteps`).

**ColumnGC.** Assumed are the equations of the verdict and of the reference, which are their
recursive definitions read from the outside, and that a rule's parts are nested less deep than
the rule. Both follow the nesting, so what they compute is
proved by induction on the depth (`RuleInduction`, from the least element of a set of numbers):
an older cell, a later rank or a later time is erased if a stricter case is
(`EraseVerdictIsMonotone`), and the garbage of a rule among some cells is what the verdict
erases by the rank among *all* of them (`GarbageIsVerdict`). The scan counts only the cells it kept, and the
clock goes on, so a cell that was erased and one that was kept were judged by different
ranks and at different times. The invariant says (`Scanning`) that each erased cell would be erased at
this moment too, so an older one, met later, is erased as well; and that each kept cell was kept by the rank among
all cells at the time of the start, since while anything is kept nothing newer has been erased. From these
two come the bounds of `CollectsWhatTheRuleSays` and that nothing is left for a second run.

**RowStreamer.** `sent \o pending` encodes what was streamed: at each place a row set by
some chunk before it, and a commit exactly where a row ends, except at the last
chunk, which is held back until it is known what follows (`Streaming`). `Done`
and `Aborted` are what is left of it at the end.

**RangeScan.** `RangeSetSumImpl` erases the ranges that the loop reaches, and its
first candidate without a test. `SumKeepsTheSet` shows of a set that is disjoint
(in the sense of the ranks of open and closed bounds) and of any range that is not empty:
the result is disjoint, holds what both held, and nothing before the first or
after the last of them. By it and by `CutIsIntersection` the set keeps its part of the invariant
(`Building`) through any sequence of requests; `Walking` relates the two
iterators of the view: ranges before `fpos` end before `pos`, entries before `pos`
that are in the set have been shown.

**MergeStreams.** Assumed of the streams is only that there are finitely many, each
with finitely many cells whose places follow the columns. While `Next` collects the
streams to advance, the last pending one shows the current cell and the others a cell
that goes with it (`Collected`); no stream shows a cell of a column before the
current one (`NothingBefore`). From them comes the refinement: what the call
leaves behind, over all the streams, is the current cell and what the mode leaves out with it.
`FilterIsApplied` says what a filter does: when all streams accept it, the cells of all of
them that it keeps are left, which is the strict interface; when some refuse it, nothing it
keeps is lost, which is the lenient one.
A call ends: at most twice as many steps as there are streams, and two (`CallsEnd`), because
a stream leaves the heap before it is advanced and is advanced once.

**FamilyStream.** Assumed: names are numbered in order, each is cut into at least one
part, different parts have different ranks, and the tables are finite sets of cells with
timestamps of one or two digits. Both streams are shown to walk the cells in a strict total order
(`WalkOrder`, `WalkTransitive`): rows, columns and descending times in memory, the
order of the keys in storage, which is compared part by part. Cells of a row, and of a
column, stand together in that walk (`MatchesBetween`), also when the
separator changes the order of the names, because different parts have different
ranks. Then each of the two implementations of `Next`, the loops over the maps (`MemoryNextIsFirst`)
and the parsing of keys (`FirstKeyIsFirst`), is shown to go to the *first* of the cells that
are later and not left out by the mode. The refinement of `CellSource`, the strict one, follows from these two facts and from what the
intersection of ranges does to the cells shown. The
inductive invariant adds to the types that the range sets hold just the intersection
of what was asked (`RangesAsAsked`), which is what makes
`SelectsWhatIsAsked` true after any number of filters. `FamiliesCanBeMerged` closes the gap between the two
components: the cells of a family stream, at the places where the walk meets them, are at all times
what `MergeStreams` assumes of its streams (`InPlace`). In storage this needs names that the separator
does not reorder (`NamesInOrder`), which is the finding `SortedByRow`.

Only model-checked:

* Liveness (`RollbackEnds`, `ClusterMutexReleased`, `DestructorReturns`,
  `NextReturns`): TLAPS does not cover fairness and ENABLED. What is proved is the safety each of them
  rests on: `RollbackIsBounded`; `NoDeadlock`, `RequestsAreShort` and `DeletionIsNotOvertaken` of `Catalog`;
  `NotificationIsNotLost`, `NoDeadlock` and `ThreadEndsInTwoSteps` of `GCThread`; `CallsEnd`. What is
  left to TLC is that a thread that can go on does.
* `ShowsWhatTheFilterSays`, `InColumnOrder`, `DrawnRowsAreSampled`, `OffsetsIncrease`: filters and
  streams are trees, and `FilterMeaning` and `Filters` (which `SampleRowKeys` extends) are recursive
  operators on them, with which no module can be proved about. Unlike a rule of garbage collection,
  a stream changes as it is read, and so does its depth when filters are pushed into it: one equation per
  kind of filter would be the whole of `Filters` over again.
* The properties of the findings, which TLC refutes.

## 5. Not modelled

* `CellStream`'s emulation of `Next` by columns and rows: every stream of
  the emulator answers `Next` itself, so it never runs.
* The iterators of the timestamp and regex views step by step: `FamilyStream`
  takes what they show. `TimestampRangeSet::Sum` beyond its one use, `All`.
* The byte layout of RocksDB keys where they are deleted by prefix
  (`storage.cc:295`); the encoding of schemas.
* The data race on `cf_handles_` between a family dropped by one table and
  lookups by another: `Storage` has the handles of one table.
* RocksDB calls that fail, limits on sizes, flags, conversion of statuses, the
  command line tools and the client script: no state of the emulator, or errors
  that the code does not look at.

## 6. Plan

1. *(done)* `Storage`, `RowTransaction`, `AtomicTable` and their proofs; `Catalog`;
   `GCThread`; `GCRule`, `ColumnGC`; `RowStreamer`; `RangeSetImpl`, `RangeScan`.
2. *(done)* `CellSource`, `MergeStreams`, `FamilyStream` (with the timestamp
   ranges); `FilterMeaning`, `Filters`; `SampleRowKeys`.
3. *(done)* Proofs of every safety property of `RowTransaction`, `Catalog`, `GCThread`, `ColumnGC`,
   `RowStreamer`, `RangeScan`, `MergeStreams` and `FamilyStream`, of the refinements of `AtomicTable`
   and `CellSource`, that family streams can be merged, that requests are isolated on disk, and of the
   bounds and the freedom from deadlock that liveness rests on.
4. `HandleMap`: `cf_handles_` across tables, with and without `cf_mutex_`; the
   deletion of rows by a prefix of text.
5. Proofs: that a merge of streams that implement `CellSource` is again in the order
   `MergeStreams` assumes of its own streams, as the stream of a family is; the isolation of rows on disk for
   the text of the keys.

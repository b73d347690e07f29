---------------------------- MODULE MergeStreams ----------------------------
(***************************************************************************)
(* MergeCellStreams (src/filter.cc): cell streams merged into one by a     *)
(* heap of the streams that still show a cell.  The object belongs to one  *)
(* thread; the steps are those of its loops.  A stream is the set of the   *)
(* cells it would still show, each with its place in the stream; the heap  *)
(* is the set of its streams, because which of two equal streams is in     *)
(* front is left to the library.                                           *)
(***************************************************************************)
EXTENDS CellOrder, FiniteSets

CONSTANTS
    Streams,    \* the streams that are merged
    Inputs,     \* what they may show
    Filters     \* the filters that may be pushed down: the cells each keeps

ASSUME StreamsAssumption ==
    /\ IsFiniteSet(Streams)
    /\ Inputs \subseteq [Streams -> SUBSET ShownCell]
    /\ \A input \in Inputs : \A s \in Streams :
            IsFiniteSet(input[s]) /\ InPlace(input[s])

VARIABLES
    cells,          \* what each stream still shows
    heap,           \* unfinished_streams_ up to to_readd_begin
    pending,        \* unfinished_streams_ from to_readd_begin on
    pc,             \* "new" until initialized_; then "ready", "pop", "advance"
    mode,           \* the argument of Next
    current,        \* the cell of *first_to_advance when Next was called
    applied         \* history: the filters all streams accepted

vars == <<cells, heap, pending, pc, mode, current, applied>>

NoCell == [row |-> 0, family |-> 0, column |-> 0, time |-> 0, at |-> 0]

Init ==
    /\ cells \in Inputs
    /\ heap = Streams
    /\ pending = <<>>
    /\ pc = "new"
    /\ mode = "cell"
    /\ current = NoCell
    /\ applied = {}

(* Mutant: one stream that accepted the filter is enough.                  *)
AllApplied_Any(accepting) == accepting # {}

(* What ApplyFilter returns when these streams accepted the filter.        *)
AllApplied(accepting) == accepting = Streams

(* Every stream is asked, also after one that refused.                     *)
ApplyFilter(keep, accepting) ==
    /\ pc = "new"
    /\ cells' = [s \in Streams |->
                    IF s \in accepting
                    THEN cells[s] \intersect keep
                    ELSE cells[s]]
    /\ applied' = IF AllApplied(accepting) THEN applied \union {keep} ELSE applied
    /\ UNCHANGED <<heap, pending, pc, mode, current>>

(* HasValue and Value of a stream.                                         *)
Shows(s) == cells[s] # {}

FirstOf(shown) == CHOOSE c \in shown : \A d \in shown : c.at <= d.at

Value(s) == FirstOf(cells[s])

(* What a stream still shows after its Next(mode): the cells from the      *)
(* first one on that the mode does not leave out.                          *)
After(shown, m) ==
    LET first == FirstOf(shown)
        stops == {c \in shown \ {first} : ~Matches(m, first, c)}
    IN {c \in shown : \E d \in stops : d.at <= c.at}

(* Mutant: streams that show nothing stay.                                 *)
Initialize_KeepAll ==
    /\ pc = "new"
    /\ pc' = "ready"
    /\ UNCHANGED <<cells, heap, pending, mode, current, applied>>

(* InitializeIfNeeded, on the first HasValue, Value or Next.               *)
Initialize ==
    /\ pc = "new"
    /\ heap' = {s \in heap : Shows(s)}
    /\ pc' = "ready"
    /\ UNCHANGED <<cells, pending, mode, current, applied>>

(* Mutant: the families are compared before the row keys.                  *)
Fronts_FamilyFirst ==
    {s \in heap : \A t \in heap :
        LET c == Value(s)  d == Value(t)
        IN ~(d.family < c.family \/ (d.family = c.family /\ MergesBefore(d, c)))}

(* The streams that may be in front of the heap.                           *)
Fronts == {s \in heap : \A t \in heap : ~MergesBefore(Value(t), Value(s))}

(* HasValue, Value: the cell of the stream in front.                       *)
HasValue == heap # {}

(* Next: the front stream leaves the heap.                                 *)
BeginNext(m) ==
    /\ pc = "ready"
    /\ HasValue
    /\ \E s \in Fronts :
        /\ heap' = heap \ {s}
        /\ pending' = <<s>>
        /\ current' = Value(s)
    /\ mode' = m
    /\ pc' = "pop"
    /\ UNCHANGED <<cells, applied>>

(* Mutant: for a row, only the streams at the same column are taken out.   *)
AdvancesToo_Column(s) == mode # "cell" /\ SameColumn(current, Value(s))

(* all_streams_to_advance_removed_from_heap, for a front stream.           *)
AdvancesToo(s) == Matches(mode, current, Value(s))

PopMatching ==
    /\ pc = "pop"
    /\ \E s \in Fronts :
        /\ AdvancesToo(s)
        /\ heap' = heap \ {s}
        /\ pending' = <<s>> \o pending
    /\ UNCHANGED <<cells, pc, mode, current, applied>>

StopPopping ==
    /\ pc = "pop"
    /\ \A s \in Fronts : ~AdvancesToo(s)
    /\ pc' = "advance"
    /\ UNCHANGED <<cells, heap, pending, mode, current, applied>>

(* Mutant: the last stream takes the place and also stays where it was.    *)
SwapWithBack_NoPop(streams) ==
    <<streams[Len(streams)]>> \o SubSeq(streams, 2, Len(streams))

(* A finished stream is replaced by the last one and dropped.              *)
SwapWithBack(streams) ==
    IF Len(streams) = 1 THEN <<>>
    ELSE <<streams[Len(streams)]>> \o SubSeq(streams, 2, Len(streams) - 1)

(* The first pending stream is advanced; it returns to the heap if it      *)
(* still shows a cell.                                                     *)
AdvanceStream ==
    /\ pc = "advance"
    /\ pending # <<>>
    /\ LET s == pending[1]
           after == After(cells[s], mode)
       IN
        /\ cells' = [cells EXCEPT ![s] = after]
        /\ IF after # {}
           THEN heap' = heap \union {s} /\ pending' = Tail(pending)
           ELSE pending' = SwapWithBack(pending) /\ UNCHANGED heap
    /\ UNCHANGED <<pc, mode, current, applied>>

EndNext ==
    /\ pc = "advance"
    /\ pending = <<>>
    /\ pc' = "ready"
    /\ mode' = "cell"
    /\ UNCHANGED <<cells, heap, pending, current, applied>>

(* The user of the stream; it may stop at any cell.                        *)
Call ==
    \/ \E keep \in Filters, accepting \in SUBSET Streams :
            ApplyFilter(keep, accepting)
    \/ Initialize
    \/ \E m \in NextModes : BeginNext(m)

Return == PopMatching \/ StopPopping \/ AdvanceStream \/ EndNext

Next == Call \/ Return

Spec == Init /\ [][Next]_vars /\ WF_vars(Return)

-----------------------------------------------------------------------------
(* Properties.                                                             *)

(* The vector of unfinished streams is the heap followed by the streams    *)
(* being advanced, and no stream is in it twice (a unique_ptr has one      *)
(* owner).                                                                 *)
TypeOK ==
    /\ pc \in {"new", "ready", "pop", "advance"}
    /\ mode \in NextModes
    /\ cells \in [Streams -> SUBSET ShownCell]
    /\ \A s \in Streams : InPlace(cells[s])
    /\ heap \subseteq Streams
    /\ pending \in Seq(Streams)
    /\ current \in ShownCell
    /\ applied \subseteq Filters
    /\ \A i \in DOMAIN pending : pending[i] \notin heap
    /\ \A i, j \in DOMAIN pending : i # j => pending[i] # pending[j]

(* No stream without a cell is ever compared, shown or advanced (the       *)
(* precondition of Value and Next in src/filter.h), and none that still    *)
(* shows a cell is lost.                                                   *)
UnfinishedAreKept ==
    pc # "new" =>
        \A s \in Streams :
            Shows(s) <=> (s \in heap \/ \E i \in DOMAIN pending : pending[i] = s)

(* A merged stream that said it applied a filter never shows a cell the    *)
(* filter leaves out (AbstractCellStreamImpl::ApplyFilter): the caller     *)
(* puts no filter of its own on top.                                       *)
AppliedFiltersHold ==
    pc = "ready" => \A s \in heap : \A keep \in applied : Value(s) \in keep

(* The cells come out by row key, column family and column, whatever       *)
(* modes the user mixes (the order AbstractCellStreamImpl promises):       *)
(* ReadRows and the condition filter never see a row again.                *)
NeverBack ==
    [][pc = "ready" /\ pc' = "pop" => ~ColumnBefore(current', current)]_vars

(* Every call of Next returns.                                             *)
NextReturns == pc = "pop" ~> pc = "ready"

(* The cells that are left, each with the stream it comes from.  The       *)
(* abstract step happens when the streams to advance are known.            *)
Left(s) ==
    LET owed == \E i \in DOMAIN pending : pending[i] = s
    IN IF pc = "advance" /\ owed THEN After(cells[s], mode) ELSE cells[s]

Tagged(s, c) ==
    [row |-> c.row, family |-> c.family, column |-> c.column, time |-> c.time,
     at |-> c.at, from |-> s]

Rest == UNION {{Tagged(s, c) : c \in Left(s)} : s \in Streams}

Untagged(c) ==
    [row |-> c.row, family |-> c.family, column |-> c.column, time |-> c.time,
     at |-> c.at]

KeepsTagged(keep, c) == Untagged(c) \in keep

Source == INSTANCE CellSource WITH
    Precedes <- ColumnBefore,
    InternalFilter <- Filters,
    Keeps <- KeepsTagged,
    rest <- Rest,
    started <- pc # "new"

(* The merged stream is one stream of the cells of all of them: a filter   *)
(* is applied to all of it when ApplyFilter returns true, a call of Next   *)
(* leaves behind its cell, its column or its row in every stream and       *)
(* nothing else.  When ApplyFilter returns false the streams that accepted *)
(* the filter have lost cells: only the lenient interface is kept, and no  *)
(* cell that passes the filter is lost.                                    *)
IsOneStream ==
    /\ Source!LenientSpec
    /\ [][StopPopping => Source!Advance(mode)]_vars
    /\ [][\A keep \in Filters, accepting \in SUBSET Streams :
            ApplyFilter(keep, accepting) =>
                IF AllApplied(accepting)
                THEN Source!ApplyFilter(keep, TRUE)
                ELSE Source!RefuseButNarrow(keep)]_vars

(* "Depending on the implementation the application may succeed or not. If *)
(* it doesn't, the stream is unchanged." (src/filter.h:133): the merge     *)
(* asks every stream, and those that accept stay filtered when another     *)
(* one refuses (src/filter.cc:407).                                        *)
UnchangedWhenRefused ==
    [][\A keep \in Filters, accepting \in SUBSET Streams :
        ApplyFilter(keep, accepting) =>
            Source!ApplyFilter(keep, AllApplied(accepting))]_vars

(* The comment on AbstractCellStreamImpl (src/filter.h:112) says that the   *)
(* cells are sorted by row key, family, column and timestamp.              *)
SortedByTimestamp ==
    [][pc = "ready" /\ pc' = "pop" => ~MergesBefore(current', current)]_vars

=============================================================================

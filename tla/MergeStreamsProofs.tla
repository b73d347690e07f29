-------------------------- MODULE MergeStreamsProofs --------------------------
(***************************************************************************)
(* Proofs about MergeStreams, for any number of streams, of any length:    *)
(* the vector of streams is kept in order, filters that were accepted      *)
(* hold, cells come out by row, family and column, and the merge is one    *)
(* stream of the cells of all of them.                                     *)
(***************************************************************************)
EXTENDS MergeStreams, FiniteSetTheorems, SequenceTheorems, WellFoundedInduction, TLAPS

Owed(s) == \E i \in DOMAIN pending : pending[i] = s

(* No stream shows a cell of a column before the current one any more.     *)
NothingBefore == \A s \in Streams : \A c \in cells[s] : ~ColumnBefore(c, current)

(* What an accepted filter leaves out is in no stream.                     *)
Filtered == \A s \in Streams : \A keep \in applied : cells[s] \subseteq keep

(* Next is looking for the streams it has to advance: the last pending one *)
(* shows the current cell, the others a cell that is left out with it.     *)
Collected ==
    /\ pending # <<>>
    /\ current = Value(pending[Len(pending)])
    /\ \A i \in 1..Len(pending) - 1 : Matches(mode, current, Value(pending[i]))

IInv ==
    /\ TypeOK
    /\ UnfinishedAreKept
    /\ NothingBefore
    /\ Filtered
    /\ pc = "new" => heap = Streams
    /\ pc \in {"new", "ready"} => pending = <<>>
    /\ pc = "pop" => Collected

-----------------------------------------------------------------------------
LEMMA NatHasMin ==
    ASSUME NEW S \in SUBSET Nat, S # {}
    PROVE  \E m \in S : \A k \in S : m <= k
<1>1. IsWellFoundedOn(OpToRel(<, Nat), Nat)
  BY NatLessThanWellFounded
<1>2. PICK m \in S : \A k \in S : <<k, m>> \notin OpToRel(<, Nat)
  BY <1>1, WFMin
<1>3. \A k \in S : ~(k < m)
  BY <1>2 DEF OpToRel
<1> QED BY <1>3

(* A stream that shows a cell has a first one. *)
LEMMA FirstOfProperties ==
    ASSUME NEW shown \in SUBSET ShownCell, shown # {}
    PROVE  /\ FirstOf(shown) \in shown
           /\ \A d \in shown : FirstOf(shown).at <= d.at
<1> DEFINE S == {c.at : c \in shown}
<1>1. S \in SUBSET Nat /\ S # {}
  BY DEF ShownCell
<1>2. PICK m \in S : \A k \in S : m <= k
  <2> HIDE DEF S
  <2> QED BY <1>1, NatHasMin
<1>3. PICK c \in shown : c.at = m
  BY <1>2
<1>4. \A d \in shown : c.at <= d.at
  BY <1>2, <1>3
<1> QED BY <1>3, <1>4 DEF FirstOf

(* Columns are in a linear order. *)
LEMMA ColumnOrder ==
    ASSUME NEW c \in ShownCell, NEW d \in ShownCell, NEW e \in ShownCell
    PROVE  /\ ~ColumnBefore(c, c)
           /\ ColumnBefore(c, d) /\ ColumnBefore(d, e) => ColumnBefore(c, e)
           /\ ColumnBefore(c, d) \/ ColumnBefore(d, c) \/ SameColumn(c, d)
           /\ ~ColumnBefore(d, c) /\ ~ColumnBefore(e, d) => ~ColumnBefore(e, c)
           /\ ~ColumnBefore(d, c) /\ ~ColumnBefore(e, d) /\ SameColumn(c, e) => SameColumn(c, d)
           /\ ~ColumnBefore(d, c) /\ ~ColumnBefore(e, d) /\ SameRow(c, e) => SameRow(c, d)
BY DEF ShownCell, ColumnBefore, SameColumn, SameRow

(* So a mode that leaves out e also leaves out what is in between.         *)
LEMMA MatchesBetween ==
    ASSUME NEW c \in ShownCell, NEW d \in ShownCell, NEW e \in ShownCell, NEW m,
           ~ColumnBefore(d, c), ~ColumnBefore(e, d), Matches(m, c, e)
    PROVE  Matches(m, c, d)
BY ColumnOrder DEF Matches

LEMMA MatchesProperties ==
    ASSUME NEW c \in ShownCell, NEW d \in ShownCell, NEW e \in ShownCell, NEW m
    PROVE  /\ Matches(m, c, d) => Matches(m, c, c)
           /\ Matches(m, c, d) => (Matches(m, c, e) <=> Matches(m, d, e))
BY DEF Matches, SameColumn, SameRow, ShownCell

(* The cells behind the first one that Next(m) does not leave out are all  *)
(* those it does not leave out.                                            *)
LEMMA AfterProperties ==
    ASSUME NEW shown \in SUBSET ShownCell, InPlace(shown), NEW m
    PROVE  /\ After(shown, m) \subseteq shown
           /\ shown # {} => After(shown, m) =
                 {c \in shown \ {FirstOf(shown)} : ~Matches(m, FirstOf(shown), c)}
<1>1. After(shown, m) \subseteq shown
  BY DEF After
<1>2. ASSUME shown # {}
      PROVE  After(shown, m) =
                 {c \in shown \ {FirstOf(shown)} : ~Matches(m, FirstOf(shown), c)}
  <2> DEFINE first == FirstOf(shown)
             stops == {c \in shown \ {first} : ~Matches(m, first, c)}
  <2>1. first \in shown /\ first \in ShownCell /\ \A d \in shown : first.at <= d.at
    BY <1>2, FirstOfProperties
  <2>2. After(shown, m) = {c \in shown : \E d \in stops : d.at <= c.at}
    BY DEF After
  <2> HIDE DEF first
  <2>3. ASSUME NEW c \in stops
        PROVE  c \in {b \in shown : \E d \in stops : d.at <= b.at}
    <3>1. c \in shown /\ c.at <= c.at
      BY DEF ShownCell
    <3> QED BY <3>1
  <2>4. ASSUME NEW c \in shown, NEW d \in stops, d.at <= c.at
        PROVE  c \in stops
    <3>1. c \in ShownCell /\ d \in ShownCell /\ d \in shown /\ d # first
      OBVIOUS
    <3>2. c # first
      <4>1. first.at < d.at
        BY <2>1, <3>1 DEF InPlace, ShownCell
      <4> QED BY <2>1, <2>4, <3>1, <4>1 DEF ShownCell
    <3>3. ~ColumnBefore(d, first) /\ ~ColumnBefore(c, d)
      BY <2>1, <2>4, <3>1 DEF InPlace, ShownCell
    <3>4. ~Matches(m, first, c)
      BY <2>1, <3>1, <3>3, MatchesBetween
    <3> QED BY <3>2, <3>4
  <2> QED BY <2>2, <2>3, <2>4 DEF first
<1> QED BY <1>1, <1>2

(* A part of a stream is still in order. *)
LEMMA InPlaceSubset ==
    ASSUME NEW shown, InPlace(shown), NEW part \in SUBSET shown
    PROVE  InPlace(part)
BY DEF InPlace

-----------------------------------------------------------------------------
LEMMA Initialization == Init => IInv
<1> SUFFICES ASSUME Init PROVE IInv
  OBVIOUS
<1>1. cells \in [Streams -> SUBSET ShownCell] /\ \A s \in Streams : InPlace(cells[s])
  BY StreamsAssumption DEF Init
<1>2. NoCell \in ShownCell /\ \A c \in ShownCell : ~ColumnBefore(c, NoCell)
  BY DEF NoCell, ShownCell, ColumnBefore
<1>3. pending = <<>> /\ pending \in Seq(Streams) /\ DOMAIN pending = {}
  BY EmptySeq DEF Init
<1>4. TypeOK
  BY <1>1, <1>2, <1>3 DEF Init, TypeOK, NextModes
<1>5. NothingBefore
  BY <1>1, <1>2 DEF Init, NothingBefore
<1> QED BY <1>3, <1>4, <1>5 DEF Init, IInv, UnfinishedAreKept, Filtered

LEMMA ApplyFilterStep ==
    ASSUME IInv, NEW keep \in Filters, NEW accepting \in SUBSET Streams,
           ApplyFilter(keep, accepting)
    PROVE  IInv'
<1>1. /\ pc = "new" /\ pc' = pc /\ heap' = heap /\ pending' = pending
      /\ mode' = mode /\ current' = current
  BY DEF ApplyFilter
<1>2. cells \in [Streams -> SUBSET ShownCell] /\ \A s \in Streams : InPlace(cells[s])
  BY DEF IInv, TypeOK
<1>3. cells' = [s \in Streams |-> IF s \in accepting THEN cells[s] \intersect keep
                                                   ELSE cells[s]]
  BY DEF ApplyFilter
<1>4. /\ cells' \in [Streams -> SUBSET ShownCell]
      /\ \A s \in Streams : cells'[s] \subseteq cells[s]
      /\ \A s \in accepting : cells'[s] \subseteq keep
  BY <1>2, <1>3
<1>5. \A s \in Streams : InPlace(cells'[s])
  BY <1>2, <1>4, InPlaceSubset
<1>6. applied' = applied \/ (accepting = Streams /\ applied' = applied \union {keep})
  BY DEF ApplyFilter, AllApplied
<1>7. TypeOK'
  BY <1>1, <1>4, <1>5, <1>6 DEF IInv, TypeOK
<1>8. NothingBefore'
  BY <1>1, <1>4 DEF IInv, NothingBefore
<1>9. Filtered'
  BY <1>4, <1>6 DEF IInv, Filtered
<1> QED BY <1>1, <1>7, <1>8, <1>9 DEF IInv, UnfinishedAreKept

LEMMA InitializeStep ==
    ASSUME IInv, Initialize
    PROVE  IInv'
<1> USE DEF Initialize
<1>1. pending = <<>> /\ DOMAIN pending = {} /\ heap = Streams
  BY DEF IInv
<1>2. heap' \subseteq heap
  OBVIOUS
<1>3. TypeOK'
  BY <1>1, <1>2 DEF IInv, TypeOK
<1>4. UnfinishedAreKept'
  BY <1>1 DEF UnfinishedAreKept, Shows
<1> QED BY <1>1, <1>3, <1>4 DEF IInv, NothingBefore, Filtered

(* The streams in front of the heap show the least of its cells. *)
LEMMA FrontIsLeast ==
    ASSUME TypeOK, NEW s \in Fronts, NEW t \in heap, Shows(s), Shows(t),
           NEW c \in cells[t]
    PROVE  /\ s \in heap /\ s \in Streams
           /\ Value(s) \in cells[s] /\ Value(s) \in ShownCell
           /\ Value(t) \in cells[t] /\ Value(t) \in ShownCell
           /\ c \in ShownCell
           /\ ~ColumnBefore(Value(t), Value(s))
           /\ ~ColumnBefore(c, Value(t))
           /\ ~ColumnBefore(c, Value(s))
<1>1. s \in heap /\ s \in Streams /\ t \in Streams
  BY DEF Fronts, TypeOK
<1>2. cells[s] \in SUBSET ShownCell /\ cells[t] \in SUBSET ShownCell /\ InPlace(cells[t])
  BY <1>1 DEF TypeOK
<1>3. /\ Value(s) \in cells[s] /\ Value(t) \in cells[t]
      /\ \A d \in cells[t] : Value(t).at <= d.at
  BY <1>2, FirstOfProperties DEF Value, Shows
<1>4. ~ColumnBefore(Value(t), Value(s))
  BY DEF Fronts, MergesBefore
<1>5. ~ColumnBefore(c, Value(t))
  BY <1>2, <1>3 DEF InPlace, ShownCell
<1> QED BY <1>1, <1>2, <1>3, <1>4, <1>5, ColumnOrder

(* The front stream leaves the heap, its cell is the current one. *)
LEMMA BeginNextStep ==
    ASSUME IInv, NEW m \in NextModes, BeginNext(m)
    PROVE  IInv' /\ ~ColumnBefore(current', current)
<1>1. PICK s \in Fronts : heap' = heap \ {s} /\ pending' = <<s>> /\ current' = Value(s)
  BY DEF BeginNext
<1>2. /\ pc = "ready" /\ pc' = "pop" /\ mode' = m
      /\ cells' = cells /\ applied' = applied
      /\ pending = <<>> /\ DOMAIN pending = {}
  BY DEF BeginNext, IInv
<1>3. \A t \in Streams : Shows(t) <=> t \in heap
  BY <1>2 DEF IInv, UnfinishedAreKept
<1>4. s \in heap /\ s \in Streams /\ Shows(s)
  BY <1>1, <1>3 DEF Fronts, IInv, TypeOK
<1>5. /\ Value(s) \in cells[s] /\ Value(s) \in ShownCell
      /\ ~ColumnBefore(current', current)
  <2>1. cells[s] \in SUBSET ShownCell /\ cells[s] # {}
    BY <1>4 DEF IInv, TypeOK, Shows
  <2>2. Value(s) \in cells[s] /\ Value(s) \in ShownCell
    BY <2>1, FirstOfProperties DEF Value
  <2> QED BY <1>1, <1>4, <2>2 DEF IInv, NothingBefore
<1>6. pending' \in Seq(Streams) /\ Len(pending') = 1 /\ DOMAIN pending' = {1} /\ pending'[1] = s
  BY <1>1, <1>4
<1>7. TypeOK'
  BY <1>1, <1>2, <1>5, <1>6 DEF IInv, TypeOK
<1>8. UnfinishedAreKept'
  <2>1. \A t : (\E i \in DOMAIN pending' : pending'[i] = t) <=> t = s
    BY <1>6
  <2>2. \A t \in Streams : t \in heap <=> (t \in heap' \/ t = s)
    BY <1>1, <1>4
  <2>3. \A t \in Streams : Shows(t)' <=> Shows(t)
    BY <1>2 DEF Shows
  <2> QED BY <1>3, <2>1, <2>2, <2>3 DEF UnfinishedAreKept
<1>9. NothingBefore'
  <2> SUFFICES ASSUME NEW t \in Streams, NEW c \in cells[t]
               PROVE  ~ColumnBefore(c, Value(s))
    BY <1>1, <1>2 DEF NothingBefore
  <2>1. Shows(t) /\ t \in heap
    BY <1>3 DEF Shows
  <2> QED BY <1>1, <1>4, <2>1, FrontIsLeast DEF IInv
<1>10. Collected'
  <2>1. Value(s)' = Value(s)
    BY <1>2 DEF Value
  <2> QED BY <1>1, <1>2, <1>6, <2>1, EmptySeq DEF Collected, Value
<1> QED BY <1>2, <1>5, <1>7, <1>8, <1>9, <1>10 DEF IInv, Filtered

(* Another stream leaves the heap and joins the pending ones. *)
LEMMA PopMatchingStep ==
    ASSUME IInv, PopMatching
    PROVE  IInv'
<1>1. PICK s \in Fronts :
        AdvancesToo(s) /\ heap' = heap \ {s} /\ pending' = <<s>> \o pending
  BY DEF PopMatching
<1>2. /\ pc = "pop" /\ pc' = pc /\ mode' = mode /\ current' = current
      /\ cells' = cells /\ applied' = applied
  BY DEF PopMatching
<1>3. s \in heap /\ s \in Streams /\ pending \in Seq(Streams) /\ <<s>> \in Seq(Streams)
  BY DEF Fronts, IInv, TypeOK
<1>4. Len(pending) \in Nat /\ DOMAIN pending = 1 .. Len(pending) /\ Len(<<s>>) = 1
  BY <1>3, LenProperties
<1>5. /\ pending' \in Seq(Streams) /\ Len(pending') = Len(pending) + 1
      /\ \A i \in 1 .. Len(pending) + 1 :
            pending'[i] = IF i = 1 THEN s ELSE pending[i - 1]
  <2>1. /\ <<s>> \o pending \in Seq(Streams)
        /\ Len(<<s>> \o pending) = 1 + Len(pending)
        /\ \A i \in 1 .. 1 + Len(pending) :
              (<<s>> \o pending)[i] = IF i <= 1 THEN <<s>>[i] ELSE pending[i - 1]
    BY <1>3, <1>4, ConcatProperties
  <2> QED BY <1>1, <1>4, <2>1
<1>6. DOMAIN pending' = 1 .. Len(pending) + 1
  BY <1>5, LenProperties
<1>7. TypeOK'
  <2>1. \A i \in DOMAIN pending' : pending'[i] \notin heap'
    BY <1>1, <1>4, <1>5, <1>6 DEF IInv, TypeOK
  <2>2. \A i \in DOMAIN pending : pending[i] # s
    BY <1>3 DEF IInv, TypeOK
  <2>3. \A i, j \in DOMAIN pending' : i # j => pending'[i] # pending'[j]
    <3>1. \A i \in DOMAIN pending' :
              \/ i = 1 /\ pending'[i] = s
              \/ i - 1 \in DOMAIN pending /\ pending'[i] = pending[i - 1]
      BY <1>4, <1>5, <1>6
    <3>2. \A i, j \in DOMAIN pending' : i # j => i - 1 # j - 1
      BY <1>6, <1>4
    <3>3. \A i, j \in DOMAIN pending : i # j => pending[i] # pending[j]
      BY DEF IInv, TypeOK
    <3> QED BY <2>2, <3>1, <3>2, <3>3
  <2> QED BY <1>1, <1>2, <1>5, <2>1, <2>3 DEF IInv, TypeOK
<1>8. UnfinishedAreKept'
  <2>1. \A t : (\E i \in DOMAIN pending' : pending'[i] = t)
                  <=> (t = s \/ \E i \in DOMAIN pending : pending[i] = t)
    <3>1. \A i \in DOMAIN pending : i + 1 \in DOMAIN pending' /\ pending'[i + 1] = pending[i]
      BY <1>4, <1>5, <1>6
    <3>2. 1 \in DOMAIN pending' /\ pending'[1] = s
      BY <1>4, <1>5, <1>6
    <3>3. \A i \in DOMAIN pending' : i = 1 \/ (i - 1 \in DOMAIN pending /\ pending'[i] = pending[i - 1])
      BY <1>4, <1>5, <1>6
    <3> QED BY <3>1, <3>2, <3>3
  <2>2. \A t \in Streams : t \in heap <=> (t \in heap' \/ t = s)
    BY <1>1, <1>3
  <2>3. \A t \in Streams : Shows(t)' <=> Shows(t)
    BY <1>2 DEF Shows
  <2> QED BY <1>2, <2>1, <2>2, <2>3 DEF IInv, UnfinishedAreKept
<1>9. Collected'
  <2>1. Collected
    BY <1>2 DEF IInv
  <2>2. Len(pending) > 0
    BY <1>3, <1>4, <2>1, EmptySeq DEF Collected
  <2>3. pending' # <<>> /\ pending'[Len(pending')] = pending[Len(pending)]
    BY <1>4, <1>5, <2>2, EmptySeq
  <2>4. \A i \in 1 .. Len(pending') - 1 :
            i = 1 \/ (i - 1 \in 1 .. Len(pending) - 1 /\ pending'[i] = pending[i - 1])
    BY <1>4, <1>5
  <2>5. pending'[1] = s
    BY <1>4, <1>5
  <2>6. Matches(mode, current, Value(s))
    BY <1>1 DEF AdvancesToo
  <2>7. \A i \in 1 .. Len(pending') - 1 : Matches(mode, current, Value(pending'[i]))
    BY <2>1, <2>4, <2>5, <2>6 DEF Collected
  <2> QED BY <1>2, <2>1, <2>3, <2>7 DEF Collected, Value
<1> QED BY <1>2, <1>7, <1>8, <1>9 DEF IInv, NothingBefore, Filtered

LEMMA StopPoppingStep ==
    ASSUME IInv, StopPopping
    PROVE  IInv'
BY DEF StopPopping, IInv, TypeOK, UnfinishedAreKept, Shows, NothingBefore, Filtered

(* The last stream takes the place of the first one. *)
LEMMA SwapWithBackProperties ==
    ASSUME NEW S, NEW streams \in Seq(S), streams # <<>>
    PROVE  /\ SwapWithBack(streams) \in Seq(S)
           /\ Len(SwapWithBack(streams)) = Len(streams) - 1
           /\ \A i \in 1 .. Len(streams) - 1 :
                 SwapWithBack(streams)[i] = IF i = 1 THEN streams[Len(streams)] ELSE streams[i]
<1>1. PICK n \in Nat : n = Len(streams) /\ n > 0
  BY EmptySeq, LenProperties
<1> DEFINE middle == SubSeq(streams, 2, n - 1)
<1>2. \A i \in 1 .. n : streams[i] \in S
  BY <1>1, ElementOfSeq
<1>3. CASE n = 1
  BY <1>1, <1>3, EmptySeq DEF SwapWithBack
<1>4. CASE n > 1
  <2>1. \A i \in 2 .. n - 1 : streams[i] \in S
    BY <1>1, <1>2
  <2>2. /\ middle \in Seq(S)
        /\ Len(middle) = n - 2
        /\ \A i \in 1 .. n - 2 : middle[i] = streams[i + 1]
    <3>1. /\ middle \in Seq(S)
          /\ Len(middle) = IF 2 <= n - 1 THEN n - 1 - 2 + 1 ELSE 0
          /\ \A i \in 1 .. n - 1 - 2 + 1 : middle[i] = streams[2 + i - 1]
      BY <1>1, <2>1, SubSeqProperties
    <3>2. \A i \in 1 .. n - 2 : 2 + i - 1 = i + 1 /\ i \in 1 .. n - 1 - 2 + 1
      BY <1>1
    <3>3. (IF 2 <= n - 1 THEN n - 1 - 2 + 1 ELSE 0) = n - 2
      BY <1>1, <1>4
    <3> HIDE DEF middle
    <3>4. \A i \in 1 .. n - 2 : middle[i] = streams[i + 1]
      BY <3>1, <3>2
    <3> QED BY <3>1, <3>3, <3>4
  <2>3. <<streams[n]>> \in Seq(S) /\ Len(<<streams[n]>>) = 1
    BY <1>1, <1>2
  <2>4. SwapWithBack(streams) = <<streams[n]>> \o middle
    BY <1>1, <1>4 DEF SwapWithBack
  <2> HIDE DEF middle
  <2>5. /\ <<streams[n]>> \o middle \in Seq(S)
        /\ Len(<<streams[n]>> \o middle) = 1 + (n - 2)
        /\ \A i \in 1 .. 1 + (n - 2) :
              (<<streams[n]>> \o middle)[i] =
                  IF i <= 1 THEN <<streams[n]>>[i] ELSE middle[i - 1]
    BY <2>2, <2>3, ConcatProperties
  <2> QED BY <1>1, <1>4, <2>2, <2>4, <2>5
<1>5. n = 1 \/ n > 1
  BY <1>1
<1> QED BY <1>3, <1>4, <1>5

(* What is pending once the first stream has been advanced, if it still    *)
(* shows a cell or if it has been dropped: all the others, each once.      *)
LEMMA RestIsPending ==
    ASSUME TypeOK, pending # <<>>, NEW rest,
           rest = Tail(pending) \/ rest = SwapWithBack(pending)
    PROVE  /\ rest \in Seq(Streams)
           /\ \A t : (\E i \in DOMAIN rest : rest[i] = t)
                         <=> (t # pending[1] /\ \E i \in DOMAIN pending : pending[i] = t)
           /\ \A i, j \in DOMAIN rest : i # j => rest[i] # rest[j]
           /\ pending[1] \in Streams
<1>0. pending \in Seq(Streams)
  BY DEF TypeOK
<1>1. PICK n \in Nat : n = Len(pending) /\ n > 0
  BY <1>0, EmptySeq, LenProperties
<1>2. DOMAIN pending = 1 .. n /\ \A i \in 1 .. n : pending[i] \in Streams
  BY <1>0, <1>1, LenProperties, ElementOfSeq
<1>3. \A i, j \in 1 .. n : i # j => pending[i] # pending[j]
  BY <1>2 DEF TypeOK
<1>4. rest \in Seq(Streams) /\ Len(rest) = n - 1
  BY <1>0, <1>1, HeadTailProperties, SwapWithBackProperties
<1>5. DOMAIN rest = 1 .. n - 1
  BY <1>4, LenProperties
<1>6. CASE rest = Tail(pending)
  <2>1. \A i \in 1 .. n - 1 : rest[i] = pending[i + 1]
    BY <1>0, <1>1, <1>4, <1>6, HeadTailProperties
  <2>2. \A i \in 2 .. n : i - 1 \in 1 .. n - 1 /\ rest[i - 1] = pending[i]
    BY <1>1, <2>1
  <2>3. \A i, j \in 1 .. n - 1 : i # j => i + 1 # j + 1 /\ i + 1 \in 2 .. n /\ j + 1 \in 2 .. n
    BY <1>1
  <2>4. \A i, j \in 1 .. n - 1 : i # j => rest[i] # rest[j]
    BY <1>3, <2>1, <2>3
  <2>5. ASSUME NEW i \in 1 .. n - 1
        PROVE  rest[i] # pending[1] /\ \E j \in 1 .. n : pending[j] = rest[i]
    <3>1. i + 1 \in 1 .. n /\ i + 1 # 1 /\ 1 \in 1 .. n
      BY <1>1
    <3> QED BY <1>3, <2>1, <3>1
  <2>6. ASSUME NEW i \in 1 .. n, pending[i] # pending[1]
        PROVE  \E j \in 1 .. n - 1 : rest[j] = pending[i]
    <3>1. i \in 2 .. n
      BY <1>1, <2>6
    <3> QED BY <2>2, <3>1
  <2>7. pending[1] \in Streams
    BY <1>1, <1>2
  <2>8. \A t : (\E i \in 1 .. n - 1 : rest[i] = t)
                   <=> (t # pending[1] /\ \E i \in 1 .. n : pending[i] = t)
    BY <2>5, <2>6
  <2> QED BY <1>2, <1>4, <1>5, <2>4, <2>7, <2>8
<1>7. CASE rest = SwapWithBack(pending)
  <2>1. \A i \in 1 .. n - 1 : rest[i] = IF i = 1 THEN pending[n] ELSE pending[i]
    BY <1>0, <1>1, <1>7, SwapWithBackProperties
  <2>2. \A i \in 2 .. n : \E j \in 1 .. n - 1 : rest[j] = pending[i]
    <3>1. \A i \in 2 .. n - 1 : rest[i] = pending[i]
      BY <1>1, <2>1
    <3>2. n > 1 => 1 \in 1 .. n - 1 /\ rest[1] = pending[n]
      BY <1>1, <2>1
    <3> QED BY <1>1, <3>1, <3>2
  <2>4. \A i, j \in 1 .. n - 1 : i # j => rest[i] # rest[j]
    <3>1. \A i \in 1 .. n - 1 : i \in 1 .. n /\ n \in 1 .. n /\ i # n
      BY <1>1
    <3> QED BY <1>3, <2>1, <3>1
  <2>5. ASSUME NEW i \in 1 .. n - 1
        PROVE  rest[i] # pending[1] /\ \E j \in 1 .. n : pending[j] = rest[i]
    <3>1. i \in 1 .. n /\ 1 \in 1 .. n /\ n \in 1 .. n /\ n # 1
      BY <1>1
    <3> QED BY <1>3, <2>1, <3>1
  <2>6. ASSUME NEW i \in 1 .. n, pending[i] # pending[1]
        PROVE  \E j \in 1 .. n - 1 : rest[j] = pending[i]
    <3>1. i \in 2 .. n
      BY <1>1, <2>6
    <3> QED BY <2>2, <3>1
  <2>7. pending[1] \in Streams
    BY <1>1, <1>2
  <2>8. \A t : (\E i \in 1 .. n - 1 : rest[i] = t)
                   <=> (t # pending[1] /\ \E i \in 1 .. n : pending[i] = t)
    BY <2>5, <2>6
  <2> QED BY <1>2, <1>4, <1>5, <2>4, <2>7, <2>8
<1> QED BY <1>6, <1>7

(* The first pending stream is advanced. *)
LEMMA AdvanceStreamProperties ==
    ASSUME IInv, AdvanceStream
    PROVE  LET s == pending[1]
               after == After(cells[s], mode)
           IN  /\ pc = "advance" /\ pc' = pc /\ mode' = mode /\ current' = current
               /\ applied' = applied
               /\ s \in Streams /\ Owed(s) /\ s \notin heap
               /\ after \in SUBSET cells[s]
               /\ cells' = [cells EXCEPT ![s] = after]
               /\ heap' = IF after # {} THEN heap \union {s} ELSE heap
               /\ pending' \in Seq(Streams)
               /\ \A t : Owed(t)' <=> t # s /\ Owed(t)
               /\ \A i, j \in DOMAIN pending' : i # j => pending'[i] # pending'[j]
<1>1. /\ pc = "advance" /\ pc' = pc /\ mode' = mode /\ current' = current
      /\ applied' = applied /\ pending # <<>> /\ TypeOK
  BY DEF AdvanceStream, IInv
<1>2. pending' = Tail(pending) \/ pending' = SwapWithBack(pending)
  BY DEF AdvanceStream
<1>3. /\ pending' \in Seq(Streams)
      /\ \A t : Owed(t)' <=> t # pending[1] /\ Owed(t)
      /\ \A i, j \in DOMAIN pending' : i # j => pending'[i] # pending'[j]
      /\ pending[1] \in Streams
  BY <1>1, <1>2, RestIsPending DEF Owed
<1>4. 1 \in DOMAIN pending
  <2>1. pending \in Seq(Streams)
    BY <1>1 DEF TypeOK
  <2> QED BY <1>1, <2>1, EmptySeq, LenProperties
<1>5. Owed(pending[1]) /\ pending[1] \notin heap
  BY <1>1, <1>4 DEF Owed, TypeOK
<1>6. After(cells[pending[1]], mode) \in SUBSET cells[pending[1]]
  BY DEF After
<1>7. cells' = [cells EXCEPT ![pending[1]] = After(cells[pending[1]], mode)]
  BY DEF AdvanceStream
<1>8. heap' = IF After(cells[pending[1]], mode) # {} THEN heap \union {pending[1]} ELSE heap
  BY DEF AdvanceStream
<1> QED BY <1>1, <1>3, <1>5, <1>6, <1>7, <1>8

LEMMA AdvanceStreamStep ==
    ASSUME IInv, AdvanceStream
    PROVE  IInv'
<1> DEFINE s == pending[1]
           after == After(cells[s], mode)
<1>1. /\ pc = "advance" /\ pc' = pc /\ mode' = mode /\ current' = current
      /\ applied' = applied
      /\ s \in Streams /\ Owed(s) /\ s \notin heap
      /\ after \in SUBSET cells[s]
      /\ cells' = [cells EXCEPT ![s] = after]
      /\ heap' = IF after # {} THEN heap \union {s} ELSE heap
      /\ pending' \in Seq(Streams)
      /\ \A t : Owed(t)' <=> t # s /\ Owed(t)
      /\ \A i, j \in DOMAIN pending' : i # j => pending'[i] # pending'[j]
  BY AdvanceStreamProperties
<1>2. PICK u : u = s
  OBVIOUS
<1>3. PICK left : left = after
  OBVIOUS
<1> HIDE DEF s, after
<1>4. /\ TypeOK /\ cells \in [Streams -> SUBSET ShownCell]
      /\ \A t \in Streams : InPlace(cells[t])
      /\ \A i \in DOMAIN pending : pending[i] \notin heap
  BY DEF IInv, TypeOK
<1>5. /\ cells' \in [Streams -> SUBSET ShownCell]
      /\ \A t \in Streams : cells'[t] = IF t = u THEN left ELSE cells[t]
      /\ \A t \in Streams : cells'[t] \subseteq cells[t]
  BY <1>1, <1>2, <1>3, <1>4
<1>6. \A t \in Streams : InPlace(cells'[t])
  BY <1>4, <1>5, InPlaceSubset
<1>7. \A i \in DOMAIN pending' : pending'[i] \notin heap'
  <2> SUFFICES ASSUME NEW i \in DOMAIN pending'
               PROVE  pending'[i] \notin heap'
    OBVIOUS
  <2>1. PICK t : t = pending'[i]
    OBVIOUS
  <2>2. Owed(t)'
    BY <2>1 DEF Owed
  <2>3. t # s /\ Owed(t)
    BY <1>1, <2>2
  <2>4. t \notin heap
    BY <1>4, <2>3 DEF Owed
  <2> QED BY <1>1, <2>1, <2>3, <2>4
<1>8. TypeOK'
  BY <1>1, <1>4, <1>5, <1>6, <1>7 DEF TypeOK
<1>9. UnfinishedAreKept'
  <2> SUFFICES ASSUME NEW t \in Streams
               PROVE  cells'[t] # {} <=> t \in heap' \/ Owed(t)'
    BY DEF UnfinishedAreKept, Shows, Owed
  <2>1. cells[t] # {} <=> t \in heap \/ Owed(t)
    BY <1>1 DEF IInv, UnfinishedAreKept, Shows, Owed
  <2>2. CASE t = s
    BY <1>1, <1>2, <1>3, <1>5, <2>2
  <2>3. CASE t # s
    BY <1>1, <1>2, <1>5, <2>1, <2>3
  <2> QED BY <2>2, <2>3
<1>10. NothingBefore'
  BY <1>1, <1>5 DEF IInv, NothingBefore
<1>11. Filtered'
  BY <1>1, <1>5 DEF IInv, Filtered
<1> QED BY <1>1, <1>8, <1>9, <1>10, <1>11 DEF IInv

LEMMA EndNextStep ==
    ASSUME IInv, EndNext
    PROVE  IInv'
BY DEF EndNext, IInv, TypeOK, NextModes, UnfinishedAreKept, Shows, NothingBefore, Filtered

LEMMA Inductive == IInv /\ [Next]_vars => IInv'
<1> SUFFICES ASSUME IInv, [Next]_vars PROVE IInv'
  OBVIOUS
<1>1. ASSUME NEW keep \in Filters, NEW accepting \in SUBSET Streams,
             ApplyFilter(keep, accepting)
      PROVE  IInv'
  BY <1>1, ApplyFilterStep
<1>2. CASE Initialize
  BY <1>2, InitializeStep
<1>3. ASSUME NEW m \in NextModes, BeginNext(m)
      PROVE  IInv'
  BY <1>3, BeginNextStep
<1>4. CASE PopMatching
  BY <1>4, PopMatchingStep
<1>5. CASE StopPopping
  BY <1>5, StopPoppingStep
<1>6. CASE AdvanceStream
  BY <1>6, AdvanceStreamStep
<1>7. CASE EndNext
  BY <1>7, EndNextStep
<1>8. CASE UNCHANGED vars
  BY <1>8 DEF vars, IInv, TypeOK, UnfinishedAreKept, Shows, NothingBefore, Filtered,
              Collected, Value
<1> QED BY <1>1, <1>2, <1>3, <1>4, <1>5, <1>6, <1>7, <1>8 DEF Next, Call, Return

LEMMA Invariance == Spec => []IInv
BY Initialization, Inductive, PTL DEF Spec

-----------------------------------------------------------------------------
(* The state of a merge is of its types, whatever the streams show. *)
THEOREM TypeCorrect == Spec => []TypeOK
<1>1. IInv => TypeOK
  BY DEF IInv
<1> QED BY <1>1, Invariance, PTL

(***************************************************************************)
(* While streams leave the heap, are advanced, dropped and swapped, none   *)
(* that still shows a cell is lost, and none that shows nothing is looked  *)
(* at.                                                                     *)
(***************************************************************************)
THEOREM NoStreamIsLost == Spec => []UnfinishedAreKept
<1>1. IInv => UnfinishedAreKept
  BY DEF IInv
<1> QED BY <1>1, Invariance, PTL

(* A merge that accepted a filter shows no cell the filter leaves out.     *)
THEOREM FiltersHold == Spec => []AppliedFiltersHold
<1>1. IInv => AppliedFiltersHold
  <2> SUFFICES ASSUME IInv, pc = "ready", NEW s \in heap, NEW keep \in applied
               PROVE  Value(s) \in keep
    BY DEF AppliedFiltersHold
  <2>1. s \in Streams /\ cells[s] \in SUBSET ShownCell /\ cells[s] # {}
    BY DEF IInv, TypeOK, UnfinishedAreKept, Shows
  <2>2. Value(s) \in cells[s]
    BY <2>1, FirstOfProperties DEF Value
  <2> QED BY <2>1, <2>2 DEF IInv, Filtered
<1> QED BY <1>1, Invariance, PTL

(***************************************************************************)
(* The cells come out by row key, family and column, however the user      *)
(* mixes the modes.                                                        *)
(***************************************************************************)
THEOREM InOrder == Spec => NeverBack
<1>1. IInv /\ [Next]_vars => [pc = "ready" /\ pc' = "pop" => ~ColumnBefore(current', current)]_vars
  <2> SUFFICES ASSUME IInv, Next, pc = "ready", pc' = "pop"
               PROVE  ~ColumnBefore(current', current)
    OBVIOUS
  <2>1. PICK m \in NextModes : BeginNext(m)
    BY DEF Next, Call, Return, ApplyFilter, Initialize, PopMatching, StopPopping,
           AdvanceStream, EndNext
  <2> QED BY <2>1, BeginNextStep
<1> QED BY <1>1, Invariance, PTL DEF Spec, NeverBack

-----------------------------------------------------------------------------
(* A heap with streams has one in front. *)
LEMMA FrontsExist ==
    ASSUME IInv, pc # "new", heap # {}
    PROVE  Fronts # {}
<1> DEFINE V == {Value(s) : s \in heap}
<1>1. V \in SUBSET ShownCell /\ V # {}
  <2>1. ASSUME NEW s \in heap
        PROVE  Value(s) \in ShownCell
    <3>1. s \in Streams /\ cells[s] \in SUBSET ShownCell /\ cells[s] # {}
      BY DEF IInv, TypeOK, UnfinishedAreKept, Shows
    <3> QED BY <3>1, FirstOfProperties DEF Value
  <2> QED BY <2>1
<1> HIDE DEF V
<1> DEFINE Rows == {v.row : v \in V}
<1>2. PICK row \in Rows : \A k \in Rows : row <= k
  <2>1. Rows \in SUBSET Nat /\ Rows # {}
    BY <1>1 DEF ShownCell
  <2> HIDE DEF Rows
  <2> QED BY <2>1, NatHasMin
<1> DEFINE Families == {v.family : v \in {w \in V : w.row = row}}
<1>3. PICK family \in Families : \A k \in Families : family <= k
  <2>1. Families \in SUBSET Nat /\ Families # {}
    BY <1>1, <1>2 DEF ShownCell
  <2> HIDE DEF Families
  <2> QED BY <2>1, NatHasMin
<1> DEFINE Columns == {v.column : v \in {w \in V : w.row = row /\ w.family = family}}
<1>4. PICK column \in Columns : \A k \in Columns : column <= k
  <2>1. Columns \in SUBSET Nat /\ Columns # {}
    BY <1>1, <1>3 DEF ShownCell
  <2> HIDE DEF Columns
  <2> QED BY <2>1, NatHasMin
<1> DEFINE Times == {v.time : v \in {w \in V : w.row = row /\ w.family = family /\ w.column = column}}
<1>5. PICK time \in Times : \A k \in Times : time <= k
  <2>1. Times \in SUBSET Nat /\ Times # {}
    BY <1>1, <1>4 DEF ShownCell
  <2> HIDE DEF Times
  <2> QED BY <2>1, NatHasMin
<1>6. PICK v \in V : v.row = row /\ v.family = family /\ v.column = column /\ v.time = time
  BY <1>5
<1>7. ASSUME NEW w \in V
      PROVE  ~MergesBefore(w, v)
  <2>1. v \in ShownCell /\ w \in ShownCell
    BY <1>1
  <2>2. v.row <= w.row
    BY <1>2, <1>6
  <2>3. w.row = v.row => v.family <= w.family
    BY <1>3, <1>6
  <2>4. w.row = v.row /\ w.family = v.family => v.column <= w.column
    BY <1>4, <1>6
  <2>5. w.row = v.row /\ w.family = v.family /\ w.column = v.column => v.time <= w.time
    BY <1>5, <1>6
  <2> QED BY <2>1, <2>2, <2>3, <2>4, <2>5 DEF MergesBefore, ColumnBefore, SameColumn, ShownCell
<1>8. PICK s \in heap : Value(s) = v
  BY <1>6 DEF V
<1> QED BY <1>7, <1>8 DEF V, Fronts

(* When the popping stops, no stream of the heap shows a cell that the     *)
(* mode leaves out.                                                        *)
LEMMA NoneMatches ==
    ASSUME IInv, StopPopping, NEW t \in heap, NEW c \in cells[t]
    PROVE  ~Matches(mode, current, c)
<1> SUFFICES ASSUME Matches(mode, current, c) PROVE FALSE
  OBVIOUS
<1>1. pc = "pop" /\ TypeOK /\ current \in ShownCell
  BY DEF StopPopping, IInv, TypeOK
<1>2. PICK s : s \in Fronts
  BY <1>1, FrontsExist
<1>3. s \in heap /\ s \in Streams /\ Shows(s) /\ Shows(t) /\ t \in Streams
  BY <1>1, <1>2 DEF Fronts, TypeOK, IInv, UnfinishedAreKept
<1>4. /\ Value(s) \in cells[s] /\ Value(s) \in ShownCell /\ c \in ShownCell
      /\ ~ColumnBefore(c, Value(s))
  BY <1>1, <1>2, <1>3, FrontIsLeast
<1>5. ~ColumnBefore(Value(s), current)
  BY <1>3, <1>4 DEF IInv, NothingBefore
<1>6. Matches(mode, current, Value(s))
  BY <1>1, <1>4, <1>5, MatchesBetween
<1> QED BY <1>2, <1>6 DEF StopPopping, AdvancesToo

(* What is left once the streams to advance are known. *)
LEMMA LeftBehind ==
    ASSUME IInv, StopPopping, NEW s \in Streams, NEW c \in cells[s]
    PROVE  c \in Left(s)' <=>
              /\ ~(s = pending[Len(pending)] /\ c = current)
              /\ ~Matches(mode, current, c)
<1>1. /\ pc = "pop" /\ pc' = "advance" /\ cells' = cells /\ pending' = pending /\ mode' = mode
      /\ TypeOK /\ Collected /\ UnfinishedAreKept
  BY DEF StopPopping, IInv
<1>2. Left(s)' = IF Owed(s) THEN After(cells[s], mode) ELSE cells[s]
  BY <1>1 DEF Left, Owed
<1>3. /\ cells[s] \in SUBSET ShownCell /\ InPlace(cells[s]) /\ cells[s] # {}
      /\ current \in ShownCell /\ c \in ShownCell /\ pending \in Seq(Streams)
  BY <1>1 DEF TypeOK
<1>4. PICK n \in Nat : n = Len(pending) /\ n > 0 /\ DOMAIN pending = 1 .. n
  BY <1>1, <1>3, EmptySeq, LenProperties DEF Collected
<1>5. Owed(pending[n])
  BY <1>4 DEF Owed
<1>6. Value(s) \in cells[s] /\ Value(s) \in ShownCell
  BY <1>3, FirstOfProperties DEF Value
<1>7. After(cells[s], mode) = {d \in cells[s] \ {Value(s)} : ~Matches(mode, Value(s), d)}
  BY <1>3, AfterProperties DEF Value
<1>8. CASE s = pending[n]
  <2>1. Value(s) = current
    BY <1>1, <1>4, <1>8 DEF Collected
  <2> QED BY <1>2, <1>4, <1>5, <1>7, <1>8, <2>1
<1>9. CASE s # pending[n] /\ Owed(s)
  <2>1. PICK i \in 1 .. n - 1 : pending[i] = s
    BY <1>4, <1>9 DEF Owed
  <2>2. Matches(mode, current, Value(s))
    BY <1>1, <1>4, <2>1 DEF Collected
  <2>3. Matches(mode, current, c) <=> Matches(mode, Value(s), c)
    BY <1>3, <1>6, <2>2, MatchesProperties
  <2> QED BY <1>2, <1>4, <1>7, <1>9, <2>2, <2>3
<1>10. CASE ~Owed(s)
  <2>1. s \in heap
    BY <1>1, <1>3, <1>10 DEF UnfinishedAreKept, Shows, Owed
  <2>2. ~Matches(mode, current, c)
    BY <2>1, NoneMatches
  <2> QED BY <1>2, <1>4, <1>5, <1>10, <2>2
<1> QED BY <1>8, <1>9, <1>10

LEMMA LeftIsShown ==
    ASSUME TypeOK, NEW s \in Streams
    PROVE  Left(s) \in SUBSET cells[s] /\ cells[s] \in SUBSET ShownCell
BY DEF TypeOK, Left, After

(* The cells that are left are finitely many. *)
LEMMA RestIsFinite == Init => IsFiniteSet(Rest)
<1> SUFFICES ASSUME Init PROVE IsFiniteSet(Rest)
  OBVIOUS
<1> DEFINE Of(s) == {Tagged(s, c) : c \in Left(s)}
           All == {Of(s) : s \in Streams}
<1>1. ASSUME NEW s \in Streams
      PROVE  IsFiniteSet(Of(s))
  <2>1. Left(s) = cells[s] /\ IsFiniteSet(cells[s])
    BY StreamsAssumption DEF Init, Left
  <2> DEFINE f == [c \in cells[s] |-> Tagged(s, c)]
  <2>2. f \in Surjection(cells[s], Of(s))
    BY <2>1 DEF Surjection
  <2> QED BY <2>1, <2>2, FS_Surjection
<1>2. IsFiniteSet(All)
  <2> DEFINE f == [s \in Streams |-> Of(s)]
  <2>1. f \in Surjection(Streams, All)
    BY DEF Surjection
  <2> QED BY <2>1, StreamsAssumption, FS_Surjection
<1>3. \A T \in All : IsFiniteSet(T)
  BY <1>1
<1>4. Rest = UNION All
  BY DEF Rest
<1> QED BY <1>2, <1>3, <1>4, FS_UNION

(* Rest is of the cells that are left and no others. *)
LEMMA RestOf ==
    /\ \A s \in Streams : \A c \in Left(s) : Tagged(s, c) \in Rest
    /\ \A d \in Rest : \E s \in Streams : \E c \in Left(s) : d = Tagged(s, c)
BY DEF Rest

LEMMA TaggedProperties ==
    ASSUME NEW s, NEW t, NEW c \in ShownCell, NEW d \in ShownCell, NEW m
    PROVE  /\ Tagged(s, c) = Tagged(t, d) <=> s = t /\ c = d
           /\ ColumnBefore(Tagged(s, c), Tagged(t, d)) <=> ColumnBefore(c, d)
           /\ Matches(m, Tagged(s, c), Tagged(t, d)) <=> Matches(m, c, d)
<1>1. Tagged(s, c) = Tagged(t, d) => s = t /\ c = d
  <2> SUFFICES ASSUME Tagged(s, c) = Tagged(t, d) PROVE s = t /\ c = d
    OBVIOUS
  <2>1. /\ Tagged(s, c).row = c.row /\ Tagged(s, c).family = c.family
        /\ Tagged(s, c).column = c.column /\ Tagged(s, c).time = c.time
        /\ Tagged(s, c).at = c.at /\ Tagged(s, c).from = s
    BY DEF Tagged
  <2>2. /\ Tagged(t, d).row = d.row /\ Tagged(t, d).family = d.family
        /\ Tagged(t, d).column = d.column /\ Tagged(t, d).time = d.time
        /\ Tagged(t, d).at = d.at /\ Tagged(t, d).from = t
    BY DEF Tagged
  <2> QED BY <2>1, <2>2 DEF ShownCell
<1>2. ColumnBefore(Tagged(s, c), Tagged(t, d)) <=> ColumnBefore(c, d)
  BY DEF Tagged, ColumnBefore
<1>3. Matches(m, Tagged(s, c), Tagged(t, d)) <=> Matches(m, c, d)
  BY DEF Tagged, Matches, SameColumn, SameRow
<1> QED BY <1>1, <1>2, <1>3

(* The abstract step: the first of the cells is left behind, with those    *)
(* the mode leaves out.                                                    *)
LEMMA StopPoppingAdvances ==
    ASSUME IInv, StopPopping
    PROVE  Source!Advance(mode)
<1> DEFINE s0 == pending[Len(pending)]
           first == Tagged(s0, current)
<1>1. /\ pc = "pop" /\ pc' = "advance" /\ cells' = cells /\ pending' = pending /\ mode' = mode
      /\ TypeOK /\ Collected /\ current \in ShownCell /\ pending \in Seq(Streams)
  BY DEF StopPopping, IInv, TypeOK
<1>2. s0 \in Streams
  BY <1>1, EmptySeq, LenProperties, ElementOfSeq DEF Collected
<1>3. \A s \in Streams : Left(s) = cells[s]
  BY <1>1 DEF Left
<1>4. \A s \in Streams : cells[s] \in SUBSET ShownCell
  BY <1>1 DEF TypeOK
<1>5. current \in cells[s0]
  <2>1. UnfinishedAreKept /\ Owed(s0)
    BY <1>1, EmptySeq, LenProperties DEF IInv, Owed, Collected
  <2>2. cells[s0] # {}
    BY <1>1, <1>2, <2>1 DEF UnfinishedAreKept, Shows, Owed
  <2> QED BY <1>1, <1>2, <1>4, <2>2, FirstOfProperties DEF Collected, Value
<1> HIDE DEF s0
<1>6. first \in Source!Firsts
  <2>1. first \in Rest
    BY <1>2, <1>3, <1>5, RestOf
  <2>2. ASSUME NEW d \in Rest
        PROVE  ~ColumnBefore(d, first)
    <3>0. PICK s \in Streams : \E c \in cells[s] : d = Tagged(s, c)
      BY <1>3, RestOf
    <3>1. PICK c \in cells[s] : d = Tagged(s, c)
      BY <3>0
    <3>2. ~ColumnBefore(c, current) /\ c \in ShownCell
      BY <1>4 DEF IInv, NothingBefore
    <3> QED BY <1>1, <3>1, <3>2, TaggedProperties
  <2> HIDE DEF first
  <2> QED BY <2>1, <2>2 DEF Source!Firsts
<1>7. ASSUME NEW s \in Streams
      PROVE  Left(s)' = {c \in cells[s] : /\ ~(s = s0 /\ c = current)
                                          /\ ~Matches(mode, current, c)}
  <2>1. Left(s)' \subseteq cells[s]
    BY <1>1 DEF Left, After
  <2>2. \A c \in cells[s] : c \in Left(s)' <=> /\ ~(s = s0 /\ c = current)
                                               /\ ~Matches(mode, current, c)
    BY LeftBehind DEF s0
  <2> QED BY <2>1, <2>2
<1>8. Rest' = {d \in Rest : d # first /\ ~Matches(mode, first, d)}
  <2>1. ASSUME NEW d \in Rest, d # first, ~Matches(mode, first, d)
        PROVE  d \in Rest'
    <3>0. PICK s \in Streams : \E c \in cells[s] : d = Tagged(s, c)
      BY <1>3, RestOf
    <3>1. PICK c \in cells[s] : d = Tagged(s, c)
      BY <3>0
    <3>2. c \in ShownCell
      BY <1>4
    <3>3. ~(s = s0 /\ c = current) /\ ~Matches(mode, current, c)
      BY <1>1, <2>1, <3>1, <3>2, TaggedProperties
    <3>4. c \in Left(s)'
      BY <1>7, <3>3
    <3> QED BY <3>1, <3>4 DEF Rest, Tagged
  <2>2. ASSUME NEW d \in Rest'
        PROVE  d \in Rest /\ d # first /\ ~Matches(mode, first, d)
    <3>1. PICK s \in Streams : \E c \in Left(s)' : d = Tagged(s, c)
      BY DEF Rest, Tagged
    <3>2. PICK c \in Left(s)' : d = Tagged(s, c)
      BY <3>1
    <3>3. c \in cells[s] /\ ~(s = s0 /\ c = current) /\ ~Matches(mode, current, c)
      BY <1>7, <3>2
    <3>4. c \in ShownCell
      BY <1>4, <3>3
    <3>5. d \in Rest
      BY <1>3, <3>2, <3>3, RestOf
    <3> QED BY <1>1, <3>2, <3>3, <3>4, <3>5, TaggedProperties
  <2> QED BY <2>1, <2>2
<1> HIDE DEF first
<1>9. pc # "new" /\ UNCHANGED (pc # "new")
  BY <1>1
<1>10. Rest' = {d \in Rest : d # first /\ ~Source!Matches(mode, first, d)}
  <2>1. \A d : Source!Matches(mode, first, d) <=> Matches(mode, first, d)
    BY DEF Source!Matches, Source!SameColumn, Source!SameRow, Matches, SameColumn, SameRow
  <2> QED BY <1>8, <2>1
<1> QED BY <1>6, <1>9, <1>10 DEF Source!Advance

(* What a filter that was offered to every stream has done to the cells:   *)
(* all of them are filtered, or those of the streams that accepted.        *)
LEMMA FilterIsApplied ==
    ASSUME IInv, NEW keep \in Filters, NEW accepting \in SUBSET Streams,
           ApplyFilter(keep, accepting)
    PROVE  IF AllApplied(accepting)
           THEN Source!ApplyFilter(keep, TRUE)
           ELSE Source!RefuseButNarrow(keep)
<1>1. pc = "new" /\ pc' = "new"
  BY DEF ApplyFilter
<1>2. ~(pc # "new") /\ UNCHANGED (pc # "new")
  BY <1>1
<1>3. cells \in [Streams -> SUBSET ShownCell]
  BY DEF IInv, TypeOK
<1>4. \A s \in Streams : Left(s) = cells[s] /\ Left(s)' = cells'[s]
  BY <1>1 DEF Left
<1>5. \A s \in Streams :
        cells'[s] = IF s \in accepting THEN cells[s] \intersect keep ELSE cells[s]
  BY DEF ApplyFilter
<1>6. ASSUME NEW s \in Streams, NEW c \in cells[s]
      PROVE  KeepsTagged(keep, Tagged(s, c)) <=> c \in keep
  <2>1. c \in ShownCell
    BY <1>3, <1>6
  <2>2. Untagged(Tagged(s, c)) = c
    BY <2>1 DEF Untagged, Tagged, ShownCell
  <2> QED BY <2>2 DEF KeepsTagged
<1>7. \A x : x \in Rest <=> \E s \in Streams : \E c \in cells[s] : x = Tagged(s, c)
  BY <1>4 DEF Rest
<1>8. \A x : x \in Rest' <=> \E s \in Streams : \E c \in cells'[s] : x = Tagged(s, c)
  BY <1>4 DEF Rest, Tagged
<1>9. CASE AllApplied(accepting)
  <2>1. \A s \in Streams : cells'[s] = cells[s] \intersect keep
    BY <1>5, <1>9 DEF AllApplied
  <2>2. Rest' = {x \in Rest : KeepsTagged(keep, x)}
    BY <1>6, <1>7, <1>8, <2>1
  <2>3. Source!ApplyFilter(keep, TRUE)
    BY <1>2, <2>2 DEF Source!ApplyFilter
  <2> QED BY <1>9, <2>3
<1>10. CASE ~AllApplied(accepting)
  <2>1. Rest' \subseteq Rest
    BY <1>5, <1>7, <1>8
  <2>2. ASSUME NEW x \in Rest, KeepsTagged(keep, x)
        PROVE  x \in Rest'
    <3>1. PICK s \in Streams : \E c \in cells[s] : x = Tagged(s, c)
      BY <1>7
    <3>2. PICK c \in cells[s] : x = Tagged(s, c)
      BY <3>1
    <3>3. c \in keep
      BY <1>6, <2>2, <3>2
    <3>4. c \in cells'[s]
      BY <1>5, <3>3
    <3> QED BY <1>8, <3>2, <3>4
  <2>3. Source!RefuseButNarrow(keep)
    BY <1>2, <2>1, <2>2 DEF Source!RefuseButNarrow
  <2> QED BY <1>10, <2>3
<1> QED BY <1>9, <1>10

(* Every step is a step of one stream of all the cells, or changes none.   *)
LEMMA StepIsOfOneStream ==
    IInv /\ [Next]_vars => [Source!LenientNext]_<<Rest, pc # "new">>
<1> SUFFICES ASSUME IInv, [Next]_vars
             PROVE  Source!LenientNext \/ UNCHANGED <<Rest, pc # "new">>
  OBVIOUS
<1> DEFINE Same == UNCHANGED <<Rest, pc # "new">>
<1>1. ASSUME \A s \in Streams : Left(s)' = Left(s)
      PROVE  Rest' = Rest
  BY <1>1 DEF Rest, Tagged
<1>2. ASSUME NEW keep \in Filters, NEW accepting \in SUBSET Streams,
             ApplyFilter(keep, accepting)
      PROVE  Source!LenientNext
  <2>1. Source!ApplyFilter(keep, TRUE) \/ Source!RefuseButNarrow(keep)
    BY <1>2, FilterIsApplied
  <2> QED BY <2>1 DEF Source!LenientNext, Source!Next
<1>3. CASE Initialize
  <2>1. pc = "new" /\ pc' = "ready" /\ cells' = cells
    BY <1>3 DEF Initialize
  <2>2. \A s \in Streams : Left(s)' = Left(s)
    BY <2>1 DEF Left
  <2>3. ~(pc # "new") /\ (pc # "new")' = TRUE
    BY <2>1
  <2>4. Source!Start
    BY <1>1, <2>2, <2>3 DEF Source!Start
  <2> QED BY <2>4 DEF Source!LenientNext, Source!Next
<1>4. ASSUME NEW m \in NextModes, BeginNext(m)
      PROVE  Same
  <2>1. pc = "ready" /\ pc' = "pop" /\ cells' = cells
    BY <1>4 DEF BeginNext
  <2>2. \A s \in Streams : Left(s)' = Left(s)
    BY <2>1 DEF Left
  <2> QED BY <1>1, <2>1, <2>2
<1>5. CASE PopMatching
  <2>1. pc = "pop" /\ pc' = "pop" /\ cells' = cells
    BY <1>5 DEF PopMatching
  <2>2. \A s \in Streams : Left(s)' = Left(s)
    BY <2>1 DEF Left
  <2> QED BY <1>1, <2>1, <2>2
<1>6. CASE StopPopping
  <2>1. mode \in Source!NextModes
    BY DEF IInv, TypeOK, NextModes, Source!NextModes
  <2> QED BY <1>6, <2>1, StopPoppingAdvances DEF Source!LenientNext, Source!Next
<1>7. CASE AdvanceStream
  <2>1. PICK s : s = pending[1]
    OBVIOUS
  <2>2. PICK after : after = After(cells[s], mode)
    OBVIOUS
  <2>3. /\ pc = "advance" /\ pc' = pc /\ mode' = mode
        /\ s \in Streams /\ Owed(s)
        /\ cells' = [cells EXCEPT ![s] = after]
        /\ \A t : Owed(t)' <=> t # s /\ Owed(t)
    BY <1>7, <2>1, <2>2, AdvanceStreamProperties
  <2>4. cells \in [Streams -> SUBSET ShownCell]
    BY DEF IInv, TypeOK
  <2>5. \A t : /\ Left(t) = IF Owed(t) THEN After(cells[t], mode) ELSE cells[t]
               /\ Left(t)' = IF Owed(t)' THEN After(cells'[t], mode) ELSE cells'[t]
    BY <2>3 DEF Left, Owed
  <2>6. ASSUME NEW t \in Streams
        PROVE  Left(t)' = Left(t)
    <3>1. CASE t = s
      BY <2>2, <2>3, <2>4, <2>5, <3>1
    <3>2. CASE t # s
      BY <2>3, <2>4, <2>5, <3>2
    <3> QED BY <3>1, <3>2
  <2> QED BY <1>1, <2>3, <2>6
<1>8. CASE EndNext
  <2>1. pc = "advance" /\ pc' = "ready" /\ cells' = cells /\ pending = <<>>
    BY <1>8 DEF EndNext
  <2>2. \A s : ~Owed(s)
    BY <2>1, EmptySeq DEF Owed
  <2>3. \A s \in Streams : Left(s)' = Left(s)
    BY <2>1, <2>2 DEF Left, Owed
  <2> QED BY <1>1, <2>1, <2>3
<1>9. CASE UNCHANGED vars
  <2>1. pc' = pc /\ cells' = cells /\ pending' = pending /\ mode' = mode
    BY <1>9 DEF vars
  <2>2. \A s \in Streams : Left(s)' = Left(s)
    BY <2>1 DEF Left
  <2> QED BY <1>1, <2>1, <2>2
<1> QED BY <1>2, <1>3, <1>4, <1>5, <1>6, <1>7, <1>8, <1>9 DEF Next, Call, Return

(***************************************************************************)
(* The merged stream is one stream of the cells of all of them: each call  *)
(* of Next leaves behind its cell, its column or its row in every stream   *)
(* and nothing else, whatever the order in which streams leave the heap    *)
(* and return to it.  ApplyFilter returns true only when the filter has    *)
(* been applied to every one of these cells, as AbstractCellStreamImpl     *)
(* promises; when it returns false the promise that nothing changed is not *)
(* kept (UnchangedWhenRefused is refuted), but every cell that is lost is  *)
(* one the filter leaves out.                                              *)
(***************************************************************************)
THEOREM MergeIsOneStream == Spec => IsOneStream
<1>1. Init => Source!Init
  <2> SUFFICES ASSUME Init PROVE Source!Init
    OBVIOUS
  <2>1. (pc # "new") = FALSE
    BY DEF Init
  <2>2. Source!IsFiniteSet(Rest)
    BY RestIsFinite DEF Source!IsFiniteSet, IsFiniteSet
  <2> QED BY <2>1, <2>2 DEF Source!Init
<1>2. IInv /\ [Next]_vars => [StopPopping => Source!Advance(mode)]_vars
  BY StopPoppingAdvances
<1>3. IInv /\ [Next]_vars =>
        [\A keep \in Filters, accepting \in SUBSET Streams :
            ApplyFilter(keep, accepting) =>
                IF AllApplied(accepting)
                THEN Source!ApplyFilter(keep, TRUE)
                ELSE Source!RefuseButNarrow(keep)]_vars
  BY FilterIsApplied
<1>4. Spec => Source!LenientSpec
  BY <1>1, Invariance, StepIsOfOneStream, PTL DEF Spec, Source!LenientSpec
<1>5. Spec => [][StopPopping => Source!Advance(mode)]_vars
  BY <1>2, Invariance, PTL DEF Spec
<1>6. Spec => [][\A keep \in Filters, accepting \in SUBSET Streams :
            ApplyFilter(keep, accepting) =>
                IF AllApplied(accepting)
                THEN Source!ApplyFilter(keep, TRUE)
                ELSE Source!RefuseButNarrow(keep)]_vars
  BY <1>3, Invariance, PTL DEF Spec
<1> QED BY <1>4, <1>5, <1>6 DEF IsOneStream

-----------------------------------------------------------------------------
(* The steps that a call of Next still has at most: each stream of the     *)
(* heap may join the pending ones and be advanced, each pending one is     *)
(* advanced.                                                               *)
StepsLeft ==
    CASE pc = "pop" -> 2 * Cardinality(heap) + Len(pending) + 2
      [] pc = "advance" -> Len(pending) + 1
      [] OTHER -> 0

(* A call of Next is at work until it returns, and each step counts down.  *)
CountsDown ==
    /\ pc \in {"pop", "advance"} =>
          pc' \in {"pop", "advance", "ready"} /\ StepsLeft \in Nat /\ StepsLeft' < StepsLeft
    /\ pc = "ready" /\ pc' = "pop" => StepsLeft' <= 2 * Cardinality(Streams) + 1

LEMMA HeapIsFinite ==
    ASSUME TypeOK
    PROVE  /\ IsFiniteSet(heap) /\ Cardinality(heap) \in Nat
           /\ Cardinality(Streams) \in Nat /\ Cardinality(heap) <= Cardinality(Streams)
           /\ Len(pending) \in Nat
<1>1. heap \in SUBSET Streams /\ IsFiniteSet(Streams) /\ pending \in Seq(Streams)
  BY StreamsAssumption DEF TypeOK
<1> QED
  BY <1>1, FS_Subset, FS_CardinalityType, LenProperties

(* One step of a call of Next. *)
LEMMA StepCountsDown ==
    ASSUME IInv, Next
    PROVE  CountsDown
<1>1. /\ IsFiniteSet(heap) /\ Cardinality(heap) \in Nat /\ Len(pending) \in Nat
      /\ Cardinality(Streams) \in Nat /\ Cardinality(heap) <= Cardinality(Streams)
      /\ pending \in Seq(Streams)
  BY HeapIsFinite DEF IInv, TypeOK
<1>2. ASSUME NEW m \in NextModes, BeginNext(m) PROVE CountsDown
  <2>1. PICK s \in Fronts : heap' = heap \ {s} /\ pending' = <<s>>
    BY <1>2 DEF BeginNext
  <2>2. s \in heap
    BY DEF Fronts
  <2>3. Cardinality(heap') = Cardinality(heap) - 1
    BY <1>1, <2>1, <2>2, FS_RemoveElement
  <2>4. Len(pending') = 1
    BY <2>1
  <2>5. pc = "ready" /\ pc' = "pop"
    BY <1>2 DEF BeginNext
  <2> QED
    BY <1>1, <2>3, <2>4, <2>5 DEF CountsDown, StepsLeft
<1>3. CASE PopMatching
  <2>1. PICK s \in Fronts : heap' = heap \ {s} /\ pending' = <<s>> \o pending
    BY <1>3 DEF PopMatching
  <2>2. s \in heap /\ s \in Streams
    BY DEF Fronts, IInv, TypeOK
  <2>3. Cardinality(heap') = Cardinality(heap) - 1
    BY <1>1, <2>1, <2>2, FS_RemoveElement
  <2>4. Len(pending') = Len(pending) + 1
    <3>1. <<s>> \in Seq(Streams) /\ Len(<<s>>) = 1
      BY <2>2
    <3>2. Len(<<s>> \o pending) = 1 + Len(pending)
      BY <1>1, <3>1, ConcatProperties
    <3> QED
      BY <1>1, <2>1, <3>2
  <2>5. pc = "pop" /\ pc' = "pop"
    BY <1>3 DEF PopMatching
  <2>6. 2 * Cardinality(heap') + Len(pending') + 2 < 2 * Cardinality(heap) + Len(pending) + 2
    BY <1>1, <2>3, <2>4
  <2> QED
    BY <1>1, <2>5, <2>6 DEF CountsDown, StepsLeft
<1>4. CASE StopPopping
  <2>1. pc = "pop" /\ pc' = "advance" /\ heap' = heap /\ pending' = pending
    BY <1>4 DEF StopPopping
  <2>2. Len(pending) + 1 < 2 * Cardinality(heap) + Len(pending) + 2
    BY <1>1
  <2> QED
    BY <1>1, <2>1, <2>2 DEF CountsDown, StepsLeft
<1>5. CASE AdvanceStream
  <2>1. pc = "advance" /\ pc' = "advance" /\ pending # <<>>
        /\ (pending' = Tail(pending) \/ pending' = SwapWithBack(pending))
    BY <1>5 DEF AdvanceStream
  <2>2. Len(pending') = Len(pending) - 1
    BY <1>1, <2>1, HeadTailProperties, SwapWithBackProperties
  <2> QED
    BY <1>1, <2>1, <2>2 DEF CountsDown, StepsLeft
<1>6. CASE EndNext
  <2>1. pc = "advance" /\ pc' = "ready"
    BY <1>6 DEF EndNext
  <2> QED
    BY <1>1, <2>1 DEF CountsDown, StepsLeft
<1>7. ASSUME NEW keep \in Filters, NEW accepting \in SUBSET Streams,
             ApplyFilter(keep, accepting)
      PROVE  CountsDown
  BY <1>7 DEF ApplyFilter, CountsDown
<1>8. CASE Initialize
  BY <1>8 DEF Initialize, CountsDown
<1> QED
  BY <1>2, <1>3, <1>4, <1>5, <1>6, <1>7, <1>8 DEF Next, Call, Return

(***************************************************************************)
(* A call of Next never does anything but go on, each of its steps leaves  *)
(* fewer to come, and all together are at most twice the number of streams *)
(* and two more.                                                           *)
(***************************************************************************)
THEOREM CallsEnd == Spec => [][CountsDown]_vars
<1>1. IInv /\ [Next]_vars => [CountsDown]_vars
  BY StepCountsDown
<1> QED
  BY <1>1, Invariance, PTL DEF Spec

=============================================================================

--------------------------- MODULE RowStreamerProofs ---------------------------
(***************************************************************************)
(* Proofs about RowStreamer, for streams of any length and for any size of *)
(* the batches: what the client reads back, and which chunks commit a row. *)
(***************************************************************************)
EXTENDS RowStreamer, SequenceTheorems, TLAPS

(***************************************************************************)
(* The chunks that were sent are a part of what has been encoded; the rest *)
(* is pending.  Both properties of the client's side are therefore stated  *)
(* of the whole, sent \o pending, up to the end of the stream.             *)
(***************************************************************************)
(* The chunk that the row of the i-th cell is read from is chunk k: no      *)
(* later chunk up to i sets a row.                                         *)
RowSetAt(chunks, row, k, i) ==
    /\ chunks[k].row = row
    /\ \A j \in k + 1 .. i : chunks[j].row = None

Encodes(chunks, cells) ==
    \A i \in 1 .. Len(chunks) :
        /\ \E k \in 1 .. i : RowSetAt(chunks, cells[i].row, k, i)
        /\ cells[i].row # cells[i].fam =>
              chunks[i].fam = cells[i].fam /\ chunks[i].qual = cells[i].qual

EndsRow(cells, i) == i < Len(cells) /\ cells[i + 1].row # cells[i].row

Commits(chunks, cells) ==
    \A i \in 1 .. Len(chunks) : chunks[i].commit <=> EndsRow(cells, i)

(* The last chunk is held back until it is known whether it commits.       *)
Streaming ==
    /\ Len(sent) + Len(pending) = Len(streamed)
    /\ streamed # << >> => pending # << >>
    /\ current_row = IF streamed = << >> THEN None ELSE streamed[Len(streamed)].row
    /\ Encodes(sent \o pending, streamed)
    /\ Commits(sent \o pending, streamed)

Aborted ==
    /\ sent = << >> \/ Len(sent) < Len(streamed)
    /\ Encodes(sent, streamed)
    /\ Commits(sent, streamed)

Done ==
    /\ Len(sent) = Len(streamed)
    /\ Encodes(sent, streamed)
    /\ \A i \in 1 .. Len(sent) :
          sent[i].commit <=> EndsRow(streamed, i) \/ i = Len(streamed)

IInv ==
    /\ TypeOK
    /\ state = "streaming" => Streaming
    /\ state = "aborted" => Aborted
    /\ state = "done" => Done

-----------------------------------------------------------------------------
(* The chunk of a cell. *)
LEMMA ChunkType ==
    ASSUME NEW c \in Cell
    PROVE  /\ ChunkOf(c) \in Chunk
           /\ ChunkOf(c).row = IF current_row # c.row THEN c.row ELSE None
           /\ ChunkOf(c).commit = FALSE
           /\ c.row # c.fam => ChunkOf(c).fam = c.fam /\ ChunkOf(c).qual = c.qual
BY DEF Cell, Chunk, ChunkOf

(* CommitLast sets the commit flag of the last chunk and nothing else.     *)
LEMMA CommitLastProperties ==
    ASSUME NEW chunks \in Seq(Chunk)
    PROVE  /\ CommitLast(chunks) \in Seq(Chunk)
           /\ Len(CommitLast(chunks)) = Len(chunks)
           /\ \A i \in 1 .. Len(chunks) :
                 /\ CommitLast(chunks)[i].row = chunks[i].row
                 /\ CommitLast(chunks)[i].fam = chunks[i].fam
                 /\ CommitLast(chunks)[i].qual = chunks[i].qual
                 /\ i < Len(chunks) => CommitLast(chunks)[i] = chunks[i]
                 /\ i = Len(chunks) => CommitLast(chunks)[i].commit
<1>1. CASE chunks = << >>
  BY <1>1 DEF CommitLast
<1>2. CASE chunks # << >>
  <2> DEFINE n == Len(chunks)
             e == [chunks[n] EXCEPT !.commit = TRUE]
  <2>1. n \in 1 .. Len(chunks)
    BY <1>2, EmptySeq
  <2>2. chunks[n] \in Chunk
    BY <2>1, ElementOfSeq
  <2>a. e \in Chunk
    BY <2>2 DEF Chunk
  <2>3. CommitLast(chunks) = [chunks EXCEPT ![n] = e]
    BY <1>2 DEF CommitLast
  <2>4. e.row = chunks[n].row /\ e.fam = chunks[n].fam /\ e.qual = chunks[n].qual /\ e.commit
    BY <2>2 DEF Chunk
  <2> HIDE DEF e
  <2> QED BY <2>1, <2>2, <2>a, <2>3, <2>4, ExceptSeq
<1> QED BY <1>1, <1>2

(* Encodes is about rows, families and qualifiers: it holds of the first   *)
(* chunks too, whatever commits and whatever cells follow.                 *)
LEMMA EncodesFirst ==
    ASSUME NEW chunks \in Seq(Chunk), NEW first \in Seq(Chunk),
           NEW cells \in Seq(Cell), NEW more \in Seq(Cell),
           Len(first) <= Len(chunks),
           \A i \in 1 .. Len(first) :
              /\ first[i].row = chunks[i].row
              /\ first[i].fam = chunks[i].fam
              /\ first[i].qual = chunks[i].qual
              /\ more[i] = cells[i],
           Encodes(chunks, cells)
    PROVE  Encodes(first, more)
<1> SUFFICES ASSUME NEW i \in 1 .. Len(first)
             PROVE  /\ \E k \in 1 .. i : RowSetAt(first, more[i].row, k, i)
                    /\ more[i].row # more[i].fam =>
                          first[i].fam = more[i].fam /\ first[i].qual = more[i].qual
  BY DEF Encodes
<1>1. Len(first) \in Nat /\ Len(chunks) \in Nat
  BY LenProperties
<1>2. i \in 1 .. Len(chunks)
  BY <1>1
<1>3. PICK k \in 1 .. i : RowSetAt(chunks, cells[i].row, k, i)
  BY <1>2 DEF Encodes
<1>4. RowSetAt(first, more[i].row, k, i)
  BY <1>1, <1>3 DEF RowSetAt
<1>5. more[i].row # more[i].fam =>
          first[i].fam = more[i].fam /\ first[i].qual = more[i].qual
  BY <1>2 DEF Encodes
<1> QED BY <1>4, <1>5

(* The chunk of the next cell is added. *)
LEMMA EncodesNext ==
    ASSUME NEW chunks \in Seq(Chunk), NEW cells \in Seq(Cell), NEW c \in Cell,
           Len(chunks) = Len(cells),
           current_row = IF cells = << >> THEN None ELSE cells[Len(cells)].row,
           Encodes(chunks, cells)
    PROVE  Encodes(Append(chunks, ChunkOf(c)), Append(cells, c))
<1> DEFINE n == Len(chunks)
           next == Append(chunks, ChunkOf(c))
           more == Append(cells, c)
<1>1. n \in Nat
  BY LenProperties
<1>2. /\ Len(next) = n + 1
      /\ next[n + 1] = ChunkOf(c) /\ more[n + 1] = c
      /\ \A i \in 1 .. n : next[i] = chunks[i] /\ more[i] = cells[i]
  BY ChunkType, AppendProperties
<1> HIDE DEF next, more
<1>3. SUFFICES ASSUME NEW i \in 1 .. n + 1
               PROVE  /\ \E k \in 1 .. i : RowSetAt(next, more[i].row, k, i)
                      /\ more[i].row # more[i].fam =>
                            next[i].fam = more[i].fam /\ next[i].qual = more[i].qual
  BY <1>2 DEF Encodes, next, more
<1>4. CASE i \in 1 .. n
  <2>1. PICK k \in 1 .. i : RowSetAt(chunks, cells[i].row, k, i)
    BY <1>4 DEF Encodes
  <2>2. RowSetAt(next, more[i].row, k, i)
    BY <1>1, <1>2, <1>4, <2>1 DEF RowSetAt
  <2>3. more[i].row # more[i].fam =>
            next[i].fam = more[i].fam /\ next[i].qual = more[i].qual
    BY <1>2, <1>4 DEF Encodes
  <2> QED BY <2>2, <2>3
<1>5. CASE i = n + 1
  <2>1. more[i].row # more[i].fam =>
            next[i].fam = more[i].fam /\ next[i].qual = more[i].qual
    BY <1>2, <1>5, ChunkType
  <2>2. CASE current_row # c.row
    <3>a. next[i].row = more[i].row
      BY <1>2, <1>5, <2>2, ChunkType
    <3>1. RowSetAt(next, more[i].row, i, i)
      BY <1>1, <1>5, <3>a DEF RowSetAt
    <3> QED BY <1>1, <1>5, <2>1, <3>1
  <2>3. CASE current_row = c.row
    <3>1. c.row \in Row /\ None \notin Row
      BY RowStreamerAssumption DEF Cell
    <3>2. cells # << >>
      BY <2>3, <3>1
    <3>3. n \in 1 .. n /\ cells[n].row = c.row
      BY <1>1, <2>3, <3>2, EmptySeq
    <3>4. PICK k \in 1 .. n : RowSetAt(chunks, c.row, k, n)
      BY <3>3 DEF Encodes
    <3>5. next[n + 1].row = None
      BY <1>2, <2>3, ChunkType
    <3>6. RowSetAt(next, more[i].row, k, i)
      BY <1>1, <1>2, <1>5, <3>4, <3>5 DEF RowSetAt
    <3> QED BY <1>1, <1>5, <2>1, <3>6
  <2> QED BY <2>2, <2>3
<1> QED BY <1>1, <1>4, <1>5

(* The next cell tells for the first time whether the last chunk commits.  *)
LEMMA CommitsNext ==
    ASSUME NEW chunks \in Seq(Chunk), NEW before \in Seq(Chunk),
           NEW cells \in Seq(Cell), NEW c \in Cell,
           Len(chunks) = Len(cells), Len(before) = Len(chunks),
           \A i \in 1 .. Len(chunks) - 1 : before[i].commit = chunks[i].commit,
           cells # << >> =>
              (before[Len(cells)].commit <=> c.row # cells[Len(cells)].row),
           Commits(chunks, cells)
    PROVE  Commits(Append(before, ChunkOf(c)), Append(cells, c))
<1> DEFINE n == Len(chunks)
           next == Append(before, ChunkOf(c))
           more == Append(cells, c)
<1>1. n \in Nat
  BY LenProperties
<1>2. /\ Len(next) = n + 1 /\ Len(more) = n + 1
      /\ next[n + 1] = ChunkOf(c) /\ more[n + 1] = c
      /\ \A i \in 1 .. n : next[i] = before[i] /\ more[i] = cells[i]
  BY ChunkType, AppendProperties
<1>3. n > 0 => cells # << >>
  BY EmptySeq
<1> HIDE DEF next, more
<1>4. SUFFICES ASSUME NEW i \in 1 .. n + 1
               PROVE  next[i].commit <=> EndsRow(more, i)
  BY <1>2 DEF Commits, next, more
<1>5. CASE i \in 1 .. n - 1
  <2>1. EndsRow(more, i) <=> EndsRow(cells, i)
    BY <1>1, <1>2, <1>5 DEF EndsRow
  <2>2. next[i].commit = chunks[i].commit
    BY <1>1, <1>2, <1>5
  <2>3. chunks[i].commit <=> EndsRow(cells, i)
    BY <1>1, <1>5 DEF Commits
  <2> QED BY <2>1, <2>2, <2>3
<1>6. CASE i = n /\ n > 0
  BY <1>1, <1>2, <1>3, <1>6 DEF EndsRow
<1>7. CASE i = n + 1
  <2>1. next[i].commit = FALSE
    BY <1>2, <1>7, ChunkType
  <2>2. ~EndsRow(more, i)
    BY <1>1, <1>2, <1>7 DEF EndsRow
  <2> QED BY <2>1, <2>2
<1> QED BY <1>1, <1>4, <1>5, <1>6, <1>7

-----------------------------------------------------------------------------
(* The invariant holds at first. *)
LEMMA Initialization == Init => IInv
<1> SUFFICES ASSUME Init PROVE IInv
  OBVIOUS
<1>1. TypeOK
  BY RowStreamerAssumption, EmptySeq DEF Init, TypeOK
<1>2. sent \o pending = << >> /\ Len(sent) = 0 /\ Len(pending) = 0
  BY <1>1, ConcatEmptySeq, EmptySeq DEF Init, TypeOK
<1>3. Encodes(sent \o pending, streamed) /\ Commits(sent \o pending, streamed)
  BY <1>2, EmptySeq DEF Encodes, Commits, Init
<1>4. Streaming
  BY <1>2, <1>3, EmptySeq DEF Init, Streaming
<1> QED BY <1>1, <1>4 DEF Init, IInv

LEMMA Regroup ==
    ASSUME NEW S, NEW first \in Seq(S), NEW middle \in Seq(S), NEW last \in Seq(S)
    PROVE  (first \o middle) \o last = first \o (middle \o last)
BY ConcatAssociative

LEMMA SplitLast ==
    ASSUME NEW S, NEW seq \in Seq(S), NEW n \in Nat, n > 0, Len(seq) = n + 1
    PROVE  SubSeq(seq, 1, n) \o SubSeq(seq, n + 1, n + 1) = seq
<1>1. 1 \in 1 .. Len(seq) + 1 /\ n \in 1 - 1 .. Len(seq) /\ n + 1 \in n .. Len(seq)
  OBVIOUS
<1>2. SubSeq(seq, 1, n) \o SubSeq(seq, n + 1, n + 1) = SubSeq(seq, 1, n + 1)
  BY <1>1, ConcatAdjacentSubSeq
<1>3. SubSeq(seq, 1, Len(seq)) = seq
  BY SubSeqFull
<1> QED BY <1>2, <1>3

(* Chunks that are written join those that were sent; the rest is held. *)
LEMMA FlushSplits ==
    ASSUME NEW done \in Seq(Chunk), NEW chunks \in Seq(Chunk), Full(chunks), TypeOK
    PROVE  LET n == Len(chunks) - 1
               flushed == SubSeq(chunks, 1, n)
           IN  /\ HeldBack(chunks) = <<chunks[n + 1]>>
               /\ Len(HeldBack(chunks)) = 1
               /\ HeldBack(chunks) \in Seq(Chunk)
               /\ flushed \in Seq(Chunk)
               /\ (done \o flushed) \o HeldBack(chunks) = done \o chunks
<1> DEFINE n == Len(chunks) - 1
           flushed == SubSeq(chunks, 1, n)
           held == SubSeq(chunks, n + 1, n + 1)
<1>1. Len(chunks) \in Nat /\ Len(chunks) > 1
  BY LenProperties, RowStreamerAssumption DEF Full
<1>2. chunks # << >>
  BY <1>1, EmptySeq
<1>3. n \in Nat /\ n > 0 /\ n + 1 = Len(chunks)
  BY <1>1
<1>4. \A i \in 1 .. n + 1 : chunks[i] \in Chunk
  BY <1>3, ElementOfSeq
<1>5. /\ flushed \in Seq(Chunk)
      /\ held \in Seq(Chunk) /\ Len(held) = 1
      /\ held[1] = chunks[n + 1]
  BY <1>3, <1>4, SubSeqProperties
<1>6. /\ HeldBack(chunks) = <<chunks[n + 1]>>
      /\ Len(HeldBack(chunks)) = 1
      /\ HeldBack(chunks) \in Seq(Chunk)
  BY <1>2, <1>3, <1>4 DEF HeldBack
<1>7. HeldBack(chunks) = held
  BY <1>3, <1>5, <1>6, SeqEqual
<1>8. flushed \o held = chunks
  BY <1>3, SplitLast
<1>9. (done \o flushed) \o held = done \o (flushed \o held)
  <2>1. done \in Seq(Chunk) /\ flushed \in Seq(Chunk) /\ held \in Seq(Chunk)
    BY <1>5
  <2> HIDE DEF flushed, held
  <2> QED BY <2>1, Regroup
<1> QED BY <1>5, <1>6, <1>7, <1>8, <1>9

LEMMA AppendToConcat ==
    ASSUME NEW S, NEW first \in Seq(S), NEW last \in Seq(S), NEW e \in S
    PROVE  Append(first \o last, e) = first \o Append(last, e)
<1>1. Append(first \o last, e) = (first \o last) \o <<e>>
  BY ConcatProperties, AppendIsConcat
<1>2. Append(last, e) = last \o <<e>>
  BY AppendIsConcat
<1>3. (first \o last) \o <<e>> = first \o (last \o <<e>>)
  BY Regroup
<1> QED BY <1>1, <1>2, <1>3

(* What precedes the chunk of c: the last chunk commits if c begins a row. *)
Before(c) == IF c.row = current_row THEN pending ELSE CommitLast(pending)

LEMMA BeforeProperties ==
    ASSUME NEW c \in Cell, TypeOK, Streaming
    PROVE  /\ Before(c) \in Seq(Chunk)
           /\ Len(Before(c)) = Len(pending)
           /\ \A i \in 1 .. Len(pending) :
                 /\ Before(c)[i].row = pending[i].row
                 /\ Before(c)[i].fam = pending[i].fam
                 /\ Before(c)[i].qual = pending[i].qual
                 /\ i < Len(pending) => Before(c)[i].commit = pending[i].commit
           /\ streamed # << >> =>
                 (Before(c)[Len(pending)].commit <=> c.row # streamed[Len(streamed)].row)
<1> DEFINE n == Len(pending)
<1>1. pending \in Seq(Chunk) /\ sent \in Seq(Chunk) /\ streamed \in Seq(Cell)
  BY DEF TypeOK
<1>2. Len(pending) \in Nat /\ Len(sent) \in Nat /\ Len(streamed) \in Nat
  BY <1>1, LenProperties
<1>3. CASE c.row = current_row
  <2>1. Before(c) = pending
    BY <1>3 DEF Before
  <2>2. ASSUME streamed # << >>
        PROVE  /\ ~pending[n].commit
               /\ c.row = streamed[Len(streamed)].row
    <3>1. pending # << >>
      BY <2>2 DEF Streaming
    <3>2. n > 0
      BY <1>1, <1>2, <3>1, EmptySeq
    <3>3. Len(streamed) \in 1 .. Len(sent \o pending)
      BY <1>1, <1>2, <3>2, ConcatProperties DEF Streaming
    <3>4. (sent \o pending)[Len(streamed)] = pending[n]
      BY <1>1, <1>2, <3>2, ConcatProperties DEF Streaming
    <3>5. (sent \o pending)[Len(streamed)].commit <=> EndsRow(streamed, Len(streamed))
      BY <3>3 DEF Streaming, Commits
    <3>6. ~EndsRow(streamed, Len(streamed))
      BY <1>2 DEF EndsRow
    <3> QED BY <1>3, <2>2, <3>4, <3>5, <3>6 DEF Streaming
  <2> QED BY <1>1, <2>1, <2>2
<1>4. CASE c.row # current_row
  <2>1. Before(c) = CommitLast(pending)
    BY <1>4 DEF Before
  <2>2. ASSUME streamed # << >>
        PROVE  /\ CommitLast(pending)[n].commit
               /\ c.row # streamed[Len(streamed)].row
    <3>1. pending # << >>
      BY <2>2 DEF Streaming
    <3>2. n \in 1 .. n
      BY <1>1, <1>2, <3>1, EmptySeq
    <3> QED BY <1>1, <1>4, <2>2, <3>2, CommitLastProperties DEF Streaming
  <2> QED BY <1>1, <2>1, <2>2, CommitLastProperties
<1> QED BY <1>3, <1>4

(* With the chunk of the next cell, all chunks encode all cells. *)
LEMMA ChunksOfNextCell ==
    ASSUME NEW c \in Cell, TypeOK, Streaming
    PROVE  LET chunks == Append(Before(c), ChunkOf(c))
               more == Append(streamed, c)
           IN  /\ chunks \in Seq(Chunk) /\ Len(chunks) = Len(pending) + 1
               /\ more \in Seq(Cell) /\ Len(more) = Len(streamed) + 1
               /\ Encodes(sent \o chunks, more)
               /\ Commits(sent \o chunks, more)
<1> DEFINE all == sent \o pending
           known == sent \o Before(c)
           chunks == Append(Before(c), ChunkOf(c))
           more == Append(streamed, c)
<1>1. pending \in Seq(Chunk) /\ sent \in Seq(Chunk) /\ streamed \in Seq(Cell)
  BY DEF TypeOK
<1>2. Len(pending) \in Nat /\ Len(sent) \in Nat /\ Len(streamed) \in Nat
  BY <1>1, LenProperties
<1>3. Before(c) \in Seq(Chunk) /\ Len(Before(c)) = Len(pending)
  BY BeforeProperties
<1>4. /\ chunks \in Seq(Chunk) /\ Len(chunks) = Len(pending) + 1
      /\ more \in Seq(Cell) /\ Len(more) = Len(streamed) + 1
  <2>1. ChunkOf(c) \in Chunk
    BY ChunkType
  <2>2. chunks \in Seq(Chunk) /\ Len(chunks) = Len(Before(c)) + 1
    BY <1>3, <2>1, AppendProperties
  <2>3. more \in Seq(Cell) /\ Len(more) = Len(streamed) + 1
    BY <1>1, AppendProperties
  <2> QED BY <1>3, <2>2, <2>3
<1>5. /\ all \in Seq(Chunk) /\ Len(all) = Len(streamed)
      /\ \A i \in 1 .. Len(streamed) :
            all[i] = IF i <= Len(sent) THEN sent[i] ELSE pending[i - Len(sent)]
  BY <1>1, ConcatProperties DEF Streaming
<1>6. /\ known \in Seq(Chunk) /\ Len(known) = Len(streamed)
      /\ \A i \in 1 .. Len(streamed) :
            known[i] = IF i <= Len(sent) THEN sent[i] ELSE Before(c)[i - Len(sent)]
  <2>1. Len(sent) + Len(Before(c)) = Len(streamed)
    BY <1>3 DEF Streaming
  <2>2. /\ known \in Seq(Chunk) /\ Len(known) = Len(sent) + Len(Before(c))
        /\ \A i \in 1 .. Len(sent) + Len(Before(c)) :
              known[i] = IF i <= Len(sent) THEN sent[i] ELSE Before(c)[i - Len(sent)]
    BY <1>1, <1>3, ConcatProperties
  <2> HIDE DEF known
  <2> QED BY <2>1, <2>2
<1>7. sent \o chunks = Append(known, ChunkOf(c))
  BY <1>1, <1>3, ChunkType, AppendToConcat
<1> HIDE DEF all, known
<1>8. ASSUME NEW i \in 1 .. Len(streamed)
      PROVE  /\ known[i].row = all[i].row
             /\ known[i].fam = all[i].fam
             /\ known[i].qual = all[i].qual
             /\ i < Len(streamed) => known[i].commit = all[i].commit
  <2>1. CASE i <= Len(sent)
    BY <1>5, <1>6, <2>1
  <2>2. CASE i > Len(sent)
    <3>1. i - Len(sent) \in 1 .. Len(pending)
      BY <1>2, <2>2 DEF Streaming
    <3>2. i < Len(streamed) => i - Len(sent) < Len(pending)
      BY <1>2 DEF Streaming
    <3> QED BY <1>2, <1>5, <1>6, <2>2, <3>1, <3>2, BeforeProperties
  <2> QED BY <1>2, <2>1, <2>2
<1>9. Encodes(sent \o chunks, more)
  <2>1. Encodes(all, streamed)
    BY DEF Streaming, all
  <2>2. /\ Len(known) <= Len(all)
        /\ \A i \in 1 .. Len(known) :
              /\ known[i].row = all[i].row
              /\ known[i].fam = all[i].fam
              /\ known[i].qual = all[i].qual
              /\ streamed[i] = streamed[i]
    BY <1>2, <1>5, <1>6, <1>8
  <2>a. Encodes(known, streamed)
    BY <1>1, <1>5, <1>6, <2>1, <2>2, EncodesFirst
  <2>3. current_row = IF streamed = << >> THEN None ELSE streamed[Len(streamed)].row
    BY DEF Streaming
  <2> QED BY <1>1, <1>6, <1>7, <2>a, <2>3, EncodesNext
<1>10. Commits(sent \o chunks, more)
  <2>1. Commits(all, streamed)
    BY DEF Streaming, all
  <2>2. ASSUME streamed # << >>
        PROVE  known[Len(streamed)].commit <=> c.row # streamed[Len(streamed)].row
    <3>1. pending # << >>
      BY <2>2 DEF Streaming
    <3>2. Len(pending) > 0
      BY <1>1, <1>2, <3>1, EmptySeq
    <3>3. known[Len(streamed)] = Before(c)[Len(pending)]
      BY <1>2, <1>6, <3>2 DEF Streaming
    <3> QED BY <2>2, <3>3, BeforeProperties
  <2>3. \A i \in 1 .. Len(all) - 1 : known[i].commit = all[i].commit
    BY <1>2, <1>5, <1>8
  <2> QED BY <1>1, <1>5, <1>6, <1>7, <2>1, <2>2, <2>3, CommitsNext
<1> QED BY <1>4, <1>9, <1>10

(* A cell is streamed. *)
LEMMA StreamStep ==
    ASSUME IInv, NEW c \in Cell, Stream(c)
    PROVE  IInv'
<1> DEFINE chunks == Append(Before(c), ChunkOf(c))
           more == Append(streamed, c)
<1>1. TypeOK /\ Streaming /\ state = "streaming"
  BY DEF IInv, Stream
<1>2. pending \in Seq(Chunk) /\ sent \in Seq(Chunk) /\ streamed \in Seq(Cell)
  BY <1>1 DEF TypeOK
<1>3. Len(pending) \in Nat /\ Len(sent) \in Nat /\ Len(streamed) \in Nat
  BY <1>2, LenProperties
<1>4. /\ chunks \in Seq(Chunk) /\ Len(chunks) = Len(pending) + 1
      /\ more \in Seq(Cell) /\ Len(more) = Len(streamed) + 1
      /\ Encodes(sent \o chunks, more)
      /\ Commits(sent \o chunks, more)
  BY <1>1, ChunksOfNextCell
<1>5. Len(sent) + Len(chunks) = Len(more)
  BY <1>1, <1>3, <1>4 DEF Streaming
<1>6. /\ streamed' = more /\ current_row' = c.row
      /\ IF Full(chunks) THEN Flush(chunks)
                         ELSE pending' = chunks /\ UNCHANGED <<state, sent>>
  BY DEF Stream, Before
<1>7. more # << >> /\ more[Len(more)] = c /\ c.row \in Row
  <2>1. more # << >> /\ more[Len(streamed) + 1] = c
    BY <1>2, AppendProperties
  <2> QED BY <1>4, <2>1 DEF Cell
<1>8. chunks # << >>
  <2>1. Before(c) \in Seq(Chunk) /\ ChunkOf(c) \in Chunk
    BY <1>1, BeforeProperties, ChunkType
  <2> QED BY <2>1, AppendProperties
<1> HIDE DEF chunks, more
<1>9. CASE ~Full(chunks)
  <2>1. pending' = chunks /\ sent' = sent /\ state' = "streaming"
    BY <1>1, <1>6, <1>9
  <2>2. TypeOK'
    BY <1>2, <1>4, <1>6, <1>7, <1>9, <2>1, RowStreamerAssumption DEF TypeOK, Full
  <2>3. Streaming'
    BY <1>4, <1>5, <1>6, <1>7, <1>8, <2>1 DEF Streaming
  <2> QED BY <2>1, <2>2, <2>3 DEF IInv
<1>10. CASE Full(chunks)
  <2> DEFINE n == Len(chunks) - 1
             flushed == SubSeq(chunks, 1, n)
  <2>1. /\ HeldBack(chunks) = <<chunks[n + 1]>>
        /\ Len(HeldBack(chunks)) = 1
        /\ HeldBack(chunks) \in Seq(Chunk)
        /\ flushed \in Seq(Chunk)
        /\ (sent \o flushed) \o HeldBack(chunks) = sent \o chunks
    BY <1>1, <1>2, <1>4, <1>10, FlushSplits
  <2>2. HeldBack(chunks) # << >> /\ 1 <= MaxPending
    BY <2>1, EmptySeq, RowStreamerAssumption
  <2>3. Write(flushed, HeldBack(chunks))
    BY <1>6, <1>10, <2>1 DEF Flush
  <2>4. pending' = HeldBack(chunks)
    BY <2>3 DEF Write
  <2>5. CASE sent' = sent \o flushed /\ state' = state
    <3>1. TypeOK'
      <4>1. sent \o flushed \in Seq(Chunk)
        BY <1>2, <2>1, ConcatProperties
      <4> QED BY <1>1, <1>4, <1>6, <1>7, <2>1, <2>2, <2>4, <2>5, <4>1 DEF TypeOK
    <3>2. Len(sent') + Len(pending') = Len(streamed')
      <4>1. Len((sent \o flushed) \o HeldBack(chunks)) = Len(sent \o flushed) + 1
        BY <1>2, <2>1, ConcatProperties
      <4>2. Len(sent \o chunks) = Len(sent) + Len(chunks)
        BY <1>2, <1>4, ConcatProperties
      <4> QED BY <1>5, <1>6, <2>1, <2>4, <2>5, <4>1, <4>2
    <3>3. Streaming'
      BY <1>4, <1>6, <1>7, <2>1, <2>2, <2>4, <2>5, <3>2 DEF Streaming
    <3> QED BY <1>1, <2>5, <3>1, <3>3 DEF IInv
  <2>6. CASE sent' = sent /\ state' = "aborted"
    <3>1. TypeOK'
      BY <1>1, <1>4, <1>6, <1>7, <2>1, <2>2, <2>4, <2>6 DEF TypeOK
    <3>2. Len(sent) < Len(more)
      BY <1>3, <1>4, <1>5
    <3>3. /\ sent \o chunks \in Seq(Chunk)
          /\ Len(sent) <= Len(sent \o chunks)
          /\ \A i \in 1 .. Len(sent) : (sent \o chunks)[i] = sent[i]
      BY <1>2, <1>3, <1>4, ConcatProperties
    <3>4. Encodes(sent, more)
      BY <1>2, <1>4, <3>3, EncodesFirst
    <3>5. Commits(sent, more)
      BY <1>3, <1>4, <3>3, LenProperties DEF Commits
    <3>6. Aborted'
      BY <1>6, <2>6, <3>2, <3>4, <3>5 DEF Aborted
    <3> QED BY <2>6, <3>1, <3>6 DEF IInv
  <2> QED BY <2>3, <2>5, <2>6 DEF Write
<1> QED BY <1>9, <1>10

(* The stream ends. *)
LEMMA FinishStep ==
    ASSUME IInv, Finish
    PROVE  IInv'
<1> DEFINE all == sent \o pending
           last == CommitLast(pending)
           whole == sent \o last
<1>1. TypeOK /\ Streaming /\ state = "streaming"
  BY DEF IInv, Finish
<1>2. pending \in Seq(Chunk) /\ sent \in Seq(Chunk) /\ streamed \in Seq(Cell)
  BY <1>1 DEF TypeOK
<1>3. Len(pending) \in Nat /\ Len(sent) \in Nat /\ Len(streamed) \in Nat
  BY <1>2, LenProperties
<1>4. /\ pending' = << >> /\ << >> \in Seq(Chunk) /\ Len(<< >>) = 0
      /\ current_row' = None /\ streamed' = streamed
  BY EmptySeq DEF Finish
<1>5. /\ all \in Seq(Chunk) /\ Len(all) = Len(streamed)
      /\ \A i \in 1 .. Len(streamed) :
            all[i] = IF i <= Len(sent) THEN sent[i] ELSE pending[i - Len(sent)]
  BY <1>1, <1>2, ConcatProperties DEF Streaming
<1>6. Encodes(all, streamed) /\ Commits(all, streamed)
  BY <1>1 DEF Streaming
<1>7. CASE state' = "aborted" /\ sent' = sent
  <2>1. TypeOK'
    BY <1>1, <1>2, <1>4, <1>7, RowStreamerAssumption DEF TypeOK
  <2>2. sent = << >> \/ Len(sent) < Len(streamed)
    <3>1. CASE streamed = << >>
      BY <1>1, <1>2, <1>3, <3>1, EmptySeq DEF Streaming
    <3>2. CASE streamed # << >>
      <4>1. pending # << >>
        BY <1>1, <3>2 DEF Streaming
      <4>2. Len(pending) > 0
        BY <1>2, <1>3, <4>1, EmptySeq
      <4> QED BY <1>1, <1>3, <4>2 DEF Streaming
    <3> QED BY <3>1, <3>2
  <2>3. \A i \in 1 .. Len(sent) : i \in 1 .. Len(streamed) /\ all[i] = sent[i]
    BY <1>1, <1>3, <1>5 DEF Streaming
  <2>4. Len(sent) <= Len(all)
    BY <1>1, <1>3, <1>5 DEF Streaming
  <2> HIDE DEF all
  <2>5. Encodes(sent, streamed)
    BY <1>2, <1>5, <1>6, <2>3, <2>4, EncodesFirst
  <2>6. Commits(sent, streamed)
    BY <1>5, <1>6, <2>3 DEF Commits
  <2>7. Aborted'
    BY <1>4, <1>7, <2>2, <2>5, <2>6 DEF Aborted
  <2> QED BY <1>7, <2>1, <2>7 DEF IInv
<1>8. CASE state' = "done" /\ sent' = whole
  <2>1. last \in Seq(Chunk) /\ Len(last) = Len(pending)
    BY <1>2, CommitLastProperties
  <2>2. Len(sent) + Len(last) = Len(streamed)
    BY <1>1, <2>1 DEF Streaming
  <2>3. /\ whole \in Seq(Chunk) /\ Len(whole) = Len(sent) + Len(last)
        /\ \A i \in 1 .. Len(sent) + Len(last) :
              whole[i] = IF i <= Len(sent) THEN sent[i] ELSE last[i - Len(sent)]
    BY <1>2, <2>1, ConcatProperties
  <2> HIDE DEF all, last, whole
  <2>4. ASSUME NEW i \in 1 .. Len(streamed)
        PROVE  /\ whole[i].row = all[i].row
               /\ whole[i].fam = all[i].fam
               /\ whole[i].qual = all[i].qual
               /\ i < Len(streamed) => whole[i].commit = all[i].commit
               /\ i = Len(streamed) => whole[i].commit
    <3>1. CASE i <= Len(sent)
      <4>1. i # Len(streamed)
        <5>1. streamed # << >>
          BY <1>2, <1>3, EmptySeq
        <5>2. pending # << >>
          BY <1>1, <5>1 DEF Streaming
        <5>3. Len(pending) > 0
          BY <1>2, <1>3, <5>2, EmptySeq
        <5> QED BY <1>1, <1>3, <3>1, <5>3 DEF Streaming
      <4> QED BY <1>5, <2>2, <2>3, <3>1, <4>1
    <3>2. CASE i > Len(sent)
      <4>1. i - Len(sent) \in 1 .. Len(pending)
        BY <1>3, <2>1, <2>2, <3>2
      <4>2. /\ i < Len(streamed) => i - Len(sent) < Len(pending)
            /\ i = Len(streamed) => i - Len(sent) = Len(pending)
        BY <1>3, <2>1, <2>2
      <4>3. whole[i] = last[i - Len(sent)] /\ all[i] = pending[i - Len(sent)]
        BY <1>3, <1>5, <2>2, <2>3, <3>2
      <4> QED BY <1>2, <4>1, <4>2, <4>3, CommitLastProperties DEF last
    <3> QED BY <1>3, <3>1, <3>2
  <2>5. TypeOK'
    BY <1>1, <1>2, <1>4, <1>8, <2>3, RowStreamerAssumption DEF TypeOK
  <2>6. Encodes(whole, streamed)
    <3>1. /\ Len(whole) <= Len(all)
          /\ \A i \in 1 .. Len(whole) :
                /\ whole[i].row = all[i].row
                /\ whole[i].fam = all[i].fam
                /\ whole[i].qual = all[i].qual
                /\ streamed[i] = streamed[i]
      BY <1>3, <1>5, <2>2, <2>3, <2>4
    <3> QED BY <1>2, <1>5, <1>6, <2>3, <3>1, EncodesFirst
  <2>7. \A i \in 1 .. Len(whole) :
           whole[i].commit <=> EndsRow(streamed, i) \/ i = Len(streamed)
    <3> SUFFICES ASSUME NEW i \in 1 .. Len(streamed)
                 PROVE  whole[i].commit <=> EndsRow(streamed, i) \/ i = Len(streamed)
      BY <2>2, <2>3
    <3>1. all[i].commit <=> EndsRow(streamed, i)
      BY <1>5, <1>6 DEF Commits
    <3> QED BY <1>3, <2>4, <3>1
  <2>8. Done'
    BY <1>4, <1>8, <2>2, <2>3, <2>6, <2>7 DEF Done
  <2> QED BY <1>8, <2>5, <2>8 DEF IInv
<1> QED BY <1>7, <1>8 DEF Finish

LEMMA Inductive == IInv /\ [Next]_vars => IInv'
<1> SUFFICES ASSUME IInv, [Next]_vars PROVE IInv'
  OBVIOUS
<1>1. CASE Finish
  BY <1>1, FinishStep
<1>2. ASSUME NEW c \in Cell, Stream(c)
      PROVE  IInv'
  BY <1>2, StreamStep
<1>3. CASE UNCHANGED vars
  <2> USE <1>3 DEF vars
  <2>1. TypeOK'
    BY DEF IInv, TypeOK
  <2>2. Streaming' <=> Streaming
    BY DEF Streaming
  <2>3. Aborted' <=> Aborted
    BY DEF Aborted
  <2>4. Done' <=> Done
    BY DEF Done
  <2> QED BY <2>1, <2>2, <2>3, <2>4 DEF IInv
<1> QED BY <1>1, <1>2, <1>3 DEF Next

LEMMA Invariance == Spec => []IInv
BY Initialization, Inductive, PTL DEF Spec

-----------------------------------------------------------------------------
(***************************************************************************)
(* The chunks that are sent are of their types, and at most MaxPending are *)
(* held back.                                                              *)
(***************************************************************************)
THEOREM TypeCorrect == Spec => []TypeOK
<1>1. IInv => TypeOK
  BY DEF IInv
<1> QED BY <1>1, Invariance, PTL

LEMMA MaxIs ==
    ASSUME NEW S \in SUBSET Int, NEW k \in S, \A j \in S : j <= k
    PROVE  Max(S) = k
<1>1. \A y \in S : k >= y
  OBVIOUS
<1>2. \A x \in S : (\A y \in S : x >= y) => x = k
  OBVIOUS
<1>3. Max(S) \in S /\ \A y \in S : Max(S) >= y
  BY <1>1 DEF Max
<1> QED BY <1>2, <1>3

(***************************************************************************)
(* Every cell that was sent is read back as it was streamed, unless its    *)
(* row key is its family's name: the code compares the family with the     *)
(* current row key, so the client would keep the family of the last chunk. *)
(***************************************************************************)
THEOREM CellsReadBack == Spec => []CellsDecode
<1>1. IInv => CellsDecode
  <2> SUFFICES ASSUME IInv, NEW i \in DOMAIN sent, streamed[i].row # streamed[i].fam
               PROVE  DecodedAt(i) = streamed[i]
    BY DEF CellsDecode
  <2>1. sent \in Seq(Chunk) /\ streamed \in Seq(Cell) /\ pending \in Seq(Chunk)
    BY DEF IInv, TypeOK
  <2>2. i \in 1 .. Len(sent) /\ Len(sent) \in Nat /\ Len(streamed) \in Nat /\ Len(pending) \in Nat
    BY <2>1, LenProperties
  <2>3. Encodes(sent, streamed) /\ Len(sent) <= Len(streamed)
    <3>1. CASE state = "streaming"
      <4>1. Streaming
        BY <3>1 DEF IInv
      <4>2. /\ sent \o pending \in Seq(Chunk)
            /\ Len(sent) <= Len(sent \o pending)
            /\ \A j \in 1 .. Len(sent) : (sent \o pending)[j] = sent[j]
        BY <2>1, <2>2, ConcatProperties
      <4>3. Encodes(sent, streamed)
        BY <2>1, <4>1, <4>2, EncodesFirst DEF Streaming
      <4> QED BY <2>2, <4>1, <4>3 DEF Streaming
    <3>2. CASE state = "aborted"
      <4>1. Aborted
        BY <3>2 DEF IInv
      <4> QED BY <2>2, <4>1, EmptySeq DEF Aborted
    <3>3. CASE state = "done"
      BY <2>2, <3>3 DEF IInv, Done
    <3> QED BY <3>1, <3>2, <3>3 DEF IInv, TypeOK
  <2>4. streamed[i] \in Cell
    BY <2>1, <2>2, <2>3, ElementOfSeq
  <2>5. /\ None \notin Row \union Family \union Qualifier
        /\ streamed[i].row \in Row /\ streamed[i].fam \in Family
        /\ streamed[i].qual \in Qualifier
    BY <2>4, RowStreamerAssumption DEF Cell
  <2>6. RowAt(i) = streamed[i].row
    <3>1. PICK k \in 1 .. i : RowSetAt(sent, streamed[i].row, k, i)
      BY <2>2, <2>3 DEF Encodes
    <3> DEFINE S == {j \in 1 .. i : sent[j].row # None}
    <3>2. k \in S /\ S \in SUBSET Int
      BY <2>5, <3>1 DEF RowSetAt
    <3>3. \A j \in S : j <= k
      BY <2>2, <3>1 DEF RowSetAt
    <3>4. Max(S) = k
      <4> HIDE DEF S
      <4> QED BY <3>2, <3>3, MaxIs
    <3> QED BY <3>1, <3>4 DEF RowAt, RowSetAt
  <2>7. sent[i].fam = streamed[i].fam /\ sent[i].qual = streamed[i].qual
    BY <2>2, <2>3 DEF Encodes
  <2>8. FamilyAt(i) = streamed[i].fam
    <3> DEFINE S == {j \in 1 .. i : sent[j].fam # None}
    <3>1. i \in S /\ S \in SUBSET Int /\ \A j \in S : j <= i
      BY <2>2, <2>5, <2>7
    <3>2. Max(S) = i
      <4> HIDE DEF S
      <4> QED BY <3>1, MaxIs
    <3> QED BY <2>7, <3>2 DEF FamilyAt
  <2>9. QualifierAt(i) = streamed[i].qual
    <3> DEFINE S == {j \in 1 .. i : sent[j].qual # None}
    <3>1. i \in S /\ S \in SUBSET Int /\ \A j \in S : j <= i
      BY <2>2, <2>5, <2>7
    <3>2. Max(S) = i
      <4> HIDE DEF S
      <4> QED BY <3>1, MaxIs
    <3> QED BY <2>7, <3>2 DEF QualifierAt
  <2> QED BY <2>4, <2>6, <2>8, <2>9 DEF DecodedAt, Cell
<1> QED BY <1>1, Invariance, PTL

(***************************************************************************)
(* A row is committed by its last chunk and by no other, wherever the      *)
(* batches end and whether or not the client stays.                        *)
(***************************************************************************)
THEOREM CommitsAreWhole == Spec => []RowsCommittedWhole
<1>1. IInv => RowsCommittedWhole
  <2> SUFFICES ASSUME IInv, NEW i \in DOMAIN sent
               PROVE  sent[i].commit <=>
                         \/ EndsRow(streamed, i)
                         \/ i = Len(streamed) /\ state = "done"
    BY DEF RowsCommittedWhole, EndsRow
  <2>1. sent \in Seq(Chunk) /\ pending \in Seq(Chunk) /\ streamed \in Seq(Cell)
    BY DEF IInv, TypeOK
  <2>2. /\ i \in 1 .. Len(sent)
        /\ Len(sent) \in Nat /\ Len(pending) \in Nat /\ Len(streamed) \in Nat
    BY <2>1, LenProperties
  <2>3. CASE state = "streaming"
    <3>1. Streaming
      BY <2>3 DEF IInv
    <3>2. /\ i \in 1 .. Len(sent \o pending)
          /\ (sent \o pending)[i] = sent[i]
      BY <2>1, <2>2, ConcatProperties
    <3> QED BY <2>3, <3>1, <3>2 DEF Streaming, Commits
  <2>4. CASE state = "aborted"
    BY <2>2, <2>4, EmptySeq DEF IInv, Aborted, Commits
  <2>5. CASE state = "done"
    BY <2>2, <2>5 DEF IInv, Done
  <2> QED BY <2>3, <2>4, <2>5 DEF IInv, TypeOK
<1> QED BY <1>1, Invariance, PTL

(* A read that returns OK has sent one chunk for each cell. *)
THEOREM NothingIsLeft == Spec => []AllCellsSent
<1>1. IInv => AllCellsSent
  BY DEF IInv, Done, AllCellsSent
<1> QED BY <1>1, Invariance, PTL

=============================================================================

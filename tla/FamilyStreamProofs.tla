-------------------------- MODULE FamilyStreamProofs --------------------------
(***************************************************************************)
(* Proofs about FamilyStream, for any names, tables and filters: what a    *)
(* stream selects is what its filters ask for, rows and columns come out   *)
(* in order, and the stream is one stream (CellSource) in both storages.   *)
(***************************************************************************)
EXTENDS FamilyStream, FiniteSetTheorems, SequenceTheorems, WellFoundedInduction, TLAPS

-----------------------------------------------------------------------------
(* Least elements.                                                         *)

LEMMA NatHasMin ==
    ASSUME NEW S \in SUBSET Nat, S # {}
    PROVE  \E m \in S : \A k \in S : m <= k
<1>1. IsWellFoundedOn(OpToRel(<, Nat), Nat)
  BY NatLessThanWellFounded
<1>2. PICK m \in S : \A k \in S : <<k, m>> \notin OpToRel(<, Nat)
  BY <1>1, WFMin
<1>3. \A k \in S : ~(k < m)
  BY <1>2 DEF OpToRel
<1> QED BY <1>3

LEMMA MinIsLeast ==
    ASSUME NEW S \in SUBSET Nat, S # {}
    PROVE  Min(S) \in S /\ \A k \in S : Min(S) <= k
BY NatHasMin DEF Min

LEMMA MinIs ==
    ASSUME NEW S \in SUBSET Nat, NEW m \in S, \A k \in S : m <= k
    PROVE  Min(S) = m
<1>1. Min(S) \in S /\ \A k \in S : Min(S) <= k
  BY MinIsLeast
<1>2. Min(S) <= m /\ m <= Min(S) /\ m \in Nat /\ Min(S) \in Nat
  BY <1>1
<1> QED BY <1>2

-----------------------------------------------------------------------------
(* The order of the stored keys.                                           *)

KeyOfCell == [parts : Seq(Names), time : 0..99]

(* The first part in which the keys differ is the i-th.                    *)
Diverge(k, l, i) ==
    /\ i \in 1..Len(k.parts)
    /\ i \in 1..Len(l.parts)
    /\ k.parts[i] # l.parts[i]
    /\ \A j \in 1..(i - 1) : k.parts[j] = l.parts[j]

(* One key has no part in which it differs from the other.                 *)
Agree(k, l) ==
    \A i \in 1..Len(k.parts) : i \in 1..Len(l.parts) => k.parts[i] = l.parts[i]

LEMMA KeyType ==
    ASSUME NEW k \in KeyOfCell
    PROVE  /\ Len(k.parts) \in Nat
           /\ \A i \in 1..Len(k.parts) : k.parts[i] \in Names /\ PartRank[k.parts[i]] \in Nat
           /\ k.time \in 0..99
<1>1. PartRank \in [Names -> Nat]
  BY FamilyStreamAssumption
<1>2. k.parts \in Seq(Names) /\ k.time \in 0..99
  BY DEF KeyOfCell
<1> QED BY <1>1, <1>2, ElementOfSeq, LenProperties

LEMMA TextOrder ==
    ASSUME NEW s \in 0..99, NEW t \in 0..99, NEW u \in 0..99
    PROVE  /\ ~TextBefore(s, s)
           /\ TextBefore(s, t) /\ TextBefore(t, u) => TextBefore(s, u)
           /\ s # t => TextBefore(s, t) \/ TextBefore(t, s)
<1>1. FirstDigit(s) \in Int /\ FirstDigit(t) \in Int /\ FirstDigit(u) \in Int
  BY DEF FirstDigit
<1> QED BY <1>1 DEF TextBefore

LEMMA KeysDivergeOrAgree ==
    ASSUME NEW k \in KeyOfCell, NEW l \in KeyOfCell
    PROVE  Agree(k, l) \/ \E i \in Nat : Diverge(k, l, i)
<1> SUFFICES ASSUME ~Agree(k, l) PROVE \E i \in Nat : Diverge(k, l, i)
  OBVIOUS
<1> DEFINE D == {i \in 1..Len(k.parts) : i \in 1..Len(l.parts) /\ k.parts[i] # l.parts[i]}
<1>1. D \in SUBSET Nat /\ D # {}
  BY KeyType DEF Agree
<1>2. PICK i \in D : \A j \in D : i <= j
  <2> HIDE DEF D
  <2> QED BY <1>1, NatHasMin
<1>3. \A j \in 1..(i - 1) : j \in 1..Len(k.parts) /\ j \in 1..Len(l.parts) /\ ~(i <= j)
  BY <1>2, KeyType
<1>4. \A j \in 1..(i - 1) : k.parts[j] = l.parts[j]
  BY <1>2, <1>3
<1> QED BY <1>1, <1>2, <1>4 DEF Diverge

LEMMA DivergingKeys ==
    ASSUME NEW k \in KeyOfCell, NEW l \in KeyOfCell, NEW i \in Nat, Diverge(k, l, i)
    PROVE  KeyBefore(k, l) <=> PartRank[k.parts[i]] < PartRank[l.parts[i]]
<1> DEFINE common == MinOf(Len(k.parts), Len(l.parts))
           differ == {j \in 1..common : k.parts[j] # l.parts[j]}
<1>1. differ \in SUBSET Nat /\ i \in differ
  BY KeyType DEF Diverge, MinOf
<1>2. \A j \in differ : i <= j
  <2> SUFFICES ASSUME NEW j \in differ, ~(i <= j) PROVE FALSE
    OBVIOUS
  <2>1. j \in 1..(i - 1)
    BY KeyType DEF MinOf
  <2> QED BY <2>1 DEF Diverge
<1>3. Min(differ) = i
  <2> HIDE DEF differ
  <2> QED BY <1>1, <1>2, MinIs
<1>4. KeyBefore(k, l) <=>
        IF differ # {}
        THEN PartRank[k.parts[Min(differ)]] < PartRank[l.parts[Min(differ)]]
        ELSE \/ Len(k.parts) < Len(l.parts)
             \/ Len(k.parts) = Len(l.parts) /\ TextBefore(k.time, l.time)
  BY DEF KeyBefore
<1> HIDE DEF differ
<1> QED BY <1>1, <1>3, <1>4

LEMMA AgreeingKeys ==
    ASSUME NEW k \in KeyOfCell, NEW l \in KeyOfCell, Agree(k, l)
    PROVE  KeyBefore(k, l) <=>
                \/ Len(k.parts) < Len(l.parts)
                \/ Len(k.parts) = Len(l.parts) /\ TextBefore(k.time, l.time)
<1> DEFINE common == MinOf(Len(k.parts), Len(l.parts))
           differ == {j \in 1..common : k.parts[j] # l.parts[j]}
<1>1. differ = {}
  BY KeyType DEF Agree, MinOf
<1>2. KeyBefore(k, l) <=>
        IF differ # {}
        THEN PartRank[k.parts[Min(differ)]] < PartRank[l.parts[Min(differ)]]
        ELSE \/ Len(k.parts) < Len(l.parts)
             \/ Len(k.parts) = Len(l.parts) /\ TextBefore(k.time, l.time)
  BY DEF KeyBefore
<1> HIDE DEF differ
<1> QED BY <1>1, <1>2

LEMMA KeyOrderIrreflexive ==
    ASSUME NEW k \in KeyOfCell
    PROVE  ~KeyBefore(k, k)
<1>1. Agree(k, k)
  BY DEF Agree
<1>2. Len(k.parts) \in Nat /\ ~TextBefore(k.time, k.time)
  BY KeyType, TextOrder
<1> QED BY <1>1, <1>2, AgreeingKeys

LEMMA KeyOrderTotal ==
    ASSUME NEW k \in KeyOfCell, NEW l \in KeyOfCell, k # l
    PROVE  KeyBefore(k, l) \/ KeyBefore(l, k)
<1>1. ASSUME NEW i \in Nat, Diverge(k, l, i)
      PROVE  KeyBefore(k, l) \/ KeyBefore(l, k)
  <2>1. Diverge(l, k, i)
    BY <1>1 DEF Diverge
  <2>2. /\ k.parts[i] \in Names /\ l.parts[i] \in Names
        /\ PartRank[k.parts[i]] \in Nat /\ PartRank[l.parts[i]] \in Nat
        /\ k.parts[i] # l.parts[i]
    BY <1>1, KeyType DEF Diverge
  <2>3. PartRank[k.parts[i]] # PartRank[l.parts[i]]
    BY <2>2, FamilyStreamAssumption
  <2> QED BY <1>1, <2>1, <2>2, <2>3, DivergingKeys
<1>2. CASE Agree(k, l)
  <2>1. Agree(l, k)
    BY <1>2 DEF Agree
  <2>2. ASSUME Len(k.parts) = Len(l.parts)
        PROVE  k.parts = l.parts
    <3>1. k.parts \in Seq(Names) /\ l.parts \in Seq(Names)
      BY DEF KeyOfCell
    <3>2. \A i \in 1..Len(k.parts) : k.parts[i] = l.parts[i]
      BY <1>2, <2>2 DEF Agree
    <3> QED BY <2>2, <3>1, <3>2, SeqEqual
  <2>3. Len(k.parts) = Len(l.parts) => k.time # l.time
    BY <2>2 DEF KeyOfCell
  <2>4. Len(k.parts) \in Nat /\ Len(l.parts) \in Nat
    BY KeyType
  <2>5. k.time # l.time => TextBefore(k.time, l.time) \/ TextBefore(l.time, k.time)
    <3>1. k.time \in 0..99 /\ l.time \in 0..99
      BY KeyType
    <3> QED BY <3>1, TextOrder
  <2>6. \/ Len(k.parts) < Len(l.parts) \/ Len(l.parts) < Len(k.parts)
        \/ Len(k.parts) = Len(l.parts)
    BY <2>4
  <2> QED BY <1>2, <2>1, <2>3, <2>5, <2>6, AgreeingKeys
<1> QED BY <1>1, <1>2, KeysDivergeOrAgree

LEMMA KeyOrderTransitive ==
    ASSUME NEW k \in KeyOfCell, NEW l \in KeyOfCell, NEW m \in KeyOfCell,
           KeyBefore(k, l), KeyBefore(l, m)
    PROVE  KeyBefore(k, m)
<1>1. ASSUME NEW i \in Nat, Diverge(k, l, i), NEW j \in Nat, Diverge(l, m, j)
      PROVE  KeyBefore(k, m)
  <2>1. /\ PartRank[k.parts[i]] < PartRank[l.parts[i]]
        /\ PartRank[l.parts[j]] < PartRank[m.parts[j]]
    BY <1>1, DivergingKeys
  <2>2. CASE i < j
    <3>1. l.parts[i] = m.parts[i] /\ i \in 1..Len(m.parts)
      BY <1>1, <2>2, KeyType DEF Diverge
    <3>2. Diverge(k, m, i)
      BY <1>1, <2>2, <3>1, KeyType DEF Diverge
    <3> QED BY <2>1, <3>1, <3>2, DivergingKeys
  <2>3. CASE i = j
    <3>1. /\ PartRank[k.parts[i]] \in Nat /\ PartRank[l.parts[i]] \in Nat
          /\ PartRank[m.parts[i]] \in Nat
      BY <1>1, <2>3, KeyType DEF Diverge
    <3>2. PartRank[k.parts[i]] < PartRank[m.parts[i]]
      BY <2>1, <2>3, <3>1
    <3>3. k.parts[i] # m.parts[i]
      BY <3>1, <3>2
    <3>4. Diverge(k, m, i)
      BY <1>1, <2>3, <3>3 DEF Diverge
    <3> QED BY <3>2, <3>4, DivergingKeys
  <2>4. CASE j < i
    <3>1. k.parts[j] = l.parts[j] /\ j \in 1..Len(k.parts)
      BY <1>1, <2>4, KeyType DEF Diverge
    <3>2. Diverge(k, m, j)
      BY <1>1, <2>4, <3>1, KeyType DEF Diverge
    <3> QED BY <2>1, <3>1, <3>2, DivergingKeys
  <2> QED BY <2>2, <2>3, <2>4
<1>2. ASSUME NEW i \in Nat, Diverge(k, l, i), Agree(l, m)
      PROVE  KeyBefore(k, m)
  <2>1. PartRank[k.parts[i]] < PartRank[l.parts[i]]
    BY <1>2, DivergingKeys
  <2>2. Len(l.parts) <= Len(m.parts)
    BY <1>2, AgreeingKeys, KeyType
  <2>3. \A j \in 1..Len(l.parts) : j \in 1..Len(m.parts) /\ l.parts[j] = m.parts[j]
    BY <1>2, <2>2, KeyType DEF Agree
  <2>4. Diverge(k, m, i) /\ l.parts[i] = m.parts[i]
    BY <1>2, <2>3, KeyType DEF Diverge
  <2> QED BY <2>1, <2>4, DivergingKeys
<1>3. ASSUME Agree(k, l), NEW j \in Nat, Diverge(l, m, j)
      PROVE  KeyBefore(k, m)
  <2>1. PartRank[l.parts[j]] < PartRank[m.parts[j]]
    BY <1>3, DivergingKeys
  <2>2. Len(k.parts) <= Len(l.parts)
    BY <1>3, AgreeingKeys, KeyType
  <2>3. \A i \in 1..Len(k.parts) : i \in 1..Len(l.parts) /\ k.parts[i] = l.parts[i]
    BY <1>3, <2>2, KeyType DEF Agree
  <2>4. CASE j \in 1..Len(k.parts)
    <3>1. Diverge(k, m, j) /\ k.parts[j] = l.parts[j]
      BY <1>3, <2>3, <2>4, KeyType DEF Diverge
    <3> QED BY <2>1, <3>1, DivergingKeys
  <2>5. CASE j \notin 1..Len(k.parts)
    <3>1. Len(k.parts) < j /\ j <= Len(m.parts)
      BY <1>3, <2>5, KeyType DEF Diverge
    <3>2. \A i \in 1..Len(k.parts) : i \in 1..(j - 1)
      BY <3>1, KeyType
    <3>3. Agree(k, m)
      BY <1>3, <2>3, <3>2 DEF Agree, Diverge
    <3>4. Len(k.parts) < Len(m.parts)
      BY <3>1, KeyType
    <3> QED BY <3>3, <3>4, AgreeingKeys
  <2> QED BY <2>4, <2>5
<1>4. ASSUME Agree(k, l), Agree(l, m)
      PROVE  KeyBefore(k, m)
  <2>1. /\ \/ Len(k.parts) < Len(l.parts)
           \/ Len(k.parts) = Len(l.parts) /\ TextBefore(k.time, l.time)
        /\ \/ Len(l.parts) < Len(m.parts)
           \/ Len(l.parts) = Len(m.parts) /\ TextBefore(l.time, m.time)
    BY <1>4, AgreeingKeys
  <2>2. \A i \in 1..Len(k.parts) : i \in 1..Len(l.parts)
    BY <2>1, KeyType
  <2>3. Agree(k, m)
    <3>1. \A i \in 1..Len(l.parts) : i \in 1..Len(m.parts)
      BY <2>1, KeyType
    <3> QED BY <1>4, <2>2, <3>1 DEF Agree
  <2>4. \/ Len(k.parts) < Len(m.parts)
        \/ Len(k.parts) = Len(m.parts) /\ TextBefore(k.time, m.time)
    <3>1. Len(k.parts) \in Nat /\ Len(l.parts) \in Nat /\ Len(m.parts) \in Nat
      BY KeyType
    <3>2. k.time \in 0..99 /\ l.time \in 0..99 /\ m.time \in 0..99
      BY KeyType
    <3>3. TextBefore(k.time, l.time) /\ TextBefore(l.time, m.time) => TextBefore(k.time, m.time)
      BY <3>2, TextOrder
    <3> QED BY <2>1, <3>1, <3>3
  <2> QED BY <2>3, <2>4, AgreeingKeys
<1> QED BY <1>1, <1>2, <1>3, <1>4, KeysDivergeOrAgree

(* Keys are in the order of their first parts, then of their second ones.  *)
LEMMA KeyOrderOfParts ==
    ASSUME NEW k \in KeyOfCell, NEW l \in KeyOfCell, KeyBefore(k, l),
           Len(k.parts) >= 2, Len(l.parts) >= 2
    PROVE  /\ PartRank[k.parts[1]] <= PartRank[l.parts[1]]
           /\ k.parts[1] = l.parts[1] => PartRank[k.parts[2]] <= PartRank[l.parts[2]]
<1>1. /\ Len(k.parts) \in Nat /\ Len(l.parts) \in Nat
      /\ 1 \in 1..Len(k.parts) /\ 2 \in 1..Len(k.parts)
      /\ 1 \in 1..Len(l.parts) /\ 2 \in 1..Len(l.parts)
  BY KeyType
<1>2. /\ PartRank[k.parts[1]] \in Nat /\ PartRank[k.parts[2]] \in Nat
      /\ PartRank[l.parts[1]] \in Nat /\ PartRank[l.parts[2]] \in Nat
  BY <1>1, KeyType
<1>3. CASE Agree(k, l)
  BY <1>1, <1>2, <1>3 DEF Agree
<1>4. ASSUME NEW i \in Nat, Diverge(k, l, i)
      PROVE  /\ PartRank[k.parts[1]] <= PartRank[l.parts[1]]
             /\ k.parts[1] = l.parts[1] => PartRank[k.parts[2]] <= PartRank[l.parts[2]]
  <2>1. PartRank[k.parts[i]] < PartRank[l.parts[i]]
    BY <1>4, DivergingKeys
  <2>2. i >= 1 /\ \A j \in 1..(i - 1) : k.parts[j] = l.parts[j]
    BY <1>1, <1>4 DEF Diverge
  <2>3. i = 1 \/ i = 2 \/ i > 2
    BY <2>2
  <2>4. CASE i = 1
    BY <1>2, <1>4, <2>1, <2>4 DEF Diverge
  <2>5. CASE i = 2
    BY <1>2, <2>1, <2>2, <2>5
  <2>6. CASE i > 2
    <3>1. 1 \in 1..(i - 1) /\ 2 \in 1..(i - 1)
      BY <2>6
    <3>2. k.parts[1] = l.parts[1] /\ k.parts[2] = l.parts[2]
      BY <2>2, <3>1
    <3> QED BY <1>2, <3>2
  <2> QED BY <2>3, <2>4, <2>5, <2>6
<1> QED BY <1>3, <1>4, KeysDivergeOrAgree

-----------------------------------------------------------------------------
(* The cells and keys a stream walks, and their order.                     *)

ParsedCell ==
    [row : Names, family : {1}, column : Names, time : 0..99, key : KeyOfCell]

LEMMA NamesAreNumbers == Names \subseteq Nat /\ 0 \notin Names
<1>1. Cardinality(Names) \in Nat
  BY FamilyStreamAssumption, FS_CardinalityType
<1> QED BY <1>1, FamilyStreamAssumption

LEMMA CellProperties ==
    ASSUME NEW c \in Cell
    PROVE  /\ c.row \in Nat /\ c.row # 0 /\ c.column \in Nat
           /\ c.time \in Nat /\ c.family = 1 /\ c.key = <<>>
<1>1. c.row \in Names /\ c.column \in Names /\ c.time \in 0..99
  BY DEF Cell
<1>2. c.row \in Nat /\ c.row # 0 /\ c.column \in Nat
  BY <1>1, NamesAreNumbers
<1>3. c.time \in Nat
  BY <1>1
<1>4. c.family = 1 /\ c.key = <<>>
  BY DEF Cell
<1> QED BY <1>2, <1>3, <1>4

LEMMA TableType ==
    ASSUME TypeOK
    PROVE  table \subseteq Cell /\ IsFiniteSet(table)
<1>1. table \in Tables
  BY DEF TypeOK
<1> QED BY <1>1, FamilyStreamAssumption

LEMMA KeyProperties ==
    ASSUME NEW c \in Cell
    PROVE  Key(c) \in KeyOfCell /\ Len(Key(c).parts) >= 2
<1>1. c.row \in Names /\ c.column \in Names /\ c.time \in 0..99
  BY DEF Cell
<1>2. /\ Parts[c.row] \in Seq(Names) /\ Parts[c.column] \in Seq(Names)
      /\ Parts[c.row] # <<>> /\ Parts[c.column] # <<>>
  BY <1>1, FamilyStreamAssumption
<1>3. /\ Len(Parts[c.row]) \in Nat /\ Len(Parts[c.column]) \in Nat
      /\ Len(Parts[c.row]) # 0 /\ Len(Parts[c.column]) # 0
  BY <1>2, LenProperties, EmptySeq
<1>4. /\ Parts[c.row] \o Parts[c.column] \in Seq(Names)
      /\ Len(Parts[c.row] \o Parts[c.column]) = Len(Parts[c.row]) + Len(Parts[c.column])
  BY <1>2, ConcatProperties
<1>5. Len(Parts[c.row] \o Parts[c.column]) >= 2
  <2>1. \A a, b \in Nat : a # 0 /\ b # 0 => a + b >= 2
    OBVIOUS
  <2> QED BY <1>3, <1>4, <2>1
<1> QED BY <1>1, <1>4, <1>5 DEF Key, KeyOfCell

LEMMA ParseProperties ==
    ASSUME NEW k \in KeyOfCell, Len(k.parts) >= 2
    PROVE  /\ Parse(k) \in ParsedCell
           /\ Parse(k).key = k
           /\ Parse(k).row = k.parts[1]
           /\ Parse(k).column = k.parts[2]
<1>1. 1 \in 1..Len(k.parts) /\ 2 \in 1..Len(k.parts)
  BY KeyType
<1>2. k.parts[1] \in Names /\ k.parts[2] \in Names
  BY <1>1, KeyType
<1>3. k.time \in 0..99 /\ 0 \in 0..99
  BY KeyType
<1> QED BY <1>2, <1>3 DEF Parse, ParsedCell

LEMMA StoredKeyProperties ==
    ASSUME TypeOK, NEW c \in StoredKeys
    PROVE  /\ c \in ParsedCell
           /\ c = Parse(c.key)
           /\ Len(c.key.parts) >= 2
           /\ c.row = c.key.parts[1]
           /\ c.column = c.key.parts[2]
<1>1. PICK d \in table : c = Parse(Key(d))
  BY DEF StoredKeys
<1>2. d \in Cell
  BY TableType
<1>3. Key(d) \in KeyOfCell /\ Len(Key(d).parts) >= 2
  BY <1>2, KeyProperties
<1> QED BY <1>1, <1>3, ParseProperties

LEMMA EverythingIsFinite ==
    ASSUME TypeOK
    PROVE  IsFiniteSet(Everything)
<1> DEFINE f == [c \in table |-> Parse(Key(c))]
<1>1. f \in Surjection(table, StoredKeys)
  BY DEF Surjection, StoredKeys
<1>2. IsFiniteSet(StoredKeys)
  BY <1>1, TableType, FS_Surjection
<1> QED BY <1>2, TableType DEF Everything

LEMMA WalkedIsThere ==
    ASSUME TypeOK
    PROVE  Walked \subseteq Everything /\ (~stored => Walked = Selected)
BY DEF Walked, Everything, StoredCells, Selected

(* What every cell of the walk has, in both storages. *)
LEMMA CellType ==
    ASSUME TypeOK, NEW c \in Everything
    PROVE  c.row \in Names /\ c.family = 1 /\ c.column \in Names /\ c.time \in 0..99
<1>1. CASE stored
  BY <1>1, StoredKeyProperties DEF Everything, ParsedCell
<1>2. CASE ~stored
  BY <1>2, TableType DEF Everything, Cell
<1> QED BY <1>1, <1>2

(* The walk goes through the cells in a strict total order. *)
LEMMA WalkOrder ==
    ASSUME TypeOK, NEW c \in Everything, NEW d \in Everything
    PROVE  /\ ~WalkBefore(c, c)
           /\ c # d => WalkBefore(c, d) \/ WalkBefore(d, c)
<1>1. CASE stored
  <2>1. c \in StoredKeys /\ d \in StoredKeys
    BY <1>1 DEF Everything
  <2>2. /\ c.key \in KeyOfCell /\ c = Parse(c.key)
        /\ d.key \in KeyOfCell /\ d = Parse(d.key)
    BY <2>1, StoredKeyProperties DEF ParsedCell
  <2>3. c # d => c.key # d.key
    BY <2>2
  <2> QED BY <1>1, <2>2, <2>3, KeyOrderIrreflexive, KeyOrderTotal DEF WalkBefore
<1>2. CASE ~stored
  <2>1. c \in Cell /\ d \in Cell
    BY <1>2, TableType DEF Everything
  <2>2. c # d => c.row # d.row \/ c.column # d.column \/ c.time # d.time
    BY <2>1 DEF Cell
  <2>3. /\ c.row \in Nat /\ c.column \in Nat /\ c.time \in Nat /\ c.family = 1
        /\ d.row \in Nat /\ d.column \in Nat /\ d.time \in Nat /\ d.family = 1
    BY <2>1, CellProperties
  <2> QED BY <1>2, <2>2, <2>3 DEF WalkBefore, FreshestFirst, ColumnBefore, SameColumn
<1> QED BY <1>1, <1>2

LEMMA WalkTransitive ==
    ASSUME TypeOK, NEW c \in Everything, NEW d \in Everything, NEW e \in Everything,
           WalkBefore(c, d), WalkBefore(d, e)
    PROVE  WalkBefore(c, e)
<1>1. CASE stored
  <2>1. c \in StoredKeys /\ d \in StoredKeys /\ e \in StoredKeys
    BY <1>1 DEF Everything
  <2>2. c.key \in KeyOfCell /\ d.key \in KeyOfCell /\ e.key \in KeyOfCell
    BY <2>1, StoredKeyProperties DEF ParsedCell
  <2>3. KeyBefore(c.key, d.key) /\ KeyBefore(d.key, e.key)
    BY <1>1 DEF WalkBefore
  <2>4. KeyBefore(c.key, e.key)
    BY <2>2, <2>3, KeyOrderTransitive
  <2> QED BY <1>1, <2>4 DEF WalkBefore
<1>2. CASE ~stored
  <2>1. c \in Cell /\ d \in Cell /\ e \in Cell
    BY <1>2, TableType DEF Everything
  <2>2. /\ c.row \in Nat /\ c.column \in Nat /\ c.time \in Nat /\ c.family = 1
        /\ d.row \in Nat /\ d.column \in Nat /\ d.time \in Nat /\ d.family = 1
        /\ e.row \in Nat /\ e.column \in Nat /\ e.time \in Nat /\ e.family = 1
    BY <2>1, CellProperties
  <2> QED BY <1>2, <2>2 DEF WalkBefore, FreshestFirst, ColumnBefore, SameColumn
<1> QED BY <1>1, <1>2

(* The order of a name in the walk. *)
Rank(n) == IF stored THEN PartRank[n] ELSE n

LEMMA RankProperties ==
    ASSUME NEW m \in Names, NEW n \in Names
    PROVE  /\ Rank(m) \in Nat
           /\ Rank(m) = Rank(n) => m = n
<1>1. PartRank \in [Names -> Nat] /\ (PartRank[m] = PartRank[n] => m = n)
  BY FamilyStreamAssumption
<1>2. m \in Nat /\ n \in Nat
  BY NamesAreNumbers
<1> QED BY <1>1, <1>2 DEF Rank

LEMMA WalkOfNames ==
    ASSUME TypeOK, NEW c \in Everything, NEW d \in Everything, WalkBefore(c, d)
    PROVE  /\ Rank(c.row) <= Rank(d.row)
           /\ c.row = d.row => Rank(c.column) <= Rank(d.column)
<1>1. CASE stored
  <2>1. c \in StoredKeys /\ d \in StoredKeys /\ KeyBefore(c.key, d.key)
    BY <1>1 DEF Everything, WalkBefore
  <2>2. /\ c.key \in KeyOfCell /\ Len(c.key.parts) >= 2
        /\ c.row = c.key.parts[1] /\ c.column = c.key.parts[2]
    BY <2>1, StoredKeyProperties DEF ParsedCell
  <2>3. /\ d.key \in KeyOfCell /\ Len(d.key.parts) >= 2
        /\ d.row = d.key.parts[1] /\ d.column = d.key.parts[2]
    BY <2>1, StoredKeyProperties DEF ParsedCell
  <2> QED BY <1>1, <2>1, <2>2, <2>3, KeyOrderOfParts DEF Rank
<1>2. CASE ~stored
  <2>1. c \in Cell /\ d \in Cell
    BY <1>2, TableType DEF Everything
  <2>2. /\ c.row \in Nat /\ c.column \in Nat /\ c.time \in Nat /\ c.family = 1
        /\ d.row \in Nat /\ d.column \in Nat /\ d.time \in Nat /\ d.family = 1
    BY <2>1, CellProperties
  <2> QED BY <1>2, <2>2 DEF WalkBefore, FreshestFirst, ColumnBefore, SameColumn, Rank
<1> QED BY <1>1, <1>2

(* A mode that leaves out a cell leaves out those the walk meets before it. *)
LEMMA MatchesBetween ==
    ASSUME TypeOK, NEW c \in Everything, NEW d \in Everything, NEW e \in Everything,
           NEW mode, WalkBefore(c, d), WalkBefore(d, e) \/ d = e, Matches(mode, c, e)
    PROVE  Matches(mode, c, d)
<1>1. CASE d = e
  BY <1>1
<1>2. CASE WalkBefore(d, e)
  <2>1. /\ c.row \in Names /\ c.column \in Names /\ c.family = 1
        /\ d.row \in Names /\ d.column \in Names /\ d.family = 1
        /\ e.row \in Names /\ e.column \in Names /\ e.family = 1
    BY CellType
  <2>2. c.row = e.row
    BY DEF Matches, SameRow, SameColumn
  <2>3. Rank(c.row) <= Rank(d.row) /\ Rank(d.row) <= Rank(c.row)
    BY <1>2, <2>2, WalkOfNames
  <2>4. d.row = c.row
    BY <2>1, <2>3, RankProperties
  <2>5. Rank(c.column) <= Rank(d.column) /\ Rank(d.column) <= Rank(e.column)
    BY <1>2, <2>2, <2>4, WalkOfNames
  <2>6. c.column = e.column => d.column = c.column
    BY <2>1, <2>5, RankProperties
  <2> QED BY <2>1, <2>2, <2>4, <2>6 DEF Matches, SameRow, SameColumn
<1> QED BY <1>1, <1>2

-----------------------------------------------------------------------------
(* The place of a cell in the walk.                                        *)

Place(c) == Cardinality({d \in Everything : WalkBefore(d, c)})

LEMMA PlaceIsNumber ==
    ASSUME TypeOK, NEW c
    PROVE  Place(c) \in Nat
<1>1. {d \in Everything : WalkBefore(d, c)} \in SUBSET Everything
  OBVIOUS
<1>2. IsFiniteSet({d \in Everything : WalkBefore(d, c)})
  BY <1>1, EverythingIsFinite, FS_Subset
<1> QED BY <1>2, FS_CardinalityType DEF Place

LEMMA PlacesIncrease ==
    ASSUME TypeOK, NEW c \in Everything, NEW d \in Everything, WalkBefore(c, d)
    PROVE  Place(c) < Place(d)
<1> DEFINE C == {e \in Everything : WalkBefore(e, c)}
           D == {e \in Everything : WalkBefore(e, d)}
<1>1. C \in SUBSET D
  BY WalkTransitive
<1>2. C # D
  <2>1. c \in D /\ c \notin C
    BY WalkOrder
  <2> QED BY <2>1
<1>3. IsFiniteSet(D)
  <2>1. D \in SUBSET Everything
    OBVIOUS
  <2> QED BY <2>1, EverythingIsFinite, FS_Subset
<1>4. Cardinality(C) <= Cardinality(D) /\ Cardinality(C) # Cardinality(D)
  <2> HIDE DEF C, D
  <2> QED BY <1>1, <1>2, <1>3, FS_Subset
<1>5. Place(c) \in Nat /\ Place(d) \in Nat
  BY PlaceIsNumber
<1>6. Place(c) = Cardinality(C) /\ Place(d) = Cardinality(D)
  BY DEF Place
<1> HIDE DEF C, D
<1> QED BY <1>4, <1>5, <1>6

LEMMA PlacesAreTheWalk ==
    ASSUME TypeOK, NEW c \in Everything, NEW d \in Everything
    PROVE  /\ Place(c) < Place(d) <=> WalkBefore(c, d)
           /\ Place(c) = Place(d) => c = d
<1>1. Place(c) \in Nat /\ Place(d) \in Nat
  BY PlaceIsNumber
<1>2. c # d => WalkBefore(c, d) \/ WalkBefore(d, c)
  BY WalkOrder
<1>3. WalkBefore(c, d) => Place(c) < Place(d)
  BY PlacesIncrease
<1>4. WalkBefore(d, c) => Place(d) < Place(c)
  BY PlacesIncrease
<1> QED BY <1>1, <1>2, <1>3, <1>4

(* What is not empty has a first cell. *)
LEMMA HasFirst ==
    ASSUME TypeOK, NEW S \in SUBSET Everything, S # {}
    PROVE  \E c \in S : \A d \in S : ~WalkBefore(d, c)
<1> DEFINE P == {Place(c) : c \in S}
<1>1. P \in SUBSET Nat /\ P # {}
  BY PlaceIsNumber
<1>2. PICK p \in P : \A q \in P : p <= q
  <2> HIDE DEF P
  <2> QED BY <1>1, NatHasMin
<1>3. PICK c \in S : Place(c) = p
  BY <1>2
<1>4. \A d \in S : Place(c) <= Place(d)
  BY <1>2, <1>3
<1>5. \A d \in S : ~WalkBefore(d, c)
  <2> SUFFICES ASSUME NEW d \in S, WalkBefore(d, c) PROVE FALSE
    OBVIOUS
  <2>1. Place(d) < Place(c) /\ Place(c) <= Place(d)
    BY <1>4, PlacesIncrease
  <2> QED BY <2>1, PlaceIsNumber
<1> QED BY <1>5

-----------------------------------------------------------------------------
(* Where the stream goes: to the first of the cells that are still to come. *)

FirstOf(x, S) ==
    IF S = {} THEN x = End ELSE x \in S /\ \A d \in S : ~WalkBefore(d, x)

Later(mode) == {d \in Walked : WalkBefore(pos, d) /\ ~Matches(mode, pos, d)}

LEMMA EndIsNoCell ==
    ASSUME TypeOK
    PROVE  End \notin Everything
<1>1. End.row = 0
  BY DEF End
<1> QED BY <1>1, CellType, NamesAreNumbers

LEMMA FirstKeyIsFirst ==
    ASSUME TypeOK, stored, NEW S \in SUBSET Everything
    PROVE  FirstOf(FirstKey(S), S)
<1>1. CASE S = {}
  BY <1>1 DEF FirstKey, FirstOf
<1>2. CASE S # {}
  <2>1. \E c \in S : \A d \in S : ~WalkBefore(d, c)
    BY <1>2, HasFirst
  <2>2. \A c, d : WalkBefore(d, c) <=> KeyBefore(d.key, c.key)
    BY DEF WalkBefore
  <2>3. \E c \in S : \A d \in S : ~KeyBefore(d.key, c.key)
    BY <2>1, <2>2
  <2>4. FirstKey(S) = CHOOSE c \in S : \A d \in S : ~KeyBefore(d.key, c.key)
    BY <1>2 DEF FirstKey
  <2>5. FirstKey(S) \in S /\ \A d \in S : ~KeyBefore(d.key, FirstKey(S).key)
    BY <2>3, <2>4
  <2> QED BY <1>2, <2>2, <2>5 DEF FirstOf
<1> QED BY <1>1, <1>2

LEMMA MemoryOrder ==
    ASSUME TypeOK, ~stored, NEW c \in table, NEW d \in table
    PROVE  WalkBefore(c, d) <=>
                \/ c.row < d.row
                \/ c.row = d.row /\ c.column < d.column
                \/ c.row = d.row /\ c.column = d.column /\ c.time > d.time
<1>1. c \in Cell /\ d \in Cell
  BY TableType
<1>2. /\ c.row \in Nat /\ c.column \in Nat /\ c.time \in Nat /\ c.family = 1
      /\ d.row \in Nat /\ d.column \in Nat /\ d.time \in Nat /\ d.family = 1
  BY <1>1, CellProperties
<1> QED BY <1>2 DEF WalkBefore, FreshestFirst, ColumnBefore, SameColumn

LEMMA SelectedCells ==
    ASSUME TypeOK, ~stored
    PROVE  \A c : c \in Selected <=>
              /\ c \in table /\ c.row \in RowsView
              /\ c.column \in ColumnsView(c.row)
              /\ c \in CellsView(c.row, c.column)
BY DEF Selected

LEMMA ViewType ==
    ASSUME TypeOK
    PROVE  /\ RowsView \subseteq Nat
           /\ \A r : ColumnsView(r) \subseteq Nat
           /\ \A r, n : CellsView(r, n) \subseteq table
<1>1. \A c \in table : c.row \in Nat /\ c.column \in Nat
  BY TableType, CellProperties
<1> QED BY <1>1 DEF RowsView, Rows, ColumnsView, Columns, CellsView

LEMMA FirstOfColumnsIsFirst ==
    ASSUME TypeOK, ~stored, NEW r \in RowsView, NEW columns \in SUBSET ColumnsView(r)
    PROVE  FirstOf(FirstOfColumns(r, columns),
                   {c \in Selected : c.row = r /\ c.column \in columns})
<1> DEFINE S == {c \in Selected : c.row = r /\ c.column \in columns}
           shown == {n \in columns : CellsView(r, n) # {}}
           n0 == Min(shown)
           first == CellsView(r, n0)
           x == CHOOSE c \in first : \A d \in first : d.time <= c.time
<1>1. FirstOfColumns(r, columns) = IF shown = {} THEN End ELSE x
  BY DEF FirstOfColumns
<1>2. \A c : c \in S <=> \E n \in columns : c \in CellsView(r, n)
  BY SelectedCells DEF CellsView
<1>3. CASE shown = {}
  <2>1. S = {}
    BY <1>2, <1>3
  <2> QED BY <1>1, <1>3, <2>1 DEF FirstOf
<1>4. CASE shown # {}
  <2>1. shown \in SUBSET Nat
    BY ViewType
  <2>2. n0 \in shown /\ \A n \in shown : n0 <= n
    <3> HIDE DEF shown
    <3> QED BY <1>4, <2>1, MinIsLeast
  <2>3. first # {} /\ first \in SUBSET table
    BY <2>2, ViewType
  <2>4. \A c \in first : c.row = r /\ c.column = n0 /\ c.time \in Nat
    <3>1. \A c \in first : c.row = r /\ c.column = n0
      BY DEF CellsView
    <3>2. \A c \in first : c.time \in Nat
      BY <2>3, TableType, CellProperties
    <3> QED BY <3>1, <3>2
  <2>5. \E c \in first : \A d \in first : d.time <= c.time
    <3>1. first \in SUBSET Everything
      BY <2>3 DEF Everything
    <3>2. PICK c \in first : \A d \in first : ~WalkBefore(d, c)
      <4> HIDE DEF first
      <4> QED BY <2>3, <3>1, HasFirst
    <3>3. \A d \in first : ~(d.time > c.time)
      <4> HIDE DEF first
      <4> QED BY <2>3, <2>4, <3>2, MemoryOrder
    <3> HIDE DEF first
    <3>4. \A a, b \in Nat : ~(a > b) => a <= b
      OBVIOUS
    <3>5. \A d \in first : d.time <= c.time
      BY <2>4, <3>3, <3>4
    <3> QED BY <3>5
  <2>6. x \in first
    <3> HIDE DEF first
    <3> QED BY <2>5
  <2>7. \A d \in first : d.time <= x.time
    <3> HIDE DEF first
    <3> QED BY <2>5
  <2>8. x \in S
    BY <1>2, <2>2, <2>6
  <2>9. ASSUME NEW d \in S
        PROVE  ~WalkBefore(d, x)
    <3>1. PICK n \in columns : d \in CellsView(r, n)
      BY <1>2
    <3>2. n \in shown /\ d.row = r /\ d.column = n /\ d \in table
      BY <3>1 DEF CellsView
    <3>3. n0 <= d.column /\ n0 \in Nat /\ d.column \in Nat
      BY <2>1, <2>2, <3>2
    <3>4. d.column = n0 => d \in first
      BY <3>1, <3>2
    <3>5. x.row = r /\ x.column = n0 /\ x.time \in Nat /\ x \in table
      BY <2>3, <2>4, <2>6
    <3>6. d.column = n0 => d.time <= x.time
      BY <2>7, <3>4
    <3>7. d.time \in Nat /\ d.row \in Nat
      BY <3>2, TableType, CellProperties
    <3> HIDE DEF x, n0, first, shown, S
    <3> QED BY <3>2, <3>3, <3>5, <3>6, <3>7, MemoryOrder
  <2>10. FirstOf(x, S)
    <3> HIDE DEF x, S
    <3> QED BY <2>8, <2>9 DEF FirstOf
  <2>11. FirstOfColumns(r, columns) = x
    <3> HIDE DEF x, shown
    <3> QED BY <1>1, <1>4
  <2>12. FirstOf(FirstOfColumns(r, columns), S)
    <3> HIDE DEF x, S
    <3> QED BY <2>10, <2>11
  <2> QED BY <2>12
<1> QED BY <1>3, <1>4

LEMMA FirstOfRowsIsFirst ==
    ASSUME TypeOK, ~stored, NEW rows \in SUBSET RowsView
    PROVE  FirstOf(FirstOfRows(rows), {c \in Selected : c.row \in rows})
<1> DEFINE S == {c \in Selected : c.row \in rows}
           F(r) == FirstOfColumns(r, ColumnsView(r))
           shown == {r \in rows : F(r) # End}
           r0 == Min(shown)
           Of(r) == {c \in Selected : c.row = r /\ c.column \in ColumnsView(r)}
<1>1. FirstOfRows(rows) = IF shown = {} THEN End ELSE F(r0)
  BY DEF FirstOfRows
<1>2. \A r \in rows : FirstOf(F(r), Of(r))
  BY FirstOfColumnsIsFirst
<1>3. \A r \in rows : End \notin Of(r)
  <2>1. End \notin Selected
    BY EndIsNoCell, WalkedIsThere
  <2> QED BY <2>1
<1>4. \A c : c \in S <=> \E r \in rows : c \in Of(r)
  BY SelectedCells
<1> HIDE DEF F
<1>5. CASE shown = {}
  <2>1. \A r \in rows : Of(r) = {}
    BY <1>2, <1>3, <1>5 DEF FirstOf
  <2>2. S = {}
    BY <1>4, <2>1
  <2> QED BY <1>1, <1>5, <2>2 DEF FirstOf
<1>6. CASE shown # {}
  <2>1. shown \in SUBSET Nat
    BY ViewType
  <2>2. r0 \in shown /\ \A r \in shown : r0 <= r
    <3> HIDE DEF shown
    <3> QED BY <1>6, <2>1, MinIsLeast
  <2>3. F(r0) \in Of(r0) /\ \A d \in Of(r0) : ~WalkBefore(d, F(r0))
    <3> HIDE DEF r0, Of
    <3> QED BY <1>2, <2>2 DEF FirstOf
  <2>4. F(r0) \in S
    BY <1>4, <2>2, <2>3
  <2>5. ASSUME NEW d \in S
        PROVE  ~WalkBefore(d, F(r0))
    <3>1. PICK r \in rows : d \in Of(r)
      BY <1>4
    <3>2. r \in shown /\ d.row = r
      <4> HIDE DEF Of
      <4>1. F(r) # End
        BY <1>2, <1>3, <3>1 DEF FirstOf
      <4> QED BY <3>1, <4>1 DEF Of
    <3>3. r0 <= d.row /\ r0 \in Nat /\ d.row \in Nat
      BY <2>1, <2>2, <3>2
    <3>4. d.row = r0 => ~WalkBefore(d, F(r0))
      BY <2>3, <3>1, <3>2
    <3>5. d \in table /\ F(r0) \in table /\ F(r0).row = r0
      <4> HIDE DEF r0
      <4> QED BY <2>3, SelectedCells
    <3> HIDE DEF r0, shown, S, Of
    <3> QED BY <3>3, <3>4, <3>5, MemoryOrder
  <2>6. FirstOf(F(r0), S)
    <3> HIDE DEF r0, S
    <3> QED BY <2>4, <2>5 DEF FirstOf
  <2>7. FirstOfRows(rows) = F(r0)
    <3> HIDE DEF shown, r0
    <3> QED BY <1>1, <1>6
  <2>8. FirstOf(FirstOfRows(rows), S)
    <3> HIDE DEF S, r0
    <3> QED BY <2>6, <2>7
  <2> QED BY <2>8
<1> QED BY <1>5, <1>6

LEMMA MemoryNextIsFirst ==
    ASSUME TypeOK, ~stored, pos \in Walked, NEW mode \in NextModes
    PROVE  FirstOf(MemoryNext(mode), Later(mode))
<1> DEFINE older == {c \in CellsView(pos.row, pos.column) : c.time < pos.time}
           oldest == CHOOSE c \in older : \A d \in older : d.time <= c.time
           columns == {n \in ColumnsView(pos.row) : n > pos.column}
           later == FirstOfColumns(pos.row, columns)
           OfColumns == {c \in Selected : c.row = pos.row /\ c.column \in columns}
           OfRows == {c \in Selected : c.row \in LaterRows}
<1>1. MemoryNext(mode) =
        IF mode = "cell" /\ older # {} THEN oldest
        ELSE IF mode # "row" /\ later # End THEN later
        ELSE FirstOfRows(LaterRows)
  BY DEF MemoryNext
<1>2. /\ pos \in Selected /\ pos \in table
      /\ pos.row \in RowsView /\ pos.column \in ColumnsView(pos.row)
      /\ pos.row \in Nat /\ pos.column \in Nat /\ pos.time \in Nat /\ pos.family = 1
  BY WalkedIsThere, SelectedCells, TableType, CellProperties
<1>3. FirstOf(later, OfColumns)
  BY <1>2, FirstOfColumnsIsFirst
<1>4. FirstOf(FirstOfRows(LaterRows), OfRows)
  <2>1. LaterRows \in SUBSET RowsView
    BY DEF LaterRows
  <2> QED BY <2>1, FirstOfRowsIsFirst
<1>5. \A d \in Selected :
        /\ d \in table
        /\ d.row \in Nat /\ d.column \in Nat /\ d.time \in Nat /\ d.family = 1
        /\ d \in OfColumns <=> d.row = pos.row /\ d.column > pos.column
        /\ d \in OfRows <=> d.row > pos.row
        /\ d \in older <=> d.row = pos.row /\ d.column = pos.column /\ d.time < pos.time
  <2> SUFFICES ASSUME NEW d \in Selected
               PROVE  /\ d \in table
                      /\ d.row \in Nat /\ d.column \in Nat /\ d.time \in Nat /\ d.family = 1
                      /\ d \in OfColumns <=> d.row = pos.row /\ d.column > pos.column
                      /\ d \in OfRows <=> d.row > pos.row
                      /\ d \in older <=> d.row = pos.row /\ d.column = pos.column /\ d.time < pos.time
    OBVIOUS
  <2>1. /\ d \in table /\ d.row \in RowsView
        /\ d.column \in ColumnsView(d.row) /\ d \in CellsView(d.row, d.column)
    BY SelectedCells
  <2>2. d.row \in Nat /\ d.column \in Nat /\ d.time \in Nat /\ d.family = 1
    BY <2>1, TableType, CellProperties
  <2>3. d \in OfColumns <=> d.row = pos.row /\ d.column > pos.column
    BY <2>1
  <2>4. d \in OfRows <=> d.row > pos.row
    BY <2>1 DEF LaterRows
  <2>5. d \in older <=> d.row = pos.row /\ d.column = pos.column /\ d.time < pos.time
    BY <2>1 DEF CellsView
  <2> HIDE DEF OfColumns, OfRows, older
  <2> QED BY <2>1, <2>2, <2>3, <2>4, <2>5
<1>6. older \subseteq Selected
  <2> SUFFICES ASSUME NEW c \in older PROVE c \in Selected
    OBVIOUS
  <2>1. c \in CellsView(pos.row, pos.column)
    OBVIOUS
  <2>2. c \in table /\ c.row = pos.row /\ c.column = pos.column
    BY <2>1 DEF CellsView
  <2>3. c.row \in RowsView /\ c.column \in ColumnsView(c.row) /\ c \in CellsView(c.row, c.column)
    BY <1>2, <2>1, <2>2
  <2> QED BY <2>2, <2>3, SelectedCells
<1>7. \A d \in Selected :
        /\ WalkBefore(pos, d) <=> d \in OfRows \/ d \in OfColumns \/ d \in older
        /\ Matches(mode, pos, d) <=>
              \/ mode = "column" /\ d.row = pos.row /\ d.column = pos.column
              \/ mode = "row" /\ d.row = pos.row
  <2> HIDE DEF OfRows, OfColumns, older
  <2> SUFFICES ASSUME NEW d \in Selected
               PROVE  /\ WalkBefore(pos, d) <=> d \in OfRows \/ d \in OfColumns \/ d \in older
                      /\ Matches(mode, pos, d) <=>
                            \/ mode = "column" /\ d.row = pos.row /\ d.column = pos.column
                            \/ mode = "row" /\ d.row = pos.row
    OBVIOUS
  <2>1. WalkBefore(pos, d) <=>
                \/ pos.row < d.row
                \/ pos.row = d.row /\ pos.column < d.column
                \/ pos.row = d.row /\ pos.column = d.column /\ pos.time > d.time
    BY <1>2, <1>5, MemoryOrder
  <2>2. WalkBefore(pos, d) <=> d \in OfRows \/ d \in OfColumns \/ d \in older
    BY <1>2, <1>5, <2>1
  <2>3. Matches(mode, pos, d) <=>
              \/ mode = "column" /\ d.row = pos.row /\ d.column = pos.column
              \/ mode = "row" /\ d.row = pos.row
    BY <1>2, <1>5 DEF Matches, SameRow, SameColumn
  <2> QED BY <2>2, <2>3
<1>8. \A d : d \in Later(mode) <=>
        /\ d \in Selected
        /\ \/ d \in OfRows
           \/ d \in OfColumns /\ mode # "row"
           \/ d \in older /\ mode = "cell"
  <2>1. \A d : d \in Later(mode) <=>
                  d \in Selected /\ WalkBefore(pos, d) /\ ~Matches(mode, pos, d)
    BY WalkedIsThere DEF Later
  <2> HIDE DEF OfRows, OfColumns, older
  <2> SUFFICES ASSUME NEW d \in Selected
               PROVE  WalkBefore(pos, d) /\ ~Matches(mode, pos, d) <=>
                        \/ d \in OfRows
                        \/ d \in OfColumns /\ mode # "row"
                        \/ d \in older /\ mode = "cell"
    BY <2>1
  <2>2. d \in OfRows => d.row # pos.row
    BY <1>2, <1>5
  <2>3. d \in OfColumns => d.row = pos.row /\ d.column # pos.column
    BY <1>2, <1>5
  <2>4. d \in older => d.row = pos.row /\ d.column = pos.column
    BY <1>2, <1>5
  <2>5. mode = "cell" \/ mode = "column" \/ mode = "row"
    BY DEF NextModes
  <2> QED BY <1>7, <2>2, <2>3, <2>4, <2>5
<1>9. OfRows \subseteq Selected /\ OfColumns \subseteq Selected
  OBVIOUS
<1>10. \A c \in OfColumns : \A d \in OfRows : ~WalkBefore(d, c)
  <2> HIDE DEF OfRows, OfColumns, older
  <2> QED BY <1>2, <1>5, <1>9, MemoryOrder
<1>11. \A c \in older : \A d \in OfRows \cup OfColumns : ~WalkBefore(d, c)
  <2> HIDE DEF OfRows, OfColumns, older
  <2> QED BY <1>2, <1>5, <1>6, <1>9, MemoryOrder
<1>12. End \notin OfColumns
  BY <1>9, EndIsNoCell, WalkedIsThere
<1>13. CASE mode = "cell" /\ older # {}
  <2>1. \E c \in older : \A d \in older : d.time <= c.time
    <3>1. older \in SUBSET Everything
      BY <1>6, WalkedIsThere
    <3> HIDE DEF older, OfRows, OfColumns
    <3>2. PICK c \in older : \A d \in older : ~WalkBefore(d, c)
      BY <1>13, <3>1, HasFirst
    <3>3. \A d \in older : d.time <= c.time
      BY <1>2, <1>5, <1>6, <3>2, MemoryOrder
    <3> QED BY <3>3
  <2>2. oldest \in older /\ \A d \in older : d.time <= oldest.time
    <3> HIDE DEF older
    <3> QED BY <2>1
  <2> HIDE DEF older, OfRows, OfColumns, oldest
  <2>3. \A d \in older : ~WalkBefore(d, oldest)
    BY <1>2, <1>5, <1>6, <2>2, MemoryOrder
  <2>4. MemoryNext(mode) = oldest
    BY <1>1, <1>13
  <2>5. oldest \in Later(mode)
    BY <1>6, <1>8, <1>13, <2>2
  <2>6. \A d \in Later(mode) : ~WalkBefore(d, oldest)
    BY <1>8, <1>11, <2>2, <2>3
  <2> QED BY <2>4, <2>5, <2>6 DEF FirstOf
<1>14. CASE ~(mode = "cell" /\ older # {}) /\ mode # "row" /\ later # End
  <2> HIDE DEF older, OfRows, OfColumns, oldest, later
  <2>1. MemoryNext(mode) = later
    BY <1>1, <1>14
  <2>2. later \in OfColumns /\ \A d \in OfColumns : ~WalkBefore(d, later)
    BY <1>3, <1>14 DEF FirstOf
  <2>3. later \in Later(mode)
    BY <1>8, <1>9, <1>14, <2>2
  <2>4. \A d \in Later(mode) : ~WalkBefore(d, later)
    BY <1>8, <1>10, <1>14, <2>2
  <2> QED BY <2>1, <2>3, <2>4 DEF FirstOf
<1>15. CASE ~(mode = "cell" /\ older # {}) /\ ~(mode # "row" /\ later # End)
  <2> HIDE DEF older, OfRows, OfColumns, oldest, later
  <2>1. MemoryNext(mode) = FirstOfRows(LaterRows)
    BY <1>1, <1>15
  <2>2. mode # "row" => OfColumns = {}
    BY <1>3, <1>12, <1>15 DEF FirstOf
  <2>3. Later(mode) = OfRows
    BY <1>8, <1>9, <1>15, <2>2
  <2> QED BY <1>4, <2>1, <2>3
<1> QED BY <1>13, <1>14, <1>15

LEMMA InitializeIsFirst ==
    ASSUME TypeOK, Initialize
    PROVE  FirstOf(pos', Walked)
<1>1. CASE stored
  <2>1. StoredCells \in SUBSET Everything /\ Walked = StoredCells
    BY <1>1 DEF StoredCells, Everything, Walked
  <2>2. pos' = FirstKey(StoredCells)
    BY <1>1 DEF Initialize
  <2> QED BY <1>1, <2>1, <2>2, FirstKeyIsFirst
<1>2. CASE ~stored
  <2>1. FirstOf(FirstOfRows(RowsView), {c \in Selected : c.row \in RowsView})
    BY <1>2, FirstOfRowsIsFirst
  <2>2. {c \in Selected : c.row \in RowsView} = Walked
    BY <1>2, SelectedCells, WalkedIsThere
  <2>3. pos' = FirstOfRows(RowsView)
    BY <1>2 DEF Initialize
  <2> QED BY <2>1, <2>2, <2>3
<1> QED BY <1>1, <1>2

LEMMA NextIsFirst ==
    ASSUME TypeOK, NEW mode \in NextModes, NextCell(mode)
    PROVE  pos \in Walked /\ FirstOf(pos', Later(mode))
<1>1. pos \in Walked
  BY DEF TypeOK, NextCell, HasValue
<1>2. CASE stored
  <2>1. Walked = StoredCells /\ Later(mode) \in SUBSET Everything
    BY <1>2, WalkedIsThere DEF Walked, Later
  <2>2. pos' = FirstKey(Later(mode))
    BY <1>2, <2>1 DEF NextCell, StoredNext, Later, WalkBefore
  <2> QED BY <1>1, <1>2, <2>1, <2>2, FirstKeyIsFirst
<1>3. CASE ~stored
  <2>1. pos' = MemoryNext(mode)
    BY <1>3 DEF NextCell
  <2> QED BY <1>1, <1>3, <2>1, MemoryNextIsFirst
<1> QED BY <1>2, <1>3

-----------------------------------------------------------------------------
(* The two range sets hold the intersection of the ranges that were asked. *)

ColumnIsWithin(r, n) == r.start <= n /\ n <= r.end

RangesAsAsked ==
    /\ \A n \in Names : InColumnRanges(n) <=> \A r \in askedColumns : ColumnIsWithin(r, n)
    /\ \A t \in 0..99 :
        InTimeRanges(t) <=> \A r \in askedTimes : TimeIsWithin(FromTimestampRange(r), t)

IInv == TypeOK /\ RangesAsAsked

LEMMA IntervalProperties ==
    ASSUME NEW r \in Interval
    PROVE  /\ r.start \in Nat /\ r.end \in Nat
           /\ \A s \in Nat : [r EXCEPT !.start = s] = [start |-> s, end |-> r.end]
           /\ \A e \in Nat : [r EXCEPT !.end = e] = [start |-> r.start, end |-> e]
BY DEF Interval

LEMMA CutColumns ==
    ASSUME NEW r \in Interval, NEW by \in Interval
    PROVE  /\ ColumnSet!Cut(r, by) \in Interval
           /\ ColumnSet!Cut(r, by).start = MaxOf(r.start, by.start)
           /\ ColumnSet!Cut(r, by).end = MinOf(r.end, by.end)
<1> DEFINE started_ == IF StartLess(r, by) THEN [r EXCEPT !.start = by.start] ELSE r
<1>1. /\ r.start \in Nat /\ r.end \in Nat /\ by.start \in Nat /\ by.end \in Nat
  BY IntervalProperties
<1>2. started_ = [start |-> MaxOf(r.start, by.start), end |-> r.end]
  BY IntervalProperties DEF StartLess, MaxOf, Interval
<1>3. MaxOf(r.start, by.start) \in Nat /\ MinOf(r.end, by.end) \in Nat
  BY <1>1 DEF MaxOf, MinOf
<1>4. ColumnSet!Cut(r, by) =
        IF ColumnEndLess(by, started_) THEN [started_ EXCEPT !.end = by.end] ELSE started_
  BY DEF ColumnSet!Cut
<1>5. started_.end = r.end /\ started_.start = MaxOf(r.start, by.start) /\ started_ \in Interval
  BY <1>1, <1>2, <1>3 DEF Interval
<1> HIDE DEF started_
<1>6. [started_ EXCEPT !.end = by.end] = [start |-> MaxOf(r.start, by.start), end |-> by.end]
  BY <1>2
<1>7. ColumnSet!Cut(r, by) = [start |-> MaxOf(r.start, by.start), end |-> MinOf(r.end, by.end)]
  <2>1. CASE by.end < r.end
    <3>1. ColumnEndLess(by, started_) /\ MinOf(r.end, by.end) = by.end
      BY <1>1, <1>5, <2>1 DEF ColumnEndLess, MinOf
    <3> QED BY <1>4, <1>6, <3>1
  <2>2. CASE ~(by.end < r.end)
    <3>1. ~ColumnEndLess(by, started_) /\ MinOf(r.end, by.end) = r.end
      BY <1>1, <1>5, <2>2 DEF ColumnEndLess, MinOf
    <3> QED BY <1>2, <1>4, <3>1
  <2> QED BY <2>1, <2>2
<1> QED BY <1>3, <1>7 DEF Interval

LEMMA CutTimes ==
    ASSUME NEW r \in Interval, NEW by \in Interval
    PROVE  /\ TimeSet!Cut(r, by) \in Interval
           /\ TimeSet!Cut(r, by).start = MaxOf(r.start, by.start)
           /\ TimeSet!Cut(r, by).end = IF TimeEndLess(by, r) THEN by.end ELSE r.end
<1> DEFINE started_ == IF StartLess(r, by) THEN [r EXCEPT !.start = by.start] ELSE r
<1>1. /\ r.start \in Nat /\ r.end \in Nat /\ by.start \in Nat /\ by.end \in Nat
  BY IntervalProperties
<1>2. started_ = [start |-> MaxOf(r.start, by.start), end |-> r.end]
  BY IntervalProperties DEF StartLess, MaxOf, Interval
<1>3. MaxOf(r.start, by.start) \in Nat
  BY <1>1 DEF MaxOf
<1>4. TimeSet!Cut(r, by) =
        IF TimeEndLess(by, started_) THEN [started_ EXCEPT !.end = by.end] ELSE started_
  BY DEF TimeSet!Cut
<1>5. started_.end = r.end
  BY <1>2
<1> HIDE DEF started_
<1>6. [started_ EXCEPT !.end = by.end] = [start |-> MaxOf(r.start, by.start), end |-> by.end]
  BY <1>2
<1>7. TimeEndLess(by, started_) <=> TimeEndLess(by, r)
  BY <1>5 DEF TimeEndLess
<1>8. TimeSet!Cut(r, by) =
        [start |-> MaxOf(r.start, by.start),
         end |-> IF TimeEndLess(by, r) THEN by.end ELSE r.end]
  BY <1>2, <1>4, <1>6, <1>7
<1> QED BY <1>1, <1>3, <1>8 DEF Interval

LEMMA ColumnIntersection ==
    ASSUME NEW ranges \in SUBSET Interval, NEW by \in Interval
    PROVE  /\ ColumnSet!RangeSetIntersectImpl(ranges, by) \in SUBSET Interval
           /\ \A n \in Nat :
                (\E r \in ColumnSet!RangeSetIntersectImpl(ranges, by) : ColumnIsWithin(r, n))
                <=> (\E r \in ranges : ColumnIsWithin(r, n)) /\ ColumnIsWithin(by, n)
<1>1. ColumnSet!RangeSetIntersectImpl(ranges, by) =
        {ColumnSet!Cut(r, by) : r \in {x \in ranges : ColumnOverlap(x, by)}}
  BY DEF ColumnSet!RangeSetIntersectImpl
<1>2. \A r \in ranges : ColumnSet!Cut(r, by) \in Interval
  BY CutColumns
<1>3. \A r \in ranges : \A n \in Nat :
        /\ ColumnIsWithin(ColumnSet!Cut(r, by), n) <=> ColumnIsWithin(r, n) /\ ColumnIsWithin(by, n)
        /\ ColumnIsWithin(r, n) /\ ColumnIsWithin(by, n) => ColumnOverlap(r, by)
  <2> SUFFICES ASSUME NEW r \in ranges, NEW n \in Nat
               PROVE  /\ ColumnIsWithin(ColumnSet!Cut(r, by), n)
                            <=> ColumnIsWithin(r, n) /\ ColumnIsWithin(by, n)
                      /\ ColumnIsWithin(r, n) /\ ColumnIsWithin(by, n) => ColumnOverlap(r, by)
    OBVIOUS
  <2>1. /\ ColumnSet!Cut(r, by).start = MaxOf(r.start, by.start)
        /\ ColumnSet!Cut(r, by).end = MinOf(r.end, by.end)
    BY CutColumns
  <2>2. /\ r.start \in Nat /\ r.end \in Nat /\ by.start \in Nat /\ by.end \in Nat
    BY IntervalProperties
  <2> QED BY <2>1, <2>2 DEF ColumnIsWithin, ColumnOverlap, MaxOf, MinOf
<1> QED BY <1>1, <1>2, <1>3

LEMMA TimeIntersection ==
    ASSUME NEW ranges \in SUBSET Interval, NEW by \in Interval
    PROVE  /\ TimeSet!RangeSetIntersectImpl(ranges, by) \in SUBSET Interval
           /\ \A t \in Nat :
                (\E r \in TimeSet!RangeSetIntersectImpl(ranges, by) : TimeIsWithin(r, t))
                <=> (\E r \in ranges : TimeIsWithin(r, t)) /\ TimeIsWithin(by, t)
<1>1. TimeSet!RangeSetIntersectImpl(ranges, by) =
        {TimeSet!Cut(r, by) : r \in {x \in ranges : TimeOverlap(x, by)}}
  BY DEF TimeSet!RangeSetIntersectImpl
<1>2. \A r \in ranges : TimeSet!Cut(r, by) \in Interval
  BY CutTimes
<1>3. \A r \in ranges : \A t \in Nat :
        /\ TimeIsWithin(TimeSet!Cut(r, by), t) <=> TimeIsWithin(r, t) /\ TimeIsWithin(by, t)
        /\ TimeIsWithin(r, t) /\ TimeIsWithin(by, t) => TimeOverlap(r, by)
  <2> SUFFICES ASSUME NEW r \in ranges, NEW t \in Nat
               PROVE  /\ TimeIsWithin(TimeSet!Cut(r, by), t)
                            <=> TimeIsWithin(r, t) /\ TimeIsWithin(by, t)
                      /\ TimeIsWithin(r, t) /\ TimeIsWithin(by, t) => TimeOverlap(r, by)
    OBVIOUS
  <2>1. /\ TimeSet!Cut(r, by).start = MaxOf(r.start, by.start)
        /\ TimeSet!Cut(r, by).end = IF TimeEndLess(by, r) THEN by.end ELSE r.end
    BY CutTimes
  <2>2. /\ r.start \in Nat /\ r.end \in Nat /\ by.start \in Nat /\ by.end \in Nat
    BY IntervalProperties
  <2>3. TimeIsWithin(TimeSet!Cut(r, by), t) <=> TimeIsWithin(r, t) /\ TimeIsWithin(by, t)
    BY <2>1, <2>2 DEF TimeIsWithin, TimeEndLess, MaxOf
  <2>4. TimeIsWithin(r, t) /\ TimeIsWithin(by, t) => TimeOverlap(r, by)
    BY <2>2 DEF TimeIsWithin, TimeOverlap, TimeIsEmpty, TimeEndLess, MaxOf
  <2> QED BY <2>3, <2>4
<1> QED BY <1>1, <1>2, <1>3

(* A timestamp range in milliseconds. *)
LEMMA Milliseconds ==
    ASSUME NEW r \in Interval
    PROVE  /\ FromTimestampRange(r) \in Interval
           /\ \A t \in Nat :
                /\ ~(r.start % 1000 # 0 /\ r.start \div 1000 = t)
                /\ ~(r.end % 1000 # 0 /\ r.end \div 1000 \in {0, t})
                => (TimeIsWithin(FromTimestampRange(r), t) <=>
                        r.start <= t * 1000 /\ (r.end = 0 \/ t * 1000 < r.end))
<1>1. r.start \in Nat /\ r.end \in Nat
  BY IntervalProperties
<1>2. ASSUME NEW s \in Nat
      PROVE  /\ s \div 1000 \in Nat
             /\ s % 1000 \in 0..999
             /\ s = 1000 * (s \div 1000) + (s % 1000)
  OBVIOUS
<1>3. FromTimestampRange(r) \in Interval
  BY <1>1, <1>2 DEF FromTimestampRange, Interval
<1>4. ASSUME NEW t \in Nat,
             ~(r.start % 1000 # 0 /\ r.start \div 1000 = t),
             ~(r.end % 1000 # 0 /\ r.end \div 1000 \in {0, t})
      PROVE  TimeIsWithin(FromTimestampRange(r), t) <=>
                r.start <= t * 1000 /\ (r.end = 0 \/ t * 1000 < r.end)
  <2> DEFINE s == r.start \div 1000
             e == r.end \div 1000
             a == r.start % 1000
             b == r.end % 1000
  <2>1. /\ s \in Nat /\ a \in 0..999 /\ r.start = 1000 * s + a
        /\ e \in Nat /\ b \in 0..999 /\ r.end = 1000 * e + b
    <3>1. s \in Nat /\ a \in 0..999 /\ r.start = 1000 * s + a
      BY <1>1
    <3>2. e \in Nat /\ b \in 0..999 /\ r.end = 1000 * e + b
      BY <1>1
    <3> QED BY <3>1, <3>2
  <2>2. TimeIsWithin(FromTimestampRange(r), t) <=> s <= t /\ (e = 0 \/ t < e)
    BY DEF TimeIsWithin, FromTimestampRange
  <2>3. (a = 0 \/ s # t) /\ (b = 0 \/ (e # 0 /\ e # t))
    BY <1>4
  <2> HIDE DEF s, e, a, b
  <2>4. s <= t <=> 1000 * s + a <= t * 1000
    BY <2>1, <2>3
  <2>5. (e = 0 \/ t < e) <=> (1000 * e + b = 0 \/ t * 1000 < 1000 * e + b)
    BY <2>1, <2>3
  <2> QED BY <2>1, <2>2, <2>4, <2>5
<1> QED BY <1>3, <1>4

-----------------------------------------------------------------------------
(* The invariant.                                                          *)

LEMMA Initialization == Init => IInv
<1> SUFFICES ASSUME Init PROVE IInv
  OBVIOUS
<1>1. Cardinality(Names) \in Nat
  BY FamilyStreamAssumption, FS_CardinalityType
<1>2. AllColumns \in Interval /\ AllTimes \in Interval
  BY <1>1 DEF AllColumns, AllTimes, Interval
<1>3. TypeOK
  BY <1>2, FS_EmptySet DEF Init, TypeOK
<1>4. \A n \in Names : InColumnRanges(n)
  <2>1. \A n \in 1..Cardinality(Names) : 1 <= n /\ n <= Cardinality(Names)
    BY <1>1
  <2>2. \A n \in Names : AllColumns.start <= n /\ n <= AllColumns.end
    BY <2>1, FamilyStreamAssumption DEF AllColumns
  <2> QED BY <2>2 DEF Init, InColumnRanges
<1>5. \A t \in 0..99 : InTimeRanges(t)
  BY DEF Init, InTimeRanges, AllTimes, TimeIsWithin
<1> QED BY <1>3, <1>4, <1>5 DEF Init, IInv, RangesAsAsked

(* What the predicates of the ranges say depends on the ranges only. *)
LEMMA SameRanges ==
    ASSUME RangesAsAsked,
           UNCHANGED <<columnRanges, timeRanges, askedColumns, askedTimes>>
    PROVE  RangesAsAsked'
BY DEF RangesAsAsked, InColumnRanges, InTimeRanges

(* No filter is applied once the stream points somewhere. *)
LEMMA ApplyPos ==
    ASSUME TypeOK, ~started, UNCHANGED <<pos, started>>
    PROVE  /\ started' \in BOOLEAN
           /\ pos' # End => started' /\ pos' \in Walked'
BY DEF TypeOK

(* A step that leaves the filters alone leaves the walk alone. *)
LEMMA SameWalk ==
    ASSUME UNCHANGED <<stored, table, rowSet, filters>>
    PROVE  Walked' = Walked
<1>1. /\ \A n : InColumnRanges(n)' <=> InColumnRanges(n)
      /\ \A t : InTimeRanges(t)' <=> InTimeRanges(t)
  BY DEF InColumnRanges, InTimeRanges, filters
<1>2. RowsView' = RowsView
  BY DEF RowsView, filters
<1>3. \A r : ColumnsView(r)' = ColumnsView(r)
  BY <1>1 DEF ColumnsView, Columns, filters
<1>4. \A r, n : CellsView(r, n)' = CellsView(r, n)
  BY <1>1 DEF CellsView
<1>5. \A c : Passes(c)' <=> Passes(c)
  BY <1>1 DEF Passes, filters
<1>6. StoredCells' = StoredCells
  BY <1>5 DEF StoredCells, StoredKeys
<1> QED BY <1>2, <1>3, <1>4, <1>6 DEF Walked, Selected

LEMMA MoveType ==
    ASSUME IInv, UNCHANGED <<stored, table, rowSet, filters>>,
           started', pos' # End => pos' \in Walked
    PROVE  IInv'
<1>1. Walked' = Walked
  BY SameWalk
<1>2. TypeOK'
  BY <1>1 DEF IInv, TypeOK, filters
<1>3. RangesAsAsked'
  BY SameRanges DEF IInv, filters
<1> QED BY <1>2, <1>3 DEF IInv

LEMMA FirstIsOneOf ==
    ASSUME NEW x, NEW S, FirstOf(x, S)
    PROVE  x # End => x \in S
BY DEF FirstOf

LEMMA Invariance ==
    ASSUME IInv, Next
    PROVE  IInv'
<1>0. TypeOK /\ RangesAsAsked
  BY DEF IInv
<1>1. ASSUME NEW regex \in Regexes, ApplyRowKeyRegex(regex)
      PROVE  IInv'
  <2>1. IsFiniteSet(rowRegexes \union {regex})
    BY <1>0, FS_AddElement DEF TypeOK
  <2>2. TypeOK'
    BY <1>0, <1>1, <2>1, ApplyPos DEF ApplyRowKeyRegex, MayApply, TypeOK
  <2>3. RangesAsAsked'
    BY <1>0, <1>1, SameRanges DEF ApplyRowKeyRegex
  <2> QED BY <2>2, <2>3 DEF IInv
<1>2. ASSUME NEW regex \in Regexes, ApplyColumnRegex(regex)
      PROVE  IInv'
  <2>1. IsFiniteSet(columnRegexes \union {regex})
    BY <1>0, FS_AddElement DEF TypeOK
  <2>2. TypeOK'
    BY <1>0, <1>2, <2>1, ApplyPos DEF ApplyColumnRegex, MayApply, TypeOK
  <2>3. RangesAsAsked'
    BY <1>0, <1>2, SameRanges DEF ApplyColumnRegex
  <2> QED BY <2>2, <2>3 DEF IInv
<1>3. ASSUME NEW r \in ColumnRanges, ApplyColumnRange(r)
      PROVE  IInv'
  <2>1. r \in Interval /\ columnRanges \in SUBSET Interval
    BY <1>0, FamilyStreamAssumption DEF TypeOK
  <2>2. columnRanges' = ColumnSet!RangeSetIntersectImpl(columnRanges, r)
    BY <1>3 DEF ApplyColumnRange
  <2>3. columnRanges' \in SUBSET Interval
    BY <2>1, <2>2, ColumnIntersection
  <2>4. askedColumns' = askedColumns \union {r} /\ ~started
    BY <1>3 DEF ApplyColumnRange, MayApply
  <2>5. TypeOK'
    BY <1>0, <1>3, <2>3, <2>4, ApplyPos DEF ApplyColumnRange, TypeOK
  <2>6. \A n \in Names :
            InColumnRanges(n)' <=> InColumnRanges(n) /\ ColumnIsWithin(r, n)
    BY <2>1, <2>2, ColumnIntersection, NamesAreNumbers DEF InColumnRanges, ColumnIsWithin
  <2>7. \A n \in Names :
            InColumnRanges(n)' <=> \A q \in askedColumns' : ColumnIsWithin(q, n)
    BY <1>0, <2>4, <2>6 DEF RangesAsAsked
  <2>8. \A t \in 0..99 :
            InTimeRanges(t)' <=> \A q \in askedTimes' : TimeIsWithin(FromTimestampRange(q), t)
    BY <1>0, <1>3 DEF RangesAsAsked, ApplyColumnRange, InTimeRanges
  <2> QED BY <2>5, <2>7, <2>8 DEF IInv, RangesAsAsked
<1>4. ASSUME NEW r \in TimeRanges, ApplyTimestampRange(r)
      PROVE  IInv'
  <2> DEFINE by == FromTimestampRange(r)
  <2>1. by \in Interval /\ timeRanges \in SUBSET Interval
    BY <1>0, FamilyStreamAssumption, Milliseconds DEF TypeOK
  <2>2. timeRanges' = TimeSet!RangeSetIntersectImpl(timeRanges, by)
    BY <1>4 DEF ApplyTimestampRange
  <2>3. timeRanges' \in SUBSET Interval
    <3> HIDE DEF by
    <3> QED BY <2>1, <2>2, TimeIntersection
  <2>4. askedTimes' = askedTimes \union {r} /\ ~started
    BY <1>4 DEF ApplyTimestampRange, MayApply
  <2>5. TypeOK'
    BY <1>0, <1>4, <2>3, <2>4, ApplyPos DEF ApplyTimestampRange, TypeOK
  <2>6. \A t \in Nat : InTimeRanges(t)' <=> InTimeRanges(t) /\ TimeIsWithin(by, t)
    <3> HIDE DEF by
    <3> QED BY <2>1, <2>2, TimeIntersection DEF InTimeRanges
  <2>7. \A t \in 0..99 : InTimeRanges(t)' <=> InTimeRanges(t) /\ TimeIsWithin(by, t)
    BY <2>6
  <2>8. \A t \in 0..99 :
            InTimeRanges(t)' <=> \A q \in askedTimes' : TimeIsWithin(FromTimestampRange(q), t)
    BY <1>0, <2>4, <2>7 DEF RangesAsAsked
  <2>9. \A n \in Names :
            InColumnRanges(n)' <=> \A q \in askedColumns' : ColumnIsWithin(q, n)
    BY <1>0, <1>4 DEF RangesAsAsked, ApplyTimestampRange, InColumnRanges
  <2> QED BY <2>5, <2>8, <2>9 DEF IInv, RangesAsAsked
<1>5. ASSUME Initialize
      PROVE  IInv'
  <2>1. pos' # End => pos' \in Walked
    BY <1>0, <1>5, InitializeIsFirst, FirstIsOneOf
  <2> QED BY <1>5, <2>1, MoveType DEF Initialize
<1>6. ASSUME NEW mode \in NextModes, NextCell(mode)
      PROVE  IInv'
  <2>1. pos' # End => pos' \in Walked
    BY <1>0, <1>6, NextIsFirst, FirstIsOneOf DEF Later
  <2> QED BY <1>6, <2>1, MoveType DEF NextCell
<1> QED BY <1>1, <1>2, <1>3, <1>4, <1>5, <1>6 DEF Next

LEMMA InvariantHolds == Spec => []IInv
<1>1. Init => IInv
  BY Initialization
<1>2. IInv /\ [Next]_vars => IInv'
  <2>1. ASSUME IInv, UNCHANGED vars PROVE IInv'
    <3>1. Walked' = Walked
      BY <2>1, SameWalk DEF vars
    <3>2. TypeOK'
      BY <2>1, <3>1 DEF IInv, TypeOK, vars, filters
    <3>3. RangesAsAsked'
      BY <2>1, SameRanges DEF IInv, vars, filters
    <3> QED BY <3>2, <3>3 DEF IInv
  <2> QED BY <2>1, Invariance
<1> QED BY <1>1, <1>2, PTL DEF Spec

(* Every variable of a stream is of its type, and the stream points at a   *)
(* cell that it shows: a position that was taken from the maps or the keys *)
(* is never one that the filters exclude (FilteredColumnFamilyStream and   *)
(* PersistentFilteredColumnFamilyStream).                                  *)
THEOREM TypeCorrect == Spec => []TypeOK
<1>1. IInv => TypeOK
  BY DEF IInv
<1> QED BY <1>1, InvariantHolds, PTL

-----------------------------------------------------------------------------
(* What is selected.                                                       *)

LEMMA AtMostOne ==
    ASSUME NEW S, IsFiniteSet(S), Cardinality(S) <= 1
    PROVE  S = {} \/ \E x : S = {x}
<1>1. Cardinality(S) \in Nat
  BY FS_CardinalityType
<1>2. Cardinality(S) = 0 \/ Cardinality(S) = 1
  BY <1>1
<1> QED BY <1>2, FS_EmptySet, FS_Singleton

(* Of at most one regex, some matches when all do. *)
LEMMA OneRegex ==
    ASSUME NEW regexes, IsFiniteSet(regexes), Cardinality(regexes) <= 1, NEW n
    PROVE  MatchesSome(regexes, n) <=> MatchesAll(regexes, n)
<1>1. CASE regexes = {}
  BY <1>1 DEF MatchesSome, MatchesAll
<1>2. CASE \E x : regexes = {x}
  BY <1>2 DEF MatchesSome, MatchesAll
<1> QED BY <1>1, <1>2, AtMostOne

(* The key of a cell whose names have no separator is parsed to the cell. *)
LEMMA ParseOfOneParts ==
    ASSUME NEW c \in Cell, Len(Parts[c.row]) = 1, Len(Parts[c.column]) = 1
    PROVE  /\ Parse(Key(c)).row = c.row
           /\ Parse(Key(c)).column = c.column
           /\ Parse(Key(c)).time = c.time
           /\ [Parse(Key(c)) EXCEPT !.key = <<>>] = c
<1>1. c.row \in Names /\ c.column \in Names /\ c.family = 1 /\ c.key = <<>>
  BY DEF Cell
<1>2. Parts[c.row] = <<c.row>> /\ Parts[c.column] = <<c.column>>
  BY <1>1, FamilyStreamAssumption
<1>3. Key(c).parts = <<c.row>> \o <<c.column>> /\ Key(c).time = c.time
  BY <1>2 DEF Key
<1>4. ASSUME NEW m \in Names, NEW n \in Names
      PROVE  /\ (<<m>> \o <<n>>)[1] = m /\ (<<m>> \o <<n>>)[2] = n
             /\ Len(<<m>> \o <<n>>) = 2
  <2>1. <<m>> \in Seq(Names) /\ <<n>> \in Seq(Names)
    OBVIOUS
  <2>2. Len(<<m>>) = 1 /\ Len(<<n>>) = 1 /\ <<m>>[1] = m /\ <<n>>[1] = n
    OBVIOUS
  <2> DEFINE s == <<m>>
             t == <<n>>
  <2> HIDE DEF s, t
  <2>3. /\ Len(s \o t) = Len(s) + Len(t)
        /\ \A i \in 1..(Len(s) + Len(t)) :
              (s \o t)[i] = IF i <= Len(s) THEN s[i] ELSE t[i - Len(s)]
    BY <2>1, ConcatProperties DEF s, t
  <2>4. Len(s) = 1 /\ Len(t) = 1 /\ s[1] = m /\ t[1] = n
    BY <2>2 DEF s, t
  <2>5. (s \o t)[1] = m /\ (s \o t)[2] = n /\ Len(s \o t) = 2
    BY <2>3, <2>4
  <2> QED BY <2>5 DEF s, t
<1>5. Key(c).parts[1] = c.row /\ Key(c).parts[2] = c.column /\ Len(Key(c).parts) = 2
  BY <1>1, <1>3, <1>4
<1>6. Parse(Key(c)) = [row |-> c.row, family |-> 1, column |-> c.column,
                       time |-> c.time, key |-> Key(c)]
  BY <1>3, <1>5 DEF Parse
<1>7. c = [row |-> c.row, family |-> 1, column |-> c.column,
           time |-> c.time, key |-> <<>>]
  BY DEF Cell
<1> QED BY <1>6, <1>7

(* The tests a cell has to pass, by what they look at. *)
RowTest(n) == IF stored THEN MatchesSome(rowRegexes, n) ELSE MatchesAll(rowRegexes, n)
ColumnTest(n) ==
    IF stored THEN MatchesSome(columnRegexes, n) ELSE MatchesAll(columnRegexes, n)

PassesTests(c) ==
    /\ stored \/ c.row \in rowSet
    /\ RowTest(c.row)
    /\ ColumnTest(c.column)
    /\ InColumnRanges(c.column)
    /\ InTimeRanges(c.time)

WalkTested == \A c : c \in Walked <=> c \in Everything /\ PassesTests(c)

LEMMA WalkIsTests == WalkTested /\ WalkTested'
<1>1. WalkTested
  <2>1. ASSUME stored PROVE WalkTested
    BY <2>1 DEF WalkTested, Walked, Everything, StoredCells, Passes, PassesTests, RowTest,
        ColumnTest
  <2>2. ASSUME ~stored PROVE WalkTested
    <3>1. ASSUME NEW c \in table
          PROVE  /\ c.row \in RowsView <=> c.row \in rowSet /\ MatchesAll(rowRegexes, c.row)
                 /\ c.column \in ColumnsView(c.row) <=>
                      InColumnRanges(c.column) /\ MatchesAll(columnRegexes, c.column)
                 /\ c \in CellsView(c.row, c.column) <=> InTimeRanges(c.time)
      BY DEF RowsView, Rows, ColumnsView, Columns, CellsView
    <3>2. \A c : c \in Walked <=> /\ c \in table /\ c.row \in RowsView
                                  /\ c.column \in ColumnsView(c.row)
                                  /\ c \in CellsView(c.row, c.column)
      BY <2>2 DEF Walked, Selected
    <3>3. \A c : PassesTests(c) <=>
            /\ c.row \in rowSet /\ MatchesAll(rowRegexes, c.row)
            /\ InColumnRanges(c.column) /\ MatchesAll(columnRegexes, c.column)
            /\ InTimeRanges(c.time)
      BY <2>2 DEF PassesTests, RowTest, ColumnTest
    <3>4. Everything = table
      BY <2>2 DEF Everything
    <3> QED
      BY <3>1, <3>2, <3>3, <3>4 DEF WalkTested
  <2> QED BY <2>1, <2>2
<1> QED BY <1>1, PTL

LEMMA SelectionIsAsked == IInv => SelectsWhatIsAsked
<1> SUFFICES ASSUME TypeOK, RangesAsAsked
             PROVE  SelectsWhatIsAsked
  BY DEF IInv
<1>1. ASSUME NEW c \in table, ~Misread(c)
      PROVE  /\ Asked(c) => PassesTests(c)
             /\ PassesTests(c) => Asked(c) \/ Ignores(c)
  <2>1. c.row \in Names /\ c.column \in Names /\ c.time \in 0..99 /\ c.time \in Nat
    <3>1. c \in Cell
      BY TableType
    <3>2. c.row \in Names /\ c.column \in Names /\ c.time \in 0..99
      BY <3>1 DEF Cell
    <3> QED BY <3>1, <3>2, CellProperties
  <2>2. InColumnRanges(c.column) <=>
            \A r \in askedColumns : r.start <= c.column /\ c.column <= r.end
    BY <2>1 DEF RangesAsAsked, ColumnIsWithin
  <2>3. InTimeRanges(c.time) <=>
            \A r \in askedTimes :
                r.start <= c.time * 1000 /\ (r.end = 0 \/ c.time * 1000 < r.end)
    <3>1. InTimeRanges(c.time) <=>
            \A r \in askedTimes : TimeIsWithin(FromTimestampRange(r), c.time)
      BY <2>1 DEF RangesAsAsked
    <3>2. ASSUME NEW r \in askedTimes
          PROVE  TimeIsWithin(FromTimestampRange(r), c.time) <=>
                    r.start <= c.time * 1000 /\ (r.end = 0 \/ c.time * 1000 < r.end)
      <4>1. r \in Interval
        BY FamilyStreamAssumption DEF TypeOK
      <4>2. /\ ~(r.start % 1000 # 0 /\ r.start \div 1000 = c.time)
            /\ ~(r.end % 1000 # 0 /\ r.end \div 1000 \in {0, c.time})
        BY <1>1 DEF Misread
      <4> QED BY <2>1, <4>1, <4>2, Milliseconds
    <3> QED BY <3>1, <3>2
  <2>4. IsFiniteSet(rowRegexes) /\ IsFiniteSet(columnRegexes)
    BY DEF TypeOK
  <2>5. Asked(c) => PassesTests(c)
    BY <2>2, <2>3 DEF Asked, PassesTests, RowTest, ColumnTest, MatchesAll, MatchesSome
  <2>6. ASSUME PassesTests(c), ~Ignores(c)
        PROVE  Asked(c)
    <3>1. RowTest(c.row) <=> MatchesAll(rowRegexes, c.row)
      <4>1. stored => Cardinality(rowRegexes) <= 1
        BY <2>4, <2>6, FS_CardinalityType DEF Ignores
      <4> QED BY <2>4, <4>1, OneRegex DEF RowTest
    <3>2. ColumnTest(c.column) <=> MatchesAll(columnRegexes, c.column)
      <4>1. stored => Cardinality(columnRegexes) <= 1
        BY <2>4, <2>6, FS_CardinalityType DEF Ignores
      <4> QED BY <2>4, <4>1, OneRegex DEF ColumnTest
    <3>3. c.row \in rowSet
      BY <2>6 DEF PassesTests, Ignores
    <3> QED BY <2>2, <2>3, <2>6, <3>1, <3>2, <3>3 DEF PassesTests, Asked, MatchesAll
  <2> QED BY <2>5, <2>6
<1>2. CASE ~stored
  <2>1. \A c : c \in Selected <=> c \in table /\ PassesTests(c)
    BY <1>2, WalkIsTests DEF WalkTested, Walked, Everything
  <2> QED BY <1>1, <2>1 DEF SelectsWhatIsAsked
<1>3. CASE stored
  <2>1. \A x : x \in Selected <=>
            \E d \in table : /\ x = [Parse(Key(d)) EXCEPT !.key = <<>>]
                             /\ PassesTests(Parse(Key(d)))
    BY <1>3, WalkIsTests DEF WalkTested, Selected, Walked, Everything, StoredKeys
  <2>2. ASSUME NEW d \in table, ~Misread(d)
        PROVE  /\ [Parse(Key(d)) EXCEPT !.key = <<>>] = d
               /\ PassesTests(Parse(Key(d))) <=> PassesTests(d)
    <3>1. d \in Cell /\ Len(Parts[d.row]) = 1 /\ Len(Parts[d.column]) = 1
      <4>1. d.row \in Names /\ d.column \in Names
        BY TableType DEF Cell
      <4>2. d \in Cell
        BY TableType
      <4>3. /\ Len(Parts[d.row]) \in Nat /\ Len(Parts[d.row]) # 0
            /\ Len(Parts[d.column]) \in Nat /\ Len(Parts[d.column]) # 0
        BY <4>1, FamilyStreamAssumption, LenProperties, EmptySeq
      <4>4. ~(Len(Parts[d.row]) > 1) /\ ~(Len(Parts[d.column]) > 1)
        BY <1>3, <2>2 DEF Misread
      <4>5. \A k \in Nat : k # 0 /\ ~(k > 1) => k = 1
        OBVIOUS
      <4>6. Len(Parts[d.row]) = 1
        BY <4>3, <4>4, <4>5
      <4>7. Len(Parts[d.column]) = 1
        BY <4>3, <4>4, <4>5
      <4> QED BY <4>2, <4>6, <4>7
    <3> QED BY <3>1, ParseOfOneParts DEF PassesTests
  <2>3. ASSUME NEW d \in table
        PROVE  LET x == [Parse(Key(d)) EXCEPT !.key = <<>>]
               IN PassesTests(x) <=> PassesTests(Parse(Key(d)))
    BY DEF PassesTests, Parse
  <2>4. ASSUME NEW c \in table, ~Misread(c)
        PROVE  c \in Selected <=> PassesTests(c)
    <3>1. ASSUME PassesTests(c) PROVE c \in Selected
      BY <2>1, <2>2, <2>4, <3>1
    <3>2. ASSUME c \in Selected PROVE PassesTests(c)
      BY <2>1, <2>3, <3>2
    <3> QED BY <3>1, <3>2
  <2>5. ASSUME \A d \in table : ~Misread(d)
        PROVE  Selected \subseteq table
    BY <2>1, <2>2, <2>5
  <2> QED BY <1>1, <2>4, <2>5 DEF SelectsWhatIsAsked
<1> QED BY <1>2, <1>3

(* A filter that a stream has taken over (FilterApply and ApplyFilter) is  *)
(* obeyed, for any number of filters: the range sets and regex lists,      *)
(* which each call narrows, select what all of the filters together ask    *)
(* for.  In memory this is only wrong for cells in the millisecond that a  *)
(* bound cuts; in storage also for names with a separator, and a second    *)
(* regex or a row set lets more pass, never less.                          *)
THEOREM FiltersAreObeyed == Spec => []SelectsWhatIsAsked
BY InvariantHolds, SelectionIsAsked, PTL

-----------------------------------------------------------------------------
(* Where the stream never goes.                                            *)

LEMMA RankIsOrder ==
    ASSUME NEW names \in SUBSET Names, stored => OrderedAlike(names),
           NEW m \in names, NEW n \in names, Rank(m) <= Rank(n)
    PROVE  m <= n
<1>1. m \in Nat /\ n \in Nat /\ Rank(m) \in Nat /\ Rank(n) \in Nat
  BY NamesAreNumbers, RankProperties
<1>2. CASE ~stored
  BY <1>2 DEF Rank
<1>3. CASE stored
  <2>1. n < m => Rank(n) < Rank(m)
    BY <1>3 DEF OrderedAlike, Rank
  <2> QED BY <1>1, <2>1
<1> QED BY <1>2, <1>3

StepBack ==
    /\ started
    /\ pos' # End
    /\ stored => OrderedAlike({c.row : c \in StoredCells} \union {c.column : c \in StoredCells})
    /\ ColumnBefore(pos', pos)

LEMMA NoStepBack ==
    ASSUME TypeOK, NEW mode \in NextModes, NextCell(mode)
    PROVE  ~StepBack
<1> SUFFICES ASSUME StepBack PROVE FALSE
  OBVIOUS
<1>1. pos \in Walked /\ pos' \in Walked /\ WalkBefore(pos, pos')
  <2>1. pos' \in Later(mode)
    BY NextIsFirst, FirstIsOneOf DEF StepBack
  <2> QED BY <2>1, NextIsFirst DEF Later
<1>2. pos \in Everything /\ pos' \in Everything
  BY <1>1, WalkedIsThere
<1>3. /\ pos.row \in Names /\ pos.column \in Names /\ pos.family = 1
      /\ pos'.row \in Names /\ pos'.column \in Names /\ pos'.family = 1
  BY <1>2, CellType
<1>4. /\ Rank(pos.row) <= Rank(pos'.row)
      /\ pos.row = pos'.row => Rank(pos.column) <= Rank(pos'.column)
  BY <1>1, <1>2, WalkOfNames
<1> DEFINE names == IF stored
                    THEN {c.row : c \in StoredCells} \union {c.column : c \in StoredCells}
                    ELSE Names
<1>5. names \in SUBSET Names
  <2>1. stored => StoredCells \in SUBSET Everything
    BY WalkedIsThere DEF Walked
  <2> QED BY <2>1, CellType
<1>6. /\ pos.row \in names /\ pos.column \in names
      /\ pos'.row \in names /\ pos'.column \in names
  BY <1>1, <1>3 DEF Walked
<1>7. stored => OrderedAlike(names)
  BY DEF StepBack
<1> HIDE DEF names
<1>8. /\ pos.row <= pos'.row
      /\ pos.row = pos'.row => pos.column <= pos'.column
  BY <1>4, <1>5, <1>6, <1>7, RankIsOrder
<1>9. /\ pos.row \in Nat /\ pos.column \in Nat /\ pos'.row \in Nat /\ pos'.column \in Nat
  BY <1>3, NamesAreNumbers
<1> QED BY <1>3, <1>8, <1>9 DEF StepBack, ColumnBefore

(* The nested loops of FilteredColumnFamilyStream::Next, and the parsing   *)
(* of one key after another, never bring a row or a column back: what the  *)
(* merge of the families and the condition filter (src/filter.cc) rely on. *)
THEOREM NeverGoesBack == Spec => NeverBack
<1>1. IInv /\ Next /\ started => ~StepBack
  BY NoStepBack DEF IInv, Next, ApplyRowKeyRegex, ApplyColumnRegex, ApplyColumnRange,
        ApplyTimestampRange, MayApply, Initialize
<1>2. IInv /\ Next =>
        (started /\ pos' # End
         /\ (stored => OrderedAlike({c.row : c \in StoredCells}
                                    \union {c.column : c \in StoredCells}))
         => ~ColumnBefore(pos', pos))
  BY <1>1 DEF StepBack
<1> QED BY <1>2, InvariantHolds, PTL DEF Spec, NeverBack

-----------------------------------------------------------------------------
(* The stream as a source of cells: Left are the cells of Rest without     *)
(* their places.                                                           *)

Tag(c) == [row |-> c.row, family |-> c.family, column |-> c.column, time |-> c.time,
           at |-> Place(c)]

Left == {d \in Walked : ~started \/ (HasValue /\ ~WalkBefore(d, pos))}

LEMMA RestIsLeft == Rest = {Tag(c) : c \in Left}
BY DEF Rest, Tag, Left, Place

LEMMA SamePlaces ==
    ASSUME UNCHANGED <<stored, table>>
    PROVE  /\ Everything' = Everything
           /\ \A c, d : WalkBefore(c, d)' <=> WalkBefore(c, d)
           /\ \A c : Place(c)' = Place(c)
           /\ \A c : Tag(c)' = Tag(c)
<1>1. Everything' = Everything
  BY DEF Everything, StoredKeys
<1>2. \A c, d : WalkBefore(c, d)' <=> WalkBefore(c, d)
  BY DEF WalkBefore
<1>3. \A c : Place(c)' = Place(c)
  BY <1>1, <1>2 DEF Place
<1>4. \A c : Tag(c)' = Tag(c)
  BY <1>3 DEF Tag
<1> QED BY <1>1, <1>2, <1>3, <1>4

LEMMA RestNext ==
    ASSUME UNCHANGED <<stored, table>>
    PROVE  Rest' = {Tag(c) : c \in Left'}
<1>1. Rest' = {Tag(c)' : c \in Left'}
  BY DEF Rest, Tag, Left, Place
<1> QED BY <1>1, SamePlaces

LEMMA RestIsFinite ==
    ASSUME TypeOK
    PROVE  IsFiniteSet(Rest)
<1> DEFINE f == [c \in Left |-> Tag(c)]
<1>1. Left \in SUBSET Everything
  BY WalkedIsThere DEF Left
<1>2. IsFiniteSet(Left)
  BY <1>1, EverythingIsFinite, FS_Subset
<1>3. f \in Surjection(Left, Rest)
  BY RestIsLeft DEF Surjection
<1> QED BY <1>2, <1>3, FS_Surjection

(* What a filter adds to the tests of a cell. *)
AddsToTests(filter) ==
    /\ UNCHANGED <<stored, table, rowSet, started>> /\ ~started
    /\ \A n : filter.kind # "RowKeyRegex" => (RowTest(n)' <=> RowTest(n))
    /\ \A n : filter.kind # "ColumnRegex" => (ColumnTest(n)' <=> ColumnTest(n))
    /\ \A n \in Names :
        InColumnRanges(n)' <=>
            /\ InColumnRanges(n)
            /\ filter.kind = "ColumnRange" => ColumnIsWithin(filter.range, n)
    /\ \A t \in 0..99 :
        InTimeRanges(t)' <=>
            /\ InTimeRanges(t)
            /\ filter.kind = "TimestampRange" =>
                TimeIsWithin(FromTimestampRange(filter.range), t)

(* A regex narrows the names exactly, or widens them in storage. *)
RegexNarrows(regex) ==
    /\ rowRegexes' = rowRegexes \union {regex}
    /\ \A n : RowTest(n)' <=> RowTest(n) /\ n \in regex
RegexWidens == stored /\ Cardinality(rowRegexes') > 1 /\ \A n : RowTest(n) => RowTest(n)'
ColumnRegexNarrows(regex) ==
    /\ columnRegexes' = columnRegexes \union {regex}
    /\ \A n : ColumnTest(n)' <=> ColumnTest(n) /\ n \in regex
ColumnRegexWidens ==
    stored /\ Cardinality(columnRegexes') > 1 /\ \A n : ColumnTest(n) => ColumnTest(n)'

LEMMA OneMoreRegex ==
    ASSUME NEW S, IsFiniteSet(S), NEW x
    PROVE  /\ \A n : MatchesAll(S \union {x}, n) <=> MatchesAll(S, n) /\ n \in x
           /\ \/ \A n : MatchesSome(S \union {x}, n) <=> MatchesSome(S, n) /\ n \in x
              \/ /\ Cardinality(S \union {x}) > 1
                 /\ \A n : MatchesSome(S, n) => MatchesSome(S \union {x}, n)
<1>1. \A n : MatchesAll(S \union {x}, n) <=> MatchesAll(S, n) /\ n \in x
  BY DEF MatchesAll
<1>2. IsFiniteSet(S \union {x}) /\ Cardinality(S \union {x}) \in Nat
  BY FS_AddElement, FS_CardinalityType
<1>3. CASE S = {}
  BY <1>1, <1>3 DEF MatchesSome
<1>4. CASE S # {} /\ Cardinality(S \union {x}) > 1
  BY <1>1, <1>4 DEF MatchesSome
<1>5. CASE S # {} /\ Cardinality(S \union {x}) <= 1
  <2>1. PICK y : S \union {x} = {y}
    BY <1>2, <1>5, AtMostOne
  <2>2. S = {x}
    BY <1>5, <2>1
  <2> QED BY <1>1, <2>2 DEF MatchesSome
<1> QED BY <1>1, <1>2, <1>3, <1>4, <1>5

(* What one call of ApplyFilter does to the tests. *)
LEMMA FilterAddsToTests ==
    ASSUME IInv, IInv', NEW filter \in InternalFilter, ApplyFilter(filter)
    PROVE  /\ AddsToTests(filter)
           /\ filter.kind = "RowKeyRegex" => RegexNarrows(filter.regex) \/ RegexWidens
           /\ filter.kind = "ColumnRegex" =>
                ColumnRegexNarrows(filter.regex) \/ ColumnRegexWidens
<1>0. RangesAsAsked /\ RangesAsAsked' /\ IsFiniteSet(rowRegexes) /\ IsFiniteSet(columnRegexes)
  BY DEF IInv, TypeOK
<1>1. CASE filter.kind = "RowKeyRegex" /\ ApplyRowKeyRegex(filter.regex)
  <2>1. /\ rowRegexes' = rowRegexes \union {filter.regex} /\ ~started
        /\ UNCHANGED <<stored, table, rowSet, columnRegexes, columnRanges, timeRanges,
                       askedColumns, askedTimes, started>>
    BY <1>1 DEF ApplyRowKeyRegex, MayApply
  <2>2. AddsToTests(filter)
    BY <1>1, <2>1 DEF AddsToTests, ColumnTest, InColumnRanges, InTimeRanges
  <2>3. RegexNarrows(filter.regex) \/ RegexWidens
    BY <1>0, <2>1, OneMoreRegex DEF RegexNarrows, RegexWidens, RowTest
  <2> QED BY <1>1, <2>2, <2>3
<1>2. CASE filter.kind = "ColumnRegex" /\ ApplyColumnRegex(filter.regex)
  <2>1. /\ columnRegexes' = columnRegexes \union {filter.regex} /\ ~started
        /\ UNCHANGED <<stored, table, rowSet, rowRegexes, columnRanges, timeRanges,
                       askedColumns, askedTimes, started>>
    BY <1>2 DEF ApplyColumnRegex, MayApply
  <2>2. AddsToTests(filter)
    BY <1>2, <2>1 DEF AddsToTests, RowTest, InColumnRanges, InTimeRanges
  <2>3. ColumnRegexNarrows(filter.regex) \/ ColumnRegexWidens
    BY <1>0, <2>1, OneMoreRegex DEF ColumnRegexNarrows, ColumnRegexWidens, ColumnTest
  <2> QED BY <1>2, <2>2, <2>3
<1>3. CASE filter.kind = "ColumnRange" /\ ApplyColumnRange(filter.range)
  <2>1. /\ askedColumns' = askedColumns \union {filter.range} /\ ~started
        /\ UNCHANGED <<stored, table, rowSet, rowRegexes, columnRegexes, timeRanges,
                       askedTimes, started>>
    BY <1>3 DEF ApplyColumnRange, MayApply
  <2>2. \A n \in Names : InColumnRanges(n)' <=>
            InColumnRanges(n) /\ ColumnIsWithin(filter.range, n)
    BY <1>0, <2>1 DEF RangesAsAsked
  <2>3. AddsToTests(filter)
    BY <1>3, <2>1, <2>2 DEF AddsToTests, RowTest, ColumnTest, InTimeRanges
  <2> QED BY <1>3, <2>3
<1>4. CASE filter.kind = "TimestampRange" /\ ApplyTimestampRange(filter.range)
  <2>1. /\ askedTimes' = askedTimes \union {filter.range} /\ ~started
        /\ UNCHANGED <<stored, table, rowSet, rowRegexes, columnRegexes, columnRanges,
                       askedColumns, started>>
    BY <1>4 DEF ApplyTimestampRange, MayApply
  <2>2. \A t \in 0..99 : InTimeRanges(t)' <=>
            InTimeRanges(t) /\ TimeIsWithin(FromTimestampRange(filter.range), t)
    BY <1>0, <2>1 DEF RangesAsAsked
  <2>3. AddsToTests(filter)
    BY <1>4, <2>1, <2>2 DEF AddsToTests, RowTest, ColumnTest, InColumnRanges
  <2> QED BY <1>4, <2>3
<1> QED BY <1>1, <1>2, <1>3, <1>4 DEF ApplyFilter

(* An operation on a stream that has not started takes out the cells that  *)
(* the filter leaves out, or widens what storage shows.                    *)
LEMMA ApplyIsFilter ==
    ASSUME IInv, IInv', NEW filter \in InternalFilter, ApplyFilter(filter)
    PROVE  Source!ApplyFilter(filter, TRUE) \/ Widens(filter)
<1>1. AddsToTests(filter)
  BY FilterAddsToTests
<1>2. UNCHANGED <<stored, table, rowSet, started>> /\ ~started
  BY <1>1 DEF AddsToTests
<1>3. Left = Walked /\ Left' = Walked'
  BY <1>2 DEF Left
<1>4. Rest = {Tag(c) : c \in Walked} /\ Rest' = {Tag(c) : c \in Walked'}
  BY <1>2, <1>3, RestIsLeft, RestNext
<1>5. Everything' = Everything
  BY <1>2, SamePlaces
<1>6. \A c \in Everything : c.row \in Names /\ c.column \in Names /\ c.time \in 0..99
  BY CellType DEF IInv
<1>7. \A c : Keeps(filter, Tag(c)) <=> Keeps(filter, c)
  BY DEF Keeps, Tag
<1>8. ASSUME \A c \in Everything : PassesTests(c)' <=> PassesTests(c) /\ Keeps(filter, c)
      PROVE  Source!ApplyFilter(filter, TRUE)
  <2>1. Walked' = {c \in Walked : Keeps(filter, c)}
    BY <1>5, <1>8, WalkIsTests DEF WalkTested
  <2>2. Rest' = {x \in Rest : Keeps(filter, x)}
    BY <1>4, <1>7, <2>1
  <2> QED BY <1>2, <2>2 DEF Source!ApplyFilter
<1>9. ASSUME \A c \in Everything : PassesTests(c) => PassesTests(c)'
      PROVE  Rest \subseteq Rest'
  <2>1. Walked \subseteq Walked'
    BY <1>5, <1>9, WalkIsTests DEF WalkTested
  <2> QED BY <1>4, <2>1
<1>10. CASE filter.kind = "RowKeyRegex"
  <2>1. CASE RegexNarrows(filter.regex)
    <3>1. \A c \in Everything : PassesTests(c)' <=> PassesTests(c) /\ Keeps(filter, c)
      BY <1>1, <1>6, <1>10, <2>1 DEF AddsToTests, RegexNarrows, PassesTests, Keeps
    <3> QED BY <1>8, <3>1
  <2>2. CASE RegexWidens
    <3>1. \A c \in Everything : PassesTests(c) => PassesTests(c)'
      BY <1>1, <1>6, <1>10, <2>2 DEF AddsToTests, RegexWidens, PassesTests
    <3> QED BY <1>2, <1>9, <1>10, <2>2, <3>1 DEF Widens, RegexWidens
  <2> QED BY <1>10, <2>1, <2>2, FilterAddsToTests
<1>11. CASE filter.kind = "ColumnRegex"
  <2>1. CASE ColumnRegexNarrows(filter.regex)
    <3>1. \A c \in Everything : PassesTests(c)' <=> PassesTests(c) /\ Keeps(filter, c)
      BY <1>1, <1>6, <1>11, <2>1 DEF AddsToTests, ColumnRegexNarrows, PassesTests, Keeps
    <3> QED BY <1>8, <3>1
  <2>2. CASE ColumnRegexWidens
    <3>1. \A c \in Everything : PassesTests(c) => PassesTests(c)'
      BY <1>1, <1>6, <1>11, <2>2 DEF AddsToTests, ColumnRegexWidens, PassesTests
    <3> QED BY <1>2, <1>9, <1>11, <2>2, <3>1 DEF Widens, ColumnRegexWidens
  <2> QED BY <1>11, <2>1, <2>2, FilterAddsToTests
<1>12. CASE filter.kind \notin {"RowKeyRegex", "ColumnRegex"}
  <2>1. \A c \in Everything : PassesTests(c)' <=> PassesTests(c) /\ Keeps(filter, c)
    BY <1>1, <1>6, <1>12 DEF AddsToTests, PassesTests, Keeps, ColumnIsWithin
  <2> QED BY <1>8, <2>1
<1> QED BY <1>10, <1>11, <1>12

LEMMA InitializeIsStart ==
    ASSUME IInv, Initialize
    PROVE  Source!Start
<1>1. /\ UNCHANGED <<stored, table, rowSet, filters>>
      /\ ~started /\ started' = TRUE /\ TypeOK
  BY DEF Initialize, IInv
<1>2. Walked' = Walked
  BY <1>1, SameWalk
<1>3. FirstOf(pos', Walked)
  BY <1>1, InitializeIsFirst
<1>4. Left = Walked
  BY <1>1 DEF Left
<1>5. \A d : d \in Left' <=> d \in Walked /\ pos' # End /\ ~WalkBefore(d, pos')
  <2>1. \A d : WalkBefore(d, pos)' <=> WalkBefore(d, pos')
    BY <1>1 DEF WalkBefore
  <2> QED BY <1>1, <1>2, <2>1 DEF Left, HasValue
<1>6. End \notin Walked
  BY <1>1, EndIsNoCell, WalkedIsThere
<1>7. Left' = Walked
  BY <1>3, <1>5, <1>6 DEF FirstOf
<1>8. Rest' = Rest
  BY <1>1, <1>4, <1>7, RestNext, RestIsLeft
<1> QED BY <1>1, <1>8 DEF Source!Start

(* What is to come is what the mode leaves of what there is. *)
LEMMA LeftOfNext ==
    ASSUME TypeOK, NEW mode \in NextModes, NextCell(mode)
    PROVE  Left' = Later(mode)
<1>1. /\ UNCHANGED <<stored, table, rowSet, filters>>
      /\ started /\ started' /\ pos # End
  BY DEF NextCell, HasValue
<1>2. Walked' = Walked
  BY <1>1, SameWalk
<1>3. pos \in Walked /\ FirstOf(pos', Later(mode))
  BY NextIsFirst
<1>4. \A d : d \in Left' <=> d \in Walked /\ pos' # End /\ ~WalkBefore(d, pos')
  <2>1. \A d : WalkBefore(d, pos)' <=> WalkBefore(d, pos')
    BY <1>1 DEF WalkBefore
  <2> QED BY <1>1, <1>2, <2>1 DEF Left, HasValue
<1>5. End \notin Walked /\ Walked \subseteq Everything
  BY EndIsNoCell, WalkedIsThere
<1>6. CASE Later(mode) = {}
  <2>1. pos' = End
    BY <1>3, <1>6 DEF FirstOf
  <2> QED BY <1>4, <1>6, <2>1
<1>7. CASE Later(mode) # {}
  <2>1. pos' \in Later(mode) /\ \A d \in Later(mode) : ~WalkBefore(d, pos')
    BY <1>3, <1>7 DEF FirstOf
  <2>2. pos' \in Walked /\ WalkBefore(pos, pos') /\ ~Matches(mode, pos, pos')
    BY <2>1 DEF Later
  <2>3. ASSUME NEW d \in Later(mode) PROVE d \in Left'
    BY <1>4, <1>5, <2>1, <2>2, <2>3 DEF Later
  <2>4. ASSUME NEW d \in Left' PROVE d \in Later(mode)
    <3>1. d \in Walked /\ (d = pos' \/ WalkBefore(pos', d))
      BY <1>4, <1>5, <2>2, <2>4, WalkOrder
    <3>2. CASE d = pos'
      BY <2>1, <3>2
    <3>3. CASE WalkBefore(pos', d)
      <4>1. WalkBefore(pos, d)
        BY <1>3, <1>5, <2>2, <3>1, <3>3, WalkTransitive
      <4>2. ~Matches(mode, pos, d)
        BY <1>3, <1>5, <2>2, <3>1, <3>3, MatchesBetween
      <4> QED BY <3>1, <4>1, <4>2 DEF Later
    <3> QED BY <3>1, <3>2, <3>3
  <2> QED BY <2>3, <2>4
<1> QED BY <1>6, <1>7

LEMMA NextIsAdvance ==
    ASSUME IInv, NEW mode \in NextModes, NextCell(mode)
    PROVE  Source!Advance(mode)
<1> DEFINE first == Tag(pos)
<1>1. /\ UNCHANGED <<stored, table>> /\ started /\ started' = started
      /\ pos # End /\ TypeOK
  BY DEF NextCell, HasValue, IInv
<1>2. pos \in Walked /\ Walked \subseteq Everything
  BY <1>1, NextIsFirst, WalkedIsThere
<1>3. \A d : d \in Left <=> d \in Walked /\ (d = pos \/ WalkBefore(pos, d))
  <2>1. \A d : d \in Left <=> d \in Walked /\ ~WalkBefore(d, pos)
    BY <1>1 DEF Left, HasValue
  <2>2. \A d \in Walked : ~WalkBefore(d, pos) => d = pos \/ WalkBefore(pos, d)
    BY <1>1, <1>2, WalkOrder
  <2>3. \A d \in Walked : d = pos \/ WalkBefore(pos, d) => ~WalkBefore(d, pos)
    BY <1>1, <1>2, WalkOrder, WalkTransitive
  <2> QED BY <2>1, <2>2, <2>3
<1>4. \A d \in Left : Place(d) \in Nat /\ Place(pos) \in Nat /\ ~(Place(d) < Place(pos))
  <2> SUFFICES ASSUME NEW d \in Left
               PROVE  Place(d) \in Nat /\ Place(pos) \in Nat /\ ~(Place(d) < Place(pos))
    OBVIOUS
  <2>1. Place(d) \in Nat /\ Place(pos) \in Nat
    BY <1>1, PlaceIsNumber
  <2>2. d = pos \/ Place(pos) < Place(d)
    BY <1>1, <1>2, <1>3, PlacesIncrease
  <2> QED BY <2>1, <2>2
<1>5. \A d \in Left : Tag(d).at = Place(d) /\ first.at = Place(pos)
  BY DEF Tag
<1>6. first \in Source!Firsts
  <2>1. first \in Rest
    BY <1>2, <1>3, RestIsLeft
  <2>2. \A x \in Rest : ~AtBefore(x, first)
    BY <1>4, <1>5, RestIsLeft DEF AtBefore
  <2> HIDE DEF first
  <2> QED BY <2>1, <2>2 DEF Source!Firsts
<1>7. \A d \in Left : Tag(d) = first <=> d = pos
  BY <1>1, <1>2, <1>3, <1>5, PlacesAreTheWalk
<1>8. \A d : Source!Matches(mode, first, Tag(d)) <=> Matches(mode, pos, d)
  BY DEF Source!Matches, Source!SameColumn, Source!SameRow, Matches, SameColumn, SameRow, Tag
<1>9. \A d : d \in Later(mode) <=> d \in Left /\ d # pos /\ ~Matches(mode, pos, d)
  <2>1. ~WalkBefore(pos, pos)
    BY <1>1, <1>2, WalkOrder
  <2> QED BY <1>2, <1>3, <2>1 DEF Later
<1>10. Rest' = {Tag(d) : d \in Later(mode)}
  BY <1>1, LeftOfNext, RestNext
<1>11. Rest' = {x \in Rest : x # first /\ ~Source!Matches(mode, first, x)}
  <2> HIDE DEF first
  <2> QED BY <1>7, <1>8, <1>9, <1>10, RestIsLeft
<1> HIDE DEF first
<1> QED BY <1>1, <1>6, <1>11 DEF Source!Advance

LEMMA StepIsOfOneStream ==
    ASSUME IInv, IInv', [Next]_vars
    PROVE  [Source!Next \/ \E filter \in InternalFilter : Widens(filter)]_<<Rest, started>>
<1>1. ASSUME NEW filter \in InternalFilter, ApplyFilter(filter)
      PROVE  Source!Next \/ Widens(filter)
  BY <1>1, ApplyIsFilter DEF Source!Next
<1>2. CASE Initialize
  BY <1>2, InitializeIsStart DEF Source!Next
<1>3. ASSUME NEW mode \in NextModes, NextCell(mode)
      PROVE  Source!Next
  <2>1. mode \in Source!NextModes
    BY DEF NextModes, Source!NextModes
  <2> QED BY <1>3, <2>1, NextIsAdvance DEF Source!Next
<1>4. CASE UNCHANGED vars
  <2>1. Left' = Left
    <3>1. Walked' = Walked
      BY <1>4, SameWalk DEF vars
    <3>2. \A d : WalkBefore(d, pos)' <=> WalkBefore(d, pos)
      BY <1>4 DEF vars, WalkBefore
    <3> QED BY <1>4, <3>1, <3>2 DEF Left, HasValue, vars
  <2>2. Rest' = Rest
    BY <1>4, <2>1, RestNext, RestIsLeft DEF vars
  <2> QED BY <1>4, <2>2 DEF vars
<1>5. ASSUME NEW regex \in Regexes, ApplyRowKeyRegex(regex) \/ ApplyColumnRegex(regex)
      PROVE  \E filter \in InternalFilter : ApplyFilter(filter)
  <2> DEFINE F(kind) == [kind |-> kind, regex |-> regex]
  <2>1. F("RowKeyRegex") \in InternalFilter /\ F("ColumnRegex") \in InternalFilter
    BY DEF InternalFilter
  <2>2. ApplyFilter(F("RowKeyRegex")) \/ ApplyFilter(F("ColumnRegex"))
    BY <1>5 DEF ApplyFilter
  <2> QED BY <2>1, <2>2
<1>6. ASSUME NEW r \in ColumnRanges, ApplyColumnRange(r)
      PROVE  \E filter \in InternalFilter : ApplyFilter(filter)
  <2> DEFINE f == [kind |-> "ColumnRange", range |-> r]
  <2>1. f \in InternalFilter /\ ApplyFilter(f)
    BY <1>6 DEF InternalFilter, ApplyFilter
  <2> QED BY <2>1
<1>7. ASSUME NEW r \in TimeRanges, ApplyTimestampRange(r)
      PROVE  \E filter \in InternalFilter : ApplyFilter(filter)
  <2> DEFINE f == [kind |-> "TimestampRange", range |-> r]
  <2>1. f \in InternalFilter /\ ApplyFilter(f)
    BY <1>7 DEF InternalFilter, ApplyFilter
  <2> QED BY <2>1
<1> QED BY <1>1, <1>2, <1>3, <1>4, <1>5, <1>6, <1>7 DEF Next

(***************************************************************************)
(* Both streams of a family keep what AbstractCellStreamImpl promises      *)
(* (CellSource), whatever the names, the tables and the filters: a filter  *)
(* that is applied takes out exactly the cells it leaves out, the first    *)
(* look changes nothing, and each call of Next leaves behind its cell, its *)
(* column or its row and nothing else, although the maps are walked by     *)
(* nested loops over views and the keys in an order that is not the order  *)
(* of the names.  Only a second regex of a kind in storage breaks the      *)
(* promise: it takes nothing out.                                          *)
(***************************************************************************)
THEOREM FamilyIsOneStream == Spec => IsOneStream
<1>1. Init => Source!Init
  <2> SUFFICES ASSUME Init PROVE Source!Init
    OBVIOUS
  <2>1. TypeOK /\ started = FALSE
    BY Initialization DEF IInv, Init
  <2>2. Source!IsFiniteSet(Rest)
    BY <2>1, RestIsFinite DEF Source!IsFiniteSet, IsFiniteSet
  <2> QED BY <2>1, <2>2 DEF Source!Init
<1>2. IInv /\ IInv' /\ [Next]_vars =>
        [Source!Next \/ \E filter \in InternalFilter : Widens(filter)]_<<Rest, started>>
  BY StepIsOfOneStream
<1>3. IInv /\ [Next]_vars =>
        [\A mode \in NextModes : NextCell(mode) => Source!Advance(mode)]_vars
  BY NextIsAdvance
<1>4. IInv /\ IInv' /\ [Next]_vars =>
        [\A filter \in InternalFilter :
            ApplyFilter(filter) => Source!ApplyFilter(filter, TRUE) \/ Widens(filter)]_vars
  BY ApplyIsFilter
<1> QED BY <1>1, <1>2, <1>3, <1>4, InvariantHolds, PTL DEF Spec, IsOneStream

-----------------------------------------------------------------------------
(* The stream among those of other families.                               *)

(* The names that come out are ordered as their stored texts are.          *)
NamesInOrder ==
    stored => OrderedAlike({c.row : c \in StoredCells} \union {c.column : c \in StoredCells})

(* What the constructor of MergeCellStreams asks of each stream            *)
(* (StreamsAssumption of MergeStreams).                                    *)
CanBeMerged == Rest \in SUBSET ShownCell /\ IsFiniteSet(Rest) /\ InPlace(Rest)

LEMMA OrderIsThePlaces ==
    ASSUME TypeOK, NamesInOrder
    PROVE  CanBeMerged
<1>1. ASSUME NEW c \in Left
      PROVE  /\ c \in Walked /\ c \in Everything /\ Place(c) \in Nat
             /\ c.row \in Names /\ c.column \in Names /\ c.family = 1
             /\ c.row \in Nat /\ c.column \in Nat /\ c.time \in Nat
  <2>1. c \in Walked /\ c \in Everything
    BY WalkedIsThere DEF Left
  <2>2. c.row \in Names /\ c.column \in Names /\ c.family = 1 /\ c.time \in Nat
    BY <2>1, CellType
  <2> QED BY <2>1, <2>2, PlaceIsNumber, NamesAreNumbers
<1>2. Rest \in SUBSET ShownCell
  <2>1. ASSUME NEW c \in Left PROVE Tag(c) \in ShownCell
    <3>1. 1 \in Nat
      OBVIOUS
    <3> QED BY <1>1, <3>1 DEF Tag, ShownCell
  <2> QED BY <2>1, RestIsLeft
<1>3. ASSUME NEW c \in Left, NEW d \in Left, ColumnBefore(Tag(c), Tag(d))
      PROVE  Place(c) < Place(d)
  <2> DEFINE names == IF stored
                      THEN {e.row : e \in StoredCells} \union {e.column : e \in StoredCells}
                      ELSE Names
  <2>1. names \in SUBSET Names
    <3>1. stored => StoredCells \in SUBSET Everything
      BY WalkedIsThere DEF Walked
    <3> QED BY <3>1, CellType
  <2>2. /\ c.row \in names /\ c.column \in names
        /\ d.row \in names /\ d.column \in names
    BY <1>1 DEF Walked
  <2>3. stored => OrderedAlike(names)
    BY DEF NamesInOrder
  <2> HIDE DEF names
  <2>4. c.row < d.row \/ (c.row = d.row /\ c.column < d.column)
    BY <1>1, <1>3 DEF Tag, ColumnBefore
  <2>5. c # d
    BY <1>1, <2>4
  <2>6. ~WalkBefore(d, c)
    <3> SUFFICES ASSUME WalkBefore(d, c) PROVE FALSE
      OBVIOUS
    <3>1. /\ Rank(d.row) <= Rank(c.row)
          /\ d.row = c.row => Rank(d.column) <= Rank(c.column)
      BY <1>1, WalkOfNames
    <3>2. d.row <= c.row /\ (d.row = c.row => d.column <= c.column)
      BY <2>1, <2>2, <2>3, <3>1, RankIsOrder
    <3> QED BY <1>1, <2>4, <3>2
  <2>7. WalkBefore(c, d)
    BY <1>1, <2>5, <2>6, WalkOrder
  <2> QED BY <1>1, <2>7, PlacesIncrease
<1>4. ASSUME NEW c \in Left, NEW d \in Left, Place(c) = Place(d)
      PROVE  c = d
  BY <1>1, <1>4, PlacesAreTheWalk
<1>5. InPlace(Rest)
  <2>1. ASSUME NEW c \in Left, NEW d \in Left
        PROVE  /\ Tag(c).at = Tag(d).at => Tag(c) = Tag(d)
               /\ ColumnBefore(Tag(c), Tag(d)) => Tag(c).at < Tag(d).at
    BY <1>3, <1>4 DEF Tag
  <2> QED BY <2>1, RestIsLeft DEF InPlace
<1> QED BY <1>2, <1>5, RestIsFinite DEF CanBeMerged

(***************************************************************************)
(* Both streams of a family keep at all times what MergeCellStreams asks   *)
(* of the streams it merges: finitely many cells, each at a place of its   *)
(* own, the places in the order of rows and columns.  In memory always, in *)
(* storage when the separator does not change the order of the names.      *)
(***************************************************************************)
THEOREM FamiliesCanBeMerged == Spec => [](NamesInOrder => CanBeMerged)
<1>1. IInv => (NamesInOrder => CanBeMerged)
  BY OrderIsThePlaces DEF IInv
<1> QED BY <1>1, InvariantHolds, PTL

=============================================================================

---------------------------- MODULE ColumnGCProofs ----------------------------
(***************************************************************************)
(* Proofs about ColumnGC, for rules nested to any depth, any finite set of *)
(* timestamps and a clock that goes on at any pace: a run of the collector *)
(* erases what the rule calls garbage, which are the oldest cells.         *)
(***************************************************************************)
EXTENDS ColumnGC, FiniteSetTheorems, TLAPS

Kept == cells \ todo

Erased == before \ cells

(***************************************************************************)
(* What holds in the middle of a scan.  Every cell that was erased would   *)
(* be erased at this moment too, since neither version_rank nor the clock  *)
(* has gone back; so once a cell is erased, no older one is kept.          *)
(***************************************************************************)
Scanning ==
    /\ cells \subseteq before
    /\ \A reached \in before \ todo, ts \in todo : ts < reached
    /\ \A erased \in Erased, kept \in Kept : erased < kept
    /\ \A erased \in Erased : EraseVerdict(rule, erased, rank, now)
    /\ \A kept \in Kept :
         ~EraseVerdict(rule, kept, Cardinality(Newer(before, kept)), start)

IInv ==
    /\ TypeOK
    /\ IF pc = "scanning" THEN Scanning ELSE todo = {}
    /\ NewestSurvive
    /\ CollectsWhatTheRuleSays
    /\ NoGarbageLeft

-----------------------------------------------------------------------------
(* A set of natural numbers that is not empty has a least element. *)
LEMMA LeastNatural ==
    ASSUME NEW S \in SUBSET Nat, S # {}
    PROVE  \E least \in S : \A n \in S : least <= n
<1>1. \E least \in S : \A n \in S : ~(<<n, least>> \in OpToRel(<, Nat))
  BY NatLessThanWellFounded, WFMin
<1>2. \A m, n \in Nat : <<m, n>> \in OpToRel(<, Nat) <=> m < n
  BY DEF OpToRel
<1>3. PICK least \in S : \A n \in S : ~(<<n, least>> \in OpToRel(<, Nat))
  BY <1>1
<1>4. \A n \in S : ~(n < least)
  BY <1>2, <1>3
<1>5. \A n \in S : least <= n
  BY <1>4
<1> QED
  BY <1>5

(* A finite set of integers that is not empty has a greatest element: the  *)
(* one that the fewest of the others exceed.                               *)
LEMMA GreatestInteger ==
    ASSUME NEW S \in SUBSET Int, IsFiniteSet(S), S # {}
    PROVE  Max(S) \in S /\ \A i \in S : i <= Max(S)
<1> DEFINE Above(i) == {j \in S : i < j}
           Counts == {Cardinality(Above(i)) : i \in S}
<1>1. \A i \in S : IsFiniteSet(Above(i)) /\ Cardinality(Above(i)) \in Nat
  BY FS_Subset, FS_CardinalityType
<1>2. Counts \in SUBSET Nat /\ Counts # {}
  BY <1>1
<1>3. PICK least \in Counts : \A n \in Counts : least <= n
  BY <1>2, LeastNatural
<1>4. PICK top \in S : least = Cardinality(Above(top))
  BY <1>3
<1>5. \A i \in S : i <= top
  <2> SUFFICES ASSUME NEW i \in S, top < i
               PROVE  FALSE
    OBVIOUS
  <2>0. i \in Int /\ top \in Int /\ \A j \in S : j \in Int
    OBVIOUS
  <2>1. Above(i) \in SUBSET Above(top) /\ i \in Above(top) /\ i \notin Above(i)
    <3>1. \A j \in S : i < j => top < j
      BY <2>0
    <3>2. Above(i) \in SUBSET Above(top)
      BY <3>1
    <3>3. i \in Above(top)
      OBVIOUS
    <3>4. i \notin Above(i)
      BY <2>0
    <3> QED
      BY <3>2, <3>3, <3>4
  <2>2. Cardinality(Above(i)) <= Cardinality(Above(top))
        /\ Cardinality(Above(top)) # Cardinality(Above(i))
    BY <1>1, <2>1, FS_Subset
  <2>3. Cardinality(Above(top)) <= Cardinality(Above(i))
    BY <1>3, <1>4
  <2> QED
    BY <1>1, <2>2, <2>3
<1> QED
  BY <1>5 DEF Max

-----------------------------------------------------------------------------
(* The ranks that a scan can ask a verdict for. *)
LEMMA RanksAreBounded ==
    ASSUME NEW S \in SUBSET Time
    PROVE  /\ IsFiniteSet(S)
           /\ Cardinality(S) \in 0 .. Cardinality(Time)
<1>1. IsFiniteSet(S) /\ Cardinality(S) <= Cardinality(Time)
  BY ColumnGCAssumption, FS_Subset
<1>2. Cardinality(S) \in Nat /\ Cardinality(Time) \in Nat
  BY <1>1, ColumnGCAssumption, FS_CardinalityType
<1> QED
  BY <1>1, <1>2

-----------------------------------------------------------------------------
(* A set of rules that holds every rule all of whose parts it holds is the *)
(* set of all rules: of the rules outside one would be nested the least.   *)
LEMMA RuleInduction ==
    ASSUME NEW S \in SUBSET Rule,
           \A r \in Rule :
             (r.kind \in {"union", "intersection"} => r.rules \subseteq S) => r \in S
    PROVE  S = Rule
<1> SUFFICES ASSUME Rule \ S # {} PROVE FALSE
  OBVIOUS
<1> DEFINE Depths == {Depth(r) : r \in Rule \ S}
<1>1. Depths \in SUBSET Nat /\ Depths # {}
  BY RuleAssumption
<1>2. PICK least \in Depths : \A n \in Depths : least <= n
  BY <1>1, LeastNatural
<1>3. PICK r \in Rule \ S : least = Depth(r)
  BY <1>2
<1>4. ASSUME r.kind \in {"union", "intersection"}, NEW part \in r.rules
      PROVE  part \in S
  <2> SUFFICES ASSUME part \notin S PROVE FALSE
    OBVIOUS
  <2>1. part \in Rule \ S /\ Depth(part) < Depth(r)
    BY <1>4, RuleAssumption
  <2>2. Depth(r) <= Depth(part)
    BY <1>2, <1>3, <2>1
  <2>3. Depth(part) \in Nat /\ Depth(r) \in Nat
    BY <2>1, RuleAssumption
  <2> QED
    BY <2>1, <2>2, <2>3
<1> QED
  BY <1>3, <1>4

(* An older cell, a later rank and a later time only make a rule stricter. *)
LEMMA EraseVerdictIsMonotone ==
    ASSUME NEW r \in Rule, NEW ts1 \in Time, NEW ts2 \in Time, ts2 <= ts1,
           NEW rank1 \in 0 .. Cardinality(Time), NEW rank2 \in 0 .. Cardinality(Time),
           rank1 <= rank2,
           NEW now1 \in 0 .. MaxNow, NEW now2 \in 0 .. MaxNow, now1 <= now2,
           EraseVerdict(r, ts1, rank1, now1)
    PROVE  EraseVerdict(r, ts2, rank2, now2)
<1> DEFINE Monotone == {s \in Rule : EraseVerdict(s, ts1, rank1, now1)
                                        => EraseVerdict(s, ts2, rank2, now2)}
<1>1. \A s \in Rule : s.kind \in {"age", "versions"} => s.n \in Nat
  BY RuleAssumption
<1>2. ts1 \in Int /\ ts2 \in Int /\ rank1 \in Int /\ rank2 \in Int /\ now1 \in Int /\ now2 \in Int
  BY ColumnGCAssumption
<1>3. \A n \in Nat : (ts1 < now1 - n => ts2 < now2 - n) /\ (rank1 >= n => rank2 >= n)
  BY <1>2
<1>4. ASSUME NEW s \in Rule, s.kind \in {"union", "intersection"} => s.rules \subseteq Monotone,
             EraseVerdict(s, ts1, rank1, now1)
      PROVE  EraseVerdict(s, ts2, rank2, now2)
  <2>1. CASE s.kind \in {"age", "versions"}
    BY <1>1, <1>3, <1>4, <2>1, VerdictAssumption
  <2>2. CASE s.kind = "union"
    <3>1. PICK part \in s.rules : EraseVerdict(part, ts1, rank1, now1)
      BY <1>4, <2>2, VerdictAssumption
    <3>2. EraseVerdict(part, ts2, rank2, now2)
      BY <1>4, <2>2, <3>1
    <3> QED
      BY <2>2, <3>2, VerdictAssumption
  <2>3. CASE s.kind = "intersection"
    <3>1. s.rules # {} /\ \A part \in s.rules : EraseVerdict(part, ts1, rank1, now1)
      BY <1>4, <2>3, VerdictAssumption
    <3>2. \A part \in s.rules : EraseVerdict(part, ts2, rank2, now2)
      BY <1>4, <2>3, <3>1
    <3> QED
      BY <2>3, <3>1, <3>2, VerdictAssumption
  <2> QED
    BY <1>4, <2>1, <2>2, <2>3, VerdictAssumption
<1>5. \A s \in Rule :
        (s.kind \in {"union", "intersection"} => s.rules \subseteq Monotone) => s \in Monotone
  BY <1>4
<1>6. Monotone \in SUBSET Rule
  OBVIOUS
<1> HIDE DEF Monotone
<1>7. Monotone = Rule
  BY <1>5, <1>6, RuleInduction
<1>8. r \in Monotone
  BY <1>7
<1> QED
  BY <1>8 DEF Monotone

(***************************************************************************)
(* The two readings of a rule agree.  What a rule calls garbage, part by   *)
(* part, is what the verdict erases when the rank is that among all cells. *)
(***************************************************************************)
LEMMA GarbageIsVerdict ==
    ASSUME NEW r \in Rule, NEW cs \in SUBSET Time, NEW time \in 0 .. MaxNow
    PROVE  Garbage(r, cs, time) =
             {ts \in cs : EraseVerdict(r, ts, Cardinality(Newer(cs, ts)), time)}
<1> DEFINE Verdict(s) == {ts \in cs : EraseVerdict(s, ts, Cardinality(Newer(cs, ts)), time)}
           Agree == {s \in Rule : Garbage(s, cs, time) = Verdict(s)}
<1>1. ASSUME NEW s \in Rule, NEW ts \in cs
      PROVE  EraseVerdict(s, ts, Cardinality(Newer(cs, ts)), time) <=>
            \/ s.kind = "age" /\ ts < time - s.n
            \/ s.kind = "versions" /\ Cardinality(Newer(cs, ts)) >= s.n
            \/ /\ s.kind = "union"
               /\ \E part \in s.rules : EraseVerdict(part, ts, Cardinality(Newer(cs, ts)), time)
            \/ /\ s.kind = "intersection"
               /\ s.rules # {}
               /\ \A part \in s.rules : EraseVerdict(part, ts, Cardinality(Newer(cs, ts)), time)
  <2>1. ts \in Time /\ Cardinality(Newer(cs, ts)) \in 0 .. Cardinality(Time)
    BY RanksAreBounded DEF Newer
  <2> QED
    BY <2>1, VerdictAssumption
<1>2. ASSUME NEW s \in Rule, s.kind \in {"union", "intersection"} => s.rules \subseteq Agree
      PROVE  Garbage(s, cs, time) = Verdict(s)
  <2>1. ASSUME s.kind \in {"union", "intersection"}, NEW part \in s.rules, NEW ts \in cs
        PROVE  ts \in Garbage(part, cs, time)
                 <=> EraseVerdict(part, ts, Cardinality(Newer(cs, ts)), time)
    BY <1>2, <2>1
  <2>2. /\ Garbage(s, cs, time) \subseteq cs
        /\ \A ts \in cs :
             ts \in Garbage(s, cs, time) <=>
               \/ s.kind = "age" /\ ts < time - s.n
               \/ s.kind = "versions" /\ Cardinality(Newer(cs, ts)) >= s.n
               \/ s.kind = "union" /\ \E part \in s.rules : ts \in Garbage(part, cs, time)
               \/ /\ s.kind = "intersection"
                  /\ s.rules # {}
                  /\ \A part \in s.rules : ts \in Garbage(part, cs, time)
    BY GarbageAssumption
  <2>3. ASSUME NEW ts \in cs
        PROVE  ts \in Garbage(s, cs, time)
                 <=> EraseVerdict(s, ts, Cardinality(Newer(cs, ts)), time)
    <3>1. CASE s.kind = "union"
      <4>1. ts \in Garbage(s, cs, time) <=> \E part \in s.rules : ts \in Garbage(part, cs, time)
        BY <2>2, <3>1
      <4>2. EraseVerdict(s, ts, Cardinality(Newer(cs, ts)), time)
              <=> \E part \in s.rules : EraseVerdict(part, ts, Cardinality(Newer(cs, ts)), time)
        BY <1>1, <3>1
      <4> QED
        BY <2>1, <3>1, <4>1, <4>2
    <3>2. CASE s.kind = "intersection"
      <4>1. ts \in Garbage(s, cs, time)
              <=> s.rules # {} /\ \A part \in s.rules : ts \in Garbage(part, cs, time)
        BY <2>2, <3>2
      <4>2. EraseVerdict(s, ts, Cardinality(Newer(cs, ts)), time)
              <=> /\ s.rules # {}
                  /\ \A part \in s.rules :
                       EraseVerdict(part, ts, Cardinality(Newer(cs, ts)), time)
        BY <1>1, <3>2
      <4> QED
        BY <2>1, <3>2, <4>1, <4>2
    <3>3. CASE s.kind \notin {"union", "intersection"}
      BY <1>1, <2>2, <3>3
    <3> QED
      BY <3>1, <3>2, <3>3
  <2>4. Garbage(s, cs, time) \subseteq cs
    BY <2>2
  <2> QED
    BY <2>3, <2>4
<1>3. \A s \in Rule :
        (s.kind \in {"union", "intersection"} => s.rules \subseteq Agree) => s \in Agree
  BY <1>2
<1>4. Agree \in SUBSET Rule
  OBVIOUS
<1> HIDE DEF Agree
<1>5. Agree = Rule
  BY <1>3, <1>4, RuleInduction
<1>6. r \in Agree
  BY <1>5
<1> QED
  BY <1>6 DEF Agree

(* What a rule on the number of versions calls garbage. *)
LEMMA NewestAreNoGarbage ==
    ASSUME NEW r \in Rule, r.kind = "versions", NEW cs \in SUBSET Time,
           NEW time \in 0 .. MaxNow, NEW ts \in cs
    PROVE  ts \in Garbage(r, cs, time) <=> Cardinality(Newer(cs, ts)) >= r.n
BY GarbageAssumption

(* The first step of the scan's turn: the cell that it reaches is the      *)
(* newest of those it has not reached.                                     *)
LEMMA NextIsNewest ==
    ASSUME TypeOK, todo # {}
    PROVE  Max(todo) \in todo /\ \A ts \in todo : ts <= Max(todo)
BY GreatestInteger, RanksAreBounded, ColumnGCAssumption DEF TypeOK

LEMMA InitIInv == Init => IInv
<1> SUFFICES ASSUME Init PROVE IInv
  OBVIOUS
<1>1. rule \in Rule
  BY ColumnGCAssumption DEF Init
<1> QED
  BY <1>1, FS_EmptySet, ColumnGCAssumption DEF Init, IInv, TypeOK, NewestSurvive, CollectsWhatTheRuleSays,
                                                NoGarbageLeft

-----------------------------------------------------------------------------
(* One lemma for each action. *)
LEMMA ApplyGCRuleInv ==
    ASSUME IInv, NEW r \in Rule, ApplyGCRule(r)
    PROVE  IInv'
<1> USE DEF IInv, TypeOK, ApplyGCRule
<1>1. TypeOK'
  <2>1. cells' \in SUBSET cells
    <3>1. CASE r.kind = "age"
      BY <3>1
    <3>2. CASE r.kind = "versions"
      BY <3>2
    <3>3. CASE r.kind = "unset"
      BY <3>3
    <3> QED
      BY <3>1, <3>2, <3>3
  <2>2. rank = 0 /\ todo = {} /\ todo' = todo /\ rank' = rank /\ pc' = "done"
    BY FS_EmptySet
  <2> QED
    BY <2>1, <2>2, FS_EmptySet
<1>2. NewestSurvive'
  <2> SUFFICES ASSUME NEW erased \in cells \ cells', NEW kept \in cells'
               PROVE  erased < kept
    BY DEF NewestSurvive
  <2>1. erased \in Int /\ kept \in Int
    BY ColumnGCAssumption
  <2>2. CASE r.kind = "age"
    BY <2>1, <2>2, ColumnGCAssumption, RuleAssumption DEF TooOld
  <2>3. CASE r.kind = "versions"
    <3>1. Cardinality(Newer(cells, erased)) >= r.n /\ ~(Cardinality(Newer(cells, kept)) >= r.n)
      BY <2>3 DEF TooMany
    <3>2. SUFFICES ASSUME kept <= erased PROVE FALSE
      BY <2>1
    <3>3. Newer(cells, erased) \in SUBSET Newer(cells, kept) /\ Newer(cells, kept) \in SUBSET Time
      BY <2>1, <3>2, ColumnGCAssumption DEF Newer
    <3>4. Cardinality(Newer(cells, erased)) <= Cardinality(Newer(cells, kept))
      BY <3>3, FS_Subset, RanksAreBounded
    <3>5. Cardinality(Newer(cells, erased)) \in Nat /\ Cardinality(Newer(cells, kept)) \in Nat
      BY <3>3, RanksAreBounded
    <3> QED
      BY <2>3, <3>1, <3>4, <3>5, RuleAssumption
  <2> QED
    BY <2>2, <2>3
<1>3. r.kind \in {"age", "versions", "unset"} /\ cells \in SUBSET Time /\ now \in 0 .. MaxNow
      /\ cells' \in SUBSET cells /\ cells' \in SUBSET Time
  BY <1>1
<1>4. Garbage(r, cells, now) = cells \ cells'
  <2>1. CASE r.kind = "age"
    BY <1>3, <2>1, GarbageAssumption DEF TooOld
  <2>2. CASE r.kind = "versions"
    <3>1. \A ts \in cells : ts \in Garbage(r, cells, now) <=> TooMany(ts, r.n)
      BY <1>3, <2>2, GarbageAssumption DEF TooMany
    <3>2. cells' = {ts \in cells : ~TooMany(ts, r.n)}
      BY <2>2
    <3>3. Garbage(r, cells, now) \subseteq cells
      BY <1>3, GarbageAssumption
    <3> QED
      BY <3>1, <3>2, <3>3
  <2>3. CASE r.kind = "unset"
    BY <1>3, <2>3, GarbageAssumption
  <2> QED
    BY <1>3, <2>1, <2>2, <2>3
<1>5. Garbage(r, cells', now) = {}
  <2>1. CASE r.kind = "age"
    <3>1. \A ts \in cells' : ~(ts < now - r.n)
      BY <2>1 DEF TooOld
    <3> QED
      BY <1>3, <2>1, <3>1, GarbageAssumption
  <2>2. CASE r.kind = "versions"
    <3>1. ASSUME NEW ts \in cells' PROVE ~(Cardinality(Newer(cells', ts)) >= r.n)
      <4>1. ~(Cardinality(Newer(cells, ts)) >= r.n)
        BY <2>2 DEF TooMany
      <4>2. Newer(cells', ts) \in SUBSET Newer(cells, ts) /\ Newer(cells, ts) \in SUBSET Time
        BY <1>3 DEF Newer
      <4>3. Cardinality(Newer(cells', ts)) <= Cardinality(Newer(cells, ts))
        BY <4>2, FS_Subset, RanksAreBounded
      <4>4. Cardinality(Newer(cells', ts)) \in Nat /\ Cardinality(Newer(cells, ts)) \in Nat
        BY <4>2, RanksAreBounded
      <4> QED
        BY <2>2, <4>1, <4>3, <4>4, RuleAssumption
    <3>2. \A ts \in cells' : ts \notin Garbage(r, cells', now)
      <4> SUFFICES ASSUME NEW ts \in cells' PROVE ts \notin Garbage(r, cells', now)
        OBVIOUS
      <4>1. ts \in Garbage(r, cells', now) <=> Cardinality(Newer(cells', ts)) >= r.n
        BY <1>3, <2>2, NewestAreNoGarbage
      <4> QED
        BY <3>1, <4>1
    <3>3. Garbage(r, cells', now) \subseteq cells'
      BY <1>3, GarbageAssumption
    <3> QED
      BY <3>2, <3>3
  <2>3. CASE r.kind = "unset"
    BY <1>3, <2>3, GarbageAssumption
  <2> QED
    BY <1>3, <2>1, <2>2, <2>3
<1>6. CollectsWhatTheRuleSays'
  BY <1>4 DEF CollectsWhatTheRuleSays
<1>7. NoGarbageLeft'
  BY <1>5 DEF NoGarbageLeft
<1> QED
  BY <1>1, <1>2, <1>6, <1>7

LEMMA ApplyGCRuleVerdictInv ==
    ASSUME IInv, NEW r \in Rule, ApplyGCRuleVerdict(r)
    PROVE  IInv'
BY FS_EmptySet DEF IInv, TypeOK, ApplyGCRuleVerdict, Scanning, Kept, Erased, NewestSurvive,
                   CollectsWhatTheRuleSays, NoGarbageLeft

LEMMA ScanCellInv ==
    ASSUME IInv, ScanCell
    PROVE  IInv'
<1> DEFINE ts == Max(todo)
<1>1. ts \in todo /\ \A other \in todo : other <= ts
  BY NextIsNewest DEF IInv, ScanCell
<1>2. todo' = todo \ {ts} /\ pc = "scanning" /\ pc' = "scanning"
      /\ UNCHANGED <<now, rule, before, start>>
  BY DEF ScanCell
<1>3. cells \subseteq Time /\ Time \subseteq Int /\ before \subseteq Time
      /\ todo \subseteq cells /\ rank = Cardinality(Kept)
  BY <1>2, ColumnGCAssumption DEF IInv, TypeOK, Kept
<1>4. IsFiniteSet(Kept) /\ rank \in 0 .. Cardinality(Time)
  BY <1>3, RanksAreBounded DEF Kept
<1>5. Scanning
  BY <1>2 DEF IInv
<1> HIDE DEF ts
<1>6. \A reached \in before' \ todo', other \in todo' : other < reached
  BY <1>1, <1>2, <1>3, <1>5 DEF Scanning
<1>7. CASE EraseVerdict(rule, ts, rank, now)
  <2>1. cells' = cells \ {ts} /\ rank' = rank
    BY <1>7 DEF ScanCell, ts
  <2>2. Kept' = Kept /\ Erased' = Erased \union {ts}
    BY <1>1, <1>2, <1>3, <1>5, <2>1 DEF Kept, Erased, Scanning
  <2>3. TypeOK'
    BY <1>2, <1>3, <2>1, <2>2 DEF IInv, TypeOK, Kept
  <2>4. \A kept \in Kept : ts < kept
    BY <1>1, <1>5 DEF Scanning, Kept
  <2>5. \A erased \in Erased', kept \in Kept' : erased < kept
    BY <1>5, <2>2, <2>4 DEF Scanning
  <2>6. \A erased \in Erased' : EraseVerdict(rule, erased, rank, now)
    BY <1>5, <1>7, <2>2 DEF Scanning
  <2>7. cells' \subseteq before'
    BY <1>2, <1>5, <2>1 DEF Scanning
  <2>8. \A kept \in Kept' : ~EraseVerdict(rule, kept, Cardinality(Newer(before, kept)), start)
    BY <1>5, <2>2 DEF Scanning
  <2> QED
    BY <1>2, <1>6, <2>1, <2>3, <2>5, <2>6, <2>7, <2>8
    DEF IInv, Scanning, NewestSurvive, CollectsWhatTheRuleSays, NoGarbageLeft
<1>8. CASE ~EraseVerdict(rule, ts, rank, now)
  <2>1. cells' = cells /\ rank' = rank + 1
    BY <1>8 DEF ScanCell, ts
  <2>2. Erased = {}
    <3> SUFFICES ASSUME NEW erased \in Erased PROVE FALSE
      OBVIOUS
    <3>1. EraseVerdict(rule, erased, rank, now) /\ ts < erased
      BY <1>1, <1>3, <1>5 DEF Scanning, Erased
    <3>2. erased \in Time /\ ts \in Time /\ ts <= erased /\ rule \in Rule /\ now \in 0 .. MaxNow
      BY <1>1, <1>3, <3>1 DEF Erased, IInv, TypeOK
    <3>3. rank <= rank /\ now <= now
      BY <1>4, <3>2
    <3> QED
      BY <1>4, <1>8, <3>1, <3>2, <3>3, EraseVerdictIsMonotone
  <2>3. Erased' = {}
    BY <1>2, <2>1, <2>2 DEF Erased
  <2>4. Kept' = Kept \union {ts} /\ ts \notin Kept
    BY <1>1, <1>2, <1>3, <2>1 DEF Kept
  <2>5. rank' = Cardinality(Kept')
    BY <1>3, <1>4, <2>1, <2>4, FS_AddElement
  <2>6. TypeOK'
    BY <1>2, <1>3, <2>1, <2>5 DEF IInv, TypeOK, Kept
  <2>7. cells' \subseteq before'
    BY <1>2, <1>5, <2>1 DEF Scanning
  <2>8. Newer(before, ts) = Kept
    <3>0. \A i, j \in Int : i <= j => ~(j < i)
      OBVIOUS
    <3>1. before = cells /\ \A other \in todo : ~(ts < other)
      <4>1. before = cells
        BY <1>5, <2>2 DEF Erased, Scanning
      <4>2. ts \in Int /\ \A other \in todo : other \in Int
        BY <1>1, <1>3
      <4> QED
        BY <1>1, <3>0, <4>1, <4>2
    <3>2. \A kept \in Kept : ts < kept
      BY <1>1, <1>5, <3>1 DEF Scanning, Kept
    <3> QED
      BY <3>1, <3>2 DEF Newer, Kept
  <2>9. ~EraseVerdict(rule, ts, Cardinality(Newer(before, ts)), start)
    <3>1. ts \in Time /\ rule \in Rule /\ start \in 0 .. MaxNow /\ now \in 0 .. MaxNow
          /\ start <= now
      BY <1>1, <1>3, ColumnGCAssumption DEF IInv, TypeOK
    <3>2. ts <= ts /\ rank <= rank
      BY <1>3, <1>4, <3>1
    <3> QED
      BY <1>3, <1>4, <1>8, <2>8, <3>1, <3>2, EraseVerdictIsMonotone
  <2>10. \A kept \in Kept' : ~EraseVerdict(rule, kept, Cardinality(Newer(before, kept)), start)
    BY <1>5, <2>4, <2>9 DEF Scanning
  <2> QED
    BY <1>2, <1>6, <2>3, <2>6, <2>7, <2>10
    DEF IInv, Scanning, NewestSurvive, CollectsWhatTheRuleSays, NoGarbageLeft
<1> QED
  BY <1>7, <1>8

LEMMA EndScanInv ==
    ASSUME IInv, EndScan
    PROVE  IInv'
<1>1. TypeOK'
  BY FS_EmptySet DEF IInv, TypeOK, EndScan
<1>2. \A erased \in before \ cells, kept \in cells : erased < kept
  BY DEF IInv, EndScan, Scanning, Kept, Erased
<1>3. Scanning /\ TypeOK /\ todo = {} /\ pc' = "done"
      /\ UNCHANGED <<cells, now, rule, todo, before, start>>
  BY DEF IInv, EndScan
<1>4. cells = Kept /\ cells \subseteq before /\ before \in SUBSET Time
      /\ rule \in Rule /\ now \in 0 .. MaxNow /\ start \in 0 .. MaxNow
      /\ rank = Cardinality(cells)
  BY <1>3, ColumnGCAssumption DEF TypeOK, Scanning, Kept, EndScan
<1>5. Garbage(rule, before, start) \subseteq before \ cells
  <2>1. \A ts \in Garbage(rule, before, start) :
          ts \in before /\ EraseVerdict(rule, ts, Cardinality(Newer(before, ts)), start)
    BY <1>4, GarbageIsVerdict
  <2>2. \A kept \in cells : ~EraseVerdict(rule, kept, Cardinality(Newer(before, kept)), start)
    BY <1>3, <1>4 DEF Scanning
  <2> QED
    BY <2>1, <2>2
<1>6. ASSUME NEW erased \in before \ cells PROVE erased \in Garbage(rule, before, now)
  <2>1. EraseVerdict(rule, erased, rank, now)
    BY <1>3 DEF Scanning, Erased
  <2>2. cells \in SUBSET Newer(before, erased) /\ Newer(before, erased) \in SUBSET Time
    BY <1>2, <1>4 DEF Newer
  <2>3. rank <= Cardinality(Newer(before, erased))
    BY <1>4, <2>2, FS_Subset, RanksAreBounded
  <2>4. /\ rank \in 0 .. Cardinality(Time)
        /\ Cardinality(Newer(before, erased)) \in 0 .. Cardinality(Time)
    BY <1>4, <2>2, RanksAreBounded
  <2>5. erased \in Time /\ erased <= erased /\ now <= now
    BY <1>4, ColumnGCAssumption
  <2>6. EraseVerdict(rule, erased, Cardinality(Newer(before, erased)), now)
    BY <1>4, <2>1, <2>3, <2>4, <2>5, EraseVerdictIsMonotone
  <2> QED
    BY <1>4, <2>6, GarbageIsVerdict
<1>7. Garbage(rule, cells, start) = {}
  <2>1. ASSUME NEW kept \in cells
        PROVE  ~EraseVerdict(rule, kept, Cardinality(Newer(cells, kept)), start)
    <3>1. Newer(cells, kept) = Newer(before, kept)
      <4>1. kept \in Int /\ \A ts \in before : ts \in Int
        BY <1>4, ColumnGCAssumption
      <4>2. \A ts \in before : kept < ts => ts \in cells
        BY <1>2, <4>1
      <4> QED
        BY <1>4, <4>2 DEF Newer
    <3> QED
      BY <1>3, <1>4, <3>1 DEF Scanning
  <2>2. cells \in SUBSET Time
    BY <1>4
  <2>3. Garbage(rule, cells, start) =
          {ts \in cells : EraseVerdict(rule, ts, Cardinality(Newer(cells, ts)), start)}
    BY <1>4, <2>2, GarbageIsVerdict
  <2> QED
    BY <2>1, <2>3
<1> QED
  BY <1>1, <1>2, <1>3, <1>5, <1>6, <1>7
  DEF IInv, NewestSurvive, CollectsWhatTheRuleSays, NoGarbageLeft

LEMMA SetCellInv ==
    ASSUME IInv, NEW ts \in Time, SetCell(ts)
    PROVE  IInv'
BY FS_EmptySet DEF IInv, TypeOK, SetCell, NewestSurvive, CollectsWhatTheRuleSays, NoGarbageLeft

(* The clock goes on between two turns of the scan. *)
LEMMA TickInv ==
    ASSUME IInv, Tick
    PROVE  IInv'
<1>1. TypeOK'
  BY ColumnGCAssumption DEF IInv, TypeOK, Tick
<1>2. NewestSurvive'
  BY DEF IInv, Tick, NewestSurvive
<1>3. ASSUME pc' = "scanning" PROVE Scanning'
  <2>1. Scanning /\ pc = "scanning" /\ TypeOK
    BY <1>3 DEF IInv, Tick
  <2>2. rank \in 0 .. Cardinality(Time)
    BY <2>1, RanksAreBounded DEF TypeOK
  <2>3. ASSUME NEW erased \in Erased
        PROVE  EraseVerdict(rule, erased, rank, now')
    <3>1. EraseVerdict(rule, erased, rank, now)
      BY <2>1 DEF Scanning
    <3>2. erased \in Time /\ rule \in Rule /\ now \in 0 .. MaxNow /\ now' \in 0 .. MaxNow
          /\ now <= now'
      BY <1>1, <2>1 DEF Erased, TypeOK, Tick
    <3>3. erased <= erased /\ rank <= rank
      BY <2>2, <3>2, ColumnGCAssumption
    <3> QED
      BY <2>2, <3>1, <3>2, <3>3, EraseVerdictIsMonotone
  <2>4. cells' = cells /\ todo' = todo /\ before' = before /\ rule' = rule /\ rank' = rank
        /\ start' = start
    BY DEF Tick
  <2>5. \A kept \in Kept :
          ~EraseVerdict(rule, kept, Cardinality(Newer(before, kept)), start)
    BY <2>1 DEF Scanning
  <2> QED
    BY <2>1, <2>3, <2>4, <2>5 DEF Scanning, Kept, Erased
<1>4. pc' # "scanning" => todo' = {}
  BY DEF IInv, Tick
<1>5. CollectsWhatTheRuleSays'
  <2> SUFFICES ASSUME pc = "done"
               PROVE  /\ Garbage(rule, before, start) \subseteq before \ cells
                      /\ before \ cells \subseteq Garbage(rule, before, now')
    BY DEF Tick, CollectsWhatTheRuleSays
  <2>1. CollectsWhatTheRuleSays /\ TypeOK
    BY DEF IInv
  <2>2. before \in SUBSET Time /\ rule \in Rule
        /\ now \in 0 .. MaxNow /\ now' \in 0 .. MaxNow /\ now <= now'
    BY <1>1, <2>1 DEF TypeOK, Tick
  <2>3. ASSUME NEW erased \in before \ cells
        PROVE  erased \in Garbage(rule, before, now')
    <3>1. erased \in before /\ EraseVerdict(rule, erased, Cardinality(Newer(before, erased)), now)
      BY <2>1, <2>2, GarbageIsVerdict DEF CollectsWhatTheRuleSays
    <3>2. Cardinality(Newer(before, erased)) \in 0 .. Cardinality(Time)
      BY <2>2, RanksAreBounded DEF Newer
    <3>3. erased \in Time /\ erased <= erased
          /\ Cardinality(Newer(before, erased)) <= Cardinality(Newer(before, erased))
      BY <2>2, <3>2, ColumnGCAssumption
    <3>4. EraseVerdict(rule, erased, Cardinality(Newer(before, erased)), now')
      BY <2>2, <3>1, <3>2, <3>3, EraseVerdictIsMonotone
    <3> QED
      BY <2>2, <3>1, <3>4, GarbageIsVerdict
  <2> QED
    BY <2>1, <2>3 DEF CollectsWhatTheRuleSays
<1>6. NoGarbageLeft'
  BY DEF IInv, Tick, NoGarbageLeft
<1> QED
  BY <1>1, <1>2, <1>3, <1>4, <1>5, <1>6 DEF IInv

-----------------------------------------------------------------------------
LEMMA IInvInductive == IInv /\ [Next]_vars => IInv'
<1> SUFFICES ASSUME IInv, [Next]_vars PROVE IInv'
  OBVIOUS
<1>1. ASSUME NEW r \in Rule, ApplyGCRule(r) PROVE IInv'
  BY <1>1, ApplyGCRuleInv
<1>2. ASSUME NEW r \in Rule, ApplyGCRuleVerdict(r) PROVE IInv'
  BY <1>2, ApplyGCRuleVerdictInv
<1>3. CASE ScanCell
  BY <1>3, ScanCellInv
<1>4. CASE EndScan
  BY <1>4, EndScanInv
<1>5. ASSUME NEW ts \in Time, SetCell(ts) PROVE IInv'
  BY <1>5, SetCellInv
<1>6. CASE Tick
  BY <1>6, TickInv
<1>7. CASE UNCHANGED vars
  BY <1>7 DEF vars, IInv, TypeOK, Scanning, Kept, Erased, NewestSurvive, CollectsWhatTheRuleSays,
              NoGarbageLeft
<1> QED
  BY <1>1, <1>2, <1>3, <1>4, <1>5, <1>6, <1>7 DEF Next

LEMMA Invariant == Spec => []IInv
BY InitIInv, IInvInductive, PTL DEF Spec

(* The state has its types in every reachable state, and version_rank is   *)
(* the number of the cells that the scan has kept.                         *)
THEOREM TypeCorrect == Spec => []TypeOK
<1>1. IInv => TypeOK
  BY DEF IInv
<1> QED
  BY <1>1, Invariant, PTL

(***************************************************************************)
(* RunGC erases the oldest cells and nothing else, whatever the rule and   *)
(* however far the clock goes on while it scans the column.                *)
(***************************************************************************)
THEOREM OldestGoFirst == Spec => []NewestSurvive
<1>1. IInv => NewestSurvive
  BY DEF IInv
<1> QED
  BY <1>1, Invariant, PTL

(***************************************************************************)
(* RunGC erases every cell that the rule calls garbage when it begins, and *)
(* only cells that it calls garbage when it ends: the count of the cells   *)
(* kept, which the scan asks for a verdict with, does for the rank among   *)
(* all cells of the column.                                                *)
(***************************************************************************)
THEOREM RuleIsFollowed == Spec => []CollectsWhatTheRuleSays
<1>1. IInv => CollectsWhatTheRuleSays
  BY DEF IInv
<1> QED
  BY <1>1, Invariant, PTL

(* No run of RunGC leaves a cell to a second run at the same time.         *)
THEOREM OneRunIsEnough == Spec => []NoGarbageLeft
<1>1. IInv => NoGarbageLeft
  BY DEF IInv
<1> QED
  BY <1>1, Invariant, PTL

=============================================================================

---------------------------- MODULE RangeScanProofs ----------------------------
(***************************************************************************)
(* Proofs about RangeScan, for any number of strings, any of which may     *)
(* follow each other directly, any number of requests and every map: the   *)
(* ranges of a set stay disjoint and cover what was asked, and the view    *)
(* shows exactly the entries of the map that are in the set.               *)
(***************************************************************************)
EXTENDS RangeScan, WellFoundedInduction, TLAPS

(* The first and the last point that a range may have: with them, the      *)
(* comparisons of open and closed bounds are comparisons of numbers.       *)
StartRank(r) == 2 * r.start.at + (IF r.start.open THEN 1 ELSE 0)

EndRank(r) == 2 * r.end.at - (IF r.end.open THEN 1 ELSE 0)

(* l is before r and Sum has no reason to merge them, or its open bounds   *)
(* cross.                                                                  *)
Apart(l, r) ==
    /\ \A p \in Denotes(l), q \in Denotes(r) : p < q
    /\ StringBetween(l, r) \/ r.start.at < l.end.at

(* What range_set.h calls a sorted, disjoint set.                          *)
Disjoint(rs) ==
    /\ \A r \in rs : Denotes(r) # {}
    /\ \A l, r \in rs : l = r \/ Apart(l, r) \/ Apart(r, l)

-----------------------------------------------------------------------------
(* Every bound is a number, and Denotes is an interval of points.          *)
LEMMA RankType ==
    ASSUME NEW r \in StringRange
    PROVE  /\ StartRank(r) \in 0 .. 2 * MaxKey + 1
           /\ EndRank(r) \in -1 .. 2 * MaxKey + 2
           /\ r.start.at \in Keys /\ r.start.open \in BOOLEAN
           /\ r.end.at \in 0 .. Infinity /\ r.end.open \in BOOLEAN
           /\ r.end.open => r.end.at \in Keys
<1>1. /\ r.start.at \in Keys /\ r.start.open \in BOOLEAN
      /\ r.end.at \in 0 .. Infinity /\ r.end.open \in BOOLEAN
      /\ r.end.open => r.end.at \in Keys
  BY RangeScanAssumption DEF StringRange, Keys, Infinity
<1> QED
  BY <1>1, RangeScanAssumption DEF StartRank, EndRank, Keys, Infinity

LEMMA PointType ==
    ASSUME NEW p \in Points
    PROVE  p \in Int /\ 0 <= p /\ p <= 2 * MaxKey + 1
BY RangeScanAssumption DEF Points, Keys

LEMMA DenotesInterval ==
    ASSUME NEW r \in StringRange, NEW p
    PROVE  p \in Denotes(r) <=> p \in Points /\ StartRank(r) <= p /\ p <= EndRank(r)
<1>1. ASSUME p \in Points
      PROVE  /\ (IF r.start.open THEN p > 2 * r.start.at ELSE p >= 2 * r.start.at)
                    <=> StartRank(r) <= p
             /\ (IF r.end.open THEN p < 2 * r.end.at ELSE p <= 2 * r.end.at)
                    <=> p <= EndRank(r)
  BY <1>1, RankType, PointType, RangeScanAssumption DEF StartRank, EndRank, Keys, Infinity
<1> QED
  BY <1>1 DEF Denotes

LEMMA LessByRank ==
    ASSUME NEW l \in StringRange, NEW r \in StringRange
    PROVE  /\ StringStartLess(l, r) <=> StartRank(l) < StartRank(r)
           /\ StringEndLess(l, r) <=> EndRank(l) < EndRank(r)
<1>1. /\ l.start.at \in Int /\ r.start.at \in Int /\ l.end.at \in Int /\ r.end.at \in Int
      /\ l.start.open \in BOOLEAN /\ r.start.open \in BOOLEAN
      /\ l.end.open \in BOOLEAN /\ r.end.open \in BOOLEAN
  BY RankType, RangeScanAssumption DEF Keys, Infinity
<1>2. StringStartLess(l, r) <=> StartRank(l) < StartRank(r)
  BY <1>1 DEF StringStartLess, StartRank
<1>3. StringEndLess(l, r) <=> EndRank(l) < EndRank(r)
  BY <1>1 DEF StringEndLess, EndRank
<1> QED
  BY <1>2, <1>3

LEMMA StartsEqual ==
    ASSUME NEW l \in StringRange, NEW r \in StringRange, StartRank(l) = StartRank(r)
    PROVE  l.start = r.start
<1>1. l.start.at = r.start.at /\ l.start.open = r.start.open
  BY RankType, RangeScanAssumption DEF StartRank, Keys
<1>2. l.start \in [at : Keys, open : BOOLEAN] /\ r.start \in [at : Keys, open : BOOLEAN]
  BY DEF StringRange
<1> QED
  BY <1>1, <1>2

(* No two numbered strings differ by less than a point can tell: a range   *)
(* holds a point exactly when IsEmpty is false of it.                      *)
LEMMA EmptyMeansNoPoint ==
    ASSUME NEW r \in StringRange
    PROVE  IsEmpty(r.start, r.end) <=> Denotes(r) = {}
<1> DEFINE s == r.start.at
           e == r.end.at
<1>1. /\ s \in Int /\ 0 <= s /\ s <= MaxKey
      /\ e \in Int /\ 0 <= e /\ e <= MaxKey + 1
      /\ r.start.open \in BOOLEAN /\ r.end.open \in BOOLEAN
      /\ r.end.open => e <= MaxKey
      /\ MaxKey \in Int
  BY RankType, RangeScanAssumption DEF Keys, Infinity
<1>2. StartRank(r) = (IF r.start.open THEN 2 * s + 1 ELSE 2 * s)
      /\ EndRank(r) = (IF r.end.open THEN 2 * e - 1 ELSE 2 * e)
  BY <1>1 DEF StartRank, EndRank
<1>3. \A k \in Int : 0 <= k /\ k <= MaxKey =>
          2 * k \in Points /\ (k \notin Consecutive => 2 * k + 1 \in Points)
  BY <1>1 DEF Points, Keys
<1>4. \A p \in Points : \E k \in Int : 0 <= k /\ k <= MaxKey /\
          (p = 2 * k \/ (p = 2 * k + 1 /\ k \notin Consecutive))
  BY <1>1 DEF Points, Keys
<1>5. \A k \in Consecutive : k \in Int /\ 0 <= k /\ k < MaxKey
  BY <1>1, RangeScanAssumption
<1>6. IsEmpty(r.start, r.end) <=>
        \/ s > e
        \/ s = e /\ (r.start.open \/ r.end.open)
        \/ s < e /\ r.start.open /\ r.end.open /\ e = s + 1 /\ s \in Consecutive
  BY <1>1, <1>5 DEF IsEmpty, ConsecutiveRowKeys, Infinity
<1> HIDE DEF s, e
<1>7. ASSUME IsEmpty(r.start, r.end), NEW p \in Denotes(r) PROVE FALSE
  <2>1. p \in Points /\ StartRank(r) <= p /\ p <= EndRank(r)
    BY <1>7, DenotesInterval
  <2>2. PICK k \in Int : 0 <= k /\ k <= MaxKey /\
          (p = 2 * k \/ (p = 2 * k + 1 /\ k \notin Consecutive))
    BY <1>4, <2>1
  <2>3. CASE s >= e
    BY <1>1, <1>2, <1>6, <1>7, <2>1, <2>2, <2>3
  <2>4. CASE s < e
    <3>1. r.start.open /\ r.end.open /\ e = s + 1 /\ s \in Consecutive
      BY <1>1, <1>6, <1>7, <2>4
    <3>2. p = 2 * s + 1
      BY <1>1, <1>2, <2>1, <2>2, <3>1
    <3> QED
      BY <1>1, <2>2, <3>1, <3>2
  <2> QED
    BY <1>1, <2>3, <2>4
<1>8. ASSUME ~IsEmpty(r.start, r.end) PROVE Denotes(r) # {}
  <2>1. CASE ~r.start.open
    <3>1. 2 * s \in Points /\ StartRank(r) <= 2 * s /\ 2 * s <= EndRank(r)
      BY <1>1, <1>2, <1>3, <1>6, <1>8, <2>1
    <3> QED
      BY <3>1, DenotesInterval
  <2>2. CASE r.start.open /\ s \notin Consecutive
    <3>1. 2 * s + 1 \in Points /\ StartRank(r) <= 2 * s + 1 /\ 2 * s + 1 <= EndRank(r)
      BY <1>1, <1>2, <1>3, <1>6, <1>8, <2>2
    <3> QED
      BY <3>1, DenotesInterval
  <2>3. CASE r.start.open /\ s \in Consecutive
    <3>1. s < MaxKey
      BY <1>5, <2>3
    <3>2. s < e /\ (r.end.open => e # s + 1)
      BY <1>1, <1>6, <1>8, <2>3
    <3>3. StartRank(r) <= 2 * (s + 1) /\ 2 * (s + 1) <= EndRank(r)
      BY <1>1, <1>2, <3>2
    <3>4. s + 1 \in Int /\ 0 <= s + 1 /\ s + 1 <= MaxKey
      BY <1>1, <3>1
    <3>5. 2 * (s + 1) \in Points
      BY <1>3, <3>4
    <3> QED
      BY <3>3, <3>5, DenotesInterval
  <2> QED
    BY <1>1, <2>1, <2>2, <2>3
<1> QED
  BY <1>7, <1>8

(* HasOverlap says whether two ranges have a point in common.              *)
LEMMA OverlapMeansCommonPoint ==
    ASSUME NEW l \in StringRange, NEW r \in StringRange
    PROVE  StringHasOverlap(l, r) <=> Denotes(l) \cap Denotes(r) # {}
<1> DEFINE common == [start |-> IF StringStartLess(l, r) THEN r.start ELSE l.start,
                      end |-> IF StringEndLess(l, r) THEN l.end ELSE r.end]
<1>1. common \in StringRange
  BY DEF StringRange
<1>2. StartRank(common) = (IF StringStartLess(l, r) THEN StartRank(r) ELSE StartRank(l))
      /\ EndRank(common) = (IF StringEndLess(l, r) THEN EndRank(l) ELSE EndRank(r))
  BY DEF StartRank, EndRank
<1>3. StringHasOverlap(l, r) <=> ~IsEmpty(common.start, common.end)
  BY DEF StringHasOverlap
<1> HIDE DEF common
<1>4. ASSUME NEW p PROVE p \in Denotes(common) <=> p \in Denotes(l) /\ p \in Denotes(r)
  BY <1>1, <1>2, DenotesInterval, LessByRank, RankType, PointType, RangeScanAssumption
<1> QED
  BY <1>1, <1>3, <1>4, EmptyMeansNoPoint

-----------------------------------------------------------------------------
(* Two ranges neither of which is empty, in order: one of them has an end  *)
(* before the other's, and nothing of the first is after the second.       *)
LEMMA NoOverlapMeansBefore ==
    ASSUME NEW l \in StringRange, NEW r \in StringRange,
           Denotes(l) # {}, Denotes(r) # {},
           StartRank(l) <= StartRank(r), ~StringHasOverlap(l, r)
    PROVE  /\ \A p \in Denotes(l), q \in Denotes(r) : p < q
           /\ \A p \in Points : StartRank(r) <= p => EndRank(l) < p
           /\ StartRank(l) < StartRank(r)
<1>1. PICK a, b : a \in Denotes(l) /\ b \in Denotes(r)
  OBVIOUS
<1>2. /\ a \in Points /\ StartRank(l) <= a /\ a <= EndRank(l)
      /\ b \in Points /\ StartRank(r) <= b /\ b <= EndRank(r)
  BY <1>1, DenotesInterval
<1>3. \A p \in Points : ~(p \in Denotes(l) /\ p \in Denotes(r))
  BY OverlapMeansCommonPoint
<1>4. /\ StartRank(l) \in Int /\ EndRank(l) \in Int /\ StartRank(r) \in Int
      /\ EndRank(r) \in Int /\ \A p \in Points : p \in Int
  BY RankType, PointType
<1>5. \A p \in Points : ~(/\ StartRank(l) <= p /\ p <= EndRank(l)
                          /\ StartRank(r) <= p /\ p <= EndRank(r))
  BY <1>3, DenotesInterval
<1>6. EndRank(l) < b
  <2> SUFFICES ASSUME b <= EndRank(l) PROVE FALSE
    BY <1>2, <1>4
  <2>1. StartRank(l) <= b
    BY <1>2, <1>4
  <2> QED
    BY <1>2, <1>5, <2>1
<1>7. ASSUME NEW p \in Points, StartRank(r) <= p PROVE EndRank(l) < p
  <2> SUFFICES ASSUME p <= EndRank(l) PROVE FALSE
    BY <1>4
  <2>1. StartRank(l) <= p /\ p <= EndRank(r)
    BY <1>2, <1>4, <1>6, <1>7
  <2> QED
    BY <1>5, <1>7, <2>1
<1>8. ASSUME NEW p \in Denotes(l), NEW q \in Denotes(r) PROVE p < q
  <2>1. p \in Points /\ p <= EndRank(l) /\ q \in Points /\ StartRank(r) <= q
    BY DenotesInterval
  <2>2. EndRank(l) < q
    BY <1>7, <2>1
  <2> QED
    BY <1>4, <2>1, <2>2
<1>9. StartRank(l) < StartRank(r)
  <2> SUFFICES ASSUME StartRank(r) <= a PROVE FALSE
    BY <1>2, <1>4
  <2>1. EndRank(l) < a
    BY <1>2, <1>7
  <2> QED
    BY <1>2, <1>4, <2>1
<1> QED
  BY <1>7, <1>8, <1>9

(* DisjointAndSortedRangesAdjacent, asked as its assertions say, misses no *)
(* two ranges with nothing between them but those whose open bounds cross. *)
LEMMA NotMergedMeansApart ==
    ASSUME NEW l \in StringRange, NEW r \in StringRange,
           Denotes(l) # {}, Denotes(r) # {},
           StartRank(l) <= StartRank(r), ~StringHasOverlap(l, r), ~StringAdjacent(l, r)
    PROVE  Apart(l, r)
<1> DEFINE s == r.start.at
           e == l.end.at
<1>1. \A p \in Denotes(l), q \in Denotes(r) : p < q
  BY NoOverlapMeansBefore
<1>2. \A p \in Points : StartRank(r) <= p => EndRank(l) < p
  BY NoOverlapMeansBefore
<1>3. SUFFICES ASSUME s >= e PROVE StringBetween(l, r)
  <2>1. s \in Int /\ e \in Int
    BY RankType, RangeScanAssumption DEF Keys, Infinity
  <2> QED
    BY <1>1, <1>3, <2>1 DEF Apart
<1>4. /\ s \in Int /\ 0 <= s /\ s <= MaxKey
      /\ e \in Int /\ 0 <= e /\ e <= MaxKey
      /\ r.start.open \in BOOLEAN /\ l.end.open \in BOOLEAN
      /\ MaxKey \in Int
  BY <1>3, RankType, RangeScanAssumption DEF Keys, Infinity
<1>5. StartRank(r) = (IF r.start.open THEN 2 * s + 1 ELSE 2 * s)
      /\ EndRank(l) = (IF l.end.open THEN 2 * e - 1 ELSE 2 * e)
  BY <1>4 DEF StartRank, EndRank
<1>6. \A k \in Int : 0 <= k /\ k <= MaxKey =>
          2 * k \in Points /\ (k \notin Consecutive => 2 * k + 1 \in Points)
  BY <1>4 DEF Points, Keys
<1>7. ~(l.end.open # r.start.open /\ e = s)
      /\ ~(~l.end.open /\ ~r.start.open /\ s = e + 1 /\ e \in Consecutive)
  BY <1>4 DEF StringAdjacent, ConsecutiveRowKeys, Infinity
<1> HIDE DEF s, e
<1>8. ASSUME NEW gap \in Points, EndRank(l) < gap, gap < StartRank(r)
      PROVE  StringBetween(l, r)
  <2>1. \A p \in Denotes(l) : p < gap
    BY <1>8, DenotesInterval, PointType, RankType
  <2>2. \A q \in Denotes(r) : gap < q
    BY <1>8, DenotesInterval, PointType, RankType
  <2> QED
    BY <2>1, <2>2 DEF StringBetween
<1>9. CASE l.end.open
  <2>1. 2 * e \in Points
    BY <1>4, <1>6
  <2>2. ~(e = s /\ ~r.start.open)
    BY <1>7, <1>9
  <2>3. EndRank(l) < 2 * e /\ 2 * e < StartRank(r)
    BY <1>3, <1>4, <1>5, <1>9, <2>2
  <2> QED
    BY <1>8, <2>1, <2>3
<1>10. CASE ~l.end.open
  <2>1. s # e
    <3>1. ASSUME s = e PROVE FALSE
      <4>1. ~r.start.open /\ StartRank(r) = 2 * e /\ EndRank(l) = 2 * e
        BY <1>4, <1>5, <1>7, <1>10, <3>1
      <4>2. 2 * e \in Points
        BY <1>4, <1>6
      <4> QED
        BY <1>2, <1>4, <4>1, <4>2
    <3> QED
      BY <3>1
  <2>2. CASE e \notin Consecutive
    <3>1. 2 * e + 1 \in Points
      BY <1>4, <1>6, <2>2
    <3>2. EndRank(l) < 2 * e + 1 /\ 2 * e + 1 < StartRank(r)
      BY <1>3, <1>4, <1>5, <1>10, <2>1
    <3> QED
      BY <1>8, <3>1, <3>2
  <2>3. CASE e \in Consecutive
    <3>1. e + 1 \in Int /\ 0 <= e + 1 /\ e + 1 <= MaxKey
      BY <1>4, <2>3, RangeScanAssumption
    <3>2. 2 * (e + 1) \in Points
      BY <1>6, <3>1
    <3>3. r.start.open \/ s # e + 1
      BY <1>7, <1>10, <2>3
    <3>4. EndRank(l) < 2 * (e + 1) /\ 2 * (e + 1) < StartRank(r)
      BY <1>3, <1>4, <1>5, <1>10, <2>1, <3>3
    <3> QED
      BY <1>8, <3>2, <3>4
  <2> QED
    BY <2>2, <2>3
<1> QED
  BY <1>9, <1>10

-----------------------------------------------------------------------------
(* A range is before another one when its points are.                      *)
LEMMA ApartMeansLess ==
    ASSUME NEW l \in StringRange, NEW r \in StringRange,
           Denotes(l) # {}, Denotes(r) # {}, Apart(l, r)
    PROVE  StartRank(l) < StartRank(r)
<1>1. ~StringHasOverlap(l, r)
  BY OverlapMeansCommonPoint, PointType DEF Apart, Denotes
<1>2. PICK a, b : a \in Denotes(l) /\ b \in Denotes(r) /\ a < b
  BY DEF Apart
<1>3. /\ a \in Points /\ StartRank(l) <= a /\ a <= EndRank(l)
      /\ b \in Points /\ StartRank(r) <= b /\ b <= EndRank(r)
  BY <1>2, DenotesInterval
<1>4. /\ StartRank(l) \in Int /\ EndRank(l) \in Int /\ StartRank(r) \in Int
      /\ EndRank(r) \in Int /\ a \in Int /\ b \in Int
  BY <1>3, RankType, PointType
<1> SUFFICES ASSUME StartRank(r) <= StartRank(l) PROVE FALSE
  BY <1>4
<1>5. StartRank(r) <= a /\ a <= EndRank(r)
  BY <1>2, <1>3, <1>4
<1>6. a \in Denotes(r)
  BY <1>3, <1>5, DenotesInterval
<1> QED
  BY <1>2, <1>6, OverlapMeansCommonPoint, <1>1

LEMMA ApartTransitive ==
    ASSUME NEW l \in StringRange, NEW m \in StringRange, NEW r \in StringRange,
           Denotes(m) # {}, Apart(l, m), Apart(m, r)
    PROVE  Apart(l, r)
<1>1. PICK g \in Denotes(m) : TRUE
  OBVIOUS
<1>2. g \in Points
  BY DEF Denotes
<1>3. \A p \in Denotes(l) : p < g
  BY DEF Apart
<1>4. \A q \in Denotes(r) : g < q
  BY DEF Apart
<1>5. ASSUME NEW p \in Denotes(l), NEW q \in Denotes(r) PROVE p < q
  <2>1. p \in Int /\ q \in Int /\ g \in Int
    BY <1>2, PointType DEF Denotes
  <2> QED
    BY <1>3, <1>4, <2>1
<1>6. StringBetween(l, r)
  BY <1>2, <1>3, <1>4 DEF StringBetween
<1> QED
  BY <1>5, <1>6 DEF Apart

(* A range that is only extended to the right stays apart from those       *)
(* before it.                                                              *)
LEMMA ApartFromExtended ==
    ASSUME NEW l \in StringRange, NEW r \in StringRange, NEW longer \in StringRange,
           Denotes(r) # {}, Apart(l, r),
           longer.start = r.start, EndRank(r) <= EndRank(longer)
    PROVE  Apart(l, longer)
<1>1. StartRank(longer) = StartRank(r)
  BY DEF StartRank
<1>2. PICK b \in Denotes(r) : TRUE
  OBVIOUS
<1>3. b \in Points /\ b \in Int /\ StartRank(r) <= b /\ b <= EndRank(r)
      /\ EndRank(r) \in Int
  BY DenotesInterval, PointType, RankType
<1>4. ASSUME NEW q \in Denotes(longer), q \notin Denotes(r)
      PROVE  q \in Int /\ b < q
  <2>1. q \in Points /\ q \in Int /\ StartRank(r) <= q
    BY <1>1, DenotesInterval, PointType
  <2>2. ~(q <= EndRank(r))
    BY <1>4, <2>1, DenotesInterval
  <2> QED
    BY <1>3, <2>1, <2>2
<1>5. ASSUME NEW p \in Denotes(l), NEW q \in Denotes(longer) PROVE p < q
  <2>1. p < b /\ p \in Int /\ (q \in Denotes(r) => p < q)
    BY PointType DEF Apart, Denotes
  <2> QED
    BY <1>3, <1>4, <2>1
<1>6. ASSUME StringBetween(l, r) PROVE StringBetween(l, longer)
  <2>1. PICK g \in Points : /\ \A p \in Denotes(l) : p < g
                            /\ \A q \in Denotes(r) : g < q
    BY <1>6 DEF StringBetween
  <2>2. g \in Int /\ g < b
    BY <2>1, PointType
  <2>3. ASSUME NEW q \in Denotes(longer) PROVE g < q
    BY <1>3, <1>4, <2>1, <2>2
  <2> QED
    BY <2>1, <2>3 DEF StringBetween
<1> QED
  BY <1>5, <1>6 DEF Apart

-----------------------------------------------------------------------------
(* A set of natural numbers that is not empty has a least element.         *)
LEMMA LeastNatural ==
    ASSUME NEW S \in SUBSET Nat, S # {}
    PROVE  \E least \in S : \A n \in S : least <= n
<1>1. \E least \in S : \A n \in S : ~(<<n, least>> \in OpToRel(<, Nat))
  BY NatLessThanWellFounded, WFMin
<1>2. \A m, n \in Nat : <<m, n>> \in OpToRel(<, Nat) <=> m < n
  BY DEF OpToRel
<1>3. PICK least \in S : \A n \in S : ~(<<n, least>> \in OpToRel(<, Nat))
  BY <1>1
<1>4. \A n \in S : ~(n < least)
  BY <1>2, <1>3
<1>5. \A n \in S : least <= n
  BY <1>4
<1> QED
  BY <1>5

(* Of some ranges, one starts first, one starts last and one ends last.    *)
LEMMA ExtremeRanges ==
    ASSUME NEW S \in SUBSET StringRange, S # {}
    PROVE  /\ \E r \in S : \A x \in S : ~StringStartLess(x, r)
           /\ \E r \in S : \A x \in S : ~StringStartLess(r, x)
           /\ \E r \in S : \A x \in S : ~StringEndLess(r, x)
<1> DEFINE Starts == {StartRank(r) : r \in S}
           FromTop == {2 * MaxKey + 2 - StartRank(r) : r \in S}
           Ends == {2 * MaxKey + 2 - EndRank(r) : r \in S}
<1>1. \A r \in S : /\ StartRank(r) \in Int /\ 0 <= StartRank(r)
                   /\ StartRank(r) <= 2 * MaxKey + 1
                   /\ EndRank(r) \in Int /\ EndRank(r) <= 2 * MaxKey + 2
  BY RankType, RangeScanAssumption
<1>2. Starts \in SUBSET Nat /\ FromTop \in SUBSET Nat /\ Ends \in SUBSET Nat
  BY <1>1, RangeScanAssumption
<1>3. Starts # {} /\ FromTop # {} /\ Ends # {}
  OBVIOUS
<1>4. PICK r \in S : \A n \in Starts : StartRank(r) <= n
  BY <1>2, <1>3, LeastNatural
<1>5. PICK t \in S : \A n \in FromTop : 2 * MaxKey + 2 - StartRank(t) <= n
  BY <1>2, <1>3, LeastNatural
<1>6. PICK e \in S : \A n \in Ends : 2 * MaxKey + 2 - EndRank(e) <= n
  BY <1>2, <1>3, LeastNatural
<1>7. \A x \in S : ~StringStartLess(x, r)
  <2>1. \A x \in S : StartRank(r) <= StartRank(x)
    BY <1>4
  <2> QED
    BY <1>1, <2>1, LessByRank
<1>8. \A x \in S : ~StringStartLess(t, x)
  <2>1. \A x \in S : 2 * MaxKey + 2 - StartRank(t) <= 2 * MaxKey + 2 - StartRank(x)
    BY <1>5
  <2>2. \A x \in S : StartRank(x) <= StartRank(t)
    BY <1>1, <2>1, RangeScanAssumption
  <2> QED
    BY <1>1, <2>2, LessByRank
<1>9. \A x \in S : ~StringEndLess(e, x)
  <2>1. \A x \in S : 2 * MaxKey + 2 - EndRank(e) <= 2 * MaxKey + 2 - EndRank(x)
    BY <1>6
  <2>2. \A x \in S : EndRank(x) <= EndRank(e)
    BY <1>1, <2>1, RangeScanAssumption
  <2> QED
    BY <1>1, <2>2, LessByRank
<1> QED
  BY <1>7, <1>8, <1>9

(* The merged range starts where the first of the ranges does and ends     *)
(* where the last one does.                                                *)
LEMMA MergedSpans ==
    ASSUME NEW new \in StringRange, NEW E \in SUBSET StringRange
    PROVE  /\ Merged(new, E) \in StringRange
           /\ \E a \in {new} \cup E :
                 /\ Merged(new, E).start = a.start
                 /\ StartRank(Merged(new, E)) = StartRank(a)
           /\ \E b \in {new} \cup E : EndRank(Merged(new, E)) = EndRank(b)
           /\ \A x \in {new} \cup E : /\ StartRank(Merged(new, E)) <= StartRank(x)
                                    /\ EndRank(x) <= EndRank(Merged(new, E))
<1> DEFINE all == {new} \cup E
           first == CHOOSE r \in all : \A x \in all : ~StringStartLess(x, r)
           last == CHOOSE r \in all : \A x \in all : ~StringEndLess(r, x)
<1>1. all \in SUBSET StringRange /\ all # {}
  OBVIOUS
<1>2. first \in all /\ \A x \in all : ~StringStartLess(x, first)
  BY <1>1, ExtremeRanges
<1>3. last \in all /\ \A x \in all : ~StringEndLess(last, x)
  BY <1>1, ExtremeRanges
<1>4. Merged(new, E) = [start |-> first.start, end |-> last.end]
  BY DEF Merged
<1> HIDE DEF first, last
<1>5. Merged(new, E) \in StringRange
  BY <1>1, <1>2, <1>3, <1>4 DEF StringRange
<1>6. /\ Merged(new, E).start = first.start
      /\ StartRank(Merged(new, E)) = StartRank(first)
      /\ EndRank(Merged(new, E)) = EndRank(last)
  BY <1>4 DEF StartRank, EndRank
<1>7. \A x \in all : StartRank(first) <= StartRank(x) /\ EndRank(x) <= EndRank(last)
  BY <1>1, <1>2, <1>3, LessByRank, RankType
<1> QED
  BY <1>2, <1>3, <1>5, <1>6, <1>7

(* Nothing that is merged is lost, and what the merged range adds lies     *)
(* between points that were there.                                         *)
LEMMA MergedCovers ==
    ASSUME NEW new \in StringRange, NEW E \in SUBSET StringRange,
           \A x \in {new} \cup E : Denotes(x) # {}
    PROVE  /\ \A x \in {new} \cup E : Denotes(x) \subseteq Denotes(Merged(new, E))
           /\ Denotes(Merged(new, E)) # {}
           /\ \A p \in Denotes(Merged(new, E)) :
                 \E x, y \in {new} \cup E :
                    /\ \E lo \in Denotes(x) : lo <= p
                    /\ \E hi \in Denotes(y) : p <= hi
<1> DEFINE m == Merged(new, E)
           all == {new} \cup E
<1>1. /\ m \in StringRange /\ all \in SUBSET StringRange
      /\ \E a \in all : StartRank(m) = StartRank(a)
      /\ \E b \in all : EndRank(m) = EndRank(b)
      /\ \A x \in all : StartRank(m) <= StartRank(x) /\ EndRank(x) <= EndRank(m)
  BY MergedSpans
<1> HIDE DEF m, all
<1>2. ASSUME NEW x \in all, NEW p \in Denotes(x) PROVE p \in Denotes(m)
  <2>1. p \in Points /\ StartRank(x) <= p /\ p <= EndRank(x)
    BY <1>1, DenotesInterval
  <2>2. /\ p \in Int /\ StartRank(x) \in Int /\ EndRank(x) \in Int
        /\ StartRank(m) \in Int /\ EndRank(m) \in Int
    BY <1>1, <2>1, PointType, RankType
  <2>3. StartRank(m) <= p /\ p <= EndRank(m)
    BY <1>1, <2>1, <2>2
  <2> QED
    BY <1>1, <2>1, <2>3, DenotesInterval
<1>3. ASSUME NEW p \in Denotes(m)
      PROVE  \E x, y \in all : /\ \E lo \in Denotes(x) : lo <= p
                              /\ \E hi \in Denotes(y) : p <= hi
  <2>1. p \in Points /\ StartRank(m) <= p /\ p <= EndRank(m) /\ p \in Int
    BY <1>1, DenotesInterval, PointType
  <2>2. PICK a \in all : StartRank(m) = StartRank(a)
    BY <1>1
  <2>3. PICK b \in all : EndRank(m) = EndRank(b)
    BY <1>1
  <2>4. PICK q \in Denotes(a) : TRUE
    BY DEF all
  <2>5. PICK t \in Denotes(b) : TRUE
    BY DEF all
  <2>6. q \in Int /\ q <= EndRank(a) /\ EndRank(a) \in Int
    BY <1>1, DenotesInterval, RankType, PointType
  <2>7. t \in Int /\ StartRank(b) <= t /\ StartRank(b) \in Int
    BY <1>1, DenotesInterval, RankType, PointType
  <2>8. \E lo \in Denotes(a) : lo <= p
    <3>1. CASE q <= p
      BY <3>1
    <3>2. CASE ~(q <= p)
      <4>1. StartRank(a) <= p /\ p <= EndRank(a)
        BY <2>1, <2>2, <2>6, <3>2
      <4> QED
        BY <1>1, <2>1, <4>1, DenotesInterval
    <3> QED
      BY <3>1, <3>2
  <2>9. \E hi \in Denotes(b) : p <= hi
    <3>1. CASE p <= t
      BY <3>1
    <3>2. CASE ~(p <= t)
      <4>1. StartRank(b) <= p /\ p <= EndRank(b)
        BY <2>1, <2>3, <2>7, <3>2
      <4> QED
        BY <1>1, <2>1, <4>1, DenotesInterval
    <3> QED
      BY <3>1, <3>2
  <2> QED
    BY <2>8, <2>9
<1>4. new \in all /\ Denotes(new) # {}
  BY DEF all
<1> QED
  BY <1>2, <1>3, <1>4 DEF m, all

-----------------------------------------------------------------------------
(* The ranges of a disjoint set are ordered by their starts.               *)
LEMMA NoTies ==
    ASSUME NEW rs \in SUBSET StringRange, Disjoint(rs), NEW l \in rs, NEW r \in rs
    PROVE  /\ l = r \/ StringStartLess(l, r) \/ StringStartLess(r, l)
           /\ StringStartLess(l, r) => Apart(l, r)
<1>1. l = r \/ Apart(l, r) \/ Apart(r, l)
  BY DEF Disjoint
<1>2. Denotes(l) # {} /\ Denotes(r) # {} /\ l \in StringRange /\ r \in StringRange
  BY DEF Disjoint
<1>3. Apart(l, r) => StringStartLess(l, r)
  BY <1>2, ApartMeansLess, LessByRank
<1>4. Apart(r, l) => StringStartLess(r, l)
  BY <1>2, ApartMeansLess, LessByRank
<1>5. ~(StringStartLess(l, r) /\ (StringStartLess(r, l) \/ l = r))
  BY <1>2, LessByRank, RankType
<1> QED
  BY <1>1, <1>3, <1>4, <1>5

(* The ranges that a Sum leaves alone before the inserted one.             *)
LEMMA LeftBefore ==
    ASSUME NEW rs \in SUBSET StringRange, Disjoint(rs),
           NEW new \in StringRange, Denotes(new) # {},
           NEW x \in rs, x \notin Candidates(rs, new)
    PROVE  \A E \in SUBSET StringRange :
              (\A c \in Candidates(rs, new) : ~StringStartLess(new, c) => c \in E)
              /\ E \subseteq Candidates(rs, new)
                => Apart(x, Merged(new, E))
<1> DEFINE others == rs \ StartAfter(rs, new)
<1>1. x \in others
  BY DEF Candidates, StartAfter
<1>2. others \in SUBSET StringRange /\ \A o \in others : StartRank(o) <= StartRank(new)
  BY LessByRank, RankType DEF StartAfter
<1>3. PICK p \in others : \A o \in others : ~StringStartLess(p, o)
  BY <1>1, <1>2, ExtremeRanges
<1>4. p \in Previous(rs, new)
  BY <1>3 DEF Previous
<1>5. p \in rs /\ p \in StringRange /\ Denotes(p) # {}
  BY DEF Disjoint
<1>6. x = p \/ Apart(x, p)
  BY <1>1, <1>3, <1>5, NoTies
<1> TAKE E \in SUBSET StringRange
<1> HAVE (\A c \in Candidates(rs, new) : ~StringStartLess(new, c) => c \in E)
         /\ E \subseteq Candidates(rs, new)
<1> DEFINE m == Merged(new, E)
<1>7. /\ m \in StringRange
      /\ \E a \in {new} \cup E : m.start = a.start /\ StartRank(m) = StartRank(a)
      /\ \A y \in {new} \cup E : StartRank(m) <= StartRank(y) /\ EndRank(y) <= EndRank(m)
  BY MergedSpans
<1>8. PICK a \in {new} \cup E : m.start = a.start /\ StartRank(m) = StartRank(a)
  BY <1>7
<1> HIDE DEF m
<1>9. a \in StringRange /\ StartRank(a) <= StartRank(new) /\ EndRank(a) <= EndRank(m)
  BY <1>7, <1>8
<1>10. ASSUME NEW c \in E PROVE c \in StartAfter(rs, new) \/ c \in Previous(rs, new)
  BY DEF Candidates
<1>11. CASE p \in Candidates(rs, new)
  <2>1. p \in E
    BY <1>1, <1>2, <1>3, <1>5, <1>11, LessByRank DEF StartAfter
  <2>2. StartRank(a) <= StartRank(p)
    BY <1>7, <1>8, <2>1
  <2>3. a = new \/ a \in E
    BY <1>8
  <2>4. StartRank(p) <= StartRank(new)
    BY <1>2, <1>3
  <2>5. Apart(x, p)
    BY <1>6, <1>11
  <2> QED
    <3>1. CASE a \in StartAfter(rs, new)
      BY <1>9, <3>1, LessByRank, RankType DEF StartAfter
    <3>2. CASE a \in Previous(rs, new)
      <4>1. a \in others /\ \A o \in others : ~StringStartLess(a, o)
        BY <3>2 DEF Previous
      <4>2. a = p
        BY <1>3, <4>1, NoTies
      <4> QED
        BY <1>5, <1>7, <1>8, <1>9, <2>5, <4>2, ApartFromExtended DEF m
    <3>3. CASE a = new
      <4>1. StartRank(m) <= StartRank(p) /\ EndRank(p) <= EndRank(m)
        BY <1>7, <2>1
      <4>2. StartRank(p) = StartRank(m)
        BY <1>5, <1>7, <1>8, <2>4, <3>3, <4>1, RankType
      <4>3. m.start = p.start
        BY <1>5, <1>7, <4>2, StartsEqual
      <4> QED
        BY <1>5, <1>7, <2>5, <4>1, <4>3, ApartFromExtended DEF m
    <3> QED
      BY <1>10, <2>3, <3>1, <3>2, <3>3
<1>12. CASE p \notin Candidates(rs, new)
  <2>1. ~StringHasOverlap(p, new) /\ ~StringAdjacent(p, new)
    BY <1>4, <1>12 DEF Candidates, PreviousMerges
  <2>2. Apart(p, new)
    BY <1>2, <1>3, <1>5, <2>1, NotMergedMeansApart
  <2>3. Apart(x, new)
    BY <1>5, <1>6, <2>2, ApartTransitive
  <2>4. a = new \/ a \in E
    BY <1>8
  <2>5. \A c \in E : StringStartLess(new, c)
    <3> SUFFICES ASSUME NEW c \in E, c \in Previous(rs, new) PROVE FALSE
      BY <1>10 DEF StartAfter
    <3>1. c \in others /\ \A o \in others : ~StringStartLess(c, o)
      BY DEF Previous
    <3>2. c = p
      BY <1>3, <3>1, NoTies
    <3> QED
      BY <1>12, <3>2
  <2>6. a = new
    BY <1>9, <2>4, <2>5, LessByRank, RankType
  <2> QED
    BY <1>7, <1>8, <1>9, <2>3, <2>6, ApartFromExtended DEF m
<1> QED
  BY <1>11, <1>12 DEF m

(* The loop of a Sum erases the candidates up to the first that does not   *)
(* join what was merged; that one and all after it are apart from it.      *)
LEMMA LeftAfter ==
    ASSUME NEW rs \in SUBSET StringRange, Disjoint(rs),
           NEW new \in StringRange, Denotes(new) # {},
           NEW x \in Candidates(rs, new), x \notin Erased(Candidates(rs, new), new)
    PROVE  Apart(Merged(new, Erased(Candidates(rs, new), new)), x)
<1> DEFINE c == Candidates(rs, new)
           E == Erased(c, new)
           m == Merged(new, E)
           Test(y) == Before(c, y) = {} \/ Continues(Merged(new, Before(c, y)), y)
<1>1. c \subseteq rs /\ E \subseteq c
  BY DEF Candidates, StartAfter, Previous, Erased
<1>2. \A r \in c : r \in E <=> \A y \in Before(c, r) \cup {r} : Test(y)
  BY DEF Erased
<1>3. x \in c \ E /\ c \ E \in SUBSET StringRange
  BY <1>1
<1> HIDE DEF E, c, Test
<1>4. PICK y \in c \ E : \A z \in c \ E : ~StringStartLess(z, y)
  BY <1>3, ExtremeRanges
<1>5. \A z \in Before(c, y) : z \in c /\ z \in E
  BY <1>4 DEF Before
<1>6. \A z \in Before(c, y) : Test(z)
  BY <1>2, <1>5
<1>7. ~Test(y)
  BY <1>2, <1>4, <1>6
<1>8. \A r \in E : r \in Before(c, y)
  <2> SUFFICES ASSUME NEW r \in E PROVE StringStartLess(r, y)
    BY <1>1 DEF Before
  <2>1. r \in c /\ y \notin Before(c, r) /\ y # r
    BY <1>1, <1>2, <1>4, <1>7
  <2>2. ~StringStartLess(y, r)
    BY <1>4, <2>1 DEF Before
  <2> QED
    BY <1>1, <1>4, <2>1, <2>2, NoTies
<1>9. Before(c, y) = E
  BY <1>5, <1>8
<1>10. E # {} /\ ~Continues(m, y)
  BY <1>7, <1>9 DEF Test
<1>11. \A r \in {new} \cup E : r \in StringRange /\ Denotes(r) # {}
  BY <1>1 DEF Disjoint
<1>12. m \in StringRange /\ \A r \in {new} \cup E : StartRank(m) <= StartRank(r)
  BY <1>11, MergedSpans
<1>13. Denotes(m) # {}
  BY <1>11, MergedCovers
<1> HIDE DEF m
<1>14. y \in rs /\ y \in StringRange /\ Denotes(y) # {}
  BY <1>1, <1>4 DEF Disjoint
<1>15. StartRank(m) <= StartRank(y)
  <2>1. PICK r \in E : StringStartLess(r, y)
    BY <1>8, <1>10 DEF Before
  <2> QED
    BY <1>11, <1>12, <1>14, <2>1, LessByRank, RankType
<1>16. ~StringHasOverlap(m, y)
  BY <1>10, <1>12, <1>14, OverlapMeansCommonPoint DEF Continues
<1>17. Apart(m, y)
  BY <1>10, <1>12, <1>13, <1>14, <1>15, <1>16, NotMergedMeansApart DEF Continues
<1>18. x = y \/ Apart(y, x)
  BY <1>1, <1>3, <1>4, <1>14, NoTies
<1>19. x \in StringRange
  BY <1>3
<1>20. Apart(m, x)
  BY <1>12, <1>14, <1>17, <1>18, <1>19, ApartTransitive
<1> QED
  BY <1>20 DEF m, E, c

(***************************************************************************)
(* RangeSetSumImpl keeps the set sorted and disjoint, loses no string and  *)
(* adds none before the first or after the last of those it was given.     *)
(***************************************************************************)
THEOREM SumKeepsTheSet ==
    ASSUME NEW rs \in SUBSET StringRange, Disjoint(rs),
           NEW new \in StringRange, Denotes(new) # {}
    PROVE  /\ RangeSetSumImpl(rs, new) \in SUBSET StringRange
           /\ Disjoint(RangeSetSumImpl(rs, new))
           /\ \A r \in rs \cup {new} :
                 \E s \in RangeSetSumImpl(rs, new) : Denotes(r) \subseteq Denotes(s)
           /\ \A s \in RangeSetSumImpl(rs, new) : \A p \in Denotes(s) :
                 \E x, y \in rs \cup {new} :
                    /\ \E lo \in Denotes(x) : lo <= p
                    /\ \E hi \in Denotes(y) : p <= hi
<1> DEFINE c == Candidates(rs, new)
           E == Erased(c, new)
           m == Merged(new, E)
           sum == RangeSetSumImpl(rs, new)
<1>1. c \subseteq rs /\ E \subseteq c
  BY DEF Candidates, StartAfter, Previous, Erased
<1>2. \A r \in {new} \cup E : r \in StringRange /\ Denotes(r) # {}
  BY <1>1 DEF Disjoint
<1>3. m \in StringRange
  BY <1>2, MergedSpans
<1>4. /\ \A r \in {new} \cup E : Denotes(r) \subseteq Denotes(m)
      /\ Denotes(m) # {}
      /\ \A p \in Denotes(m) :
            \E x, y \in {new} \cup E : /\ \E lo \in Denotes(x) : lo <= p
                                     /\ \E hi \in Denotes(y) : p <= hi
  BY <1>2, MergedCovers
<1>5. ASSUME NEW r \in c, ~StringStartLess(new, r)
      PROVE  r \in E
  <2>1. r \in Previous(rs, new)
    BY <1>5 DEF Candidates, StartAfter
  <2>2. \A z \in c : ~StringStartLess(z, r)
    <3> SUFFICES ASSUME NEW z \in c, StringStartLess(z, r) PROVE FALSE
      OBVIOUS
    <3>1. z \notin StartAfter(rs, new)
      BY <1>1, <1>5, LessByRank, RankType DEF StartAfter
    <3>2. z \in Previous(rs, new)
      BY <3>1 DEF Candidates
    <3> QED
      BY <2>1, <3>2 DEF Previous
  <2>3. Before(c, r) = {}
    BY <2>2 DEF Before
  <2> QED
    BY <1>5, <2>3 DEF Erased
<1>6. ASSUME NEW x \in rs \ E
      PROVE  Apart(x, m) \/ Apart(m, x)
  <2>1. CASE x \in c
    BY <1>6, <2>1, LeftAfter
  <2>2. CASE x \notin c
    <3>1. E \in SUBSET StringRange
      BY <1>1
    <3> QED
      BY <1>1, <1>5, <1>6, <2>2, <3>1, LeftBefore
  <2> QED
    BY <2>1, <2>2
<1>7. sum = (rs \ E) \cup {m}
  <2>1. \A x \in rs \ E : StringStartLess(x, m) \/ StringStartLess(m, x)
    BY <1>3, <1>4, <1>6, ApartMeansLess, LessByRank DEF Disjoint
  <2> QED
    BY <2>1 DEF RangeSetSumImpl, Insert
<1> HIDE DEF sum, m, E, c
<1>8. sum \in SUBSET StringRange
  BY <1>3, <1>7
<1>9. Disjoint(sum)
  BY <1>4, <1>6, <1>7 DEF Disjoint
<1>10. \A r \in rs \cup {new} : \E s \in sum : Denotes(r) \subseteq Denotes(s)
  BY <1>4, <1>7
<1>11. ASSUME NEW s \in sum, NEW p \in Denotes(s)
       PROVE  \E x, y \in rs \cup {new} : /\ \E lo \in Denotes(x) : lo <= p
                                        /\ \E hi \in Denotes(y) : p <= hi
  <2>1. CASE s = m
    BY <1>1, <1>4, <2>1
  <2>2. CASE s \in rs
    <3>1. p <= p
      BY PointType DEF Denotes
    <3> QED
      BY <2>2, <3>1
  <2> QED
    BY <1>7, <2>1, <2>2
<1> QED
  BY <1>8, <1>9, <1>10, <1>11 DEF sum

(* The assertions of DisjointAndSortedRangesAdjacent hold at each call.    *)
LEMMA AdjacencyArguments ==
    ASSUME NEW rs \in SUBSET StringRange, Disjoint(rs),
           NEW new \in StringRange, Denotes(new) # {},
           NEW call \in AdjacencyChecks(rs, new)
    PROVE  ~StringHasOverlap(call[1], call[2]) /\ StringStartLess(call[1], call[2])
<1> DEFINE c == Candidates(rs, new)
           merged(r) == Merged(new, Before(c, r))
<1>1. c \subseteq rs
  BY DEF Candidates, StartAfter, Previous
<1>2. \/ \E p \in Previous(rs, new) : ~StringHasOverlap(p, new) /\ call = <<p, new>>
      \/ \E r \in Tested(c, new) : ~StringHasOverlap(r, merged(r)) /\ call = <<merged(r), r>>
  BY DEF AdjacencyChecks
<1>3. ASSUME NEW p \in Previous(rs, new), ~StringHasOverlap(p, new), call = <<p, new>>
      PROVE  ~StringHasOverlap(call[1], call[2]) /\ StringStartLess(call[1], call[2])
  <2>1. p \in StringRange /\ Denotes(p) # {} /\ StartRank(p) <= StartRank(new)
    BY LessByRank, RankType DEF Previous, StartAfter, Disjoint
  <2>2. StringStartLess(p, new)
    BY <1>3, <2>1, NoOverlapMeansBefore, LessByRank
  <2> QED
    BY <1>3, <2>2
<1>4. ASSUME NEW r \in Tested(c, new), ~StringHasOverlap(r, merged(r)),
             call = <<merged(r), r>>
      PROVE  ~StringHasOverlap(call[1], call[2]) /\ StringStartLess(call[1], call[2])
  <2>1. r \in c /\ Before(c, r) # {}
    BY DEF Tested
  <2>2. Before(c, r) \in SUBSET StringRange /\ r \in StringRange
    BY <1>1, <2>1 DEF Before
  <2>3. /\ merged(r) \in StringRange
        /\ \A x \in Before(c, r) : StartRank(merged(r)) <= StartRank(x)
    BY <2>2, MergedSpans
  <2> HIDE DEF merged
  <2>4. PICK x \in Before(c, r) : TRUE
    BY <2>1
  <2>5. StartRank(x) < StartRank(r) /\ StartRank(merged(r)) <= StartRank(x)
    BY <2>2, <2>3, LessByRank DEF Before
  <2>6. StringStartLess(merged(r), r)
    BY <2>2, <2>3, <2>5, LessByRank, RankType
  <2>7. ~StringHasOverlap(merged(r), r)
    BY <1>4, <2>2, <2>3, OverlapMeansCommonPoint
  <2> QED
    BY <1>4, <2>6, <2>7
<1> QED
  BY <1>2, <1>3, <1>4

(* A range that is cut by another denotes what both do.                    *)
LEMMA CutIsIntersection ==
    ASSUME NEW r \in StringRange, NEW by \in StringRange
    PROVE  /\ Cut(r, by) \in StringRange
           /\ Denotes(Cut(r, by)) = Denotes(r) \cap Denotes(by)
<1> DEFINE started == IF StringStartLess(r, by) THEN [r EXCEPT !.start = by.start] ELSE r
<1>1. /\ started \in StringRange
      /\ started.end = r.end
      /\ started.start = (IF StringStartLess(r, by) THEN by.start ELSE r.start)
  BY DEF StringRange
<1>2. /\ EndRank(started) = EndRank(r)
      /\ StartRank(started) = (IF StringStartLess(r, by) THEN StartRank(by) ELSE StartRank(r))
  BY <1>1 DEF StartRank, EndRank
<1>3. Cut(r, by) = IF StringEndLess(by, started) THEN [started EXCEPT !.end = by.end]
                   ELSE started
  BY DEF Cut
<1> HIDE DEF started
<1>4. /\ Cut(r, by) \in StringRange
      /\ Cut(r, by).start = started.start
      /\ Cut(r, by).end = (IF StringEndLess(by, started) THEN by.end ELSE started.end)
  BY <1>1, <1>3 DEF StringRange
<1>5. /\ StartRank(Cut(r, by)) = StartRank(started)
      /\ EndRank(Cut(r, by)) =
            (IF StringEndLess(by, started) THEN EndRank(by) ELSE EndRank(started))
  BY <1>4 DEF StartRank, EndRank
<1>6. ASSUME NEW p PROVE p \in Denotes(Cut(r, by)) <=> p \in Denotes(r) /\ p \in Denotes(by)
  BY <1>1, <1>2, <1>4, <1>5, DenotesInterval, LessByRank, RankType, PointType
<1> QED
  BY <1>4, <1>6

-----------------------------------------------------------------------------
(* While the view walks: every entry of the set that precedes the position *)
(* has been shown, and the ranges before filter_pos_ end before it.        *)
Walking ==
    /\ fpos = NoRange => pos = End
    /\ pos # End => ~IsBelowStart(pos, fpos)
    /\ pos # End => \A r \in ranges : StringStartLess(r, fpos) => IsAboveEnd(pos, r)
    /\ \A i, j \in DOMAIN seen : i < j => seen[i] < seen[j]
    /\ \A i \in DOMAIN seen : 2 * seen[i] \in Covered /\ seen[i] < pos
    /\ \A k \in entries : 2 * k \in Covered /\ k < pos =>
            \E i \in DOMAIN seen : seen[i] = k

NotOpened ==
    /\ entries = {}
    /\ pos = End
    /\ fpos = NoRange
    /\ seen = << >>

(* The part about the set: a read only adds ranges, a stream only cuts its *)
(* single range down.                                                      *)
Building ==
    /\ Disjoint(ranges)
    /\ AskedIsCovered
    /\ pc \in {"keys", "ranges", "built"} => kind = "rows"
    /\ pc = "filters" => kind = "columns"
    /\ kind = "columns" => \A l, r \in ranges : l = r

IInv ==
    /\ TypeOK
    /\ Building
    /\ IF pc \in {"moved", "done"} THEN Walking ELSE NotOpened
    /\ pc = "done" => pos = End

-----------------------------------------------------------------------------
(* What the invariant says of the properties that the run checks.          *)
LEMMA DisjointMeans ==
    TypeOK /\ Disjoint(ranges) => RangesAreDisjoint
<1> SUFFICES ASSUME TypeOK, Disjoint(ranges)
             PROVE  RangesAreDisjoint
  OBVIOUS
<1>1. ranges \in SUBSET StringRange
  BY DEF TypeOK
<1>2. ASSUME NEW l \in ranges, NEW r \in ranges, l # r, ~StringStartLess(r, l)
      PROVE  Apart(l, r)
  BY <1>1, <1>2, NoTies
<1> QED
  BY <1>2 DEF Disjoint, Apart, RangesAreDisjoint

LEMMA RangeOfRequest ==
    ASSUME NEW s \in Keys, NEW e \in Keys, NEW sOpen \in BOOLEAN, NEW eOpen \in BOOLEAN
    PROVE  FromRange(Bound(s, sOpen), Bound(e, eOpen)) \in StringRange
BY RangeScanAssumption DEF FromRange, Bound, MakeRange, StringRange, Keys, Infinity

LEMMA AdjacencyMeans ==
    TypeOK /\ Disjoint(ranges) => AdjacencyIsAskedInOrder
<1> SUFFICES ASSUME TypeOK, Disjoint(ranges),
                    NEW s \in Keys, NEW e \in Keys,
                    NEW sOpen \in BOOLEAN, NEW eOpen \in BOOLEAN,
                    ~IsEmpty(FromRange(Bound(s, sOpen), Bound(e, eOpen)).start,
                             FromRange(Bound(s, sOpen), Bound(e, eOpen)).end),
                    NEW call \in AdjacencyChecks(ranges,
                                    FromRange(Bound(s, sOpen), Bound(e, eOpen)))
             PROVE  ~StringHasOverlap(call[1], call[2]) /\ StringStartLess(call[1], call[2])
  BY DEF AdjacencyIsAskedInOrder
<1> DEFINE new == FromRange(Bound(s, sOpen), Bound(e, eOpen))
<1>1. new \in StringRange
  BY RangeOfRequest
<1>2. Denotes(new) # {}
  BY <1>1, EmptyMeansNoPoint
<1>3. ranges \in SUBSET StringRange
  BY DEF TypeOK
<1> QED
  BY <1>1, <1>2, <1>3, AdjacencyArguments

LEMMA WalkingMeans ==
    IInv => ViewShowsTheSelection
<1> SUFFICES ASSUME IInv, pc \in {"moved", "done"}
             PROVE  ViewShowsTheSelection
  BY DEF ViewShowsTheSelection
<1>1. TypeOK /\ Walking /\ (pc = "done" => pos = End)
  BY DEF IInv
<1> DEFINE selection == {k \in entries : 2 * k \in Covered}
           shown == {seen[i] : i \in DOMAIN seen}
<1>2. /\ seen \in Seq(entries) /\ entries \subseteq Int
      /\ pos \in Int /\ End \in Int /\ \A k \in entries : k < End
  BY <1>1, RangeScanAssumption DEF TypeOK, End, Keys
<1>3. \A i \in DOMAIN seen : seen[i] \in entries
  BY <1>2
<1>4. \A i, j \in DOMAIN seen : i < j => seen[i] < seen[j]
  BY <1>1 DEF Walking
<1>5. shown \subseteq selection
  BY <1>1, <1>3 DEF Walking
<1>6. ASSUME NEW k \in selection, NEW s \in shown, k < s PROVE k \in shown
  <2>1. s < pos /\ s \in Int /\ k \in Int
    BY <1>1, <1>2, <1>3 DEF Walking
  <2>2. k < pos
    BY <1>2, <1>6, <2>1
  <2> QED
    BY <1>1, <2>2 DEF Walking
<1>7. ASSUME pc = "done" PROVE selection \subseteq shown
  BY <1>1, <1>2, <1>7 DEF Walking
<1> QED
  BY <1>4, <1>5, <1>6, <1>7 DEF ViewShowsTheSelection

-----------------------------------------------------------------------------
LEMMA InitIInv == Init => IInv
<1> SUFFICES ASSUME Init PROVE IInv
  OBVIOUS
<1>0. All \in StringRange
  BY RangeScanAssumption DEF All, MakeRange, Bound, StringRange, Keys, Infinity
<1>1. ranges \subseteq StringRange
  BY <1>0 DEF Init
<1>2. TypeOK
  BY <1>1, RangeScanAssumption DEF Init, TypeOK, Kinds
<1>3. \A p \in Points : p \in Denotes(All)
  BY PointType, RangeScanAssumption DEF Denotes, All, MakeRange, Bound, Infinity
<1>4. 0 \in Points
  BY RangeScanAssumption DEF Points, Keys
<1>5. Denotes(All) # {} /\ Denotes(All) = Points
  BY <1>3, <1>4 DEF Denotes
<1>6. CASE kind = "rows"
  <2>1. ranges = {} /\ asked = {} /\ Covered = {}
    BY <1>6 DEF Init, Covered
  <2> QED
    BY <1>2, <1>6, <2>1 DEF Init, IInv, Building, NotOpened, AskedIsCovered, Disjoint
<1>7. CASE kind = "columns"
  <2>1. ranges = {All} /\ asked = Points /\ Covered = Points
    BY <1>5, <1>7 DEF Init, Covered
  <2>2. \A p \in Points : p <= p
    BY PointType
  <2>3. AskedIsCovered
    BY <2>1, <2>2 DEF AskedIsCovered
  <2>4. Disjoint(ranges)
    BY <1>5, <2>1 DEF Disjoint
  <2> QED
    BY <1>2, <1>7, <2>1, <2>3, <2>4 DEF Init, IInv, Building, NotOpened
<1> QED
  BY <1>6, <1>7 DEF Init, Kinds

(* A Sum keeps what was asked covered: the one lemma about the set that    *)
(* the actions need.                                                       *)
LEMMA SumKeepsBuilding ==
    ASSUME TypeOK, Building, kind = "rows",
           NEW new \in StringRange, Denotes(new) # {},
           ranges' = RangeSetSumImpl(ranges, new),
           asked' = asked \cup Denotes(new),
           kind' = kind
    PROVE  /\ ranges' \subseteq StringRange /\ asked' \subseteq Points
           /\ Disjoint(ranges)'
           /\ AskedIsCovered'
<1>1. ranges \in SUBSET StringRange /\ Disjoint(ranges) /\ AskedIsCovered /\ asked \subseteq Points
  BY DEF TypeOK, Building
<1>2. /\ ranges' \in SUBSET StringRange
      /\ Disjoint(ranges')
      /\ \A r \in ranges \cup {new} :
            \E s \in ranges' : Denotes(r) \subseteq Denotes(s)
      /\ \A s \in ranges' : \A p \in Denotes(s) :
            \E x, y \in ranges \cup {new} :
               /\ \E lo \in Denotes(x) : lo <= p
               /\ \E hi \in Denotes(y) : p <= hi
  BY <1>1, SumKeepsTheSet
<1>3. asked' \subseteq Points
  BY <1>1 DEF Denotes
<1>4. Covered \cup Denotes(new) \subseteq Covered'
  BY <1>2 DEF Covered
<1>5. asked' \subseteq Covered'
  BY <1>1, <1>4 DEF AskedIsCovered
<1>6. ASSUME NEW x \in ranges \cup {new}, NEW q \in Denotes(x)
      PROVE  \E lo, hi \in asked' : lo <= q /\ q <= hi
  <2>1. CASE q \in Denotes(new)
    <3>1. q <= q /\ q \in asked'
      BY <2>1, PointType DEF Denotes
    <3> QED
      BY <3>1
  <2>2. CASE x \in ranges
    <3>1. q \in Covered
      BY <2>2 DEF Covered
    <3> QED
      BY <1>1, <3>1 DEF AskedIsCovered
  <2> QED
    BY <2>1, <2>2
<1>7. ASSUME NEW p \in Covered'
      PROVE  \E lo, hi \in asked' : lo <= p /\ p <= hi
  <2>1. PICK s \in ranges' : p \in Denotes(s)
    BY DEF Covered
  <2>2. PICK x \in ranges \cup {new}, y \in ranges \cup {new} :
           (\E lo \in Denotes(x) : lo <= p) /\ (\E hi \in Denotes(y) : p <= hi)
    BY <1>2, <2>1
  <2>3. PICK q \in Denotes(x) : q <= p
    BY <2>2
  <2>4. PICK t \in Denotes(y) : p <= t
    BY <2>2
  <2>5. PICK lo \in asked' : lo <= q
    BY <1>6
  <2>6. PICK hi \in asked' : t <= hi
    BY <1>6
  <2>7. lo \in Int /\ q \in Int /\ p \in Int /\ t \in Int /\ hi \in Int
    BY <1>3, <2>1, PointType DEF Denotes
  <2>8. lo <= p /\ p <= hi
    BY <2>3, <2>4, <2>5, <2>6, <2>7
  <2> QED
    BY <2>8
<1>8. AskedIsCovered'
  BY <1>5, <1>7 DEF AskedIsCovered
<1> QED
  BY <1>2, <1>3, <1>8 DEF Disjoint, Apart, StringBetween

LEMMA SumRowKeyInv ==
    ASSUME IInv, SumRowKey
    PROVE  IInv'
<1> PICK k \in Keys :
        LET key == MakeRange(Bound(k, FALSE), Bound(k, FALSE)) IN
        /\ pc = "keys"
        /\ TakesRequest
        /\ \/ k = 0 /\ Refuse
           \/ /\ k # 0
              /\ ranges' = RangeSetSumImpl(ranges, key)
              /\ asked' = asked \cup Denotes(key)
              /\ pc' = pc
        /\ UNCHANGED <<kind, entries, pos, fpos, seen>>
  BY DEF SumRowKey
<1> DEFINE key == MakeRange(Bound(k, FALSE), Bound(k, FALSE))
<1>1. TypeOK /\ Building /\ NotOpened /\ kind = "rows" /\ pc = "keys"
  BY DEF IInv, Building
<1>2. requests' \in 0 .. MaxRequests /\ UNCHANGED <<kind, entries, pos, fpos, seen>>
  BY <1>1, RangeScanAssumption DEF TakesRequest, TypeOK
<1>3. NotOpened'
  BY <1>1, <1>2 DEF NotOpened
<1>4. CASE Refuse
  <2>1. pc' = "refused" /\ UNCHANGED <<ranges, asked>>
    BY <1>4 DEF Refuse
  <2>2. TypeOK'
    BY <1>1, <1>2, <2>1 DEF TypeOK
  <2>3. Building'
    BY <1>1, <1>2, <2>1 DEF Building, AskedIsCovered, Covered
  <2> QED
    BY <1>3, <2>1, <2>2, <2>3 DEF IInv
<1>5. CASE /\ ranges' = RangeSetSumImpl(ranges, key)
           /\ asked' = asked \cup Denotes(key)
           /\ pc' = pc
  <2>1. key \in StringRange
    BY RangeScanAssumption DEF MakeRange, Bound, StringRange, Keys, Infinity
  <2>2. ~IsEmpty(key.start, key.end)
    BY RangeScanAssumption DEF MakeRange, Bound, IsEmpty, Keys, Infinity
  <2>3. Denotes(key) # {}
    BY <2>1, <2>2, EmptyMeansNoPoint
  <2> HIDE DEF key
  <2>4. /\ ranges' \subseteq StringRange /\ asked' \subseteq Points
        /\ Disjoint(ranges)' /\ AskedIsCovered'
    BY <1>1, <1>2, <1>5, <2>1, <2>3, SumKeepsBuilding
  <2>5. TypeOK'
    BY <1>1, <1>2, <1>3, <1>5, <2>4 DEF TypeOK, NotOpened
  <2>6. Building'
    BY <1>1, <1>2, <1>5, <2>4 DEF Building
  <2> QED
    BY <1>1, <1>3, <1>5, <2>5, <2>6 DEF IInv
<1> QED
  BY <1>4, <1>5

LEMMA SumRowRangeInv ==
    ASSUME IInv, SumRowRange
    PROVE  IInv'
<1> PICK s \in Keys, e \in Keys, sOpen \in BOOLEAN, eOpen \in BOOLEAN :
        LET r == FromRange(Bound(s, sOpen), Bound(e, eOpen)) IN
        /\ pc \in {"keys", "ranges"}
        /\ TakesRequest
        /\ \/ Reversed(r) /\ Refuse
           \/ /\ ~Reversed(r)
              /\ IsEmpty(r.start, r.end)
              /\ pc' = "ranges"
              /\ UNCHANGED <<ranges, asked>>
           \/ /\ ~Reversed(r)
              /\ ~IsEmpty(r.start, r.end)
              /\ ranges' = RangeSetSumImpl(ranges, r)
              /\ asked' = asked \cup Denotes(r)
              /\ pc' = "ranges"
        /\ UNCHANGED <<kind, entries, pos, fpos, seen>>
  BY DEF SumRowRange
<1> DEFINE r == FromRange(Bound(s, sOpen), Bound(e, eOpen))
<1>1. TypeOK /\ Building /\ NotOpened /\ kind = "rows"
  BY DEF IInv, Building
<1>2. requests' \in 0 .. MaxRequests /\ UNCHANGED <<kind, entries, pos, fpos, seen>>
  BY <1>1, RangeScanAssumption DEF TakesRequest, TypeOK
<1>3. NotOpened'
  BY <1>1, <1>2 DEF NotOpened
<1>4. CASE pc' \in {"ranges", "refused"} /\ UNCHANGED <<ranges, asked>>
  <2>1. TypeOK'
    BY <1>1, <1>2, <1>4 DEF TypeOK
  <2>2. Building'
    BY <1>1, <1>2, <1>4 DEF Building, AskedIsCovered, Covered
  <2> QED
    BY <1>3, <1>4, <2>1, <2>2 DEF IInv
<1>5. CASE /\ ~IsEmpty(r.start, r.end)
           /\ ranges' = RangeSetSumImpl(ranges, r)
           /\ asked' = asked \cup Denotes(r)
           /\ pc' = "ranges"
  <2>1. r \in StringRange
    BY RangeOfRequest
  <2>2. Denotes(r) # {}
    BY <1>5, <2>1, EmptyMeansNoPoint
  <2> HIDE DEF r
  <2>3. /\ ranges' \subseteq StringRange /\ asked' \subseteq Points
        /\ Disjoint(ranges)' /\ AskedIsCovered'
    BY <1>1, <1>2, <1>5, <2>1, <2>2, SumKeepsBuilding
  <2>4. TypeOK'
    BY <1>1, <1>2, <1>3, <1>5, <2>3 DEF TypeOK, NotOpened
  <2>5. Building'
    BY <1>1, <1>2, <1>5, <2>3 DEF Building
  <2> QED
    BY <1>3, <1>5, <2>4, <2>5 DEF IInv
<1> QED
  BY <1>4, <1>5 DEF Refuse

LEMMA ReadEveryRowInv ==
    ASSUME IInv, ReadEveryRow
    PROVE  IInv'
<1>1. /\ TypeOK /\ Building /\ NotOpened /\ kind = "rows" /\ pc' = "built"
      /\ ranges' = RangeSetSumImpl({}, All) /\ asked' = Points
      /\ UNCHANGED <<kind, requests, entries, pos, fpos, seen>>
  BY DEF IInv, Building, ReadEveryRow
<1>2. All \in StringRange
  BY RangeScanAssumption DEF All, MakeRange, Bound, StringRange, Keys, Infinity
<1>3. \A p \in Points : p \in Denotes(All)
  BY PointType, RangeScanAssumption DEF Denotes, All, MakeRange, Bound, Infinity
<1>4. Denotes(All) # {}
  BY <1>3, RangeScanAssumption DEF Points, Keys
<1>5. Disjoint({})
  BY DEF Disjoint
<1>6. /\ ranges' \in SUBSET StringRange
      /\ Disjoint(ranges')
      /\ \E s \in ranges' : Denotes(All) \subseteq Denotes(s)
  BY <1>1, <1>2, <1>4, <1>5, SumKeepsTheSet
<1>7. Points \subseteq Covered'
  BY <1>3, <1>6 DEF Covered
<1>8. Covered' \subseteq Points
  BY DEF Covered, Denotes
<1>9. \A p \in Points : p <= p
  BY PointType
<1>10. AskedIsCovered'
  BY <1>1, <1>7, <1>8, <1>9 DEF AskedIsCovered
<1>11. TypeOK'
  BY <1>1, <1>6 DEF TypeOK, NotOpened
<1>12. Disjoint(ranges)'
  BY <1>6 DEF Disjoint, Apart, StringBetween
<1>13. Building'
  BY <1>1, <1>10, <1>12 DEF Building
<1>14. NotOpened'
  BY <1>1 DEF NotOpened
<1> QED
  BY <1>1, <1>11, <1>13, <1>14 DEF IInv

LEMMA IntersectColumnRangeInv ==
    ASSUME IInv, IntersectColumnRange
    PROVE  IInv'
<1> PICK s \in Keys, e \in Keys, sOpen \in BOOLEAN, eOpen \in BOOLEAN :
        LET r == FromRange(Bound(s, sOpen), Bound(e, eOpen)) IN
        /\ pc = "filters"
        /\ TakesRequest
        /\ \/ Reversed(r) /\ Refuse
           \/ /\ ~Reversed(r)
              /\ ranges' = RangeSetIntersectImpl(ranges, r)
              /\ asked' = asked \cap Denotes(r)
              /\ pc' = pc
        /\ UNCHANGED <<kind, entries, pos, fpos, seen>>
  BY DEF IntersectColumnRange
<1> DEFINE r == FromRange(Bound(s, sOpen), Bound(e, eOpen))
<1>1. TypeOK /\ Building /\ NotOpened /\ kind = "columns" /\ pc = "filters"
  BY DEF IInv, Building
<1>2. requests' \in 0 .. MaxRequests /\ UNCHANGED <<kind, entries, pos, fpos, seen>>
  BY <1>1, RangeScanAssumption DEF TakesRequest, TypeOK
<1>3. NotOpened'
  BY <1>1, <1>2 DEF NotOpened
<1>4. CASE Refuse
  <2>1. pc' = "refused" /\ UNCHANGED <<ranges, asked>>
    BY <1>4 DEF Refuse
  <2>2. TypeOK'
    BY <1>1, <1>2, <2>1 DEF TypeOK
  <2>3. Building'
    BY <1>1, <1>2, <2>1 DEF Building, AskedIsCovered, Covered
  <2> QED
    BY <1>3, <2>1, <2>2, <2>3 DEF IInv
<1>5. CASE /\ ranges' = RangeSetIntersectImpl(ranges, r)
           /\ asked' = asked \cap Denotes(r)
           /\ pc' = pc
  <2>1. r \in StringRange
    BY RangeOfRequest
  <2> HIDE DEF r
  <2>2. ranges \subseteq StringRange /\ \A x, y \in ranges : x = y
    BY <1>1 DEF TypeOK, Building
  <2>3. ranges' = {Cut(x, r) : x \in {y \in ranges : StringHasOverlap(y, r)}}
    BY <1>5 DEF RangeSetIntersectImpl
  <2>4. ASSUME NEW x \in ranges, StringHasOverlap(x, r)
        PROVE  /\ Cut(x, r) \in StringRange /\ Denotes(Cut(x, r)) # {}
               /\ Denotes(Cut(x, r)) = Denotes(x) \cap Denotes(r)
    BY <2>1, <2>2, <2>4, CutIsIntersection, OverlapMeansCommonPoint
  <2>5. ranges' \subseteq StringRange
    BY <2>3, <2>4
  <2>6. \A x, y \in ranges' : x = y
    BY <2>2, <2>3
  <2>7. \A x \in ranges' : Denotes(x) # {}
    BY <2>3, <2>4
  <2>8. ASSUME NEW p PROVE p \in Covered' <=> p \in Covered /\ p \in Denotes(r)
    <3>1. ASSUME NEW x \in ranges, p \in Denotes(x), p \in Denotes(r)
          PROVE  StringHasOverlap(x, r)
      BY <2>1, <2>2, <3>1, OverlapMeansCommonPoint
    <3>2. p \in Covered' <=> \E x \in ranges : StringHasOverlap(x, r) /\ p \in Denotes(Cut(x, r))
      BY <2>3 DEF Covered
    <3> QED
      BY <2>4, <3>1, <3>2 DEF Covered
  <2>9. asked' = Covered' /\ asked' \subseteq Points
    BY <1>1, <1>5, <2>8 DEF Building, AskedIsCovered, TypeOK
  <2>10. \A p \in asked' : p <= p
    BY <2>9, PointType
  <2>11. AskedIsCovered'
    BY <2>9, <2>10 DEF AskedIsCovered
  <2>12. Disjoint(ranges)'
    BY <2>6, <2>7 DEF Disjoint, Denotes
  <2>13. TypeOK'
    BY <1>1, <1>2, <1>3, <1>5, <2>5, <2>9 DEF TypeOK, NotOpened
  <2>14. Building'
    BY <1>1, <1>2, <1>5, <2>6, <2>11, <2>12 DEF Building
  <2> QED
    BY <1>1, <1>3, <1>5, <2>13, <2>14 DEF IInv
<1> QED
  BY <1>4, <1>5

-----------------------------------------------------------------------------
(* IsBelowStart and IsAboveEnd, by rank.                                   *)
LEMMA OutsideByRank ==
    ASSUME NEW k \in Keys, NEW r \in StringRange
    PROVE  /\ IsBelowStart(k, r) <=> 2 * k < StartRank(r)
           /\ IsAboveEnd(k, r) <=> EndRank(r) < 2 * k
<1>1. k \in Int /\ r.start.at \in Int /\ r.end.at \in Int
      /\ r.start.open \in BOOLEAN /\ r.end.open \in BOOLEAN
  BY RankType, RangeScanAssumption DEF Keys, Infinity
<1>2. IsBelowStart(k, r) <=> 2 * k < StartRank(r)
  BY <1>1 DEF IsBelowStart, StartRank
<1>3. IsAboveEnd(k, r) <=> EndRank(r) < 2 * k
  BY <1>1 DEF IsAboveEnd, EndRank
<1> QED
  BY <1>2, <1>3

(* A string is in a range when it is not outside of it.                    *)
LEMMA InsideByRank ==
    ASSUME NEW k \in Keys, NEW r \in StringRange
    PROVE  2 * k \in Denotes(r) <=> ~IsBelowStart(k, r) /\ ~IsAboveEnd(k, r)
<1>1. 2 * k \in Points
  BY DEF Points
<1>2. /\ 2 * k \in Int /\ StartRank(r) \in Int /\ EndRank(r) \in Int
  BY <1>1, PointType, RankType
<1> QED
  BY <1>1, <1>2, DenotesInterval, OutsideByRank

LEMMA FirstIsLeast ==
    ASSUME NEW S \in SUBSET Keys
    PROVE  /\ First(S) \in S \cup {End}
           /\ First(S) = End <=> S = {}
           /\ \A k \in S : First(S) <= k
<1>1. Keys \subseteq Nat /\ End \in Int /\ \A k \in Keys : k # End
  BY RangeScanAssumption DEF Keys, End
<1>2. CASE S = {}
  BY <1>2 DEF First
<1>3. CASE S # {}
  <2>1. \E least \in S : \A n \in S : least <= n
    BY <1>1, <1>3, LeastNatural
  <2> QED
    BY <1>1, <1>3, <2>1 DEF First
<1> QED
  BY <1>2, <1>3

LEMMA NoRangeIsNone ==
    NoRange \notin StringRange
BY RangeScanAssumption DEF NoRange, MakeRange, Bound, StringRange, Keys, Infinity

LEMMA FirstRangeIsLeast ==
    ASSUME NEW S \in SUBSET StringRange
    PROVE  /\ FirstRange(S) \in S \cup {NoRange}
           /\ FirstRange(S) = NoRange <=> S = {}
           /\ \A r \in S : ~StringStartLess(r, FirstRange(S))
<1>1. CASE S = {}
  BY <1>1 DEF FirstRange
<1>2. CASE S # {}
  <2>1. \E r \in S : \A x \in S : ~StringStartLess(x, r)
    BY <1>2, ExtremeRanges
  <2> QED
    BY <1>2, <2>1, NoRangeIsNone DEF FirstRange
<1> QED
  BY <1>1, <1>2

(* AdvanceToNextRange goes forward, to the first entry that the range does *)
(* not start after.                                                        *)
LEMMA AdvanceSkipsNothing ==
    ASSUME NEW map \in SUBSET Keys, NEW p \in map \cup {End},
           NEW f \in StringRange \cup {NoRange}
    PROVE  LET next == AdvanceToNextRange(map, p, f)
           IN  /\ next \in map \cup {End}
               /\ f = NoRange => next = End
               /\ next # End => f # NoRange /\ p # End /\ p <= next /\ ~IsBelowStart(next, f)
               /\ f # NoRange => \A k \in map : p <= k /\ ~IsBelowStart(k, f) => next <= k
<1> DEFINE next == AdvanceToNextRange(map, p, f)
           inside == {k \in map : ~IsBelowStart(k, f)}
<1>1. map \subseteq Int /\ p \in Int /\ End \in Int /\ \A k \in map : k \in Keys /\ k < End
  BY RangeScanAssumption DEF Keys, End
<1>2. CASE f = NoRange
  BY <1>2 DEF AdvanceToNextRange
<1>3. CASE f # NoRange /\ (p = End \/ ~IsBelowStart(p, f))
  <2>1. next = p
    BY <1>3 DEF AdvanceToNextRange
  <2> QED
    BY <1>1, <1>3, <2>1
<1>4. CASE f # NoRange /\ p # End /\ IsBelowStart(p, f)
  <2>1. next = First(inside)
    BY <1>4 DEF AdvanceToNextRange
  <2>2. inside \in SUBSET Keys
    OBVIOUS
  <2>3. /\ next \in inside \cup {End}
        /\ \A k \in inside : next <= k
    BY <2>1, <2>2, FirstIsLeast
  <2>4. f \in StringRange /\ p \in Keys
    BY <1>1, <1>4
  <2>5. 2 * p < StartRank(f) /\ StartRank(f) \in Int
    BY <1>4, <2>4, OutsideByRank, RankType
  <2>6. ASSUME next # End PROVE p <= next
    <3>1. next \in inside /\ next \in Keys /\ next \in Int
      BY <1>1, <2>3, <2>6
    <3>2. ~(2 * next < StartRank(f))
      BY <2>4, <3>1, OutsideByRank
    <3> QED
      BY <1>1, <2>5, <3>1, <3>2
  <2> QED
    BY <1>4, <2>3, <2>6
<1> QED
  BY <1>2, <1>3, <1>4

-----------------------------------------------------------------------------
(* The set does not change any more once a view is open.                   *)
LEMMA SetUnchanged ==
    ASSUME IInv, UNCHANGED <<kind, ranges, asked>>, pc' \in {"moved", "done"}
    PROVE  Building'
BY DEF IInv, Building, Disjoint, AskedIsCovered, Covered

LEMMA OpenViewInv ==
    ASSUME IInv, OpenView
    PROVE  IInv'
<1> PICK map \in SUBSET (IF kind = "rows" THEN Keys \ {0} ELSE Keys) :
        entries' = map /\ pos' = AdvanceToNextRange(map, First(map), fpos')
  BY DEF OpenView
<1>1. /\ TypeOK /\ NotOpened /\ Building
      /\ pc' = "moved" /\ fpos' = FirstRange(ranges)
      /\ UNCHANGED <<kind, requests, ranges, asked, seen>>
  BY DEF IInv, OpenView
<1>2. map \in SUBSET Keys /\ First(map) \in map \cup {End} /\ \A k \in map : First(map) <= k
  BY FirstIsLeast
<1>3. /\ ranges \in SUBSET StringRange
      /\ fpos' \in ranges \cup {NoRange}
      /\ fpos' = NoRange <=> ranges = {}
      /\ \A r \in ranges : ~StringStartLess(r, fpos')
  BY <1>1, FirstRangeIsLeast DEF TypeOK
<1>4. /\ pos' \in map \cup {End}
      /\ fpos' = NoRange => pos' = End
      /\ pos' # End => ~IsBelowStart(pos', fpos')
      /\ fpos' # NoRange =>
            \A k \in map : First(map) <= k /\ ~IsBelowStart(k, fpos') => pos' <= k
  BY <1>2, <1>3, AdvanceSkipsNothing
<1>5. TypeOK'
  BY <1>1, <1>2, <1>3, <1>4 DEF TypeOK, NotOpened
<1>6. ASSUME NEW k \in map, 2 * k \in Covered, k < pos'
      PROVE  FALSE
  <2>1. PICK r \in ranges : 2 * k \in Denotes(r)
    BY <1>6 DEF Covered
  <2>2. fpos' \in StringRange /\ fpos' # NoRange /\ k \in Keys
    BY <1>2, <1>3, <2>1
  <2>3. StartRank(fpos') <= StartRank(r)
    BY <1>3, <2>2, LessByRank, RankType
  <2>4. ~(2 * k < StartRank(r))
    BY <1>3, <2>1, <2>2, InsideByRank, OutsideByRank
  <2>5. ~IsBelowStart(k, fpos')
    BY <1>3, <2>2, <2>3, <2>4, OutsideByRank, RankType, RangeScanAssumption DEF Keys
  <2>6. pos' <= k
    BY <1>2, <1>4, <2>2, <2>5
  <2>7. pos' \in Int /\ k \in Int
    BY <1>2, <1>4, RangeScanAssumption DEF Keys, End
  <2> QED
    BY <1>6, <2>6, <2>7
<1>7. seen' = << >> /\ DOMAIN seen' = {} /\ Covered' = Covered
  BY <1>1 DEF NotOpened, Covered
<1>8. Walking'
  BY <1>1, <1>3, <1>4, <1>6, <1>7 DEF Walking
<1>9. Building'
  BY <1>1, SetUnchanged
<1> QED
  BY <1>1, <1>5, <1>8, <1>9 DEF IInv

LEMMA NextRangeInv ==
    ASSUME IInv, NextRange
    PROVE  IInv'
<1> DEFINE later == {r \in ranges : StringStartLess(fpos, r)}
<1>1. /\ TypeOK /\ Walking /\ Building
      /\ pos # End /\ fpos # NoRange /\ IsAboveEnd(pos, fpos)
      /\ fpos' = FirstRange(later)
      /\ pos' = AdvanceToNextRange(entries, pos, fpos')
      /\ pc' = "moved"
      /\ UNCHANGED <<kind, pc, requests, ranges, asked, entries, seen>>
  BY DEF IInv, NextRange, PastRange
<1>2. /\ ranges \in SUBSET StringRange /\ entries \in SUBSET Keys
      /\ fpos \in ranges /\ fpos \in StringRange
      /\ pos \in entries /\ pos \in Keys /\ pos \in Int
      /\ Disjoint(ranges)
  BY <1>1, RangeScanAssumption DEF TypeOK, Building, Keys
<1>3. /\ fpos' \in later \cup {NoRange}
      /\ fpos' = NoRange <=> later = {}
      /\ \A r \in later : ~StringStartLess(r, fpos')
  BY <1>1, <1>2, FirstRangeIsLeast
<1>4. fpos' \in ranges \cup {NoRange} /\ fpos' \in StringRange \cup {NoRange}
  BY <1>2, <1>3
<1>5. /\ pos' \in entries \cup {End}
      /\ fpos' = NoRange => pos' = End
      /\ pos' # End => fpos' # NoRange /\ pos <= pos' /\ ~IsBelowStart(pos', fpos')
      /\ fpos' # NoRange => \A k \in entries : pos <= k /\ ~IsBelowStart(k, fpos') => pos' <= k
  BY <1>1, <1>2, <1>4, AdvanceSkipsNothing
<1>6. TypeOK'
  BY <1>1, <1>4, <1>5 DEF TypeOK
(* The ranges up to filter_pos_ are all left behind.                       *)
<1>7. ASSUME NEW r \in ranges, r \notin later PROVE EndRank(r) < 2 * pos
  <2>1. r = fpos \/ StringStartLess(r, fpos)
    BY <1>2, <1>7, NoTies
  <2>2. IsAboveEnd(pos, r)
    BY <1>1, <2>1 DEF Walking
  <2> QED
    BY <1>2, <2>2, OutsideByRank
<1>8. ASSUME pos' # End, NEW r \in ranges, StringStartLess(r, fpos')
      PROVE  IsAboveEnd(pos', r)
  <2>1. EndRank(r) < 2 * pos /\ EndRank(r) \in Int
    BY <1>2, <1>3, <1>7, <1>8, RankType
  <2>2. pos' \in Keys /\ pos' \in Int /\ pos <= pos'
    BY <1>2, <1>5, <1>8, RangeScanAssumption DEF Keys
  <2>3. EndRank(r) < 2 * pos'
    BY <1>2, <2>1, <2>2
  <2> QED
    BY <1>2, <2>2, <2>3, OutsideByRank
<1>9. pos' \in Int /\ pos <= pos'
  BY <1>2, <1>5, RangeScanAssumption DEF Keys, End
<1>10. ASSUME NEW k \in entries, 2 * k \in Covered, k < pos'
       PROVE  k < pos
  <2>1. PICK r \in ranges : 2 * k \in Denotes(r)
    BY <1>10 DEF Covered
  <2>2. k \in Keys /\ k \in Int /\ r \in StringRange
    BY <1>2, RangeScanAssumption DEF Keys
  <2>3. ~(2 * k < StartRank(r)) /\ ~(EndRank(r) < 2 * k)
    BY <2>1, <2>2, InsideByRank, OutsideByRank
  <2>4. CASE r \notin later
    BY <1>2, <1>7, <2>2, <2>3, <2>4, RankType
  <2>5. CASE r \in later
    <3>1. fpos' \in StringRange /\ fpos' # NoRange
      BY <1>2, <1>3, <2>5
    <3>2. StartRank(fpos') <= StartRank(r)
      BY <1>3, <2>2, <2>5, <3>1, LessByRank, RankType
    <3>3. ~IsBelowStart(k, fpos')
      BY <2>2, <2>3, <3>1, <3>2, OutsideByRank, RankType
    <3>4. ~(pos <= k)
      BY <1>5, <1>9, <1>10, <2>2, <3>1, <3>3
    <3> QED
      BY <1>2, <2>2, <3>4
  <2> QED
    BY <2>4, <2>5
<1>11. Covered' = Covered
  BY <1>1 DEF Covered
<1>12. \A i \in DOMAIN seen : seen[i] \in Int /\ seen[i] < pos'
  <2>1. seen \in Seq(entries) /\ \A k \in entries : k \in Int
    BY <1>1, <1>2, RangeScanAssumption DEF TypeOK, Keys
  <2>2. \A i \in DOMAIN seen : seen[i] \in Int /\ seen[i] < pos
    BY <1>1, <2>1 DEF Walking
  <2> QED
    BY <1>2, <1>9, <2>2
<1>13. Walking'
  BY <1>1, <1>5, <1>8, <1>10, <1>11, <1>12 DEF Walking
<1>14. Building'
  BY <1>1, SetUnchanged
<1> QED
  BY <1>1, <1>6, <1>13, <1>14 DEF IInv

LEMMA ShowEntryInv ==
    ASSUME IInv, ShowEntry
    PROVE  IInv'
<1> DEFINE rest == {k \in entries : k > pos}
<1>1. /\ TypeOK /\ Walking /\ Building
      /\ pos # End /\ ~(fpos # NoRange /\ IsAboveEnd(pos, fpos))
      /\ seen' = Append(seen, pos)
      /\ pos' = First(rest)
      /\ pc' = "moved"
      /\ UNCHANGED <<kind, pc, requests, ranges, asked, entries, fpos>>
  BY DEF IInv, ShowEntry, PastRange
<1>2. /\ ranges \in SUBSET StringRange /\ entries \in SUBSET Keys
      /\ fpos # NoRange /\ fpos \in ranges /\ fpos \in StringRange
      /\ pos \in entries /\ pos \in Keys /\ pos \in Int
  BY <1>1, RangeScanAssumption DEF TypeOK, Walking, Keys
<1>3. pos' \in rest \cup {End} /\ \A k \in rest : pos' <= k
  BY <1>1, <1>2, FirstIsLeast
<1>4. pos' \in Int /\ pos < pos'
  BY <1>2, <1>3, RangeScanAssumption DEF Keys, End
<1>5. seen \in Seq(entries) /\ seen' \in Seq(entries)
  BY <1>1, <1>2 DEF TypeOK
<1>6. TypeOK'
  BY <1>1, <1>3, <1>5 DEF TypeOK
<1>7. 2 * pos \in Covered
  BY <1>1, <1>2, InsideByRank DEF Covered, Walking
<1>8. /\ DOMAIN seen' = DOMAIN seen \cup {Len(seen) + 1}
      /\ Len(seen) \in Nat /\ DOMAIN seen = 1 .. Len(seen)
      /\ \A i \in DOMAIN seen : seen'[i] = seen[i]
      /\ seen'[Len(seen) + 1] = pos
  BY <1>1, <1>5
<1>9. \A i \in DOMAIN seen : /\ seen[i] \in Int /\ seen[i] < pos
                            /\ 2 * seen[i] \in Covered
  <2>1. \A k \in entries : k \in Int
    BY <1>2, RangeScanAssumption DEF Keys
  <2> QED
    BY <1>1, <1>5, <2>1 DEF Walking
<1>10. \A i, j \in DOMAIN seen' : i < j => seen'[i] < seen'[j]
  <2> SUFFICES ASSUME NEW i \in DOMAIN seen', NEW j \in DOMAIN seen', i < j
               PROVE  seen'[i] < seen'[j]
    OBVIOUS
  <2>1. i \in DOMAIN seen
    BY <1>8
  <2>2. CASE j \in DOMAIN seen
    BY <1>1, <1>8, <2>1, <2>2 DEF Walking
  <2>3. CASE j = Len(seen) + 1
    BY <1>8, <1>9, <2>1, <2>3
  <2> QED
    BY <1>8, <2>2, <2>3
<1>11. Covered' = Covered
  BY <1>1 DEF Covered
<1>12. \A i \in DOMAIN seen' : 2 * seen'[i] \in Covered /\ seen'[i] < pos'
  BY <1>2, <1>4, <1>7, <1>8, <1>9
<1>13. ASSUME NEW k \in entries, 2 * k \in Covered, k < pos'
       PROVE  \E i \in DOMAIN seen' : seen'[i] = k
  <2>1. k \in Int /\ (pos < k => pos' <= k)
    BY <1>2, <1>3, RangeScanAssumption DEF Keys
  <2>2. k < pos \/ k = pos
    BY <1>2, <1>4, <1>13, <2>1
  <2>3. CASE k < pos
    <3>1. PICK i \in DOMAIN seen : seen[i] = k
      BY <1>1, <1>13, <2>3 DEF Walking
    <3> QED
      BY <1>8, <3>1
  <2> QED
    BY <1>8, <2>2, <2>3
<1>14. ASSUME pos' # End
       PROVE  /\ ~IsBelowStart(pos', fpos)
              /\ \A r \in ranges : StringStartLess(r, fpos) => IsAboveEnd(pos', r)
  <2>1. pos' \in Keys
    BY <1>2, <1>3, <1>14
  <2>2. ~(2 * pos' < StartRank(fpos))
    BY <1>1, <1>2, <1>4, OutsideByRank, RankType DEF Walking
  <2>3. ASSUME NEW r \in ranges, StringStartLess(r, fpos) PROVE IsAboveEnd(pos', r)
    <3>1. EndRank(r) < 2 * pos /\ EndRank(r) \in Int
      BY <1>1, <1>2, <2>3, OutsideByRank, RankType DEF Walking
    <3>2. EndRank(r) < 2 * pos'
      BY <1>2, <1>4, <3>1
    <3> QED
      BY <1>2, <2>1, <3>2, OutsideByRank
  <2> QED
    BY <1>2, <2>1, <2>2, <2>3, OutsideByRank
<1>15. Walking'
  BY <1>1, <1>2, <1>10, <1>11, <1>12, <1>13, <1>14 DEF Walking
<1>16. Building'
  BY <1>1, SetUnchanged
<1> QED
  BY <1>1, <1>6, <1>15, <1>16 DEF IInv

LEMMA ReachEndInv ==
    ASSUME IInv, ReachEnd
    PROVE  IInv'
<1>1. /\ TypeOK /\ Walking /\ Building /\ pos = End /\ pc' = "done"
      /\ UNCHANGED <<kind, requests, ranges, asked, entries, pos, fpos, seen>>
  BY DEF IInv, ReachEnd
<1>2. TypeOK'
  BY <1>1 DEF TypeOK
<1>3. Walking'
  BY <1>1 DEF Walking, Covered
<1>4. Building'
  BY <1>1, SetUnchanged
<1> QED
  BY <1>1, <1>2, <1>3, <1>4 DEF IInv

LEMMA IInvInductive == IInv /\ [Next]_vars => IInv'
<1> SUFFICES ASSUME IInv, [Next]_vars PROVE IInv'
  OBVIOUS
<1>1. CASE SumRowKey
  BY <1>1, SumRowKeyInv
<1>2. CASE SumRowRange
  BY <1>2, SumRowRangeInv
<1>3. CASE ReadEveryRow
  BY <1>3, ReadEveryRowInv
<1>4. CASE IntersectColumnRange
  BY <1>4, IntersectColumnRangeInv
<1>5. CASE OpenView
  BY <1>5, OpenViewInv
<1>6. CASE NextRange
  BY <1>6, NextRangeInv
<1>7. CASE ShowEntry
  BY <1>7, ShowEntryInv
<1>8. CASE ReachEnd
  BY <1>8, ReachEndInv
<1>9. CASE UNCHANGED vars
  BY <1>9 DEF vars, IInv, TypeOK, Building, Walking, NotOpened, Disjoint,
              AskedIsCovered, Covered
<1> QED
  BY <1>1, <1>2, <1>3, <1>4, <1>5, <1>6, <1>7, <1>8, <1>9 DEF Next

LEMMA Invariant == Spec => []IInv
BY InitIInv, IInvInductive, PTL DEF Spec

-----------------------------------------------------------------------------
(* The state has its types in every reachable state: no bound of a range   *)
(* is lost or turned round, and the view stays inside the map and the set. *)
THEOREM TypeCorrect == Spec => []TypeOK
<1>1. IInv => TypeOK
  BY DEF IInv
<1> QED
  BY <1>1, Invariant, PTL

(***************************************************************************)
(* However many ranges are added to a set or intersected with it, and      *)
(* however they overlap, touch or repeat, it stays sorted and disjoint.    *)
(***************************************************************************)
THEOREM SetStaysDisjoint == Spec => []RangesAreDisjoint
<1>1. IInv => RangesAreDisjoint
  BY DisjointMeans DEF IInv, Building
<1> QED
  BY <1>1, Invariant, PTL

(***************************************************************************)
(* A read visits every row that it was asked for, and none beyond the      *)
(* first and the last of them; the column ranges of a stream admit exactly *)
(* what each of them does.                                                 *)
(***************************************************************************)
THEOREM RequestIsCovered == Spec => []AskedIsCovered
<1>1. IInv => AskedIsCovered
  BY DEF IInv, Building
<1> QED
  BY <1>1, Invariant, PTL

(* The assertions of DisjointAndSortedRangesAdjacent never fail.           *)
THEOREM AssertionsHold == Spec => []AdjacencyIsAskedInOrder
<1>1. IInv => AdjacencyIsAskedInOrder
  BY AdjacencyMeans DEF IInv, Building
<1> QED
  BY <1>1, Invariant, PTL

(***************************************************************************)
(* Whatever the map holds, the iterator of the view shows exactly its      *)
(* entries that are in the set, each once and in order.                    *)
(***************************************************************************)
THEOREM ViewIsTheSelection == Spec => []ViewShowsTheSelection
BY WalkingMeans, Invariant, PTL

=============================================================================

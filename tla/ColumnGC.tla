------------------------------- MODULE ColumnGC -------------------------------
(***************************************************************************)
(* Garbage collection of one column of one row: ColumnRow::RunGC           *)
(* (column_family.cc).  The cells are a map from timestamps, newest first. *)
(* A rule on the age or on the number of versions is applied in one go;    *)
(* any other rule by a scan that asks for a verdict on each cell, and the  *)
(* clock goes on during the scan.                                          *)
(***************************************************************************)
EXTENDS Integers, FiniteSetsExt

CONSTANTS
    Rule,                       \* garbage collection rules
    Depth(_),                   \* how deep a rule is nested
    EraseVerdict(_, _, _, _),   \* GCRuleEraseVerdict(rule, timestamp, version_rank, now)
    Garbage(_, _, _),           \* what a rule calls garbage among some cells, at a time
    Time,                       \* timestamps, in milliseconds
    MaxNow                      \* bound: the clock

ASSUME ColumnGCAssumption ==
    /\ Time \subseteq Int
    /\ IsFiniteSet(Time)
    /\ MaxNow \in Nat
    /\ Rule # {}

(* A rule is a message with a number, or one that holds other rules. *)
ASSUME RuleAssumption ==
    \A r \in Rule :
        /\ Depth(r) \in Nat
        /\ r.kind \in {"age", "versions"} => r.n \in Nat
        /\ r.kind \in {"union", "intersection"} =>
              /\ r.rules \subseteq Rule
              /\ \A part \in r.rules : Depth(part) < Depth(r)

Newer(cs, ts) == {newer \in cs : ts < newer}

(***************************************************************************)
(* The equations that GCRule's recursive definitions satisfy: the verdict  *)
(* on a cell of which rank newer versions are kept, and the garbage among  *)
(* the cells cs, by the kind of the rule.  A rule that is not set erases   *)
(* nothing.                                                                *)
(***************************************************************************)
ASSUME VerdictAssumption ==
    \A r \in Rule, ts \in Time, rank \in 0 .. Cardinality(Time), now \in 0 .. MaxNow :
        EraseVerdict(r, ts, rank, now) <=>
            \/ r.kind = "age" /\ ts < now - r.n
            \/ r.kind = "versions" /\ rank >= r.n
            \/ r.kind = "union" /\ \E part \in r.rules : EraseVerdict(part, ts, rank, now)
            \/ /\ r.kind = "intersection"
               /\ r.rules # {}
               /\ \A part \in r.rules : EraseVerdict(part, ts, rank, now)

ASSUME GarbageAssumption ==
    \A r \in Rule, cs \in SUBSET Time, now \in 0 .. MaxNow :
        /\ Garbage(r, cs, now) \subseteq cs
        /\ \A ts \in cs :
             ts \in Garbage(r, cs, now) <=>
                \/ r.kind = "age" /\ ts < now - r.n
                \/ r.kind = "versions" /\ Cardinality(Newer(cs, ts)) >= r.n
                \/ r.kind = "union" /\ \E part \in r.rules : ts \in Garbage(part, cs, now)
                \/ /\ r.kind = "intersection"
                   /\ r.rules # {}
                   /\ \A part \in r.rules : ts \in Garbage(part, cs, now)

VARIABLES
    cells,      \* the timestamps of cells_
    now,        \* the system clock, in milliseconds
    pc,         \* "idle", "scanning" (ApplyGCRuleVerdict) or "done"
    rule,       \* the rule that RunGC was given
    todo,       \* the cells that the scan has not reached
    rank,       \* version_rank
    before,     \* history: the cells when RunGC began
    start       \* history: the clock when RunGC began

vars == <<cells, now, pc, rule, todo, rank, before, start>>

TypeOK ==
    /\ cells \in SUBSET Time
    /\ now \in 0 .. MaxNow
    /\ pc \in {"idle", "scanning", "done"}
    /\ rule \in Rule
    /\ todo \in SUBSET cells
    /\ rank = Cardinality(IF pc = "scanning" THEN cells \ todo ELSE {})
    /\ before \in SUBSET Time
    /\ start \in 0 .. now

Init ==
    /\ cells \in SUBSET Time
    /\ now = 0
    /\ pc = "idle"
    /\ rule = CHOOSE r \in Rule : TRUE
    /\ todo = {}
    /\ rank = 0
    /\ before = {}
    /\ start = 0

(* The cells that ApplyGCRuleMaxAge erases: from upper_bound(cut-off) on. *)
TooOld(ts, age) == ts < now - age

(* Mutant: one version more stays. *)
TooMany_OneMore(ts, n) == Cardinality(Newer(cells, ts)) > n

(* The cells that ApplyGCRuleMaxNumVersions erases: all after the first n. *)
TooMany(ts, n) == Cardinality(Newer(cells, ts)) >= n

(* RunGC with a rule that is applied in one go, or that is not set. *)
ApplyGCRule(r) ==
    /\ pc # "scanning"
    /\ r.kind \in {"age", "versions", "unset"}
    /\ cells' = CASE r.kind = "age" -> {ts \in cells : ~TooOld(ts, r.n)}
                  [] r.kind = "versions" -> {ts \in cells : ~TooMany(ts, r.n)}
                  [] OTHER -> cells
    /\ pc' = "done"
    /\ rule' = r
    /\ before' = cells
    /\ start' = now
    /\ UNCHANGED <<now, todo, rank>>

(* RunGC with a union or an intersection. *)
ApplyGCRuleVerdict(r) ==
    /\ pc # "scanning"
    /\ r.kind \in {"union", "intersection"}
    /\ pc' = "scanning"
    /\ rule' = r
    /\ todo' = cells
    /\ rank' = 0
    /\ before' = cells
    /\ start' = now
    /\ UNCHANGED <<cells, now>>

(* Mutant: after a cell is erased the iterator also passes the one after it. *)
ScanCell_SkipsNext ==
    /\ pc = "scanning"
    /\ todo # {}
    /\ LET ts == Max(todo)
       IN  IF EraseVerdict(rule, ts, rank, now)
             THEN /\ cells' = cells \ {ts}
                  /\ todo' = IF todo = {ts} THEN {} ELSE todo \ {ts, Max(todo \ {ts})}
                  /\ rank' = Cardinality(cells' \ todo')
             ELSE /\ rank' = rank + 1
                  /\ todo' = todo \ {ts}
                  /\ UNCHANGED cells
    /\ UNCHANGED <<now, pc, rule, before, start>>

(* Mutant: version_rank goes up before the verdict. *)
ScanCell_CountsFirst ==
    /\ pc = "scanning"
    /\ todo # {}
    /\ LET ts == Max(todo)
       IN  /\ todo' = todo \ {ts}
           /\ IF EraseVerdict(rule, ts, rank + 1, now)
                THEN cells' = cells \ {ts} /\ UNCHANGED rank
                ELSE rank' = rank + 1 /\ UNCHANGED cells
    /\ UNCHANGED <<now, pc, rule, before, start>>

(* A turn of the loop: version_rank counts the cells that were kept. *)
ScanCell ==
    /\ pc = "scanning"
    /\ todo # {}
    /\ LET ts == Max(todo)
       IN  /\ todo' = todo \ {ts}
           /\ IF EraseVerdict(rule, ts, rank, now)
                THEN cells' = cells \ {ts} /\ UNCHANGED rank
                ELSE rank' = rank + 1 /\ UNCHANGED cells
    /\ UNCHANGED <<now, pc, rule, before, start>>

EndScan ==
    /\ pc = "scanning"
    /\ todo = {}
    /\ pc' = "done"
    /\ rank' = 0
    /\ UNCHANGED <<cells, now, rule, todo, before, start>>

(* ColumnRow::SetCell, under Table::mu_ as RunGC is. *)
SetCell(ts) ==
    /\ pc # "scanning"
    /\ cells' = cells \union {ts}
    /\ pc' = "idle"
    /\ before' = {}
    /\ start' = now
    /\ UNCHANGED <<now, rule, todo, rank>>

Tick ==
    /\ now < MaxNow
    /\ now' = now + 1
    /\ UNCHANGED <<cells, pc, rule, todo, rank, before, start>>

Next ==
    \/ \E r \in Rule : ApplyGCRule(r) \/ ApplyGCRuleVerdict(r)
    \/ ScanCell
    \/ EndScan
    \/ \E ts \in Time : SetCell(ts)
    \/ Tick

Spec == Init /\ [][Next]_vars

-----------------------------------------------------------------------------
(***************************************************************************)
(* RunGC erases the oldest cells: it never leaves a cell that is older     *)
(* than one it has erased, although the verdicts of a scan are given one   *)
(* by one, on a count of what was kept so far and on a clock that goes on. *)
(***************************************************************************)
NewestSurvive ==
    pc = "done" => \A erased \in before \ cells, kept \in cells : erased < kept

(***************************************************************************)
(* What RunGC erases is what the rule says of the cells there were: at     *)
(* least what was garbage when it began and at most what is garbage when   *)
(* it ends.  A verdict is asked cell by cell with a rank that counts only  *)
(* the cells kept; the rule is on the rank among all cells.                *)
(***************************************************************************)
CollectsWhatTheRuleSays ==
    pc = "done" => /\ Garbage(rule, before, start) \subseteq before \ cells
                   /\ before \ cells \subseteq Garbage(rule, before, now)

(***************************************************************************)
(* One run of RunGC is enough: no cell it leaves was garbage, by the same  *)
(* rule, when it began.                                                    *)
(***************************************************************************)
NoGarbageLeft == pc = "done" => Garbage(rule, cells, start) = {}

=============================================================================

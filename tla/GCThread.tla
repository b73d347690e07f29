------------------------------- MODULE GCThread -------------------------------
(***************************************************************************)
(* The life of one Table object (table.h, table.cc): the requests that     *)
(* hold a shared_ptr to it, its garbage collection thread, and ~Table,     *)
(* which the last owner runs and which stops and joins that thread.        *)
(***************************************************************************)
EXTENDS Naturals, FiniteSets

CONSTANTS
    Client,     \* threads of the gRPC server
    GC,         \* the garbage collection thread
    None        \* a free mutex

ASSUME GCThreadAssumption == GC \notin Client /\ None \notin Client \union {GC}

Thread == Client \union {GC}

VARIABLES
    listed,     \* whether Cluster::table_by_name_ holds the table
    pc,         \* where each thread is
    mu,         \* the holder of Table::mu_
    gcMu,       \* the holder of gc_mtx_
    stop,       \* stop_flag_
    notified,   \* whether cv_ has been notified while the thread waited
    freed       \* the Table has been destroyed

vars == <<listed, pc, mu, gcMu, stop, notified, freed>>

(***************************************************************************)
(* Clients: "no table", "has table" (between FindTable and the lock of     *)
(* mu_), "in request", and in ~Table "stopping", "notifying", "joining".   *)
(* The thread: "locking" gc_mtx_, "testing" stop_flag_, "to wait" and      *)
(* "waiting" on cv_, "to gc", "in gc" and "exited".                        *)
(***************************************************************************)
Owns(c) == pc[c] \in {"has table", "in request"}

InDestructor(c) == pc[c] \in {"stopping", "notifying", "joining"}

TypeOK ==
    /\ listed \in BOOLEAN
    /\ pc[GC] \in {"locking", "testing", "to wait", "waiting", "to gc", "in gc", "exited"}
    /\ \A c \in Client :
          pc[c] \in {"no table", "has table", "in request", "stopping", "notifying", "joining"}
    /\ mu \in Thread \union {None}
    /\ \A t \in Thread : mu = t <=> pc[t] \in {"in request", "in gc"}
    /\ gcMu = (IF pc[GC] \in {"testing", "to wait", "to gc", "in gc"} THEN GC ELSE None)
    /\ stop \in BOOLEAN
    /\ notified \in BOOLEAN
    /\ freed \in BOOLEAN

(* The table has been created and is in the cluster; StartGCThread has run. *)
Init ==
    /\ listed = TRUE
    /\ pc = [t \in Thread |-> IF t = GC THEN "locking" ELSE "no table"]
    /\ mu = None
    /\ gcMu = None
    /\ stop = FALSE
    /\ notified = FALSE
    /\ freed = FALSE

Goto(t, label) == pc' = [pc EXCEPT ![t] = label]

-----------------------------------------------------------------------------
(* Requests *)

FindTable(c) ==
    /\ pc[c] = "no table"
    /\ listed
    /\ Goto(c, "has table")
    /\ UNCHANGED <<listed, mu, gcMu, stop, notified, freed>>

LockTable(c) ==
    /\ pc[c] = "has table"
    /\ mu = None
    /\ mu' = c
    /\ Goto(c, "in request")
    /\ UNCHANGED <<listed, gcMu, stop, notified, freed>>

(* Mutant: whoever lets its pointer go destroys the table. *)
DropReference_Always(c, others) == Goto(c, "stopping")

(* A shared_ptr goes away: if it was the last one, its owner destroys the table. *)
DropReference(c, others) == Goto(c, IF others THEN "no table" ELSE "stopping")

EndRequest(c) ==
    /\ pc[c] = "in request"
    /\ mu' = None
    /\ DropReference(c, listed \/ \E d \in Client \ {c} : Owns(d))
    /\ UNCHANGED <<listed, gcMu, stop, notified, freed>>

(* table_by_name_.erase in Cluster::DeleteTable *)
EraseTable(c) ==
    /\ pc[c] = "no table"
    /\ listed
    /\ listed' = FALSE
    /\ DropReference(c, \E d \in Client : Owns(d))
    /\ UNCHANGED <<mu, gcMu, stop, notified, freed>>

-----------------------------------------------------------------------------
(* ~Table *)

(* Mutant: stop_flag_ is set without gc_mtx_. *)
SetStopFlag_NoMutex(c) ==
    /\ pc[c] = "stopping"
    /\ stop' = TRUE
    /\ Goto(c, "notifying")
    /\ UNCHANGED <<listed, mu, gcMu, notified, freed>>

(* The flag is set under gc_mtx_, so never between the thread's test and its wait. *)
SetStopFlag(c) ==
    /\ pc[c] = "stopping"
    /\ gcMu = None
    /\ stop' = TRUE
    /\ Goto(c, "notifying")
    /\ UNCHANGED <<listed, mu, gcMu, notified, freed>>

NotifyOne(c) ==
    /\ pc[c] = "notifying"
    /\ notified' = (pc[GC] = "waiting")
    /\ Goto(c, "joining")
    /\ UNCHANGED <<listed, mu, gcMu, stop, freed>>

(* Mutant: the thread is detached. *)
Join_Detached(c) ==
    /\ pc[c] = "joining"
    /\ freed' = TRUE
    /\ Goto(c, "no table")
    /\ UNCHANGED <<listed, mu, gcMu, stop, notified>>

Join(c) ==
    /\ pc[c] = "joining"
    /\ pc[GC] = "exited"
    /\ freed' = TRUE
    /\ Goto(c, "no table")
    /\ UNCHANGED <<listed, mu, gcMu, stop, notified>>

-----------------------------------------------------------------------------
(* The thread *)

LockGCMutex ==
    /\ pc[GC] = "locking"
    /\ gcMu = None
    /\ gcMu' = GC
    /\ Goto(GC, "testing")
    /\ UNCHANGED <<listed, mu, stop, notified, freed>>

(* The condition of the loop, and the predicate of wait_for before it waits. *)
TestStopFlag ==
    /\ pc[GC] = "testing"
    /\ IF stop THEN Goto(GC, "exited") /\ gcMu' = None
               ELSE Goto(GC, "to wait") /\ UNCHANGED gcMu
    /\ UNCHANGED <<listed, mu, stop, notified, freed>>

(* wait_for releases gc_mtx_ and waits, in one step. *)
Wait ==
    /\ pc[GC] = "to wait"
    /\ gcMu' = None
    /\ notified' = FALSE
    /\ Goto(GC, "waiting")
    /\ UNCHANGED <<listed, mu, stop, freed>>

(* Awake because of notify_one; or spuriously, when nobody has called it. *)
WakeUp(because) ==
    /\ pc[GC] = "waiting"
    /\ because = notified
    /\ gcMu = None
    /\ gcMu' = GC
    /\ Goto(GC, "testing")
    /\ UNCHANGED <<listed, mu, stop, notified, freed>>

(* After 60 seconds wait_for returns; stop_flag_ is tested once more. *)
TimeOut ==
    /\ pc[GC] = "waiting"
    /\ gcMu = None
    /\ IF stop THEN Goto(GC, "exited") /\ UNCHANGED gcMu
               ELSE Goto(GC, "to gc") /\ gcMu' = GC
    /\ UNCHANGED <<listed, mu, stop, notified, freed>>

(* RunGC takes mu_, with gc_mtx_ held. *)
LockForGC ==
    /\ pc[GC] = "to gc"
    /\ mu = None
    /\ mu' = GC
    /\ Goto(GC, "in gc")
    /\ UNCHANGED <<listed, gcMu, stop, notified, freed>>

EndGC ==
    /\ pc[GC] = "in gc"
    /\ mu' = None
    /\ Goto(GC, "testing")
    /\ UNCHANGED <<listed, gcMu, stop, notified, freed>>

-----------------------------------------------------------------------------
ClientStep(c) ==
    \/ LockTable(c)
    \/ EndRequest(c)
    \/ SetStopFlag(c)
    \/ NotifyOne(c)
    \/ Join(c)

(* What the thread does without the clock. *)
ThreadStep ==
    \/ LockGCMutex
    \/ TestStopFlag
    \/ Wait
    \/ WakeUp(TRUE)
    \/ LockForGC
    \/ EndGC

Next ==
    \/ \E c \in Client : FindTable(c) \/ EraseTable(c) \/ ClientStep(c)
    \/ ThreadStep
    \/ WakeUp(FALSE)
    \/ TimeOut

Spec == Init /\ [][Next]_vars

(***************************************************************************)
(* Running threads run; no time-out and no spurious wake-up is counted on. *)
(* gc_mtx_ is free for as long as the thread sleeps, up to 60 seconds each *)
(* time, so a destructor that wants it gets it in the end.                 *)
(***************************************************************************)
FairSpec ==
    /\ Spec
    /\ WF_vars(ThreadStep)
    /\ \A c \in Client : WF_vars(ClientStep(c)) /\ SF_vars(SetStopFlag(c))

-----------------------------------------------------------------------------
(***************************************************************************)
(* The Table is destroyed after its last use: no request and no garbage    *)
(* collection is under way, and the thread has come to its end.            *)
(***************************************************************************)
NoUseAfterFree ==
    freed => /\ ~listed
             /\ pc[GC] = "exited"
             /\ mu = None
             /\ \A c \in Client : ~Owns(c) /\ ~InDestructor(c)

(***************************************************************************)
(* One thread at most runs ~Table, and no request is in the table then.    *)
(***************************************************************************)
OneDestructor ==
    \A c \in Client : InDestructor(c) =>
        /\ ~listed /\ ~freed
        /\ \A d \in Client \ {c} : ~Owns(d) /\ ~InDestructor(d)

(***************************************************************************)
(* ~Table returns although it waits for a thread that may be asleep for a  *)
(* minute, may be about to fall asleep, or may be collecting garbage: the  *)
(* notification is never lost.                                             *)
(***************************************************************************)
DestructorReturns == \A c \in Client : InDestructor(c) ~> freed

=============================================================================

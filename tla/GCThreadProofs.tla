---------------------------- MODULE GCThreadProofs ----------------------------
(***************************************************************************)
(* Proofs about GCThread, for any number of clients: a Table is destroyed  *)
(* by one thread, after its last use, although the threads only agree on   *)
(* the references they hold.                                               *)
(***************************************************************************)
EXTENDS GCThread, TLAPS

TypeInv == TypeOK /\ DOMAIN pc = Thread

(***************************************************************************)
(* NoUseAfterFree and OneDestructor speak of a destructor that runs or has *)
(* run.  What leads there is that the table has an owner up to then (the   *)
(* cluster or a request), that one destructor at most is ever reached, and *)
(* that it frees the table after the thread's end.                         *)
(***************************************************************************)
Owned == listed \/ \E c \in Client : Owns(c)

OwnedUntilTheEnd == Owned => ~freed /\ \A c \in Client : ~InDestructor(c)

OneEnd ==
    /\ \A c, d \in Client : InDestructor(c) /\ InDestructor(d) => c = d
    /\ freed => pc[GC] = "exited" /\ \A c \in Client : ~InDestructor(c)

IInv == TypeInv /\ OwnedUntilTheEnd /\ OneEnd

-----------------------------------------------------------------------------
(* What a step of client c does to the locations.                          *)
LEMMA GotoClient ==
    ASSUME TypeInv, NEW c \in Client, NEW label, Goto(c, label)
    PROVE  /\ DOMAIN pc' = Thread
           /\ pc'[c] = label
           /\ pc'[GC] = pc[GC]
           /\ \A d \in Client : d # c => pc'[d] = pc[d]
BY GCThreadAssumption DEF Goto, TypeInv, Thread

(* A step of the thread leaves the clients where they are.                 *)
LEMMA GotoThread ==
    ASSUME TypeInv, NEW label, Goto(GC, label)
    PROVE  /\ DOMAIN pc' = Thread
           /\ pc'[GC] = label
           /\ \A d \in Client : pc'[d] = pc[d]
BY GCThreadAssumption DEF Goto, TypeInv, Thread


ClientPlace ==
    {"no table", "has table", "in request", "stopping", "notifying", "joining"}

ThreadPlace ==
    {"locking", "testing", "to wait", "waiting", "to gc", "in gc", "exited"}

UsesTable(label) == label \in {"in request", "in gc"}

(***************************************************************************)
(* One thread moves; mu_ stays, or the thread takes it or lets it go.  The *)
(* other conjuncts of TypeOK are about the thread that moves only.         *)
(***************************************************************************)
LEMMA TypeStep ==
    ASSUME TypeInv, NEW t \in Thread, NEW label, Goto(t, label),
           label \in IF t = GC THEN ThreadPlace ELSE ClientPlace,
           \/ ~UsesTable(label) /\ ~UsesTable(pc[t]) /\ mu' = mu
           \/ UsesTable(label) /\ mu = None /\ mu' = t
           \/ ~UsesTable(label) /\ UsesTable(pc[t]) /\ mu' = None,
           IF t = GC
             THEN gcMu' = IF label \in {"testing", "to wait", "to gc", "in gc"}
                            THEN GC ELSE None
             ELSE gcMu' = gcMu,
           listed' \in BOOLEAN, stop' \in BOOLEAN,
           notified' \in BOOLEAN, freed' \in BOOLEAN
    PROVE  TypeInv'
<1>1. /\ DOMAIN pc' = Thread
      /\ pc'[t] = label
      /\ \A u \in Thread : u # t => pc'[u] = pc[u]
  BY DEF Goto, TypeInv
<1>2. /\ mu' \in Thread \union {None}
      /\ \A u \in Thread : mu' = u <=> pc'[u] \in {"in request", "in gc"}
  BY <1>1, GCThreadAssumption DEF TypeInv, TypeOK, Thread, UsesTable
<1>3. /\ pc'[GC] \in ThreadPlace
      /\ \A c \in Client : pc'[c] \in ClientPlace
  BY <1>1, GCThreadAssumption DEF TypeInv, TypeOK, Thread, ThreadPlace, ClientPlace
<1>4. gcMu' = IF pc'[GC] \in {"testing", "to wait", "to gc", "in gc"} THEN GC ELSE None
  BY <1>1, GCThreadAssumption DEF TypeInv, TypeOK, Thread
<1> QED
  BY <1>1, <1>2, <1>3, <1>4 DEF TypeInv, TypeOK, ThreadPlace, ClientPlace

(* Every step keeps the types, and the places of the threads with the      *)
(* mutexes they hold.                                                      *)
LEMMA TypeInvariance == TypeInv /\ [Next]_vars => TypeInv'
<1> SUFFICES ASSUME TypeInv, [Next]_vars PROVE TypeInv'
  OBVIOUS
<1>0. /\ listed \in BOOLEAN /\ stop \in BOOLEAN /\ notified \in BOOLEAN /\ freed \in BOOLEAN
      /\ gcMu = IF pc[GC] \in {"testing", "to wait", "to gc", "in gc"} THEN GC ELSE None
      /\ GC \in Thread /\ \A c \in Client : c \in Thread /\ c # GC
  BY GCThreadAssumption DEF TypeInv, TypeOK, Thread
<1> USE <1>0, TypeStep DEF ClientPlace, ThreadPlace, UsesTable
<1>1. ASSUME NEW c \in Client, FindTable(c) PROVE TypeInv'
  BY <1>1 DEF FindTable
<1>2. ASSUME NEW c \in Client, EraseTable(c) PROVE TypeInv'
  BY <1>2 DEF EraseTable, DropReference
<1>3. ASSUME NEW c \in Client, LockTable(c) PROVE TypeInv'
  BY <1>3 DEF LockTable
<1>4. ASSUME NEW c \in Client, EndRequest(c) PROVE TypeInv'
  BY <1>4 DEF EndRequest, DropReference
<1>5. ASSUME NEW c \in Client, SetStopFlag(c) PROVE TypeInv'
  BY <1>5 DEF SetStopFlag
<1>6. ASSUME NEW c \in Client, NotifyOne(c) PROVE TypeInv'
  BY <1>6 DEF NotifyOne
<1>7. ASSUME NEW c \in Client, Join(c) PROVE TypeInv'
  BY <1>7 DEF Join
<1>8. CASE LockGCMutex
  BY <1>8 DEF LockGCMutex
<1>9. CASE TestStopFlag
  BY <1>9 DEF TestStopFlag
<1>10. CASE Wait
  BY <1>10 DEF Wait
<1>11. ASSUME NEW because \in BOOLEAN, WakeUp(because) PROVE TypeInv'
  BY <1>11 DEF WakeUp
<1>12. CASE TimeOut
  BY <1>12 DEF TimeOut
<1>13. CASE LockForGC
  BY <1>13 DEF LockForGC
<1>14. CASE EndGC
  BY <1>14 DEF EndGC
<1>15. CASE UNCHANGED vars
  BY <1>15 DEF vars, TypeInv, TypeOK
<1> QED
  BY <1>1, <1>2, <1>3, <1>4, <1>5, <1>6, <1>7, <1>8, <1>9, <1>10, <1>11, <1>12, <1>13, <1>14, <1>15
  DEF Next, ClientStep, ThreadStep

-----------------------------------------------------------------------------
(* A client that is not about to destroy the table, before or after.      *)
LEMMA ClientKeepsOwnership ==
    ASSUME IInv, NEW c \in Client, NEW label, Goto(c, label),
           listed' = listed, freed' = freed,
           InDestructor(c) <=> label \in {"stopping", "notifying", "joining"},
           label \in {"has table", "in request"} => Owned
    PROVE  OwnedUntilTheEnd' /\ OneEnd'
<1>1. pc'[GC] = pc[GC] /\ \A d \in Client : d # c => pc'[d] = pc[d]
  BY GotoClient DEF IInv
<1>2. pc'[c] = label
  BY GotoClient DEF IInv
<1>3. \A d \in Client : InDestructor(d)' <=> InDestructor(d)
  BY <1>1, <1>2 DEF InDestructor
<1>4. Owned' => Owned
  BY <1>1, <1>2 DEF Owned, Owns
<1> QED
  BY <1>1, <1>3, <1>4 DEF IInv, OwnedUntilTheEnd, OneEnd

(* The last owner lets the table go: it alone is in the destructor.        *)
LEMMA LastOwnerLeaves ==
    ASSUME IInv, NEW c \in Client, NEW others, NEW label \in {"no table", "stopping"},
           Goto(c, label), label = IF others THEN "no table" ELSE "stopping",
           others <=> (listed' \/ \E d \in Client \ {c} : Owns(d)),
           listed' => listed, freed' = freed, Owned, Owns(c) \/ ~InDestructor(c)
    PROVE  OwnedUntilTheEnd' /\ OneEnd'
<1>1. pc'[GC] = pc[GC] /\ \A d \in Client : d # c => pc'[d] = pc[d]
  BY GotoClient DEF IInv
<1>2. pc'[c] = label
  BY GotoClient DEF IInv
<1>3. ~freed /\ \A d \in Client : ~InDestructor(d)
  BY DEF IInv, OwnedUntilTheEnd
<1>4. \A d \in Client : InDestructor(d)' => d = c /\ ~others
  BY <1>1, <1>2, <1>3 DEF InDestructor
<1>5. Owned' => others
  BY <1>1, <1>2 DEF Owned, Owns
<1> QED
  BY <1>3, <1>4, <1>5 DEF OwnedUntilTheEnd, OneEnd

(* The destructor frees the table once the thread has come to its end.     *)
LEMMA DestructorFrees ==
    ASSUME IInv, NEW c \in Client, Join(c)
    PROVE  OwnedUntilTheEnd' /\ OneEnd'
<1>1. pc'[GC] = pc[GC] /\ pc'[c] = "no table" /\ \A d \in Client : d # c => pc'[d] = pc[d]
  BY GotoClient DEF IInv, Join
<1>2. ~Owned /\ \A d \in Client : InDestructor(d) => d = c
  BY DEF IInv, OwnedUntilTheEnd, OneEnd, Join, InDestructor
<1>3. ~Owned'
  BY <1>1, <1>2 DEF Join, Owned, Owns
<1>4. \A d \in Client : ~InDestructor(d)'
  BY <1>1, <1>2 DEF InDestructor
<1> QED
  BY <1>1, <1>3, <1>4 DEF Join, OwnedUntilTheEnd, OneEnd

(* The thread owns nothing, and once it has come to its end it stays there. *)
LEMMA ThreadKeepsOwnership ==
    ASSUME IInv, NEW label, Goto(GC, label), pc[GC] # "exited",
           listed' = listed, freed' = freed
    PROVE  OwnedUntilTheEnd' /\ OneEnd'
<1>1. \A d \in Client : pc'[d] = pc[d]
  BY GotoThread DEF IInv
<1>2. /\ Owned' <=> Owned
      /\ \A d \in Client : InDestructor(d)' <=> InDestructor(d)
  BY <1>1 DEF Owned, Owns, InDestructor
<1> QED
  BY <1>2 DEF IInv, OwnedUntilTheEnd, OneEnd

(* Every step of a client or of the thread keeps the invariant.            *)
LEMMA Invariance == IInv /\ [Next]_vars => IInv'
<1> SUFFICES ASSUME IInv, [Next]_vars PROVE OwnedUntilTheEnd' /\ OneEnd'
  BY TypeInvariance DEF IInv
<1>1. ASSUME NEW c \in Client, FindTable(c) PROVE OwnedUntilTheEnd' /\ OneEnd'
  BY <1>1, ClientKeepsOwnership DEF FindTable, Owned, Owns, InDestructor
<1>2. ASSUME NEW c \in Client, EraseTable(c) PROVE OwnedUntilTheEnd' /\ OneEnd'
  BY <1>2, LastOwnerLeaves DEF EraseTable, DropReference, Owned, Owns, InDestructor
<1>3. ASSUME NEW c \in Client, LockTable(c) PROVE OwnedUntilTheEnd' /\ OneEnd'
  BY <1>3, ClientKeepsOwnership DEF LockTable, Owned, Owns, InDestructor
<1>4. ASSUME NEW c \in Client, EndRequest(c) PROVE OwnedUntilTheEnd' /\ OneEnd'
  BY <1>4, LastOwnerLeaves DEF EndRequest, DropReference, Owned, Owns, InDestructor
<1>5. ASSUME NEW c \in Client, SetStopFlag(c) PROVE OwnedUntilTheEnd' /\ OneEnd'
  BY <1>5, ClientKeepsOwnership DEF SetStopFlag, Owns, InDestructor
<1>6. ASSUME NEW c \in Client, NotifyOne(c) PROVE OwnedUntilTheEnd' /\ OneEnd'
  BY <1>6, ClientKeepsOwnership DEF NotifyOne, Owns, InDestructor
<1>7. ASSUME NEW c \in Client, Join(c) PROVE OwnedUntilTheEnd' /\ OneEnd'
  BY <1>7, DestructorFrees
<1>8. CASE LockGCMutex
  BY <1>8, ThreadKeepsOwnership DEF LockGCMutex
<1>9. CASE TestStopFlag
  BY <1>9, ThreadKeepsOwnership DEF TestStopFlag
<1>10. CASE Wait
  BY <1>10, ThreadKeepsOwnership DEF Wait
<1>11. ASSUME NEW because \in BOOLEAN, WakeUp(because) PROVE OwnedUntilTheEnd' /\ OneEnd'
  BY <1>11, ThreadKeepsOwnership DEF WakeUp
<1>12. CASE TimeOut
  BY <1>12, ThreadKeepsOwnership DEF TimeOut
<1>13. CASE LockForGC
  BY <1>13, ThreadKeepsOwnership DEF LockForGC
<1>14. CASE EndGC
  BY <1>14, ThreadKeepsOwnership DEF EndGC
<1>15. CASE UNCHANGED vars
  BY <1>15 DEF vars, IInv, OwnedUntilTheEnd, OneEnd, Owned, Owns, InDestructor
<1> QED
  BY <1>1, <1>2, <1>3, <1>4, <1>5, <1>6, <1>7, <1>8, <1>9, <1>10, <1>11, <1>12, <1>13, <1>14, <1>15
  DEF Next, ClientStep, ThreadStep

(* A new table is owned by the cluster.                                    *)
LEMMA Initialization == Init => IInv
<1> SUFFICES ASSUME Init PROVE IInv
  OBVIOUS
<1>1. /\ DOMAIN pc = Thread /\ pc[GC] = "locking"
      /\ \A c \in Client : pc[c] = "no table" /\ c # GC
  BY GCThreadAssumption DEF Init, Thread
<1>2. TypeInv
  BY <1>1, GCThreadAssumption DEF Init, TypeInv, TypeOK, Thread
<1> QED
  BY <1>1, <1>2 DEF Init, IInv, OwnedUntilTheEnd, OneEnd, Owned, Owns, InDestructor

(* The inductive invariant holds at each step of every execution.          *)
LEMMA Inductive == Spec => []IInv
BY Initialization, Invariance, PTL DEF Spec

-----------------------------------------------------------------------------
(* Every thread is at one of its places, and each mutex is held by the     *)
(* thread whose place says so.                                             *)
THEOREM TypeCorrect == Spec => []TypeOK
<1>1. IInv => TypeOK
  BY DEF IInv, TypeInv
<1> QED BY <1>1, Inductive, PTL

(* The Table is destroyed after its last use, whoever the last owner is: a *)
(* request that outlives the deletion of the table, or the deletion.       *)
THEOREM DestroyedAfterLastUse == Spec => []NoUseAfterFree
<1>1. IInv => NoUseAfterFree
  <2> SUFFICES ASSUME IInv, freed PROVE NoUseAfterFree
    BY DEF NoUseAfterFree
  <2>1. pc[GC] = "exited" /\ \A c \in Client : ~InDestructor(c)
    BY DEF IInv, OneEnd
  <2>2. ~listed /\ \A c \in Client : ~Owns(c)
    BY DEF IInv, OwnedUntilTheEnd, Owned
  <2>3. mu = None
    BY <2>1, <2>2 DEF IInv, TypeInv, TypeOK, Thread, Owns
  <2> QED BY <2>1, <2>2, <2>3 DEF NoUseAfterFree
<1> QED BY <1>1, Inductive, PTL

(* One thread at most runs ~Table, and while it does no request has the    *)
(* table or can find it.                                                   *)
THEOREM DestroyedOnce == Spec => []OneDestructor
<1>1. IInv => OneDestructor
  BY DEF IInv, OneEnd, OwnedUntilTheEnd, Owned, OneDestructor
<1> QED BY <1>1, Inductive, PTL

-----------------------------------------------------------------------------
(***************************************************************************)
(* Why ~Table returns.  stop_flag_ is set while the thread is at none of   *)
(* the places it holds gc_mtx_ at, so that it has not passed its test and  *)
(* is not collecting; from then on it only goes to its end.  If it sleeps, *)
(* the notification is yet to come or has come.                            *)
(***************************************************************************)
Stopping ==
    /\ stop => pc[GC] \in {"locking", "testing", "waiting", "exited"}
    /\ \A c \in Client : pc[c] \in {"notifying", "joining"} => stop
    /\ \A c \in Client : pc[c] = "joining" /\ pc[GC] = "waiting" => notified
    /\ notified => stop

(***************************************************************************)
(* The client c, or the thread, can take a step that FairSpec counts on:   *)
(* what their actions wait for holds.                                      *)
(***************************************************************************)
ClientCanStep(c) ==
    \/ pc[c] = "has table" /\ mu = None
    \/ pc[c] = "in request"
    \/ pc[c] = "stopping" /\ gcMu = None
    \/ pc[c] = "notifying"
    \/ pc[c] = "joining" /\ pc[GC] = "exited"

ThreadCanStep ==
    \/ pc[GC] = "locking" /\ gcMu = None
    \/ pc[GC] \in {"testing", "to wait", "in gc"}
    \/ pc[GC] = "waiting" /\ notified /\ gcMu = None
    \/ pc[GC] = "to gc" /\ mu = None

(* Nobody waits for a mutex or for the thread when nobody else can step. *)
WaitsEnd ==
    /\ \A c \in Client :
          InDestructor(c) => ClientCanStep(c) \/ ThreadCanStep
    /\ \A c \in Client :
          Owns(c) => ThreadCanStep \/ \E d \in Client : ClientCanStep(d)

(* The steps that the thread is from its end once stop_flag_ is set. *)
StepsLeft ==
    CASE pc[GC] = "exited" -> 0
      [] pc[GC] = "testing" -> 1
      [] OTHER -> 2

GoesToItsEnd ==
    stop => /\ stop'
            /\ pc'[GC] = pc[GC] \/ StepsLeft' < StepsLeft

(* The destructor and the thread keep to the protocol of flag, mutex and   *)
(* notification at every step.                                             *)
LEMMA StoppingInvariance == IInv /\ Stopping /\ [Next]_vars => Stopping'
<1> SUFFICES ASSUME IInv, Stopping, [Next]_vars PROVE Stopping'
  OBVIOUS
<1>0. /\ TypeInv
      /\ gcMu = IF pc[GC] \in {"testing", "to wait", "to gc", "in gc"} THEN GC ELSE None
      /\ pc[GC] \in {"locking", "testing", "to wait", "waiting", "to gc", "in gc", "exited"}
      /\ GC # None
  BY GCThreadAssumption DEF IInv, TypeInv, TypeOK
<1>1. ASSUME NEW c \in Client, FindTable(c) PROVE Stopping'
  BY <1>0, <1>1, GotoClient DEF FindTable, Stopping
<1>2. ASSUME NEW c \in Client, EraseTable(c) PROVE Stopping'
  BY <1>0, <1>2, GotoClient DEF EraseTable, Stopping, DropReference
<1>3. ASSUME NEW c \in Client, LockTable(c) PROVE Stopping'
  BY <1>0, <1>3, GotoClient DEF LockTable, Stopping
<1>4. ASSUME NEW c \in Client, EndRequest(c) PROVE Stopping'
  BY <1>0, <1>4, GotoClient DEF EndRequest, Stopping, DropReference
<1>5. ASSUME NEW c \in Client, SetStopFlag(c) PROVE Stopping'
  BY <1>0, <1>5, GotoClient DEF SetStopFlag, Stopping
<1>6. ASSUME NEW c \in Client, NotifyOne(c) PROVE Stopping'
  BY <1>0, <1>6, GotoClient DEF NotifyOne, Stopping
<1>7. ASSUME NEW c \in Client, Join(c) PROVE Stopping'
  BY <1>0, <1>7, GotoClient DEF Join, Stopping
<1>8. CASE LockGCMutex
  BY <1>0, <1>8, GotoThread DEF LockGCMutex, Stopping
<1>9. CASE TestStopFlag
  <2>1. stop' = stop /\ notified' = notified
        /\ IF stop THEN Goto(GC, "exited") ELSE Goto(GC, "to wait")
    BY <1>9 DEF TestStopFlag
  <2>2. CASE stop
    <3>1. pc'[GC] = "exited" /\ \A d \in Client : pc'[d] = pc[d]
      BY <1>0, <2>1, <2>2, GotoThread
    <3>2. stop'
      BY <2>1, <2>2
    <3> QED
      BY <3>1, <3>2 DEF Stopping
  <2>3. CASE ~stop
    BY <1>0, <2>1, <2>3, GotoThread DEF Stopping
  <2> QED
    BY <2>2, <2>3
<1>10. CASE Wait
  BY <1>0, <1>10, GotoThread DEF Wait, Stopping
<1>11. ASSUME NEW because \in BOOLEAN, WakeUp(because) PROVE Stopping'
  BY <1>0, <1>11, GotoThread DEF WakeUp, Stopping
<1>12. CASE TimeOut
  BY <1>0, <1>12, GotoThread DEF TimeOut, Stopping
<1>13. CASE LockForGC
  BY <1>0, <1>13, GotoThread DEF LockForGC, Stopping
<1>14. CASE EndGC
  BY <1>0, <1>14, GotoThread DEF EndGC, Stopping
<1>15. CASE UNCHANGED vars
  BY <1>15 DEF vars, Stopping
<1> QED
  BY <1>1, <1>2, <1>3, <1>4, <1>5, <1>6, <1>7, <1>8, <1>9, <1>10, <1>11, <1>12, <1>13, <1>14, <1>15
  DEF Next, ClientStep, ThreadStep

LEMMA StoppingHolds == Spec => []Stopping
<1>1. Init => Stopping
  BY GCThreadAssumption DEF Init, Stopping, Thread
<1> QED
  BY <1>1, Inductive, StoppingInvariance, PTL DEF Spec

(***************************************************************************)
(* The notification that ~Table gives is not lost: the thread is not left  *)
(* asleep by a destructor that has come to join it.                        *)
(***************************************************************************)
THEOREM NotificationIsNotLost ==
    Spec => [](\A c \in Client : pc[c] = "joining" /\ pc[GC] = "waiting" => notified)
<1>1. Stopping => \A c \in Client : pc[c] = "joining" /\ pc[GC] = "waiting" => notified
  BY DEF Stopping
<1> QED
  BY <1>1, StoppingHolds, PTL

(***************************************************************************)
(* No deadlock, with the mutexes mu_ and gc_mtx_ and the join: whoever is  *)
(* in ~Table can go on, or the thread it waits for can; whoever has the    *)
(* table and waits for mu_ waits for somebody who can go on.               *)
(***************************************************************************)
THEOREM NoDeadlock == Spec => []WaitsEnd
<1>1. ASSUME IInv, Stopping PROVE WaitsEnd
  <2>0. /\ gcMu = IF pc[GC] \in {"testing", "to wait", "to gc", "in gc"} THEN GC ELSE None
        /\ pc[GC] \in {"locking", "testing", "to wait", "waiting", "to gc", "in gc", "exited"}
        /\ mu \in Client \union {GC, None}
        /\ \A c \in Client : mu = c => pc[c] = "in request"
        /\ mu = GC => pc[GC] = "in gc"
    BY <1>1 DEF IInv, TypeInv, TypeOK, Thread
  <2>1. ASSUME NEW c \in Client, InDestructor(c) PROVE ClientCanStep(c) \/ ThreadCanStep
    <3>1. \A d \in Client : ~Owns(d)
      BY <1>1, <2>1 DEF IInv, OwnedUntilTheEnd, Owned
    <3>2. mu = None \/ pc[GC] = "in gc"
      BY <2>0, <3>1 DEF Owns
    <3>3. CASE pc[c] = "stopping"
      BY <2>0, <3>2, <3>3 DEF ClientCanStep, ThreadCanStep
    <3>4. CASE pc[c] = "notifying"
      BY <3>4 DEF ClientCanStep
    <3>5. CASE pc[c] = "joining"
      BY <1>1, <2>0, <3>5 DEF ClientCanStep, ThreadCanStep, Stopping
    <3> QED
      BY <2>1, <3>3, <3>4, <3>5 DEF InDestructor
  <2>2. ASSUME NEW c \in Client, Owns(c)
        PROVE  ThreadCanStep \/ \E d \in Client : ClientCanStep(d)
    <3>1. CASE mu = None
      BY <2>2, <3>1 DEF Owns, ClientCanStep
    <3>2. CASE mu = GC
      BY <2>0, <3>2 DEF ThreadCanStep
    <3>3. CASE mu \in Client
      BY <2>0, <3>3 DEF ClientCanStep
    <3> QED
      BY <2>0, <3>1, <3>2, <3>3
  <2> QED
    BY <2>1, <2>2 DEF WaitsEnd
<1> QED
  BY <1>1, Inductive, StoppingHolds, PTL

(***************************************************************************)
(* Once stop_flag_ is set it stays so, and every step of the thread brings *)
(* it nearer to its end: two steps at most, and no garbage collection.     *)
(***************************************************************************)
THEOREM ThreadEndsInTwoSteps == Spec => [][GoesToItsEnd]_vars
<1>0. ASSUME IInv, Stopping, [Next]_vars PROVE [GoesToItsEnd]_vars
  <2> SUFFICES ASSUME stop, Next PROVE GoesToItsEnd
    BY <1>0 DEF GoesToItsEnd
  <2>0. TypeInv /\ stop /\ pc[GC] \in {"locking", "testing", "waiting", "exited"}
    BY <1>0 DEF IInv, Stopping
  <2>1. ASSUME NEW c \in Client, FindTable(c) PROVE GoesToItsEnd
    BY <2>0, <2>1, GotoClient DEF FindTable, GoesToItsEnd
  <2>2. ASSUME NEW c \in Client, EraseTable(c) PROVE GoesToItsEnd
    BY <2>0, <2>2, GotoClient DEF EraseTable, GoesToItsEnd, DropReference
  <2>3. ASSUME NEW c \in Client, LockTable(c) PROVE GoesToItsEnd
    BY <2>0, <2>3, GotoClient DEF LockTable, GoesToItsEnd
  <2>4. ASSUME NEW c \in Client, EndRequest(c) PROVE GoesToItsEnd
    BY <2>0, <2>4, GotoClient DEF EndRequest, GoesToItsEnd, DropReference
  <2>5. ASSUME NEW c \in Client, SetStopFlag(c) PROVE GoesToItsEnd
    BY <2>0, <2>5, GotoClient DEF SetStopFlag, GoesToItsEnd
  <2>6. ASSUME NEW c \in Client, NotifyOne(c) PROVE GoesToItsEnd
    BY <2>0, <2>6, GotoClient DEF NotifyOne, GoesToItsEnd
  <2>7. ASSUME NEW c \in Client, Join(c) PROVE GoesToItsEnd
    BY <2>0, <2>7, GotoClient DEF Join, GoesToItsEnd
  <2>8. CASE LockGCMutex
    BY <2>0, <2>8, GotoThread DEF LockGCMutex, GoesToItsEnd, StepsLeft
  <2>9. CASE TestStopFlag
    BY <2>0, <2>9, GotoThread DEF TestStopFlag, GoesToItsEnd, StepsLeft
  <2>10. CASE Wait
    BY <2>0, <2>10, GotoThread DEF Wait, GoesToItsEnd, StepsLeft
  <2>11. ASSUME NEW because \in BOOLEAN, WakeUp(because) PROVE GoesToItsEnd
    BY <2>0, <2>11, GotoThread DEF WakeUp, GoesToItsEnd, StepsLeft
  <2>12. CASE TimeOut
    BY <2>0, <2>12, GotoThread DEF TimeOut, GoesToItsEnd, StepsLeft
  <2>13. CASE LockForGC
    BY <2>0, <2>13, GotoThread DEF LockForGC, GoesToItsEnd, StepsLeft
  <2>14. CASE EndGC
    BY <2>0, <2>14, GotoThread DEF EndGC, GoesToItsEnd, StepsLeft
  <2> QED
    BY <2>1, <2>2, <2>3, <2>4, <2>5, <2>6, <2>7, <2>8, <2>9, <2>10, <2>11, <2>12, <2>13, <2>14
    DEF Next, ClientStep, ThreadStep
<1> QED
  BY <1>0, Inductive, StoppingHolds, PTL DEF Spec

=============================================================================

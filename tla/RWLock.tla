-------------------------------- MODULE RWLock --------------------------------
(***************************************************************************)
(* The read/write lock of common/Locker (RWLock.h, RWLock.cpp, the WIN32   *)
(* branch the project builds), used through its guards AutoRLock and       *)
(* AutoWLock.  What a method does between EnterCriticalSection and         *)
(* LeaveCriticalSection is one step.  hEvent is a manual-reset event:      *)
(* SetEvent releases every thread blocked on it and lets later ones        *)
(* through until ResetEvent.                                               *)
(***************************************************************************)
EXTENDS Integers, FiniteSets

CONSTANTS
    Guards,        \* guard objects: AutoRLock or AutoWLock, by how they are used
    Owner          \* Owner[g]: the thread in whose scope g lives

ASSUME GuardsAssumption == IsFiniteSet(Guards)

VARIABLES
    eLockStatus,      \* "IDLE", "R" or "W"
    iRLockCount,
    iRWaitingCount,
    iWWaitingCount,
    hEvent,           \* the event is set
    at,               \* where the guard's thread is with it
    mode              \* "R": an AutoRLock, "W": an AutoWLock

lock == <<eLockStatus, iRLockCount, iRWaitingCount, iWWaitingCount>>
vars == <<lock, hEvent, at, mode>>

(* at[g]: "out" before the constructor, "enter" at the top of lock_shared  *)
(* or lock_unique, "leaving" between LeaveCriticalSection and              *)
(* WaitForSingleObject, "blocked" in the wait, "woken" after it, "held"    *)
(* constructed with the lock, "failed" constructed without it (bTry).      *)
Waits == {"leaving", "blocked", "woken"}

Readers == {g \in Guards : at[g] = "held" /\ mode[g] = "R"}
Writers == {g \in Guards : at[g] = "held" /\ mode[g] = "W"}
WaitingReaders == {g \in Guards : at[g] \in Waits /\ mode[g] = "R"}
WaitingWriters == {g \in Guards : at[g] \in Waits /\ mode[g] = "W"}

TypeOK ==
    /\ eLockStatus \in {"IDLE", "R", "W"}
    /\ iRLockCount \in Nat
    /\ iRWaitingCount \in Nat /\ iWWaitingCount \in Nat
    /\ hEvent \in BOOLEAN
    /\ at \in [Guards -> {"out", "enter", "held", "failed"} \cup Waits]
    /\ mode \in [Guards -> {"R", "W"}]

Init ==
    /\ eLockStatus = "IDLE" /\ iRLockCount = 0
    /\ iRWaitingCount = 0 /\ iWWaitingCount = 0
    /\ hEvent = FALSE
    /\ at = [g \in Guards |-> "out"]
    /\ mode = [g \in Guards |-> "R"]

(* A thread does one thing at a time: while it is inside the constructor   *)
(* of one guard it neither constructs nor destroys another.                *)
Free(g) ==
    \A h \in Guards :
        Owner[h] = Owner[g] => at[h] \in {"out", "held", "failed"}

Move(g, place) == at' = [at EXCEPT ![g] = place]

------------------------------------------------------------------------------
(* The guard's constructor: with bTry it is TryLock below, else lock().    *)
Construct(g, m) ==
    /\ at[g] = "out" /\ Free(g)
    /\ mode' = [mode EXCEPT ![g] = m]
    /\ Move(g, "enter")
    /\ UNCHANGED <<lock, hEvent>>

(* Variant: a reader back from its wait stays counted.                     *)
RWaitingStillCounted(g) == iRWaitingCount

\* The waiting counters of a thread that is back from its wait.
RWaitingNow(g) == IF at[g] = "woken" THEN iRWaitingCount - 1 ELSE iRWaitingCount
WWaitingNow(g) == IF at[g] = "woken" THEN iWWaitingCount - 1 ELSE iWWaitingCount

(* Variant: readers do not look at the status once a reader was let in.    *)
MayReadUnlessWaiting == iWWaitingCount = 0

MayRead == eLockStatus = "IDLE" \/ (eLockStatus = "R" /\ iWWaitingCount = 0)

(* lock_shared: a pass of its loop, from the first call or after a wait.   *)
LockShared(g) ==
    /\ at[g] \in {"enter", "woken"} /\ mode[g] = "R"
    /\ IF MayRead
         THEN /\ eLockStatus' = "R"
              /\ iRLockCount' = iRLockCount + 1
              /\ iRWaitingCount' = RWaitingNow(g)
              /\ Move(g, "held")
              /\ UNCHANGED hEvent
         ELSE /\ iRWaitingCount' = RWaitingNow(g) + 1
              /\ hEvent' = FALSE
              /\ Move(g, "leaving")
              /\ UNCHANGED <<eLockStatus, iRLockCount>>
    /\ UNCHANGED <<iWWaitingCount, mode>>

(* lock_unique: the same for a writer.                                     *)
LockUnique(g) ==
    /\ at[g] \in {"enter", "woken"} /\ mode[g] = "W"
    /\ IF eLockStatus = "IDLE"
         THEN /\ eLockStatus' = "W"
              /\ iWWaitingCount' = WWaitingNow(g)
              /\ Move(g, "held")
              /\ UNCHANGED hEvent
         ELSE /\ iWWaitingCount' = WWaitingNow(g) + 1
              /\ hEvent' = FALSE
              /\ Move(g, "leaving")
              /\ UNCHANGED eLockStatus
    /\ UNCHANGED <<iRLockCount, iRWaitingCount, mode>>

(* WaitForSingleObject(hEvent, INFINITE)                                   *)
Wait(g) ==
    /\ at[g] = "leaving"
    /\ Move(g, IF hEvent THEN "woken" ELSE "blocked")
    /\ UNCHANGED <<lock, hEvent, mode>>

(* try_lock_shared and try_lock_unique                                     *)
TryLock(g, m) ==
    /\ at[g] = "out" /\ Free(g)
    /\ mode' = [mode EXCEPT ![g] = m]
    /\ \/ /\ m = "R" /\ MayRead
          /\ eLockStatus' = "R" /\ iRLockCount' = iRLockCount + 1
          /\ Move(g, "held")
       \/ /\ m = "W" /\ eLockStatus = "IDLE"
          /\ eLockStatus' = "W" /\ UNCHANGED iRLockCount
          /\ Move(g, "held")
       \/ /\ IF m = "R" THEN ~MayRead ELSE eLockStatus # "IDLE"
          /\ UNCHANGED <<eLockStatus, iRLockCount>>
          /\ Move(g, "failed")
    /\ UNCHANGED <<iRWaitingCount, iWWaitingCount, hEvent>>

(* Variant: only waiting readers are thought of.                           *)
AReaderWaits == iRWaitingCount > 0

SomebodyWaits == iWWaitingCount > 0 \/ iRWaitingCount > 0

(* SetEvent, if anybody waits: those blocked are released.                 *)
Wake(g) ==
    IF SomebodyWaits
      THEN /\ hEvent' = TRUE
           /\ at' = [h \in Guards |->
                        IF h = g THEN "out"
                        ELSE IF at[h] = "blocked" THEN "woken" ELSE at[h]]
      ELSE Move(g, "out") /\ UNCHANGED hEvent

(* unlock, from the destructor of a guard that has the lock.  A read count *)
(* above 0 is what tells a reader's unlock from a writer's.                *)
Unlock(g) ==
    /\ at[g] = "held" /\ Free(g)
    /\ iRLockCount' = IF iRLockCount > 0 THEN iRLockCount - 1 ELSE 0
    /\ IF iRLockCount > 1
         THEN Move(g, "out") /\ UNCHANGED <<eLockStatus, hEvent>>
         ELSE eLockStatus' = "IDLE" /\ Wake(g)
    /\ UNCHANGED <<iRWaitingCount, iWWaitingCount, mode>>

(* The destructor of a guard that did not get the lock.                    *)
Forget(g) ==
    /\ at[g] = "failed" /\ Free(g)
    /\ Move(g, "out")
    /\ UNCHANGED <<lock, hEvent, mode>>

Lock(g) == LockShared(g) \/ LockUnique(g)

Next ==
    \E g \in Guards :
        \/ \E m \in {"R", "W"} : Construct(g, m) \/ TryLock(g, m)
        \/ Lock(g) \/ Wait(g) \/ Unlock(g) \/ Forget(g)

Spec == Init /\ [][Next]_vars

(* Every thread runs, and leaves the scope of its guards; nobody is        *)
(* obliged to construct one.                                               *)
FairSpec ==
    /\ Spec
    /\ \A g \in Guards : WF_vars(Lock(g)) /\ WF_vars(Wait(g)) /\ WF_vars(Unlock(g))

------------------------------------------------------------------------------
(* The counters are the numbers of guards they stand for, and the status   *)
(* tells who has the lock.                                                 *)
CountsExact ==
    /\ iRLockCount = Cardinality(Readers)
    /\ iRWaitingCount = Cardinality(WaitingReaders)
    /\ iWWaitingCount = Cardinality(WaitingWriters)

StatusExact ==
    /\ eLockStatus = "IDLE" => Readers = {} /\ Writers = {}
    /\ eLockStatus = "R" => Readers # {} /\ Writers = {}
    /\ eLockStatus = "W" => Readers = {} /\ \E g \in Guards : Writers = {g}

(* No wake-up is lost: on a lock nobody holds nobody is blocked, and a     *)
(* thread on its way to the wait will find the event set, although the     *)
(* event is set and reset by threads that are not the one waiting.         *)
NoLostWakeup ==
    eLockStatus = "IDLE" =>
        /\ \A g \in Guards : at[g] # "blocked"
        /\ (\E g \in Guards : at[g] = "leaving") => hEvent

LockInv == CountsExact /\ StatusExact /\ NoLostWakeup

(* The lock is a read/write lock.                                          *)
Exclusion == INSTANCE ReadWriteExclusion WITH readers <- Readers, writers <- Writers
ExclusionSpec == Exclusion!Spec

(* Whoever asks for the lock gets it, provided the other guards stop       *)
(* coming back for it.  (Without that proviso a woken thread may find the  *)
(* lock taken again every time.)                                           *)
Served ==
    \A g \in Guards :
        <>[][\A h \in Guards \ {g}, m \in {"R", "W"} :
                 ~Construct(h, m) /\ ~TryLock(h, m)]_vars
            => (at[g] = "enter" ~> at[g] = "held")

(* RWLock.h:24 says of the read lock that it is recursive and can be taken *)
(* repeatedly: a thread that has it gets it again.                         *)
RecursiveRead ==
    \A g \in Guards :
        (at[g] = "enter" /\ mode[g] = "R"
            /\ \E h \in Readers : Owner[h] = Owner[g])
        ~> at[g] = "held"
==============================================================================

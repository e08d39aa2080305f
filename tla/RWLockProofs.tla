----------------------------- MODULE RWLockProofs -----------------------------
(***************************************************************************)
(* Theorems about RWLock, for any finite set of guards in any threads.     *)
(***************************************************************************)
EXTENDS RWLock, FiniteSetTheorems, TLAPS

(* Adding a guard to a set of guards, and taking one out.                  *)
LEMMA CountIn ==
    ASSUME NEW S \in SUBSET Guards, NEW g \in Guards, g \notin S
    PROVE  Cardinality(S \cup {g}) = Cardinality(S) + 1
<1>1. IsFiniteSet(S)
  BY GuardsAssumption, FS_Subset
<1> QED
  BY <1>1, FS_AddElement

LEMMA CountOut ==
    ASSUME NEW S \in SUBSET Guards, NEW g \in S
    PROVE  Cardinality(S \ {g}) = Cardinality(S) - 1
<1>1. IsFiniteSet(S)
  BY GuardsAssumption, FS_Subset
<1> QED
  BY <1>1, FS_RemoveElement

LEMMA CountType ==
    ASSUME NEW S \in SUBSET Guards
    PROVE  /\ Cardinality(S) \in Nat
           /\ Cardinality(S) = 0 <=> S = {}
<1>1. IsFiniteSet(S)
  BY GuardsAssumption, FS_Subset
<1> QED
  BY <1>1, FS_CardinalityType, FS_EmptySet

LEMMA Subsets ==
    /\ Readers \in SUBSET Guards /\ Writers \in SUBSET Guards
    /\ WaitingReaders \in SUBSET Guards /\ WaitingWriters \in SUBSET Guards
  BY DEF Readers, Writers, WaitingReaders, WaitingWriters

(* A step that leaves every guard in its class of places, and the lock     *)
(* alone, leaves the four sets alone.                                      *)
LEMMA SameSets ==
    ASSUME \A h \in Guards :
               /\ (at'[h] = "held") <=> (at[h] = "held")
               /\ (at'[h] \in Waits) <=> (at[h] \in Waits)
               /\ at[h] \in Waits \cup {"held"} => mode'[h] = mode[h]
    PROVE  /\ Readers' = Readers /\ Writers' = Writers
           /\ WaitingReaders' = WaitingReaders /\ WaitingWriters' = WaitingWriters
  BY DEF Readers, Writers, WaitingReaders, WaitingWriters, Waits

Inv == TypeOK /\ LockInv

(* The constructor is entered.                                             *)
LEMMA ConstructInv ==
    ASSUME Inv, NEW g \in Guards, NEW m \in {"R", "W"}, Construct(g, m)
    PROVE  Inv' /\ UNCHANGED <<Readers, Writers>>
<1>1. \A h \in Guards : at'[h] = IF h = g THEN "enter" ELSE at[h]
  BY DEF Inv, TypeOK, Construct, Move
<1>2. \A h \in Guards : mode'[h] = IF h = g THEN m ELSE mode[h]
  BY DEF Inv, TypeOK, Construct
<1>3. at[g] = "out"
  BY DEF Construct
<1>4. /\ Readers' = Readers /\ Writers' = Writers
      /\ WaitingReaders' = WaitingReaders /\ WaitingWriters' = WaitingWriters
  BY <1>1, <1>2, <1>3, SameSets DEF Waits
<1>5. TypeOK'
  BY DEF Inv, TypeOK, Construct, Move, lock
<1>6. CountsExact' /\ StatusExact'
  BY <1>4 DEF Inv, LockInv, CountsExact, StatusExact, Construct, lock
<1>7. NoLostWakeup'
  BY <1>1 DEF Inv, LockInv, NoLostWakeup, Construct, lock
<1> QED
  BY <1>4, <1>5, <1>6, <1>7 DEF Inv, LockInv

(* A thread goes into the wait, or through it.                             *)
LEMMA WaitInv ==
    ASSUME Inv, NEW g \in Guards, Wait(g)
    PROVE  Inv' /\ UNCHANGED <<Readers, Writers>>
<1>1. \A h \in Guards :
          at'[h] = IF h = g THEN IF hEvent THEN "woken" ELSE "blocked" ELSE at[h]
  BY DEF Inv, TypeOK, Wait, Move
<1>2. at[g] = "leaving" /\ UNCHANGED <<lock, hEvent, mode>>
  BY DEF Wait
<1>3. /\ Readers' = Readers /\ Writers' = Writers
      /\ WaitingReaders' = WaitingReaders /\ WaitingWriters' = WaitingWriters
  BY <1>1, <1>2, SameSets DEF Waits
<1>4. TypeOK'
  BY <1>2 DEF Inv, TypeOK, Wait, Move, lock, Waits
<1>5. CountsExact' /\ StatusExact'
  BY <1>2, <1>3 DEF Inv, LockInv, CountsExact, StatusExact, lock
<1>6. NoLostWakeup'
  BY <1>1, <1>2 DEF Inv, LockInv, NoLostWakeup, lock
<1> QED
  BY <1>3, <1>4, <1>5, <1>6 DEF Inv, LockInv

(* A guard without the lock is destroyed.                                  *)
LEMMA ForgetInv ==
    ASSUME Inv, NEW g \in Guards, Forget(g)
    PROVE  Inv' /\ UNCHANGED <<Readers, Writers>>
<1>1. \A h \in Guards : at'[h] = IF h = g THEN "out" ELSE at[h]
  BY DEF Inv, TypeOK, Forget, Move
<1>2. at[g] = "failed" /\ UNCHANGED <<lock, hEvent, mode>>
  BY DEF Forget
<1>3. /\ Readers' = Readers /\ Writers' = Writers
      /\ WaitingReaders' = WaitingReaders /\ WaitingWriters' = WaitingWriters
  BY <1>1, <1>2, SameSets DEF Waits
<1>4. TypeOK'
  BY <1>2 DEF Inv, TypeOK, Forget, Move, lock, Waits
<1>5. CountsExact' /\ StatusExact'
  BY <1>2, <1>3 DEF Inv, LockInv, CountsExact, StatusExact, lock
<1>6. NoLostWakeup'
  BY <1>1, <1>2 DEF Inv, LockInv, NoLostWakeup, lock
<1> QED
  BY <1>3, <1>4, <1>5, <1>6 DEF Inv, LockInv

(* A read guard gets the lock, in its constructor's loop or by trying.     *)
LEMMA ReadGrantedSets ==
    ASSUME Inv, NEW g \in Guards, at[g] # "held", MayRead,
           \A h \in Guards : at'[h] = IF h = g THEN "held" ELSE at[h],
           \A h \in Guards : mode'[h] = IF h = g THEN "R" ELSE mode[h]
    PROVE  /\ Readers' = Readers \cup {g} /\ g \notin Readers
           /\ Writers' = Writers /\ Writers = {}
           /\ WaitingReaders' = WaitingReaders \ {g}
           /\ WaitingWriters' = WaitingWriters \ {g}
<1>1. Writers = {}
  BY DEF Inv, LockInv, StatusExact, MayRead
<1>2. Readers' = Readers \cup {g} /\ g \notin Readers
  BY DEF Readers
<1>3. Writers' = Writers
  BY DEF Writers
<1>4. WaitingReaders' = WaitingReaders \ {g}
  BY DEF WaitingReaders, Waits
<1>5. WaitingWriters' = WaitingWriters \ {g}
  BY DEF WaitingWriters, Waits
<1> QED
  BY <1>1, <1>2, <1>3, <1>4, <1>5

(* The same for a write guard.                                             *)
LEMMA WriteGrantedSets ==
    ASSUME Inv, NEW g \in Guards, at[g] # "held", eLockStatus = "IDLE",
           \A h \in Guards : at'[h] = IF h = g THEN "held" ELSE at[h],
           \A h \in Guards : mode'[h] = IF h = g THEN "W" ELSE mode[h]
    PROVE  /\ Readers' = Readers /\ Readers = {}
           /\ Writers' = {g} /\ Writers = {}
           /\ WaitingReaders' = WaitingReaders \ {g}
           /\ WaitingWriters' = WaitingWriters \ {g}
<1>1. Readers = {} /\ Writers = {}
  BY DEF Inv, LockInv, StatusExact
<1>2. Readers' = Readers
  BY DEF Readers
<1>3. Writers' = {g}
  BY <1>1 DEF Writers
<1>4. WaitingReaders' = WaitingReaders \ {g}
  BY DEF WaitingReaders, Waits
<1>5. WaitingWriters' = WaitingWriters \ {g}
  BY DEF WaitingWriters, Waits
<1> QED
  BY <1>1, <1>2, <1>3, <1>4, <1>5

(* A pass of lock_shared's loop.                                           *)
LEMMA LockSharedInv ==
    ASSUME Inv, NEW g \in Guards, LockShared(g)
    PROVE  Inv' /\ (Exclusion!AcquireRead(g) \/ UNCHANGED <<Readers, Writers>>)
<1>1. at[g] \in {"enter", "woken"} /\ mode[g] = "R" /\ mode' = mode
      /\ iWWaitingCount' = iWWaitingCount
  BY DEF LockShared
<1>2. /\ iRWaitingCount = Cardinality(WaitingReaders)
      /\ iWWaitingCount = Cardinality(WaitingWriters)
      /\ iRLockCount = Cardinality(Readers)
  BY DEF Inv, LockInv, CountsExact
<1>3. g \in WaitingReaders <=> at[g] = "woken"
  BY <1>1 DEF WaitingReaders, Waits
<1>4. RWaitingNow(g) = Cardinality(WaitingReaders \ {g})
  <2>1. CASE at[g] = "woken"
    BY <1>2, <1>3, <2>1, Subsets, CountOut DEF RWaitingNow
  <2>2. CASE at[g] # "woken"
    <3>1. WaitingReaders \ {g} = WaitingReaders
      BY <1>3, <2>2
    <3> QED
      BY <1>2, <2>2, <3>1 DEF RWaitingNow
  <2> QED
    BY <2>1, <2>2
<1>5. g \notin WaitingWriters
  BY <1>1 DEF WaitingWriters
<1>6. RWaitingNow(g) \in Nat
  BY <1>4, Subsets, CountType
<1>7. CASE MayRead
  <2>1. /\ eLockStatus' = "R" /\ iRLockCount' = iRLockCount + 1
        /\ iRWaitingCount' = RWaitingNow(g) /\ hEvent' = hEvent
    BY <1>7 DEF LockShared
  <2>2. at' = [at EXCEPT ![g] = "held"]
    BY <1>7 DEF LockShared, Move
  <2>3. \A h \in Guards : at'[h] = IF h = g THEN "held" ELSE at[h]
    BY <2>2 DEF Inv, TypeOK
  <2>4. /\ Readers' = Readers \cup {g} /\ g \notin Readers
        /\ Writers' = Writers /\ Writers = {}
        /\ WaitingReaders' = WaitingReaders \ {g}
        /\ WaitingWriters' = WaitingWriters
    BY <1>1, <1>5, <1>7, <2>3, ReadGrantedSets
  <2>5. TypeOK'
    BY <1>1, <1>6, <2>1, <2>2 DEF Inv, TypeOK
  <2>6. CountsExact'
    BY <1>1, <1>2, <1>4, <2>1, <2>4, Subsets, CountIn DEF CountsExact
  <2>7. StatusExact' /\ NoLostWakeup'
    BY <2>1, <2>4 DEF StatusExact, NoLostWakeup
  <2> QED
    BY <2>4, <2>5, <2>6, <2>7 DEF Inv, LockInv, Exclusion!AcquireRead
<1>8. CASE ~MayRead
  <2>1. /\ iRWaitingCount' = RWaitingNow(g) + 1 /\ hEvent' = FALSE
        /\ UNCHANGED <<eLockStatus, iRLockCount>>
    BY <1>8 DEF LockShared
  <2>2. at' = [at EXCEPT ![g] = "leaving"]
    BY <1>8 DEF LockShared, Move
  <2>3. \A h \in Guards : at'[h] = IF h = g THEN "leaving" ELSE at[h]
    BY <2>2 DEF Inv, TypeOK
  <2>4. Readers' = Readers /\ Writers' = Writers
    BY <1>1, <2>3 DEF Readers, Writers
  <2>5. WaitingWriters' = WaitingWriters
    BY <1>1, <2>3 DEF WaitingWriters, Waits
  <2>6. WaitingReaders' = (WaitingReaders \ {g}) \cup {g}
    BY <1>1, <2>3 DEF WaitingReaders, Waits
  <2>7. TypeOK'
    <3>1. at' \in [Guards -> {"out", "enter", "held", "failed"} \cup Waits]
      BY <2>2 DEF Inv, TypeOK, Waits
    <3>2. hEvent' \in BOOLEAN
      BY <2>1
    <3>3. RWaitingNow(g) + 1 \in Nat
      BY <1>6
    <3> QED
      BY <1>1, <2>1, <3>1, <3>2, <3>3 DEF Inv, TypeOK, Waits
  <2>8. Cardinality((WaitingReaders \ {g}) \cup {g})
            = Cardinality(WaitingReaders \ {g}) + 1
    <3>1. WaitingReaders \ {g} \in SUBSET Guards
      BY Subsets
    <3> QED
      BY <3>1, CountIn
  <2>9. CountsExact'
    BY <1>1, <1>2, <1>4, <2>1, <2>4, <2>5, <2>6, <2>8 DEF CountsExact
  <2>10. eLockStatus # "IDLE"
    BY <1>8 DEF MayRead
  <2>11. StatusExact' /\ NoLostWakeup'
    BY <2>1, <2>4, <2>10 DEF Inv, LockInv, StatusExact, NoLostWakeup
  <2> QED
    BY <2>4, <2>7, <2>9, <2>11 DEF Inv, LockInv
<1> QED
  BY <1>7, <1>8

(* A pass of lock_unique's loop.                                           *)
LEMMA LockUniqueInv ==
    ASSUME Inv, NEW g \in Guards, LockUnique(g)
    PROVE  Inv' /\ (Exclusion!AcquireWrite(g) \/ UNCHANGED <<Readers, Writers>>)
<1>1. at[g] \in {"enter", "woken"} /\ mode[g] = "W" /\ mode' = mode
      /\ iRWaitingCount' = iRWaitingCount /\ iRLockCount' = iRLockCount
  BY DEF LockUnique
<1>2. /\ iRWaitingCount = Cardinality(WaitingReaders)
      /\ iWWaitingCount = Cardinality(WaitingWriters)
      /\ iRLockCount = Cardinality(Readers)
  BY DEF Inv, LockInv, CountsExact
<1>3. g \in WaitingWriters <=> at[g] = "woken"
  BY <1>1 DEF WaitingWriters, Waits
<1>4. WWaitingNow(g) = Cardinality(WaitingWriters \ {g})
  <2>1. CASE at[g] = "woken"
    BY <1>2, <1>3, <2>1, Subsets, CountOut DEF WWaitingNow
  <2>2. CASE at[g] # "woken"
    <3>1. WaitingWriters \ {g} = WaitingWriters
      BY <1>3, <2>2
    <3> QED
      BY <1>2, <2>2, <3>1 DEF WWaitingNow
  <2> QED
    BY <2>1, <2>2
<1>5. g \notin WaitingReaders
  BY <1>1 DEF WaitingReaders
<1>6. WWaitingNow(g) \in Nat
  BY <1>4, Subsets, CountType
<1>7. CASE eLockStatus = "IDLE"
  <2>1. /\ eLockStatus' = "W" /\ iWWaitingCount' = WWaitingNow(g)
        /\ hEvent' = hEvent
    BY <1>7 DEF LockUnique
  <2>2. at' = [at EXCEPT ![g] = "held"]
    BY <1>7 DEF LockUnique, Move
  <2>3. \A h \in Guards : at'[h] = IF h = g THEN "held" ELSE at[h]
    BY <2>2 DEF Inv, TypeOK
  <2>4. /\ Readers' = Readers /\ Readers = {}
        /\ Writers' = {g} /\ Writers = {} /\ WaitingReaders' = WaitingReaders
        /\ WaitingWriters' = WaitingWriters \ {g}
    BY <1>1, <1>5, <1>7, <2>3, WriteGrantedSets
  <2>5. TypeOK'
    BY <1>1, <1>6, <2>1, <2>2 DEF Inv, TypeOK
  <2>6. CountsExact'
    BY <1>1, <1>2, <1>4, <2>1, <2>4 DEF CountsExact
  <2>7. StatusExact' /\ NoLostWakeup'
    BY <2>1, <2>4 DEF StatusExact, NoLostWakeup
  <2> QED
    BY <2>4, <2>5, <2>6, <2>7 DEF Inv, LockInv, Exclusion!AcquireWrite
<1>8. CASE eLockStatus # "IDLE"
  <2>1. /\ iWWaitingCount' = WWaitingNow(g) + 1 /\ hEvent' = FALSE
        /\ UNCHANGED eLockStatus
    BY <1>8 DEF LockUnique
  <2>2. at' = [at EXCEPT ![g] = "leaving"]
    BY <1>8 DEF LockUnique, Move
  <2>3. \A h \in Guards : at'[h] = IF h = g THEN "leaving" ELSE at[h]
    BY <2>2 DEF Inv, TypeOK
  <2>4. Readers' = Readers /\ Writers' = Writers
    BY <1>1, <2>3 DEF Readers, Writers
  <2>5. WaitingReaders' = WaitingReaders
    BY <1>1, <2>3 DEF WaitingReaders, Waits
  <2>6. WaitingWriters' = (WaitingWriters \ {g}) \cup {g}
    BY <1>1, <2>3 DEF WaitingWriters, Waits
  <2>7. TypeOK'
    <3>1. at' \in [Guards -> {"out", "enter", "held", "failed"} \cup Waits]
      BY <2>2 DEF Inv, TypeOK, Waits
    <3>2. hEvent' \in BOOLEAN
      BY <2>1
    <3>3. WWaitingNow(g) + 1 \in Nat
      BY <1>6
    <3> QED
      BY <1>1, <2>1, <3>1, <3>2, <3>3 DEF Inv, TypeOK, Waits
  <2>8. Cardinality((WaitingWriters \ {g}) \cup {g})
            = Cardinality(WaitingWriters \ {g}) + 1
    <3>1. WaitingWriters \ {g} \in SUBSET Guards
      BY Subsets
    <3> QED
      BY <3>1, CountIn
  <2>9. CountsExact'
    BY <1>1, <1>2, <1>4, <2>1, <2>4, <2>5, <2>6, <2>8 DEF CountsExact
  <2>10. StatusExact' /\ NoLostWakeup'
    BY <1>8, <2>1, <2>4 DEF Inv, LockInv, StatusExact, NoLostWakeup
  <2> QED
    BY <2>4, <2>7, <2>9, <2>10 DEF Inv, LockInv
<1> QED
  BY <1>7, <1>8

(* try_lock_shared and try_lock_unique.                                    *)
LEMMA TryLockInv ==
    ASSUME Inv, NEW g \in Guards, NEW m \in {"R", "W"}, TryLock(g, m)
    PROVE  /\ Inv'
           /\ \/ Exclusion!AcquireRead(g) \/ Exclusion!AcquireWrite(g)
              \/ UNCHANGED <<Readers, Writers>>
<1>1. /\ at[g] = "out" /\ mode' = [mode EXCEPT ![g] = m]
      /\ UNCHANGED <<iRWaitingCount, iWWaitingCount, hEvent>>
  BY DEF TryLock
<1>2. \A h \in Guards : mode'[h] = IF h = g THEN m ELSE mode[h]
  BY <1>1 DEF Inv, TypeOK
<1>3. g \notin WaitingReaders /\ g \notin WaitingWriters
  BY <1>1 DEF WaitingReaders, WaitingWriters, Waits
<1>4. CountsExact
  BY DEF Inv, LockInv
<1>5. CASE m = "R" /\ MayRead /\ eLockStatus' = "R"
           /\ iRLockCount' = iRLockCount + 1 /\ Move(g, "held")
  <2>1. \A h \in Guards : at'[h] = IF h = g THEN "held" ELSE at[h]
    BY <1>5 DEF Inv, TypeOK, Move
  <2>2. /\ Readers' = Readers \cup {g} /\ g \notin Readers
        /\ Writers' = Writers /\ Writers = {}
        /\ WaitingReaders' = WaitingReaders /\ WaitingWriters' = WaitingWriters
    BY <1>1, <1>2, <1>3, <1>5, <2>1, ReadGrantedSets
  <2>3. TypeOK'
    BY <1>1, <1>5 DEF Inv, TypeOK, Move
  <2>4. CountsExact'
    BY <1>1, <1>4, <1>5, <2>2, Subsets, CountIn DEF CountsExact
  <2>5. StatusExact' /\ NoLostWakeup'
    BY <1>5, <2>2 DEF StatusExact, NoLostWakeup
  <2> QED
    BY <2>2, <2>3, <2>4, <2>5 DEF Inv, LockInv, Exclusion!AcquireRead
<1>6. CASE m = "W" /\ eLockStatus = "IDLE" /\ eLockStatus' = "W"
           /\ iRLockCount' = iRLockCount /\ Move(g, "held")
  <2>1. \A h \in Guards : at'[h] = IF h = g THEN "held" ELSE at[h]
    BY <1>6 DEF Inv, TypeOK, Move
  <2>2. /\ Readers' = Readers /\ Readers = {}
        /\ Writers' = {g} /\ Writers = {}
        /\ WaitingReaders' = WaitingReaders /\ WaitingWriters' = WaitingWriters
    BY <1>1, <1>2, <1>3, <1>6, <2>1, WriteGrantedSets
  <2>3. TypeOK'
    BY <1>1, <1>6 DEF Inv, TypeOK, Move
  <2>4. CountsExact'
    BY <1>1, <1>4, <1>6, <2>2 DEF CountsExact
  <2>5. StatusExact' /\ NoLostWakeup'
    BY <1>6, <2>2 DEF StatusExact, NoLostWakeup
  <2> QED
    BY <2>2, <2>3, <2>4, <2>5 DEF Inv, LockInv, Exclusion!AcquireWrite
<1>7. CASE UNCHANGED <<eLockStatus, iRLockCount>> /\ Move(g, "failed")
  <2>1. \A h \in Guards : at'[h] = IF h = g THEN "failed" ELSE at[h]
    BY <1>7 DEF Inv, TypeOK, Move
  <2>2. /\ Readers' = Readers /\ Writers' = Writers
        /\ WaitingReaders' = WaitingReaders /\ WaitingWriters' = WaitingWriters
    BY <1>1, <1>2, <2>1, SameSets DEF Waits
  <2>3. TypeOK'
    BY <1>1, <1>7 DEF Inv, TypeOK, Move
  <2>4. CountsExact' /\ StatusExact'
    BY <1>1, <1>7, <2>2 DEF Inv, LockInv, CountsExact, StatusExact
  <2>5. NoLostWakeup'
    BY <1>1, <1>7, <2>1 DEF Inv, LockInv, NoLostWakeup
  <2> QED
    BY <2>2, <2>3, <2>4, <2>5 DEF Inv, LockInv
<1> QED
  BY <1>5, <1>6, <1>7 DEF TryLock

(* What unlock does to the four sets, whether or not it wakes anybody.     *)
LEMMA UnlockSets ==
    ASSUME Inv, NEW g \in Guards, Unlock(g)
    PROVE  /\ Readers' = Readers \ {g} /\ Writers' = Writers \ {g}
           /\ WaitingReaders' = WaitingReaders
           /\ WaitingWriters' = WaitingWriters
           /\ \A h \in Guards : at'[h] = "leaving" <=> at[h] = "leaving"
           /\ at' \in [Guards -> {"out", "enter", "held", "failed"} \cup Waits]
<1>1. at[g] = "held" /\ mode' = mode
  BY DEF Unlock
<1>2. \/ at' = [at EXCEPT ![g] = "out"]
      \/ at' = [h \in Guards |->
                    IF h = g THEN "out"
                    ELSE IF at[h] = "blocked" THEN "woken" ELSE at[h]]
  BY DEF Unlock, Wake, Move
<1>3. at \in [Guards -> {"out", "enter", "held", "failed"} \cup Waits]
  BY DEF Inv, TypeOK
<1>4. at' \in [Guards -> {"out", "enter", "held", "failed"} \cup Waits]
  BY <1>2, <1>3 DEF Waits
<1>5. at'[g] = "out"
  BY <1>2, <1>3
<1>6. \A h \in Guards \ {g} :
          \/ at'[h] = at[h]
          \/ at[h] = "blocked" /\ at'[h] = "woken"
  BY <1>2, <1>3
<1>7. \A h \in Guards \ {g} :
          /\ (at'[h] = "held") <=> (at[h] = "held")
          /\ (at'[h] \in Waits) <=> (at[h] \in Waits)
          /\ at'[h] = "leaving" <=> at[h] = "leaving"
  BY <1>6 DEF Waits
<1>8. Readers' = Readers \ {g} /\ Writers' = Writers \ {g}
  BY <1>1, <1>5, <1>7 DEF Readers, Writers
<1>9. WaitingReaders' = WaitingReaders /\ WaitingWriters' = WaitingWriters
  BY <1>1, <1>5, <1>7 DEF WaitingReaders, WaitingWriters, Waits
<1> QED
  BY <1>1, <1>4, <1>5, <1>7, <1>8, <1>9

(* unlock.                                                                 *)
LEMMA UnlockInv ==
    ASSUME Inv, NEW g \in Guards, Unlock(g)
    PROVE  Inv' /\ Exclusion!Release(g)
<1>1. /\ at[g] = "held"
      /\ iRLockCount' = IF iRLockCount > 0 THEN iRLockCount - 1 ELSE 0
      /\ UNCHANGED <<iRWaitingCount, iWWaitingCount, mode>>
  BY DEF Unlock
<1>2. CountsExact /\ StatusExact /\ NoLostWakeup /\ TypeOK
  BY DEF Inv, LockInv
<1>3. g \in Readers \/ g \in Writers
  BY <1>1, <1>2 DEF Readers, Writers, TypeOK
<1>4. iRLockCount' = Cardinality(Readers')
  <2>1. CASE g \in Readers
    <3>1. Cardinality(Readers) # 0
      BY <2>1, Subsets, CountType
    <3>2. Cardinality(Readers') = Cardinality(Readers) - 1
      BY <2>1, Subsets, CountOut, UnlockSets
    <3> QED
      BY <1>1, <1>2, <3>1, <3>2, Subsets, CountType DEF CountsExact
  <2>2. CASE g \notin Readers
    <3>1. Readers = {} /\ Readers' = {}
      BY <1>2, <1>3, <2>2, UnlockSets DEF StatusExact, TypeOK
    <3> QED
      BY <1>1, <1>2, <3>1, Subsets, CountType DEF CountsExact
  <2> QED
    BY <2>1, <2>2
<1>5. CountsExact'
  BY <1>1, <1>2, <1>4, UnlockSets DEF CountsExact
<1>6. iRLockCount \in Nat
  BY <1>2 DEF TypeOK
<1>rel. Exclusion!Release(g)
  BY <1>3, UnlockSets DEF Exclusion!Release
<1>7. CASE iRLockCount > 1
  <2>1. eLockStatus' = eLockStatus /\ hEvent' = hEvent
    BY <1>7 DEF Unlock
  <2>2. Readers' # {}
    BY <1>1, <1>4, <1>6, <1>7, CountType, UnlockSets, Subsets
  <2>3. Readers # {}
    BY <2>2, UnlockSets
  <2>4. eLockStatus = "R" /\ Writers = {}
    BY <1>2, <2>3 DEF StatusExact, TypeOK
  <2>5. StatusExact' /\ NoLostWakeup'
    BY <2>1, <2>2, <2>4, UnlockSets DEF StatusExact, NoLostWakeup
  <2>6. TypeOK'
    BY <1>1, <1>2, <1>6, <1>7, <2>1, UnlockSets DEF TypeOK
  <2> QED
    BY <1>5, <1>rel, <2>5, <2>6 DEF Inv, LockInv
<1>8. CASE ~(iRLockCount > 1)
  <2>1. eLockStatus' = "IDLE" /\ Wake(g)
    BY <1>8 DEF Unlock
  <2>2. iRLockCount' = 0
    BY <1>1, <1>6, <1>8
  <2>3. Readers' = {}
    BY <1>4, <2>2, CountType, UnlockSets, Subsets
  <2>4. Writers' = {}
    <3>1. CASE g \in Writers
      BY <1>2, <3>1, UnlockSets DEF StatusExact, TypeOK
    <3>2. CASE g \notin Writers
      BY <1>2, <1>3, <3>2, UnlockSets DEF StatusExact, TypeOK
    <3> QED
      BY <3>1, <3>2
  <2>5. hEvent' \in BOOLEAN
    BY <1>2, <2>1 DEF Wake, TypeOK
  <2>6. TypeOK'
    BY <1>1, <1>2, <2>1, <2>2, <2>5, UnlockSets DEF TypeOK
  <2>7. NoLostWakeup'
    <3>1. CASE SomebodyWaits
      <4>1. hEvent' = TRUE /\ at' = [h \in Guards |->
                IF h = g THEN "out"
                ELSE IF at[h] = "blocked" THEN "woken" ELSE at[h]]
        BY <2>1, <3>1 DEF Wake
      <4> QED
        BY <4>1 DEF NoLostWakeup
    <3>2. CASE ~SomebodyWaits
      <4>1. WaitingReaders = {} /\ WaitingWriters = {}
        BY <1>2, <3>2, Subsets, CountType DEF SomebodyWaits, CountsExact, TypeOK
      <4>2. \A h \in Guards : at[h] \notin Waits
        BY <1>2, <4>1 DEF WaitingReaders, WaitingWriters, TypeOK
      <4>3. at' = [at EXCEPT ![g] = "out"]
        BY <2>1, <3>2 DEF Wake, Move
      <4> QED
        BY <1>2, <4>2, <4>3 DEF NoLostWakeup, Waits, TypeOK
    <3> QED
      BY <3>1, <3>2
  <2>8. StatusExact'
    BY <2>1, <2>3, <2>4 DEF StatusExact
  <2> QED
    BY <1>5, <1>rel, <2>6, <2>7, <2>8 DEF Inv, LockInv
<1> QED
  BY <1>7, <1>8

(* The counters, the status and the event mean what they should, and no    *)
(* wake-up is lost, for any number of guards and threads.                  *)
THEOREM LockInvariant == Spec => [](TypeOK /\ LockInv)
<1>1. Init => Inv
  <2> SUFFICES ASSUME Init PROVE Inv
    OBVIOUS
  <2>1. TypeOK
    BY DEF Init, TypeOK, Waits
  <2>2. /\ Readers = {} /\ Writers = {}
        /\ WaitingReaders = {} /\ WaitingWriters = {}
    BY DEF Init, Readers, Writers, WaitingReaders, WaitingWriters, Waits
  <2>3. Cardinality({}) = 0
    BY FS_EmptySet
  <2>4. NoLostWakeup
    BY DEF Init, NoLostWakeup
  <2> QED
    BY <2>1, <2>2, <2>3, <2>4 DEF Init, Inv, LockInv, CountsExact, StatusExact
<1>2. Inv /\ [Next]_vars => Inv'
  <2> SUFFICES ASSUME Inv, [Next]_vars
               PROVE  Inv'
    OBVIOUS
  <2>1. CASE Next
    BY <2>1, ConstructInv, TryLockInv, LockSharedInv, LockUniqueInv, WaitInv,
       UnlockInv, ForgetInv DEF Next, Lock
  <2>2. CASE UNCHANGED vars
    BY <2>2 DEF vars, lock, Inv, TypeOK, LockInv, CountsExact, StatusExact,
                NoLostWakeup, Readers, Writers, WaitingReaders, WaitingWriters
  <2> QED
    BY <2>1, <2>2
<1> QED
  BY <1>1, <1>2, PTL DEF Spec, Inv

(* RWLock implements a read/write lock: no step lets a writer in beside    *)
(* anybody, nor a reader in beside a writer.                               *)
THEOREM ImplementsExclusion == Spec => ExclusionSpec
<1>1. Init => Exclusion!Init
  BY DEF Init, Exclusion!Init, Readers, Writers
<1>2. Inv /\ [Next]_vars => [Exclusion!Next]_<<Readers, Writers>>
  <2> SUFFICES ASSUME Inv, [Next]_vars
               PROVE  [Exclusion!Next]_<<Readers, Writers>>
    OBVIOUS
  <2>1. CASE Next
    <3>1. PICK g \in Guards :
              \/ \E m \in {"R", "W"} : Construct(g, m) \/ TryLock(g, m)
              \/ Lock(g) \/ Wait(g) \/ Unlock(g) \/ Forget(g)
      BY <2>1 DEF Next
    <3>2. \/ Exclusion!AcquireRead(g) \/ Exclusion!AcquireWrite(g)
          \/ Exclusion!Release(g) \/ UNCHANGED <<Readers, Writers>>
      BY <3>1, ConstructInv, TryLockInv, LockSharedInv, LockUniqueInv, WaitInv,
         UnlockInv, ForgetInv DEF Lock
    <3> QED
      BY <3>2 DEF Exclusion!Next
  <2>2. CASE UNCHANGED vars
    BY <2>2 DEF vars, Readers, Writers
  <2> QED
    BY <2>1, <2>2
<1> QED
  BY <1>1, <1>2, LockInvariant, PTL DEF Spec, ExclusionSpec, Exclusion!Spec, Inv
==============================================================================

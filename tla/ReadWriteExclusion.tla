-------------------------- MODULE ReadWriteExclusion --------------------------
(***************************************************************************)
(* What a read/write lock is for: readers share, a writer is alone.        *)
(***************************************************************************)
EXTENDS FiniteSets

CONSTANT Guards            \* the guard objects that take the lock

VARIABLES readers, writers \* the guards that hold it

Init == readers = {} /\ writers = {}

AcquireRead(g) ==
    /\ writers = {} /\ g \notin readers
    /\ readers' = readers \cup {g}
    /\ UNCHANGED writers

AcquireWrite(g) ==
    /\ writers = {} /\ readers = {}
    /\ writers' = {g}
    /\ UNCHANGED readers

Release(g) ==
    /\ g \in readers \cup writers
    /\ readers' = readers \ {g}
    /\ writers' = writers \ {g}

Next == \E g \in Guards : AcquireRead(g) \/ AcquireWrite(g) \/ Release(g)

Spec == Init /\ [][Next]_<<readers, writers>>
==============================================================================

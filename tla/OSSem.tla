------------------------------- MODULE OSSem -------------------------------
(* COSSema of common/Locker/OSSem.h: a semaphore of the system together with *)
(* a count of its own.  Post raises the count BEFORE it releases the         *)
(* semaphore and Wait lowers it AFTER the semaphore let it through, each by  *)
(* an interlocked operation of its own; a release the system refuses is      *)
(* taken back.  Whoever reads Count() can do so between any two of these.    *)
EXTENDS Integers, FiniteSets

CONSTANTS
    Threads,    \* threads that post and wait
    Initial,    \* initValue of the constructor
    Limit,      \* the semaphore's maximum and the largest long, 0x7FFFFFFF
    MaxPost     \* most units one PostN releases

ASSUME SemaAssumption ==
    /\ IsFiniteSet(Threads)
    /\ Limit \in Nat /\ Initial \in 0..Limit /\ MaxPost \in 0..Limit

VARIABLES
    sema,       \* the system's semaphore: units a wait can take
    count,      \* _count
    step,       \* thread -> the place it has reached
    units       \* thread -> n of its PostN
semaVars == <<sema, count, step, units>>

SemaInit ==
    /\ sema = Initial
    /\ count = Initial
    /\ step = [t \in Threads |-> "idle"]
    /\ units = [t \in Threads |-> 0]

\* a long, which wraps past its largest value
Long(n) == ((n + Limit + 1) % (2 * (Limit + 1))) - (Limit + 1)

At(t, from, to) == step[t] = from /\ step' = [step EXCEPT ![t] = to]

\* not the code: the units released are not counted
PostWithoutCounting(t) ==
    \E n \in 1..MaxPost :
        /\ At(t, "idle", "release")
        /\ units' = [units EXCEPT ![t] = n]
        /\ UNCHANGED <<sema, count>>

\* PostN: the count is raised first
PostN(t) ==
    \E n \in 1..MaxPost :
        /\ At(t, "idle", "release")
        /\ units' = [units EXCEPT ![t] = n]
        /\ count' = Long(count + n)
        /\ UNCHANGED sema

\* ... the semaphore is released.  While that would exceed its maximum the
\* thread sleeps a millisecond and tries again.
Release(t) ==
    /\ At(t, "release", "idle")
    /\ sema + units[t] <= Limit
    /\ sema' = sema + units[t]
    /\ units' = [units EXCEPT ![t] = 0]
    /\ UNCHANGED count

\* ... or the release fails for another reason
ReleaseFails(t) ==
    /\ At(t, "release", "undo")
    /\ UNCHANGED <<sema, count, units>>

\* ... and the count goes back
TakeBack(t) ==
    /\ At(t, "undo", "idle")
    /\ count' = Long(count - units[t])
    /\ units' = [units EXCEPT ![t] = 0]
    /\ UNCHANGED sema

\* Wait(milliseconds_timeout).  The semaphore lets the thread through.  A wait
\* that times out changes nothing and returns FALSE.
WaitTakes(t) ==
    /\ At(t, "idle", "lower")
    /\ sema > 0
    /\ sema' = sema - 1
    /\ UNCHANGED <<count, units>>

Lower(t) ==
    /\ At(t, "lower", "idle")
    /\ count' = Long(count - 1)
    /\ UNCHANGED <<sema, units>>

SemaNext ==
    \E t \in Threads :
        \/ PostN(t)
        \/ Release(t)
        \/ ReleaseFails(t)
        \/ TakeBack(t)
        \/ WaitTakes(t)
        \/ Lower(t)

SemaSpec == SemaInit /\ [][SemaNext]_semaVars

Posting(t) == step[t] \in {"release", "undo"}
\* the units of the calls of PostN that are not over
Pending == {u \in Threads \X (1..MaxPost) : Posting(u[1]) /\ u[2] <= units[u[1]]}
Lowering == {t \in Threads : step[t] = "lower"}

\* The count is the semaphore's value and what is under way: the units of each
\* PostN that is not over and one for each wait that was let through and has
\* not lowered it yet, as far as a long can tell.  So a post that is refused
\* leaves no trace, Count() agrees with the semaphore whenever no call is under
\* way, and below the largest long no VERIFY of Wait and PostN fails: a thread
\* about to lower the count finds at least its own share in it.
CountCovers == count = Long(sema + Cardinality(Pending) + Cardinality(Lowering))
=============================================================================

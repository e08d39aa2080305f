------------------------------- MODULE MCRWLock -------------------------------
(* The instances of RWLock that TLC checks.                                *)
EXTENDS RWLock, TLC

CONSTANTS g1, g2, g3, t1, t2, t3

ThreeGuards == {g1, g2, g3}

\* Every guard in a thread of its own.
OnePerThread == g1 :> t1 @@ g2 :> t2 @@ g3 :> t3

\* Two guards in nested scopes of one thread, the third in another.
Nested == g1 :> t1 @@ g2 :> t1 @@ g3 :> t2
==============================================================================

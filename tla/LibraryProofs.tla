------------------------ MODULE LibraryProofs ------------------------------
(* The parts beside the program.  For every iSecond, every length and any    *)
(* number of calls: what the calls with a time-out report is what the socket *)
(* moved, and they make no more selects than their time and their bytes      *)
(* allow.  For any number of threads: what the semaphore's count says.  For  *)
(* any titles, indentations and lengths: the XML text is well formed.  For   *)
(* any objects and limits: the simple logs keep their lines.  For any texts: *)
(* what the text functions are given is kept.  Last, all of this of the      *)
(* specification that has the parts side by side.                            *)
EXTENDS Libraries, TextsProofs

\* iSecond and iLen of the calls
Arguments == Seconds \subseteq Nat /\ Lengths \subseteq Nat \ {0}

Typed ==
    /\ op \in {"none", "send", "recv", "recvonce"}
    /\ len \in Nat /\ iSecond \in Nat /\ iIndex \in Nat /\ iCount \in Int /\ waits \in Nat
    /\ told \in [Ways -> Nat] /\ moved \in [Ways -> Nat] /\ failed \subseteq Ways

\* While a call is under way it has bytes left to move, and each select it made
\* cost it a half second or moved a byte at least.
UnderWay ==
    op # "none" =>
        /\ iIndex < len
        /\ iCount \in Nat
        /\ op = "recvonce" => iIndex = 0
        /\ waits <= Waited * iSecond - iCount + iIndex

IInv == Typed /\ UnderWay /\ InTime /\ InStep

LEMMA InitHolds == Init => IInv
BY DEF Init, IInv, Typed, UnderWay, InTime, InStep, Zero, Ways, Waited

\* Calls that make or close a connection, and what the far end does: no call is
\* under way whose account they change.
LEMMA OutsideKeeps ==
    ASSUME IInv,
           \/ Connect \/ ConnectWithTimeout \/ Close
           \/ PeerSends \/ PeerTakes \/ PeerGone
    PROVE  IInv'
<1>1. CASE Connect \/ ConnectWithTimeout
  <2>1. op = "none" /\ UNCHANGED <<op, len, iSecond, iIndex, iCount, waits>>
    BY <1>1 DEF Connect, ConnectWithTimeout, NewCall, mem
  <2>2. Typed' /\ UnderWay' /\ InTime'
    <3>1. \/ told' = Zero /\ moved' = Zero /\ failed' = {}
          \/ UNCHANGED <<told, moved, failed>>
      BY <1>1 DEF Connect, ConnectWithTimeout, Fresh, bytes
    <3> QED
      BY <2>1, <3>1 DEF IInv, Typed, UnderWay, InTime, Zero
  <2>3. told' = Zero /\ moved' = Zero => InStep'
    <3> SUFFICES ASSUME told' = Zero /\ moved' = Zero
                 PROVE  InStep'
      OBVIOUS
    <3>1. \A d \in Ways : moved'[d] = 0 /\ told'[d] = 0
      BY DEF Zero
    <3> QED
      BY <2>1, <3>1 DEF InStep
  <2>4. UNCHANGED <<told, moved, failed>> => InStep'
    <3> SUFFICES ASSUME UNCHANGED <<told, moved, failed>>
                 PROVE  InStep'
      OBVIOUS
    <3>1. \A d \in Ways \ failed : moved[d] = told[d] + 0
      BY <2>1 DEF IInv, InStep
    <3> QED
      BY <2>1, <3>1 DEF InStep
  <2>5. (told' = Zero /\ moved' = Zero) \/ UNCHANGED <<told, moved, failed>>
    BY <1>1 DEF Connect, ConnectWithTimeout, Fresh, bytes
  <2> QED
    BY <2>2, <2>3, <2>4, <2>5 DEF IInv
<1>3. CASE Close
  BY <1>3 DEF IInv, Typed, UnderWay, InTime, InStep, Close, NewCall, mem, bytes, wire, Ways, Way
<1>4. CASE PeerSends \/ PeerTakes \/ PeerGone
  BY <1>4 DEF IInv, Typed, UnderWay, InTime, InStep, PeerSends, PeerTakes, PeerGone, mem, bytes,
              wire, Ways, Way
<1> QED
  BY <1>1, <1>3, <1>4

\* A call that begins has moved nothing and has its whole time.
LEMMA BeginKeeps ==
    ASSUME Arguments, IInv, NEW call \in {"send", "recv", "recvonce"}, Begin(call)
    PROVE  IInv'
<1>1. PICK s \in Seconds, n \in Lengths :
          op' = call /\ len' = n /\ iSecond' = s /\ iIndex' = 0 /\ iCount' = Waited * s /\ waits' = 0
  BY DEF Begin
<1>2. UNCHANGED <<told, moved, failed>> /\ op = "none"
  BY DEF Begin, NewCall, bytes
<1>3. s \in Nat /\ n \in Nat /\ n > 0
  BY DEF Arguments
<1>4. Typed' /\ UnderWay' /\ InTime'
  BY <1>1, <1>2, <1>3 DEF IInv, Typed, UnderWay, InTime, Waited
<1>5. InStep'
  BY <1>1, <1>2 DEF IInv, Typed, InStep, Ways, Way
<1> QED
  BY <1>4, <1>5 DEF IInv

\* What Proceed does with the bytes moved so far.
LEMMA ProceedCounts ==
    ASSUME Typed, op # "none", NEW n \in Nat, n > 0, n <= len, Proceed(n),
           UNCHANGED len
    PROVE  /\ iIndex' = n
           /\ op' # "none" => n < len /\ op' = op /\ op # "recvonce"
           /\ failed' = failed
           /\ told' = IF op' = "none" THEN [told EXCEPT ![Way] = @ + n] ELSE told
BY DEF Proceed, Return, Typed

\* A select that finds the socket ready: it moves at least a byte.
LEMMA MoveKeeps ==
    ASSUME IInv, NEW n \in 1..(len - iIndex), op # "none",
           moved' = [moved EXCEPT ![Way] = @ + n],
           Proceed(iIndex + n),
           waits' \in {waits, waits + 1},
           UNCHANGED <<len, iSecond, iCount>>
    PROVE  IInv'
<1>1. Typed /\ n \in Nat /\ n > 0 /\ iIndex + n <= len /\ iIndex + n \in Nat /\ iIndex + n > 0
  BY DEF IInv, Typed
<1>2. /\ iIndex' = iIndex + n
      /\ op' # "none" => iIndex + n < len /\ op' = op /\ op # "recvonce"
      /\ failed' = failed
      /\ told' = IF op' = "none" THEN [told EXCEPT ![Way] = @ + (iIndex + n)] ELSE told
  BY <1>1, ProceedCounts
<1>3. Way \in Ways /\ op' \in {"none", op}
  BY <1>2 DEF Way, Ways
<1>4. Typed'
  BY <1>1, <1>2, <1>3 DEF Typed
<1>5. UnderWay' /\ InTime'
  BY <1>1, <1>2 DEF IInv, UnderWay, InTime, Typed, Waited
<1>6. InStep'
  <2> SUFFICES ASSUME NEW d \in Ways \ failed'
               PROVE  moved'[d] = told'[d] + (IF op' # "none" /\ Way' = d THEN iIndex' ELSE 0)
    BY DEF InStep
  <2>1. moved[d] = told[d] + (IF Way = d THEN iIndex ELSE 0)
    BY <1>2 DEF IInv, InStep
  <2>2. moved[d] \in Nat /\ told[d] \in Nat /\ d \in Ways
    BY <1>1 DEF Typed
  <2>3. moved'[d] = IF Way = d THEN moved[d] + n ELSE moved[d]
    BY <1>1, <2>2 DEF Typed
  <2>4. op' # "none" => Way' = Way
    BY <1>2 DEF Way
  <2>5. told'[d] = IF op' = "none" /\ Way = d THEN told[d] + (iIndex + n) ELSE told[d]
    BY <1>1, <1>2, <2>2 DEF Typed
  <2> QED
    BY <1>1, <1>2, <2>1, <2>2, <2>3, <2>4, <2>5 DEF Typed
<1> QED
  BY <1>4, <1>5, <1>6 DEF IInv

\* A call that ends without moving a byte in this step: it reports what it moved
\* before, or -1 and that direction counts as failed.
LEMMA EndKeeps ==
    ASSUME IInv, op # "none", NEW n \in {-1, iIndex}, Return(n),
           waits' = waits + 1,
           iCount' \in {iCount, iCount - 1},
           UNCHANGED <<len, iSecond, iIndex, moved>>
    PROVE  IInv'
<1>1. op' = "none" /\ iCount' \in Int /\ Way \in Ways
  BY DEF Return, IInv, Typed, Way, Ways
<1>2. InTime'
  BY DEF IInv, Typed, UnderWay, InTime, Waited
<1>3. CASE n = -1
  <2>1. told' = told /\ failed' = failed \cup {Way}
    BY <1>3 DEF Return
  <2>2. InStep'
    BY <1>1, <2>1 DEF IInv, InStep, Typed
  <2> QED
    BY <1>1, <1>2, <2>1, <2>2 DEF IInv, Typed, UnderWay
<1>4. CASE n = iIndex
  <2>1. failed' = failed /\ told' = IF iIndex > 0 THEN [told EXCEPT ![Way] = @ + iIndex] ELSE told
    BY <1>4 DEF Return, IInv, Typed
  <2>2. told' \in [Ways -> Nat]
    BY <1>1, <2>1 DEF IInv, Typed
  <2>3. \A d \in Ways : told'[d] = told[d] + (IF Way = d THEN iIndex ELSE 0)
    BY <1>1, <2>1 DEF IInv, Typed
  <2>4. InStep'
    BY <1>1, <2>1, <2>3 DEF IInv, InStep, Typed
  <2> QED
    BY <1>1, <1>2, <2>1, <2>2, <2>4 DEF IInv, Typed, UnderWay
<1> QED
  BY <1>3, <1>4

LEMMA CallStepKeeps ==
    ASSUME IInv, CallStep
    PROVE  IInv'
<1>1. CASE SendSome
  <2>1. PICK n \in 1..(len - iIndex) :
            moved' = [moved EXCEPT !["send"] = @ + n] /\ Proceed(iIndex + n)
    BY <1>1 DEF SendSome
  <2>2. op = "send" /\ Way = "send"
    BY <1>1 DEF SendSome, Way
  <2>3. waits' \in {waits, waits + 1} /\ UNCHANGED <<len, iSecond, iCount>>
    BY <1>1 DEF SendSome, Same
  <2> QED
    BY <2>1, <2>2, <2>3, MoveKeeps
<1>2. CASE RecvSome
  <2>1. PICK n \in 1..(len - iIndex) :
            moved' = [moved EXCEPT !["recv"] = @ + n] /\ Proceed(iIndex + n)
    BY <1>2 DEF RecvSome
  <2>2. op # "none" /\ Way = "recv"
    BY <1>2 DEF RecvSome, Way
  <2>3. waits' \in {waits, waits + 1} /\ UNCHANGED <<len, iSecond, iCount>>
    BY <1>2 DEF RecvSome, Same
  <2> QED
    BY <2>1, <2>2, <2>3, MoveKeeps
<1>3. CASE Fails
  <2>1. /\ op # "none" /\ waits' = waits + 1
        /\ UNCHANGED <<len, iSecond, iIndex, iCount, moved>>
        /\ Return(-1) \/ (op = "recvonce" /\ Return(0))
    BY <1>3 DEF Fails, Same
  <2>2. op = "recvonce" => iIndex = 0
    BY DEF IInv, UnderWay
  <2>3. CASE Return(-1)
    BY <2>1, <2>3, EndKeeps
  <2>4. CASE op = "recvonce" /\ Return(0)
    <3>1. Return(iIndex)
      BY <2>2, <2>4
    <3> QED
      BY <2>1, <3>1, EndKeeps
  <2> QED
    BY <2>1, <2>3, <2>4
<1>4. CASE HalfSecond
  <2>1. /\ op \in {"send", "recv"} /\ iCount' = iCount - 1 /\ waits' = waits + 1
        /\ UNCHANGED <<len, iSecond, iIndex, moved>>
    BY <1>4 DEF HalfSecond, Same
  <2>2. CASE iCount' < 0 /\ Return(iIndex)
    BY <2>1, <2>2, EndKeeps
  <2>3. CASE iCount' >= 0 /\ UNCHANGED <<op, told, failed>>
    <3>1. InStep'
      BY <2>1, <2>3 DEF IInv, InStep, Way
    <3> QED
      BY <2>1, <2>3, <3>1 DEF IInv, Typed, UnderWay, InTime, Waited
  <2> QED
    BY <1>4, <2>2, <2>3 DEF HalfSecond
<1>5. CASE OnceTimesOut
  <2>1. op = "recvonce" /\ iIndex = 0
    BY <1>5 DEF OnceTimesOut, IInv, UnderWay
  <2> QED
    BY <1>5, <2>1, EndKeeps DEF OnceTimesOut, Same
<1> QED
  BY <1>1, <1>2, <1>3, <1>4, <1>5 DEF CallStep

LEMMA NextKeeps ==
    ASSUME Arguments, IInv, [Next]_sockVars
    PROVE  IInv'
<1>1. CASE Connect \/ ConnectWithTimeout \/ Close \/ PeerSends \/ PeerTakes \/ PeerGone
  BY <1>1, OutsideKeeps
<1>2. CASE BeginSend \/ BeginRecv \/ BeginRecvOnce
  BY <1>2, BeginKeeps DEF BeginSend, BeginRecv, BeginRecvOnce
<1>3. CASE CallStep
  BY <1>3, CallStepKeeps
<1>4. CASE UNCHANGED sockVars
  BY <1>4 DEF sockVars, mem, bytes, wire, IInv, Typed, UnderWay, InTime, InStep, Way
<1> QED
  BY <1>1, <1>2, <1>3, <1>4 DEF Next

\* Until a call returns -1, the bytes the callers were told of are the bytes the
\* socket moved: SendWithTimeout, RecvWithTimeout and RecvOnceWithTimeout lose
\* none when their time runs out.
THEOREM InStepHolds ==
    ASSUME Arguments
    PROVE  Spec => []InStep
<1>1. Init => IInv
  BY InitHolds
<1>2. IInv /\ [Next]_sockVars => IInv'
  BY NextKeeps
<1>3. IInv => InStep
  BY DEF IInv
<1> QED
  BY <1>1, <1>2, <1>3, PTL DEF Spec

\* A call makes at most one select more than twice its iSecond and its bytes:
\* counting half seconds bounds the time of a call, though not by its iSecond.
THEOREM InTimeHolds ==
    ASSUME Arguments
    PROVE  Spec => []InTime
<1>1. Init => IInv
  BY InitHolds
<1>2. IInv /\ [Next]_sockVars => IInv'
  BY NextKeeps
<1>3. IInv => InTime
  BY DEF IInv
<1> QED
  BY <1>1, <1>2, <1>3, PTL DEF Spec
------------------------------------------------------------------------------
(* The semaphore.  A long wraps, so its count is one only as far as a long can *)
(* tell: what is added to it may be added before or after it wrapped.          *)

LEMMA ModUnique ==
    ASSUME NEW m \in Nat, m > 0, NEW q \in Int, NEW r \in Int, 0 <= r, r < m
    PROVE  (m * q + r) % m = r
OBVIOUS

LEMMA DivMod ==
    ASSUME NEW m \in Nat, m > 0, NEW a \in Int
    PROVE  /\ a \div m \in Int /\ a % m \in Int /\ 0 <= a % m /\ a % m < m
           /\ a = m * (a \div m) + (a % m)
OBVIOUS

LEMMA ModAdds ==
    ASSUME NEW m \in Nat, m > 0, NEW a \in Int, NEW n \in Int
    PROVE  ((a % m) + n) % m = (a + n) % m
<1>1. PICK p \in Int, r \in Int : 0 <= r /\ r < m /\ a = m * p + r /\ a % m = r
  BY DivMod
<1>2. PICK q \in Int, s \in Int : 0 <= s /\ s < m /\ r + n = m * q + s /\ (r + n) % m = s
  <2>1. r + n \in Int
    OBVIOUS
  <2> QED
    BY <2>1, DivMod
<1>3. p + q \in Int /\ a + n = m * (p + q) + s
  <2>1. m * (p + q) = m * p + m * q
    OBVIOUS
  <2>2. m * p \in Int /\ m * q \in Int /\ m * (p + q) \in Int
    OBVIOUS
  <2> QED
    BY <1>1, <1>2, <2>1, <2>2
<1>4. (m * (p + q) + s) % m = s
  BY <1>2, <1>3, ModUnique
<1> QED
  BY <1>1, <1>2, <1>3, <1>4

LEMMA LongAdds ==
    ASSUME NEW x \in Int, NEW n \in Int
    PROVE  Long(x) \in Int /\ Long(Long(x) + n) = Long(x + n)
<1> DEFINE M == 2 * (Limit + 1)
           r == (x + Limit + 1) % M
<1>1. Limit \in Nat /\ M \in Nat /\ M > 0
  BY SemaAssumption
<1>2. r \in Int
  BY <1>1, DivMod
<1>3. Long(x) = r - (Limit + 1)
  BY DEF Long
<1> HIDE DEF r, M
<1>4. Long(x) + n + Limit + 1 = r + n
  BY <1>1, <1>2, <1>3
<1>5. (r + n) % M = ((x + Limit + 1) + n) % M
  <2>1. x + Limit + 1 \in Int
    BY <1>1
  <2> QED
    BY <1>1, <2>1, ModAdds DEF r
<1>6. (x + Limit + 1) + n = (x + n) + Limit + 1
  BY <1>1
<1>7. Long(Long(x) + n) = ((r + n) % M) - (Limit + 1)
  BY <1>4 DEF Long, M
<1>8. Long(x + n) = (((x + n) + Limit + 1) % M) - (Limit + 1)
  BY DEF Long, M
<1> QED
  BY <1>1, <1>2, <1>3, <1>5, <1>6, <1>7, <1>8

\* the units of one call
Row(t, n) == {t} \X (1..n)

LEMMA RowCounts ==
    ASSUME NEW t, NEW n \in Nat
    PROVE  IsFiniteSet(Row(t, n)) /\ Cardinality(Row(t, n)) = n
<1>1. IsFiniteSet(1..n) /\ Cardinality(1..n) = n
  <2>1. 1 \in Int /\ n \in Int /\ (1 > n => n = 0)
    OBVIOUS
  <2>2. IsFiniteSet(1..n) /\ Cardinality(1..n) = IF 1 > n THEN 0 ELSE n - 1 + 1
    BY <2>1, FS_Interval
  <2> QED
    BY <2>1, <2>2
<1>2. IsFiniteSet({t}) /\ Cardinality({t}) = 1
  BY FS_Singleton
<1>3. IsFiniteSet(Row(t, n)) /\ Cardinality(Row(t, n)) = 1 * n
  BY <1>1, <1>2, FS_Product DEF Row
<1> QED
  BY <1>3

LEMMA UnionCounts ==
    ASSUME NEW S, NEW T, IsFiniteSet(S), IsFiniteSet(T), S \cap T = {}
    PROVE  /\ IsFiniteSet(S \cup T) /\ Cardinality(S) \in Nat /\ Cardinality(T) \in Nat
           /\ Cardinality(S \cup T) = Cardinality(S) + Cardinality(T)
<1>1. Cardinality(S) \in Nat /\ Cardinality(T) \in Nat
  BY FS_CardinalityType
<1>2. Cardinality(S \cap T) = 0
  BY FS_EmptySet
<1>3. /\ IsFiniteSet(S \cup T)
      /\ Cardinality(S \cup T) = Cardinality(S) + Cardinality(T) - Cardinality(S \cap T)
  BY FS_Union
<1> QED
  BY <1>1, <1>2, <1>3

SemaTyped ==
    /\ sema \in Nat /\ count \in Int
    /\ step \in [Threads -> {"idle", "release", "undo", "lower"}]
    /\ units \in [Threads -> 0..MaxPost]

SemaInv == SemaTyped /\ CountCovers

LEMMA PendingFinite ==
    IsFiniteSet(Pending) /\ IsFiniteSet(Lowering)
    /\ Cardinality(Pending) \in Nat /\ Cardinality(Lowering) \in Nat
<1>1. IsFiniteSet(Threads) /\ MaxPost \in Int
  BY SemaAssumption
<1>2. IsFiniteSet(1..MaxPost)
  BY <1>1, FS_Interval
<1>3. IsFiniteSet(Threads \X (1..MaxPost))
  BY <1>1, <1>2, FS_Product
<1>4. IsFiniteSet(Pending)
  BY <1>3, FS_Subset DEF Pending
<1>5. IsFiniteSet(Lowering)
  BY <1>1, FS_Subset DEF Lowering
<1> QED
  BY <1>4, <1>5, FS_CardinalityType

\* A call that begins to post, and one that is over, has the row of its units.
LEMMA PendingChanges ==
    ASSUME SemaTyped, NEW t \in Threads,
           NEW from, NEW to, At(t, from, to),
           \A p \in Threads \ {t} : units'[p] = units[p]
    PROVE  /\ from = "idle" /\ to = "release" /\ units'[t] \in 0..MaxPost
                => /\ Pending' = Pending \cup Row(t, units'[t])
                   /\ Pending \cap Row(t, units'[t]) = {}
           /\ from \in {"release", "undo"} /\ to = "idle"
                => /\ Pending = Pending' \cup Row(t, units[t])
                   /\ Pending' \cap Row(t, units[t]) = {}
<1>1. step[t] = from /\ step'[t] = to /\ \A p \in Threads \ {t} : step'[p] = step[p]
  BY DEF At, SemaTyped
<1>2. MaxPost \in Nat /\ units[t] \in 0..MaxPost
  BY SemaAssumption DEF SemaTyped
<1> QED
  BY <1>1, <1>2 DEF Pending, Posting, Row

\* The sum of the invariant.
Sum == sema + Cardinality(Pending) + Cardinality(Lowering)

\* A step that adds as much to the count as to the sum, or nothing to both.
LEMMA SumMoves ==
    ASSUME SemaInv, NEW n \in Int, Sum \in Int, Sum' = Sum + n,
           count' = Long(count + n) \/ (n = 0 /\ count' = count)
    PROVE  count' \in Int /\ CountCovers'
<1>1. count = Long(Sum) /\ count \in Int
  BY DEF SemaInv, SemaTyped, CountCovers, Sum
<1>2. Long(Sum + n) = Long(count + n) /\ Long(count + n) \in Int
  <2>1. count + n \in Int
    BY <1>1
  <2> QED
    BY <1>1, <2>1, LongAdds
<1>3. CountCovers' <=> count' = Long(Sum')
  BY DEF CountCovers, Sum, Long
<1>4. CASE count' = Long(count + n)
  BY <1>2, <1>3, <1>4
<1>5. CASE n = 0 /\ count' = count
  <2>1. Sum' = Sum
    BY <1>5
  <2> QED
    BY <1>1, <1>3, <1>5, <2>1
<1> QED
  BY <1>4, <1>5

LEMMA SemaInitHolds == SemaInit => SemaInv
<1> SUFFICES ASSUME SemaInit PROVE SemaInv
  OBVIOUS
<1>1. Limit \in Nat /\ Initial \in Nat /\ Initial <= Limit /\ MaxPost \in Nat
  BY SemaAssumption
<1>2. SemaTyped
  BY <1>1 DEF SemaInit, SemaTyped
<1>3. Pending = {} /\ Lowering = {}
  BY DEF SemaInit, Pending, Posting, Lowering
<1>4. Cardinality(Pending) = 0 /\ Cardinality(Lowering) = 0
  BY <1>3, FS_EmptySet
<1>5. Long(Initial) = Initial
  <2> DEFINE M == 2 * (Limit + 1)
             r == Initial + Limit + 1
  <2>1. M \in Nat /\ M > 0 /\ r \in Int /\ 0 <= r /\ r < M /\ M * 0 + r = r
    BY <1>1
  <2>2. Long(Initial) = (r % M) - (Limit + 1)
    BY DEF Long
  <2> HIDE DEF M
  <2>3. (M * 0 + r) % M = r
    <3> HIDE DEF r
    <3> QED
      BY <2>1, ModUnique
  <2>4. r % M = r
    BY <2>1, <2>3
  <2> QED
    BY <1>1, <2>2, <2>4
<1>6. sema + Cardinality(Pending) + Cardinality(Lowering) = Initial /\ count = Initial
  BY <1>1, <1>4 DEF SemaInit
<1> QED
  BY <1>2, <1>5, <1>6 DEF SemaInv, CountCovers

\* What a step of one thread does to the sum.
LEMMA SemaStepCounts ==
    ASSUME SemaInv, NEW t \in Threads,
           \/ PostN(t) \/ Release(t) \/ ReleaseFails(t)
           \/ TakeBack(t) \/ WaitTakes(t) \/ Lower(t)
    PROVE  /\ sema' \in Nat /\ step' \in [Threads -> {"idle", "release", "undo", "lower"}]
           /\ units' \in [Threads -> 0..MaxPost]
           /\ \E n \in Int : /\ Sum' = Sum + n
                             /\ count' = Long(count + n) \/ (n = 0 /\ count' = count)
<1>1. SemaTyped /\ MaxPost \in Nat
  BY SemaAssumption DEF SemaInv
<1>2. /\ IsFiniteSet(Pending) /\ Cardinality(Pending) \in Nat
      /\ IsFiniteSet(Lowering) /\ Cardinality(Lowering) \in Nat
  BY PendingFinite
<1>3. /\ IsFiniteSet(Pending') /\ Cardinality(Pending') \in Nat
      /\ IsFiniteSet(Lowering') /\ Cardinality(Lowering') \in Nat
  <2>1. IsFiniteSet(Threads) /\ MaxPost \in Int /\ IsFiniteSet(1..MaxPost)
    BY SemaAssumption, FS_Interval
  <2>2. IsFiniteSet(Threads \X (1..MaxPost))
    BY <2>1, FS_Product
  <2>3. IsFiniteSet(Pending')
    BY <2>2, FS_Subset DEF Pending
  <2>4. IsFiniteSet(Lowering')
    BY <2>1, FS_Subset DEF Lowering
  <2> QED
    BY <2>3, <2>4, FS_CardinalityType
<1>4. CASE PostN(t)
  <2>1. PICK n \in 1..MaxPost : /\ At(t, "idle", "release")
                                /\ units' = [units EXCEPT ![t] = n]
                                /\ count' = Long(count + n)
                                /\ sema' = sema
    BY <1>4 DEF PostN
  <2>2. n \in Nat /\ n \in Int /\ n \in 0..MaxPost /\ units'[t] = n
        /\ units' \in [Threads -> 0..MaxPost]
        /\ \A p \in Threads \ {t} : units'[p] = units[p]
    BY <1>1, <2>1 DEF SemaTyped
  <2>3. Pending' = Pending \cup Row(t, n) /\ Pending \cap Row(t, n) = {}
    BY <1>1, <2>1, <2>2, PendingChanges
  <2>4. Cardinality(Pending') = Cardinality(Pending) + n
    BY <1>2, <2>2, <2>3, RowCounts, UnionCounts
  <2>5. Lowering' = Lowering
    BY <1>1, <2>1 DEF At, SemaTyped, Lowering
  <2>6. Sum' = Sum + n
    BY <1>1, <1>2, <2>1, <2>2, <2>4, <2>5 DEF Sum, SemaTyped
  <2> QED
    BY <1>1, <2>1, <2>2, <2>6 DEF At, SemaTyped
<1>5. CASE Release(t) \/ TakeBack(t)
  <2>1. PICK from \in {"release", "undo"} : At(t, from, "idle")
    BY <1>5 DEF Release, TakeBack
  <2>2. /\ units' = [units EXCEPT ![t] = 0]
        /\ \/ sema' = sema + units[t] /\ count' = count
           \/ sema' = sema /\ count' = Long(count - units[t])
    BY <1>5 DEF Release, TakeBack
  <2>3. /\ units[t] \in Nat /\ units' \in [Threads -> 0..MaxPost]
        /\ \A p \in Threads \ {t} : units'[p] = units[p]
    BY <1>1, <2>2 DEF SemaTyped
  <2>4. Pending = Pending' \cup Row(t, units[t]) /\ Pending' \cap Row(t, units[t]) = {}
    BY <1>1, <2>1, <2>3, PendingChanges
  <2>5. Cardinality(Pending) = Cardinality(Pending') + units[t]
    BY <1>3, <2>3, <2>4, RowCounts, UnionCounts
  <2>6. Lowering' = Lowering
    BY <1>1, <2>1 DEF At, SemaTyped, Lowering
  <2>7. CASE sema' = sema + units[t] /\ count' = count
    <3>1. Sum' = Sum + 0
      BY <1>1, <1>2, <1>3, <2>3, <2>5, <2>6, <2>7 DEF Sum, SemaTyped
    <3>2. \E n \in Int : /\ Sum' = Sum + n
                         /\ count' = Long(count + n) \/ (n = 0 /\ count' = count)
      <4>1. 0 \in Int
        OBVIOUS
      <4> QED
        BY <2>7, <3>1, <4>1, Zenon
    <3>3. sema' \in Nat
      BY <1>1, <2>3, <2>7 DEF SemaTyped
    <3>4. step' \in [Threads -> {"idle", "release", "undo", "lower"}]
      BY <1>1, <2>1 DEF At, SemaTyped
    <3> QED
      BY <2>3, <3>2, <3>3, <3>4
  <2>8. CASE sema' = sema /\ count' = Long(count - units[t])
    <3>1. Sum' = Sum + (-units[t]) /\ -units[t] \in Int
      <4>1. -units[t] \in Int
        BY <2>3
      <4> QED
        BY <1>1, <1>2, <1>3, <2>3, <2>5, <2>6, <2>8, <4>1 DEF Sum, SemaTyped
    <3>2. count - units[t] = count + (-units[t])
      BY <1>1, <2>3 DEF SemaTyped
    <3>3. count' = Long(count + (-units[t]))
      BY <2>8, <3>2
    <3> QED
      BY <1>1, <2>1, <2>3, <2>8, <3>1, <3>3 DEF At, SemaTyped
  <2> QED
    BY <2>2, <2>7, <2>8
<1>6. CASE ReleaseFails(t)
  <2>1. At(t, "release", "undo") /\ UNCHANGED <<sema, count, units>>
    BY <1>6 DEF ReleaseFails
  <2>2. Pending' = Pending /\ Lowering' = Lowering
    BY <1>1, <2>1 DEF At, SemaTyped, Pending, Posting, Lowering
  <2>3. Sum' = Sum + 0
    BY <1>1, <1>2, <2>1, <2>2 DEF Sum, SemaTyped
  <2> QED
    BY <1>1, <2>1, <2>3 DEF At, SemaTyped
<1>7. CASE WaitTakes(t)
  <2>1. At(t, "idle", "lower") /\ sema > 0 /\ sema' = sema - 1 /\ UNCHANGED <<count, units>>
    BY <1>7 DEF WaitTakes
  <2>2. Pending' = Pending /\ Lowering' = Lowering \cup {t} /\ t \notin Lowering
    BY <1>1, <2>1 DEF At, SemaTyped, Pending, Posting, Lowering
  <2>3. Cardinality(Lowering') = Cardinality(Lowering) + 1
    BY <1>2, <2>2, FS_AddElement
  <2>4. Sum' = Sum + 0
    BY <1>1, <1>2, <2>1, <2>2, <2>3 DEF Sum, SemaTyped
  <2> QED
    BY <1>1, <2>1, <2>4 DEF At, SemaTyped
<1>8. CASE Lower(t)
  <2>1. At(t, "lower", "idle") /\ count' = Long(count - 1) /\ UNCHANGED <<sema, units>>
    BY <1>8 DEF Lower
  <2>2. Pending' = Pending /\ Lowering = Lowering' \cup {t} /\ t \notin Lowering'
    BY <1>1, <2>1 DEF At, SemaTyped, Pending, Posting, Lowering
  <2>3. Cardinality(Lowering) = Cardinality(Lowering') + 1
    BY <1>3, <2>2, FS_AddElement
  <2>4. Sum' = Sum + (-1) /\ count - 1 = count + (-1)
    BY <1>1, <1>2, <1>3, <2>1, <2>2, <2>3 DEF Sum, SemaTyped
  <2> QED
    BY <1>1, <2>1, <2>4 DEF At, SemaTyped
<1> QED
  BY <1>4, <1>5, <1>6, <1>7, <1>8

LEMMA SemaNextKeeps ==
    ASSUME SemaInv, [SemaNext]_semaVars
    PROVE  SemaInv'
<1>1. CASE SemaNext
  <2>1. PICK t \in Threads : \/ PostN(t) \/ Release(t) \/ ReleaseFails(t)
                             \/ TakeBack(t) \/ WaitTakes(t) \/ Lower(t)
    BY <1>1 DEF SemaNext
  <2>2. /\ sema' \in Nat /\ step' \in [Threads -> {"idle", "release", "undo", "lower"}]
        /\ units' \in [Threads -> 0..MaxPost]
        /\ \E n \in Int : /\ Sum' = Sum + n
                          /\ count' = Long(count + n) \/ (n = 0 /\ count' = count)
    BY <2>1, SemaStepCounts
  <2>3. Sum \in Int
    BY PendingFinite DEF SemaInv, SemaTyped, Sum
  <2>4. count' \in Int /\ CountCovers'
    BY <2>2, <2>3, SumMoves
  <2> QED
    BY <2>2, <2>4 DEF SemaInv, SemaTyped
<1>2. CASE UNCHANGED semaVars
  BY <1>2 DEF semaVars, SemaInv, SemaTyped, CountCovers, Pending, Posting, Lowering
<1> QED
  BY <1>1, <1>2

\* COSSema keeps its count beside the semaphore of the system, by operations that
\* are atomic each and not together: for any number of threads and of units it
\* accounts for the semaphore and every call under way, a refused release included.
THEOREM CountCoversHolds == SemaSpec => []CountCovers
<1>1. SemaInit => SemaInv
  BY SemaInitHolds
<1>2. SemaInv /\ [SemaNext]_semaVars => SemaInv'
  BY SemaNextKeeps
<1>3. SemaInv => CountCovers
  BY DEF SemaInv
<1> QED
  BY <1>1, <1>2, <1>3, PTL DEF SemaSpec

------------------------------------------------------------------------------
\* Indentations are the ints of the code.
Ints == Spaces \subseteq Int

\* The opening tags of the nodes of m_nodelst, where they were written.
Tags == [i \in 1..Len(m_nodelst) |-> Line("open", m_nodelst[i], base + (i - 1))]

\* A function that reads a text line by line.
Reads(read, text) ==
    read = [n \in 0..Len(text) |-> IF n = 0 THEN Start ELSE Read(read[n - 1], text[n])]

Kinds == {"open", "close", "value", "text"}
Lines == [kind : Kinds, title : Titles \cup {NoTitle}, space : 0..7]

XmlTyped ==
    /\ m_str \in Seq(Lines)
    /\ m_nodelst \in Seq(Titles)
    /\ base \in Nat
    /\ m_iSpace = base + Len(m_nodelst)

\* There is a way to read the text, and every one leaves the open nodes: this is
\* inductive, where what Opened chooses is not.
Ends == [nodes |-> Tags, ok |-> TRUE]
XmlInv ==
    /\ XmlTyped
    /\ \E read : Reads(read, m_str)
    /\ \A read : Reads(read, m_str) => read[Len(m_str)] = Ends

LEMMA SpaceBounded == \A i \in Int : space(i) \in 0..7
BY DEF space, AtLeast0

\* Without a line, nothing is open.
LEMMA EmptyText ==
    ASSUME m_str = <<>>, m_nodelst = <<>>, m_iSpace = base, m_iSpace \in Nat
    PROVE  XmlInv
<1>1. Len(m_str) = 0 /\ Len(m_nodelst) = 0
  OBVIOUS
<1>2. Tags = <<>> /\ XmlTyped
  BY <1>1 DEF Tags, XmlTyped
<1>3. Reads([n \in {0} |-> Start], m_str)
  BY <1>1 DEF Reads
<1>4. \A read : Reads(read, m_str) => read[0] = Start
  BY <1>1 DEF Reads
<1> QED
  BY <1>1, <1>2, <1>3, <1>4 DEF XmlInv, Ends, Start

LEMMA EmptyTextNext == (m_str = <<>> /\ m_nodelst = <<>> /\ m_iSpace = base /\ m_iSpace \in Nat)' => XmlInv'
<1>1. m_str = <<>> /\ m_nodelst = <<>> /\ m_iSpace = base /\ m_iSpace \in Nat => XmlInv
  BY EmptyText
<1> QED
  BY <1>1, PTL

\* What is read of a text with one more line is what is read of the text, and
\* then of the line.
LEMMA OneMore ==
    ASSUME NEW text \in Seq(Lines), NEW line \in Lines
    PROVE  /\ \A f : Reads(f, text) => \E g : Reads(g, Append(text, line))
           /\ \A g : Reads(g, Append(text, line)) =>
                  \E f : Reads(f, text) /\ g[Len(text) + 1] = Read(f[Len(text)], line)
<1> DEFINE more == Append(text, line)
           N == Len(text)
<1>1. N \in Nat /\ Len(more) = N + 1 /\ more[N + 1] = line
  OBVIOUS
<1>2. \A n \in 1..N : more[n] = text[n]
  OBVIOUS
<1> HIDE DEF more, N
<1>3. ASSUME NEW f, Reads(f, text) PROVE \E g : Reads(g, more)
  <2> DEFINE g == [n \in 0..(N + 1) |-> IF n = N + 1 THEN Read(f[N], line) ELSE f[n]]
  <2>1. \A n \in 0..N : f[n] = IF n = 0 THEN Start ELSE Read(f[n - 1], text[n])
    BY <1>1, <1>3 DEF Reads, N
  <2>2. ASSUME NEW n \in 0..(N + 1)
        PROVE  g[n] = IF n = 0 THEN Start ELSE Read(g[n - 1], more[n])
    <3>1. CASE n = N + 1
      <4>1. g[n] = Read(f[N], line) /\ n # 0 /\ n - 1 = N /\ g[N] = f[N] /\ more[n] = line
        BY <1>1, <3>1
      <4> QED
        BY <4>1
    <3>2. CASE n # N + 1
      <4>1. n \in 0..N /\ g[n] = f[n]
        BY <1>1, <3>2
      <4>2. CASE n = 0
        BY <2>1, <4>1, <4>2
      <4>3. CASE n # 0
        <5>1. n - 1 \in 0..(N + 1) /\ n - 1 # N + 1 /\ n \in 1..N
          BY <1>1, <4>1, <4>3
        <5>2. g[n - 1] = f[n - 1] /\ more[n] = text[n]
          BY <1>2, <5>1
        <5> QED
          BY <2>1, <4>1, <4>3, <5>2
      <4> QED
        BY <4>2, <4>3
    <3> QED
      BY <3>1, <3>2
  <2>3. g = [n \in 0..(N + 1) |-> g[n]]
    OBVIOUS
  <2> HIDE DEF g
  <2>4. g = [n \in 0..(N + 1) |-> IF n = 0 THEN Start ELSE Read(g[n - 1], more[n])]
    BY <2>2, <2>3
  <2>5. Reads(g, more)
    BY <1>1, <2>4 DEF Reads
  <2> QED
    BY <2>5
<1>4. ASSUME NEW g, Reads(g, more)
      PROVE  \E f : Reads(f, text) /\ g[N + 1] = Read(f[N], line)
  <2> DEFINE f == [n \in 0..N |-> g[n]]
  <2>1. \A n \in 0..(N + 1) : g[n] = IF n = 0 THEN Start ELSE Read(g[n - 1], more[n])
    BY <1>1, <1>4 DEF Reads
  <2>2. ASSUME NEW n \in 0..N
        PROVE  f[n] = IF n = 0 THEN Start ELSE Read(f[n - 1], text[n])
    <3>1. n \in 0..(N + 1) /\ f[n] = g[n]
      BY <1>1
    <3>2. CASE n = 0
      BY <2>1, <3>1, <3>2
    <3>3. CASE n # 0
      <4>1. n \in 1..N /\ n - 1 \in 0..N
        BY <1>1, <3>3
      <4>2. f[n - 1] = g[n - 1] /\ more[n] = text[n]
        BY <1>2, <4>1
      <4> QED
        BY <2>1, <3>1, <3>3, <4>2
    <3> QED
      BY <3>2, <3>3
  <2>3. f = [n \in 0..N |-> f[n]] /\ f[N] = g[N]
    BY <1>1
  <2> HIDE DEF f
  <2>4. f = [n \in 0..N |-> IF n = 0 THEN Start ELSE Read(f[n - 1], text[n])]
    BY <2>2, <2>3
  <2>5. Reads(f, text)
    BY <2>4 DEF Reads, N
  <2>6. N + 1 \in 0..(N + 1) /\ N + 1 # 0 /\ (N + 1) - 1 = N
    BY <1>1
  <2>7. g[N + 1] = Read(g[N], line)
    BY <1>1, <2>1, <2>6
  <2> QED
    BY <2>3, <2>5, <2>7
<1> QED
  BY <1>3, <1>4 DEF more, N

\* A line that takes the open nodes to the open nodes keeps the invariant.
LEMMA LineKeeps ==
    ASSUME XmlInv, XmlTyped', NEW line \in Lines, m_str' = Append(m_str, line),
           UNCHANGED base, Read(Ends, line) = Ends'
    PROVE  XmlInv'
<1>1. m_str \in Seq(Lines)
  BY DEF XmlInv, XmlTyped
<1>2. Len(m_str') = Len(m_str) + 1
  BY <1>1
<1>3. \E read : Reads(read, m_str')
  BY <1>1, OneMore DEF XmlInv
<1>4. ASSUME NEW g, Reads(g, m_str') PROVE g[Len(m_str')] = Ends'
  <2>1. PICK f : Reads(f, m_str) /\ g[Len(m_str) + 1] = Read(f[Len(m_str)], line)
    BY <1>1, <1>4, OneMore
  <2>2. f[Len(m_str)] = Ends
    BY <2>1 DEF XmlInv
  <2> QED
    BY <1>2, <2>1, <2>2
<1>5. \A g : Reads(g, m_str)' <=> Reads(g, m_str')
  BY DEF Reads, Read, space, AtLeast0
<1>6. \E read : Reads(read, m_str)'
  BY <1>3, <1>5
<1>7. \A read : Reads(read, m_str)' => read[Len(m_str')] = Ends'
  BY <1>4, <1>5
<1> QED
  BY <1>6, <1>7 DEF XmlInv

LEMMA XmlInitHolds == Ints /\ XmlInit => XmlInv
<1> SUFFICES ASSUME Ints, XmlInit PROVE XmlInv
  OBVIOUS
<1>1. m_str = <<>> /\ m_nodelst = <<>> /\ m_iSpace = base
  BY DEF XmlInit
<1>2. base \in Nat
  BY DEF XmlInit, Ints, AtLeast0
<1> QED
  BY <1>1, <1>2, EmptyText

\* An opening tag joins the open nodes.
LEMMA AddNodeKeeps == Ints /\ XmlInv /\ AddNode => XmlInv'
<1> SUFFICES ASSUME Ints, XmlInv, AddNode PROVE XmlInv'
  OBVIOUS
<1>1. PICK title \in Titles : Write(Line("open", title, m_iSpace)) /\ m_nodelst' = Append(m_nodelst, title)
  BY DEF AddNode
<1> DEFINE line == Line("open", title, m_iSpace)
           N == Len(m_nodelst)
<1>2. XmlTyped
  BY DEF XmlInv
<1>3. /\ N \in Nat /\ Len(m_nodelst') = N + 1
      /\ m_nodelst'[N + 1] = title
      /\ \A i \in 1..N : m_nodelst'[i] = m_nodelst[i]
  BY <1>1, <1>2 DEF XmlTyped
<1>4. m_iSpace' = m_iSpace + 1 /\ base' = base /\ m_iSpace = base + N /\ base \in Nat
  BY <1>2 DEF AddNode, XmlTyped
<1>5. line \in Lines
  BY <1>3, <1>4, SpaceBounded DEF Line, Lines, Kinds
<1>6. m_str' = Append(m_str, line)
  BY <1>1 DEF Write
<1>7. XmlTyped'
  BY <1>1, <1>2, <1>3, <1>4, <1>5, <1>6 DEF XmlTyped
<1>8. Tags' = Append(Tags, line)
  <2>1. Tags \in Seq(Lines)
    <3>1. ASSUME NEW i \in 1..N PROVE Line("open", m_nodelst[i], base + (i - 1)) \in Lines
      <4>1. m_nodelst[i] \in Titles /\ base + (i - 1) \in Int
        BY <1>2, <1>4 DEF XmlTyped
      <4> QED
        BY <4>1, SpaceBounded DEF Line, Lines, Kinds
    <3> QED
      BY <1>3, <3>1 DEF Tags
  <2>2. Len(Tags) = N
    BY <1>3 DEF Tags
  <2>3. Tags' = [i \in 1..(N + 1) |-> Line("open", m_nodelst'[i], base + (i - 1))]
    BY <1>3, <1>4 DEF Tags, Line, space, AtLeast0
  <2> DEFINE T == [i \in 1..(N + 1) |-> Line("open", m_nodelst'[i], base + (i - 1))]
             A == Append(Tags, line)
  <2>4. DOMAIN A = 1..(N + 1) /\ A = [i \in 1..(N + 1) |-> A[i]]
    <3>1. A \in Seq(Lines) /\ Len(A) = N + 1
      BY <1>5, <2>1, <2>2
    <3> HIDE DEF A
    <3> QED
      BY <1>3, <3>1
  <2>5. ASSUME NEW i \in 1..(N + 1) PROVE A[i] = T[i]
    <3>1. CASE i = N + 1
      <4>1. A[i] = line
        BY <1>5, <2>1, <2>2, <3>1
      <4>2. base + (i - 1) = m_iSpace
        BY <1>3, <1>4, <3>1
      <4> QED
        BY <1>3, <3>1, <4>1, <4>2
    <3>2. CASE i # N + 1
      <4>1. i \in 1..N
        BY <1>3, <3>2
      <4>2. A[i] = Tags[i]
        BY <1>5, <2>1, <2>2, <4>1
      <4> QED
        BY <1>3, <4>1, <4>2 DEF Tags
    <3> QED
      BY <3>1, <3>2
  <2> QED
    BY <2>3, <2>4, <2>5
<1>9. Read(Ends, line) = Ends'
  BY <1>8 DEF Read, Ends, Line
<1> QED
  BY <1>4, <1>5, <1>6, <1>7, <1>9, LineKeeps

\* A closing tag is that of the last open node, at its indentation.
LEMMA EndNodeKeeps == Ints /\ XmlInv /\ EndNode => XmlInv'
<1> SUFFICES ASSUME Ints, XmlInv, EndNode PROVE XmlInv'
  OBVIOUS
<1> DEFINE N == Len(m_nodelst)
           line == Line("close", m_nodelst[N], m_iSpace')
<1>1. XmlTyped
  BY DEF XmlInv
<1>2. N \in Nat \ {0} /\ m_nodelst[N] \in Titles
  BY <1>1 DEF EndNode, XmlTyped
<1>3. Last(m_nodelst) = m_nodelst[N] /\ m_nodelst' = Front(m_nodelst)
  BY DEF EndNode, Last
<1>4. /\ m_nodelst' \in Seq(Titles) /\ Len(m_nodelst') = N - 1
      /\ \A i \in 1..(N - 1) : m_nodelst'[i] = m_nodelst[i]
  <2>1. m_nodelst' = SubSeq(m_nodelst, 1, N - 1)
    BY <1>3 DEF Front
  <2>2. N - 1 \in Int /\ \A i \in 1..(N - 1) : m_nodelst[i] \in Titles
    BY <1>1, <1>2 DEF XmlTyped
  <2>3. /\ m_nodelst' \in Seq(Titles)
        /\ Len(m_nodelst') = IF 1 <= N - 1 THEN (N - 1) - 1 + 1 ELSE 0
        /\ \A i \in 1..((N - 1) - 1 + 1) : m_nodelst'[i] = m_nodelst[1 + i - 1]
    BY <2>1, <2>2, SubSeqProperties
  <2> HIDE DEF N
  <2> QED
    BY <1>2, <2>3
<1>5. base \in Nat /\ m_iSpace = base + N /\ base' = base
  BY <1>1 DEF XmlTyped, EndNode
<1>6. m_iSpace' = base + (N - 1)
  BY <1>2, <1>5 DEF EndNode, AtLeast0
<1>7. line \in Lines
  BY <1>2, <1>5, <1>6, SpaceBounded DEF Line, Lines, Kinds
<1>8. m_str' = Append(m_str, line)
  BY <1>3 DEF EndNode, Write
<1>9. XmlTyped'
  BY <1>1, <1>2, <1>4, <1>5, <1>6, <1>7, <1>8 DEF XmlTyped
<1>10. DOMAIN Tags = 1..N /\ Tags # <<>> /\ Len(Tags) = N
  BY <1>2 DEF Tags
<1>11. Tags[N] = [line EXCEPT !.kind = "open"]
  BY <1>2, <1>6 DEF Tags, Line
<1>12. Tags' = Front(Tags)
  <2>1. Tags' = [i \in 1..(N - 1) |-> Line("open", m_nodelst[i], base + (i - 1))]
    BY <1>4, <1>5 DEF Tags, Line, space, AtLeast0
  <2>2. Front(Tags) = [i \in 1..(N - 1) |-> Tags[i]]
    BY <1>2, <1>10 DEF Front
  <2>3. \A i \in 1..(N - 1) : Tags[i] = Line("open", m_nodelst[i], base + (i - 1))
    BY <1>2 DEF Tags
  <2> QED
    BY <2>1, <2>2, <2>3
<1>13. Read(Ends, line) = Ends'
  <2>1. line.kind = "close" /\ Last(Tags) = [line EXCEPT !.kind = "open"]
    BY <1>10, <1>11 DEF Line, Last
  <2>2. Ends.nodes = Tags /\ Ends.ok = TRUE
    BY DEF Ends
  <2>3. Read(Ends, line) = [nodes |-> Front(Tags), ok |-> TRUE]
    BY <1>10, <2>1, <2>2 DEF Read
  <2> QED
    BY <1>12, <2>3 DEF Ends
<1> QED
  BY <1>5, <1>7, <1>8, <1>9, <1>13, LineKeeps

\* A line that is no tag leaves the open nodes as they are.
LEMMA OtherLineKeeps ==
    ASSUME Ints, XmlInv, NEW line \in Lines, Write(line), line.kind \in {"value", "text"},
           line.kind = "value" => line.space = space(m_iSpace),
           UNCHANGED <<m_iSpace, m_nodelst, base>>
    PROVE  XmlInv'
<1>1. XmlTyped /\ m_str' = Append(m_str, line)
  BY DEF XmlInv, Write
<1>2. XmlTyped'
  BY <1>1 DEF XmlTyped
<1>3. Tags' = Tags
  BY DEF Tags, Line, space, AtLeast0
<1>4. m_iSpace = base + Len(m_nodelst) /\ Len(Tags) = Len(m_nodelst)
  BY <1>1 DEF XmlTyped, Tags
<1>5. Ends' = Ends /\ Ends.ok = TRUE /\ Ends.nodes = Tags /\ Ends = [nodes |-> Tags, ok |-> TRUE]
  BY <1>3 DEF Ends
<1>6. Read(Ends, line) = Ends
  <2>1. CASE line.kind = "value"
    <3>1. line.space = space(base + Len(Ends.nodes))
      BY <1>4, <1>5, <2>1
    <3>2. Read(Ends, line) = [Ends EXCEPT !.ok = @ /\ line.space = space(base + Len(Ends.nodes))]
      BY <2>1 DEF Read
    <3> QED
      BY <1>5, <3>1, <3>2
  <2>2. CASE line.kind = "text"
    BY <2>2 DEF Read
  <2> QED
    BY <2>1, <2>2
<1> QED
  BY <1>1, <1>2, <1>5, <1>6, LineKeeps

LEMMA XmlStepKeeps == Ints /\ XmlInv /\ [XmlNext]_textVars => XmlInv'
<1> SUFFICES ASSUME Ints, XmlInv, [XmlNext]_textVars PROVE XmlInv'
  OBVIOUS
<1>1. CASE UNCHANGED textVars
  <2>1. m_str' = m_str /\ m_nodelst' = m_nodelst /\ base' = base /\ m_iSpace' = m_iSpace
    BY <1>1 DEF textVars
  <2>2. XmlTyped' /\ Ends' = Ends
    BY <2>1 DEF XmlInv, XmlTyped, Ends, Tags, Line, space, AtLeast0
  <2>3. \A f : Reads(f, m_str)' <=> Reads(f, m_str)
    BY <2>1 DEF Reads, Read, space, AtLeast0
  <2> QED
    BY <2>1, <2>2, <2>3 DEF XmlInv
<1>2. CASE AddNode
  BY <1>2, AddNodeKeeps
<1>3. CASE EndNode
  BY <1>3, EndNodeKeeps
<1>4. m_iSpace \in Int
  BY DEF XmlInv, XmlTyped
<1>5. CASE AddValue
  <2>1. PICK title \in Titles : Write(Line("value", title, m_iSpace))
    BY <1>5 DEF AddValue
  <2>2. Line("value", title, m_iSpace) \in Lines
    BY <1>4, SpaceBounded DEF Line, Lines, Kinds
  <2>3. /\ Line("value", title, m_iSpace).kind = "value"
        /\ Line("value", title, m_iSpace).space = space(m_iSpace)
    BY DEF Line
  <2> QED
    BY <1>5, <2>1, <2>2, <2>3, OtherLineKeeps DEF AddValue
<1>6. CASE AddText
  <2>1. PICK i \in Spaces \cup {-1} : Write(Line("text", NoTitle, IF i = -1 THEN m_iSpace ELSE i))
    BY <1>6 DEF AddText
  <2> DEFINE line == Line("text", NoTitle, IF i = -1 THEN m_iSpace ELSE i)
  <2>2. line \in Lines /\ line.kind = "text"
    BY <1>4, SpaceBounded DEF Line, Lines, Kinds, Ints
  <2> QED
    BY <1>6, <2>1, <2>2, OtherLineKeeps DEF AddText
<1>7. CASE Str
  <2>1. m_str' = <<>> /\ m_nodelst' = <<>> /\ base' = m_iSpace'
    BY <1>7 DEF Str
  <2>2. m_iSpace' \in Nat
    BY <1>7 DEF Str, XmlInv, XmlTyped, Ints
  <2> QED
    BY <2>1, <2>2, EmptyTextNext
<1> QED
  BY <1>1, <1>2, <1>3, <1>5, <1>6, <1>7 DEF XmlNext

\* What Opened chooses is one of the ways to read the text, for there is one.
LEMMA ReadsAsChosen ==
    ASSUME XmlInv
    PROVE  Opened(m_str) = Ends
<1> DEFINE read == CHOOSE f : Reads(f, m_str)
<1>1. Reads(read, m_str)
  BY DEF XmlInv
<1>2. Opened(m_str) = read[Len(m_str)]
  BY DEF Opened, Reads
<1> QED
  BY <1>1, <1>2 DEF XmlInv

LEMMA InvariantGives == XmlInv => Balanced
<1> SUFFICES ASSUME XmlInv PROVE Balanced
  OBVIOUS
<1>1. Opened(m_str) = Ends
  BY ReadsAsChosen
<1>2. Ends.ok = TRUE /\ Ends.nodes = Tags
  BY DEF Ends
<1>3. [i \in DOMAIN Tags |-> Tags[i].title] = [i \in 1..Len(m_nodelst) |-> m_nodelst[i]]
  BY DEF Tags, Line
<1>4. m_nodelst \in Seq(Titles) /\ m_iSpace = base + Len(m_nodelst)
  BY DEF XmlInv, XmlTyped
<1>5. [i \in 1..Len(m_nodelst) |-> m_nodelst[i]] = m_nodelst
  BY <1>4
<1> QED
  BY <1>1, <1>2, <1>3, <1>4, <1>5 DEF Balanced

\* Whatever calls are made, SimpleXmlMaker's text is well formed but for the nodes
\* still open, and indented by them.
THEOREM BalancedHolds == ASSUME Ints PROVE XmlSpec => []Balanced
<1>1. XmlInit => XmlInv
  BY XmlInitHolds
<1>2. XmlInv /\ [XmlNext]_textVars => XmlInv'
  BY XmlStepKeeps
<1>3. XmlInv => Balanced
  BY InvariantGives
<1> QED
  BY <1>1, <1>2, <1>3, PTL DEF XmlSpec

------------------------------------------------------------------------------

\* The largest value of an unsigned char and the size limit; an object is of one
\* class.
Sizes == Width \in Nat /\ Width > 1 /\ FileLimit \in Nat /\ Logs \cap Writes = {}

Classes == {"CSimpleLog", "CSimpleWrite"}
Names == Classes \X Nat \X Nat
Places == {"idle", "draw", "store", "open", "print"}

LogTyped ==
    /\ g_iNum \in [Classes -> 0..(Width - 1)]
    /\ at \in [Objects -> Places]
    /\ seen \in [Objects -> 0..(Width - 1)]
    /\ m_iId \in [Objects -> Nat \cup {None}]
    /\ m_iNum \in [Objects -> Nat]
    /\ m_iFilesize \in [Objects -> Nat]
    /\ g_file \in [Objects -> Names \cup {Closed}]
    /\ opened \subseteq Names \cap DOMAIN disk
    /\ \A f \in opened : disk[f] \in Seq(Objects \X Nat)
    /\ lines \in [Objects -> Nat]

Of(o) == {f \in opened : f[1] = Class(o) /\ f[2] = m_iId[o]}

\* Where a call is, and what the object then has.  A CSimpleWrite with a file
\* never draws another number.
Stages ==
    \A o \in Objects :
        /\ at[o] \in {"draw", "store"} /\ o \in Logs => m_iId[o] = None
        /\ at[o] \in {"draw", "store", "open"} => g_file[o] = Closed
        /\ at[o] = "open" => m_iId[o] # None /\ File(o) \notin opened
        /\ at[o] = "print" => g_file[o] # Closed
        /\ g_file[o] # Closed => m_iId[o] # None /\ g_file[o] = File(o) /\ File(o) \in opened
        /\ g_file[o] = Closed /\ o \in Writes => Of(o) = {}

\* A number drawn is below the counter, and is no other object's.
Numbers ==
    /\ \A o \in Objects : at[o] = "store" => seen[o] = g_iNum[Class(o)]
    /\ \A o, p \in Objects :
           at[o] = "store" /\ at[p] = "store" /\ Class(o) = Class(p) => o = p
    /\ \A o \in Objects : m_iId[o] < g_iNum[Class(o)]
    /\ \A o, p \in Objects :
           m_iId[o] = m_iId[p] /\ m_iId[o] # None /\ Class(o) = Class(p) => o = p

\* Files under an object's number are its own, and there are no others.
Owned ==
    /\ \A f \in opened : f[2] < g_iNum[f[1]]
    /\ \A o \in Objects : \A f \in Of(o) :
           /\ f[3] <= m_iNum[o]
           /\ \A i \in 1..Len(disk[f]) : disk[f][i][1] = o /\ disk[f][i][2] <= lines[o]
    /\ \A f \in opened : \E o \in Objects : f \in Of(o)

\* The last line of an open file is the last its object wrote.
LastLines ==
    \A o \in Objects :
        g_file[o] # Closed /\ Len(disk[g_file[o]]) > 0
            => disk[g_file[o]][Len(disk[g_file[o]])][2] = lines[o]

\* In a file each line is the one after the line before it, of the same object.
InARow ==
    \A f \in opened : \A i \in 1..(Len(disk[f]) - 1) :
        disk[f][i + 1] = <<disk[f][i][1], disk[f][i][2] + 1>>

\* A later file of an object holds later lines.
InOrder ==
    \A o \in Objects : \A f, h \in Of(o) : f[3] < h[3] =>
        \A i \in 1..Len(disk[f]), j \in 1..Len(disk[h]) : disk[f][i][2] < disk[h][j][2]

\* Every line an object counts as written is in a file of this process.
NoneMissing ==
    \A o \in Objects : \A n \in 1..lines[o] : \E f \in opened : Contains(disk[f], <<o, n>>)

Together == LastLines /\ InARow /\ InOrder /\ NoneMissing

\* What a file that a log closed can hold.
Full(f) == Len(disk[f]) <= FileLimit + 1

\* The files of one log: the first takes lines up to the limit, each after it one.
LineCounts(o) ==
    /\ \A f, g \in Of(o) : f[3] < g[3] => Full(f) /\ Len(disk[g]) <= 1
    /\ Of(o) = {} => m_iFilesize[o] = 0
    /\ g_file[o] = Closed /\ Of(o) # {}
           => m_iFilesize[o] > FileLimit /\ \A f \in Of(o) : Full(f)
    /\ g_file[o] # Closed /\ m_iFilesize[o] <= FileLimit
           => Of(o) = {g_file[o]} /\ Len(disk[g_file[o]]) <= m_iFilesize[o]
    /\ g_file[o] # Closed /\ m_iFilesize[o] > FileLimit
           => Len(disk[g_file[o]]) = 0 /\ \A f \in Of(o) \ {g_file[o]} : Full(f)

Apart == ~met /\ ~wrapped
Good == LogTyped /\ Stages /\ Numbers /\ Owned /\ Together /\ \A o \in Logs : LineCounts(o)
LogInv == Apart => Good

\* A process that has just started: it has opened no file.
Begun ==
    /\ g_iNum = [c \in {"CSimpleLog", "CSimpleWrite"} |-> 1]
    /\ at = [o \in Objects |-> "idle"]
    /\ seen = [o \in Objects |-> 0]
    /\ m_iId = [o \in Objects |-> None]
    /\ m_iNum = [o \in Objects |-> 0]
    /\ m_iFilesize = [o \in Objects |-> 0]
    /\ g_file = [o \in Objects |-> Closed]
    /\ lines = [o \in Objects |-> 0]
    /\ opened = {}

LEMMA BegunIsGood == Sizes /\ Begun => Good
<1> SUFFICES ASSUME Sizes, Begun PROVE Good
  OBVIOUS
<1>1. opened = {} /\ \A o \in Objects : Of(o) = {} /\ g_file[o] = Closed /\ lines[o] = 0
  BY DEF Begun, Of
<1>2. LogTyped
  BY <1>1 DEF Sizes, Begun, LogTyped, Classes, Places, None, Closed
<1>3. Stages /\ Numbers
  BY <1>1 DEF Sizes, Begun, Stages, Numbers, None, Class
<1>4. Owned /\ Together
  BY <1>1 DEF Owned, Together, LastLines, InARow, InOrder, NoneMissing
<1>5. \A o \in Logs : LineCounts(o)
  <2>1. \A o \in Logs : o \in Objects /\ m_iFilesize[o] = 0
    BY DEF Begun, Objects
  <2> QED
    BY <1>1, <2>1 DEF LineCounts
<1> QED
  BY <1>2, <1>3, <1>4, <1>5 DEF Good

LEMMA BegunNextIsGood == Sizes /\ Begun' => Good'
<1>1. (Sizes /\ Begun => Good)'
  BY BegunIsGood, PTL
<1> QED
  BY <1>1

\* The type of an object's number, of its class, and of a file's name.
LEMMA Facts ==
    ASSUME Good, NEW o \in Objects
    PROVE  /\ m_iId[o] \in Int /\ m_iNum[o] \in Nat /\ m_iFilesize[o] \in Nat /\ lines[o] \in Nat
           /\ Class(o) \in Classes /\ g_iNum[Class(o)] \in Nat /\ seen[o] \in Nat
           /\ m_iId[o] # None => m_iId[o] \in Nat
BY DEF Good, LogTyped, None, Class, Classes

LEMMA CallKeeps ==
    ASSUME Sizes, Good, NEW o \in Objects, Call(o)
    PROVE  Good'
<1>1. UNCHANGED <<g_iNum, seen, m_iId, m_iFilesize, g_file, disk, lines, opened>>
  BY DEF Call
<1>2. \A p \in Logs : LineCounts(p)'
  BY <1>1 DEF Good, LineCounts, Of, Full, Class
<1>3. Together'
  BY <1>1 DEF Good, Together, LastLines, InARow, InOrder, NoneMissing, Of, Class
<1>4. PICK to \in {"draw", "open", "print"} :
          /\ at[o] = "idle" /\ at' = [at EXCEPT ![o] = to]
          /\ \/ to = "print" /\ g_file[o] # Closed /\ m_iNum' = m_iNum
             \/ to = "draw" /\ g_file[o] = Closed /\ (o \in Writes \/ m_iId[o] = None) /\ m_iNum' = m_iNum
             \/ /\ to = "open" /\ g_file[o] = Closed /\ m_iId[o] # None
                /\ m_iNum' = [m_iNum EXCEPT ![o] = @ + 1]
  BY DEF Call, Moves
<1>5. /\ at' \in [Objects -> Places] /\ at'[o] = to /\ \A p \in Objects \ {o} : at'[p] = at[p]
      /\ m_iNum' \in [Objects -> Nat] /\ \A p \in Objects \ {o} : m_iNum'[p] = m_iNum[p]
      /\ m_iNum[o] \in Nat
      /\ m_iNum'[o] = IF to = "open" THEN m_iNum[o] + 1 ELSE m_iNum[o]
  <2>1. m_iNum \in [Objects -> Nat] /\ at \in [Objects -> Places] /\ to \in Places
    BY DEF Good, LogTyped, Places
  <2>2. at' \in [Objects -> Places] /\ at'[o] = to /\ \A p \in Objects \ {o} : at'[p] = at[p]
    BY <1>4, <2>1
  <2>3. CASE to # "open" /\ m_iNum' = m_iNum
    BY <2>1, <2>2, <2>3
  <2>4. CASE to = "open" /\ m_iNum' = [m_iNum EXCEPT ![o] = @ + 1]
    BY <2>1, <2>2, <2>4
  <2> QED
    BY <1>4, <2>3, <2>4
<1>6. LogTyped'
  BY <1>1, <1>5 DEF Good, LogTyped
<1>7. Numbers'
  BY <1>1, <1>4, <1>5 DEF Good, Numbers, Class
<1>8. Owned'
  <2>1. \A p \in Objects : Of(p)' = Of(p)
    BY <1>1 DEF Of, Class
  <2>2. \A p \in Objects : m_iNum[p] <= m_iNum'[p] /\ m_iNum[p] \in Nat /\ m_iNum'[p] \in Nat
    BY <1>5, Facts
  <2>3. \A f \in opened : f[3] \in Nat
    BY DEF Good, LogTyped, Names
  <2>4. ASSUME NEW p \in Objects, NEW f \in Of(p)
        PROVE  /\ f[3] <= m_iNum'[p]
               /\ \A i \in 1..Len(disk[f]) : disk[f][i][1] = p /\ disk[f][i][2] <= lines[p]
    <3>1. f[3] <= m_iNum[p] /\ f[3] \in Nat
      BY <2>3, <2>4 DEF Good, Owned, Of
    <3> QED
      BY <2>2, <3>1 DEF Good, Owned
  <2> QED
    BY <1>1, <2>1, <2>4 DEF Good, Owned
<1>9. Stages'
  <2>1. ASSUME NEW p \in Objects, p # o
        PROVE  File(p)' = File(p) /\ at'[p] = at[p]
    BY <1>1, <1>5, <2>1 DEF File, Class
  <2>2. to # "open" => File(o)' = File(o)
    BY <1>1, <1>5 DEF File, Class
  <2>3. to = "open" => File(o)' \notin opened
    <3> SUFFICES ASSUME to = "open", File(o)' \in opened PROVE FALSE
      OBVIOUS
    <3>1. File(o)' = <<Class(o), m_iId[o], m_iNum[o] + 1>>
      BY <1>1, <1>5 DEF File, Class
    <3>2. File(o)' \in Of(o) /\ File(o)'[3] = m_iNum[o] + 1
      BY <3>1 DEF Of
    <3>3. m_iNum[o] + 1 <= m_iNum[o]
      BY <3>2 DEF Good, Owned
    <3> QED
      BY <1>5, <3>3
  <2>4. ASSUME NEW p \in Objects, p # o
        PROVE  /\ at'[p] \in {"draw", "store"} /\ p \in Logs => m_iId'[p] = None
               /\ at'[p] \in {"draw", "store", "open"} => g_file'[p] = Closed
               /\ at'[p] = "open" => m_iId'[p] # None /\ File(p)' \notin opened'
               /\ at'[p] = "print" => g_file'[p] # Closed
               /\ g_file'[p] # Closed
                    => m_iId'[p] # None /\ g_file'[p] = File(p)' /\ File(p)' \in opened'
               /\ g_file'[p] = Closed /\ p \in Writes => Of(p)' = {}
    BY <1>1, <2>1, <2>4 DEF Good, Stages, Of, Class
  <2>5. /\ at'[o] \in {"draw", "store"} /\ o \in Logs => m_iId'[o] = None
        /\ at'[o] \in {"draw", "store", "open"} => g_file'[o] = Closed
        /\ at'[o] = "open" => m_iId'[o] # None /\ File(o)' \notin opened'
        /\ at'[o] = "print" => g_file'[o] # Closed
        /\ g_file'[o] # Closed
             => m_iId'[o] # None /\ g_file'[o] = File(o)' /\ File(o)' \in opened'
        /\ g_file'[o] = Closed /\ o \in Writes => Of(o)' = {}
    <3>1. o \in Logs => o \notin Writes
      BY DEF Sizes
    <3>2. g_file[o] # Closed => m_iId[o] # None /\ g_file[o] = File(o) /\ File(o) \in opened
      BY DEF Good, Stages
    <3>3. g_file[o] = Closed /\ o \in Writes => Of(o)' = {}
      BY <1>1 DEF Good, Stages, Of, Class
    <3> QED
      BY <1>1, <1>4, <1>5, <2>2, <2>3, <3>1, <3>2, <3>3
  <2> QED
    BY <2>4, <2>5 DEF Stages
<1> QED
  BY <1>2, <1>3, <1>6, <1>7, <1>8, <1>9 DEF Good

\* A step that leaves the files alone and opens none.
LEMMA FilesStay ==
    ASSUME Good,
           UNCHANGED <<g_iNum, m_iId, m_iNum, m_iFilesize, g_file, disk, lines, opened>>
    PROVE  /\ Owned' /\ Together' /\ \A p \in Logs : LineCounts(p)'
           /\ \A p \in Objects : Of(p)' = Of(p) /\ File(p)' = File(p) /\ Class(p)' = Class(p)
<1>1. \A p \in Objects : Of(p)' = Of(p) /\ File(p)' = File(p) /\ Class(p)' = Class(p)
  BY DEF Of, Class, File
<1>2. Owned'
  BY <1>1 DEF Good, Owned
<1>3. LastLines' /\ InARow' /\ NoneMissing'
  BY DEF Good, Together, LastLines, InARow, NoneMissing
<1>4. InOrder'
  BY <1>1 DEF Good, Together, InOrder
<1>5. ASSUME NEW p \in Logs PROVE LineCounts(p)'
  <2>1. p \in Objects /\ Of(p)' = Of(p) /\ LineCounts(p)
    BY <1>1 DEF Good, Objects
  <2> QED
    BY <2>1 DEF LineCounts, Full
<1> QED
  BY <1>1, <1>2, <1>3, <1>4, <1>5 DEF Together

LEMMA ReadNumKeeps ==
    ASSUME Sizes, Good, NEW o \in Objects, ReadNum(o), ~met'
    PROVE  Good'
<1>1. UNCHANGED <<g_iNum, m_iId, m_iNum, m_iFilesize, g_file, disk, lines, opened>>
  BY DEF ReadNum
<1>2. /\ at[o] = "draw" /\ at' = [at EXCEPT ![o] = "store"]
      /\ seen' = [seen EXCEPT ![o] = g_iNum[Class(o)]]
      /\ \A p \in Objects \ {o} : Class(p) = Class(o) => at[p] # "store"
  BY DEF ReadNum, Moves
<1>3. /\ at' \in [Objects -> Places] /\ at'[o] = "store" /\ \A p \in Objects \ {o} : at'[p] = at[p]
      /\ seen'[o] = g_iNum[Class(o)] /\ \A p \in Objects \ {o} : seen'[p] = seen[p]
      /\ seen' \in [Objects -> 0..(Width - 1)]
  <2>1. g_iNum[Class(o)] \in 0..(Width - 1)
    BY DEF Good, LogTyped, Class, Classes
  <2> QED
    BY <1>2, <2>1 DEF Good, LogTyped, Places
<1>4. LogTyped'
  BY <1>1, <1>3 DEF Good, LogTyped
<1>5. Numbers'
  BY <1>1, <1>2, <1>3 DEF Good, Numbers, Class
<1>6. Owned' /\ Together' /\ \A p \in Logs : LineCounts(p)'
  BY <1>1, FilesStay
<1>7. Stages'
  BY <1>1, <1>2, <1>3 DEF Good, Stages, File, Of, Class
<1> QED
  BY <1>4, <1>5, <1>6, <1>7 DEF Good

\* The new number is above those of all files and objects.
LEMMA StoreNumKeeps ==
    ASSUME Sizes, Good, NEW o \in Objects, StoreNum(o), ~wrapped'
    PROVE  Good'
<1> DEFINE c == Class(o)
           n == seen[o]
<1>1. UNCHANGED <<m_iNum, m_iFilesize, g_file, disk, lines, opened>>
  BY DEF StoreNum
<1>2. /\ at[o] = "store" /\ at' = [at EXCEPT ![o] = "open"]
      /\ g_iNum' = [g_iNum EXCEPT ![c] = (n + 1) % Width]
      /\ seen' = [seen EXCEPT ![o] = 0]
      /\ m_iId' = [m_iId EXCEPT ![o] = n]
      /\ n + 1 # Width
  BY DEF StoreNum, Moves
<1>3. c \in Classes /\ n \in Nat /\ n < Width /\ Width \in Nat
  BY DEF Good, LogTyped, Class, Classes, Sizes
<1>4. (n + 1) % Width = n + 1 /\ n + 1 \in 0..(Width - 1)
  <2>1. n + 1 \in Nat /\ n + 1 < Width
    BY <1>2, <1>3
  <2> QED
    BY <1>3, <2>1
<1>5. n = g_iNum[c]
  BY <1>2 DEF Good, Numbers
<1> HIDE DEF c, n
<1>6. /\ at' \in [Objects -> Places] /\ at'[o] = "open" /\ \A p \in Objects \ {o} : at'[p] = at[p]
      /\ seen' \in [Objects -> 0..(Width - 1)] /\ \A p \in Objects \ {o} : seen'[p] = seen[p]
      /\ m_iId' \in [Objects -> Nat \cup {None}]
      /\ m_iId'[o] = n /\ \A p \in Objects \ {o} : m_iId'[p] = m_iId[p]
      /\ g_iNum' \in [Classes -> 0..(Width - 1)]
      /\ g_iNum'[c] = n + 1 /\ \A d \in Classes \ {c} : g_iNum'[d] = g_iNum[d]
  BY <1>2, <1>3, <1>4 DEF Good, LogTyped, Places
<1>7. LogTyped'
  BY <1>1, <1>6 DEF Good, LogTyped
<1>8. \A d \in Classes : g_iNum[d] <= g_iNum'[d] /\ g_iNum[d] \in Nat /\ g_iNum'[d] \in Nat
  BY <1>3, <1>5, <1>6 DEF Good, LogTyped
<1>9. /\ \A p \in Objects : Class(p) \in Classes /\ Class(p)' = Class(p) /\ m_iId[p] \in Int
      /\ Class(o) = c
  BY Facts DEF Class, c
<1>10. Numbers'
  <2>1. ASSUME NEW p \in Objects, at'[p] = "store" PROVE seen'[p] = g_iNum'[Class(p)] /\ p # o
    <3>1. p # o /\ at[p] = "store" /\ seen[p] = g_iNum[Class(p)]
      BY <1>6, <2>1 DEF Good, Numbers
    <3>2. Class(p) # c
      BY <1>2, <1>9, <3>1 DEF Good, Numbers
    <3> QED
      BY <1>6, <1>9, <3>1, <3>2
  <2>2. ASSUME NEW p \in Objects PROVE m_iId'[p] < g_iNum'[Class(p)]
    <3>1. CASE p = o
      BY <1>3, <1>6, <1>9, <3>1
    <3>2. CASE p # o
      <4>1. m_iId'[p] = m_iId[p] /\ m_iId[p] < g_iNum[Class(p)]
        BY <1>6, <3>2 DEF Good, Numbers
      <4> QED
        BY <1>8, <1>9, <4>1
    <3> QED
      BY <3>1, <3>2
  <2>3. ASSUME NEW p \in Objects \ {o}, Class(p) = c PROVE m_iId'[p] # n
    <3>1. m_iId'[p] = m_iId[p] /\ m_iId[p] < n
      BY <1>5, <1>6, <2>3 DEF Good, Numbers
    <3> QED
      BY <1>3, <1>9, <3>1
  <2>4. \A p, q \in Objects :
            m_iId'[p] = m_iId'[q] /\ m_iId'[p] # None /\ Class(p) = Class(q) => p = q
    BY <1>6, <1>9, <2>3 DEF Good, Numbers
  <2>5. \A p, q \in Objects : at'[p] = "store" /\ at'[q] = "store" /\ Class(p) = Class(q) => p = q
    BY <1>6, <2>1 DEF Good, Numbers
  <2> QED
    BY <1>9, <2>1, <2>2, <2>4, <2>5 DEF Numbers
<1>11. \A f \in opened : f[1] \in Classes /\ f[2] \in Nat /\ f[2] < g_iNum[f[1]]
  BY DEF Good, LogTyped, Names, Owned
<1>12. Of(o)' = {} /\ \A p \in Objects \ {o} : Of(p)' = Of(p)
  <2>1. ASSUME NEW f \in opened, f[1] = c PROVE f[2] # n
    BY <1>3, <1>5, <1>11, <2>1
  <2> QED
    BY <1>1, <1>6, <1>9, <2>1 DEF Of
<1>17. Of(o) = {}
  <2>1. CASE o \in Logs
    <3>1. m_iId[o] = None
      BY <1>2, <2>1 DEF Good, Stages
    <3> QED
      BY <1>11, <3>1 DEF Of, None
  <2>2. CASE o \in Writes
    BY <1>2, <2>2 DEF Good, Stages
  <2> QED
    BY <2>1, <2>2 DEF Objects
<1>13. Owned'
  <2>1. ASSUME NEW f \in opened PROVE f[2] < g_iNum'[f[1]]
    BY <1>8, <1>11
  <2>2. ASSUME NEW f \in opened PROVE \E p \in Objects : f \in Of(p)'
    <3>1. PICK p \in Objects : f \in Of(p)
      BY DEF Good, Owned
    <3>2. p # o
      BY <1>17, <3>1
    <3> QED
      BY <1>12, <3>1, <3>2
  <2> QED
    BY <1>1, <1>12, <2>1, <2>2 DEF Good, Owned
<1>14. Together'
  <2>1. InOrder'
    BY <1>1, <1>12 DEF Good, Together, InOrder
  <2> QED
    BY <1>1, <2>1 DEF Good, Together, LastLines, InARow, NoneMissing
<1>15. \A p \in Logs : LineCounts(p)'
  <2>1. ASSUME NEW p \in Logs, p # o PROVE LineCounts(p)'
    <3>1. Of(p)' = Of(p) /\ LineCounts(p)
      BY <1>12, <2>1 DEF Good, Objects
    <3> QED
      BY <1>1, <3>1 DEF LineCounts, Full
  <2>2. ASSUME o \in Logs PROVE LineCounts(o)'
    <3>1. g_file[o] = Closed
      BY <1>2 DEF Good, Stages
    <3>3. m_iFilesize[o] = 0
      BY <1>17, <2>2 DEF Good, LineCounts
    <3> QED
      BY <1>1, <1>12, <3>1, <3>3 DEF LineCounts
  <2> QED
    BY <2>1, <2>2
<1>16. Stages'
  <2>1. ASSUME NEW p \in Objects \ {o} PROVE File(p)' = File(p) /\ at'[p] = at[p] /\ m_iId'[p] = m_iId[p]
    BY <1>1, <1>6, <1>9 DEF File
  <2>2. File(o)' \notin opened
    <3>1. File(o)' = <<c, n, m_iNum[o]>>
      BY <1>1, <1>6, <1>9 DEF File
    <3>2. \A f \in opened : ~(f[1] = c /\ f[2] = n)
      BY <1>3, <1>5, <1>11
    <3> QED
      BY <3>1, <3>2
  <2>3. g_file[o] = Closed /\ n # None
    BY <1>2, <1>3 DEF Good, Stages, None
  <2> QED
    BY <1>1, <1>6, <1>12, <2>1, <2>2, <2>3 DEF Good, Stages
<1> QED
  BY <1>7, <1>10, <1>13, <1>14, <1>15, <1>16 DEF Good

\* The file opened is new to this process: none that it wrote is emptied.
LEMMA OpenKeeps ==
    ASSUME Sizes, Good, NEW o \in Objects, Open(o)
    PROVE  Good'
<1> DEFINE new == File(o)
<1>1. UNCHANGED <<g_iNum, seen, m_iId, m_iNum, m_iFilesize, lines>>
  BY DEF Open, own
<1>2. /\ at[o] = "open" /\ m_iId[o] \in Nat /\ m_iId[o] # None /\ new \notin opened
      /\ g_file[o] = Closed
  BY Facts DEF Open, Moves, Good, Stages
<1>3. /\ new \in Names /\ new[1] = Class(o) /\ new[2] = m_iId[o] /\ new[3] = m_iNum[o]
      /\ new # Closed
  BY <1>2, Facts DEF File, Names, Closed
<1>4. \/ /\ at' = [at EXCEPT ![o] = "print"]
         /\ g_file' = [g_file EXCEPT ![o] = new]
         /\ opened' = opened \cup {new} /\ new \in DOMAIN disk'
         /\ DOMAIN disk \subseteq DOMAIN disk'
         /\ disk'[new] = <<>> /\ \A f \in opened : disk'[f] = disk[f]
      \/ at' = [at EXCEPT ![o] = "idle"] /\ UNCHANGED <<g_file, disk, opened>>
  <2>1. opened \subseteq DOMAIN disk
    BY DEF Good, LogTyped
  <2> QED
    BY <1>2, <2>1 DEF Open, Moves, own, Emptied
<1>5. \A p \in Objects : File(p)' = File(p) /\ Class(p)' = Class(p)
  BY <1>1 DEF File, Class
<1> HIDE DEF new
<1>6. Numbers'
  <2>1. \A p \in Objects : at'[p] = "store" => at[p] = "store"
    BY <1>4 DEF Good, LogTyped
  <2> QED
    BY <1>1, <1>5, <2>1 DEF Good, Numbers
<1>7. CASE at' = [at EXCEPT ![o] = "idle"] /\ UNCHANGED <<g_file, disk, opened>>
  <2>1. at' \in [Objects -> Places] /\ at'[o] = "idle" /\ \A p \in Objects \ {o} : at'[p] = at[p]
    BY <1>7 DEF Good, LogTyped, Places
  <2>2. LogTyped'
    BY <1>1, <1>7, <2>1 DEF Good, LogTyped
  <2>3. Stages'
    BY <1>1, <1>5, <1>7, <2>1 DEF Good, Stages, Of
  <2>4. Owned' /\ Together' /\ \A p \in Logs : LineCounts(p)'
    BY <1>1, <1>7, FilesStay
  <2> QED
    BY <1>6, <2>2, <2>3, <2>4 DEF Good
<1>8. CASE /\ at' = [at EXCEPT ![o] = "print"]
           /\ g_file' = [g_file EXCEPT ![o] = new]
           /\ opened' = opened \cup {new} /\ new \in DOMAIN disk'
           /\ DOMAIN disk \subseteq DOMAIN disk'
           /\ disk'[new] = <<>> /\ \A f \in opened : disk'[f] = disk[f]
  <2>1. /\ at' \in [Objects -> Places] /\ at'[o] = "print" /\ \A p \in Objects \ {o} : at'[p] = at[p]
        /\ g_file' \in [Objects -> Names \cup {Closed}]
        /\ g_file'[o] = new /\ \A p \in Objects \ {o} : g_file'[p] = g_file[p]
    BY <1>3, <1>8 DEF Good, LogTyped, Places
  <2>2. LogTyped'
    <3>1. ASSUME NEW f \in opened'
          PROVE  f \in Names \cap DOMAIN disk' /\ disk'[f] \in Seq(Objects \X Nat)
      <4>1. CASE f = new
        BY <1>3, <1>8, <4>1, EmptySeq
      <4>2. CASE f \in opened
        BY <1>8, <4>2 DEF Good, LogTyped
      <4> QED
        BY <1>8, <4>1, <4>2
    <3> QED
      BY <1>1, <2>1, <3>1 DEF Good, LogTyped
  <2>4. /\ Of(o)' = Of(o) \cup {new} /\ new \notin Of(o)
        /\ \A p \in Objects \ {o} : Of(p)' = Of(p)
    <3>1. \A p \in Objects \ {o} : ~(new[1] = Class(p) /\ new[2] = m_iId[p])
      BY <1>2, <1>3 DEF Good, Numbers
    <3> QED
      BY <1>1, <1>2, <1>3, <1>5, <1>8, <3>1 DEF Of
  <2>5. \A p \in Objects : Of(p) \subseteq opened
    BY DEF Of
  <2>3. Stages'
    <3>1. ASSUME NEW p \in Objects \ {o}, at[p] = "open" PROVE File(p) # new
      <4>1. m_iId[p] # None /\ File(p)[1] = Class(p) /\ File(p)[2] = m_iId[p]
        BY <3>1 DEF Good, Stages, File
      <4>2. ~(Class(p) = Class(o) /\ m_iId[p] = m_iId[o])
        BY <4>1 DEF Good, Numbers
      <4> QED
        BY <1>3, <4>1, <4>2
    <3>2. new = File(o)
      BY DEF new
    <3> QED
      BY <1>1, <1>2, <1>3, <1>5, <1>8, <2>1, <2>4, <3>1, <3>2 DEF Good, Stages
  <2>6. Len(disk'[new]) = 0
    BY <1>8, EmptySeq
  <2>7. Owned'
    <3>1. ASSUME NEW f \in opened' PROVE f[2] < g_iNum[f[1]]
      <4>1. CASE f = new
        BY <1>3, <4>1 DEF Good, Numbers
      <4> QED
        BY <1>8, <3>1, <4>1 DEF Good, Owned
    <3>2. ASSUME NEW p \in Objects, NEW f \in Of(p)'
          PROVE  /\ f[3] <= m_iNum[p]
                 /\ \A i \in 1..Len(disk'[f]) : disk'[f][i][1] = p /\ disk'[f][i][2] <= lines[p]
      <4>1. CASE f = new
        <5>1. p = o
          BY <1>8, <2>4, <2>5, <3>2, <4>1, <1>2
        <5> QED
          BY <1>3, <2>6, <4>1, <5>1, Facts
      <4>2. CASE f # new
        <5>1. f \in Of(p) /\ disk'[f] = disk[f]
          BY <1>8, <2>4, <2>5, <3>2, <4>2
        <5> QED
          BY <5>1 DEF Good, Owned
      <4> QED
        BY <4>1, <4>2
    <3>3. ASSUME NEW f \in opened' PROVE \E p \in Objects : f \in Of(p)'
      <4>1. CASE f = new
        BY <2>4, <4>1
      <4>2. CASE f # new
        <5>1. PICK p \in Objects : f \in Of(p)
          BY <1>8, <4>2 DEF Good, Owned
        <5> QED
          BY <2>4, <5>1
      <4> QED
        BY <4>1, <4>2
    <3> QED
      BY <1>1, <3>1, <3>2, <3>3 DEF Owned
  <2>8. Together'
    <3>1. InARow'
      <4>1. ASSUME NEW f \in opened', NEW i \in 1..(Len(disk'[f]) - 1)
            PROVE  disk'[f][i + 1] = <<disk'[f][i][1], disk'[f][i][2] + 1>>
        <5>1. f # new
          BY <2>6, <4>1
        <5> QED
          BY <1>8, <4>1, <5>1 DEF Good, Together, InARow
      <4> QED
        BY <4>1 DEF InARow
    <3>2. InOrder'
      <4>1. ASSUME NEW p \in Objects, NEW f \in Of(p)', NEW h \in Of(p)', f[3] < h[3],
                   NEW i \in 1..Len(disk'[f]), NEW j \in 1..Len(disk'[h])
            PROVE  disk'[f][i][2] < disk'[h][j][2]
        <5>1. f # new /\ h # new
          BY <2>6, <4>1
        <5>2. f \in Of(p) /\ h \in Of(p) /\ disk'[f] = disk[f] /\ disk'[h] = disk[h]
          BY <1>8, <2>4, <2>5, <4>1, <5>1
        <5> QED
          BY <4>1, <5>2 DEF Good, Together, InOrder
      <4> QED
        BY <4>1 DEF InOrder
    <3>3. NoneMissing'
      <4>1. ASSUME NEW p \in Objects, NEW n \in 1..lines[p]
            PROVE  \E f \in opened' : Contains(disk'[f], <<p, n>>)
        <5>1. PICK f \in opened : Contains(disk[f], <<p, n>>)
          BY DEF Good, Together, NoneMissing
        <5> QED
          BY <1>8, <5>1
      <4> QED
        BY <1>1, <4>1 DEF NoneMissing
    <3>4. LastLines'
      <4>1. ASSUME NEW p \in Objects, p # o, g_file[p] # Closed
            PROVE  g_file'[p] = g_file[p] /\ disk'[g_file[p]] = disk[g_file[p]]
        <5>1. g_file[p] \in opened
          BY <4>1 DEF Good, Stages
        <5> QED
          BY <1>8, <2>1, <4>1, <5>1
      <4>2. \A p \in Objects \ {o} : g_file'[p] = g_file[p]
        BY <2>1
      <4>3. ASSUME NEW p \in Objects, g_file'[p] # Closed, Len(disk'[g_file'[p]]) > 0
            PROVE  disk'[g_file'[p]][Len(disk'[g_file'[p]])][2] = lines[p]
        <5>1. p # o
          BY <2>1, <2>6, <4>3
        <5>2. g_file[p] # Closed /\ g_file'[p] = g_file[p] /\ disk'[g_file[p]] = disk[g_file[p]]
          BY <4>1, <4>2, <4>3, <5>1
        <5> QED
          BY <4>3, <5>2 DEF Good, Together, LastLines
      <4> QED
        BY <1>1, <4>3 DEF LastLines
    <3> QED
      BY <3>1, <3>2, <3>3, <3>4 DEF Together
  <2>9. ASSUME NEW p \in Logs PROVE LineCounts(p)'
    <3>1. p \in Objects /\ LineCounts(p)
      BY DEF Good, Objects
    <3>2. CASE p # o
      <4>1. Of(p)' = Of(p) /\ g_file'[p] = g_file[p] /\ \A f \in Of(p) : disk'[f] = disk[f]
        BY <1>8, <2>1, <2>4, <2>5, <3>1, <3>2
      <4>2. g_file[p] # Closed => g_file[p] \in opened
        BY <3>1 DEF Good, Stages
      <4>3. g_file[p] # Closed => disk'[g_file[p]] = disk[g_file[p]]
        BY <1>8, <4>2
      <4> QED
        BY <1>1, <3>1, <4>1, <4>3 DEF LineCounts, Full
    <3>3. CASE p = o
      <4>1. m_iFilesize[o] \in Nat /\ FileLimit \in Nat /\ m_iNum[o] \in Nat
        BY <3>1, <3>3, Facts DEF Sizes
      <4>2. \A f \in Of(o) : /\ disk'[f] = disk[f] /\ f # new /\ f[3] \in Nat /\ f[3] <= m_iNum[o]
        BY <1>8, <2>4, <2>5 DEF Good, Owned, LogTyped, Names
      <4>3. Of(o) # {} => m_iFilesize[o] > FileLimit /\ \A f \in Of(o) : Full(f)
        BY <1>2, <3>1, <3>3 DEF LineCounts
      <4>4. \A f \in Of(o) : Full(f)'
        BY <4>2, <4>3 DEF Full
      <4>5. Of(o) = {} => m_iFilesize[o] = 0
        BY <3>1, <3>3 DEF LineCounts
      <4>6. ASSUME NEW f \in Of(o)', NEW g \in Of(o)', f[3] < g[3]
            PROVE  Full(f)' /\ Len(disk'[g]) <= 1
        <5>1. CASE g = new
          <6>1. f # new
            BY <1>3, <4>1, <4>6, <5>1
          <6> QED
            BY <2>4, <2>6, <4>4, <5>1, <6>1
        <5>2. CASE g # new
          <6>1. g \in Of(o) /\ g[3] <= new[3] /\ g[3] \in Nat /\ new[3] \in Nat
            BY <1>3, <2>4, <4>1, <4>2, <5>2
          <6>2. f # new
            BY <4>6, <6>1
          <6>3. f \in Of(o) /\ disk'[f] = disk[f] /\ disk'[g] = disk[g]
            BY <2>4, <4>2, <6>1, <6>2
          <6> QED
            BY <3>1, <3>3, <4>4, <4>6, <6>1, <6>3 DEF LineCounts
        <5> QED
          BY <5>1, <5>2
      <4>7. Of(o)' # {} /\ g_file'[o] = new /\ new # Closed /\ m_iFilesize'[o] = m_iFilesize[o]
        BY <1>1, <1>3, <2>1, <2>4
      <4>8. m_iFilesize[o] <= FileLimit => Of(o)' = {new} /\ Len(disk'[new]) <= m_iFilesize[o]
        BY <2>4, <2>6, <4>1, <4>3, <4>5
      <4>9. \A f \in Of(o)' \ {new} : Full(f)'
        BY <2>4, <4>4
      <4> QED
        BY <2>6, <3>3, <4>6, <4>7, <4>8, <4>9 DEF LineCounts
    <3> QED
      BY <3>2, <3>3
  <2> QED
    BY <1>6, <2>2, <2>3, <2>7, <2>8, <2>9 DEF Good
<1> QED
  BY <1>4, <1>7, <1>8

\* The disk takes the line.
LineWritten(o) ==
    /\ lines' = [lines EXCEPT ![o] = @ + 1]
    /\ disk' = [disk EXCEPT ![g_file[o]] = Append(@, <<o, lines[o] + 1>>)]

\* The line goes to a file that no other object has had open.
LEMMA WrittenKeeps ==
    ASSUME Sizes, Good, NEW o \in Objects, PutLine(o), LineWritten(o)
    PROVE  Good'
<1> DEFINE g == g_file[o]
           line == <<o, lines[o] + 1>>
           over == o \in Logs /\ m_iFilesize[o] + 1 > FileLimit
<1>1. UNCHANGED <<g_iNum, seen, m_iId, m_iNum, opened>>
  BY DEF PutLine
<1>2. /\ g # Closed /\ m_iId[o] # None /\ g = File(o) /\ g \in opened
      /\ at[o] = "print" /\ at' = [at EXCEPT ![o] = "idle"]
  BY DEF PutLine, Moves, Good, Stages
<1>3. /\ g \in Names /\ g[1] = Class(o) /\ g[2] = m_iId[o] /\ g[3] = m_iNum[o]
      /\ disk[g] \in Seq(Objects \X Nat) /\ lines[o] \in Nat /\ m_iFilesize[o] \in Nat
      /\ FileLimit \in Nat
  BY <1>2, Facts DEF Good, LogTyped, File, Sizes
<1>4. /\ lines' = [lines EXCEPT ![o] = @ + 1]
      /\ m_iFilesize' = [m_iFilesize EXCEPT ![o] = @ + 1]
      /\ disk' = [disk EXCEPT ![g] = Append(@, line)]
  BY DEF PutLine, LineWritten
<1>5. m_iFilesize'[o] = m_iFilesize[o] + 1
  BY <1>4 DEF Good, LogTyped
<1>6. g_file' = IF over THEN [g_file EXCEPT ![o] = Closed] ELSE g_file
  BY <1>5 DEF PutLine
<1>7. /\ opened' = opened /\ DOMAIN disk' = DOMAIN disk
      /\ disk'[g] = Append(disk[g], line)
      /\ \A f \in opened \ {g} : disk'[f] = disk[f]
  <2>1. opened \subseteq DOMAIN disk
    BY DEF Good, LogTyped
  <2> QED
    BY <1>1, <1>2, <1>4, <2>1
<1> DEFINE grown == Append(disk[g], line)
<1>8. /\ grown \in Seq(Objects \X Nat) /\ Len(grown) = Len(disk[g]) + 1 /\ Len(disk[g]) \in Nat
      /\ \A i \in 1..Len(disk[g]) : grown[i] = disk[g][i]
      /\ grown[Len(disk[g]) + 1] = line
  <2>1. line \in Objects \X Nat
    BY <1>3
  <2> QED
    BY <1>3, <2>1, AppendProperties
<1>9. \A p \in Objects : File(p)' = File(p) /\ Class(p)' = Class(p)
  BY <1>1 DEF File, Class
<1>10. disk'[g] = grown
  BY <1>7
<1>11. \A i \in 1..Len(grown) : i \in 1..Len(disk[g]) \/ i = Len(disk[g]) + 1
  <2>1. Len(grown) = Len(disk[g]) + 1 /\ Len(disk[g]) \in Nat
    BY <1>8
  <2> HIDE DEF grown
  <2> QED
    BY <2>1
<1>12. line[1] = o /\ line[2] = lines[o] + 1
  OBVIOUS
<1> HIDE DEF g, grown, over
<1>13. /\ at' \in [Objects -> Places] /\ at'[o] = "idle" /\ \A p \in Objects \ {o} : at'[p] = at[p]
       /\ lines' \in [Objects -> Nat]
       /\ lines'[o] = lines[o] + 1 /\ \A p \in Objects \ {o} : lines'[p] = lines[p]
       /\ m_iFilesize' \in [Objects -> Nat]
       /\ \A p \in Objects \ {o} : m_iFilesize'[p] = m_iFilesize[p]
       /\ g_file' \in [Objects -> Names \cup {Closed}]
       /\ g_file'[o] = IF over THEN Closed ELSE g
       /\ \A p \in Objects \ {o} : g_file'[p] = g_file[p]
  <2>1. at' \in [Objects -> Places] /\ at'[o] = "idle" /\ \A p \in Objects \ {o} : at'[p] = at[p]
    BY <1>2 DEF Good, LogTyped, Places
  <2>2. /\ lines' \in [Objects -> Nat]
        /\ lines'[o] = lines[o] + 1 /\ \A p \in Objects \ {o} : lines'[p] = lines[p]
    BY <1>4 DEF Good, LogTyped
  <2>3. /\ m_iFilesize' \in [Objects -> Nat]
        /\ \A p \in Objects \ {o} : m_iFilesize'[p] = m_iFilesize[p]
    BY <1>4 DEF Good, LogTyped
  <2>4. /\ g_file' \in [Objects -> Names \cup {Closed}]
        /\ g_file'[o] = IF over THEN Closed ELSE g
        /\ \A p \in Objects \ {o} : g_file'[p] = g_file[p]
    BY <1>6 DEF Good, LogTyped, g
  <2> QED
    BY <2>1, <2>2, <2>3, <2>4
<1>14. LogTyped'
  <2>1. \A f \in opened' : disk'[f] \in Seq(Objects \X Nat)
    BY <1>7, <1>8, <1>10 DEF Good, LogTyped
  <2> QED
    BY <1>1, <1>7, <1>13, <2>1 DEF Good, LogTyped
<1>15. Stages'
  <2>1. \A p \in Objects : Of(p)' = Of(p)
    BY <1>1, <1>9 DEF Of
  <2>2. o \in Writes => g_file'[o] = g
    <3>1. o \in Writes => o \notin Logs
      BY DEF Sizes
    <3> QED
      BY <1>13, <3>1 DEF over
  <2> QED
    <3>1. g_file'[o] # Closed => g_file'[o] = g
      BY <1>13
    <3>2. at'[o] = "idle" /\ g = File(o)' /\ g \in opened' /\ m_iId'[o] # None
      BY <1>1, <1>2, <1>9, <1>13
    <3>3. ASSUME NEW p \in Objects, p # o
          PROVE  /\ at'[p] = at[p] /\ g_file'[p] = g_file[p] /\ File(p)' = File(p)
                 /\ Of(p)' = Of(p) /\ m_iId'[p] = m_iId[p] /\ opened' = opened
      BY <1>1, <1>9, <1>13, <2>1, <3>3
    <3> QED
      BY <1>2, <2>2, <3>1, <3>2, <3>3 DEF Good, Stages
<1>16. Numbers'
  <2>1. \A p \in Objects : at'[p] = "store" => at[p] = "store"
    BY <1>13
  <2> QED
    BY <1>1, <1>9, <2>1 DEF Good, Numbers
<1>17. \A p \in Objects : Of(p)' = Of(p) /\ Of(p) \subseteq opened
  BY <1>1, <1>7, <1>9 DEF Of
<1>18. g \in Of(o) /\ \A p \in Objects \ {o} : g \notin Of(p)
  <2>1. \A p \in Objects \ {o} : ~(g[1] = Class(p) /\ g[2] = m_iId[p])
    BY <1>2, <1>3 DEF Good, Numbers
  <2> QED
    BY <1>2, <1>3, <2>1 DEF Of
<1>19. /\ \A i \in 1..Len(disk[g]) : disk[g][i][1] = o /\ disk[g][i][2] <= lines[o]
       /\ \A i \in 1..Len(grown) : grown[i][1] = o /\ grown[i][2] <= lines[o] + 1
  <2>1. \A i \in 1..Len(disk[g]) : disk[g][i][1] = o /\ disk[g][i][2] <= lines[o]
    BY <1>18 DEF Good, Owned
  <2>2. \A i \in 1..Len(disk[g]) : disk[g][i][2] \in Nat
    <3>1. \A i \in 1..Len(disk[g]) : disk[g][i] \in Objects \X Nat
      BY <1>3
    <3> QED
      BY <3>1
  <2>3. ASSUME NEW i \in 1..Len(grown) PROVE grown[i][1] = o /\ grown[i][2] <= lines[o] + 1
    <3>1. CASE i \in 1..Len(disk[g])
      <4>1. grown[i] = disk[g][i]
        BY <1>8, <3>1
      <4> QED
        BY <1>3, <2>1, <2>2, <3>1, <4>1
    <3>2. CASE i = Len(disk[g]) + 1
      <4>1. grown[i] = line
        BY <1>8, <3>2
      <4>2. grown[i][1] = line[1] /\ grown[i][2] = line[2]
        BY <4>1
      <4> HIDE DEF line
      <4> QED
        BY <1>3, <1>12, <4>2
    <3> QED
      BY <1>11, <3>1, <3>2
  <2> QED
    BY <2>1, <2>3
<1>20. Owned'
  <2>1. ASSUME NEW p \in Objects, NEW f \in Of(p)
        PROVE  /\ f[3] <= m_iNum[p]
               /\ \A i \in 1..Len(disk'[f]) : disk'[f][i][1] = p /\ disk'[f][i][2] <= lines'[p]
    <3>1. CASE f = g
      <4>1. p = o
        BY <1>18, <2>1, <3>1
      <4> QED
        <5>1. disk'[f] = grown /\ lines'[p] = lines[o] + 1
          BY <1>10, <1>13, <3>1, <4>1
        <5>2. f[3] <= m_iNum[p]
          BY <2>1 DEF Good, Owned
        <5> QED
          BY <1>19, <4>1, <5>1, <5>2
    <3>2. CASE f # g
      <4>1. disk'[f] = disk[f] /\ f \in opened
        BY <1>7, <1>17, <2>1, <3>2
      <4>2. \A i \in 1..Len(disk[f]) : disk[f][i][2] \in Nat
        <5>1. disk[f] \in Seq(Objects \X Nat)
          BY <4>1 DEF Good, LogTyped
        <5>2. \A i \in 1..Len(disk[f]) : disk[f][i] \in Objects \X Nat
          BY <5>1
        <5> QED
          BY <5>2
      <4>3. /\ f[3] <= m_iNum[p]
            /\ \A i \in 1..Len(disk[f]) : disk[f][i][1] = p /\ disk[f][i][2] <= lines[p]
        BY <2>1 DEF Good, Owned
      <4>4. lines[p] <= lines'[p] /\ lines[p] \in Nat /\ lines'[p] \in Nat
        <5>1. lines[p] \in Nat
          BY Facts
        <5>2. CASE p = o
          BY <1>13, <5>1, <5>2
        <5>3. CASE p # o
          BY <1>13, <5>1, <5>3
        <5> QED
          BY <5>2, <5>3
      <4>5. ASSUME NEW i \in 1..Len(disk[f]) PROVE disk[f][i][2] <= lines'[p]
        <5>1. disk[f][i][2] \in Nat /\ disk[f][i][2] <= lines[p]
          BY <4>2, <4>3
        <5> QED
          BY <4>4, <5>1
      <4> QED
        BY <4>1, <4>3, <4>5
    <3> QED
      BY <3>1, <3>2
  <2> QED
    BY <1>1, <1>17, <2>1 DEF Good, Owned
<1>21. Together'
  <2>1. InARow'
    <3>1. ASSUME NEW f \in opened, NEW i \in 1..(Len(disk'[f]) - 1)
          PROVE  disk'[f][i + 1] = <<disk'[f][i][1], disk'[f][i][2] + 1>>
      <4>1. CASE f # g
        BY <1>7, <3>1, <4>1 DEF Good, Together, InARow
      <4>2. CASE f = g
        <5>1. i \in 1..Len(disk[g]) /\ grown[i] = disk[g][i]
          BY <1>8, <1>10, <3>1, <4>2
        <5>2. CASE i < Len(disk[g])
          <6>1. i \in 1..(Len(disk[g]) - 1) /\ i + 1 \in 1..Len(disk[g])
            <7>1. Len(disk[g]) \in Nat /\ i \in 1..Len(disk[g])
              BY <1>8, <5>1
            <7> QED
              BY <5>2, <7>1
          <6>2. grown[i + 1] = disk[g][i + 1]
            BY <1>8, <6>1
          <6>3. disk[g][i + 1] = <<disk[g][i][1], disk[g][i][2] + 1>>
            BY <1>2, <6>1 DEF Good, Together, InARow
          <6> QED
            BY <1>10, <4>2, <5>1, <6>2, <6>3
        <5>3. CASE i = Len(disk[g])
          <6>1. grown[i + 1] = line
            BY <1>8, <5>3
          <6>2. disk[g][i][2] = lines[o] /\ disk[g][i][1] = o
            <7>1. Len(disk[g]) > 0
              BY <1>8, <5>1
            <7>2. disk[g][Len(disk[g])][2] = lines[o]
              BY <1>2, <7>1 DEF Good, Together, LastLines, g
            <7> QED
              BY <1>19, <5>1, <5>3, <7>2
          <6> QED
            BY <1>10, <4>2, <5>1, <6>1, <6>2
        <5>4. i < Len(disk[g]) \/ i = Len(disk[g])
          <6>1. Len(disk[g]) \in Nat /\ i \in 1..Len(disk[g])
            BY <1>8, <5>1
          <6> QED
            BY <6>1
        <5> QED
          BY <5>2, <5>3, <5>4
      <4> QED
        BY <4>1, <4>2
    <3> QED
      BY <1>1, <3>1 DEF InARow
  <2>2. InOrder'
    <3>1. ASSUME NEW p \in Objects, NEW f \in Of(p), NEW h \in Of(p), f[3] < h[3],
                 NEW i \in 1..Len(disk'[f]), NEW j \in 1..Len(disk'[h])
          PROVE  disk'[f][i][2] < disk'[h][j][2]
      <4>1. f \in opened /\ h \in opened
        BY <1>17
      <4>2. f[3] \in Nat /\ h[3] \in Nat /\ h[3] <= m_iNum[p] /\ f[3] <= m_iNum[p]
            /\ m_iNum[p] \in Nat
        BY <4>1, Facts DEF Good, LogTyped, Names, Owned
      <4>3. f # g
        <5> SUFFICES ASSUME f = g PROVE FALSE
          OBVIOUS
        <5>1. p = o
          BY <1>18
        <5>2. f[3] = m_iNum[p]
          BY <1>3, <5>1
        <5> QED
          BY <3>1, <4>2, <5>2
      <4>4. disk'[f] = disk[f] /\ i \in 1..Len(disk[f])
        BY <1>7, <4>1, <4>3
      <4>5. CASE h # g
        <5>1. disk'[h] = disk[h] /\ j \in 1..Len(disk[h])
          BY <1>7, <4>1, <4>5
        <5> QED
          BY <3>1, <4>4, <5>1 DEF Good, Together, InOrder
      <4>6. CASE h = g
        <5>1. p = o
          BY <1>18, <4>6
        <5>2. j \in 1..Len(grown) /\ disk'[h] = grown
          BY <1>10, <4>6
        <5>3. CASE j \in 1..Len(disk[g])
          <6>1. grown[j] = disk[g][j]
            BY <1>8, <5>3
          <6>2. disk[f][i][2] < disk[h][j][2]
            BY <3>1, <4>4, <4>6, <5>3 DEF Good, Together, InOrder
          <6> QED
            BY <4>4, <4>6, <5>2, <6>1, <6>2
        <5>4. CASE j = Len(disk[g]) + 1
          <6>1. grown[j] = line
            BY <1>8, <5>4
          <6>2. grown[j][2] = line[2]
            BY <6>1
          <6>3. disk'[h][j][2] = lines[o] + 1
            BY <1>12, <5>2, <6>2
          <6>4. disk[f][i][2] <= lines[o]
            BY <4>4, <5>1 DEF Good, Owned
          <6>5. disk[f][i][2] \in Nat
            <7>1. disk[f] \in Seq(Objects \X Nat)
              BY <4>1 DEF Good, LogTyped
            <7>2. disk[f][i] \in Objects \X Nat
              BY <4>4, <7>1
            <7> QED
              BY <7>2
          <6> QED
            <7>1. disk'[f][i][2] = disk[f][i][2]
              BY <4>4
            <7>2. \A x, y \in Nat : x <= y => x < y + 1
              OBVIOUS
            <7>3. disk[f][i][2] < lines[o] + 1
              BY <1>3, <6>4, <6>5, <7>2
            <7> QED
              BY <6>3, <7>1, <7>3
        <5> QED
          BY <1>11, <5>2, <5>3, <5>4
      <4> QED
        BY <4>5, <4>6
    <3> QED
      BY <1>17, <3>1 DEF InOrder
  <2>3. NoneMissing'
    <3>1. ASSUME NEW p \in Objects, NEW n \in 1..lines'[p]
          PROVE  \E f \in opened' : Contains(disk'[f], <<p, n>>)
      <4>1. CASE p = o /\ n = lines[o] + 1
        <5>1. Len(disk[g]) + 1 \in 1..Len(grown) /\ grown[Len(disk[g]) + 1] = <<p, n>>
          BY <1>8, <4>1
        <5>2. Contains(grown, <<p, n>>)
          BY <5>1 DEF Contains
        <5> QED
          BY <1>2, <1>7, <1>10, <5>2
      <4>2. CASE ~(p = o /\ n = lines[o] + 1)
        <5>1. n \in 1..lines[p]
          BY <1>3, <1>13, <3>1, <4>2
        <5>2. PICK f \in opened : Contains(disk[f], <<p, n>>)
          BY <5>1 DEF Good, Together, NoneMissing
        <5>3. CASE f = g
          <6>1. PICK i \in 1..Len(disk[g]) : disk[g][i] = <<p, n>>
            BY <5>2, <5>3 DEF Contains
          <6>2. i \in 1..Len(grown) /\ grown[i] = <<p, n>>
            BY <1>8, <6>1
          <6>3. Contains(grown, <<p, n>>)
            BY <6>2 DEF Contains
          <6> QED
            BY <1>2, <1>7, <1>10, <6>3
        <5>4. CASE f # g
          BY <1>7, <5>2, <5>4
        <5> QED
          BY <5>3, <5>4
      <4> QED
        BY <4>1, <4>2
    <3> QED
      BY <3>1 DEF NoneMissing
  <2>4. LastLines'
    <3>1. ASSUME NEW p \in Objects, g_file'[p] # Closed, Len(disk'[g_file'[p]]) > 0
          PROVE  disk'[g_file'[p]][Len(disk'[g_file'[p]])][2] = lines'[p]
      <4>1. CASE p = o
        <5>1. g_file'[p] = g /\ disk'[g] = grown
          BY <1>10, <1>13, <3>1, <4>1
        <5>2. grown[Len(grown)][2] = line[2]
          BY <1>8
        <5> QED
          BY <1>12, <1>13, <4>1, <5>1, <5>2
      <4>2. CASE p # o
        <5>1. g_file'[p] = g_file[p] /\ lines'[p] = lines[p]
          BY <1>13, <4>2
        <5>2. g_file[p] = File(p) /\ File(p) \in opened
          BY <3>1, <5>1 DEF Good, Stages
        <5>3. File(p) \in Of(p)
          BY <5>2 DEF Of, File
        <5>4. disk'[g_file[p]] = disk[g_file[p]]
          BY <1>7, <1>18, <4>2, <5>2, <5>3
        <5> QED
          BY <3>1, <5>1, <5>4 DEF Good, Together, LastLines
      <4> QED
        BY <4>1, <4>2
    <3> QED
      BY <3>1 DEF LastLines
  <2> QED
    BY <2>1, <2>2, <2>3, <2>4 DEF Together
<1>22. ASSUME NEW p \in Logs PROVE LineCounts(p)'
  <2>1. p \in Objects /\ LineCounts(p)
    BY DEF Good, Objects
  <2>2. CASE p # o
    <3>1. g_file'[p] = g_file[p] /\ m_iFilesize'[p] = m_iFilesize[p]
          /\ \A f \in Of(p) : disk'[f] = disk[f]
      BY <1>7, <1>13, <1>17, <1>18, <2>1, <2>2
    <3>2. g_file[p] # Closed => g_file[p] \in Of(p)
      <4>1. File(p)[1] = Class(p) /\ File(p)[2] = m_iId[p]
        BY DEF File
      <4>2. g_file[p] # Closed => g_file[p] = File(p) /\ File(p) \in opened
        BY <2>1 DEF Good, Stages
      <4> QED
        BY <4>1, <4>2 DEF Of
    <3>3. g_file[p] # Closed => disk'[g_file[p]] = disk[g_file[p]]
      BY <3>1, <3>2
    <3> QED
      BY <1>17, <2>1, <3>1, <3>3 DEF LineCounts, Full
  <2>3. CASE p = o
    <3>1. g_file[o] = g /\ (over <=> m_iFilesize[o] + 1 > FileLimit) /\ LineCounts(o)
      BY <2>1, <2>3 DEF g, over
    <3>2. \A f \in Of(o) \ {g} : disk'[f] = disk[f]
      BY <1>7, <1>17
    <3>3. Len(disk'[g]) = Len(disk[g]) + 1 /\ Len(disk[g]) \in Nat
      BY <1>8, <1>10
    <3>4. CASE m_iFilesize[o] <= FileLimit
      <4>1. Of(o) = {g} /\ Len(disk[g]) <= m_iFilesize[o]
        BY <1>2, <2>1, <2>3, <3>1, <3>4 DEF LineCounts
      <4>2. Of(o)' = {g} /\ Len(disk'[g]) <= m_iFilesize[o] + 1 /\ Len(disk'[g]) \in Nat
        BY <1>3, <1>17, <3>3, <4>1
      <4>3. g[3] \in Nat
        BY <1>3 DEF Names
      <4>4. CASE over
        <5>1. m_iFilesize[o] + 1 = FileLimit + 1 /\ g_file'[o] = Closed
          BY <1>3, <1>13, <3>1, <3>4, <4>4
        <5>2. Len(disk'[g]) <= FileLimit + 1 /\ m_iFilesize'[o] > FileLimit
          BY <1>3, <1>5, <4>2, <5>1
        <5>3. \A f \in Of(o)' : Full(f)'
          BY <4>2, <5>2 DEF Full
        <5>4. \A f, h \in Of(o)' : f[3] < h[3] => Full(f)' /\ Len(disk'[h]) <= 1
          BY <4>2, <4>3
        <5>5. Of(o)' # {} /\ ~(m_iFilesize'[o] <= FileLimit)
          BY <1>3, <1>5, <4>2, <5>2
        <5> QED
          BY <2>3, <5>1, <5>2, <5>3, <5>4, <5>5 DEF LineCounts
      <4>5. CASE ~over
        <5>1. g_file'[o] = g /\ m_iFilesize'[o] <= FileLimit /\ ~(m_iFilesize'[o] > FileLimit)
          BY <1>3, <1>5, <1>13, <3>1, <4>5
        <5> QED
          BY <1>2, <1>5, <2>3, <4>2, <4>3, <5>1 DEF LineCounts
      <4> QED
        BY <4>4, <4>5
    <3>5. CASE m_iFilesize[o] > FileLimit
      <4>1. /\ Len(disk[g]) = 0 /\ \A f \in Of(o) \ {g} : Full(f)
            /\ \A f, h \in Of(o) : f[3] < h[3] => Full(f) /\ Len(disk[h]) <= 1
        BY <1>2, <2>1, <2>3, <3>1, <3>5 DEF LineCounts
      <4>2. g_file'[o] = Closed /\ m_iFilesize'[o] > FileLimit
        BY <1>3, <1>5, <1>13, <3>1, <3>5
      <4>3. \A f \in Of(o) : Full(f)'
        <5>1. Len(disk'[g]) <= FileLimit + 1
          BY <1>3, <3>3, <4>1
        <5> QED
          BY <3>2, <4>1, <5>1 DEF Full
      <4>6. Len(disk'[g]) = 1
        BY <3>3, <4>1
      <4>4. ASSUME NEW h \in Of(o), Len(disk[h]) <= 1 PROVE Len(disk'[h]) <= 1
        <5>1. CASE h = g
          <6>1. disk'[h] = disk'[g]
            BY <5>1
          <6>2. Len(disk'[h]) = 1
            BY <4>6, <6>1
          <6> QED
            BY <6>2
        <5>2. CASE h # g
          <6>1. disk'[h] = disk[h]
            BY <3>2, <5>2
          <6> QED
            BY <4>4, <6>1
        <5> QED
          BY <5>1, <5>2
      <4>5. \A f, h \in Of(o) : f[3] < h[3] => Full(f)' /\ Len(disk'[h]) <= 1
        BY <4>1, <4>3, <4>4
      <4> QED
        BY <1>17, <1>18, <2>1, <2>3, <4>2, <4>3, <4>5 DEF LineCounts
    <3> QED
      BY <1>3, <3>4, <3>5
  <2> QED
    BY <2>2, <2>3
<1> QED
  BY <1>14, <1>15, <1>16, <1>20, <1>21, <1>22 DEF Good

\* A line the disk does not take is counted, and may close the file.
LEMMA LostKeeps ==
    ASSUME Sizes, Good, NEW o \in Objects, PutLine(o), UNCHANGED <<lines, disk>>
    PROVE  Good'
<1> DEFINE g == g_file[o]
           over == o \in Logs /\ m_iFilesize[o] + 1 > FileLimit
<1>1. UNCHANGED <<g_iNum, seen, m_iId, m_iNum, opened, lines, disk>>
  BY DEF PutLine
<1>2. /\ g # Closed /\ g = File(o) /\ g \in opened
      /\ at[o] = "print" /\ at' = [at EXCEPT ![o] = "idle"]
  BY DEF PutLine, Moves, Good, Stages
<1>3. m_iFilesize[o] \in Nat /\ FileLimit \in Nat /\ m_iFilesize' = [m_iFilesize EXCEPT ![o] = @ + 1]
  BY Facts DEF Sizes, PutLine
<1>4. m_iFilesize'[o] = m_iFilesize[o] + 1
  BY <1>3 DEF Good, LogTyped
<1>5. g_file' = IF over THEN [g_file EXCEPT ![o] = Closed] ELSE g_file
  BY <1>4 DEF PutLine
<1>6. \A p \in Objects : File(p)' = File(p) /\ Class(p)' = Class(p) /\ Of(p)' = Of(p)
  BY <1>1 DEF File, Class, Of
<1>7. /\ at' \in [Objects -> Places] /\ at'[o] = "idle" /\ \A p \in Objects \ {o} : at'[p] = at[p]
      /\ m_iFilesize' \in [Objects -> Nat]
      /\ \A p \in Objects \ {o} : m_iFilesize'[p] = m_iFilesize[p]
      /\ g_file' \in [Objects -> Names \cup {Closed}]
      /\ g_file'[o] = IF over THEN Closed ELSE g
      /\ \A p \in Objects \ {o} : g_file'[p] = g_file[p]
  <2>1. at' \in [Objects -> Places] /\ at'[o] = "idle" /\ \A p \in Objects \ {o} : at'[p] = at[p]
    BY <1>2 DEF Good, LogTyped, Places
  <2>2. /\ m_iFilesize' \in [Objects -> Nat]
        /\ \A p \in Objects \ {o} : m_iFilesize'[p] = m_iFilesize[p]
    BY <1>3 DEF Good, LogTyped
  <2>3. /\ g_file' \in [Objects -> Names \cup {Closed}]
        /\ g_file'[o] = IF over THEN Closed ELSE g
        /\ \A p \in Objects \ {o} : g_file'[p] = g_file[p]
    BY <1>5 DEF Good, LogTyped
  <2> QED
    BY <2>1, <2>2, <2>3
<1> HIDE DEF g, over
<1>8. LogTyped'
  BY <1>1, <1>7 DEF Good, LogTyped
<1>9. Stages'
  <2>1. o \in Writes => g_file'[o] = g
    <3>1. o \in Writes => o \notin Logs
      BY DEF Sizes
    <3> QED
      BY <1>7, <3>1 DEF over
  <2> QED
    BY <1>1, <1>2, <1>6, <1>7, <2>1 DEF Good, Stages, g
<1>10. Numbers'
  <2>1. \A p \in Objects : at'[p] = "store" => at[p] = "store"
    BY <1>7
  <2> QED
    BY <1>1, <1>6, <2>1 DEF Good, Numbers
<1>11. Owned'
  BY <1>1, <1>6 DEF Good, Owned
<1>12. Together'
  <2>1. LastLines'
    <3>1. \A p \in Objects : g_file'[p] # Closed => g_file'[p] = g_file[p]
      BY <1>7 DEF g
    <3> QED
      BY <1>1, <3>1 DEF Good, Together, LastLines
  <2>2. InARow' /\ NoneMissing'
    BY <1>1 DEF Good, Together, InARow, NoneMissing
  <2>3. InOrder'
    BY <1>1, <1>6 DEF Good, Together, InOrder
  <2> QED
    BY <2>1, <2>2, <2>3 DEF Together
<1>13. ASSUME NEW p \in Logs PROVE LineCounts(p)'
  <2>1. p \in Objects /\ LineCounts(p) /\ \A f \in opened : Full(f)' <=> Full(f)
    BY <1>1 DEF Good, Objects, Full
  <2>2. CASE p # o
    <3>1. g_file'[p] = g_file[p] /\ m_iFilesize'[p] = m_iFilesize[p] /\ Of(p)' = Of(p)
      BY <1>6, <1>7, <2>1, <2>2
    <3> QED
      BY <1>1, <2>1, <3>1 DEF LineCounts, Full
  <2>3. CASE p = o
    <3>1. g_file[o] = g /\ (over <=> m_iFilesize[o] + 1 > FileLimit) /\ LineCounts(o)
          /\ Of(o)' = Of(o)
      BY <1>6, <2>1, <2>3 DEF g, over
    <3>2. g \in Of(o) /\ Len(disk[g]) \in Nat
      <4>1. disk[g] \in Seq(Objects \X Nat)
        BY <1>2 DEF Good, LogTyped
      <4> QED
        BY <1>2, <4>1 DEF Of, File
    <3>3. \A f, h \in Of(o) : f[3] < h[3] => Full(f) /\ Len(disk[h]) <= 1
      BY <3>1 DEF LineCounts
    <3>4. CASE m_iFilesize[o] <= FileLimit
      <4>1. Of(o) = {g} /\ Len(disk[g]) <= m_iFilesize[o]
        BY <1>2, <3>1, <3>4 DEF LineCounts
      <4>2. Len(disk[g]) <= m_iFilesize[o] + 1 /\ Len(disk[g]) <= FileLimit + 1
        BY <1>3, <3>2, <3>4, <4>1
      <4>3. \A f \in Of(o) : Full(f)
        BY <4>1, <4>2 DEF Full
      <4>4. over => m_iFilesize'[o] > FileLimit /\ g_file'[o] = Closed
        BY <1>4, <1>7, <3>1
      <4>5. ~over => /\ m_iFilesize'[o] <= FileLimit /\ ~(m_iFilesize'[o] > FileLimit)
                     /\ g_file'[o] = g
        BY <1>3, <1>4, <1>7, <3>1
      <4>6. over => ~(m_iFilesize'[o] <= FileLimit)
        BY <1>3, <1>4, <3>1
      <4> QED
        BY <1>1, <1>2, <1>4, <2>3, <3>1, <3>3, <4>1, <4>2, <4>3, <4>4, <4>5, <4>6
           DEF LineCounts, Full
    <3>5. CASE m_iFilesize[o] > FileLimit
      <4>1. Len(disk[g]) = 0 /\ \A f \in Of(o) \ {g} : Full(f)
        BY <1>2, <3>1, <3>5 DEF LineCounts
      <4>2. g_file'[o] = Closed /\ m_iFilesize'[o] > FileLimit
        BY <1>3, <1>4, <1>7, <3>1, <3>5
      <4>3. \A f \in Of(o) : Full(f)
        BY <1>3, <4>1 DEF Full
      <4> QED
        BY <1>1, <2>3, <3>1, <3>2, <3>3, <4>2, <4>3 DEF LineCounts, Full
    <3> QED
      BY <1>3, <3>4, <3>5
  <2> QED
    BY <2>2, <2>3
<1> QED
  BY <1>8, <1>9, <1>10, <1>11, <1>12, <1>13 DEF Good

LEMMA PutLineKeeps ==
    ASSUME Sizes, Good, NEW o \in Objects, PutLine(o)
    PROVE  Good'
BY WrittenKeeps, LostKeeps DEF PutLine, LineWritten

LEMMA LogStepKeeps ==
    ASSUME Sizes, LogInv, [LogNext]_logVars
    PROVE  LogInv'
<1> SUFFICES ASSUME Apart' PROVE Good'
  BY DEF LogInv
<1>1. CASE UNCHANGED logVars
  <2>1. Good
    BY <1>1 DEF LogInv, Apart, logVars
  <2> QED
    <3>1. UNCHANGED <<g_iNum, at, seen, m_iId, m_iNum, m_iFilesize, g_file, disk, lines, opened>>
      BY <1>1 DEF logVars, own
    <3>2. /\ Owned' /\ Together' /\ \A p \in Logs : LineCounts(p)'
          /\ \A p \in Objects : Of(p)' = Of(p) /\ File(p)' = File(p) /\ Class(p)' = Class(p)
      BY <2>1, <3>1, FilesStay
    <3>3. LogTyped'
      BY <2>1, <3>1 DEF Good, LogTyped
    <3>4. Stages' /\ Numbers'
      BY <2>1, <3>1, <3>2 DEF Good, Stages, Numbers
    <3> QED
      BY <3>2, <3>3, <3>4 DEF Good
<1>2. CASE LogRestart
  <2>1. Begun'
    BY <1>2 DEF LogRestart, Begun
  <2> QED
    BY <2>1, BegunNextIsGood
<1>3. CASE \E o \in Objects : Call(o) \/ ReadNum(o) \/ StoreNum(o) \/ Open(o) \/ PutLine(o)
  <2>1. PICK o \in Objects : Call(o) \/ ReadNum(o) \/ StoreNum(o) \/ Open(o) \/ PutLine(o)
    BY <1>3
  <2>2. (met => met') /\ (wrapped => wrapped')
    <3>1. CASE Call(o) \/ Open(o) \/ PutLine(o)
      BY <3>1 DEF Call, Open, PutLine
    <3>2. CASE ReadNum(o)
      BY <3>2, Zenon DEF ReadNum
    <3>3. CASE StoreNum(o)
      BY <3>3, Zenon DEF StoreNum
    <3> QED
      BY <2>1, <3>1, <3>2, <3>3
  <2>3. Good /\ ~met' /\ ~wrapped'
    BY <2>2 DEF LogInv, Apart
  <2> QED
    BY <2>1, <2>3, CallKeeps, ReadNumKeeps, StoreNumKeeps, OpenKeeps, PutLineKeeps
<1> QED
  BY <1>1, <1>2, <1>3 DEF LogNext

LEMMA LogInitHolds == Sizes /\ LogInit => LogInv
BY BegunIsGood DEF LogInit, Begun, LogInv

LEMMA LogInvGives == LogInv => LinesKept
<1> SUFFICES ASSUME LogInv, ~met, ~wrapped PROVE Good => LinesKept
  BY DEF LinesKept, LogInv, Apart
<1> SUFFICES ASSUME Good PROVE LinesKept
  OBVIOUS
<1>1. ASSUME NEW f \in opened, NEW h \in opened, NEW i \in DOMAIN disk[f], NEW j \in DOMAIN disk[h],
             disk[f][i][1] = disk[h][j][1], f[3] < h[3]
      PROVE  disk[f][i][2] < disk[h][j][2]
  <2>1. PICK o \in Objects : f \in Of(o)
    BY DEF Good, Owned
  <2>2. PICK p \in Objects : h \in Of(p)
    BY DEF Good, Owned
  <2>3. i \in 1..Len(disk[f]) /\ j \in 1..Len(disk[h])
    <3>1. disk[f] \in Seq(Objects \X Nat) /\ disk[h] \in Seq(Objects \X Nat)
      BY DEF Good, LogTyped
    <3> QED
      BY <3>1
  <2>4. disk[f][i][1] = o /\ disk[h][j][1] = p
    BY <2>1, <2>2, <2>3 DEF Good, Owned
  <2> QED
    BY <1>1, <2>1, <2>2, <2>3, <2>4 DEF Good, Together, InOrder
<1> QED
  BY <1>1 DEF Good, Together, InARow, NoneMissing, LinesKept

\* What an object writes is kept until the process ends, in order and in files
\* with no line of another, as long as g_iNum++ was not made by two threads at once
\* and did not pass 255: whatever files earlier processes left, over any number of
\* restarts and with a disk that takes a line or not.
THEOREM LinesKeptHolds ==
    ASSUME Sizes
    PROVE  LogSpec => []LinesKept
<1>1. LogInit => LogInv
  BY LogInitHolds
<1>2. LogInv /\ [LogNext]_logVars => LogInv'
  BY LogStepKeeps
<1>3. LogInv => LinesKept
  BY LogInvGives
<1> QED
  BY <1>1, <1>2, <1>3, PTL DEF LogSpec

\* m_iFilesize is not set back when a file is closed: a log whose first file is
\* full makes a file for each line after it.
THEOREM OneLineFilesHolds ==
    ASSUME Sizes
    PROVE  LogSpec => []OneLineFiles
<1>1. LogInit => LogInv
  BY LogInitHolds
<1>2. LogInv /\ [LogNext]_logVars => LogInv'
  BY LogStepKeeps
<1>3. LogInv => OneLineFiles
  <2> SUFFICES ASSUME LogInv, ~met, ~wrapped,
                      NEW f \in opened, NEW g \in opened,
                      f[1] = "CSimpleLog", f[2] = g[2], g[1] = f[1], f[3] < g[3]
               PROVE  Len(disk[f]) <= FileLimit + 1 /\ Len(disk[g]) <= 1
    BY DEF OneLineFiles
  <2>1. Good
    BY DEF LogInv, Apart
  <2>2. PICK o \in Objects : f \in Of(o)
    BY <2>1 DEF Good, Owned
  <2>3. o \in Logs /\ f \in Of(o) /\ g \in Of(o)
    BY <2>2 DEF Of, Class
  <2> QED
    BY <2>1, <2>3 DEF Good, LineCounts, Full
<1> QED
  BY <1>1, <1>2, <1>3, PTL DEF LogSpec
------------------------------------------------------------------------------
(* The text functions.                                                        *)

\* An input is what its kind says.
LEMMA InputIs ==
    ASSUME IsInput(input)
    PROVE  /\ input.kind = "hex" => input.bytes \in Seq(0..255) /\ input.fmt \in Formats
           /\ input.kind = "split" => input.s \in Seq(Letters) /\ input.sep \in Letters
           /\ input.kind = "match" => input.s \in Seq(Letters) /\ input.pattern \in Seq(Letters)
           /\ input.kind = "trim" => input.s \in Seq(Letters)
           /\ input.kind = "line" => /\ input.s \in Seq(Letters)
                                     /\ input.key \in Seq(Letters) \ {<<>>}
                                     /\ input.count \in Nat \ {0}
           /\ input.kind = "pair" => /\ input.s \in Seq(Letters \ {Nul})
                                     /\ input.sep \in Seq(Letters \ {Nul})
                                     /\ input.pKey \in Seq(Letters \cup {Nul})
                                     /\ input.pValue \in Seq(Letters \cup {Nul})
           /\ input.kind = "params" => IsParams(input.params, Letters)
<1> DEFINE HexInputs == [kind : {"hex"}, bytes : Seq(0..255), fmt : Formats]
           SplitInputs == [kind : {"split"}, s : Seq(Letters), sep : Letters]
           MatchInputs == [kind : {"match"}, s : Seq(Letters), pattern : Seq(Letters)]
           TrimInputs == [kind : {"trim"}, s : Seq(Letters)]
           LineInputs == [kind : {"line"}, s : Seq(Letters), key : Seq(Letters) \ {<<>>}, count : Nat \ {0}]
           PairInputs == [kind : {"pair"}, s : Seq(Letters \ {Nul}), sep : Seq(Letters \ {Nul}),
                          pKey : Seq(Letters \cup {Nul}), pValue : Seq(Letters \cup {Nul})]
<1>1. \/ input \in HexInputs \/ input \in SplitInputs \/ input \in MatchInputs \/ input \in TrimInputs
      \/ input \in LineInputs \/ input \in PairInputs
      \/ input.kind = "params" /\ IsParams(input.params, Letters)
  BY DEF IsInput, IsParams
<1>2. input \in HexInputs => input.kind = "hex" /\ input.bytes \in Seq(0..255) /\ input.fmt \in Formats
  OBVIOUS
<1>3. input \in SplitInputs => input.kind = "split" /\ input.s \in Seq(Letters) /\ input.sep \in Letters
  OBVIOUS
<1>4. input \in MatchInputs => /\ input.kind = "match"
                               /\ input.s \in Seq(Letters) /\ input.pattern \in Seq(Letters)
  OBVIOUS
<1>5. input \in TrimInputs => input.kind = "trim" /\ input.s \in Seq(Letters)
  OBVIOUS
<1>6. input \in LineInputs => /\ input.kind = "line" /\ input.s \in Seq(Letters)
                              /\ input.key \in Seq(Letters) \ {<<>>} /\ input.count \in Nat \ {0}
  OBVIOUS
<1>7. input \in PairInputs => /\ input.kind = "pair"
                              /\ input.s \in Seq(Letters \ {Nul}) /\ input.sep \in Seq(Letters \ {Nul})
                              /\ input.pKey \in Seq(Letters \cup {Nul}) /\ input.pValue \in Seq(Letters \cup {Nul})
  OBVIOUS
<1> HIDE DEF HexInputs, SplitInputs, MatchInputs, TrimInputs, LineInputs, PairInputs
<1> QED
  BY <1>1, <1>2, <1>3, <1>4, <1>5, <1>6, <1>7

\* The rules hold of every input that is one.
LEMMA InputRules ==
    ASSUME IsInput(input)
    PROVE  TextRules
<1>1. input.kind = "hex" => HexRoundTrip(input.bytes, input.fmt)
  BY InputIs, HexRoundTripHolds
<1>2. input.kind = "split" => SplitRejoins(input.s, input.sep)
  BY InputIs, SplitRejoinsHolds
<1>3. input.kind = "match" => MatchCoversGlob(input.s, input.pattern)
  BY InputIs, MatchCoversGlobHolds
<1>4. input.kind = "trim" => TrimRule(input.s)
  BY InputIs, TrimRuleHolds
<1>5. input.kind = "line" => FamiliesAgree(input.s, input.key, input.count)
  BY InputIs, FamiliesAgreeHolds
<1>6. input.kind = "pair" => PairRule(input.s, input.sep, input.pKey, input.pValue)
  <2> DEFINE C == Letters \ {Nul}
  <2>1. C \cup {Nul} = Letters \cup {Nul} /\ Nul \notin C
    OBVIOUS
  <2>2. input.kind = "pair" => /\ input.s \in Seq(C) /\ input.sep \in Seq(C)
                               /\ input.pKey \in Seq(C \cup {Nul}) /\ input.pValue \in Seq(C \cup {Nul})
    BY <2>1, InputIs
  <2> HIDE DEF C
  <2> QED
    BY <2>1, <2>2, PairRuleHolds
<1>7. input.kind = "params" => ParamRule(input.params)
  BY InputIs, ParamRuleHolds
<1> QED
  BY <1>1, <1>2, <1>3, <1>4, <1>5, <1>6, <1>7 DEF TextRules

\* What is tried stays what it is.
LEMMA InputStays == [LibNext]_libVars => UNCHANGED input
<1> SUFFICES ASSUME [LibNext]_libVars PROVE UNCHANGED input
  OBVIOUS
<1>1. CASE SemaPart
  BY <1>1 DEF SemaPart, OfSema
<1>2. CASE SockPart
  BY <1>2 DEF SockPart, OfSock
<1>3. CASE LogPart
  BY <1>3 DEF LogPart, OfLog
<1>4. CASE XmlPart
  BY <1>4 DEF XmlPart, OfXml
<1>5. CASE UNCHANGED libVars
  BY <1>5 DEF libVars
<1> QED
  BY <1>1, <1>2, <1>3, <1>4, <1>5 DEF LibNext

\* Hexadecimal text, split texts, file patterns, lines, pairs and parameters keep
\* what they are given: on any texts, whatever their length and their characters.
THEOREM TextRulesHold == FairSpec => []TextRules
<1>1. LibInit => TextRules
  <2> SUFFICES ASSUME LibInit PROVE TextRules
    OBVIOUS
  <2>1. CASE subject = "texts"
    <3>1. input \in Inputs
      BY <2>1 DEF LibInit
    <3> QED
      BY <3>1, InputsAssumption, InputRules
  <2>2. CASE subject # "texts"
    <3>1. input = NoInput
      BY <2>2 DEF LibInit
    <3> QED
      BY <3>1 DEF TextRules, NoInput
  <2> QED
    BY <2>1, <2>2
<1>2. TextRules /\ [LibNext]_libVars => TextRules'
  BY InputStays DEF TextRules
<1> QED
  BY <1>1, <1>2, PTL DEF FairSpec

------------------------------------------------------------------------------
(* The parts side by side.                                                    *)

\* A step of the libraries is a step of each part or leaves it alone.
LEMMA PartsStep ==
    ASSUME [LibNext]_libVars
    PROVE  /\ [Next]_sockVars /\ [SemaNext]_semaVars
           /\ [LogNext]_logVars /\ [XmlNext]_textVars
<1>1. CASE SemaPart
  <2>1. UNCHANGED <<sockVars, logVars, textVars>>
    BY <1>1 DEF SemaPart, OfSema
  <2>2. SemaNext
    BY <1>1 DEF SemaPart, SemaNext
  <2> QED
    BY <2>1, <2>2
<1>2. CASE SockPart
  <2>1. UNCHANGED <<semaVars, logVars, textVars>>
    BY <1>2 DEF SockPart, OfSock
  <2>2. Next
    BY <1>2 DEF SockPart, Next, CallStep
  <2> QED
    BY <2>1, <2>2
<1>3. CASE LogPart
  <2>1. UNCHANGED <<semaVars, sockVars, textVars>>
    BY <1>3 DEF LogPart, OfLog
  <2>2. LogNext
    BY <1>3 DEF LogPart, LogNext
  <2> QED
    BY <2>1, <2>2
<1>4. CASE XmlPart
  <2>1. UNCHANGED <<semaVars, sockVars, logVars>>
    BY <1>4 DEF XmlPart, OfXml
  <2>2. XmlNext
    BY <1>4 DEF XmlPart, XmlNext
  <2> QED
    BY <2>1, <2>2
<1>5. CASE UNCHANGED libVars
  BY <1>5 DEF libVars
<1> QED
  BY <1>1, <1>2, <1>3, <1>4, <1>5 DEF LibNext

\* What is checked in one run is each part's own specification: the calls with a
\* time-out, the semaphore, the simple logs and the XML text behave in it as they
\* do by themselves.
THEOREM PartsRun == FairSpec => Spec /\ SemaSpec /\ LogSpec /\ XmlSpec
<1>1. LibInit => Init /\ SemaInit /\ LogInit /\ XmlInit
  BY DEF LibInit
<1>2. /\ [LibNext]_libVars => [Next]_sockVars
      /\ [LibNext]_libVars => [SemaNext]_semaVars
      /\ [LibNext]_libVars => [LogNext]_logVars
      /\ [LibNext]_libVars => [XmlNext]_textVars
  BY PartsStep
<1> QED
  BY <1>1, <1>2, PTL DEF FairSpec, Spec, SemaSpec, LogSpec, XmlSpec

\* So every invariant of the run holds of the libraries for any threads, times,
\* lengths, objects, titles and texts.
THEOREM LibrariesHold ==
    ASSUME Arguments, Sizes, Ints
    PROVE  FairSpec => /\ []CountCovers /\ []InStep /\ []InTime
                       /\ []LinesKept /\ []OneLineFiles /\ []Balanced /\ []TextRules
<1>1. FairSpec => Spec /\ SemaSpec /\ LogSpec /\ XmlSpec
  BY PartsRun
<1>2. (Spec => []InStep) /\ (Spec => []InTime)
  BY InStepHolds, InTimeHolds
<1>3. SemaSpec => []CountCovers
  BY CountCoversHolds
<1>4. (LogSpec => []LinesKept) /\ (LogSpec => []OneLineFiles)
  BY LinesKeptHolds, OneLineFilesHolds
<1>5. XmlSpec => []Balanced
  BY BalancedHolds
<1>6. FairSpec => []TextRules
  BY TextRulesHold
<1> QED
  BY <1>1, <1>2, <1>3, <1>4, <1>5, <1>6
=============================================================================

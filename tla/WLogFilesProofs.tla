--------------------------- MODULE WLogFilesProofs ---------------------------
(* For any limits, any lengths of lines and any times.  First the sizes: how *)
(* large a file gets and what takes lines out of one, whatever the list and  *)
(* cleaning do.  Then the list: its order, the files it knows, and what      *)
(* cleaning takes off it.                                                    *)
EXTENDS WLogFiles, SequenceTheorems, FiniteSetTheorems, FunctionTheorems,
        WellFoundedInduction, TLAPS

Typed ==
    /\ now \in Times /\ disk \in [Times -> Nat \cup {Absent}]
    /\ fd \in Times \cup {Closed} /\ size \in Nat
    /\ clash \in BOOLEAN

\* m_iLogSize is never less than the size of the file being written
SizeKnown == fd # Closed => disk[fd] # Absent /\ disk[fd] <= size

SizeInv == Typed /\ SizeKnown /\ SizeBound

LEMMA InitHolds == Init => SizeInv
<1> SUFFICES ASSUME Init PROVE SizeInv
  OBVIOUS
<1>1. now \in Times /\ disk \in [Times -> Nat \cup {Absent}] /\ InUse = {}
  BY LogAssumption DEF Init, InUse, Times
<1> QED
  BY <1>1 DEF Init, SizeInv, Typed, SizeKnown, SizeBound, Closed

\* Cleaning takes files away, never the open one, and leaves the others alone.
LEMMA CleaningLeaves ==
    ASSUME SizeInv, NEW gone, fd \notin gone,
           NEW left, left = [n \in Times |-> IF n \in gone THEN Absent ELSE disk[n]]
    PROVE  /\ left \in [Times -> Nat \cup {Absent}]
           /\ fd # Closed => left[fd] \in Nat /\ left[fd] <= size
           /\ \A n \in Times : left[n] \in {disk[n], Absent}
<1>2. Absent \in Nat \cup {Absent}
  OBVIOUS
<1>3. \A n \in Times : left[n] \in {disk[n], Absent}
  OBVIOUS
<1>4. left \in [Times -> Nat \cup {Absent}]
  BY DEF SizeInv, Typed
<1>5. ASSUME fd # Closed PROVE left[fd] \in Nat /\ left[fd] <= size
  BY <1>5 DEF SizeInv, Typed, SizeKnown
<1> QED
  BY <1>3, <1>4, <1>5

\* The three ways a line can go, for the files: as much of it as the disk takes
\* is appended, or starts a file, or no file can be opened for it.
LEMMA WriteKeeps ==
    ASSUME SizeInv, NEW len \in LineSizes, WriteLog(len), now' = now
    PROVE  /\ SizeInv'
           /\ \A n \in InUse \cap InUse' : disk'[n] >= disk[n] \/ (n = now /\ clash')
<1> USE DEF SizeInv
<1>1. len \in Nat \ {0} /\ FileLimit \in Nat
  BY LogAssumption
<1>2. PICK short \in Shortages, failing \in Failing :
        LET taken == IF CleaningDue THEN Taken(short, failing) ELSE 0
            gone == Gone(taken, failing)
            left == [n \in Times |-> IF n \in gone THEN Absent ELSE disk[n]]
        IN  \/ /\ fd # Closed /\ ~TooBig
               /\ \E written \in 0..len : disk' = [left EXCEPT ![fd] = @ + written]
               /\ size' = size + len
               /\ UNCHANGED <<fd, clash>>
            \/ /\ fd = Closed \/ TooBig
               /\ fd' = NameOf(now) /\ size' = len
               /\ \E written \in 0..len : disk' = [left EXCEPT ![fd'] = written]
               /\ clash' = (clash \/ fd' \in InUse \cup Range(list))
            \/ /\ fd = Closed \/ TooBig
               /\ disk' = left
               /\ fd' = Closed
               /\ UNCHANGED <<size, clash>>
  BY DEF WriteLog
<1> DEFINE taken == IF CleaningDue THEN Taken(short, failing) ELSE 0
           gone == Gone(taken, failing)
           left == [n \in Times |-> IF n \in gone THEN Absent ELSE disk[n]]
<1>8. fd \notin gone
  BY DEF Gone
<1>7. \/ /\ fd # Closed /\ ~TooBig
         /\ \E written \in 0..len : disk' = [left EXCEPT ![fd] = @ + written]
         /\ size' = size + len
         /\ UNCHANGED <<fd, clash>>
      \/ /\ fd' = NameOf(now) /\ size' = len
         /\ \E written \in 0..len : disk' = [left EXCEPT ![fd'] = written]
         /\ clash' = (clash \/ fd' \in InUse \cup Range(list))
      \/ disk' = left /\ fd' = Closed /\ UNCHANGED <<size, clash>>
  BY <1>2
<1> HIDE DEF gone, taken
<1>3. /\ left \in [Times -> Nat \cup {Absent}]
      /\ fd # Closed => left[fd] \in Nat /\ left[fd] <= size
      /\ \A n \in Times : left[n] \in {disk[n], Absent}
  BY <1>8, CleaningLeaves
<1> HIDE DEF left
<1>4. ASSUME fd # Closed, ~TooBig, size' = size + len, UNCHANGED <<fd, clash>>,
             NEW written \in 0..len, disk' = [left EXCEPT ![fd] = @ + written]
      PROVE  /\ SizeInv'
             /\ \A n \in InUse \cap InUse' : disk'[n] >= disk[n]
  <2>1. /\ fd \in Times /\ left[fd] \in Nat /\ left[fd] <= size
        /\ size \in Nat /\ size <= FileLimit /\ written \in Nat /\ written <= len
    BY <1>1, <1>3, <1>4 DEF Typed, TooBig
  <2>2. disk'[fd] = left[fd] + written /\ \A n \in Times \ {fd} : disk'[n] = left[n]
    BY <1>3, <1>4, <2>1
  <2>3. Typed'
    BY <1>1, <1>3, <1>4, <2>1, <2>2 DEF Typed
  <2>6. SizeKnown'
    BY <1>1, <1>4, <2>1, <2>2 DEF SizeKnown, Absent
  <2>4. SizeBound'
    BY <1>1, <1>3, <2>1, <2>2 DEF SizeBound, InUse, Typed, Absent
  <2>5. ASSUME NEW n \in InUse \cap InUse' PROVE disk'[n] >= disk[n]
    BY <1>1, <1>3, <2>1, <2>2, <2>5 DEF InUse, Typed, SizeKnown, Absent
  <2> QED
    BY <2>3, <2>4, <2>5, <2>6
<1>5. ASSUME fd' = NameOf(now), size' = len,
             clash' = (clash \/ fd' \in InUse \cup Range(list)),
             NEW written \in 0..len, disk' = [left EXCEPT ![fd'] = written]
      PROVE  /\ SizeInv'
             /\ \A n \in InUse \cap InUse' : disk'[n] >= disk[n] \/ (n = now /\ clash')
  <2>1. fd' = now /\ now \in Times /\ written \in Nat /\ written <= len
    BY <1>1, <1>5 DEF NameOf, Typed
  <2>2. disk'[now] = written /\ \A n \in Times \ {now} : disk'[n] = left[n]
    BY <1>3, <1>5, <2>1
  <2>3. Typed'
    BY <1>1, <1>3, <1>5, <2>1, <2>2 DEF Typed
  <2>6. SizeKnown'
    BY <1>1, <1>5, <2>1, <2>2 DEF SizeKnown, Absent
  <2>4. SizeBound'
    BY <1>1, <1>3, <2>1, <2>2 DEF SizeBound, InUse, Typed, Absent
  <2>5. ASSUME NEW n \in InUse \cap InUse' PROVE disk'[n] >= disk[n] \/ (n = now /\ clash')
    <3>1. CASE n = now
      <4>1. fd' \in InUse \cup Range(list)
        BY <2>1, <2>5, <3>1
      <4> QED
        BY <1>5, <3>1, <4>1
    <3>2. CASE n # now
      <4>1. disk'[n] = disk[n] /\ disk[n] \in Nat
        BY <1>3, <2>2, <2>5, <3>2 DEF InUse, Typed, Absent
      <4> QED
        BY <4>1
    <3> QED
      BY <3>1, <3>2
  <2> QED
    BY <2>3, <2>4, <2>5, <2>6
<1>6. CASE disk' = left /\ fd' = Closed /\ UNCHANGED <<size, clash>>
  <2>1. Typed' /\ SizeKnown'
    BY <1>3, <1>6 DEF Typed, SizeKnown
  <2>2. SizeBound'
    BY <1>1, <1>3, <1>6 DEF SizeBound, InUse, Typed, Absent
  <2>3. ASSUME NEW n \in InUse \cap InUse' PROVE disk'[n] >= disk[n]
    BY <1>3, <1>6, <2>3 DEF InUse, Typed, Absent
  <2> QED
    BY <2>1, <2>2, <2>3
<1> QED
  BY <1>4, <1>5, <1>6, <1>7

\* Where no line is written, files stay as they are; a process that starts or
\* ends has none open.
LEMMA OthersKeep ==
    ASSUME SizeInv, \/ Start \/ End \/ Tick \/ UNCHANGED vars
    PROVE  SizeInv' /\ disk' = disk
<1>1. disk' = disk /\ clash' = clash /\ now' \in Times
  BY LogAssumption DEF SizeInv, Typed, Start, End, Tick, vars, Times
<1>2. (fd' = Closed /\ size' = 0) \/ UNCHANGED <<fd, size>>
  BY DEF Start, End, Tick, vars, files
<1> QED
  BY <1>1, <1>2 DEF SizeInv, Typed, SizeKnown, SizeBound, InUse

LEMMA StepHolds ==
    ASSUME SizeInv, [Next]_vars
    PROVE  /\ SizeInv'
           /\ \A n \in InUse \cap InUse' : disk'[n] >= disk[n] \/ (n = now /\ clash')
<1>1. CASE Line
  <2>1. PICK len \in LineSizes : WriteLog(len)
    BY <1>1 DEF Line
  <2> QED
    BY <1>1, <2>1, WriteKeeps DEF Line
<1>2. CASE InfoLine
  <2>1. PICK len \in LineSizes : WriteLog(len)
    BY <1>2 DEF InfoLine
  <2> QED
    BY <1>2, <2>1, WriteKeeps DEF InfoLine
<1>3. CASE Start \/ End \/ Tick \/ UNCHANGED vars
  <2>1. SizeInv' /\ disk' = disk
    BY <1>3, OthersKeep
  <2> QED
    BY <2>1 DEF SizeInv, Typed, InUse, Absent
<1> QED
  BY <1>1, <1>2, <1>3 DEF Next

\* What makes them inductive: m_iLogSize, which the code keeps apart from the open
\* file, is not less than its size.
THEOREM SizeInvariant == Spec => []SizeInv
<1>1. SizeInv /\ [Next]_vars => SizeInv'
  BY StepHolds
<1> QED
  BY InitHolds, <1>1, PTL DEF Spec

\* A file passes m_file_bytes_limit by less than one line: SwitchNewFile looks at
\* m_iLogSize, which is not less than the open file whatever could not be deleted,
\* opened or written before.
THEOREM SizeBoundHolds == Spec => []SizeBound
<1>1. SizeInv => SizeBound
  BY DEF SizeInv
<1> QED
  BY SizeInvariant, <1>1, PTL

\* Lines in a file stay until the file is deleted, unless SwitchNewFile opens a
\* second file within the second.
THEOREM LostOnlyByNameHolds == Spec => LostOnlyByName
<1>1. SizeInv /\ [Next]_vars
        => [\A n \in InUse \cap InUse' : disk'[n] >= disk[n] \/ (n = now /\ clash')]_vars
  BY StepHolds
<1> QED
  BY SizeInvariant, <1>1, PTL DEF Spec, LostOnlyByName
------------------------------------------------------------------------------
(* The list.                                                                  *)

Ascending(s) == \A j, k \in 1..Len(s) : j < k => s[j] <= s[k]
Distinct(s) == \A j, k \in 1..Len(s) : s[j] = s[k] => j = k

\* Names are times that have been, so a new one goes to the end; only a clash
\* gives a list an entry twice.
OrderInv ==
    /\ InUse \subseteq 1..now
    /\ ~running => fd = Closed
    /\ running =>
        /\ list \in Seq(1..now) /\ count = Len(list)
        /\ Ascending(list)
        /\ InUse \subseteq Range(list) \cup undeleted
        /\ fd # Closed => list # <<>> /\ list[Len(list)] = fd
        /\ ~clash => Distinct(list) /\ Range(list) \subseteq InUse

\* Induction, in the form of a set of numbers.
LEMMA Least ==
    ASSUME NEW T, T \subseteq Nat, T # {}
    PROVE  \E x \in T : \A y \in T : x <= y
<1> DEFINE R == OpToRel(<, Nat)
<1>1. IsWellFoundedOn(R, Nat)
  BY NatLessThanWellFounded
<1> HIDE DEF R
<1>2. PICK x \in T : \A y \in T : <<y, x>> \notin R
  BY <1>1, WFMin
<1>3. \A y \in T : ~(y < x)
  BY <1>2 DEF R, OpToRel
<1> QED
  BY <1>3

LEMMA Induct ==
    ASSUME NEW S, 0 \in S, \A n \in Nat : n \in S => n + 1 \in S
    PROVE  Nat \subseteq S
<1> SUFFICES ASSUME Nat \ S # {} PROVE FALSE
  OBVIOUS
<1>1. PICK x \in Nat \ S : \A y \in Nat \ S : x <= y
  BY Least
<1>2. x # 0 /\ x - 1 \in Nat /\ x - 1 \in S
  BY <1>1
<1> QED
  BY <1>1, <1>2

LEMMA Greatest ==
    ASSUME NEW m \in Nat, NEW T, T \subseteq 1..m, T # {}
    PROVE  \E x \in T : \A y \in T : y <= x
<1> DEFINE U == {u \in Nat : \E t \in T : u = m - t}
<1>1. U \subseteq Nat /\ U # {}
  <2>1. PICK t \in T : TRUE
    OBVIOUS
  <2>2. m - t \in U
    BY <2>1
  <2> QED
    BY <2>2
<1>2. PICK u \in U : \A v \in U : u <= v
  <2> HIDE DEF U
  <2> QED
    BY <1>1, Least
<1>3. PICK x \in T : u = m - x
  BY <1>2
<1>4. ASSUME NEW y \in T PROVE y <= x
  <2>1. m - y \in U
    OBVIOUS
  <2>2. u <= m - y
    BY <1>2, <2>1
  <2> QED
    BY <1>3, <2>2
<1> QED
  BY <1>4

Rising(f, n) == \A j, k \in 1..n : j < k => f[j] < f[k]

\* Every set of names can be listed in order.
LEMMA CanBeListed ==
    ASSUME NEW m \in Nat
    PROVE  \A n \in Nat : \A S \in SUBSET (1..m) :
               Cardinality(S) = n => \E f \in [1..n -> S] : Rising(f, n)
<1> DEFINE Listable(n) == \A S \in SUBSET (1..m) :
               Cardinality(S) = n => \E f \in [1..n -> S] : Rising(f, n)
           G == {n \in Nat : Listable(n)}
<1>1. 0 \in G
  <2>1. \A S : [i \in 1..0 |-> 0] \in [1..0 -> S]
    OBVIOUS
  <2>2. Rising([i \in 1..0 |-> 0], 0)
    BY DEF Rising
  <2> QED
    BY <2>1, <2>2
<1>2. ASSUME NEW n \in Nat, Listable(n) PROVE Listable(n + 1)
  <2> SUFFICES ASSUME NEW S \in SUBSET (1..m), Cardinality(S) = n + 1
               PROVE  \E f \in [1..(n + 1) -> S] : Rising(f, n + 1)
    OBVIOUS
  <2>1. IsFiniteSet(S)
    <3>1. IsFiniteSet(1..m)
      BY FS_Interval
    <3> QED
      BY <3>1, FS_Subset
  <2>2. S # {}
    <3>1. Cardinality({}) = 0
      BY FS_EmptySet
    <3>2. n + 1 # 0
      OBVIOUS
    <3> QED
      BY <3>1, <3>2
  <2>3. PICK x \in S : \A y \in S : y <= x
    BY <2>2, Greatest
  <2>4. S \ {x} \in SUBSET (1..m) /\ Cardinality(S \ {x}) = n
    BY <2>1, <2>3, FS_RemoveElement
  <2>5. PICK f \in [1..n -> S \ {x}] : Rising(f, n)
    BY <1>2, <2>4
  <2> DEFINE g == [i \in 1..(n + 1) |-> IF i = n + 1 THEN x ELSE f[i]]
  <2>6. g \in [1..(n + 1) -> S]
    OBVIOUS
  <2>7. ASSUME NEW j \in 1..(n + 1), NEW k \in 1..(n + 1), j < k PROVE g[j] < g[k]
    <3>1. j \in 1..n /\ g[j] = f[j] /\ f[j] \in S \ {x}
      BY <2>7
    <3>2. CASE k = n + 1
      <4>1. g[k] = x /\ f[j] <= x /\ f[j] # x /\ f[j] \in 1..m /\ x \in 1..m
        BY <2>3, <3>1, <3>2
      <4> QED
        BY <3>1, <4>1
    <3>3. CASE k # n + 1
      <4>1. k \in 1..n /\ g[k] = f[k]
        BY <3>3
      <4> QED
        BY <2>5, <2>7, <3>1, <4>1 DEF Rising
    <3> QED
      BY <3>2, <3>3
  <2> QED
    BY <2>6, <2>7 DEF Rising
<1> HIDE DEF Listable
<1>3. 0 \in G /\ \A n \in Nat : n \in G => n + 1 \in G
  BY <1>1, <1>2
<1>4. Nat \subseteq G
  <2> HIDE DEF G
  <2> QED
    BY <1>3, Induct
<1>5. \A n \in Nat : Listable(n)
  BY <1>4
<1> QED
  BY <1>5 DEF Listable

\* What a new process reads from the directory.
LEMMA SearchFinds ==
    ASSUME InUse \subseteq 1..now, now \in Nat
    PROVE  /\ SerarchLogsByDir \in Seq(1..now)
           /\ Ascending(SerarchLogsByDir) /\ Distinct(SerarchLogsByDir)
           /\ Range(SerarchLogsByDir) = InUse
<1> DEFINE n == Cardinality(InUse)
<1>1. IsFiniteSet(InUse) /\ n \in Nat
  <2>1. IsFiniteSet(1..now)
    BY FS_Interval
  <2>2. IsFiniteSet(InUse)
    BY <2>1, FS_Subset
  <2> QED
    BY <2>2, FS_CardinalityType
<1>2. PICK g \in [1..n -> InUse] : Rising(g, n)
  <2>1. InUse \in SUBSET (1..now)
    OBVIOUS
  <2> QED
    BY <1>1, <2>1, CanBeListed
<1> DEFINE P(f) == \A j, k \in DOMAIN f : j < k => f[j] < f[k]
<1>3. P(g)
  BY <1>2 DEF Rising
<1> DEFINE f == SerarchLogsByDir
<1>4. f \in [1..n -> InUse] /\ P(f)
  <2>1. f = CHOOSE h \in [1..n -> InUse] : P(h)
    BY DEF SerarchLogsByDir
  <2> HIDE DEF P, f
  <2>2. (CHOOSE h \in [1..n -> InUse] : P(h)) \in [1..n -> InUse]
        /\ P(CHOOSE h \in [1..n -> InUse] : P(h))
    BY <1>2, <1>3
  <2> QED
    BY <2>1, <2>2
<1> HIDE DEF n, f, P
<1>11. f \in [1..n -> 1..now]
  BY <1>4
<1>5. f \in Seq(1..now) /\ Len(f) = n /\ DOMAIN f = 1..n
  <2>1. f \in Seq(1..now)
    BY <1>1, <1>11, SeqDef
  <2> QED
    BY <1>1, <1>11, <2>1
<1>6. \A j \in 1..n : f[j] \in Nat
  BY <1>11
<1>10. \A j, k \in 1..n : j < k => f[j] < f[k]
  BY <1>4, <1>5 DEF P
<1>7. Ascending(f)
  <2>1. ASSUME NEW j \in 1..n, NEW k \in 1..n, j < k PROVE f[j] <= f[k]
    BY <1>6, <1>10, <2>1
  <2> QED
    BY <1>5, <2>1 DEF Ascending
<1>8. Distinct(f)
  <2>1. ASSUME NEW j \in 1..n, NEW k \in 1..n, f[j] = f[k] PROVE j = k
    <3>1. ~(j < k) /\ ~(k < j)
      BY <1>6, <1>10, <2>1
    <3> QED
      BY <1>1, <3>1
  <2> QED
    BY <1>5, <2>1 DEF Distinct
<1>9. Range(f) = InUse
  <2>1. f \in Injection(1..n, InUse)
    BY <1>4, <1>5, <1>8, Fun_IsInj DEF Distinct
  <2>2. Cardinality(1..n) = n
    BY <1>1, FS_Interval
  <2>3. f \in Surjection(1..n, InUse)
    BY <1>1, <2>1, <2>2, FS_Injection DEF n
  <2> QED
    BY <2>3, Fun_SurjectionProperties
<1> QED
  BY <1>5, <1>7, <1>8, <1>9 DEF f

LEMMA MaxOfTwo ==
    ASSUME NEW a \in Int, NEW b \in Int
    PROVE  Max({a, b}) = IF a >= b THEN a ELSE b
<1> DEFINE P(x) == \A y \in {a, b} : x >= y
           c == IF a >= b THEN a ELSE b
<1>1. c \in {a, b} /\ P(c) /\ \A x \in {a, b} : P(x) => x = c
  OBVIOUS
<1>2. Max({a, b}) = CHOOSE x \in {a, b} : P(x)
  BY DEF Max
<1> HIDE DEF P, c
<1>3. Max({a, b}) = c
  BY <1>1, <1>2
<1> QED
  BY <1>3 DEF c

LEMMA MinOfTwo ==
    ASSUME NEW a \in Int, NEW b \in Int
    PROVE  Min({a, b}) = IF a <= b THEN a ELSE b
<1> DEFINE P(x) == \A y \in {a, b} : x <= y
           c == IF a <= b THEN a ELSE b
<1>1. c \in {a, b} /\ P(c) /\ \A x \in {a, b} : P(x) => x = c
  OBVIOUS
<1>2. Min({a, b}) = CHOOSE x \in {a, b} : P(x)
  BY DEF Min
<1> HIDE DEF P, c
<1>3. Min({a, b}) = c
  BY <1>1, <1>2
<1> QED
  BY <1>3 DEF c

LEMMA MinIsIn ==
    ASSUME NEW T, T \subseteq Nat, T # {}
    PROVE  Min(T) \in T
<1> DEFINE P(x) == \A y \in T : x <= y
<1>1. PICK x \in T : P(x)
  BY Least
<1>2. Min(T) = CHOOSE z \in T : P(z)
  BY DEF Min
<1> HIDE DEF P
<1> QED
  BY <1>1, <1>2

\* How many entries a cleaning takes off the list: at least the surplus, and
\* either none or so few that m_iMinFiles stay.
LEMMA TakenBounds ==
    ASSUME list \in Seq(Nat), count = Len(list), NEW short, NEW failing
    PROVE  /\ Taken(short, failing) \in Nat
           /\ Len(list) - Taken(short, failing) <= Max({MaxFiles - 1, MinFiles})
           /\ Taken(short, failing) = 0 \/ Taken(short, failing) <= Len(list) - MinFiles
<1> DEFINE keep == Max({MaxFiles - 1, MinFiles})
           room == Max({Min({Len(list), count - MinFiles}), Surplus})
           enough == {k \in Surplus..room : Freed(Surplus + 1, k, failing) >= short}
<1>1. MinFiles \in Nat /\ MaxFiles \in Nat /\ count \in Nat /\ Len(list) = count
  BY LogAssumption
<1>2. keep \in Nat /\ keep >= MinFiles
  BY <1>1, MaxOfTwo
<1>3. Surplus = IF count > keep THEN count - keep ELSE 0
  BY DEF Surplus
<1>4. Min({Len(list), count - MinFiles}) = count - MinFiles
  <2>1. count - MinFiles \in Int /\ count - MinFiles <= count /\ Len(list) \in Int
    BY <1>1
  <2> QED
    BY <1>1, <2>1, MinOfTwo
<1> HIDE DEF keep
<1>5. Surplus \in Nat /\ count - Surplus <= keep /\ (Surplus = 0 \/ Surplus <= count - MinFiles)
  BY <1>1, <1>2, <1>3
<1>6. room = IF count - MinFiles >= Surplus THEN count - MinFiles ELSE Surplus
  <2>1. count - MinFiles \in Int /\ Surplus \in Int
    BY <1>1, <1>5
  <2> QED
    BY <1>4, <2>1, MaxOfTwo
<1>7. room \in Nat /\ Surplus <= room /\ (room = 0 \/ room <= count - MinFiles)
  BY <1>1, <1>5, <1>6
<1>8. Taken(short, failing) = IF enough = {} THEN room ELSE Min(enough)
  BY DEF Taken
<1> HIDE DEF room
<1>9. enough \subseteq Surplus..room /\ enough \subseteq Nat
  BY <1>5, <1>7
<1> HIDE DEF enough
<1>10. Taken(short, failing) \in Surplus..room
  <2>1. CASE enough = {}
    BY <1>5, <1>7, <1>8, <2>1
  <2>2. CASE enough # {}
    BY <1>8, <1>9, <2>2, MinIsIn
  <2> QED
    BY <2>1, <2>2
<1>11. Taken(short, failing) \in Nat /\ Surplus <= Taken(short, failing) /\ Taken(short, failing) <= room
  BY <1>5, <1>7, <1>10
<1>12. /\ Taken(short, failing) \in Nat /\ count - Taken(short, failing) <= keep
       /\ Taken(short, failing) = 0 \/ Taken(short, failing) <= count - MinFiles
  BY <1>1, <1>2, <1>5, <1>7, <1>11
<1> QED
  BY <1>1, <1>12 DEF keep

LEMMA RangeSmall ==
    ASSUME NEW S, NEW s \in Seq(S)
    PROVE  /\ IsFiniteSet(Range(s))
           /\ Cardinality(Range(s)) \in Nat
           /\ Cardinality(Range(s)) <= Len(s)
           /\ Distinct(s) => Cardinality(Range(s)) = Len(s)
<1>1. Len(s) \in Nat /\ DOMAIN s = 1..Len(s) /\ s \in [1..Len(s) -> Range(s)]
      /\ \A t \in Range(s) : \E j \in 1..Len(s) : s[j] = t
  BY DEF Range
<1>2. IsFiniteSet(1..Len(s)) /\ Cardinality(1..Len(s)) = Len(s)
  <2>1. 1 \in Int /\ Len(s) \in Int /\ (1 > Len(s) => Len(s) = 0)
    BY <1>1
  <2>2. IsFiniteSet(1..Len(s)) /\ Cardinality(1..Len(s)) = IF 1 > Len(s) THEN 0 ELSE Len(s) - 1 + 1
    BY <2>1, FS_Interval
  <2> QED
    BY <1>1, <2>1, <2>2
<1>3. s \in Surjection(1..Len(s), Range(s))
  BY <1>1, Fun_IsSurj
<1>4. /\ IsFiniteSet(Range(s)) /\ Cardinality(Range(s)) <= Len(s)
      /\ Cardinality(Range(s)) = Len(s) <=> s \in Injection(1..Len(s), Range(s))
  BY <1>2, <1>3, FS_Surjection
<1>5. ASSUME Distinct(s) PROVE s \in Injection(1..Len(s), Range(s))
  BY <1>1, <1>5, Fun_IsInj DEF Distinct
<1>6. Cardinality(Range(s)) \in Nat
  BY <1>4, FS_CardinalityType
<1> QED
  BY <1>4, <1>5, <1>6

LEMMA Entries ==
    ASSUME NEW S, NEW s \in Seq(S)
    PROVE  /\ \A t \in Range(s) : \E j \in 1..Len(s) : t = s[j]
           /\ \A j \in 1..Len(s) : s[j] \in Range(s) /\ s[j] \in S
           /\ Len(s) \in Nat
BY DEF Range

InOrder(k, kept, stay, unable) ==
    /\ kept \in Seq(1..now) /\ Len(kept) = Len(list) - k
    /\ Ascending(kept)
    /\ stay \subseteq InUse /\ stay \subseteq Range(kept) \cup unable
    /\ k = 0 => stay = InUse
    /\ list # <<>> => kept # <<>> /\ kept[Len(kept)] = list[Len(list)]
    /\ \A n, m \in InUse : n \notin stay /\ m \in stay => n < m \/ m \in unable
    /\ ~clash => Distinct(kept) /\ Range(kept) \subseteq stay

\* Cleaning takes k entries off, and either none or not the last; unable is what
\* could not be deleted, then or before.
Cleans(k, gone, unable, left, kept, stay) ==
    /\ k \in Nat /\ (k = 0 \/ k < Len(list))
    /\ \A n \in gone : \E j \in 1..k : n = list[j]
    /\ undeleted \subseteq unable /\ \A j \in 1..k : list[j] \in gone \cup unable
    /\ left = [n \in Times |-> IF n \in gone THEN Absent ELSE disk[n]]
    /\ kept = SubSeq(list, k + 1, Len(list))
    /\ stay = {n \in Times : left[n] # Absent}

\* What it keeps of the list and of the files.
LEMMA CleaningKeepsOrder ==
    ASSUME OrderInv, SizeInv, running,
           NEW k, NEW gone, NEW unable, NEW left, NEW kept, NEW stay,
           Cleans(k, gone, unable, left, kept, stay)
    PROVE  InOrder(k, kept, stay, unable)
<1>13. /\ k \in Nat /\ (k = 0 \/ k < Len(list))
       /\ \A n \in gone : \E j \in 1..k : n = list[j]
       /\ undeleted \subseteq unable /\ \A j \in 1..k : list[j] \in gone \cup unable
  BY DEF Cleans
<1>14. /\ left = [n \in Times |-> IF n \in gone THEN Absent ELSE disk[n]]
       /\ kept = SubSeq(list, k + 1, Len(list))
       /\ stay = {n \in Times : left[n] # Absent}
  BY DEF Cleans
<1> USE <1>13
<1>1. /\ list \in Seq(1..now) /\ now \in Nat /\ Len(list) \in Nat
      /\ \A j \in 1..Len(list) : list[j] \in 1..now
      /\ \A n \in InUse : n \in undeleted \/ \E j \in 1..Len(list) : n = list[j]
      /\ \A n \in Range(list) : \E j \in 1..Len(list) : n = list[j]
      /\ \A j \in 1..Len(list) : list[j] \in Range(list)
  <2>1. list \in Seq(1..now) /\ now \in Nat /\ InUse \subseteq Range(list) \cup undeleted
    BY DEF OrderInv, SizeInv, Typed, Times
  <2>2. /\ \A n \in Range(list) : \E j \in 1..Len(list) : n = list[j]
        /\ \A j \in 1..Len(list) : list[j] \in Range(list) /\ list[j] \in 1..now
        /\ Len(list) \in Nat
    BY <2>1, Entries
  <2> QED
    BY <2>1, <2>2
<1>2. \A n \in Times : n \in stay <=> n \in InUse /\ n \notin gone
  BY <1>14 DEF InUse
<1>3. /\ kept \in Seq(1..now) /\ Len(kept) = Len(list) - k
      /\ \A i \in 1..(Len(list) - k) : kept[i] = list[i + k]
  <2>1. \A i \in (k + 1)..Len(list) : list[i] \in 1..now
    BY <1>1
  <2>2. k + 1 \in Int /\ Len(list) \in Int
    BY <1>1
  <2> DEFINE s == SubSeq(list, k + 1, Len(list))
  <2>3. /\ s \in Seq(1..now) /\ Len(s) = IF k + 1 <= Len(list) THEN Len(list) - (k + 1) + 1 ELSE 0
        /\ \A i \in 1..(Len(list) - (k + 1) + 1) : s[i] = list[(k + 1) + i - 1]
    BY <2>1, <2>2, SubSeqProperties
  <2> HIDE DEF s
  <2>4. Len(s) = Len(list) - k
    BY <1>1, <2>3
  <2>5. \A i \in 1..(Len(list) - k) : s[i] = list[i + k]
    BY <1>1, <2>3
  <2>6. kept = s
    BY <1>14 DEF s
  <2> QED
    BY <2>3, <2>4, <2>5, <2>6
<1>12. /\ \A n \in Range(kept) : \E i \in 1..Len(kept) : n = kept[i]
       /\ \A i \in 1..Len(kept) : kept[i] \in Range(kept)
  BY <1>3, Entries
<1>4. \A j \in 1..Len(list) : j > k => /\ j - k \in 1..(Len(list) - k)
                                       /\ kept[j - k] = list[j] /\ list[j] \in Range(kept)
  <2> SUFFICES ASSUME NEW j \in 1..Len(list), j > k
               PROVE  /\ j - k \in 1..(Len(list) - k)
                      /\ kept[j - k] = list[j] /\ list[j] \in Range(kept)
    OBVIOUS
  <2>1. j - k \in 1..(Len(list) - k) /\ (j - k) + k = j
    BY <1>1
  <2>2. kept[j - k] = list[j]
    BY <1>3, <2>1
  <2>3. kept[j - k] \in Range(kept)
    BY <1>3, <1>12, <2>1
  <2> QED
    BY <2>1, <2>2, <2>3
<1>5. Ascending(kept)
  <2>1. ASSUME NEW i \in 1..(Len(list) - k), NEW j \in 1..(Len(list) - k), i < j
        PROVE  kept[i] <= kept[j]
    <3>1. i + k \in 1..Len(list) /\ j + k \in 1..Len(list) /\ i + k < j + k
      BY <1>1, <2>1
    <3>2. list[i + k] <= list[j + k]
      BY <3>1 DEF OrderInv, Ascending
    <3> QED
      BY <1>3, <3>2
  <2> QED
    BY <1>3, <2>1 DEF Ascending
<1>6. list # <<>> => kept # <<>> /\ kept[Len(kept)] = list[Len(list)]
  <2> SUFFICES ASSUME list # <<>>
               PROVE  kept # <<>> /\ kept[Len(kept)] = list[Len(list)]
    OBVIOUS
  <2>1. Len(list) > 0 /\ Len(list) \in 1..Len(list)
    BY <1>1, EmptySeq
  <2>2. Len(list) > k /\ Len(kept) # 0
    BY <1>1, <1>3, <2>1
  <2>3. kept[Len(kept)] = list[Len(list)]
    BY <1>3, <1>4, <2>1, <2>2
  <2> QED
    BY <2>2, <2>3
<1>7. ASSUME NEW n \in InUse, n \notin gone PROVE n \in Range(kept) \cup unable
  <2>1. CASE n \in undeleted
    BY <2>1
  <2>2. ASSUME NEW j \in 1..Len(list), n = list[j], j > k PROVE n \in Range(kept)
    BY <1>4, <2>2
  <2>3. ASSUME NEW j \in 1..Len(list), n = list[j], j <= k PROVE n \in unable
    <3>1. j \in 1..k
      BY <1>1, <2>3
    <3> QED
      BY <1>7, <2>3, <3>1
  <2>4. CASE \E j \in 1..Len(list) : n = list[j]
    <3>1. PICK j \in 1..Len(list) : n = list[j]
      BY <2>4
    <3>2. j > k \/ j <= k
      BY <1>1
    <3> QED
      BY <2>2, <2>3, <3>1, <3>2
  <2> QED
    BY <1>1, <2>1, <2>4
<1>8. stay \subseteq InUse /\ stay \subseteq Range(kept) \cup unable
  <2>1. stay \subseteq Times
    BY <1>14
  <2> QED
    BY <1>2, <1>7, <2>1 DEF InUse
<1>9. k = 0 => stay = InUse
  BY <1>2, <1>8 DEF InUse
<1>10. ASSUME NEW n \in InUse, NEW m \in InUse, n \notin stay, m \in stay, m \notin unable
       PROVE  n < m
  <2>7. n \in gone
    BY <1>2, <1>10 DEF InUse
  <2>1. PICK j \in 1..k : n = list[j]
    BY <2>7
  <2>2. PICK i \in 1..Len(kept) : m = kept[i]
    BY <1>8, <1>10, <1>12
  <2>5. i \in 1..(Len(list) - k) /\ m = list[i + k]
    BY <1>3, <2>2
  <2>3. j \in 1..Len(list) /\ i + k \in 1..Len(list) /\ j < i + k /\ m = list[i + k]
    BY <1>1, <2>5
  <2>4. n <= m
    BY <2>1, <2>3 DEF OrderInv, Ascending
  <2>6. n # m /\ n \in 1..now /\ m \in 1..now
    BY <1>10 DEF OrderInv
  <2> QED
    BY <2>4, <2>6
<1>11. ASSUME ~clash PROVE Distinct(kept) /\ Range(kept) \subseteq stay
  <2>1. Distinct(list) /\ Range(list) \subseteq InUse
    BY <1>11 DEF OrderInv
  <2>2. Distinct(kept)
    <3>1. ASSUME NEW i \in 1..Len(kept), NEW j \in 1..Len(kept), kept[i] = kept[j]
          PROVE  i = j
      <4>1. i + k \in 1..Len(list) /\ j + k \in 1..Len(list) /\ list[i + k] = list[j + k]
        <5>1. Len(list) \in Nat /\ i \in 1..(Len(list) - k) /\ j \in 1..(Len(list) - k)
          BY <1>1, <1>3
        <5>2. i + k \in 1..Len(list) /\ j + k \in 1..Len(list)
          BY <5>1
        <5>3. list[i + k] = kept[i] /\ list[j + k] = kept[j]
          BY <1>3, <5>1
        <5> QED
          BY <3>1, <5>2, <5>3
      <4>2. i + k = j + k
        BY <2>1, <4>1 DEF Distinct
      <4> QED
        BY <4>2
    <3> QED
      BY <3>1 DEF Distinct
  <2>3. ASSUME NEW n \in Range(kept) PROVE n \in stay
    <3>1. PICK i \in 1..Len(kept) : n = kept[i]
      BY <1>12
    <3>5. i + k \in 1..Len(list) /\ n = list[i + k]
      BY <1>1, <1>3, <3>1
    <3>2. i + k \in 1..Len(list) /\ n = list[i + k] /\ n \in InUse
      BY <1>1, <2>1, <3>5
    <3>6. Len(list) \in Nat /\ i \in Nat /\ i > 0
      BY <1>1, <1>3
    <3>3. ASSUME NEW j \in 1..k PROVE list[j] # n
      <4>1. j \in 1..Len(list) /\ j # i + k
        BY <3>6
      <4> QED
        BY <2>1, <3>2, <4>1 DEF Distinct
    <3>4. n \notin gone
      BY <3>3
    <3> QED
      BY <1>2, <3>2, <3>4 DEF InUse
  <2> QED
    BY <2>2, <2>3
<1> QED
  BY <1>3, <1>5, <1>6, <1>8, <1>9, <1>10, <1>11 DEF InOrder

\* What OldestFirst, MinKept and CleanBounds say of one step.
Oldest == \A n, m \in InUse : n \notin InUse' /\ m \in InUse' => n < m \/ m \in undeleted'
Kept == InUse \subseteq InUse' \/ clash \/ Cardinality(InUse \cap InUse') >= MinFiles
Bounded == running /\ running' /\ cleaned' # cleaned
             => Cardinality(InUse' \ undeleted') <= Max({MaxFiles, MinFiles + 1})

\* A line, for the list: its end follows the open file.
LEMMA WriteOrders ==
    ASSUME OrderInv, SizeInv, MinFiles > 0, running, UNCHANGED <<now, running>>,
           NEW len \in LineSizes, WriteLog(len)
    PROVE  OrderInv' /\ Oldest /\ Kept /\ Bounded
<1>1. PICK short \in Shortages, failing \in Failing :
        LET taken == IF CleaningDue THEN Taken(short, failing) ELSE 0
            kept == SubSeq(list, taken + 1, Len(list))
            gone == Gone(taken, failing)
            left == [n \in Times |-> IF n \in gone THEN Absent ELSE disk[n]]
        IN  /\ cleaned' = IF CleaningDue THEN now ELSE cleaned
            /\ undeleted' = undeleted \cup ({list[j] : j \in 1..taken} \ gone)
            /\ \/ /\ fd # Closed /\ ~TooBig
                  /\ list' = kept /\ count' = count - taken
                  /\ \E written \in 0..len : disk' = [left EXCEPT ![fd] = @ + written]
                  /\ UNCHANGED <<fd, clash>>
               \/ /\ fd' = NameOf(now)
                  /\ list' = Append(kept, fd') /\ count' = count - taken + 1
                  /\ \E written \in 0..len : disk' = [left EXCEPT ![fd'] = written]
                  /\ clash' = (clash \/ fd' \in InUse \cup Range(list))
               \/ /\ list' = kept /\ count' = count - taken
                  /\ disk' = left
                  /\ fd' = Closed
                  /\ UNCHANGED <<size, clash>>
  BY DEF WriteLog
<1> DEFINE k == IF CleaningDue THEN Taken(short, failing) ELSE 0
           kept == SubSeq(list, k + 1, Len(list))
           gone == Gone(k, failing)
           unable == undeleted \cup ({list[j] : j \in 1..k} \ gone)
           left == [n \in Times |-> IF n \in gone THEN Absent ELSE disk[n]]
           stay == {n \in Times : left[n] # Absent}
           most == Max({MaxFiles - 1, MinFiles})
<1>2. /\ cleaned' = IF CleaningDue THEN now ELSE cleaned
      /\ undeleted' = unable
      /\ \/ /\ fd # Closed
            /\ list' = kept /\ count' = count - k
            /\ \E written \in 0..len : disk' = [left EXCEPT ![fd] = @ + written]
            /\ UNCHANGED <<fd, clash>>
         \/ /\ fd' = now
            /\ list' = Append(kept, fd') /\ count' = count - k + 1
            /\ \E written \in 0..len : disk' = [left EXCEPT ![fd'] = written]
            /\ clash' = (clash \/ fd' \in InUse \cup Range(list))
         \/ /\ list' = kept /\ count' = count - k
            /\ disk' = left
            /\ fd' = Closed
            /\ UNCHANGED <<size, clash>>
  BY <1>1 DEF NameOf
<1>3. /\ now \in Nat /\ now \in Times /\ MinFiles \in Nat /\ MaxFiles \in Nat /\ len \in Nat
      /\ list \in Seq(1..now) /\ list \in Seq(Nat) /\ Len(list) \in Nat /\ count = Len(list)
  <2>1. list \in Seq(1..now) /\ now \in Times /\ count = Len(list)
    BY DEF OrderInv, SizeInv, Typed
  <2> QED
    BY <2>1, LogAssumption DEF Times
<1>4. /\ k \in Nat /\ (k = 0 \/ k < Len(list)) /\ (k = 0 \/ k <= Len(list) - MinFiles)
      /\ CleaningDue => Len(list) - k <= most
  <2>1. /\ Taken(short, failing) \in Nat /\ Len(list) - Taken(short, failing) <= most
        /\ Taken(short, failing) = 0 \/ Taken(short, failing) <= Len(list) - MinFiles
    BY <1>3, TakenBounds
  <2> HIDE DEF most
  <2>2. CASE CleaningDue
    <3>1. k = Taken(short, failing)
      BY <2>2
    <3> QED
      BY <1>3, <2>1, <3>1
  <2>3. CASE ~CleaningDue
    BY <2>3
  <2> QED
    BY <2>2, <2>3
<1>16. fd \notin gone
  BY DEF Gone
<1> HIDE DEF k
<1>17. /\ \A n \in gone : \E j \in 1..k : n = list[j]
       /\ undeleted \subseteq unable
       /\ \A j \in 1..k : list[j] \in gone \cup unable
  BY DEF Gone
<1> HIDE DEF gone
<1>5. /\ left \in [Times -> Nat \cup {Absent}]
      /\ fd # Closed => left[fd] \in Nat /\ left[fd] <= size
      /\ \A n \in Times : left[n] \in {disk[n], Absent}
  BY <1>16, CleaningLeaves
<1>15. InOrder(k, kept, stay, unable)
  <2> HIDE DEF left, kept, stay, unable
  <2>1. left = [n \in Times |-> IF n \in gone THEN Absent ELSE disk[n]]
    BY DEF left
  <2>2. kept = SubSeq(list, k + 1, Len(list))
    BY DEF kept
  <2>3. stay = {n \in Times : left[n] # Absent}
    BY DEF stay
  <2>4. Cleans(k, gone, unable, left, kept, stay)
    BY <1>4, <1>17, <2>1, <2>2, <2>3 DEF Cleans
  <2> QED
    BY <2>4, CleaningKeepsOrder
<1>7. InUse' = {n \in Times : disk'[n] # Absent} /\ InUse = {n \in Times : disk[n] # Absent}
  BY DEF InUse
<1>8. InUse \subseteq 1..now /\ (fd # Closed => list # <<>> /\ list[Len(list)] = fd)
  BY DEF OrderInv
<1>22. stay = {n \in Times : left[n] # Absent}
  OBVIOUS
<1> HIDE DEF kept, left, stay, most, unable
<1>6. /\ kept \in Seq(1..now) /\ Len(kept) = Len(list) - k
      /\ Ascending(kept)
      /\ stay \subseteq InUse /\ stay \subseteq Range(kept) \cup unable
      /\ k = 0 => stay = InUse
      /\ list # <<>> => kept # <<>> /\ kept[Len(kept)] = list[Len(list)]
      /\ \A n, m \in InUse : n \notin stay /\ m \in stay => n < m \/ m \in unable
      /\ ~clash => Distinct(kept) /\ Range(kept) \subseteq stay
  BY <1>15 DEF InOrder
\* what is common to the three ways
<1>9. /\ IsFiniteSet(InUse) /\ IsFiniteSet(stay) /\ Cardinality(stay) \in Nat
      /\ IsFiniteSet(stay \ unable) /\ Cardinality(stay \ unable) \in Nat
      /\ Cardinality(stay \ unable) <= Len(kept)
      /\ ~clash => Cardinality(stay) >= Len(kept)
  <2>1. IsFiniteSet(InUse)
    <3>1. IsFiniteSet(1..now)
      BY <1>3, FS_Interval
    <3> QED
      BY <1>8, <3>1, FS_Subset
  <2>2. IsFiniteSet(stay) /\ Cardinality(stay) \in Nat
    BY <1>6, <2>1, FS_Subset, FS_CardinalityType
  <2>7. IsFiniteSet(stay \ unable) /\ Cardinality(stay \ unable) \in Nat
    BY <2>2, FS_Subset, FS_CardinalityType
  <2>3. /\ IsFiniteSet(Range(kept)) /\ Cardinality(Range(kept)) \in Nat
        /\ Cardinality(Range(kept)) <= Len(kept)
        /\ Distinct(kept) => Cardinality(Range(kept)) = Len(kept)
    BY <1>6, RangeSmall
  <2>4. Cardinality(stay \ unable) <= Cardinality(Range(kept))
    <3>1. stay \ unable \subseteq Range(kept)
      BY <1>6
    <3> QED
      BY <2>3, <3>1, FS_Subset
  <2>5. Len(kept) \in Nat
    BY <1>6
  <2>6. ASSUME ~clash PROVE Cardinality(stay) >= Len(kept)
    <3>1. Range(kept) \subseteq stay /\ Cardinality(Range(kept)) = Len(kept)
      BY <1>6, <2>3, <2>6
    <3>2. Cardinality(Range(kept)) <= Cardinality(stay)
      BY <2>2, <3>1, FS_Subset
    <3> QED
      BY <2>2, <2>5, <3>1, <3>2
  <2> QED
    BY <2>1, <2>2, <2>3, <2>4, <2>5, <2>6, <2>7
<1>10. stay \subseteq InUse' /\ InUse' \subseteq stay \cup {now} => Oldest /\ Kept
  <2> SUFFICES ASSUME stay \subseteq InUse', InUse' \subseteq stay \cup {now} PROVE Oldest /\ Kept
    OBVIOUS
  <2>1. ASSUME NEW n \in InUse, NEW m \in InUse, n \notin InUse', m \in InUse'
        PROVE  n < m \/ m \in undeleted'
    <3>1. n \notin stay
      BY <2>1
    <3>2. CASE m \in stay
      BY <1>2, <1>6, <3>1, <3>2
    <3>3. CASE m \notin stay
      <4>1. m = now /\ n # now /\ n \in 1..now
        BY <1>8, <2>1, <3>3
      <4> QED
        BY <1>3, <4>1
    <3> QED
      BY <3>2, <3>3
  <2>2. Kept
    <3>1. CASE k = 0
      <4>1. InUse \subseteq InUse'
        BY <1>6, <3>1
      <4> QED
        BY <4>1 DEF Kept
    <3>2. CASE clash
      BY <3>2 DEF Kept
    <3>3. CASE k # 0 /\ ~clash
      <4>1. Cardinality(stay) >= MinFiles
        BY <1>3, <1>4, <1>6, <1>9, <3>3
      <4>2. stay \subseteq InUse \cap InUse' /\ IsFiniteSet(InUse \cap InUse')
        BY <1>6, <1>9, FS_Subset
      <4>3. Cardinality(stay) <= Cardinality(InUse \cap InUse') /\ Cardinality(InUse \cap InUse') \in Nat
        BY <4>2, FS_Subset, FS_CardinalityType
      <4>4. Cardinality(InUse \cap InUse') >= MinFiles
        BY <1>3, <1>9, <4>1, <4>3
      <4> QED
        BY <4>4 DEF Kept
    <3> QED
      BY <3>1, <3>2, <3>3
  <2> QED
    BY <2>1, <2>2 DEF Oldest
<1>11. InUse' \subseteq stay \cup {now} => Bounded
  <2> SUFFICES ASSUME InUse' \subseteq stay \cup {now}, cleaned' # cleaned
               PROVE  Cardinality(InUse' \ undeleted') <= Max({MaxFiles, MinFiles + 1})
    BY DEF Bounded
  <2> DEFINE rest == stay \ unable
  <2>1. CleaningDue
    BY <1>2
  <2>6. InUse' \ undeleted' \subseteq rest \cup {now}
    BY <1>2
  <2>2. Cardinality(rest) <= most /\ IsFiniteSet(rest) /\ Cardinality(rest) \in Nat
    <3>1. most \in Nat
      BY <1>3, MaxOfTwo DEF most
    <3> QED
      BY <1>3, <1>4, <1>6, <1>9, <2>1, <3>1
  <2> HIDE DEF rest
  <2>3. IsFiniteSet(rest \cup {now}) /\ Cardinality(rest \cup {now}) <= Cardinality(rest) + 1
        /\ Cardinality(rest \cup {now}) \in Nat
    <3>1. IsFiniteSet(rest \cup {now})
          /\ Cardinality(rest \cup {now})
               = IF now \in rest THEN Cardinality(rest) ELSE Cardinality(rest) + 1
      BY <2>2, FS_AddElement
    <3> QED
      BY <2>2, <3>1
  <2>4. /\ Cardinality(InUse' \ undeleted') <= Cardinality(rest \cup {now})
        /\ Cardinality(InUse' \ undeleted') \in Nat
    BY <2>3, <2>6, FS_Subset, FS_CardinalityType
  <2>5. most + 1 = Max({MaxFiles, MinFiles + 1}) /\ most \in Nat
    <3>1. most = IF MaxFiles - 1 >= MinFiles THEN MaxFiles - 1 ELSE MinFiles
      BY <1>3, MaxOfTwo DEF most
    <3>2. Max({MaxFiles, MinFiles + 1}) = IF MaxFiles >= MinFiles + 1 THEN MaxFiles ELSE MinFiles + 1
      BY <1>3, MaxOfTwo
    <3> QED
      BY <1>3, <3>1, <3>2
  <2> QED
    BY <1>9, <2>2, <2>3, <2>4, <2>5
<1>12. ASSUME fd # Closed, list' = kept, count' = count - k, UNCHANGED <<fd, clash>>,
              NEW written \in 0..len, disk' = [left EXCEPT ![fd] = @ + written]
       PROVE  OrderInv' /\ Oldest /\ Kept /\ Bounded
  <2>1. fd \in Times /\ left[fd] \in Nat /\ written \in Nat
    BY <1>3, <1>5, <1>12 DEF SizeInv, Typed
  <2>2. InUse' = stay
    <3>1. disk'[fd] = left[fd] + written /\ \A n \in Times \ {fd} : disk'[n] = left[n]
      BY <1>5, <1>12, <2>1
    <3>2. disk'[fd] # Absent /\ left[fd] # Absent
      BY <2>1, <3>1 DEF Absent
    <3> QED
      BY <1>7, <1>22, <3>1, <3>2
  <2>3. OrderInv'
    BY <1>2, <1>3, <1>4, <1>6, <1>8, <1>12, <2>2 DEF OrderInv
  <2> QED
    BY <1>10, <1>11, <2>2, <2>3
<1>13. ASSUME fd' = now, list' = Append(kept, fd'), count' = count - k + 1,
              clash' = (clash \/ fd' \in InUse \cup Range(list)),
              NEW written \in 0..len, disk' = [left EXCEPT ![fd'] = written]
       PROVE  OrderInv' /\ Oldest /\ Kept /\ Bounded
  <2>1. InUse' = stay \cup {now}
    <3>1. disk'[now] = written /\ \A n \in Times \ {now} : disk'[n] = left[n]
      BY <1>3, <1>5, <1>13
    <3>2. disk'[now] # Absent
      BY <1>3, <3>1 DEF Absent
    <3> QED
      BY <1>3, <1>7, <1>22, <3>1, <3>2
  <2> DEFINE grown == Append(kept, now)
  <2>2. /\ grown \in Seq(1..now) /\ grown # <<>> /\ Len(grown) = Len(kept) + 1
        /\ \A i \in 1..Len(kept) : grown[i] = kept[i]
        /\ grown[Len(kept) + 1] = now
    <3>1. now \in 1..now
      BY <1>3 DEF Times
    <3> QED
      BY <1>6, <3>1, AppendProperties
  <2>3. list' = grown /\ count' = count - k + 1
    BY <1>13
  <2> HIDE DEF grown
  <2>4. /\ Len(kept) \in Nat /\ \A j \in 1..Len(kept) : kept[j] \in 1..now
        /\ \A j \in 1..Len(grown) : j \in 1..Len(kept) \/ j = Len(kept) + 1
    <3>2. kept \in Seq(1..now)
      BY <1>6
    <3>1. Len(kept) \in Nat /\ \A j \in 1..Len(kept) : kept[j] \in 1..now
      BY <3>2, Entries
    <3>3. Len(grown) = Len(kept) + 1
      BY <2>2
    <3>4. \A j \in 1..Len(grown) : j \in 1..Len(kept) \/ j = Len(kept) + 1
      BY <3>1, <3>3
    <3> QED
      BY <3>1, <3>4
  <2>5. Ascending(grown)
    <3>1. ASSUME NEW i \in 1..Len(grown), NEW j \in 1..Len(grown), i < j
          PROVE  grown[i] <= grown[j]
      <4>1. i \in 1..Len(kept) /\ grown[i] = kept[i] /\ kept[i] \in 1..now
        BY <2>2, <2>4, <3>1
      <4>2. CASE j = Len(kept) + 1
        BY <1>3, <2>2, <4>1, <4>2
      <4>3. CASE j \in 1..Len(kept)
        <5>1. grown[j] = kept[j] /\ kept[i] <= kept[j]
          BY <1>6, <2>2, <3>1, <4>1, <4>3 DEF Ascending
        <5> QED
          BY <4>1, <5>1
      <4> QED
        BY <2>4, <4>2, <4>3
    <3> QED
      BY <3>1 DEF Ascending
  <2>6. Range(grown) = Range(kept) \cup {now}
    <3>1. /\ \A t \in Range(grown) : \E j \in 1..Len(grown) : t = grown[j]
          /\ \A j \in 1..Len(grown) : grown[j] \in Range(grown)
      BY <2>2, Entries
    <3>2. /\ \A t \in Range(kept) : \E j \in 1..Len(kept) : t = kept[j]
          /\ \A j \in 1..Len(kept) : kept[j] \in Range(kept)
      BY <1>6, Entries
    <3>3. \A j \in 1..Len(kept) : j \in 1..Len(grown)
      BY <2>2, <2>4
    <3>4. Len(kept) + 1 \in 1..Len(grown)
      BY <2>2, <2>4
    <3>5. ASSUME NEW t \in Range(grown) PROVE t \in Range(kept) \cup {now}
      <4>1. PICK j \in 1..Len(grown) : t = grown[j]
        BY <3>1
      <4>2. CASE j \in 1..Len(kept)
        <5>1. t = kept[j]
          BY <2>2, <4>1, <4>2
        <5> QED
          BY <3>2, <4>2, <5>1
      <4>3. CASE j = Len(kept) + 1
        BY <2>2, <4>1, <4>3
      <4> QED
        BY <2>4, <4>1, <4>2, <4>3
    <3>6. ASSUME NEW t \in Range(kept) PROVE t \in Range(grown)
      <4>1. PICK j \in 1..Len(kept) : t = kept[j]
        BY <3>2
      <4>2. t = grown[j]
        BY <2>2, <4>1
      <4> QED
        BY <3>1, <3>3, <4>1, <4>2
    <3>7. now \in Range(grown)
      <4>1. grown[Len(kept) + 1] = now
        BY <2>2
      <4> QED
        BY <3>1, <3>4, <4>1
    <3> QED
      BY <3>5, <3>6, <3>7
  <2>7. ASSUME ~clash' PROVE Distinct(grown) /\ Range(grown) \subseteq InUse'
    <3>1. ~clash /\ now \notin Range(list)
      BY <1>13, <2>7
    <3>2. \A j \in 1..Len(kept) : kept[j] # now
      <4>1. Range(kept) \subseteq InUse
        BY <1>6, <3>1
      <4>2. now \notin InUse
        BY <1>13, <2>7
      <4>3. \A j \in 1..Len(kept) : kept[j] \in Range(kept)
        BY <1>6, Entries
      <4> QED
        BY <4>1, <4>2, <4>3
    <3>3. ASSUME NEW i \in 1..Len(grown), NEW j \in 1..Len(grown), grown[i] = grown[j]
          PROVE  i = j
      <4>1. CASE i \in 1..Len(kept) /\ j \in 1..Len(kept)
        BY <1>6, <2>2, <3>1, <3>3, <4>1 DEF Distinct
      <4>2. CASE ~(i \in 1..Len(kept) /\ j \in 1..Len(kept))
        <5>1. (i = Len(kept) + 1 /\ grown[j] = now) \/ (j = Len(kept) + 1 /\ grown[i] = now)
          BY <2>2, <2>4, <3>3, <4>2
        <5>2. i \notin 1..Len(kept) /\ j \notin 1..Len(kept)
          BY <2>2, <3>2, <3>3, <5>1, <4>2
        <5> QED
          BY <2>4, <5>2
      <4> QED
        BY <4>1, <4>2
    <3> QED
      BY <1>6, <2>1, <2>6, <3>1, <3>3 DEF Distinct
  <2>8. InUse' \subseteq Range(grown) \cup unable /\ InUse' \subseteq 1..now
    BY <1>3, <1>6, <1>8, <2>1, <2>6 DEF Times
  <2>9. OrderInv'
    BY <1>2, <1>3, <1>4, <1>6, <1>13, <2>2, <2>3, <2>4, <2>5, <2>7, <2>8 DEF OrderInv
  <2> QED
    BY <1>10, <1>11, <2>1, <2>9
<1>14. CASE /\ list' = kept /\ count' = count - k
            /\ disk' = left
            /\ fd' = Closed
            /\ UNCHANGED <<size, clash>>
  <2>1. InUse' = stay
    BY <1>7, <1>14, <1>22
  <2>2. OrderInv'
    BY <1>2, <1>3, <1>4, <1>6, <1>8, <1>14, <2>1 DEF OrderInv
  <2> QED
    BY <1>10, <1>11, <2>1, <2>2
<1> QED
  BY <1>2, <1>12, <1>13, <1>14

\* A new process takes the list from the directory, and starts in its order.
LEMMA OthersOrder ==
    ASSUME OrderInv, SizeInv, Start \/ End \/ Tick \/ UNCHANGED vars
    PROVE  OrderInv' /\ Oldest /\ Kept /\ Bounded
<1>1. now \in Nat /\ now' \in Nat /\ now <= now' /\ InUse' = InUse /\ clash' = clash
  BY LogAssumption DEF SizeInv, Typed, Times, Start, End, Tick, vars, InUse
<1>2. Oldest /\ Kept
  BY <1>1 DEF Oldest, Kept
<1>3. Bounded
  BY DEF Bounded, Start, End, Tick, vars, files
<1>4. CASE Start
  <2> DEFINE found == SerarchLogsByDir
  <2>1. /\ found \in Seq(1..now) /\ Ascending(found) /\ Distinct(found) /\ Range(found) = InUse
    BY <1>1, SearchFinds DEF OrderInv
  <2>2. list' = found /\ count' = Len(list') /\ running' /\ fd' = Closed /\ now' = now
    BY <1>4 DEF Start
  <2> HIDE DEF found
  <2> QED
    BY <1>1, <1>2, <1>3, <2>1, <2>2 DEF OrderInv
<1>5. CASE End
  BY <1>1, <1>2, <1>3, <1>5 DEF OrderInv, End
<1>6. CASE Tick \/ UNCHANGED vars
  <2>1. UNCHANGED <<list, count, fd, running, undeleted>>
    BY <1>6 DEF Tick, vars, files
  <2>2. list \in Seq(1..now) => list \in Seq(1..now')
    <3> SUFFICES ASSUME list \in Seq(1..now) PROVE list \in Seq(1..now')
      OBVIOUS
    <3>1. 1..now \subseteq 1..now' /\ list \in [1..Len(list) -> 1..now] /\ Len(list) \in Nat
      BY <1>1
    <3>2. list \in [1..Len(list) -> 1..now']
      BY <3>1
    <3>3. list \in UNION {[1..n -> 1..now'] : n \in Nat}
      BY <3>1, <3>2
    <3> QED
      BY <3>3, SeqDef
  <2>3. 1..now \subseteq 1..now'
    BY <1>1
  <2> QED
    BY <1>1, <1>2, <1>3, <2>1, <2>2, <2>3 DEF OrderInv
<1> QED
  BY <1>4, <1>5, <1>6

LEMMA StepOrders ==
    ASSUME OrderInv, SizeInv, MinFiles > 0, [Next]_vars
    PROVE  OrderInv' /\ Oldest /\ Kept /\ Bounded
<1>1. CASE Line
  <2>1. PICK len \in LineSizes : WriteLog(len)
    BY <1>1 DEF Line
  <2> QED
    BY <1>1, <2>1, WriteOrders DEF Line
<1>2. CASE InfoLine
  <2>1. PICK len \in LineSizes : WriteLog(len)
    BY <1>2 DEF InfoLine
  <2> QED
    BY <1>2, <2>1, WriteOrders DEF InfoLine
<1>3. CASE Start \/ End \/ Tick \/ UNCHANGED vars
  BY <1>3, OthersOrder
<1> QED
  BY <1>1, <1>2, <1>3 DEF Next

\* The program has MinFiles = 5 (dev_manager.cpp:6); were it 0, cleaning could
\* take the entry of the open file off the list.
THEOREM OrderInvariant ==
    ASSUME MinFiles > 0
    PROVE  Spec => []OrderInv
<1>1. Init => OrderInv
  BY DEF Init, OrderInv, InUse
<1>2. OrderInv /\ SizeInv /\ [Next]_vars => OrderInv'
  BY StepOrders
<1> QED
  BY <1>1, <1>2, SizeInvariant, PTL DEF Spec

\* The list m_FileList, its count, the directory, the open file and its size,
\* which the code keeps in five places, agree over any number of restarts, but
\* for the files whose deletion failed since the last.
THEOREM ListedHolds ==
    ASSUME MinFiles > 0
    PROVE  Spec => []Listed
<1>1. OrderInv /\ SizeInv => Listed
  <2> SUFFICES ASSUME OrderInv, SizeInv, running PROVE Listed
    BY DEF Listed
  <2> QED
    BY DEF Listed, OrderInv, SizeKnown, SizeInv, Ascending, Last
<1> QED
  BY <1>1, OrderInvariant, SizeInvariant, PTL

\* CleanFile_ deletes the oldest files first, but for those it cannot delete.
THEOREM OldestFirstHolds ==
    ASSUME MinFiles > 0
    PROVE  Spec => OldestFirst
<1>1. OrderInv /\ SizeInv /\ [Next]_vars
        => [\A n, m \in InUse : n \notin InUse' /\ m \in InUse' => n < m \/ m \in undeleted']_vars
  BY StepOrders DEF Oldest
<1> QED
  BY <1>1, OrderInvariant, SizeInvariant, PTL DEF Spec, OldestFirst

\* CleanFile_ leaves m_iMinFiles files, as long as no two shared a name.
THEOREM MinKeptHolds ==
    ASSUME MinFiles > 0
    PROVE  Spec => MinKept
<1>1. OrderInv /\ SizeInv /\ [Next]_vars
        => [InUse \subseteq InUse' \/ clash \/ Cardinality(InUse \cap InUse') >= MinFiles]_vars
  BY StepOrders DEF Kept
<1> QED
  BY <1>1, OrderInvariant, SizeInvariant, PTL DEF Spec, MinKept

\* After a cleaning there are no more files than m_iMaxFiles, or one more than
\* m_iMinFiles, however many there were, besides those it could not delete.
THEOREM CleanBoundsHolds ==
    ASSUME MinFiles > 0
    PROVE  Spec => CleanBounds
<1>1. OrderInv /\ SizeInv /\ [Next]_vars
        => [running /\ running' /\ cleaned' # cleaned
              => Cardinality(InUse' \ undeleted') <= Max({MaxFiles, MinFiles + 1})]_vars
  BY StepOrders DEF Bounded
<1> QED
  BY <1>1, OrderInvariant, SizeInvariant, PTL DEF Spec, CleanBounds
==============================================================================

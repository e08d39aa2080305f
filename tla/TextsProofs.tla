---------------------------- MODULE TextsProofs -----------------------------
(* What the text functions of Texts and StrUtilty compute, for every text.   *)
(* Each is a recursive function over the places of a text: Solved shows that *)
(* there is the function that its definition speaks of, Induct that what     *)
(* holds at a place, if it does at all the later ones, holds at every one.   *)
EXTENDS StrUtilty, FiniteSetTheorems, SequenceTheorems, WellFoundedInduction, TLAPS

\* Every set of numbers that is not empty has a least one.
LEMMA Least ==
    ASSUME NEW T, T \subseteq Nat, T # {}
    PROVE  \E x \in T : \A y \in T : x <= y
<1> DEFINE R == OpToRel(<, Nat)
<1>1. IsWellFoundedOn(R, Nat)
  BY NatLessThanWellFounded
<1> HIDE DEF R
<1>2. PICK x \in T : \A y \in T : <<y, x>> \notin R
  BY <1>1, WFMin
<1>3. \A y \in T : ~(y < x)
  BY <1>2 DEF R, OpToRel
<1> QED
  BY <1>3

\* Induction, in the form of a set of numbers.
LEMMA Induct ==
    ASSUME NEW S, 0 \in S, \A n \in Nat : n \in S => n + 1 \in S
    PROVE  Nat \subseteq S
<1> SUFFICES ASSUME Nat \ S # {} PROVE FALSE
  OBVIOUS
<1>1. PICK x \in Nat \ S : \A y \in Nat \ S : x <= y
  BY Least
<1>2. x # 0 /\ x - 1 \in Nat /\ x - 1 \in S
  BY <1>1
<1> QED
  BY <1>1, <1>2

\* What says of each x what its value is from the values of those of lower rank.
Ranks(rank, S, K) == rank \in [S -> Nat] /\ K \in Nat /\ \A x \in S : rank[x] < K
Alike(g, h, rank, S, k) == \A y \in S : rank[y] < k => g[y] = h[y]
Rule(F, rank, S, D) ==
    /\ F \in [S -> [[S -> D] -> D]]
    /\ \A x \in S : \A g, h \in [S -> D] : Alike(g, h, rank, S, rank[x]) => F[x][g] = F[x][h]

\* There is a function that such a rule describes.
LEMMA Solved ==
    ASSUME NEW S, NEW D, NEW d \in D, NEW rank, NEW K, Ranks(rank, S, K),
           NEW F, Rule(F, rank, S, D)
    PROVE  \E f \in [S -> D] : \A x \in S : f[x] = F[x][f]
<1> DEFINE Upto(f, k) == \A x \in S : rank[x] < k => f[x] = F[x][f]
           G == {k \in Nat : \E f \in [S -> D] : Upto(f, k)}
<1> USE DEF Ranks
<1>1. 0 \in G
  <2>1. [x \in S |-> d] \in [S -> D] /\ Upto([x \in S |-> d], 0)
    OBVIOUS
  <2> QED
    BY <2>1
<1>2. ASSUME NEW k \in Nat, k \in G PROVE k + 1 \in G
  <2>1. PICK f \in [S -> D] : Upto(f, k)
    BY <1>2
  <2> DEFINE g == [x \in S |-> IF rank[x] = k THEN F[x][f] ELSE f[x]]
  <2>2. g \in [S -> D]
    BY DEF Rule
  <2>3. Alike(f, g, rank, S, k)
    BY DEF Alike
  <2>4. ASSUME NEW x \in S, rank[x] < k + 1 PROVE g[x] = F[x][g]
    <3>1. rank[x] \in Nat /\ Alike(f, g, rank, S, rank[x])
      BY <2>3, <2>4 DEF Alike
    <3>2. F[x][f] = F[x][g]
      BY <2>2, <3>1 DEF Rule
    <3>3. g[x] = F[x][f]
      BY <2>1, <2>4, <3>1
    <3> QED
      BY <3>2, <3>3
  <2> HIDE DEF g
  <2> QED
    BY <2>2, <2>4
<1> HIDE DEF G
<1>3. K \in G
  BY <1>1, <1>2, Induct
<1> QED
  BY <1>3 DEF G

------------------------------------------------------------------------------
(* Bytes and hexadecimal text.                                                *)

\* The digits are all different, but for the case of letters.
LEMMA DigitsDiffer ==
    ASSUME NEW v \in 0..15, NEW w \in 0..15,
           \/ Digits[v + 1] = Digits[w + 1] \/ UpperDigits[v + 1] = UpperDigits[w + 1]
           \/ Digits[v + 1] = UpperDigits[w + 1]
    PROVE  v = w
BY SMTT(60) DEF Digits, UpperDigits

\* A digit, small or capital, has its value.
LEMMA DigitIs ==
    ASSUME NEW v \in 0..15
    PROVE  /\ _ToHexChar(Digits[v + 1]) = v /\ _ToHexChar(UpperDigits[v + 1]) = v
           /\ IsHexDigit(Digits[v + 1]) /\ IsHexDigit(UpperDigits[v + 1])
BY DigitsDiffer DEF _ToHexChar, IsHexDigit

\* What stands around the digits is none.
LEMMA NoDigits == ~IsHexDigit(Blank) /\ ~IsHexDigit("x") /\ ~IsHexDigit("X")
BY DEF IsHexDigit, Digits, UpperDigits, Blank

\* A group is at most two digits, and a number.
LEMMA GroupIs ==
    ASSUME NEW str, NEW i, Group(str, i) # <<>>
    PROVE  Number(Group(str, i)) \in Int
<1>1. \A ch : IsHexDigit(ch) => _ToHexChar(ch) \in 0..15
  BY DEF IsHexDigit, _ToHexChar
<1>2. IsHexDigit(str[i])
  BY DEF Group
<1>3. CASE i = Len(str) \/ ~IsHexDigit(str[i + 1])
  <2>1. Group(str, i) = <<_ToHexChar(str[i])>>
    BY <1>2, <1>3 DEF Group
  <2>2. \A x : Number(<<x>>) = x
    BY DEF Number
  <2> QED
    BY <1>1, <1>2, <2>1, <2>2
<1>4. CASE ~(i = Len(str) \/ ~IsHexDigit(str[i + 1]))
  <2>1. PICK x, y : x = _ToHexChar(str[i]) /\ y = _ToHexChar(str[i + 1])
    OBVIOUS
  <2>2. x \in 0..15 /\ y \in 0..15
    BY <1>1, <1>2, <1>4, <2>1
  <2>3. Group(str, i) = <<x, y>>
    BY <1>2, <1>4, <2>1 DEF Group
  <2>4. Number(<<x, y>>) = 16 * x + y
    BY <2>2 DEF Number
  <2> QED
    BY <2>2, <2>3, <2>4
<1> QED
  BY <1>3, <1>4

\* What is read from i on.
HexFrom(str, i, f) ==
    IF i = Len(str) + 1 THEN <<>>
    ELSE IF i > Len(str) THEN <<Beyond>>
    ELSE IF IsHexMark(str, i) THEN f[i + 2]
    ELSE LET g == Group(str, i) IN
         IF g = <<>> THEN f[i + 1] ELSE <<Number(g)>> \o f[i + 2]

\* HexstrToArray reads from the first place, as HexFrom says.
LEMMA HexReads ==
    ASSUME NEW C, NEW str \in Seq(C)
    PROVE  \E f : /\ HexstrToArray(str) = f[1]
                  /\ \A i \in 1..(Len(str) + 2) : f[i] = HexFrom(str, i, f)
<1> DEFINE N == Len(str)
           S == 1..(N + 2)
           D == Seq(Int)
           Eq(f) == f = [i \in S |->
                IF i = Len(str) + 1 THEN <<>>
                ELSE IF i > Len(str) THEN <<Beyond>>
                ELSE IF IsHexMark(str, i) THEN f[i + 2]
                ELSE LET g == Group(str, i) IN
                     IF g = <<>> THEN f[i + 1] ELSE <<Number(g)>> \o f[i + 2]]
<1>1. N \in Nat /\ <<>> \in D
  OBVIOUS
<1>2. PICK rank : rank = [i \in S |-> N + 2 - i]
  OBVIOUS
<1>3. PICK F : F = [i \in S |-> [f \in [S -> D] |-> HexFrom(str, i, f)]]
  OBVIOUS
<1>4. Ranks(rank, S, N + 2)
  BY <1>1, <1>2 DEF Ranks
<1>5. ASSUME NEW i \in S, NEW f \in [S -> D] PROVE HexFrom(str, i, f) \in D
  <2>1. CASE i > N
    BY <2>1 DEF HexFrom, Beyond
  <2>2. CASE i <= N
    <3>1. i + 1 \in S /\ i + 2 \in S /\ i # N + 1 /\ ~(i > N)
      BY <1>1, <2>2
    <3>2. f[i + 1] \in D /\ f[i + 2] \in D
      BY <3>1
    <3>3. PICK g : g = Group(str, i)
      OBVIOUS
    <3>4. g # <<>> => <<Number(g)>> \o f[i + 2] \in D
      BY <3>2, <3>3, GroupIs
    <3> QED
      BY <3>1, <3>2, <3>3, <3>4 DEF HexFrom
  <2> QED
    BY <1>1, <2>1, <2>2
<1>6. Rule(F, rank, S, D)
  <2>1. F \in [S -> [[S -> D] -> D]]
    BY <1>3, <1>5
  <2>2. ASSUME NEW i \in S, NEW f \in [S -> D], NEW h \in [S -> D], Alike(f, h, rank, S, rank[i])
        PROVE  HexFrom(str, i, f) = HexFrom(str, i, h)
    <3>1. CASE i > N
      BY <3>1, <1>1 DEF HexFrom
    <3>2. CASE i <= N
      <4>1. i + 1 \in S /\ i + 2 \in S /\ rank[i + 1] < rank[i] /\ rank[i + 2] < rank[i]
        BY <1>1, <1>2, <3>2
      <4>2. f[i + 1] = h[i + 1] /\ f[i + 2] = h[i + 2]
        BY <2>2, <4>1 DEF Alike
      <4> QED
        BY <4>2 DEF HexFrom
    <3> QED
      BY <1>1, <3>1, <3>2
  <2> QED
    BY <1>3, <2>1, <2>2 DEF Rule
<1>7. \E f : Eq(f)
  <2>1. PICK f \in [S -> D] : \A i \in S : f[i] = F[i][f]
    <3> HIDE DEF S, D, N, Eq
    <3> QED
      BY <1>1, <1>4, <1>6, Solved
  <2>2. \A i \in S : f[i] = HexFrom(str, i, f)
    BY <1>3, <2>1
  <2>3. Eq(f)
    BY <2>1, <2>2 DEF HexFrom
  <2> QED
    BY <2>3
<1> DEFINE u == CHOOSE f : Eq(f)
<1>8. Eq(u)
  <2> HIDE DEF Eq
  <2> QED
    BY <1>7
<1>9. HexstrToArray(str) = u[1]
  BY DEF HexstrToArray
<1> HIDE DEF u
<1>10. \A i \in S : u[i] = HexFrom(str, i, u)
  BY <1>8 DEF HexFrom
<1> QED
  BY <1>9, <1>10

------------------------------------------------------------------------------
(* Texts put together part by part.                                           *)

Parts(P, N, C) == N \in Nat /\ P \in [1..N -> Seq(C)]
Chain(out, P, N) == out[0] = <<>> /\ \A k \in 1..N : out[k] = out[k - 1] \o P[k]

\* There is a whole for any parts.
LEMMA Chained ==
    ASSUME NEW C, NEW N, NEW P, Parts(P, N, C)
    PROVE  \E out \in [0..N -> Seq(C)] : Chain(out, P, N)
<1> DEFINE S == 0..N
           D == Seq(C)
           Body(k, f) == IF k = 0 THEN <<>> ELSE f[k - 1] \o P[k]
<1>0. N \in Nat /\ \A k \in 1..N : P[k] \in Seq(C)
  BY DEF Parts
<1>01. <<>> \in D
  OBVIOUS
<1>1. PICK rank : rank = [k \in S |-> k]
  OBVIOUS
<1>2. PICK F : F = [k \in S |-> [f \in [S -> D] |-> Body(k, f)]]
  OBVIOUS
<1>3. Ranks(rank, S, N + 1)
  BY <1>0, <1>1 DEF Ranks
<1>4. Rule(F, rank, S, D)
  <2>1. ASSUME NEW k \in S, NEW f \in [S -> D] PROVE Body(k, f) \in D
    <3>1. CASE k = 0
      BY <3>1
    <3>2. CASE k # 0
      <4>1. k - 1 \in S /\ k \in 1..N
        BY <1>0, <3>2
      <4>2. f[k - 1] \in D /\ P[k] \in D
        BY <1>0, <4>1
      <4> QED
        BY <3>2, <4>2
    <3> QED
      BY <3>1, <3>2
  <2>2. F \in [S -> [[S -> D] -> D]]
    BY <1>2, <2>1
  <2>3. ASSUME NEW k \in S, NEW f \in [S -> D], NEW h \in [S -> D], Alike(f, h, rank, S, rank[k])
        PROVE  Body(k, f) = Body(k, h)
    <3>1. k # 0 => k - 1 \in S /\ rank[k - 1] < rank[k]
      BY <1>0, <1>1
    <3> QED
      BY <2>3, <3>1 DEF Alike
  <2> QED
    BY <1>2, <2>2, <2>3 DEF Rule
<1>5. PICK f \in [S -> D] : \A k \in S : f[k] = F[k][f]
  <2> HIDE DEF S, D, Body
  <2> QED
    BY <1>01, <1>3, <1>4, Solved
<1>6. \A k \in S : f[k] = Body(k, f)
  BY <1>2, <1>5
<1>7. Chain(f, P, N)
  <2>1. f[0] = <<>>
    <3>1. 0 \in S
      BY <1>0
    <3>2. f[0] = Body(0, f)
      BY <1>6, <3>1
    <3> QED
      BY <3>2
  <2>2. ASSUME NEW k \in 1..N PROVE f[k] = f[k - 1] \o P[k]
    BY <1>0, <1>6, k \in S, k # 0
  <2> QED
    BY <2>1, <2>2 DEF Chain
<1> QED
  BY <1>5, <1>7

\* Each part stands in the whole where the parts before it end.
Stands(out, P, N, k) ==
    /\ Len(out[k]) = Len(out[k - 1]) + Len(P[k])
    /\ Len(out[k]) <= Len(out[N])
    /\ \A j \in 1..Len(P[k]) : out[N][Len(out[k - 1]) + j] = P[k][j]

\* The whole is a text, and every part stands in it at its place.
LEMMA ChainStands ==
    ASSUME NEW C, NEW N, NEW P, Parts(P, N, C), NEW out, Chain(out, P, N)
    PROVE  /\ \A k \in 0..N : out[k] \in Seq(C)
           /\ \A k \in 1..N : Stands(out, P, N, k)
<1>0. N \in Nat /\ \A k \in 1..N : P[k] \in Seq(C)
  BY DEF Parts
<1>01. <<>> \in Seq(C)
  OBVIOUS
<1>1. \A k \in 0..N : out[k] \in Seq(C)
  <2> DEFINE G == {k \in Nat : k <= N => out[k] \in Seq(C)}
  <2>1. 0 \in G
    BY <1>0, <1>01 DEF Chain
  <2>2. ASSUME NEW k \in Nat, k \in G PROVE k + 1 \in G
    <3> SUFFICES ASSUME k + 1 <= N PROVE out[k + 1] \in Seq(C)
      OBVIOUS
    <3>1. k + 1 \in 1..N /\ (k + 1) - 1 = k /\ out[k] \in Seq(C) /\ P[k + 1] \in Seq(C)
      BY <1>0, <2>2
    <3>2. out[k + 1] = out[k] \o P[k + 1]
      BY <3>1 DEF Chain
    <3> QED
      BY <3>1, <3>2
  <2> HIDE DEF G
  <2>3. Nat \subseteq G
    BY <2>1, <2>2, Induct
  <2> QED
    BY <2>3 DEF G
<1>2. ASSUME NEW k \in 1..N
      PROVE  /\ Len(out[k]) = Len(out[k - 1]) + Len(P[k])
             /\ \A j \in 1..Len(out[k - 1]) : out[k][j] = out[k - 1][j]
             /\ \A j \in 1..Len(P[k]) : out[k][Len(out[k - 1]) + j] = P[k][j]
  <2>1. PICK s, p : s = out[k - 1] /\ p = P[k]
    OBVIOUS
  <2>2. k - 1 \in 0..N
    BY <1>0
  <2>3. s \in Seq(C) /\ p \in Seq(C)
    BY <1>0, <1>1, <2>1, <2>2
  <2>4. out[k] = s \o p
    BY <2>1 DEF Chain
  <2>5. /\ Len(s \o p) = Len(s) + Len(p)
        /\ \A j \in 1..Len(s) : (s \o p)[j] = s[j]
        /\ \A j \in 1..Len(p) : (s \o p)[Len(s) + j] = p[j]
    BY <2>3
  <2> QED
    BY <1>0, <2>1, <2>4, <2>5
\* what stands in one stays in those after it
<1>3. \A k \in 0..N : /\ Len(out[k]) <= Len(out[N])
                      /\ \A j \in 1..Len(out[k]) : out[N][j] = out[k][j]
  <2> DEFINE Kept(k) == /\ Len(out[k]) <= Len(out[N])
                        /\ \A j \in 1..Len(out[k]) : out[N][j] = out[k][j]
             G == {m \in Nat : m <= N => Kept(N - m)}
  <2>1. 0 \in G
    BY <1>0, <1>1
  <2>2. ASSUME NEW m \in Nat, m \in G PROVE m + 1 \in G
    <3> SUFFICES ASSUME m + 1 <= N PROVE Kept(N - (m + 1))
      OBVIOUS
    <3>1. PICK k : k = N - m
      OBVIOUS
    <3>2. k \in 1..N /\ k - 1 = N - (m + 1) /\ Kept(k)
      BY <1>0, <2>2, <3>1
    <3>3. Len(out[k - 1]) \in Nat /\ Len(out[k]) \in Nat /\ Len(out[N]) \in Nat /\ Len(P[k]) \in Nat
      BY <1>0, <1>1, <3>2
    <3>4. PICK x, y, p : x = Len(out[k - 1]) /\ y = Len(out[k]) /\ p = Len(P[k])
      OBVIOUS
    <3>5. /\ x \in Nat /\ p \in Nat /\ y = x + p /\ y <= Len(out[N])
          /\ \A j \in 1..x : out[k][j] = out[k - 1][j]
          /\ \A j \in 1..y : out[N][j] = out[k][j]
      BY <1>2, <3>2, <3>3, <3>4
    <3>6. x <= Len(out[N]) /\ \A j \in 1..x : out[N][j] = out[k - 1][j]
      BY <3>3, <3>5
    <3>7. Kept(k - 1)
      BY <3>4, <3>6
    <3> QED
      BY <3>2, <3>7
  <2> HIDE DEF G
  <2>3. Nat \subseteq G
    BY <2>1, <2>2, Induct
  <2>4. ASSUME NEW k \in 0..N PROVE Kept(k)
    <3>1. N - k \in Nat /\ N - k <= N /\ N - (N - k) = k
      BY <1>0
    <3>2. N - k \in G
      BY <2>3, <3>1
    <3> QED
      BY <3>1, <3>2 DEF G
  <2> QED
    BY <2>4
<1>4. ASSUME NEW k \in 1..N PROVE Stands(out, P, N, k)
  <2>1. PICK x, y, p : x = Len(out[k - 1]) /\ y = Len(out[k]) /\ p = Len(P[k])
    OBVIOUS
  <2>2. k \in 0..N /\ k - 1 \in 0..N
    BY <1>0
  <2>3. x \in Nat /\ p \in Nat
    BY <1>0, <1>1, <2>1, <2>2
  <2>4. /\ y = x + p /\ y <= Len(out[N])
        /\ \A j \in 1..p : out[k][x + j] = P[k][j]
        /\ \A j \in 1..y : out[N][j] = out[k][j]
    BY <1>2, <1>3, <2>1, <2>2
  <2>5. \A j \in 1..p : out[N][x + j] = P[k][j]
    BY <2>3, <2>4
  <2> QED
    BY <2>1, <2>4, <2>5 DEF Stands
<1> QED
  BY <1>1, <1>4

\* What a sequence is.
LEMMA SeqIs ==
    ASSUME NEW C, NEW s \in Seq(C)
    PROVE  Len(s) \in Nat /\ s \in [1..Len(s) -> C] /\ \A k \in 1..Len(s) : s[k] \in C
OBVIOUS

\* Short ones.
LEMMA ShortSeqs ==
    ASSUME NEW C
    PROVE  /\ <<>> \in Seq(C)
           /\ \A x \in C : <<x>> \in Seq(C)
           /\ \A x, y \in C : <<x, y>> \in Seq(C)
OBVIOUS

\* Digits, blanks and the marks of hexadecimal.
Signs == {Digits[v + 1] : v \in 0..15} \cup {UpperDigits[v + 1] : v \in 0..15}
             \cup {"0", "x", "X", Blank}

\* The marks and the gaps of the formats.
LEMMA FormatIs ==
    ASSUME NEW fmt \in Formats
    PROVE  /\ Prefix(fmt) = <<>> \/ Prefix(fmt) = <<"0", "x">> \/ Prefix(fmt) = <<"0", "X">>
           /\ Gap(fmt) = <<>> \/ Gap(fmt) = <<Blank>>
BY DEF Formats, Prefix, Gap

\* A byte is shown as its two digits behind what the format puts in front.
LEMMA ShownIs ==
    ASSUME NEW byte \in 0..255, NEW fmt \in Formats
    PROVE  \E x, y \in Signs : /\ Shown(byte, fmt) = Prefix(fmt) \o <<x, y>>
                               /\ IsHexDigit(x) /\ IsHexDigit(y)
                               /\ 16 * _ToHexChar(x) + _ToHexChar(y) = byte
<1>1. PICK a, b : a = byte \div 16 /\ b = byte % 16
  OBVIOUS
<1>2. a \in 0..15 /\ b \in 0..15 /\ 16 * a + b = byte
  BY <1>1
<1>3. PICK digits : digits = IF fmt \in {4, 5, 6} THEN UpperDigits ELSE Digits
  OBVIOUS
<1>4. PICK x, y : x = digits[a + 1] /\ y = digits[b + 1]
  OBVIOUS
<1>5. Shown(byte, fmt) = Prefix(fmt) \o <<x, y>>
  BY <1>1, <1>3, <1>4 DEF Shown
<1>6. /\ x \in Signs /\ IsHexDigit(x) /\ _ToHexChar(x) = a
      /\ y \in Signs /\ IsHexDigit(y) /\ _ToHexChar(y) = b
  BY <1>2, <1>3, <1>4, DigitIs DEF Signs
<1> QED
  BY <1>2, <1>5, <1>6

\* The text is put together byte by byte.
HexPart(bytes, fmt, k) ==
    Shown(bytes[k], fmt) \o (IF k = Len(bytes) THEN <<>> ELSE Gap(fmt))

\* ArrayToString puts the bytes together, part by part.
LEMMA Written ==
    ASSUME NEW bytes \in Seq(0..255), NEW fmt \in Formats
    PROVE  \E out, P : /\ ArrayToString(bytes, fmt) = out[Len(bytes)]
                       /\ Parts(P, Len(bytes), Signs) /\ Chain(out, P, Len(bytes))
                       /\ \A k \in 1..Len(bytes) : P[k] = HexPart(bytes, fmt, k)
<1> DEFINE N == Len(bytes)
           Eq(f) == f = [k \in 0..Len(bytes) |->
                IF k = 0 THEN <<>>
                ELSE f[k - 1] \o Shown(bytes[k], fmt)
                              \o (IF k = Len(bytes) THEN <<>> ELSE Gap(fmt))]
<1>1. N \in Nat /\ \A k \in 1..N : bytes[k] \in 0..255
  BY SeqIs
<1>01. {"0", "x", "X", Blank} \subseteq Signs
  BY DEF Signs
<1>2. \A k \in 1..N : Shown(bytes[k], fmt) \in Seq(Signs)
  <2>1. Prefix(fmt) \in Seq(Signs)
    BY <1>01, FormatIs, ShortSeqs
  <2>2. ASSUME NEW k \in 1..N PROVE Shown(bytes[k], fmt) \in Seq(Signs)
    <3>1. PICK x, y \in Signs : Shown(bytes[k], fmt) = Prefix(fmt) \o <<x, y>>
      BY <1>1, ShownIs
    <3>2. <<x, y>> \in Seq(Signs)
      BY ShortSeqs
    <3> QED
      BY <2>1, <3>1, <3>2
  <2> QED
    BY <2>2
<1>3. Gap(fmt) \in Seq(Signs) /\ <<>> \in Seq(Signs)
  BY <1>01, FormatIs, ShortSeqs
<1>4. PICK P : P = [k \in 1..N |-> HexPart(bytes, fmt, k)]
  OBVIOUS
<1>5. Parts(P, N, Signs)
  BY <1>1, <1>2, <1>3, <1>4 DEF Parts, HexPart
<1>6. \E f : Eq(f)
  <2>1. PICK f \in [0..N -> Seq(Signs)] : Chain(f, P, N)
    BY <1>5, Chained
  <2>2. ASSUME NEW k \in 0..N, k # 0
        PROVE  f[k] = f[k - 1] \o Shown(bytes[k], fmt)
                               \o (IF k = Len(bytes) THEN <<>> ELSE Gap(fmt))
    <3>1. k \in 1..N /\ k - 1 \in 0..N
      BY <1>1, <2>2
    <3>2. PICK s, p, g : s = f[k - 1] /\ p = Shown(bytes[k], fmt)
                         /\ g = (IF k = Len(bytes) THEN <<>> ELSE Gap(fmt))
      OBVIOUS
    <3>3. s \in Seq(Signs) /\ p \in Seq(Signs) /\ g \in Seq(Signs)
      BY <1>2, <1>3, <2>1, <3>1, <3>2
    <3>4. f[k] = s \o (p \o g)
      BY <1>4, <2>1, <3>1, <3>2 DEF Chain, HexPart
    <3>5. s \o (p \o g) = s \o p \o g
      BY <3>3
    <3> QED
      BY <3>2, <3>4, <3>5
  <2>3. f[0] = <<>>
    BY <2>1 DEF Chain
  <2>4. Eq(f)
    BY <2>1, <2>2, <2>3
  <2> QED
    BY <2>4
<1> DEFINE u == CHOOSE f : Eq(f)
<1>7. Eq(u)
  <2> HIDE DEF Eq
  <2> QED
    BY <1>6
<1>8. ArrayToString(bytes, fmt) = u[N]
  BY DEF ArrayToString
<1> HIDE DEF u
<1>9. u[0] = <<>>
  BY <1>1, <1>7
<1>10. \A k \in 1..N : u[k] = u[k - 1] \o Shown(bytes[k], fmt)
                              \o (IF k = Len(bytes) THEN <<>> ELSE Gap(fmt))
  <2>1. ASSUME NEW k \in 1..N
        PROVE  u[k] = u[k - 1] \o Shown(bytes[k], fmt)
                              \o (IF k = Len(bytes) THEN <<>> ELSE Gap(fmt))
    <3>1. k \in 0..Len(bytes) /\ k # 0
      BY <1>1
    <3> HIDE DEF N
    <3> QED
      BY <1>7, <3>1
  <2> QED
    BY <2>1
<1> HIDE DEF Eq
<1>11. \A k \in 0..N : u[k] \in Seq(Signs)
  <2> DEFINE G == {k \in Nat : k <= N => u[k] \in Seq(Signs)}
  <2>1. 0 \in G
    BY <1>3, <1>9
  <2>2. ASSUME NEW k \in Nat, k \in G PROVE k + 1 \in G
    <3> SUFFICES ASSUME k + 1 <= N PROVE u[k + 1] \in Seq(Signs)
      OBVIOUS
    <3> HIDE DEF N
    <3>1. k + 1 \in 1..N /\ (k + 1) - 1 = k /\ u[k] \in Seq(Signs)
      BY <1>1, <2>2
    <3>2. u[k + 1] = u[k] \o Shown(bytes[k + 1], fmt)
                          \o (IF k + 1 = Len(bytes) THEN <<>> ELSE Gap(fmt))
      BY <1>10, <3>1
    <3> QED
      BY <1>2, <1>3, <3>1, <3>2
  <2> HIDE DEF G
  <2>3. Nat \subseteq G
    BY <2>1, <2>2, Induct
  <2> QED
    BY <2>3 DEF G
<1>12. Chain(u, P, N)
  <2>1. ASSUME NEW k \in 1..N PROVE u[k] = u[k - 1] \o P[k]
    <3> HIDE DEF N
    <3>1. k - 1 \in 0..N
      BY <1>1
    <3>2. PICK s, p, g : s = u[k - 1] /\ p = Shown(bytes[k], fmt)
                         /\ g = (IF k = Len(bytes) THEN <<>> ELSE Gap(fmt))
      OBVIOUS
    <3>3. s \in Seq(Signs) /\ p \in Seq(Signs) /\ g \in Seq(Signs)
      BY <1>2, <1>3, <1>11, <3>1, <3>2
    <3>4. u[k] = s \o p \o g /\ P[k] = p \o g
      BY <1>4, <1>10, <3>2 DEF HexPart
    <3>5. s \o (p \o g) = s \o p \o g
      BY <3>3
    <3> QED
      BY <3>2, <3>4, <3>5
  <2> QED
    BY <1>9, <2>1 DEF Chain
<1> QED
  BY <1>4, <1>5, <1>8, <1>12

\* Two digits are read as a byte; a blank and a mark are passed over.
LEMMA ReadsSigns ==
    ASSUME NEW str \in Seq(Signs), NEW i \in 1..Len(str), NEW f
    PROVE  /\ i + 1 <= Len(str) /\ IsHexDigit(str[i]) /\ IsHexDigit(str[i + 1]) =>
                  HexFrom(str, i, f) =
                      <<16 * _ToHexChar(str[i]) + _ToHexChar(str[i + 1])>> \o f[i + 2]
           /\ i + 1 <= Len(str) /\ str[i] = "0" /\ str[i + 1] \in {"x", "X"} =>
                  HexFrom(str, i, f) = f[i + 2]
           /\ str[i] = Blank => HexFrom(str, i, f) = f[i + 1]
<1>1. i # Len(str) + 1 /\ ~(i > Len(str)) /\ Len(str) \in Nat
  OBVIOUS
<1>2. ASSUME i + 1 <= Len(str), IsHexDigit(str[i]), IsHexDigit(str[i + 1])
      PROVE  HexFrom(str, i, f) =
                 <<16 * _ToHexChar(str[i]) + _ToHexChar(str[i + 1])>> \o f[i + 2]
  <2>1. ~IsHexMark(str, i)
    BY <1>2, NoDigits DEF IsHexMark
  <2>2. PICK x, y : x = _ToHexChar(str[i]) /\ y = _ToHexChar(str[i + 1])
    OBVIOUS
  <2>3. i # Len(str)
    BY <1>1, <1>2
  <2>4. Group(str, i) = <<x, y>>
    BY <1>2, <2>2, <2>3 DEF Group
  <2>5. x \in 0..15 /\ y \in 0..15
    BY <1>2, <2>2 DEF IsHexDigit, _ToHexChar
  <2>6. <<x, y>> # <<>> /\ Number(<<x, y>>) = 16 * x + y
    BY <2>5 DEF Number
  <2>7. HexFrom(str, i, f) = <<Number(<<x, y>>)>> \o f[i + 2]
    BY <1>1, <2>1, <2>4, <2>6 DEF HexFrom
  <2> QED
    BY <2>2, <2>6, <2>7
<1>3. ASSUME i + 1 <= Len(str), str[i] = "0", str[i + 1] \in {"x", "X"}
      PROVE  HexFrom(str, i, f) = f[i + 2]
  <2>1. IsHexMark(str, i)
    BY <1>1, <1>3 DEF IsHexMark
  <2> QED
    BY <1>1, <2>1 DEF HexFrom
<1>4. ASSUME str[i] = Blank PROVE HexFrom(str, i, f) = f[i + 1]
  <2>0. Blank # "0"
    BY DEF Blank
  <2>1. ~IsHexMark(str, i) /\ Group(str, i) = <<>>
    BY <1>4, <2>0, NoDigits DEF IsHexMark, Group
  <2> QED
    BY <1>1, <2>1 DEF HexFrom
<1> QED
  BY <1>2, <1>3, <1>4

\* f says what is read from each place on; p stands in the text behind o.
Reading(str, f) == \A i \in 1..(Len(str) + 2) : f[i] = HexFrom(str, i, f)
StandsAt(str, o, p) == o + Len(p) <= Len(str) /\ \A j \in 1..Len(p) : str[o + j] = p[j]

\* Two digits are a byte.
LEMMA ReadsDigits ==
    ASSUME NEW str \in Seq(Signs), NEW f, Reading(str, f), NEW i \in Nat, NEW j \in Nat, NEW k \in Nat,
           i >= 1, j = i + 1, k = i + 2, j <= Len(str),
           IsHexDigit(str[i]), IsHexDigit(str[j])
    PROVE  f[i] = <<16 * _ToHexChar(str[i]) + _ToHexChar(str[j])>> \o f[k]
<1>1. Len(str) \in Nat
  OBVIOUS
<1>2. i \in 1..Len(str) /\ i \in 1..(Len(str) + 2)
  BY <1>1
<1>3. f[i] = HexFrom(str, i, f)
  BY <1>2 DEF Reading
<1> QED
  BY <1>2, <1>3, ReadsSigns

\* 0x is passed over.
LEMMA ReadsMark ==
    ASSUME NEW str \in Seq(Signs), NEW f, Reading(str, f), NEW i \in Nat, NEW j \in Nat, NEW k \in Nat,
           i >= 1, j = i + 1, k = i + 2, j <= Len(str), str[i] = "0", str[j] \in {"x", "X"}
    PROVE  f[i] = f[k]
<1>1. Len(str) \in Nat
  OBVIOUS
<1>2. i \in 1..Len(str) /\ i \in 1..(Len(str) + 2)
  BY <1>1
<1>3. f[i] = HexFrom(str, i, f)
  BY <1>2 DEF Reading
<1> QED
  BY <1>2, <1>3, ReadsSigns

\* A blank is passed over.
LEMMA ReadsBlank ==
    ASSUME NEW str \in Seq(Signs), NEW f, Reading(str, f), NEW i \in Nat, NEW j \in Nat,
           i >= 1, j = i + 1, i <= Len(str), str[i] = Blank
    PROVE  f[i] = f[j]
<1>1. Len(str) \in Nat
  OBVIOUS
<1>2. i \in 1..Len(str) /\ i \in 1..(Len(str) + 2)
  BY <1>1
<1>3. f[i] = HexFrom(str, i, f)
  BY <1>2 DEF Reading
<1> QED
  BY <1>2, <1>3, ReadsSigns

\* The digits of a byte are read, wherever the text has them.
Pair(x, y, byte) == IsHexDigit(x) /\ IsHexDigit(y) /\ 16 * _ToHexChar(x) + _ToHexChar(y) = byte

\* What the format puts behind a byte is passed over ...
LEMMA ReadsGap ==
    ASSUME NEW str \in Seq(Signs), NEW f, Reading(str, f), NEW o \in Nat, NEW g, StandsAt(str, o, g),
           g = <<>> \/ g = <<Blank>>
    PROVE  f[o + 1] = f[o + Len(g) + 1]
<1>1. CASE g = <<>>
  BY <1>1
<1>2. CASE g = <<Blank>>
  <2>1. Len(g) = 1 /\ g[1] = Blank /\ 1 \in 1..1
    BY <1>2
  <2>2. o + 1 <= Len(str) /\ str[o + 1] = Blank
    BY <2>1 DEF StandsAt
  <2>3. PICK i \in Nat, j \in Nat : i = o + 1 /\ j = i + 1 /\ i >= 1 /\ j = o + Len(g) + 1
    BY <2>1
  <2>4. i <= Len(str) /\ str[i] = Blank
    BY <2>2, <2>3
  <2>5. f[i] = f[j]
    BY <2>3, <2>4, ReadsBlank
  <2> QED
    BY <2>3, <2>5
<1> QED
  BY <1>1, <1>2

\* ... and what it puts before one.
LEMMA ReadsPrefix ==
    ASSUME NEW str \in Seq(Signs), NEW f, Reading(str, f), NEW o \in Nat, NEW h, StandsAt(str, o, h),
           h = <<>> \/ h = <<"0", "x">> \/ h = <<"0", "X">>
    PROVE  f[o + 1] = f[o + Len(h) + 1]
<1>1. CASE h = <<>>
  BY <1>1
<1>2. CASE h # <<>>
  <2>1. Len(h) = 2 /\ h[1] = "0" /\ h[2] \in {"x", "X"} /\ 1 \in 1..2 /\ 2 \in 1..2
    BY <1>2
  <2>2. o + 2 <= Len(str) /\ str[o + 1] = "0" /\ str[o + 2] \in {"x", "X"}
    BY <2>1 DEF StandsAt
  <2>3. PICK i \in Nat, j \in Nat, k \in Nat :
            i = o + 1 /\ j = i + 1 /\ k = i + 2 /\ j = o + 2 /\ i >= 1 /\ k = o + Len(h) + 1
    BY <2>1
  <2>4. j <= Len(str) /\ str[i] = "0" /\ str[j] \in {"x", "X"}
    BY <2>2, <2>3
  <2>5. f[i] = f[k]
    BY <2>3, <2>4, ReadsMark
  <2> QED
    BY <2>3, <2>5
<1> QED
  BY <1>1, <1>2

\* A byte is read from the two digits that stand for it.
LEMMA ReadsPair ==
    ASSUME NEW str \in Seq(Signs), NEW f, Reading(str, f), NEW o \in Nat, NEW x, NEW y, NEW byte,
           StandsAt(str, o, <<x, y>>), Pair(x, y, byte)
    PROVE  f[o + 1] = <<byte>> \o f[o + 3]
<1>1. Len(<<x, y>>) = 2 /\ <<x, y>>[1] = x /\ <<x, y>>[2] = y /\ 1 \in 1..2 /\ 2 \in 1..2
  OBVIOUS
<1>2. o + 2 <= Len(str) /\ str[o + 1] = x /\ str[o + 2] = y
  BY <1>1 DEF StandsAt
<1>3. PICK i \in Nat, j \in Nat, k \in Nat :
          i = o + 1 /\ j = i + 1 /\ k = i + 2 /\ j = o + 2 /\ i >= 1 /\ k = o + 3
  OBVIOUS
<1>4. j <= Len(str) /\ str[i] = x /\ str[j] = y
  BY <1>2, <1>3
<1>5. f[i] = <<16 * _ToHexChar(str[i]) + _ToHexChar(str[j])>> \o f[k]
  BY <1>3, <1>4, ReadsDigits DEF Pair
<1> QED
  BY <1>3, <1>4, <1>5 DEF Pair

\* What stands in a text, stands there part by part.
LEMMA StandsParts ==
    ASSUME NEW C, NEW str \in Seq(C), NEW o \in Nat, NEW s \in Seq(C), NEW p \in Seq(C),
           StandsAt(str, o, s \o p)
    PROVE  StandsAt(str, o, s) /\ StandsAt(str, o + Len(s), p)
<1>1. PICK m \in Nat, n \in Nat, l \in Nat : m = Len(s) /\ n = Len(p) /\ l = Len(str)
  OBVIOUS
<1>2. /\ Len(s \o p) = m + n
      /\ \A j \in 1..m : (s \o p)[j] = s[j]
      /\ \A j \in 1..n : (s \o p)[m + j] = p[j]
  BY <1>1
<1>3. o + (m + n) <= l /\ \A j \in 1..(m + n) : str[o + j] = (s \o p)[j]
  BY <1>1, <1>2 DEF StandsAt
<1>4. StandsAt(str, o, s)
  <2>1. \A j \in 1..m : j \in 1..(m + n)
    OBVIOUS
  <2> QED
    BY <1>1, <1>2, <1>3, <2>1 DEF StandsAt
<1>5. StandsAt(str, o + Len(s), p)
  <2>1. ASSUME NEW j \in 1..n PROVE str[(o + m) + j] = p[j]
    <3>1. PICK q : q = m + j /\ q \in 1..(m + n) /\ o + q = (o + m) + j
      OBVIOUS
    <3> QED
      BY <1>2, <1>3, <3>1
  <2>2. (o + m) + n <= l
    BY <1>3
  <2> QED
    BY <1>1, <2>1, <2>2 DEF StandsAt
<1> QED
  BY <1>4, <1>5

\* A byte, as it stands in a text, is read, and the reading goes on behind it.
ByteAt(str, f, o, byte, fmt, g, p) ==
    /\ str \in Seq(Signs) /\ Reading(str, f) /\ o \in Nat /\ byte \in 0..255 /\ fmt \in Formats
    /\ g = <<>> \/ g = <<Blank>>
    /\ p = Shown(byte, fmt) \o g /\ StandsAt(str, o, p)
ByteRead(f, o, byte, p) == f[o + 1] = <<byte>> \o f[o + Len(p) + 1]

\* A byte is read behind its mark, and the gap behind it is passed over.
LEMMA ReadsByte ==
    ASSUME NEW str, NEW f, NEW o, NEW byte, NEW fmt, NEW g, NEW p,
           ByteAt(str, f, o, byte, fmt, g, p)
    PROVE  ByteRead(f, o, byte, p)
<1>0. /\ str \in Seq(Signs) /\ Reading(str, f) /\ o \in Nat /\ byte \in 0..255 /\ fmt \in Formats
      /\ g = <<>> \/ g = <<Blank>>
      /\ p = Shown(byte, fmt) \o g /\ StandsAt(str, o, p)
  BY DEF ByteAt
<1>1. PICK x, y \in Signs : Shown(byte, fmt) = Prefix(fmt) \o <<x, y>> /\ Pair(x, y, byte)
  BY <1>0, ShownIs DEF Pair
<1>2. PICK h : h = Prefix(fmt) /\ (h = <<>> \/ h = <<"0", "x">> \/ h = <<"0", "X">>)
  BY <1>0, FormatIs
<1>3. h \in Seq(Signs) /\ g \in Seq(Signs) /\ <<x, y>> \in Seq(Signs)
  <2>1. {"0", "x", "X", Blank} \subseteq Signs
    BY DEF Signs
  <2> QED
    BY <1>0, <1>2, <2>1, ShortSeqs
<1>4. PICK d, s : d = <<x, y>> /\ s = h \o d
  OBVIOUS
<1>5. PICK m, n, l : m = Len(h) /\ n = Len(g) /\ l = Len(s)
  OBVIOUS
<1>6. d \in Seq(Signs) /\ Len(d) = 2 /\ s \in Seq(Signs)
  BY <1>0, <1>3, <1>4
<1>60. m \in Nat /\ n \in Nat /\ l = m + 2
  BY <1>0, <1>3, <1>4, <1>5, <1>6
<1>61. p = s \o g
  BY <1>0, <1>1, <1>2, <1>3, <1>4, <1>6
<1>62. Len(p) = l + n
  BY <1>0, <1>3, <1>5, <1>6, <1>61
<1>7. StandsAt(str, o, s) /\ StandsAt(str, o + Len(s), g)
  BY <1>0, <1>3, <1>6, <1>61, StandsParts
<1>8. StandsAt(str, o, h) /\ StandsAt(str, o + Len(h), d)
  BY <1>0, <1>3, <1>4, <1>6, <1>7, StandsParts
<1>9. PICK a, b : a = o + m /\ b = o + l
  OBVIOUS
<1>90. a \in Nat /\ b \in Nat /\ b + 1 = a + 3 /\ b + n + 1 = o + (l + n) + 1
  BY <1>0, <1>60, <1>9
<1>10. f[o + 1] = f[a + 1]
  <2>1. f[o + 1] = f[o + Len(h) + 1]
    BY <1>0, <1>2, <1>8, ReadsPrefix
  <2> QED
    BY <1>0, <1>5, <1>9, <2>1
<1>11. f[a + 1] = <<byte>> \o f[a + 3]
  <2>1. StandsAt(str, a, <<x, y>>)
    BY <1>0, <1>4, <1>5, <1>8, <1>9
  <2> QED
    BY <1>0, <1>1, <1>90, <2>1, ReadsPair
<1>12. f[b + 1] = f[b + n + 1]
  <2>1. StandsAt(str, b, g)
    BY <1>0, <1>5, <1>7, <1>9
  <2>2. f[b + 1] = f[b + Len(g) + 1]
    BY <1>0, <1>90, <2>1, ReadsGap
  <2> QED
    BY <1>0, <1>5, <2>2
<1> QED
  BY <1>0, <1>10, <1>11, <1>12, <1>62, <1>90 DEF ByteRead

\* The end of a sequence, one longer.
LEMMA TailGrows ==
    ASSUME NEW C, NEW s \in Seq(C), NEW k \in 1..Len(s)
    PROVE  <<s[k]>> \o SubSeq(s, k + 1, Len(s)) = SubSeq(s, k, Len(s))
OBVIOUS

\* What AddValue writes of some bytes, GetValue reads as these bytes, whatever
\* their number and the format: the claim of SimpleXmlMaker.h.
THEOREM HexRoundTripHolds == \A bytes \in Seq(0..255), fmt \in Formats : HexRoundTrip(bytes, fmt)
<1> SUFFICES ASSUME NEW bytes \in Seq(0..255), NEW fmt \in Formats PROVE HexRoundTrip(bytes, fmt)
  OBVIOUS
<1>1. PICK N : N = Len(bytes) /\ N \in Nat /\ \A k \in 1..N : bytes[k] \in 0..255
  BY SeqIs
<1>2. PICK out, P : /\ ArrayToString(bytes, fmt) = out[N]
                    /\ Parts(P, N, Signs) /\ Chain(out, P, N)
                    /\ \A k \in 1..N : P[k] = HexPart(bytes, fmt, k)
  BY <1>1, Written
<1>3. PICK str : str = out[N]
  OBVIOUS
<1>4. /\ \A k \in 0..N : out[k] \in Seq(Signs) /\ Len(out[k]) \in Nat
      /\ \A k \in 1..N : Stands(out, P, N, k)
  BY <1>2, ChainStands
<1>5. str \in Seq(Signs) /\ Len(str) \in Nat /\ Len(str) = Len(out[N])
  BY <1>1, <1>3, <1>4
<1>6. PICK f : /\ HexstrToArray(str) = f[1]
               /\ Reading(str, f)
  BY <1>5, HexReads DEF Reading
<1>7. ASSUME NEW k \in 1..N PROVE f[Len(out[k - 1]) + 1] = <<bytes[k]>> \o f[Len(out[k]) + 1]
  <2>1. PICK o, p : o = Len(out[k - 1]) /\ p = P[k]
    OBVIOUS
  <2>2. k - 1 \in 0..N
    BY <1>1
  <2>3. PICK g : g = (IF k = N THEN <<>> ELSE Gap(fmt)) /\ (g = <<>> \/ g = <<Blank>>)
    BY FormatIs
  <2>4. o \in Nat /\ p = Shown(bytes[k], fmt) \o g /\ bytes[k] \in 0..255
    BY <1>1, <1>2, <1>4, <2>1, <2>2, <2>3 DEF HexPart
  <2>5. Len(out[k]) = o + Len(p) /\ StandsAt(str, o, p)
    BY <1>3, <1>4, <2>1 DEF Stands, StandsAt
  <2>6. f[o + 1] = <<bytes[k]>> \o f[o + Len(p) + 1]
    <3>1. g = <<>> \/ g = <<Blank>>
      BY <2>3
    <3>2. PICK byte : byte = bytes[k]
      OBVIOUS
    <3>3. p = Shown(byte, fmt) \o g /\ o \in Nat /\ StandsAt(str, o, p)
      BY <2>4, <2>5, <3>2
    <3>4. str \in Seq(Signs) /\ Reading(str, f)
      BY <1>5, <1>6
    <3>5. ByteAt(str, f, o, byte, fmt, g, p)
      BY <2>4, <3>1, <3>2, <3>3, <3>4 DEF ByteAt
    <3>6. ByteRead(f, o, byte, p)
      BY <3>5, ReadsByte
    <3> QED
      BY <3>2, <3>6 DEF ByteRead
  <2> QED
    BY <2>1, <2>5, <2>6
<1>8. f[Len(out[N]) + 1] = <<>>
  <2>1. PICK i : i = Len(str) + 1
    OBVIOUS
  <2>11. i \in 1..(Len(str) + 2)
    BY <1>5, <2>1
  <2>2. f[i] = HexFrom(str, i, f)
    BY <1>6, <2>11 DEF Reading
  <2> QED
    BY <1>5, <2>1, <2>2 DEF HexFrom
<1>9. \A k \in 0..N : f[Len(out[k]) + 1] = SubSeq(bytes, k + 1, N)
  <2> DEFINE Rest(k) == f[Len(out[k]) + 1] = SubSeq(bytes, k + 1, N)
             G == {m \in Nat : m <= N => Rest(N - m)}
  <2>1. 0 \in G
    <3>1. SubSeq(bytes, N + 1, N) = <<>> /\ N - 0 = N
      BY <1>1
    <3>2. Rest(N)
      BY <1>8, <3>1
    <3> QED
      BY <3>1, <3>2
  <2>2. ASSUME NEW m \in Nat, m \in G PROVE m + 1 \in G
    <3> SUFFICES ASSUME m + 1 <= N PROVE Rest(N - (m + 1))
      OBVIOUS
    <3>1. PICK k : k = N - m
      OBVIOUS
    <3>2. k \in 1..N /\ k - 1 = N - (m + 1) /\ Rest(k) /\ (k - 1) + 1 = k
      BY <1>1, <2>2, <3>1
    <3>3. <<bytes[k]>> \o SubSeq(bytes, k + 1, N) = SubSeq(bytes, k, N)
      BY <1>1, <3>2, TailGrows
    <3>4. Rest(k - 1)
      BY <1>7, <3>2, <3>3
    <3> QED
      BY <3>2, <3>4
  <2> HIDE DEF G
  <2>3. Nat \subseteq G
    BY <2>1, <2>2, Induct
  <2>4. ASSUME NEW k \in 0..N PROVE Rest(k)
    <3>1. N - k \in Nat /\ N - k <= N /\ N - (N - k) = k
      BY <1>1
    <3>2. N - k \in G
      BY <2>3, <3>1
    <3> QED
      BY <3>1, <3>2 DEF G
  <2> QED
    BY <2>4
<1>10. out[0] = <<>> /\ Len(<<>>) = 0 /\ SubSeq(bytes, 1, N) = bytes
  BY <1>1, <1>2 DEF Chain
<1>11. f[1] = bytes
  <2>1. 0 \in 0..N /\ 0 + 1 = 1
    BY <1>1
  <2>2. f[Len(out[0]) + 1] = SubSeq(bytes, 0 + 1, N)
    BY <1>9, <2>1
  <2> QED
    BY <1>10, <2>1, <2>2
<1> QED
  BY <1>2, <1>3, <1>6, <1>11 DEF HexRoundTrip

------------------------------------------------------------------------------
(* Texts split at a separator and put together again.                         *)

\* The least of a set of numbers.
LEMMA FirstIs ==
    ASSUME NEW T, T \subseteq Nat, T # {}
    PROVE  First(T) \in T /\ \A y \in T : First(T) <= y
BY Least DEF First

\* A part of a sequence.
LEMMA SubSeqIs ==
    ASSUME NEW C, NEW s \in Seq(C), NEW i \in 1..(Len(s) + 1), NEW j \in 0..Len(s), i <= j + 1
    PROVE  /\ SubSeq(s, i, j) \in Seq(C)
           /\ Len(SubSeq(s, i, j)) = j + 1 - i
           /\ \A k \in 1..(j + 1 - i) : SubSeq(s, i, j)[k] = s[i + k - 1]
OBVIOUS

\* Two sequences with the same elements are the same.
LEMMA SameSeq ==
    ASSUME NEW C, NEW s \in Seq(C), NEW t \in Seq(C), Len(s) = Len(t),
           \A k \in 1..Len(s) : s[k] = t[k]
    PROVE  s = t
OBVIOUS

\* Two texts, one behind the other.
LEMMA JoinSeqs ==
    ASSUME NEW C, NEW s \in Seq(C), NEW t \in Seq(C)
    PROVE  /\ s \o t \in Seq(C)
           /\ Len(s \o t) = Len(s) + Len(t)
           /\ \A k \in 1..Len(s) : (s \o t)[k] = s[k]
           /\ \A k \in 1..Len(t) : (s \o t)[Len(s) + k] = t[k]
           /\ <<>> \o t = t /\ s \o <<>> = s
OBVIOUS

\* Texts can be put together in either order.
LEMMA JoinThree ==
    ASSUME NEW C, NEW s \in Seq(C), NEW t \in Seq(C), NEW u \in Seq(C)
    PROVE  (s \o t) \o u = s \o (t \o u)
OBVIOUS

\* A text, cut in two.
LEMMA CutInTwo ==
    ASSUME NEW C, NEW s \in Seq(C), NEW i \in 1..(Len(s) + 1), NEW j \in 0..Len(s), i <= j + 1
    PROVE  SubSeq(s, i, j) \o SubSeq(s, j + 1, Len(s)) = SubSeq(s, i, Len(s))
<1>1. PICK N, m, a, b, t : /\ N = Len(s) /\ m = j + 1 /\ a = SubSeq(s, i, j)
                           /\ b = SubSeq(s, m, N) /\ t = SubSeq(s, i, N)
  OBVIOUS
<1>2. N \in Nat /\ m \in 1..(N + 1) /\ N \in 0..N /\ m <= N + 1 /\ i <= N + 1 /\ i \in Nat
  BY <1>1, SeqIs
<1>3. /\ a \in Seq(C) /\ Len(a) = m - i /\ \A k \in 1..(m - i) : a[k] = s[i + k - 1]
      /\ b \in Seq(C) /\ Len(b) = N + 1 - m /\ \A k \in 1..(N + 1 - m) : b[k] = s[m + k - 1]
      /\ t \in Seq(C) /\ Len(t) = N + 1 - i /\ \A k \in 1..(N + 1 - i) : t[k] = s[i + k - 1]
  BY <1>1, <1>2, SubSeqIs
<1>4. PICK c : c = a \o b
  OBVIOUS
<1>5. /\ c \in Seq(C) /\ Len(c) = N + 1 - i
      /\ \A k \in 1..(m - i) : c[k] = a[k]
      /\ \A k \in 1..(N + 1 - m) : c[(m - i) + k] = b[k]
  <2>1. PICK x, y : x = Len(a) /\ y = Len(b)
    OBVIOUS
  <2>2. /\ c \in Seq(C) /\ Len(c) = x + y
        /\ \A k \in 1..x : c[k] = a[k]
        /\ \A k \in 1..y : c[x + k] = b[k]
    <3>1. a \in Seq(C) /\ b \in Seq(C)
      BY <1>3
    <3> QED
      BY <1>4, <2>1, <3>1
  <2>3. x = m - i /\ y = N + 1 - m
    BY <1>3, <2>1
  <2>4. x + y = N + 1 - i
    BY <1>2, <2>3
  <2> QED
    BY <2>2, <2>3, <2>4
<1>6. ASSUME NEW k \in 1..(N + 1 - i) PROVE c[k] = t[k]
  <2>1. CASE k <= m - i
    BY <1>2, <1>3, <1>5, <2>1
  <2>2. CASE k > m - i
    <3>1. PICK q : q = k - (m - i)
      OBVIOUS
    <3>2. q \in 1..(N + 1 - m) /\ k = (m - i) + q /\ m + q - 1 = i + k - 1
      BY <1>2, <2>2, <3>1
    <3> QED
      BY <1>3, <1>5, <3>2
  <2> QED
    BY <1>2, <2>1, <2>2
<1>7. c = t
  BY <1>3, <1>5, <1>6, SameSeq
<1> QED
  BY <1>1, <1>4, <1>7

\* What starts at i is a piece up to the next separator and what follows it.
SplitFrom(s, sep, i, f) ==
    LET hits == {j \in i..Len(s) : Matches(s, j, sep)}
    IN  IF hits = {} THEN << SubSeq(s, i, Len(s)) >>
        ELSE << SubSeq(s, i, First(hits) - 1) >> \o f[First(hits) + 1]
Splitting(s, sep, f) == \A i \in 1..(Len(s) + 1) : f[i] = SplitFrom(s, sep, i, f)

\* The pieces from every place on exist.
LEMMA SplitSolved ==
    ASSUME NEW C, NEW s \in Seq(C), NEW sep
    PROVE  \E f \in [1..(Len(s) + 1) -> Seq(Seq(C))] : Splitting(s, sep, f)
<1> DEFINE N == Len(s)
           S == 1..(Len(s) + 1)
           D == Seq(Seq(C))
<1>1. N \in Nat
  OBVIOUS
<1>2. <<>> \in D
  OBVIOUS
<1>3. PICK rank : rank = [i \in S |-> N + 1 - i]
  OBVIOUS
<1>4. PICK F : F = [i \in S |-> [f \in [S -> D] |-> SplitFrom(s, sep, i, f)]]
  OBVIOUS
<1>5. Ranks(rank, S, N + 1)
  BY <1>1, <1>3 DEF Ranks
<1>6. ASSUME NEW i \in S
      PROVE  LET hits == {j \in i..Len(s) : Matches(s, j, sep)}
             IN  \/ /\ hits = {} /\ SubSeq(s, i, Len(s)) \in Seq(C)
                    /\ \A f : SplitFrom(s, sep, i, f) = << SubSeq(s, i, Len(s)) >>
                 \/ /\ hits # {}
                    /\ First(hits) + 1 \in S /\ rank[First(hits) + 1] < rank[i]
                    /\ SubSeq(s, i, First(hits) - 1) \in Seq(C)
                    /\ \A f : SplitFrom(s, sep, i, f) =
                                  << SubSeq(s, i, First(hits) - 1) >> \o f[First(hits) + 1]
  <2> DEFINE hits == {j \in i..Len(s) : Matches(s, j, sep)}
  <2>1. CASE hits = {}
    <3>1. SubSeq(s, i, Len(s)) \in Seq(C)
      BY <1>1, SubSeqIs
    <3> QED
      BY <2>1, <3>1 DEF SplitFrom
  <2>2. CASE hits # {}
    <3>1. PICK h : h = First(hits)
      OBVIOUS
    <3>2. h \in hits
      <4>1. hits \subseteq Nat
        BY <1>1
      <4> HIDE DEF hits
      <4> QED
        BY <2>2, <3>1, <4>1, FirstIs
    <3>3. h \in Nat /\ i <= h /\ h <= N /\ i \in Nat /\ i >= 1
      BY <1>1, <3>2
    <3>4. h + 1 \in S /\ rank[h + 1] < rank[i]
      BY <1>1, <1>3, <3>3
    <3>5. PICK e : e = h - 1
      OBVIOUS
    <3>6. e \in 0..N /\ i <= e + 1
      BY <1>1, <3>3, <3>5
    <3>7. SubSeq(s, i, e) \in Seq(C)
      BY <3>6, SubSeqIs
    <3> QED
      BY <2>2, <3>1, <3>4, <3>5, <3>7 DEF SplitFrom
  <2> QED
    BY <2>1, <2>2
<1>7. Rule(F, rank, S, D)
  <2>1. ASSUME NEW i \in S, NEW f \in [S -> D] PROVE SplitFrom(s, sep, i, f) \in D
    <3> DEFINE hits == {j \in i..Len(s) : Matches(s, j, sep)}
    <3>1. CASE hits = {}
      <4>1. PICK t \in Seq(C) : SplitFrom(s, sep, i, f) = << t >>
        BY <1>6, <3>1
      <4> QED
        BY <4>1
    <3>2. CASE hits # {}
      <4>1. PICK t \in Seq(C) : /\ SplitFrom(s, sep, i, f) = << t >> \o f[First(hits) + 1]
                                /\ First(hits) + 1 \in S
        BY <1>6, <3>2
      <4>2. PICK r \in D : r = f[First(hits) + 1]
        BY <4>1
      <4>3. << t >> \in D
        OBVIOUS
      <4> QED
        BY <4>1, <4>2, <4>3
    <3> QED
      BY <3>1, <3>2
  <2>2. F \in [S -> [[S -> D] -> D]]
    BY <1>4, <2>1
  <2>3. ASSUME NEW i \in S, NEW f \in [S -> D], NEW g \in [S -> D], Alike(f, g, rank, S, rank[i])
        PROVE  SplitFrom(s, sep, i, f) = SplitFrom(s, sep, i, g)
    <3> DEFINE hits == {j \in i..Len(s) : Matches(s, j, sep)}
    <3>1. CASE hits = {}
      BY <1>6, <3>1
    <3>2. CASE hits # {}
      <4>1. PICK h, t : /\ h \in S /\ rank[h] < rank[i]
                        /\ \A x : SplitFrom(s, sep, i, x) = << t >> \o x[h]
        BY <1>6, <3>2
      <4>2. f[h] = g[h]
        BY <2>3, <4>1 DEF Alike
      <4> QED
        BY <4>1, <4>2
    <3> QED
      BY <3>1, <3>2
  <2> QED
    BY <1>4, <2>2, <2>3 DEF Rule
<1>8. PICK f \in [S -> D] : \A i \in S : f[i] = F[i][f]
  <2> HIDE DEF S, D, N
  <2> QED
    BY <1>2, <1>5, <1>7, Solved
<1>9. \A i \in S : f[i] = SplitFrom(s, sep, i, f)
  BY <1>4, <1>8
<1> QED
  BY <1>8, <1>9 DEF Splitting

\* SplitStr_x gives the pieces from the first place on.
LEMMA SplitIs ==
    ASSUME NEW C, NEW s \in Seq(C), s # <<>>, NEW sep
    PROVE  \E f : SplitStr_x(s, sep) = f[1] /\ Splitting(s, sep, f)
<1> DEFINE Eq(f) == f = [i \in 1..(Len(s) + 1) |->
                LET hits == {j \in i..Len(s) : Matches(s, j, sep)}
                    j    == CHOOSE k \in hits : \A h \in hits : k <= h
                IN  IF hits = {} THEN << SubSeq(s, i, Len(s)) >>
                    ELSE << SubSeq(s, i, j - 1) >> \o f[j + 1]]
<1>1. \E f : Eq(f)
  <2>1. PICK f \in [1..(Len(s) + 1) -> Seq(Seq(C))] : Splitting(s, sep, f)
    BY SplitSolved
  <2>2. Eq(f)
    BY <2>1 DEF Splitting, SplitFrom, First
  <2> QED
    BY <2>2
<1> DEFINE u == CHOOSE f : Eq(f)
<1>2. Eq(u)
  <2> HIDE DEF Eq
  <2> QED
    BY <1>1
<1>3. SplitStr_x(s, sep) = u[1]
  BY DEF SplitStr_x
<1> HIDE DEF u
<1>4. Splitting(s, sep, u)
  BY <1>2 DEF Splitting, SplitFrom, First
<1> QED
  BY <1>3, <1>4

\* The pieces, all but the first behind a separator.
JoinPart(pieces, sep, k) == (IF k = 1 THEN <<>> ELSE <<sep>>) \o pieces[k]
JoinChain(out, pieces, sep) ==
    /\ out[0] = <<>>
    /\ \A k \in 1..Len(pieces) : out[k] = out[k - 1] \o JoinPart(pieces, sep, k)

\* A piece with its separator is a text.
LEMMA PartIs ==
    ASSUME NEW C, NEW pieces \in Seq(Seq(C)), NEW sep \in C, NEW k \in 1..Len(pieces)
    PROVE  JoinPart(pieces, sep, k) \in Seq(C)
<1>1. pieces[k] \in Seq(C) /\ <<sep>> \in Seq(C) /\ <<>> \in Seq(C)
  BY SeqIs, ShortSeqs
<1> QED
  BY <1>1 DEF JoinPart

\* Joined puts the pieces together one by one.
LEMMA JoinedIs ==
    ASSUME NEW C, NEW pieces \in Seq(Seq(C)), NEW sep \in C
    PROVE  \E out : /\ Joined(pieces, sep) = out[Len(pieces)] /\ JoinChain(out, pieces, sep)
                    /\ \A k \in 0..Len(pieces) : out[k] \in Seq(C)
<1> DEFINE N == Len(pieces)
           Eq(f) == f = [k \in 0..Len(pieces) |->
                IF k = 0 THEN <<>>
                ELSE f[k - 1] \o (IF k = 1 THEN <<>> ELSE <<sep>>) \o pieces[k]]
<1>1. N \in Nat
  BY SeqIs
<1>2. ASSUME NEW k \in 1..N, NEW t \in Seq(C)
      PROVE  t \o JoinPart(pieces, sep, k) = t \o (IF k = 1 THEN <<>> ELSE <<sep>>) \o pieces[k]
  <2>1. pieces[k] \in Seq(C) /\ <<sep>> \in Seq(C) /\ <<>> \in Seq(C)
    BY SeqIs, ShortSeqs
  <2>2. PICK a, b : a = (IF k = 1 THEN <<>> ELSE <<sep>>) /\ b = pieces[k]
    OBVIOUS
  <2>3. a \in Seq(C) /\ b \in Seq(C)
    BY <2>1, <2>2
  <2>4. (t \o a) \o b = t \o (a \o b)
    BY <2>3
  <2> QED
    BY <2>2, <2>4 DEF JoinPart
<1>3. PICK P : P = [k \in 1..N |-> JoinPart(pieces, sep, k)]
  OBVIOUS
<1>4. Parts(P, N, C)
  BY <1>1, <1>3, PartIs DEF Parts
<1>5. \E f : Eq(f)
  <2>1. PICK f \in [0..N -> Seq(C)] : Chain(f, P, N)
    BY <1>4, Chained
  <2>2. ASSUME NEW k \in 0..N, k # 0
        PROVE  f[k] = f[k - 1] \o (IF k = 1 THEN <<>> ELSE <<sep>>) \o pieces[k]
    <3>1. k \in 1..N /\ k - 1 \in 0..N
      BY <1>1, <2>2
    <3>2. f[k] = f[k - 1] \o JoinPart(pieces, sep, k) /\ f[k - 1] \in Seq(C)
      BY <1>3, <2>1, <3>1 DEF Chain
    <3> QED
      BY <1>2, <3>1, <3>2
  <2>3. f[0] = <<>>
    BY <2>1 DEF Chain
  <2>4. Eq(f)
    BY <2>1, <2>2, <2>3
  <2> QED
    BY <2>4
<1> DEFINE u == CHOOSE f : Eq(f)
<1>6. Eq(u)
  <2> HIDE DEF Eq
  <2> QED
    BY <1>5
<1>7. Joined(pieces, sep) = u[N]
  BY DEF Joined
<1> HIDE DEF u
<1>8. u[0] = <<>>
  BY <1>1, <1>6
<1>9. \A k \in 1..N : u[k] = u[k - 1] \o (IF k = 1 THEN <<>> ELSE <<sep>>) \o pieces[k]
  <2>1. ASSUME NEW k \in 1..N
        PROVE  u[k] = u[k - 1] \o (IF k = 1 THEN <<>> ELSE <<sep>>) \o pieces[k]
    <3>1. k \in 0..Len(pieces) /\ k # 0
      BY <1>1
    <3> HIDE DEF N
    <3> QED
      BY <1>6, <3>1
  <2> QED
    BY <2>1
<1> HIDE DEF Eq
<1>10. \A k \in 0..N : u[k] \in Seq(C)
  <2> DEFINE G == {k \in Nat : k <= N => u[k] \in Seq(C)}
  <2>1. 0 \in G
    BY <1>8, ShortSeqs
  <2>2. ASSUME NEW k \in Nat, k \in G PROVE k + 1 \in G
    <3> SUFFICES ASSUME k + 1 <= N PROVE u[k + 1] \in Seq(C)
      OBVIOUS
    <3> HIDE DEF N
    <3>1. k + 1 \in 1..N /\ (k + 1) - 1 = k /\ u[k] \in Seq(C)
      BY <1>1, <2>2
    <3>2. PICK m : m = k + 1
      OBVIOUS
    <3>3. m \in 1..N /\ m - 1 = k
      BY <3>1, <3>2
    <3>4. u[m] = u[m - 1] \o JoinPart(pieces, sep, m)
      BY <1>2, <1>9, <3>1, <3>3
    <3>5. JoinPart(pieces, sep, m) \in Seq(C)
      BY <3>3, PartIs DEF N
    <3>6. u[m] \in Seq(C)
      BY <3>1, <3>3, <3>4, <3>5, JoinSeqs
    <3> QED
      BY <3>2, <3>6
  <2> HIDE DEF G
  <2>3. Nat \subseteq G
    BY <2>1, <2>2, Induct
  <2> QED
    BY <2>3 DEF G
<1>11. \A k \in 1..N : u[k] = u[k - 1] \o JoinPart(pieces, sep, k)
  <2>1. ASSUME NEW k \in 1..N PROVE u[k] = u[k - 1] \o JoinPart(pieces, sep, k)
    <3> HIDE DEF N
    <3>1. k - 1 \in 0..N
      BY <1>1
    <3> QED
      BY <1>2, <1>9, <1>10, <3>1
  <2> QED
    BY <2>1
<1> QED
  BY <1>7, <1>8, <1>10, <1>11 DEF JoinChain

\* One piece is the text.
LEMMA JoinOne ==
    ASSUME NEW C, NEW t \in Seq(C), NEW sep \in C
    PROVE  Joined(<<t>>, sep) = t
<1>1. PICK w : w = <<t>>
  OBVIOUS
<1>2. w \in Seq(Seq(C)) /\ Len(w) = 1 /\ w[1] = t
  BY <1>1
<1>3. PICK out : Joined(w, sep) = out[Len(w)] /\ JoinChain(out, w, sep)
  BY <1>2, JoinedIs
<1>4. out[0] = <<>> /\ out[1] = out[0] \o JoinPart(w, sep, 1)
  <2>1. 1 \in 1..Len(w) /\ 1 - 1 = 0
    BY <1>2
  <2> QED
    BY <1>3, <2>1 DEF JoinChain
<1>5. JoinPart(w, sep, 1) = <<>> \o t
  BY <1>2 DEF JoinPart
<1>6. <<>> \o (<<>> \o t) = t
  BY ShortSeqs
<1> QED
  BY <1>1, <1>2, <1>3, <1>4, <1>5, <1>6

MoreJoined(t, r, sep) == Joined(<<t>> \o r, sep) = (t \o <<sep>>) \o Joined(r, sep)

\* A first piece, a separator, and the others put together.
LEMMA JoinMore ==
    ASSUME NEW C, NEW t \in Seq(C), NEW r \in Seq(Seq(C)), Len(r) >= 1, NEW sep \in C
    PROVE  MoreJoined(t, r, sep)
<1>1. PICK w, M, x, d : w = <<t>> \o r /\ M = Len(r) /\ x = t \o <<sep>> /\ d = <<sep>>
  OBVIOUS
<1>2. M \in Nat /\ M >= 1 /\ \A k \in 1..M : r[k] \in Seq(C)
  BY <1>1, SeqIs
<1>3. d \in Seq(C) /\ x \in Seq(C) /\ <<>> \in Seq(C)
  BY <1>1, ShortSeqs
<1>4. <<t>> \in Seq(Seq(C))
  OBVIOUS
<1>5. /\ w \in Seq(Seq(C)) /\ Len(w) = M + 1 /\ w[1] = t
      /\ \A k \in 1..M : w[k + 1] = r[k]
  BY <1>1, <1>4
<1>6. PICK a : /\ Joined(w, sep) = a[Len(w)] /\ JoinChain(a, w, sep)
               /\ \A k \in 0..Len(w) : a[k] \in Seq(C)
  BY <1>5, JoinedIs
<1>7. PICK b : /\ Joined(r, sep) = b[M] /\ JoinChain(b, r, sep)
               /\ \A k \in 0..M : b[k] \in Seq(C)
  BY <1>1, JoinedIs
<1>8. a[1] = t
  <2>1. a[0] = <<>> /\ a[1] = a[0] \o JoinPart(w, sep, 1)
    <3>1. 1 \in 1..Len(w) /\ 1 - 1 = 0
      BY <1>2, <1>5
    <3> QED
      BY <1>6, <3>1 DEF JoinChain
  <2>2. JoinPart(w, sep, 1) = <<>> \o t
    BY <1>5 DEF JoinPart
  <2>3. <<>> \o (<<>> \o t) = t
    BY ShortSeqs
  <2> QED
    BY <2>1, <2>2, <2>3
<1>9. ASSUME NEW k \in 1..M PROVE a[k + 1] = a[k] \o (d \o r[k])
  <2>1. k + 1 \in 1..Len(w) /\ k + 1 # 1 /\ (k + 1) - 1 = k
    BY <1>2, <1>5
  <2>2. a[k + 1] = a[k] \o JoinPart(w, sep, k + 1)
    BY <1>6, <2>1 DEF JoinChain
  <2>3. JoinPart(w, sep, k + 1) = d \o r[k]
    BY <1>1, <1>5, <2>1 DEF JoinPart
  <2> QED
    BY <2>2, <2>3
<1>10. b[1] = r[1]
  <2>1. b[0] = <<>> /\ b[1] = b[0] \o JoinPart(r, sep, 1)
    <3>1. 1 \in 1..Len(r) /\ 1 - 1 = 0
      BY <1>1, <1>2
    <3> QED
      BY <1>7, <3>1 DEF JoinChain
  <2>2. JoinPart(r, sep, 1) = <<>> \o r[1]
    BY DEF JoinPart
  <2>3. PICK q : q = r[1]
    OBVIOUS
  <2>4. q \in Seq(C)
    BY <1>2, <2>3
  <2>5. <<>> \o (<<>> \o q) = q
    BY <2>4
  <2> QED
    BY <2>1, <2>2, <2>3, <2>5
<1>11. ASSUME NEW k \in 1..M, k # 1 PROVE b[k] = b[k - 1] \o (d \o r[k])
  BY <1>1, <1>7, <1>11 DEF JoinChain, JoinPart
<1>12. \A k \in 1..M : a[k + 1] = x \o b[k]
  <2> DEFINE G == {m \in Nat : m + 1 <= M => a[(m + 1) + 1] = x \o b[m + 1]}
  <2>1. 0 \in G
    <3>1. a[1 + 1] = t \o (d \o r[1])
      <4>1. 1 \in 1..M
        BY <1>2
      <4>2. a[1 + 1] = a[1] \o (d \o r[1])
        BY <1>9, <4>1
      <4> QED
        BY <1>8, <4>2
    <3>2. r[1] \in Seq(C)
      BY <1>2
    <3>3. PICK q \in Seq(C) : q = r[1]
      BY <3>2
    <3>4. t \o (d \o q) = (t \o d) \o q
      <4>1. d \in Seq(C) /\ t \in Seq(C) /\ q \in Seq(C)
        BY <1>3, <3>3
      <4> QED
        BY <4>1
    <3>5. 0 + 1 = 1
      OBVIOUS
    <3> QED
      BY <1>1, <1>10, <3>1, <3>3, <3>4, <3>5
  <2>2. ASSUME NEW m \in Nat, m \in G PROVE m + 1 \in G
    <3> SUFFICES ASSUME (m + 1) + 1 <= M PROVE a[((m + 1) + 1) + 1] = x \o b[(m + 1) + 1]
      OBVIOUS
    <3>1. PICK k, l : k = m + 1 /\ l = k + 1
      OBVIOUS
    <3>2. k \in 1..M /\ l \in 1..M /\ l # 1 /\ l - 1 = k /\ k \in 0..M
      BY <1>2, <3>1
    <3>3. a[k + 1] = x \o b[k]
      BY <1>2, <2>2, <3>1, <3>2
    <3>4. a[l + 1] = (x \o b[k]) \o (d \o r[l])
      BY <1>9, <3>1, <3>2, <3>3
    <3>5. b[l] = b[k] \o (d \o r[l])
      BY <1>11, <3>2
    <3>6. PICK q, p : q = b[k] /\ p = r[l]
      OBVIOUS
    <3>7. q \in Seq(C) /\ p \in Seq(C)
      BY <1>2, <1>7, <3>2, <3>6
    <3>8. (x \o q) \o (d \o p) = x \o (q \o (d \o p))
      <4>1. PICK g : g = d \o p
        OBVIOUS
      <4>2. g \in Seq(C) /\ x \in Seq(C) /\ q \in Seq(C)
        BY <1>3, <3>7, <4>1
      <4>3. (x \o q) \o g = x \o (q \o g)
        BY <4>2
      <4> QED
        BY <4>1, <4>3
    <3> QED
      BY <3>1, <3>4, <3>5, <3>6, <3>8
  <2> HIDE DEF G
  <2>3. Nat \subseteq G
    BY <2>1, <2>2, Induct
  <2>4. ASSUME NEW k \in 1..M PROVE a[k + 1] = x \o b[k]
    <3>1. PICK m : m = k - 1
      OBVIOUS
    <3>2. m \in Nat /\ m + 1 = k /\ k <= M
      BY <1>2, <3>1
    <3>3. m \in G
      BY <2>3, <3>2
    <3> QED
      BY <3>2, <3>3 DEF G
  <2> QED
    BY <2>4
<1>13. a[M + 1] = x \o b[M]
  BY <1>2, <1>12
<1> QED
  BY <1>1, <1>5, <1>6, <1>7, <1>13 DEF MoreJoined

\* A part of one character.
LEMMA OnePart ==
    ASSUME NEW C, NEW s \in Seq(C), NEW j \in 1..Len(s)
    PROVE  SubSeq(s, j, j) = <<s[j]>>
<1>1. PICK t, x : t = SubSeq(s, j, j) /\ x = s[j]
  OBVIOUS
<1>2. Len(s) \in Nat /\ j + 1 - j = 1 /\ j + 1 - 1 = j /\ j \in 0..Len(s) /\ j \in 1..(Len(s) + 1)
  OBVIOUS
<1>3. /\ t \in Seq(C) /\ Len(t) = j + 1 - j
      /\ \A k \in 1..(j + 1 - j) : t[k] = s[j + k - 1]
  BY <1>1, <1>2, SubSeqIs
<1>4. Len(t) = 1 /\ t[1] = x
  <2>1. 1 \in 1..(j + 1 - j)
    BY <1>2
  <2>2. t[1] = s[j + 1 - 1]
    BY <1>3, <2>1
  <2> QED
    BY <1>1, <1>2, <1>3, <2>2
<1>5. t = <<x>>
  BY <1>3, <1>4
<1> QED
  BY <1>1, <1>5

\* A separator of one character is found where that character is.
LEMMA MatchesOne ==
    ASSUME NEW C, NEW s \in Seq(C), NEW c, NEW j \in 1..Len(s)
    PROVE  Matches(s, j, <<c>>) <=> s[j] = c
<1>1. Len(s) \in Nat /\ Len(<<c>>) = 1 /\ j + 1 - 1 = j
  OBVIOUS
<1>2. SubSeq(s, j, j) = <<s[j]>>
  BY OnePart
<1>3. Matches(s, j, <<c>>) <=> SubSeq(s, j, j) = <<c>>
  BY <1>1 DEF Matches
<1>4. <<s[j]>> = <<c>> <=> s[j] = c
  OBVIOUS
<1> QED
  BY <1>2, <1>3, <1>4

\* A part of a text, without the separator.
IsPiece(s, c, t) ==
    \E i \in 1..(Len(s) + 1), e \in 0..Len(s) :
        i <= e + 1 /\ t = SubSeq(s, i, e) /\ \A j \in i..e : s[j] # c

\* From i on, the pieces have no separator and give the text again.
Rejoins(f, s, c, C, i) ==
    /\ f[i] \in Seq(Seq(C)) /\ Len(f[i]) >= 1
    /\ \A k \in 1..Len(f[i]) : IsPiece(s, c, f[i][k])
    /\ Joined(f[i], c) = SubSeq(s, i, Len(s))

\* A piece holds no separator.
LEMMA PieceIs ==
    ASSUME NEW C, NEW s \in Seq(C), NEW c, NEW t, IsPiece(s, c, t)
    PROVE  t \in Seq(C) /\ ~Contains(t, c)
<1>0. PICK i \in 1..(Len(s) + 1), e \in 0..Len(s) :
          i <= e + 1 /\ t = SubSeq(s, i, e) /\ \A j \in i..e : s[j] # c
  BY DEF IsPiece
<1>1. t \in Seq(C)
  BY <1>0, SubSeqIs
<1>2. Len(t) = e + 1 - i /\ \A k \in 1..(e + 1 - i) : t[k] = s[i + k - 1]
  BY <1>0, SubSeqIs
<1>3. ASSUME NEW k \in 1..Len(t) PROVE t[k] # c
  <2>1. PICK j : j = i + k - 1
    OBVIOUS
  <2>2. j \in i..e /\ t[k] = s[j]
    BY <1>2, <2>1
  <2> QED
    BY <1>0, <2>2
<1> QED
  BY <1>1, <1>3 DEF Contains

\* The pieces from i on are right if those from every later place on are.
LEMMA RejoinsStep ==
    ASSUME NEW C, NEW s \in Seq(C), NEW c \in C, NEW f, Splitting(s, <<c>>, f),
           NEW i \in 1..(Len(s) + 1),
           \A h \in 1..(Len(s) + 1) : h > i => Rejoins(f, s, c, C, h)
    PROVE  Rejoins(f, s, c, C, i)
<1>1. PICK N : N = Len(s) /\ N \in Nat
  OBVIOUS
<1>2. PICK hits : hits = {j \in i..N : Matches(s, j, <<c>>)}
  OBVIOUS
<1>3. hits = {j \in i..N : s[j] = c}
  <2>1. \A j \in i..N : Matches(s, j, <<c>>) <=> s[j] = c
    BY <1>1, MatchesOne
  <2> QED
    BY <1>2, <2>1
<1>4. f[i] = SplitFrom(s, <<c>>, i, f)
  BY DEF Splitting
<1>5. CASE hits = {}
  <2>1. PICK t : t = SubSeq(s, i, N)
    OBVIOUS
  <2>2. f[i] = <<t>>
    BY <1>1, <1>2, <1>4, <1>5, <2>1 DEF SplitFrom
  <2>3. t \in Seq(C) /\ IsPiece(s, c, t)
    <3>1. N \in 0..N /\ i <= N + 1
      BY <1>1
    <3>2. \A j \in i..N : s[j] # c
      BY <1>3, <1>5
    <3> QED
      BY <1>1, <2>1, <3>1, <3>2, SubSeqIs DEF IsPiece
  <2>4. Joined(<<t>>, c) = t
    BY <2>3, JoinOne
  <2>5. <<t>> \in Seq(Seq(C)) /\ Len(<<t>>) = 1 /\ \A k \in 1..1 : <<t>>[k] = t
    BY <2>3
  <2>6. PICK w : w = <<t>>
    OBVIOUS
  <2>7. /\ w \in Seq(Seq(C)) /\ Len(w) >= 1 /\ \A k \in 1..Len(w) : IsPiece(s, c, w[k])
        /\ Joined(w, c) = SubSeq(s, i, Len(s))
    <3>1. w \in Seq(Seq(C)) /\ Len(w) = 1 /\ \A k \in 1..1 : w[k] = t
      BY <2>5, <2>6
    <3>2. \A k \in 1..Len(w) : IsPiece(s, c, w[k])
      BY <2>3, <3>1
    <3>3. Joined(w, c) = SubSeq(s, i, Len(s))
      BY <1>1, <2>1, <2>4, <2>6
    <3> QED
      BY <3>1, <3>2, <3>3
  <2> QED
    BY <2>2, <2>6, <2>7 DEF Rejoins
<1>6. CASE hits # {}
  <2>1. PICK j, e, q : j = First(hits) /\ e = j - 1 /\ q = j + 1
    OBVIOUS
  <2>2. j \in hits /\ \A k \in hits : j <= k
    <3>1. hits \subseteq Nat
      BY <1>1, <1>3
    <3> QED
      BY <1>6, <2>1, <3>1, FirstIs
  <2>3. j \in i..N /\ s[j] = c
    BY <1>3, <2>2
  <2>4. /\ e \in 0..N /\ i <= e + 1 /\ e + 1 = j /\ q \in 1..(N + 1) /\ q > i
        /\ j \in 0..N /\ j \in 1..(N + 1) /\ j \in Nat
    BY <1>1, <2>1, <2>3
  <2>5. PICK t, r : t = SubSeq(s, i, e) /\ r = f[q]
    OBVIOUS
  <2>6. f[i] = <<t>> \o r
    BY <1>1, <1>2, <1>4, <1>6, <2>1, <2>5 DEF SplitFrom
  <2>7. t \in Seq(C) /\ IsPiece(s, c, t)
    <3>1. ASSUME NEW k \in i..e PROVE s[k] # c
      <4>1. k \in i..N /\ k < j
        BY <1>1, <2>4
      <4> QED
        BY <1>3, <2>2, <2>4, <4>1
    <3> QED
      BY <1>1, <2>4, <2>5, <3>1, SubSeqIs DEF IsPiece
  <2>8. Rejoins(f, s, c, C, q)
    BY <1>1, <2>4
  <2>9. /\ r \in Seq(Seq(C)) /\ Len(r) >= 1 /\ \A k \in 1..Len(r) : IsPiece(s, c, r[k])
        /\ Joined(r, c) = SubSeq(s, q, N)
    BY <1>1, <2>5, <2>8 DEF Rejoins
  <2>10. Joined(<<t>> \o r, c) = (t \o <<c>>) \o SubSeq(s, q, N)
    <3>2. t \in Seq(C) /\ r \in Seq(Seq(C)) /\ Len(r) >= 1
      BY <2>7, <2>9
    <3>3. MoreJoined(t, r, c)
      BY <3>2, JoinMore
    <3> QED
      BY <2>9, <3>3 DEF MoreJoined
  <2>11. (t \o <<c>>) \o SubSeq(s, q, N) = SubSeq(s, i, N)
    <3>1. t \o SubSeq(s, j, N) = SubSeq(s, i, N)
      BY <1>1, <2>4, <2>5, CutInTwo
    <3>2. SubSeq(s, j, j) \o SubSeq(s, q, N) = SubSeq(s, j, N)
      <4>1. j \in 1..(N + 1) /\ j \in 0..N /\ j <= j + 1
        BY <2>4
      <4> QED
        BY <1>1, <2>1, <4>1, CutInTwo
    <3>3. SubSeq(s, j, j) = <<c>>
      <4>1. j \in 1..N
        BY <1>1, <2>3, <2>4
      <4> QED
        BY <1>1, <2>3, <4>1, OnePart
    <3>4. PICK u, d : u = SubSeq(s, q, N) /\ d = <<c>>
      OBVIOUS
    <3>5. u \in Seq(C) /\ d \in Seq(C)
      <4>1. N \in 0..N /\ q <= N + 1
        BY <1>1, <2>4
      <4>2. u \in Seq(C)
        BY <1>1, <2>4, <3>4, <4>1, SubSeqIs
      <4> QED
        BY <3>4, <4>2, ShortSeqs
    <3>6. (t \o d) \o u = t \o (d \o u)
      BY <2>7, <3>5
    <3> QED
      BY <3>1, <3>2, <3>3, <3>4, <3>6
  <2>12. /\ <<t>> \o r \in Seq(Seq(C)) /\ Len(<<t>> \o r) >= 1
         /\ \A k \in 1..Len(<<t>> \o r) : IsPiece(s, c, (<<t>> \o r)[k])
    <3>1. PICK w, M : w = <<t>> \o r /\ M = Len(r)
      OBVIOUS
    <3>2. <<t>> \in Seq(Seq(C))
      BY <2>7
    <3>3. M \in Nat
      BY <2>9, <3>1
    <3>4. w \in Seq(Seq(C)) /\ Len(w) = M + 1 /\ w[1] = t /\ \A k \in 1..M : w[k + 1] = r[k]
      BY <2>9, <3>1, <3>2
    <3>5. ASSUME NEW k \in 1..(M + 1) PROVE IsPiece(s, c, w[k])
      <4>1. CASE k = 1
        BY <2>7, <3>4, <4>1
      <4>2. CASE k # 1
        <5>1. PICK m : m = k - 1
          OBVIOUS
        <5>2. m \in 1..M /\ k = m + 1
          BY <3>3, <4>2, <5>1
        <5>3. w[k] = r[m]
          BY <3>4, <5>2
        <5> QED
          BY <2>9, <3>1, <5>2, <5>3
      <4> QED
        BY <4>1, <4>2
    <3> QED
      BY <3>1, <3>3, <3>4, <3>5
  <2> QED
    BY <1>1, <2>6, <2>10, <2>11, <2>12 DEF Rejoins
<1> QED
  BY <1>5, <1>6

\* The pieces of the whole text are right.
LEMMA RejoinsAll ==
    ASSUME NEW C, NEW s \in Seq(C), NEW sep \in C, NEW f, Splitting(s, <<sep>>, f)
    PROVE  Rejoins(f, s, sep, C, 1)
<1>1. PICK N : N = Len(s) /\ N \in Nat
  OBVIOUS
<1> DEFINE G == {m \in Nat : \A i \in 1..(N + 1) : i > N + 1 - m => Rejoins(f, s, sep, C, i)}
<1>3. 0 \in G
  BY <1>1
<1>4. ASSUME NEW m \in Nat, m \in G PROVE m + 1 \in G
  <2> SUFFICES ASSUME NEW i \in 1..(N + 1), i > N + 1 - (m + 1) PROVE Rejoins(f, s, sep, C, i)
    OBVIOUS
  <2>1. ASSUME NEW h \in 1..(N + 1), h > i PROVE Rejoins(f, s, sep, C, h)
    <3>1. h > N + 1 - m
      BY <1>1, <2>1
    <3> QED
      BY <1>4, <3>1
  <2> HIDE DEF G
  <2> QED
    BY <1>1, <2>1, RejoinsStep
<1> HIDE DEF G
<1>5. Nat \subseteq G
  BY <1>3, <1>4, Induct
<1> QED
  <2>1. N + 1 \in G
    BY <1>1, <1>5
  <2>2. 1 \in 1..(N + 1) /\ 1 > N + 1 - (N + 1)
    BY <1>1
  <2> QED
    BY <2>1, <2>2 DEF G

\* A text that is split at a character is put together again from its pieces,
\* and no piece holds the character: SplitStr_x.
THEOREM SplitRejoinsHolds == \A C : \A s \in Seq(C), sep \in C : SplitRejoins(s, sep)
<1> SUFFICES ASSUME NEW C, NEW s \in Seq(C), NEW sep \in C PROVE SplitRejoins(s, sep)
  OBVIOUS
<1>1. CASE s = <<>>
  <2>1. PICK none : none = <<>>
    OBVIOUS
  <2>2. none \in Seq(Seq(C)) /\ Len(none) = 0 /\ DOMAIN none = {}
    BY <2>1
  <2>3. SplitStr_x(s, <<sep>>) = none
    BY <1>1, <2>1 DEF SplitStr_x
  <2>4. PICK out : Joined(none, sep) = out[Len(none)] /\ JoinChain(out, none, sep)
    BY <2>2, JoinedIs
  <2>5. Joined(none, sep) = s
    BY <1>1, <2>2, <2>4 DEF JoinChain
  <2> QED
    BY <2>2, <2>3, <2>5 DEF SplitRejoins
<1>2. CASE s # <<>>
  <2>1. PICK N : N = Len(s) /\ N \in Nat
    OBVIOUS
  <2>2. PICK f : SplitStr_x(s, <<sep>>) = f[1] /\ Splitting(s, <<sep>>, f)
    BY <1>2, SplitIs
  <2>6. Rejoins(f, s, sep, C, 1)
    BY <2>2, RejoinsAll
  <2>7. /\ f[1] \in Seq(Seq(C)) /\ \A k \in 1..Len(f[1]) : ~Contains(f[1][k], sep)
        /\ Joined(f[1], sep) = SubSeq(s, 1, Len(s))
    BY <2>6, PieceIs DEF Rejoins
  <2>8. DOMAIN f[1] = 1..Len(f[1]) /\ SubSeq(s, 1, Len(s)) = s
    BY <2>7
  <2> QED
    BY <2>2, <2>7, <2>8 DEF SplitRejoins
<1> QED
  BY <1>1, <1>2

------------------------------------------------------------------------------
(* Pairs, and texts that are trimmed.                                         *)

\* What is found in a text stands between what is before it and behind it.
Inside(C, s, piece, at) ==
    /\ SubSeq(s, 1, at - 1) \in Seq(C) /\ Len(SubSeq(s, 1, at - 1)) = at - 1
    /\ From(s, at + Len(piece)) \in Seq(C)
    /\ Len(From(s, at + Len(piece))) = Len(s) + 1 - (at + Len(piece))
    /\ at + Len(piece) <= Len(s) + 1
    /\ SubSeq(s, 1, at - 1) \o piece \o From(s, at + Len(piece)) = s

\* A text that is found cuts the other in three.
LEMMA FoundInside ==
    ASSUME NEW C, NEW s \in Seq(C), NEW piece \in Seq(C), NEW at \in 1..(Len(s) + 1),
           Matches(s, at, piece)
    PROVE  Inside(C, s, piece, at)
<1>1. PICK N, l, e, q, k, v : /\ N = Len(s) /\ l = Len(piece) /\ e = at - 1 /\ q = at + l - 1
                              /\ k = SubSeq(s, 1, e) /\ v = SubSeq(s, q + 1, N)
  OBVIOUS
<1>2. N \in Nat /\ l \in Nat
  BY <1>1
<1>3. q <= N /\ SubSeq(s, at, q) = piece
  BY <1>1 DEF Matches
<1>4. /\ e \in 0..N /\ q \in 0..N /\ e + 1 = at /\ q + 1 = at + l /\ at <= q + 1 /\ 1 <= e + 1
      /\ q + 1 \in 1..(N + 1) /\ N \in 0..N /\ q + 1 <= N + 1 /\ 1 \in 1..(N + 1) /\ at <= N + 1
      /\ 1 <= N + 1
  BY <1>1, <1>2, <1>3
<1>5. /\ k \in Seq(C) /\ Len(k) = e + 1 - 1
      /\ v \in Seq(C) /\ Len(v) = N + 1 - (q + 1)
  BY <1>1, <1>4, SubSeqIs
<1>6. k \o SubSeq(s, at, N) = SubSeq(s, 1, N)
  BY <1>1, <1>4, CutInTwo
<1>7. piece \o v = SubSeq(s, at, N)
  BY <1>1, <1>3, <1>4, CutInTwo
<1>8. SubSeq(s, 1, N) = s
  BY <1>1
<1>9. (k \o piece) \o v = k \o (piece \o v)
  BY <1>5
<1>10. From(s, at + Len(piece)) = v
  BY <1>1, <1>4 DEF From
<1>11. at + Len(piece) <= Len(s) + 1 /\ e + 1 - 1 = at - 1
  BY <1>1, <1>4
<1> QED
  BY <1>1, <1>4, <1>5, <1>6, <1>7, <1>8, <1>9, <1>10, <1>11 DEF Inside

\* The separator that occurs first cuts the text in three.
LEMMA PairIs ==
    ASSUME NEW C, NEW s \in Seq(C), NEW sep \in Seq(C), Starts(s, sep) # {}
    PROVE  /\ KeyOf(s, sep) \in Seq(C) /\ ValueOf(s, sep) \in Seq(C)
           /\ KeyOf(s, sep) \o sep \o ValueOf(s, sep) = s
           /\ Len(KeyOf(s, sep)) <= Len(s) /\ Len(ValueOf(s, sep)) <= Len(s)
<1>1. PICK at : at = First(Starts(s, sep))
  OBVIOUS
<1>2. at \in Starts(s, sep)
  <2>1. Starts(s, sep) \subseteq Nat
    BY DEF Starts
  <2> QED
    BY <1>1, <2>1, FirstIs
<1>3. at \in 1..(Len(s) + 1) /\ Matches(s, at, sep)
  BY <1>2 DEF Starts
<1>4. PICK k, v : k = SubSeq(s, 1, at - 1) /\ v = From(s, at + Len(sep))
  OBVIOUS
<1>5. /\ k \in Seq(C) /\ v \in Seq(C) /\ k \o sep \o v = s
      /\ Len(k) = at - 1 /\ Len(v) = Len(s) + 1 - (at + Len(sep))
  <2>1. Inside(C, s, sep, at)
    BY <1>3, FoundInside
  <2> QED
    BY <1>4, <2>1 DEF Inside
<1>6. KeyOf(s, sep) = k /\ ValueOf(s, sep) = v
  BY <1>1, <1>4 DEF KeyOf, ValueOf
<1>7. Len(s) \in Nat /\ Len(sep) \in Nat
  OBVIOUS
<1>8. Len(k) <= Len(s) /\ Len(v) <= Len(s)
  BY <1>3, <1>5, <1>7
<1> QED
  BY <1>5, <1>6, <1>8

\* A buffer begins with a text and ends there, or holds nothing else.
Begins(buffer, text) ==
    /\ Len(text) <= Len(buffer)
    /\ \A i \in 1..Len(text) : buffer[i] = text[i] /\ text[i] # Nul
    /\ Len(text) < Len(buffer) => buffer[Len(text) + 1] = Nul

LEMMA TextInBegins ==
    ASSUME NEW C, NEW b \in Seq(C)
    PROVE  TextIn(b) \in Seq(C) /\ Begins(b, TextIn(b))
<1>1. PICK ends : ends = {i \in 1..Len(b) : b[i] = Nul}
  OBVIOUS
<1>2. Len(b) \in Nat /\ ends \subseteq Nat
  BY <1>1
<1>3. CASE ends = {}
  <2>1. TextIn(b) = b
    BY <1>1, <1>3 DEF TextIn
  <2>2. \A i \in 1..Len(b) : b[i] # Nul
    BY <1>1, <1>3
  <2> QED
    BY <1>2, <2>1, <2>2 DEF Begins
<1>4. CASE ends # {}
  <2>1. PICK f : f = First(ends)
    OBVIOUS
  <2>2. f \in ends /\ \A y \in ends : f <= y
    BY <1>2, <1>4, <2>1, FirstIs
  <2>3. f \in 1..Len(b) /\ b[f] = Nul
    BY <1>1, <2>2
  <2>4. \A i \in 1..(f - 1) : b[i] # Nul
    BY <1>1, <1>2, <2>2, <2>3
  <2>5. PICK t : t = SubSeq(b, 1, f - 1)
    OBVIOUS
  <2>6. 1 \in 1..(Len(b) + 1) /\ f - 1 \in 0..Len(b) /\ 1 <= (f - 1) + 1 /\ (f - 1) + 1 - 1 = f - 1
    BY <1>2, <2>3
  <2>7. /\ t \in Seq(C) /\ Len(t) = (f - 1) + 1 - 1
        /\ \A k \in 1..((f - 1) + 1 - 1) : t[k] = b[1 + k - 1]
    BY <2>5, <2>6, SubSeqIs
  <2>8. t \in Seq(C) /\ Len(t) = f - 1 /\ \A k \in 1..(f - 1) : t[k] = b[k]
    <3>1. \A k \in 1..(f - 1) : 1 + k - 1 = k
      BY <2>3
    <3> QED
      BY <2>6, <2>7, <3>1
  <2>9. TextIn(b) = t
    BY <1>1, <1>4, <2>1, <2>5 DEF TextIn
  <2> QED
    BY <1>2, <2>3, <2>4, <2>8, <2>9 DEF Begins
<1> QED
  BY <1>3, <1>4

\* The text in a buffer is the only one it begins with in this way.
LEMMA TextInIs ==
    ASSUME NEW C, NEW b \in Seq(C), NEW t \in Seq(C)
    PROVE  TextIn(b) = t <=> Begins(b, t)
<1>1. PICK u : u = TextIn(b)
  OBVIOUS
<1>2. u \in Seq(C) /\ Begins(b, u)
  BY <1>1, TextInBegins
<1>3. ASSUME Begins(b, t) PROVE u = t
  <2>1. Len(t) \in Nat /\ Len(u) \in Nat /\ Len(b) \in Nat
    BY <1>2
  <2>2. ~(Len(t) < Len(u))
    <3> SUFFICES ASSUME Len(t) < Len(u) PROVE FALSE
      OBVIOUS
    <3>1. Len(t) + 1 \in 1..Len(u) /\ Len(t) < Len(b)
      BY <1>2, <2>1 DEF Begins
    <3> QED
      BY <1>2, <1>3, <3>1 DEF Begins
  <2>3. ~(Len(u) < Len(t))
    <3> SUFFICES ASSUME Len(u) < Len(t) PROVE FALSE
      OBVIOUS
    <3>1. Len(u) + 1 \in 1..Len(t) /\ Len(u) < Len(b)
      BY <1>3, <2>1 DEF Begins
    <3> QED
      BY <1>2, <1>3, <3>1 DEF Begins
  <2>4. Len(u) = Len(t)
    BY <2>1, <2>2, <2>3
  <2>5. \A k \in 1..Len(u) : u[k] = t[k]
    BY <1>2, <1>3, <2>4 DEF Begins
  <2> QED
    BY <1>2, <2>4, <2>5, SameSeq
<1> QED
  BY <1>1, <1>2, <1>3

\* A buffer something is copied into keeps its length and what is behind.
LEMMA CopiedIs ==
    ASSUME NEW C, NEW b \in Seq(C), NEW t \in Seq(C), Len(t) <= Len(b)
    PROVE  /\ Copied(b, t) \in Seq(C) /\ Len(Copied(b, t)) = Len(b)
           /\ \A i \in 1..Len(t) : Copied(b, t)[i] = t[i]
           /\ \A i \in (Len(t) + 1)..Len(b) : Copied(b, t)[i] = b[i]
<1>1. PICK N, n, rest, c : /\ N = Len(b) /\ n = Len(t) /\ rest = SubSeq(b, n + 1, N)
                           /\ c = t \o rest
  OBVIOUS
<1>2. N \in Nat /\ n \in Nat /\ n <= N /\ n + 1 \in 1..(N + 1) /\ N \in 0..N /\ n + 1 <= N + 1
  BY <1>1
<1>3. /\ rest \in Seq(C) /\ Len(rest) = N + 1 - (n + 1)
      /\ \A k \in 1..(N + 1 - (n + 1)) : rest[k] = b[(n + 1) + k - 1]
  BY <1>1, <1>2, SubSeqIs
<1>4. /\ c \in Seq(C) /\ Len(c) = n + Len(rest)
      /\ \A k \in 1..n : c[k] = t[k]
      /\ \A k \in 1..Len(rest) : c[n + k] = rest[k]
  BY <1>1, <1>3, JoinSeqs
<1>5. Len(c) = N
  BY <1>2, <1>3, <1>4
<1>6. ASSUME NEW i \in (n + 1)..N PROVE c[i] = b[i]
  <2>1. i - n \in 1..(N + 1 - (n + 1)) /\ n + (i - n) = i /\ (n + 1) + (i - n) - 1 = i
    BY <1>2, <1>6
  <2>2. c[n + (i - n)] = rest[i - n] /\ rest[i - n] = b[(n + 1) + (i - n) - 1]
    BY <1>3, <1>4, <2>1
  <2> QED
    BY <2>1, <2>2
<1>7. Copied(b, t) = c
  BY <1>1 DEF Copied, From
<1> QED
  BY <1>1, <1>4, <1>5, <1>6, <1>7

\* What the char* form leaves in the two buffers, given room: a key as it is in a
\* string but for an end behind as many characters as the value has, and the value
\* over what was there.
Left(C, s, sep, pKey, pValue) ==
    LET k    == KeyOf(s, sep)
        v    == ValueOf(s, sep)
        bufs == GetKeyAndValueFromStr(s, sep, pKey, pValue)
    IN  \E keyed \in Seq(C \cup {Nul}) :
           /\ Len(keyed) = Len(pKey)
           /\ TextIn(keyed) = IF k = <<>> THEN TextIn(pKey) ELSE k
           /\ bufs.value.key = IF v = <<>> THEN keyed ELSE [keyed EXCEPT ![Len(v) + 1] = Nul]
           /\ bufs.value.value = Copied(pValue, v)

LEMMA LeftIs ==
    ASSUME NEW C, Nul \notin C, NEW s \in Seq(C), NEW sep \in Seq(C), Starts(s, sep) # {},
           NEW pKey \in Seq(C \cup {Nul}), NEW pValue \in Seq(C \cup {Nul}),
           Len(s) < Len(pKey), Len(s) < Len(pValue)
    PROVE  Left(C, s, sep, pKey, pValue)
<1>8. PICK D, k, v : D = C \cup {Nul} /\ k = KeyOf(s, sep) /\ v = ValueOf(s, sep)
  OBVIOUS
<1>1. /\ k \in Seq(C) /\ v \in Seq(C) /\ Len(k) \in Nat /\ Len(v) \in Nat
      /\ Len(k) < Len(pKey) /\ Len(v) < Len(pValue) /\ Len(pKey) \in Nat
  <2>1. k \in Seq(C) /\ v \in Seq(C) /\ Len(k) <= Len(s) /\ Len(v) <= Len(s)
    BY <1>8, PairIs
  <2>2. Len(k) \in Nat /\ Len(v) \in Nat /\ Len(s) \in Nat /\ Len(pKey) \in Nat /\ Len(pValue) \in Nat
    BY <2>1
  <2> QED
    BY <2>1, <2>2
<1>2. Fitting(k, pKey) = k /\ Fitting(v, pValue) = v
  BY <1>1 DEF Fitting
<1>3. PICK keyed : keyed = IF k = <<>> THEN pKey ELSE Copied(pKey, Append(k, Nul))
  OBVIOUS
<1>4. /\ keyed \in Seq(D) /\ Len(keyed) = Len(pKey)
      /\ TextIn(keyed) = IF k = <<>> THEN TextIn(pKey) ELSE k
  <2>1. CASE k = <<>>
    BY <1>3, <1>8, <2>1
  <2>2. CASE k # <<>>
    <3>1. PICK t : t = Append(k, Nul)
      OBVIOUS
    <3>2. k \in Seq(D) /\ Nul \in D /\ \A i \in 1..Len(k) : k[i] # Nul
      BY <1>1, <1>8
    <3>10. pKey \in Seq(D)
      BY <1>8
    <3>3. /\ t \in Seq(D) /\ Len(t) = Len(k) + 1 /\ \A i \in 1..Len(k) : t[i] = k[i]
          /\ t[Len(k) + 1] = Nul
      BY <3>1, <3>2
    <3>4. Len(t) <= Len(pKey)
      BY <1>1, <3>3
    <3>5. keyed = Copied(pKey, t)
      BY <1>3, <2>2, <3>1
    <3>6. keyed \in Seq(D) /\ Len(keyed) = Len(pKey) /\ \A i \in 1..Len(t) : keyed[i] = t[i]
      BY <3>3, <3>4, <3>5, <3>10, CopiedIs
    <3>7. \A i \in 1..Len(k) : i \in 1..Len(t) /\ keyed[i] = k[i]
      BY <1>1, <3>3, <3>6
    <3>8. Len(k) + 1 \in 1..Len(t) /\ keyed[Len(k) + 1] = Nul
      BY <1>1, <3>3, <3>6
    <3>9. Begins(keyed, k)
      BY <1>1, <3>2, <3>6, <3>7, <3>8 DEF Begins
    <3> QED
      BY <2>2, <3>2, <3>6, <3>9, TextInIs
  <2> QED
    BY <2>1, <2>2
<1>5. PICK bufs : bufs = GetKeyAndValueFromStr(s, sep, pKey, pValue)
  OBVIOUS
<1>6. bufs = Found([key   |-> IF v = <<>> THEN keyed ELSE [keyed EXCEPT ![Len(v) + 1] = Nul],
                    value |-> Copied(pValue, v)])
  BY <1>2, <1>3, <1>5, <1>8 DEF GetKeyAndValueFromStr
<1>7. /\ bufs.value.key = IF v = <<>> THEN keyed ELSE [keyed EXCEPT ![Len(v) + 1] = Nul]
      /\ bufs.value.value = Copied(pValue, v)
  BY <1>6 DEF Found
<1> QED
  BY <1>4, <1>5, <1>7, <1>8 DEF Left

\* The value's buffer holds the value only if it ends there.
LEMMA ValueAgrees ==
    ASSUME NEW C, Nul \notin C, NEW v \in Seq(C), v # <<>>,
           NEW pValue \in Seq(C \cup {Nul}), Len(v) < Len(pValue)
    PROVE  TextIn(Copied(pValue, v)) = v <=> pValue[Len(v) + 1] = Nul
<1>1. PICK D, b : D = C \cup {Nul} /\ b = Copied(pValue, v)
  OBVIOUS
<1>2. v \in Seq(D) /\ pValue \in Seq(D) /\ Len(v) \in Nat /\ Len(pValue) \in Nat /\ Len(v) <= Len(pValue)
  BY <1>1
<1>3. /\ b \in Seq(D) /\ Len(b) = Len(pValue)
      /\ \A i \in 1..Len(v) : b[i] = v[i]
      /\ \A i \in (Len(v) + 1)..Len(pValue) : b[i] = pValue[i]
  BY <1>1, <1>2, CopiedIs
<1>4. Len(v) + 1 \in (Len(v) + 1)..Len(pValue)
  BY <1>2
<1>5. b[Len(v) + 1] = pValue[Len(v) + 1]
  BY <1>3, <1>4
<1>6. \A i \in 1..Len(v) : v[i] # Nul
  OBVIOUS
<1>7. Begins(b, v) <=> pValue[Len(v) + 1] = Nul
  BY <1>2, <1>3, <1>5, <1>6 DEF Begins
<1> QED
  BY <1>1, <1>2, <1>3, <1>7, TextInIs

\* The key's buffer holds the key only if it is no longer than the value.
LEMMA KeyAgrees ==
    ASSUME NEW D, Nul \in D, NEW keyed \in Seq(D), NEW n \in Nat, n < Len(keyed),
           NEW key, key = TextIn(keyed)
    PROVE  TextIn([keyed EXCEPT ![n + 1] = Nul]) = key <=> Len(key) <= n
<1>1. key \in Seq(D) /\ Begins(keyed, key) /\ Len(key) \in Nat /\ Len(keyed) \in Nat
  BY TextInBegins
<1>2. PICK b : b = [keyed EXCEPT ![n + 1] = Nul]
  OBVIOUS
<1>3. n + 1 \in 1..Len(keyed)
  BY <1>1
<1>4. /\ b \in Seq(D) /\ Len(b) = Len(keyed) /\ b[n + 1] = Nul
      /\ \A i \in 1..Len(keyed) : i # n + 1 => b[i] = keyed[i]
  BY <1>2, <1>3
<1>5. ASSUME Begins(b, key) PROVE Len(key) <= n
  <2> SUFFICES ASSUME n + 1 \in 1..Len(key) PROVE FALSE
    BY <1>1
  <2> QED
    BY <1>4, <1>5 DEF Begins
<1>6. ASSUME Len(key) <= n PROVE Begins(b, key)
  <2>1. Len(key) < Len(keyed)
    BY <1>1, <1>6
  <2>2. \A i \in 1..Len(key) : i \in 1..Len(keyed) /\ i # n + 1
    BY <1>1, <1>6
  <2>3. \A i \in 1..Len(key) : b[i] = key[i] /\ key[i] # Nul
    BY <1>1, <1>4, <2>2 DEF Begins
  <2>4. keyed[Len(key) + 1] = Nul /\ Len(key) + 1 \in 1..Len(keyed)
    BY <1>1, <2>1 DEF Begins
  <2>5. b[Len(key) + 1] = Nul
    BY <1>4, <2>4
  <2> QED
    BY <1>1, <1>4, <2>1, <2>3, <2>5 DEF Begins
<1>7. TextIn(b) = key <=> Begins(b, key)
  BY <1>1, <1>4, TextInIs
<1> QED
  BY <1>2, <1>5, <1>6, <1>7

\* A text that is taken apart at a separator is key, separator and value, of which
\* the caller's strings miss what is empty; the char* form agrees on a value its
\* buffer ends with and on a key no longer than the value, and on no other.
THEOREM PairRuleHolds ==
    \A C : Nul \notin C =>
        \A s, sep \in Seq(C), pKey, pValue \in Seq(C \cup {Nul}) : PairRule(s, sep, pKey, pValue)
<1> SUFFICES ASSUME NEW C, Nul \notin C, NEW s \in Seq(C), NEW sep \in Seq(C),
                    NEW pKey \in Seq(C \cup {Nul}), NEW pValue \in Seq(C \cup {Nul})
             PROVE  PairRule(s, sep, pKey, pValue)
  OBVIOUS
<1>1. PICK pair, bufs : /\ pair = KeyAndValue(s, sep, TextIn(pKey), TextIn(pValue))
                        /\ bufs = GetKeyAndValueFromStr(s, sep, pKey, pValue)
  OBVIOUS
<1>2. CASE Starts(s, sep) = {}
  <2>1. pair = NotFound /\ bufs = NotFound
    BY <1>1, <1>2 DEF KeyAndValue, GetKeyAndValueFromStr
  <2>2. ~pair.found /\ ~bufs.found
    BY <2>1 DEF NotFound
  <2> QED
    BY <1>1, <2>2 DEF PairRule
<1>3. CASE Starts(s, sep) # {}
  <2>1. PICK k, v : k = KeyOf(s, sep) /\ v = ValueOf(s, sep)
    OBVIOUS
  <2>2. /\ k \in Seq(C) /\ v \in Seq(C) /\ k \o sep \o v = s
        /\ Len(k) <= Len(s) /\ Len(v) <= Len(s) /\ Len(v) \in Nat /\ Len(s) \in Nat
    <3>1. /\ k \in Seq(C) /\ v \in Seq(C) /\ k \o sep \o v = s
          /\ Len(k) <= Len(s) /\ Len(v) <= Len(s)
      BY <1>3, <2>1, PairIs, Zenon
    <3>2. Len(v) \in Nat /\ Len(s) \in Nat
      BY <3>1
    <3> QED
      BY <3>1, <3>2
  <2>3. PICK key, value : /\ key = IF k = <<>> THEN TextIn(pKey) ELSE k
                          /\ value = IF v = <<>> THEN TextIn(pValue) ELSE v
    OBVIOUS
  <2>4. pair = Found([key |-> key, value |-> value])
    BY <1>1, <1>3, <2>1, <2>3 DEF KeyAndValue
  <2>5. pair.found /\ pair.value.key = key /\ pair.value.value = value
    BY <2>4 DEF Found
  <2>6. bufs.found
    BY <1>1, <1>3 DEF GetKeyAndValueFromStr, Found
  <2>7. ASSUME Len(s) < Len(pKey), Len(s) < Len(pValue)
        PROVE  /\ TextIn(bufs.value.value) = value <=> v = <<>> \/ pValue[Len(v) + 1] = Nul
               /\ TextIn(bufs.value.key) = key <=> v = <<>> \/ Len(key) <= Len(v)
    <3>1. PICK D : D = C \cup {Nul}
      OBVIOUS
    <3>2. pKey \in Seq(D) /\ pValue \in Seq(D) /\ Len(pKey) \in Nat /\ Len(pValue) \in Nat
      BY <3>1
    <3>3. PICK keyed \in Seq(D) :
             /\ Len(keyed) = Len(pKey) /\ TextIn(keyed) = key
             /\ bufs.value.key = IF v = <<>> THEN keyed ELSE [keyed EXCEPT ![Len(v) + 1] = Nul]
             /\ bufs.value.value = Copied(pValue, v)
      <4>1. Left(C, s, sep, pKey, pValue)
        BY <1>3, <2>7, LeftIs
      <4> QED
        BY <1>1, <2>1, <2>3, <3>1, <4>1 DEF Left
    <3>4. CASE v = <<>>
      <4>1. Copied(pValue, v) = pValue
        BY <3>2, <3>4 DEF Copied, From
      <4> QED
        BY <2>3, <3>3, <3>4, <4>1
    <3>5. CASE v # <<>>
      <4>1. Len(v) < Len(pValue) /\ Len(v) < Len(keyed)
        BY <2>2, <2>7, <3>2, <3>3
      <4>2. TextIn(bufs.value.value) = value <=> pValue[Len(v) + 1] = Nul
        BY <2>2, <2>3, <3>3, <3>5, <4>1, ValueAgrees
      <4>3. TextIn(bufs.value.key) = key <=> Len(key) <= Len(v)
        BY <2>2, <3>1, <3>3, <3>5, <4>1, KeyAgrees
      <4> QED
        BY <3>5, <4>2, <4>3
    <3> QED
      BY <3>4, <3>5
  <2>8. /\ k \in {key, <<>>} /\ (k # key => key = TextIn(pKey))
        /\ v \in {value, <<>>} /\ (v # value => value = TextIn(pValue))
    BY <2>3
  <2> QED
    BY <1>1, <2>2, <2>5, <2>6, <2>7, <2>8 DEF PairRule
<1> QED
  BY <1>2, <1>3

\* strspn of blanks
LEMMA BlanksInFront ==
    ASSUME NEW C, NEW s \in Seq(C), NEW n, n = Leading(s, IsSpace)
    PROVE  /\ n \in 0..Len(s) /\ \A i \in 1..n : IsSpace(s[i])
           /\ n = Len(s) \/ ~IsSpace(s[n + 1])
<1> DEFINE Ends == {m \in 0..Len(s) : m = Len(s) \/ ~IsSpace(s[m + 1])}
<1>1. Len(s) \in Nat
  OBVIOUS
<1>2. PICK e \in Ends : \A m \in Ends : e <= m
  <2>1. Ends \subseteq Nat /\ Len(s) \in Ends
    BY <1>1
  <2> HIDE DEF Ends
  <2> QED
    BY <2>1, Least
<1>3. ASSUME NEW i \in 1..e PROVE IsSpace(s[i])
  <2>1. PICK m : m = i - 1
    OBVIOUS
  <2>2. m \in 0..Len(s) /\ m < e /\ m + 1 = i
    BY <1>1, <1>2, <2>1
  <2>3. m \notin Ends
    BY <1>1, <1>2, <2>2
  <2> QED
    BY <2>2, <2>3
<1>4. \E m \in 0..Len(s) : (\A i \in 1..m : IsSpace(s[i])) /\ (m = Len(s) \/ ~IsSpace(s[m + 1]))
  BY <1>2, <1>3
<1>5. n = CHOOSE m \in 0..Len(s) : (\A i \in 1..m : IsSpace(s[i])) /\ (m = Len(s) \/ ~IsSpace(s[m + 1]))
  BY DEF Leading
<1> QED
  BY <1>4, <1>5

\* What StrTrim works on: nothing but blanks is before it and after it.
LEMMA BareIs ==
    ASSUME NEW C, NEW s \in Seq(C)
    PROVE  /\ Bare(s) \in Seq(C)
           /\ Bare(s) # <<>> => ~IsSpace(Bare(s)[1]) /\ ~IsSpace(Bare(s)[Len(Bare(s))])
<1>1. PICK N, n, a : N = Len(s) /\ n = Leading(s, IsSpace) /\ a = n + 1
  OBVIOUS
<1>2. PICK rest, L : rest = SubSeq(s, a, N) /\ L = Len(rest)
  OBVIOUS
<1>3. N \in Nat /\ n \in 0..N /\ (n = N \/ ~IsSpace(s[a]))
  <2>1. n \in 0..Len(s) /\ (n = Len(s) \/ ~IsSpace(s[n + 1]))
    BY <1>1, BlanksInFront
  <2>2. Len(s) \in Nat
    OBVIOUS
  <2> QED
    BY <1>1, <2>1, <2>2
<1>4. a \in 1..(N + 1) /\ N \in 0..N /\ a <= N + 1 /\ a \in Nat
  BY <1>1, <1>3
<1>5. rest \in Seq(C) /\ L = N + 1 - a /\ \A k \in 1..(N + 1 - a) : rest[k] = s[a + k - 1]
  BY <1>1, <1>2, <1>4, SubSeqIs
<1>6. PICK rev, m, e : rev = Reverse(rest) /\ m = Leading(rev, IsSpace) /\ e = L - m
  OBVIOUS
<1>7. L \in Nat
  BY <1>3, <1>4, <1>5
<1>8. rev \in Seq(C) /\ Len(rev) = L /\ \A k \in 1..L : rev[k] = rest[(L - k) + 1]
  <2>1. rev = [k \in 1..L |-> rest[(L - k) + 1]]
    BY <1>2, <1>6 DEF Reverse
  <2>2. \A k \in 1..L : (L - k) + 1 \in 1..L
    BY <1>7
  <2>3. \A k \in 1..L : rest[(L - k) + 1] \in C
    BY <1>2, <1>5, <2>2, SeqIs
  <2> QED
    BY <1>7, <2>1, <2>3
<1>9. m \in 0..L /\ (m = L \/ ~IsSpace(rev[m + 1]))
  BY <1>6, <1>8, BlanksInFront
<1>10. PICK b : b = SubSeq(rest, 1, e)
  OBVIOUS
<1>11. Bare(s) = b
  BY <1>1, <1>2, <1>6, <1>10 DEF Bare, From
<1>12. /\ 1 \in 1..(L + 1) /\ e \in 0..L /\ 1 <= e + 1 /\ e + 1 - 1 = e
  BY <1>6, <1>7, <1>9
<1>13. b \in Seq(C) /\ Len(b) = e /\ \A k \in 1..e : b[k] = rest[1 + k - 1]
  <2>1. rest \in Seq(C) /\ 1 \in 1..(Len(rest) + 1) /\ e \in 0..Len(rest) /\ 1 <= e + 1
    BY <1>2, <1>5, <1>12
  <2>2. b \in Seq(C) /\ Len(b) = e + 1 - 1 /\ \A k \in 1..(e + 1 - 1) : b[k] = rest[1 + k - 1]
    BY <1>10, <2>1, SubSeqIs
  <2> QED
    BY <1>12, <2>2
<1>14. ASSUME b # <<>> PROVE ~IsSpace(b[1]) /\ ~IsSpace(b[e])
  <2>1. e # 0
    BY <1>13, <1>14
  <2>2. e >= 1 /\ e \in Nat /\ e <= L /\ 1 \in 1..e /\ e \in 1..e /\ 1 + 1 - 1 = 1 /\ 1 + e - 1 = e
    BY <1>7, <1>12, <2>1
  <2>3. b[1] = rest[1] /\ b[e] = rest[e]
    BY <1>13, <2>2
  <2>4. rest[1] = s[a]
    <3>1. 1 \in 1..(N + 1 - a) /\ a + 1 - 1 = a
      BY <1>3, <1>4, <1>5, <2>2
    <3> QED
      BY <1>5, <3>1
  <2>5. n # N
    BY <1>1, <1>3, <1>5, <2>2
  <2>6. PICK q : q = m + 1
    OBVIOUS
  <2>7. m # L /\ q \in 1..L /\ (L - q) + 1 = e
    BY <1>6, <1>7, <1>9, <2>1, <2>6
  <2>8. rev[q] = rest[e]
    BY <1>8, <2>7
  <2> QED
    BY <1>3, <1>9, <2>3, <2>4, <2>5, <2>6, <2>7, <2>8
<1> QED
  BY <1>11, <1>13, <1>14

\* A text that has no blank at either end stays as it is.
LEMMA BareStays ==
    ASSUME NEW C, NEW s \in Seq(C), s # <<>>, ~IsSpace(s[1]), ~IsSpace(s[Len(s)])
    PROVE  Bare(s) = s
<1>1. PICK N, n, a : N = Len(s) /\ n = Leading(s, IsSpace) /\ a = n + 1
  OBVIOUS
<1>2. N \in Nat /\ N >= 1
  BY <1>1
<1>3. n \in 0..N /\ \A i \in 1..n : IsSpace(s[i])
  BY <1>1, BlanksInFront
<1>4. n = 0
  <2>1. n # 0 => 1 \in 1..n
    BY <1>3
  <2> QED
    BY <1>3, <2>1
<1>5. SubSeq(s, 1, N) = s
  BY <1>1
<1>6. PICK rev, m : rev = Reverse(s) /\ m = Leading(rev, IsSpace)
  OBVIOUS
<1>7. rev \in Seq(C) /\ Len(rev) = N /\ rev[1] = s[N]
  <2>1. rev = [k \in 1..N |-> s[(N - k) + 1]]
    BY <1>1, <1>6 DEF Reverse
  <2>2. \A k \in 1..N : (N - k) + 1 \in 1..N
    BY <1>2
  <2>3. \A k \in 1..N : s[(N - k) + 1] \in C
    BY <1>1, <2>2, SeqIs
  <2>4. 1 \in 1..N /\ (N - 1) + 1 = N
    BY <1>2
  <2>5. rev[1] = s[(N - 1) + 1]
    BY <2>1, <2>4
  <2>6. rev[1] = s[N]
    BY <2>4, <2>5
  <2>7. rev \in Seq(C) /\ Len(rev) = N
    BY <1>2, <2>1, <2>3
  <2> QED
    BY <2>6, <2>7
<1>8. m \in 0..N /\ \A i \in 1..m : IsSpace(rev[i])
  BY <1>6, <1>7, BlanksInFront
<1>9. m = 0
  <2>1. m # 0 => 1 \in 1..m
    BY <1>8
  <2> QED
    BY <1>1, <1>7, <1>8, <2>1
<1>10. a = 1 /\ N - m = N
  BY <1>1, <1>2, <1>4, <1>9
<1>11. From(s, a) = s
  BY <1>1, <1>5, <1>10 DEF From
<1>12. Bare(s) = SubSeq(s, 1, N - m)
  BY <1>1, <1>6, <1>11 DEF Bare
<1> QED
  BY <1>5, <1>10, <1>12

\* What StrTrim(char* ) leaves has no blank at its ends and cannot be trimmed again,
\* but for a text of blanks; it says whether it has changed the text.
THEOREM TrimRuleHolds == \A C : \A s \in Seq(C) : TrimRule(s)
<1> SUFFICES ASSUME NEW C, NEW s \in Seq(C) PROVE TrimRule(s)
  OBVIOUS
<1>1. PICK out, b : out = StrTrim(s) /\ b = Bare(s)
  OBVIOUS
<1>2. out = IF b # <<>> /\ b # s THEN [changed |-> TRUE, text |-> b] ELSE [changed |-> FALSE, text |-> s]
  BY <1>1 DEF StrTrim
<1>3. out.changed <=> out.text # s
  BY <1>2
<1>4. ASSUME b # <<>> PROVE ~IsSpace(Head(b)) /\ ~IsSpace(Last(b)) /\ ~StrTrim(b).changed
  <2>1. b \in Seq(C) /\ ~IsSpace(b[1]) /\ ~IsSpace(b[Len(b)])
    BY <1>1, <1>4, BareIs
  <2>2. Bare(b) = b
    BY <1>4, <2>1, BareStays
  <2>3. StrTrim(b) = [changed |-> FALSE, text |-> b]
    BY <2>2 DEF StrTrim
  <2>4. Head(b) = b[1] /\ Last(b) = b[Len(b)]
    BY <1>4, <2>1 DEF Last
  <2> QED
    BY <2>1, <2>3, <2>4
<1>5. b # <<>> => out.text = b
  BY <1>2
<1> QED
  BY <1>1, <1>3, <1>4, <1>5 DEF TrimRule

------------------------------------------------------------------------------
(* File patterns.                                                             *)

\* Where the characters of a pattern stand in a name.
Placed(s, pattern, at) ==
    /\ at \in [1..(Len(pattern) + 1) -> 1..(Len(s) + 1)]
    /\ \A j \in 1..Len(pattern) :
           pattern[j] # Star => at[j + 1] = at[j] + 1 /\ s[at[j]] = pattern[j]

\* What has no star stands in the name as it stands in the pattern.
LEMMA PieceOccurs ==
    ASSUME NEW C, NEW s \in Seq(C), NEW pattern \in Seq(C), NEW at, Placed(s, pattern, at),
           NEW t, IsPiece(pattern, Star, t)
    PROVE  Occurs(s, t)
<1>1. PICK i \in 1..(Len(pattern) + 1), e \in 0..Len(pattern) :
          i <= e + 1 /\ t = SubSeq(pattern, i, e) /\ \A j \in i..e : pattern[j] # Star
  BY DEF IsPiece
<1>2. PICK n, p, L, a : n = Len(s) /\ p = Len(pattern) /\ L = e + 1 - i /\ a = at[i]
  OBVIOUS
<1>3. n \in Nat /\ p \in Nat /\ L \in Nat /\ i + L = e + 1 /\ i \in 1..(p + 1) /\ e \in 0..p
  BY <1>1, <1>2, SeqIs
<1>4. /\ at \in [1..(p + 1) -> 1..(n + 1)] /\ a \in 1..(n + 1)
      /\ \A j \in i..e : at[j + 1] = at[j] + 1 /\ s[at[j]] = pattern[j]
  <2>1. \A j \in i..e : j \in 1..p /\ pattern[j] # Star
    BY <1>1, <1>3
  <2> QED
    BY <1>2, <1>3, <2>1 DEF Placed
<1>5. t \in Seq(C) /\ Len(t) = L /\ \A k \in 1..L : t[k] = pattern[i + k - 1]
  BY <1>1, <1>2, SubSeqIs
<1>6. \A m \in 0..L : at[i + m] = a + m
  <2> DEFINE G == {m \in Nat : m <= L => at[i + m] = a + m}
  <2>1. 0 \in G
    BY <1>2, <1>3, <1>4
  <2>2. ASSUME NEW m \in Nat, m \in G PROVE m + 1 \in G
    <3> SUFFICES ASSUME m + 1 <= L PROVE at[i + (m + 1)] = a + (m + 1)
      OBVIOUS
    <3>1. PICK j : j = i + m
      OBVIOUS
    <3>2. j \in i..e /\ j + 1 = i + (m + 1) /\ m <= L
      BY <1>3, <3>1
    <3>3. at[j] = a + m
      BY <2>2, <3>1, <3>2
    <3>4. at[j + 1] = (a + m) + 1
      BY <1>4, <3>2, <3>3
    <3>5. (a + m) + 1 = a + (m + 1)
      BY <1>4
    <3>6. at[j + 1] = at[i + (m + 1)]
      BY <3>2
    <3> QED
      BY <3>4, <3>5, <3>6
  <2> HIDE DEF G
  <2>3. Nat \subseteq G
    BY <2>1, <2>2, Induct
  <2>4. \A m \in 0..L : m \in Nat /\ m <= L
    BY <1>3
  <2> QED
    BY <2>3, <2>4 DEF G
<1>7. PICK q : q = a + L - 1
  OBVIOUS
<1>8. q \in 0..n /\ a <= q + 1 /\ q + 1 - a = L
  <2>1. at[i + L] = a + L /\ i + L \in 1..(p + 1)
    BY <1>3, <1>6
  <2>2. a + L \in 1..(n + 1)
    BY <1>4, <2>1
  <2> QED
    BY <1>3, <1>4, <1>7, <2>2
<1>9. PICK u : u = SubSeq(s, a, q)
  OBVIOUS
<1>10. u \in Seq(C) /\ Len(u) = L /\ \A k \in 1..L : u[k] = s[a + k - 1]
  <2>1. a \in 1..(Len(s) + 1) /\ q \in 0..Len(s) /\ a <= q + 1
    BY <1>2, <1>4, <1>8
  <2>2. u \in Seq(C) /\ Len(u) = q + 1 - a /\ \A k \in 1..(q + 1 - a) : u[k] = s[a + k - 1]
    BY <1>9, <2>1, SubSeqIs
  <2> QED
    BY <1>8, <2>2
<1>11. ASSUME NEW k \in 1..L PROVE u[k] = t[k]
  <2>1. PICK m, j : m = k - 1 /\ j = i + m
    OBVIOUS
  <2>2. m \in 0..L /\ j \in i..e /\ i + k - 1 = j /\ a + k - 1 = a + m
    BY <1>3, <1>4, <2>1
  <2>3. at[j] = a + m /\ s[at[j]] = pattern[j]
    BY <1>4, <1>6, <2>1, <2>2
  <2> QED
    BY <1>5, <1>10, <2>2, <2>3
<1>12. u = t
  BY <1>5, <1>10, <1>11, SameSeq
<1>13. Matches(s, a, t)
  BY <1>2, <1>5, <1>7, <1>8, <1>9, <1>12 DEF Matches
<1> QED
  BY <1>2, <1>4, <1>13 DEF Occurs

\* A file whose name the pattern means is never missed by the search: wLog's
\* MatchingString finds all that fnmatch would.
THEOREM MatchCoversGlobHolds == \A C : \A s, pattern \in Seq(C) : MatchCoversGlob(s, pattern)
<1> SUFFICES ASSUME NEW C, NEW s \in Seq(C), NEW pattern \in Seq(C), Glob(s, pattern)
             PROVE  MatchingString(s, pattern)
  BY DEF MatchCoversGlob
<1>1. PICK at : Placed(s, pattern, at)
  BY DEF Glob, Placed
<1>2. CASE pattern = <<>>
  <2>1. DOMAIN Pieces(pattern) = {}
    BY <1>2 DEF Pieces, SplitStr_x
  <2> QED
    BY <2>1 DEF MatchingString
<1>3. CASE pattern # <<>>
  <2>1. PICK D : D = C \cup {Star}
    OBVIOUS
  <2>2. Star \in D /\ pattern \in Seq(D)
    BY <2>1
  <2>3. PICK f : SplitStr_x(pattern, <<Star>>) = f[1] /\ Splitting(pattern, <<Star>>, f)
    BY <1>3, SplitIs
  <2>4. Rejoins(f, pattern, Star, D, 1)
    BY <2>2, <2>3, RejoinsAll
  <2>5. f[1] \in Seq(Seq(D)) /\ \A k \in 1..Len(f[1]) : IsPiece(pattern, Star, f[1][k])
    BY <2>4 DEF Rejoins
  <2>6. DOMAIN f[1] = 1..Len(f[1])
    BY <2>5
  <2>7. \A k \in DOMAIN f[1] : Occurs(s, f[1][k])
    BY <1>1, <2>5, <2>6, PieceOccurs
  <2> QED
    BY <2>3, <2>7 DEF MatchingString, Pieces
<1> QED
  BY <1>2, <1>3

------------------------------------------------------------------------------
(* Parameters.                                                                *)

\* Where t ends and x begins.
Between(w, t, c, x) ==
    /\ Len(w) = Len(t) + 1 + Len(x) /\ w[Len(t) + 1] = c
    /\ \A j \in 1..Len(t) : w[j] = t[j]
    /\ \A j \in 1..Len(x) : w[Len(t) + 1 + j] = x[j]

\* A text, a character and another text.
LEMMA BetweenIs ==
    ASSUME NEW C, NEW t \in Seq(C), NEW x \in Seq(C), NEW c \in C
    PROVE  \E w \in Seq(C) : w = (t \o <<c>>) \o x /\ Between(w, t, c, x)
<1>0. PICK w : w = (t \o <<c>>) \o x
  OBVIOUS
<1>1. PICK d, v, l, n, m : d = <<c>> /\ v = t \o d /\ l = Len(t) /\ n = Len(x) /\ m = l + 1
  OBVIOUS
<1>2. d \in Seq(C) /\ Len(d) = 1 /\ d[1] = c
  BY <1>1
<1>3. l \in Nat /\ n \in Nat /\ m \in Nat
  BY <1>1
<1>4. v \in Seq(C) /\ Len(v) = m /\ (\A j \in 1..l : v[j] = t[j]) /\ v[m] = c
  <2>1. d \in Seq(C) /\ t \in Seq(C) /\ v = t \o d
    BY <1>1, <1>2
  <2>2. /\ v \in Seq(C) /\ Len(v) = Len(t) + Len(d) /\ \A j \in 1..Len(t) : v[j] = t[j]
        /\ \A j \in 1..Len(d) : v[Len(t) + j] = d[j]
    BY <2>1
  <2> QED
    BY <1>1, <1>2, <1>3, <2>2
<1>5. /\ w \in Seq(C) /\ Len(w) = m + n /\ \A j \in 1..m : w[j] = v[j]
      /\ \A j \in 1..n : w[m + j] = x[j]
  <2>1. v \in Seq(C) /\ x \in Seq(C) /\ w = v \o x
    BY <1>0, <1>1, <1>4
  <2>3. PICK a, b : a = Len(v) /\ b = Len(x)
    OBVIOUS
  <2>2. /\ w \in Seq(C) /\ Len(w) = a + b /\ \A j \in 1..a : w[j] = v[j]
        /\ \A j \in 1..b : w[a + j] = x[j]
    BY <2>1, <2>3
  <2> QED
    BY <1>1, <1>4, <2>2, <2>3
<1>6. w[m] = c /\ \A j \in 1..l : w[j] = t[j]
  <2>1. m \in 1..m /\ \A j \in 1..l : j \in 1..m
    BY <1>1, <1>3
  <2> QED
    BY <1>4, <1>5, <2>1
<1>7. \A j \in 1..n : w[(l + 1) + j] = x[j]
  BY <1>1, <1>5
<1> QED
  BY <1>0, <1>1, <1>5, <1>6, <1>7 DEF Between

\* A text without the separator before it is the same in both.
LEMMA SameBetween ==
    ASSUME NEW C, NEW t \in Seq(C), NEW x \in Seq(C), NEW u \in Seq(C), NEW y \in Seq(C), NEW c, NEW w,
           Between(w, t, c, x), Between(w, u, c, y), ~Contains(t, c), ~Contains(u, c)
    PROVE  t = u /\ x = y
<1>1. PICK l, n, k, m : l = Len(t) /\ n = Len(x) /\ k = Len(u) /\ m = Len(y)
  OBVIOUS
<1>2. l \in Nat /\ n \in Nat /\ k \in Nat /\ m \in Nat
  BY <1>1
<1>3. /\ Len(w) = l + 1 + n /\ w[l + 1] = c
      /\ \A j \in 1..l : w[j] = t[j]
      /\ \A j \in 1..n : w[l + 1 + j] = x[j]
  BY <1>1 DEF Between
<1>4. /\ Len(w) = k + 1 + m /\ w[k + 1] = c
      /\ \A j \in 1..k : w[j] = u[j]
      /\ \A j \in 1..m : w[k + 1 + j] = y[j]
  BY <1>1 DEF Between
<1>5. (\A j \in 1..l : t[j] # c) /\ (\A j \in 1..k : u[j] # c)
  BY <1>1 DEF Contains
<1>6. ~(l < k) /\ ~(k < l)
  <2>1. l < k => l + 1 \in 1..k
    BY <1>2
  <2>2. k < l => k + 1 \in 1..l
    BY <1>2
  <2> QED
    BY <1>3, <1>4, <1>5, <2>1, <2>2
<1>7. l = k
  BY <1>2, <1>6
<1>8. n = m
  BY <1>2, <1>3, <1>4, <1>7
<1>9. t = u
  <2>1. \A j \in 1..l : t[j] = u[j]
    BY <1>3, <1>4, <1>7
  <2> QED
    BY <1>1, <1>7, <2>1, SameSeq
<1>10. x = y
  <2>1. \A j \in 1..n : x[j] = y[j]
    BY <1>3, <1>4, <1>7, <1>8
  <2> QED
    BY <1>1, <1>8, <2>1, SameSeq
<1> QED
  BY <1>9, <1>10

\* Pieces, none of which has the separator.
Clean(q, C, c) == q \in Seq(Seq(C)) /\ Len(q) >= 1 /\ \A k \in 1..Len(q) : ~Contains(q[k], c)

\* The first piece and the others.
OneOfThem(q, C, c, t) == t \in Seq(C) /\ ~Contains(t, c) /\ q = <<t>> /\ Joined(q, c) = t
MoreOfThem(q, C, c, t, r) ==
    /\ t \in Seq(C) /\ ~Contains(t, c) /\ Clean(r, C, c) /\ Len(q) = Len(r) + 1 /\ q = <<t>> \o r
    /\ Joined(q, c) \in Seq(C) /\ Joined(r, c) \in Seq(C)
    /\ Between(Joined(q, c), t, c, Joined(r, c))

\* Pieces without a separator are one, or a first and others.
LEMMA CleanIs ==
    ASSUME NEW C, NEW c \in C, NEW q, Clean(q, C, c)
    PROVE  (\E t : OneOfThem(q, C, c, t)) \/ (\E t, r : MoreOfThem(q, C, c, t, r))
<1>1. PICK N, t, r : N = Len(q) /\ t = q[1] /\ r = SubSeq(q, 2, N)
  OBVIOUS
<1>2. /\ q \in Seq(Seq(C)) /\ N \in Nat /\ N >= 1
      /\ \A k \in 1..N : q[k] \in Seq(C) /\ ~Contains(q[k], c)
  BY <1>1, SeqIs DEF Clean
<1>3. t \in Seq(C) /\ ~Contains(t, c)
  <2>1. 1 \in 1..N
    BY <1>2
  <2> QED
    BY <1>1, <1>2, <2>1
<1>4. CASE N = 1
  <2>1. q = <<t>>
    <3>1. q \in Seq(Seq(C)) /\ Len(q) = 1 /\ q[1] = t
      BY <1>1, <1>2, <1>4
    <3> QED
      BY <3>1
  <2>2. Joined(<<t>>, c) = t
    BY <1>3, JoinOne
  <2>3. OneOfThem(q, C, c, t)
    BY <1>3, <2>1, <2>2 DEF OneOfThem
  <2> QED
    BY <2>3
<1>5. CASE N # 1
  <2>1. 2 \in 1..(N + 1) /\ N \in 0..N /\ 2 <= N + 1 /\ N >= 2
    BY <1>2, <1>5
  <2>2. /\ r \in Seq(Seq(C)) /\ Len(r) = N + 1 - 2
        /\ \A k \in 1..(N + 1 - 2) : r[k] = q[2 + k - 1]
    <3>1. 2 \in 1..(Len(q) + 1) /\ N \in 0..Len(q) /\ 2 <= N + 1
      BY <1>1, <2>1
    <3> QED
      BY <1>1, <1>2, <3>1, SubSeqIs
  <2>3. PICK M : M = N - 1
    OBVIOUS
  <2>4. M \in Nat /\ M >= 1 /\ Len(r) = M /\ N = M + 1 /\ \A k \in 1..M : r[k] = q[k + 1]
    <3>1. N + 1 - 2 = M /\ \A k \in 1..M : 2 + k - 1 = k + 1
      BY <1>2, <2>3
    <3> QED
      BY <1>2, <2>1, <2>2, <2>3, <3>1
  <2>5. Clean(r, C, c)
    <3>1. ASSUME NEW k \in 1..M PROVE ~Contains(r[k], c)
      <4>1. k + 1 \in 1..N
        BY <2>4
      <4> QED
        BY <1>2, <2>4, <4>1
    <3> QED
      BY <2>2, <2>4, <3>1 DEF Clean
  <2>6. q = <<t>> \o r
    <3>1. PICK w : w = <<t>> \o r
      OBVIOUS
    <3>2. <<t>> \in Seq(Seq(C))
      BY <1>3
    <3>3. w \in Seq(Seq(C)) /\ Len(w) = M + 1 /\ w[1] = t /\ \A k \in 1..M : w[k + 1] = r[k]
      BY <2>2, <2>4, <3>1, <3>2
    <3>4. ASSUME NEW k \in 1..N PROVE w[k] = q[k]
      <4>1. CASE k = 1
        BY <1>1, <3>3, <4>1
      <4>2. CASE k # 1
        <5>1. PICK m : m = k - 1
          OBVIOUS
        <5>2. m \in 1..M /\ m + 1 = k
          BY <2>4, <4>2, <5>1
        <5> QED
          BY <2>4, <3>3, <5>2
      <4> QED
        BY <4>1, <4>2
    <3>5. w = q
      <4>1. /\ w \in Seq(Seq(C)) /\ q \in Seq(Seq(C)) /\ Len(w) = Len(q)
            /\ \A k \in 1..Len(w) : w[k] = q[k]
        BY <1>1, <1>2, <2>4, <3>3, <3>4
      <4> QED
        BY <4>1, SameSeq
    <3> QED
      BY <3>1, <3>5
  <2>7. Joined(r, c) \in Seq(C)
    <3>1. PICK out : /\ Joined(r, c) = out[Len(r)] /\ \A k \in 0..Len(r) : out[k] \in Seq(C)
      BY <2>2, JoinedIs
    <3>2. Len(r) \in 0..Len(r)
      BY <2>4
    <3> QED
      BY <3>1, <3>2
  <2>8. Joined(q, c) = (t \o <<c>>) \o Joined(r, c)
    <3>1. Len(r) >= 1
      BY <2>4
    <3>2. MoreJoined(t, r, c)
      BY <1>3, <2>2, <3>1, JoinMore
    <3> QED
      BY <2>6, <3>2 DEF MoreJoined
  <2>9. Joined(q, c) \in Seq(C) /\ Between(Joined(q, c), t, c, Joined(r, c))
    <3>1. PICK x : x = Joined(r, c)
      OBVIOUS
    <3>2. x \in Seq(C)
      BY <2>7, <3>1
    <3>3. PICK w \in Seq(C) : w = (t \o <<c>>) \o x /\ Between(w, t, c, x)
      BY <1>3, <3>2, BetweenIs
    <3>4. Joined(q, c) = w
      BY <2>8, <3>1, <3>3
    <3> QED
      BY <3>1, <3>3, <3>4
  <2>10. MoreOfThem(q, C, c, t, r)
    BY <1>1, <1>3, <2>4, <2>5, <2>6, <2>7, <2>9 DEF MoreOfThem
  <2> QED
    BY <2>10
<1> QED
  BY <1>4, <1>5

\* Only these pieces make this text.
LEMMA JoinedOnce ==
    ASSUME NEW C, NEW c \in C
    PROVE  \A q, r : Clean(q, C, c) /\ Clean(r, C, c) /\ Joined(q, c) = Joined(r, c) => q = r
<1> DEFINE Once(q, r) == Clean(q, C, c) /\ Clean(r, C, c) /\ Joined(q, c) = Joined(r, c) => q = r
           G == {n \in Nat : \A q, r : Len(q) <= n => Once(q, r)}
<1>1. 0 \in G
  BY DEF Clean
\* one piece has no separator, more have
<1>2. ASSUME NEW q, NEW r, NEW t, NEW u, NEW v, OneOfThem(q, C, c, t), MoreOfThem(r, C, c, u, v)
      PROVE  Joined(q, c) # Joined(r, c)
  <2>1. PICK w, k : w = Joined(r, c) /\ k = Len(u) + 1
    OBVIOUS
  <2>2. w[k] = c /\ Len(w) = k + Len(Joined(v, c)) /\ Len(Joined(v, c)) \in Nat /\ Len(u) \in Nat
    BY <1>2, <2>1 DEF MoreOfThem, Between
  <2>3. k \in 1..Len(w)
    BY <2>1, <2>2
  <2>4. Contains(w, c)
    BY <2>2, <2>3 DEF Contains
  <2> QED
    BY <1>2, <2>1, <2>4 DEF OneOfThem
<1>3. ASSUME NEW n \in Nat, n \in G PROVE n + 1 \in G
  <2> SUFFICES ASSUME NEW q, NEW r, Len(q) <= n + 1, Clean(q, C, c), Clean(r, C, c),
                      Joined(q, c) = Joined(r, c)
               PROVE  q = r
    OBVIOUS
  <2>1. \A x, y : Len(x) <= n => Once(x, y)
    BY <1>3
  <2> HIDE DEF G
  <2>2. ASSUME NEW t, NEW u, OneOfThem(q, C, c, t), OneOfThem(r, C, c, u) PROVE q = r
    BY <2>2 DEF OneOfThem
  <2>3. ASSUME NEW t, NEW x, NEW u, NEW y, MoreOfThem(q, C, c, t, x), MoreOfThem(r, C, c, u, y)
        PROVE  q = r
    <3>1. PICK w, a, b : w = Joined(q, c) /\ a = Joined(x, c) /\ b = Joined(y, c)
      OBVIOUS
    <3>2. /\ Between(w, t, c, a) /\ Between(w, u, c, b) /\ ~Contains(t, c) /\ ~Contains(u, c)
          /\ t \in Seq(C) /\ u \in Seq(C) /\ a \in Seq(C) /\ b \in Seq(C)
      BY <2>3, <3>1 DEF MoreOfThem
    <3>3. t = u /\ a = b
      BY <3>2, SameBetween
    <3>4. Len(q) = Len(x) + 1 /\ Clean(x, C, c) /\ Clean(y, C, c)
      BY <2>3 DEF MoreOfThem
    <3>5. Len(x) <= n
      <4>1. Len(x) \in Nat
        BY <3>4 DEF Clean
      <4> QED
        BY <3>4, <4>1
    <3>6. x = y
      BY <2>1, <3>1, <3>3, <3>4, <3>5
    <3> QED
      BY <2>3, <3>3, <3>6 DEF MoreOfThem
  <2>4. (\E t : OneOfThem(q, C, c, t)) \/ (\E t, x : MoreOfThem(q, C, c, t, x))
    BY CleanIs
  <2>5. (\E t : OneOfThem(r, C, c, t)) \/ (\E t, x : MoreOfThem(r, C, c, t, x))
    BY CleanIs
  <2> QED
    BY <1>2, <2>2, <2>3, <2>4, <2>5
<1> HIDE DEF G
<1>4. Nat \subseteq G
  BY <1>1, <1>3, Induct
<1>5. ASSUME NEW q, NEW r, Clean(q, C, c) PROVE Once(q, r)
  <2>1. Len(q) \in Nat
    BY <1>5 DEF Clean
  <2>2. Len(q) \in G /\ Len(q) <= Len(q)
    BY <1>4, <2>1
  <2> QED
    BY <2>2 DEF G
<1> QED
  BY <1>5

\* SplitStr, if empty pieces are kept, starts its pieces as SplitStr_x does.
LEMMA SplitStrIs ==
    ASSUME NEW C, NEW s \in Seq(C), s # <<>>, NEW sep, sep # <<>>
    PROVE  \E f : SplitStr(s, sep, FALSE) = f[1] /\ Splitting(s, sep, f)
<1> DEFINE Eq(f) == f = [i \in 1..(Len(s) + 1) |->
                LET hits  == {j \in i..Len(s) : Matches(s, j, sep)}
                    piece == SubSeq(s, i, First(hits) - 1)
                IN  IF hits = {} THEN << From(s, i) >>
                    ELSE (IF piece = <<>> /\ FALSE THEN <<>> ELSE << piece >>)
                         \o f[First(hits) + 1]]
<1>1. \E f : Eq(f)
  <2>1. PICK f \in [1..(Len(s) + 1) -> Seq(Seq(C))] : Splitting(s, sep, f)
    BY SplitSolved
  <2>2. Eq(f)
    BY <2>1 DEF Splitting, SplitFrom, From
  <2> QED
    BY <2>2
<1> DEFINE u == CHOOSE f : Eq(f)
<1>2. Eq(u)
  <2> HIDE DEF Eq
  <2> QED
    BY <1>1
<1>3. SplitStr(s, sep, FALSE) = u[1]
  BY DEF SplitStr
<1> HIDE DEF u
<1>4. Splitting(s, sep, u)
  BY <1>2 DEF Splitting, SplitFrom, From
<1> QED
  BY <1>3, <1>4

\* Pieces without the separator are read back.
LEMMA ReadBack ==
    ASSUME NEW C, NEW c \in C, NEW q, Clean(q, C, c), Joined(q, c) # <<>>
    PROVE  SplitStr(Joined(q, c), <<c>>, FALSE) = q
<1>1. PICK s : s = Joined(q, c)
  OBVIOUS
<1>2. s \in Seq(C)
  <2>1. (\E t : OneOfThem(q, C, c, t)) \/ (\E t, r : MoreOfThem(q, C, c, t, r))
    BY CleanIs
  <2> QED
    BY <1>1, <2>1 DEF OneOfThem, MoreOfThem
<1>3. PICK f : SplitStr(s, <<c>>, FALSE) = f[1] /\ Splitting(s, <<c>>, f)
  <2>1. s # <<>> /\ <<c>> # <<>>
    BY <1>1
  <2> QED
    BY <1>2, <2>1, SplitStrIs
<1>4. Rejoins(f, s, c, C, 1)
  BY <1>2, <1>3, RejoinsAll
<1>5. Clean(f[1], C, c) /\ Joined(f[1], c) = SubSeq(s, 1, Len(s))
  BY <1>2, <1>4, PieceIs DEF Rejoins, Clean
<1>6. SubSeq(s, 1, Len(s)) = s
  BY <1>2
<1>7. f[1] = q
  BY <1>1, <1>5, <1>6, JoinedOnce
<1> QED
  BY <1>1, <1>3, <1>7

\* A parameter, as it is written, is read into the ones before it.
ParamText(key, value) == key \o <<Equals>> \o value

\* A key and a value that are written are read back.
LEMMA ReadsParam ==
    ASSUME NEW C, Equals \in C, NEW key \in Seq(C), NEW value \in Seq(C),
           key # <<>>, ~Contains(key, Equals), NEW out
    PROVE  WithParam(out, ParamText(key, value)) = Put(out, key, value)
<1>1. PICK w \in Seq(C) : w = (key \o <<Equals>>) \o value /\ Between(w, key, Equals, value)
  BY BetweenIs
<1>2. PICK l, n, m, N : l = Len(key) /\ n = Len(value) /\ m = l + 1 /\ N = Len(w)
  OBVIOUS
<1>3. l \in Nat /\ n \in Nat /\ l # 0 /\ m \in Nat /\ N \in Nat /\ m # 1 /\ m - 1 = l /\ N = m + n
  BY <1>1, <1>2 DEF Between
<1>4. /\ w[m] = Equals
      /\ \A j \in 1..l : w[j] = key[j] /\ w[j] # Equals
      /\ \A j \in 1..n : w[m + j] = value[j]
  BY <1>1, <1>2 DEF Between, Contains
<1>5. PICK eq : eq = Starts(w, <<Equals>>)
  OBVIOUS
<1>6. eq = {j \in 1..N : w[j] = Equals}
  <2>1. ASSUME NEW j \in 1..(N + 1) PROVE Matches(w, j, <<Equals>>) <=> j \in 1..N /\ w[j] = Equals
    <3>1. CASE j \in 1..N
      BY <1>2, <3>1, MatchesOne
    <3>2. CASE j \notin 1..N
      <4>1. j = N + 1 /\ Len(<<Equals>>) = 1
        BY <1>3, <3>2
      <4>2. ~(j + 1 - 1 <= N)
        BY <1>3, <4>1
      <4> QED
        BY <1>2, <3>2, <4>1, <4>2 DEF Matches
    <3> QED
      BY <3>1, <3>2
  <2> QED
    <3>1. eq = {j \in 1..(N + 1) : Matches(w, j, <<Equals>>)}
      BY <1>2, <1>5 DEF Starts
    <3>2. \A j \in 1..N : j \in 1..(N + 1)
      BY <1>3
    <3>3. eq = {j \in 1..(N + 1) : j \in 1..N /\ w[j] = Equals}
      BY <2>1, <3>1
    <3> QED
      BY <3>2, <3>3
<1>7. eq # {} /\ First(eq) = m
  <2>1. m \in eq
    BY <1>3, <1>4, <1>6
  <2>2. \A j \in eq : m <= j
    <3>1. \A j \in 1..N : j < m => j \in 1..l
      BY <1>2, <1>3
    <3> QED
      BY <1>3, <1>4, <1>6, <3>1
  <2>3. eq \subseteq Nat
    BY <1>6
  <2>4. First(eq) \in eq /\ \A j \in eq : First(eq) <= j
    BY <2>1, <2>3, FirstIs
  <2>5. First(eq) <= m /\ m <= First(eq) /\ First(eq) \in Nat
    BY <2>1, <2>2, <2>3, <2>4
  <2> QED
    BY <1>3, <2>1, <2>5
<1>8. w # <<>>
  <2>1. Len(w) # 0
    BY <1>2, <1>3
  <2> QED
    BY <2>1
<1>9. SubSeq(w, 1, l) = key
  <2>1. PICK t : t = SubSeq(w, 1, l)
    OBVIOUS
  <2>2. t \in Seq(C) /\ Len(t) = l + 1 - 1 /\ \A k \in 1..(l + 1 - 1) : t[k] = w[1 + k - 1]
    <3>1. 1 \in 1..(Len(w) + 1) /\ l \in 0..Len(w) /\ 1 <= l + 1
      BY <1>2, <1>3
    <3> QED
      BY <2>1, <3>1, SubSeqIs
  <2>3. l + 1 - 1 = l /\ \A k \in 1..l : 1 + k - 1 = k
    BY <1>3
  <2>4. Len(t) = Len(key) /\ \A k \in 1..Len(t) : t[k] = key[k]
    BY <1>2, <1>4, <2>2, <2>3
  <2> QED
    BY <2>1, <2>2, <2>4, SameSeq
<1>10. From(w, m + 1) = value
  <2>1. PICK t, a : t = From(w, m + 1) /\ a = m + 1
    OBVIOUS
  <2>2. t \in Seq(C) /\ Len(t) = N + 1 - a /\ \A k \in 1..(N + 1 - a) : t[k] = w[a + k - 1]
    <3>1. a \in 1..(Len(w) + 1) /\ N \in 0..Len(w) /\ a <= N + 1
      BY <1>2, <1>3, <2>1
    <3>2. t = SubSeq(w, a, N)
      BY <1>2, <2>1 DEF From
    <3> QED
      BY <3>1, <3>2, SubSeqIs
  <2>3. N + 1 - a = n /\ \A k \in 1..n : a + k - 1 = m + k
    BY <1>3, <2>1
  <2>4. Len(t) = Len(value) /\ \A k \in 1..Len(t) : t[k] = value[k]
    BY <1>2, <1>4, <2>2, <2>3
  <2> QED
    BY <2>1, <2>2, <2>4, SameSeq
<1>11. WithParam(out, w) = Put(out, SubSeq(w, 1, m - 1), From(w, m + 1))
  BY <1>3, <1>5, <1>7, <1>8 DEF WithParam
<1>12. ParamText(key, value) = w
  BY <1>1 DEF ParamText
<1> QED
  BY <1>3, <1>9, <1>10, <1>11, <1>12

\* SetToSeq gives each element a place.
LEMMA KeysAre ==
    ASSUME NEW K, IsFiniteSet(K), NEW keys, keys = SetToSeq(K)
    PROVE  /\ keys \in Seq(K) /\ Len(keys) \in Nat
           /\ \A x \in K : \E i \in 1..Len(keys) : keys[i] = x
<1>1. PICK n : n = Cardinality(K)
  OBVIOUS
<1>2. n \in Nat /\ ExistsBijection(1..n, K)
  BY <1>1, FS_CardinalityType
<1>3. PICK f : f \in Bijection(1..n, K)
  BY <1>2 DEF ExistsBijection
<1>4. f \in [1..n -> K] /\ IsInjective(f)
  BY <1>3 DEF Bijection, Injection, IsInjective
<1>5. keys = CHOOSE g \in [1..n -> K] : IsInjective(g)
  BY <1>1 DEF SetToSeq
<1>6. keys \in [1..n -> K] /\ IsInjective(keys)
  BY <1>4, <1>5
<1>7. keys \in Injection(1..n, K)
  BY <1>6 DEF Injection, IsInjective
<1>8. Cardinality(1..n) = n
  BY <1>2, FS_Interval
<1>9. keys \in Surjection(1..n, K)
  BY <1>1, <1>7, <1>8, FS_Injection
<1>10. \A x \in K : \E i \in 1..n : keys[i] = x
  BY <1>9 DEF Surjection
<1>11. keys \in Seq(K) /\ Len(keys) = n
  BY <1>2, <1>6
<1> QED
  BY <1>2, <1>10, <1>11

\* Parameters: what ends a key or a value is in none.
IsParams(params, C) ==
    /\ IsFiniteSet(DOMAIN params) /\ params = [k \in DOMAIN params |-> params[k]]
    /\ \A k \in DOMAIN params : /\ k \in Seq(C \ {Equals, Semicolon}) \ {<<>>}
                                /\ params[k] \in Seq(C \ {Semicolon})

\* A text over fewer characters holds none of the others.
LEMMA HasNot ==
    ASSUME NEW C, NEW D, C \subseteq D, NEW t \in Seq(C), NEW x, x \notin C
    PROVE  t \in Seq(D) /\ ~Contains(t, x)
<1>1. \A i \in 1..Len(t) : t[i] \in C
  BY SeqIs
<1>2. ~Contains(t, x)
  BY <1>1 DEF Contains
<1> QED
  BY <1>2

\* What is written for a key and a value is one piece.
LEMMA NoSeparator ==
    ASSUME NEW C, Equals \in C, NEW key \in Seq(C), NEW value \in Seq(C),
           ~Contains(key, Semicolon), ~Contains(value, Semicolon)
    PROVE  /\ ParamText(key, value) \in Seq(C) /\ ParamText(key, value) # <<>>
           /\ ~Contains(ParamText(key, value), Semicolon)
<1>1. PICK w \in Seq(C) : w = (key \o <<Equals>>) \o value /\ Between(w, key, Equals, value)
  BY BetweenIs
<1>2. PICK l, n, m, N : l = Len(key) /\ n = Len(value) /\ m = l + 1 /\ N = Len(w)
  OBVIOUS
<1>3. l \in Nat /\ n \in Nat /\ m \in Nat /\ N \in Nat /\ N = m + n
  BY <1>1, <1>2 DEF Between
<1>4. /\ w[m] = Equals
      /\ \A j \in 1..l : w[j] = key[j] /\ w[j] # Semicolon
      /\ \A j \in 1..n : w[m + j] = value[j] /\ w[m + j] # Semicolon
  BY <1>1, <1>2 DEF Between, Contains
<1>5. Equals # Semicolon
  BY DEF Equals, Semicolon
<1>6. ASSUME NEW j \in 1..N PROVE w[j] # Semicolon
  <2>1. CASE j <= l
    <3>1. j \in 1..l
      BY <1>3, <2>1
    <3> QED
      BY <1>4, <3>1
  <2>2. CASE j = m
    BY <1>4, <1>5, <2>2
  <2>3. CASE j > m
    <3>1. PICK k : k = j - m
      OBVIOUS
    <3>2. k \in 1..n /\ m + k = j
      BY <1>3, <2>3, <3>1
    <3> QED
      BY <1>4, <3>2
  <2> QED
    BY <1>2, <1>3, <2>1, <2>2, <2>3
<1>7. w # <<>>
  <2>1. Len(w) # 0
    BY <1>2, <1>3
  <2> QED
    BY <2>1
<1>8. ~Contains(w, Semicolon)
  BY <1>2, <1>6 DEF Contains
<1>9. ParamText(key, value) = w
  BY <1>1 DEF ParamText
<1> QED
  BY <1>7, <1>8, <1>9

\* The parameters, written and split again.
LEMMA ParamPieces ==
    ASSUME NEW C, NEW params, IsParams(params, C), NEW keys, keys = SetToSeq(DOMAIN params),
           NEW pieces, pieces = [i \in 1..Len(keys) |-> ParamText(keys[i], params[keys[i]])]
    PROVE  SplitStr(Joined(pieces, Semicolon), <<Semicolon>>, FALSE) = pieces
<1>1. PICK K, D, N : K = DOMAIN params /\ D = C \cup {Equals, Semicolon} /\ N = Len(keys)
  OBVIOUS
<1>2. keys \in Seq(K) /\ N \in Nat
  BY <1>1, KeysAre DEF IsParams
<1>3. ASSUME NEW i \in 1..N
      PROVE  pieces[i] \in Seq(D) /\ pieces[i] # <<>> /\ ~Contains(pieces[i], Semicolon)
  <2>1. PICK k, v : k = keys[i] /\ v = params[keys[i]]
    OBVIOUS
  <2>2. k \in K
    BY <1>1, <1>2, <2>1
  <2>3. k \in Seq(C \ {Equals, Semicolon}) /\ v \in Seq(C \ {Semicolon})
    BY <1>1, <2>1, <2>2 DEF IsParams
  <2>4. /\ C \ {Equals, Semicolon} \subseteq D /\ Semicolon \notin C \ {Equals, Semicolon}
        /\ C \ {Semicolon} \subseteq D /\ Semicolon \notin C \ {Semicolon} /\ Equals \in D
    BY <1>1
  <2>5. k \in Seq(D) /\ ~Contains(k, Semicolon)
    BY <2>3, <2>4, HasNot
  <2>6. v \in Seq(D) /\ ~Contains(v, Semicolon)
    BY <2>3, <2>4, HasNot
  <2>7. pieces[i] = ParamText(k, v)
    BY <1>1, <2>1
  <2> QED
    BY <2>4, <2>5, <2>6, <2>7, NoSeparator
<1>4. pieces \in Seq(Seq(D)) /\ Len(pieces) = N
  BY <1>1, <1>2, <1>3
<1>5. CASE N = 0
  <2>1. pieces = <<>>
    BY <1>4, <1>5
  <2>2. PICK out : Joined(pieces, Semicolon) = out[Len(pieces)] /\ JoinChain(out, pieces, Semicolon)
    <3>1. Semicolon \in D
      BY <1>1
    <3> QED
      BY <1>4, <3>1, JoinedIs
  <2>3. Joined(pieces, Semicolon) = <<>>
    BY <1>4, <1>5, <2>2 DEF JoinChain
  <2> QED
    BY <2>1, <2>3 DEF SplitStr
<1>6. CASE N # 0
  <2>1. Clean(pieces, D, Semicolon) /\ Semicolon \in D
    BY <1>1, <1>2, <1>3, <1>4, <1>6 DEF Clean
  <2>2. Joined(pieces, Semicolon) # <<>>
    <3>1. ASSUME NEW t, OneOfThem(pieces, D, Semicolon, t) PROVE Joined(pieces, Semicolon) # <<>>
      <4>1. Joined(pieces, Semicolon) = t /\ pieces = <<t>>
        BY <3>1 DEF OneOfThem
      <4>2. pieces[1] = t /\ Len(pieces) = 1
        BY <4>1
      <4>3. t # <<>>
        BY <1>3, <1>4, <4>2
      <4> QED
        BY <4>1, <4>3
    <3>2. ASSUME NEW t, NEW r, MoreOfThem(pieces, D, Semicolon, t, r)
          PROVE  Joined(pieces, Semicolon) # <<>>
      <4>1. PICK w, x : w = Joined(pieces, Semicolon) /\ x = Joined(r, Semicolon)
        OBVIOUS
      <4>2. Len(w) = Len(t) + 1 + Len(x) /\ Len(t) \in Nat /\ Len(x) \in Nat
        <5>1. t \in Seq(D) /\ x \in Seq(D) /\ Between(w, t, Semicolon, x)
          BY <3>2, <4>1 DEF MoreOfThem
        <5> QED
          BY <5>1 DEF Between
      <4>3. Len(w) # 0
        BY <4>2
      <4>4. w # <<>>
        BY <4>3
      <4> QED
        BY <4>1, <4>4
    <3> QED
      BY <2>1, <3>1, <3>2, CleanIs
  <2> QED
    BY <2>1, <2>2, ReadBack
<1> QED
  BY <1>5, <1>6

\* Parameters that are written key=value;key=value are read as they were:
\* SplitParamStr, whatever the keys and values, if only what ends them is not in them.
THEOREM ParamRuleHolds == \A C, params : IsParams(params, C) => ParamRule(params)
<1> SUFFICES ASSUME NEW C, NEW params, IsParams(params, C) PROVE ParamRule(params)
  OBVIOUS
<1>1. PICK keys : keys = SetToSeq(DOMAIN params)
  OBVIOUS
<1>2. PICK pieces : pieces = [i \in 1..Len(keys) |-> ParamText(keys[i], params[keys[i]])]
  OBVIOUS
<1>3. PICK s : s = Joined(pieces, Semicolon)
  OBVIOUS
<1> DEFINE q == SplitStr(s, <<Semicolon>>, FALSE)
           Eq(f) == f = [k \in 0..Len(q) |->
                IF k = 0 THEN [key \in {} |-> <<>>] ELSE WithParam(f[k - 1], q[k])]
           Upto(k) == [key \in {keys[i] : i \in 1..k} |-> params[key]]
<1>4. q = pieces
  BY <1>1, <1>2, <1>3, ParamPieces
<1>5. PICK N : N = Len(keys)
  OBVIOUS
<1>6. N \in Nat /\ keys \in Seq(DOMAIN params) /\ \A x \in DOMAIN params : \E i \in 1..N : keys[i] = x
  BY <1>1, <1>5, KeysAre DEF IsParams
<1>7. Len(q) = N /\ \A i \in 1..N : q[i] = ParamText(keys[i], params[keys[i]])
  <2>1. Len(pieces) = N /\ \A i \in 1..N : pieces[i] = ParamText(keys[i], params[keys[i]])
    BY <1>2, <1>5, <1>6
  <2> HIDE DEF q
  <2> QED
    BY <1>4, <2>1
<1>8. ASSUME NEW k \in 1..N PROVE WithParam(Upto(k - 1), q[k]) = Upto(k)
  <2>1. PICK key, v, D : /\ key = keys[k] /\ v = params[keys[k]]
                         /\ D = C \cup {Equals, Semicolon}
    OBVIOUS
  <2>2. key \in DOMAIN params
    BY <1>5, <1>6, <2>1
  <2>3. key \in Seq(C \ {Equals, Semicolon}) /\ v \in Seq(C \ {Semicolon}) /\ key # <<>>
    BY <2>1, <2>2 DEF IsParams
  <2>4. /\ C \ {Equals, Semicolon} \subseteq D /\ Equals \notin C \ {Equals, Semicolon}
        /\ C \ {Semicolon} \subseteq D /\ Semicolon \notin C \ {Semicolon} /\ Equals \in D
    BY <2>1
  <2>5. key \in Seq(D) /\ ~Contains(key, Equals)
    BY <2>3, <2>4, HasNot
  <2>6. v \in Seq(D)
    BY <2>3, <2>4, HasNot
  <2>7. PICK before : before = Upto(k - 1)
    OBVIOUS
  <2>8. WithParam(before, ParamText(key, v)) = Put(before, key, v)
    BY <2>3, <2>4, <2>5, <2>6, ReadsParam
  <2>9. {keys[i] : i \in 1..k} = {keys[i] : i \in 1..(k - 1)} \cup {key}
    <3>1. \A i : i \in 1..k <=> i \in 1..(k - 1) \/ i = k
      BY <1>6
    <3> QED
      BY <2>1, <3>1
  <2>10. Put(before, key, v) = Upto(k)
    BY <2>1, <2>7, <2>9 DEF Put
  <2> QED
    BY <1>7, <2>1, <2>7, <2>8, <2>10
<1>9. Upto(0) = [key \in {} |-> <<>>]
  <2>1. {keys[i] : i \in 1..0} = {}
    OBVIOUS
  <2> QED
    BY <2>1
<1>10. \E f : Eq(f)
  <2>1. PICK f : f = [k \in 0..N |-> Upto(k)]
    OBVIOUS
  <2>2. ASSUME NEW k \in 0..N, k # 0 PROVE f[k] = WithParam(f[k - 1], q[k])
    <3>1. k \in 1..N /\ k - 1 \in 0..N
      BY <1>6, <2>2
    <3> HIDE DEF Upto, q
    <3> QED
      BY <1>8, <2>1, <3>1
  <2>3. f[0] = [key \in {} |-> <<>>]
    <3>1. 0 \in 0..N
      BY <1>6
    <3> HIDE DEF Upto
    <3> QED
      BY <1>9, <2>1, <3>1
  <2>4. Eq(f)
    <3> HIDE DEF Upto, q
    <3> QED
      BY <1>7, <2>1, <2>2, <2>3
  <2> QED
    BY <2>4
<1> DEFINE u == CHOOSE f : Eq(f)
<1>11. Eq(u)
  <2> HIDE DEF Eq
  <2> QED
    BY <1>10
<1>12. SplitParamStr(s) = u[Len(q)]
  BY DEF SplitParamStr
<1> HIDE DEF u
<1>13. \A k \in 0..N : u[k] = Upto(k)
  <2> HIDE DEF q, Upto
  <2> DEFINE G == {k \in Nat : k <= N => u[k] = Upto(k)}
  <2>1. 0 \in G
    <3>1. u[0] = [key \in {} |-> <<>>]
      BY <1>6, <1>7, <1>11
    <3> QED
      BY <1>9, <3>1
  <2>2. ASSUME NEW k \in Nat, k \in G PROVE k + 1 \in G
    <3> SUFFICES ASSUME k + 1 <= N PROVE u[k + 1] = Upto(k + 1)
      OBVIOUS
    <3>1. PICK m : m = k + 1
      OBVIOUS
    <3>2. m \in 1..N /\ m \in 0..N /\ m - 1 = k /\ u[k] = Upto(k) /\ m # 0
      BY <1>6, <2>2, <3>1
    <3>3. u[m] = WithParam(u[m - 1], q[m])
      BY <1>7, <1>11, <3>2
    <3>4. u[m] = Upto(m)
      BY <1>8, <3>2, <3>3
    <3> QED
      BY <3>1, <3>4
  <2> HIDE DEF G
  <2>3. Nat \subseteq G
    BY <2>1, <2>2, Induct
  <2> QED
    BY <2>3 DEF G
<1>14. Upto(N) = params
  <2>1. {keys[i] : i \in 1..N} = DOMAIN params
    <3>1. \A i \in 1..N : keys[i] \in DOMAIN params
      BY <1>5, <1>6
    <3> QED
      BY <1>6, <3>1
  <2> QED
    BY <2>1 DEF IsParams
<1>15. SplitParamStr(s) = params
  <2> HIDE DEF q, Upto
  <2>1. u[N] = Upto(N)
    BY <1>6, <1>13
  <2> QED
    BY <1>7, <1>12, <1>14, <2>1
<1> QED
  BY <1>1, <1>2, <1>3, <1>15 DEF ParamRule, ParamText

------------------------------------------------------------------------------
(* Lines.                                                                     *)

\* Where a key ends, there is something of the text before.
LEMMA BehindIs ==
    ASSUME NEW C, NEW s \in Seq(C), NEW key \in Seq(C), key # <<>>, NEW count \in Nat \ {0}
    PROVE  Behind(s, key, count) = 0 \/ Behind(s, key, count) \in 2..(Len(s) + 1)
<1> DEFINE S == 0..count
           D == Nat
           Body(n, f) == LET starts == {i \in Starts(s, key) : i >= f[n - 1]}
                         IN  IF n = 0 THEN 1
                             ELSE IF f[n - 1] = 0 \/ starts = {} THEN 0
                             ELSE First(starts) + Len(key)
           Eq(f) == f = [n \in S |-> Body(n, f)]
<1>1. Len(s) \in Nat /\ Len(key) \in Nat /\ Len(key) # 0
  OBVIOUS
<1>2. ASSUME NEW m, LET starts == {i \in Starts(s, key) : i >= m} IN starts # {}
      PROVE  LET starts == {i \in Starts(s, key) : i >= m}
             IN  First(starts) + Len(key) \in 2..(Len(s) + 1)
  <2>1. PICK starts : starts = {i \in Starts(s, key) : i >= m}
    OBVIOUS
  <2>2. starts \subseteq Nat
    BY <2>1 DEF Starts
  <2>3. First(starts) \in Starts(s, key)
    <3>1. First(starts) \in starts
      BY <1>2, <2>1, <2>2, FirstIs
    <3> QED
      BY <2>1, <3>1
  <2>4. PICK a, l, n : a = First(starts) /\ l = Len(key) /\ n = Len(s)
    OBVIOUS
  <2>5. a \in 1..(n + 1) /\ a + l - 1 <= n
    BY <2>3, <2>4 DEF Starts, Matches
  <2>6. a + l \in 2..(n + 1)
    BY <1>1, <2>4, <2>5
  <2> QED
    BY <2>1, <2>4, <2>6
<1>3. PICK rank : rank = [n \in S |-> n]
  OBVIOUS
<1>4. PICK F : F = [n \in S |-> [f \in [S -> D] |-> Body(n, f)]]
  OBVIOUS
<1>5. Ranks(rank, S, count + 1)
  BY <1>3 DEF Ranks
<1>6. Rule(F, rank, S, D)
  <2>1. ASSUME NEW n \in S, NEW f \in [S -> D] PROVE Body(n, f) \in D
    <3>1. PICK starts : starts = {i \in Starts(s, key) : i >= f[n - 1]}
      OBVIOUS
    <3>2. starts # {} => First(starts) + Len(key) \in 2..(Len(s) + 1)
      BY <1>2, <3>1
    <3>3. starts # {} => First(starts) + Len(key) \in Nat
      <4>1. \A x \in 2..(Len(s) + 1) : x \in Nat
        BY <1>1
      <4> QED
        BY <3>2, <4>1
    <3> QED
      BY <3>1, <3>3
  <2>2. F \in [S -> [[S -> D] -> D]]
    BY <1>4, <2>1
  <2>3. ASSUME NEW n \in S, NEW f \in [S -> D], NEW g \in [S -> D], Alike(f, g, rank, S, rank[n])
        PROVE  Body(n, f) = Body(n, g)
    <3>1. n # 0 => n - 1 \in S /\ rank[n - 1] < rank[n]
      BY <1>3
    <3>2. n # 0 => f[n - 1] = g[n - 1]
      BY <2>3, <3>1 DEF Alike
    <3> QED
      BY <3>2
  <2> QED
    <3> HIDE DEF S, D, Body
    <3> QED
      BY <1>4, <2>2, <2>3 DEF Rule
<1>7. \E f : Eq(f)
  <2>1. PICK f \in [S -> D] : \A n \in S : f[n] = F[n][f]
    <3>1. 0 \in D /\ count + 1 \in Nat
      OBVIOUS
    <3> HIDE DEF S, D, Body
    <3> QED
      BY <1>5, <1>6, <3>1, Solved
  <2>2. \A n \in S : f[n] = Body(n, f)
    <3> HIDE DEF S, D, Body
    <3> QED
      BY <1>4, <2>1
  <2> HIDE DEF S, Body
  <2> QED
    BY <2>1, <2>2
<1> DEFINE u == CHOOSE f : Eq(f)
<1>8. Eq(u)
  <2> HIDE DEF Eq
  <2> QED
    BY <1>7
<1>9. Behind(s, key, count) = u[count]
  BY DEF Behind
<1> HIDE DEF u
<1>10. u[count] = Body(count, u)
  <2>1. count \in S
    OBVIOUS
  <2> HIDE DEF S, Body
  <2> QED
    BY <1>8, <2>1
<1>11. u[count] = 0 \/ u[count] \in 2..(Len(s) + 1)
  <2>1. PICK starts : starts = {i \in Starts(s, key) : i >= u[count - 1]}
    OBVIOUS
  <2>2. starts # {} => First(starts) + Len(key) \in 2..(Len(s) + 1)
    BY <1>2, <2>1
  <2>3. count # 0
    OBVIOUS
  <2> QED
    BY <1>10, <2>1, <2>2, <2>3
<1> QED
  BY <1>9, <1>11

\* The text behind a key, up to a line's end with CR LF.
LineAt(s, from, e) ==
    /\ from \in 2..(Len(s) + 1) /\ e \in (from + 1)..(Len(s) - 1)
    /\ s[e] = "CR" /\ s[e + 1] = "LF"

\* A line that LineOf finds ends with the first CR LF behind the key.
LEMMA LineIs ==
    ASSUME NEW C, NEW s \in Seq(C), NEW key \in Seq(C), key # <<>>, NEW count \in Nat \ {0},
           LineOf(s, key, count).found
    PROVE  \E e : /\ LineAt(s, Behind(s, key, count), e)
                  /\ LineOf(s, key, count) = Found(SubSeq(s, Behind(s, key, count), e - 1))
<1>1. PICK from : from = Behind(s, key, count)
  OBVIOUS
<1>2. from = 0 \/ from \in 2..(Len(s) + 1)
  BY <1>1, BehindIs
<1>3. PICK ends : ends = {i \in from..(Len(s) - 1) : s[i] = "CR" /\ s[i + 1] = "LF"}
  OBVIOUS
<1>4. LineOf(s, key, count) = IF from = 0 \/ ends = {} \/ First(ends) = from THEN NotFound
                              ELSE Found(SubSeq(s, from, First(ends) - 1))
  BY <1>1, <1>3 DEF LineOf
<1>5. ~NotFound.found
  BY DEF NotFound
<1>6. from # 0 /\ ends # {} /\ First(ends) # from
  BY <1>4, <1>5
<1>7. PICK e : e = First(ends)
  OBVIOUS
<1>8. e \in ends
  <2>1. ends \subseteq Nat
    BY <1>2, <1>3, <1>6
  <2> QED
    BY <1>6, <1>7, <2>1, FirstIs
<1>9. LineAt(s, from, e)
  <2>1. Len(s) \in Nat
    OBVIOUS
  <2>2. e \in from..(Len(s) - 1) /\ e # from /\ s[e] = "CR" /\ s[e + 1] = "LF"
    BY <1>3, <1>6, <1>7, <1>8
  <2>3. from \in 2..(Len(s) + 1)
    BY <1>2, <1>6
  <2>4. e \in (from + 1)..(Len(s) - 1)
    BY <2>1, <2>2, <2>3
  <2> QED
    BY <2>2, <2>3, <2>4 DEF LineAt
<1>10. LineOf(s, key, count) = Found(SubSeq(s, from, e - 1))
  BY <1>4, <1>6, <1>7
<1> QED
  BY <1>1, <1>9, <1>10

\* The line, as a part of the text.
LineText(s, from, e, v) ==
    /\ v = SubSeq(s, from, e - 1) /\ Len(v) = e - from
    /\ \A k \in 1..(e - from) : v[k] = s[from + k - 1]

\* Where the line stands, and of what type all of it is.
LEMMA LineTextIs ==
    ASSUME NEW C, NEW s \in Seq(C), NEW from, NEW e, LineAt(s, from, e),
           NEW v, v = SubSeq(s, from, e - 1)
    PROVE  /\ v \in Seq(C) /\ LineText(s, from, e, v)
           /\ from \in Nat /\ e \in Nat /\ from >= 2 /\ from < e /\ e < Len(s) /\ Len(s) \in Nat
<1>1. PICK N, q : N = Len(s) /\ q = e - 1
  OBVIOUS
<1>2. N \in Nat /\ from \in 2..(N + 1) /\ e \in (from + 1)..(N - 1)
  BY <1>1 DEF LineAt
<1>3. /\ from \in 1..(N + 1) /\ q \in 0..N /\ from <= q + 1 /\ q + 1 - from = e - from
      /\ from \in Nat /\ e \in Nat /\ from >= 2 /\ from < e /\ e < N
  BY <1>1, <1>2
<1>4. /\ v \in Seq(C) /\ Len(v) = q + 1 - from
      /\ \A k \in 1..(q + 1 - from) : v[k] = s[from + k - 1]
  BY <1>1, <1>3, SubSeqIs
<1> QED
  BY <1>1, <1>2, <1>3, <1>4 DEF LineText

\* The value ends where the line does.
LEMMA LengthIs ==
    ASSUME NEW C, NEW s \in Seq(C), NEW from, NEW e, LineAt(s, from, e),
           ~Contains(SubSeq(s, from, e - 1), "LF")
    PROVE  ValueLength(s, from) = e - from
<1>1. PICK v, N : v = SubSeq(s, from, e - 1) /\ N = Len(s)
  OBVIOUS
<1>2. /\ LineText(s, from, e, v)
      /\ from \in Nat /\ e \in Nat /\ from >= 2 /\ from < e /\ e < N /\ N \in Nat
  BY <1>1, LineTextIs
<1>3. s[e] = "CR" /\ s[e + 1] = "LF" /\ "CR" # "LF"
  BY DEF LineAt
<1>4. PICK ends, q : ends = {i \in from..N : s[i] = "LF"} /\ q = e + 1
  OBVIOUS
<1>5. q \in ends
  BY <1>2, <1>3, <1>4
<1>6. ASSUME NEW i \in ends PROVE q <= i
  <2>1. i \in from..N /\ s[i] = "LF"
    BY <1>4
  <2>2. i # e
    BY <1>3, <2>1
  <2>3. ~(i < e)
    <3>1. SUFFICES ASSUME i < e PROVE FALSE
      OBVIOUS
    <3>2. PICK k : k = i + 1 - from
      OBVIOUS
    <3>3. k \in 1..(e - from) /\ from + k - 1 = i
      BY <1>2, <2>1, <3>1, <3>2
    <3>4. v[k] = "LF" /\ k \in 1..Len(v)
      BY <1>2, <2>1, <3>3 DEF LineText
    <3> QED
      BY <1>1, <3>4 DEF Contains
  <2> QED
    BY <1>2, <1>4, <2>1, <2>2, <2>3
<1>7. First(ends) = q
  <2>1. ends \subseteq Nat
    BY <1>2, <1>4
  <2>2. First(ends) \in ends /\ \A i \in ends : First(ends) <= i
    BY <1>5, <2>1, FirstIs
  <2>3. First(ends) \in Nat /\ First(ends) <= q /\ q <= First(ends) /\ q \in Nat
    BY <1>5, <1>6, <2>1, <2>2
  <2> QED
    BY <2>3
<1>8. ends # {} /\ q - 1 = e
  BY <1>2, <1>4, <1>5
<1> QED
  BY <1>1, <1>3, <1>4, <1>7, <1>8 DEF ValueLength

\* strspn of digits
LEMMA DigitsInFront ==
    ASSUME NEW C, NEW s \in Seq(C), NEW n, n = Leading(s, IsDigit)
    PROVE  /\ n \in 0..Len(s) /\ \A i \in 1..n : IsDigit(s[i])
           /\ n = Len(s) \/ ~IsDigit(s[n + 1])
<1> DEFINE Ends == {m \in 0..Len(s) : m = Len(s) \/ ~IsDigit(s[m + 1])}
<1>1. Len(s) \in Nat
  OBVIOUS
<1>2. PICK e \in Ends : \A m \in Ends : e <= m
  <2>1. Ends \subseteq Nat /\ Len(s) \in Ends
    BY <1>1
  <2> HIDE DEF Ends
  <2> QED
    BY <2>1, Least
<1>3. ASSUME NEW i \in 1..e PROVE IsDigit(s[i])
  <2>1. PICK m : m = i - 1
    OBVIOUS
  <2>2. m \in 0..Len(s) /\ m < e /\ m + 1 = i
    BY <1>1, <1>2, <2>1
  <2>3. m \notin Ends
    BY <1>1, <1>2, <2>2
  <2> QED
    BY <2>2, <2>3
<1>4. \E m \in 0..Len(s) : (\A i \in 1..m : IsDigit(s[i])) /\ (m = Len(s) \/ ~IsDigit(s[m + 1]))
  BY <1>2, <1>3
<1>5. n = CHOOSE m \in 0..Len(s) : (\A i \in 1..m : IsDigit(s[i])) /\ (m = Len(s) \/ ~IsDigit(s[m + 1]))
  BY DEF Leading
<1> QED
  BY <1>4, <1>5

\* A blank, a CR and an LF are no digits.
LEMMA DigitIsNone ==
    ~IsDigit("CR") /\ \A ch : IsSpace(ch) => ~IsDigit(ch)
<1>1. \A ch : IsDigit(ch) => ch \in {"0", "1", "2", "3", "4", "5", "6", "7", "8", "9"}
  BY DEF IsDigit, Contains, Numerals
<1>2. \A ch \in {Blank, "CR", "LF"} : ch \notin {"0", "1", "2", "3", "4", "5", "6", "7", "8", "9"}
  BY DEF Blank
<1> QED
  BY <1>1, <1>2 DEF IsSpace

\* A line that begins with a digit, and the text from there.
NumberLine(s, from, e, v, w) ==
    LineAt(s, from, e) /\ v = SubSeq(s, from, e - 1) /\ w = From(s, from) /\ IsDigit(v[1])

\* The number at the front of the line is the one at the front of the text.
LEMMA SameNumber ==
    ASSUME NEW C, NEW s \in Seq(C), NEW from, NEW e, NEW v, NEW w, NumberLine(s, from, e, v, w)
    PROVE  NumberAt(w) = NumberAt(v)
<1>0. LineAt(s, from, e) /\ v = SubSeq(s, from, e - 1) /\ w = From(s, from) /\ IsDigit(v[1])
  BY DEF NumberLine
<1> USE <1>0
<1>1. PICK N, L, n, m : N = Len(s) /\ L = e - from /\ n = Leading(v, IsDigit) /\ m = Leading(w, IsDigit)
  OBVIOUS
<1>2. /\ v \in Seq(C) /\ Len(v) = L /\ \A k \in 1..L : v[k] = s[from + k - 1]
      /\ from \in Nat /\ e \in Nat /\ from >= 2 /\ from < e /\ e < N /\ N \in Nat
      /\ L \in Nat /\ L >= 1 /\ from + (L + 1) - 1 = e
  <2>1. /\ v \in Seq(C) /\ LineText(s, from, e, v)
        /\ from \in Nat /\ e \in Nat /\ from >= 2 /\ from < e /\ e < N /\ N \in Nat
    BY <1>1, LineTextIs
  <2>2. L \in Nat /\ L >= 1 /\ from + (L + 1) - 1 = e
    BY <1>1, <2>1
  <2> QED
    BY <1>1, <2>1, <2>2 DEF LineText
<1>3. /\ w \in Seq(C) /\ Len(w) = N + 1 - from /\ \A k \in 1..(N + 1 - from) : w[k] = s[from + k - 1]
  <2>1. from \in 1..(Len(s) + 1) /\ N \in 0..Len(s) /\ from <= N + 1
    BY <1>1, <1>2
  <2>2. w = SubSeq(s, from, N)
    BY <1>1 DEF From
  <2> QED
    BY <2>1, <2>2, SubSeqIs
<1>4. /\ L + 1 \in 1..(N + 1 - from) /\ \A k \in 1..L : k \in 1..(N + 1 - from)
      /\ L < N + 1 - from /\ L = e - from /\ N + 1 - from \in Nat
  <2>1. /\ from \in Nat /\ e \in Nat /\ from >= 2 /\ from < e /\ e < N /\ N \in Nat
        /\ L = e - from /\ L \in Nat
    BY <1>1, <1>2
  <2>2. L < N + 1 - from /\ N + 1 - from \in Nat
    BY <2>1
  <2>3. L + 1 \in 1..(N + 1 - from)
    BY <2>1, <2>2
  <2>4. \A k \in 1..L : k \in 1..(N + 1 - from)
    BY <2>1, <2>2
  <2> QED
    BY <2>1, <2>2, <2>3, <2>4
<1>5. /\ \A k \in 1..L : w[k] = v[k]
      /\ w[L + 1] = "CR"
  <2>1. s[e] = "CR"
    BY DEF LineAt
  <2>2. w[L + 1] = s[e]
    BY <1>2, <1>3, <1>4
  <2>3. ASSUME NEW k \in 1..L PROVE w[k] = v[k]
    BY <1>2, <1>3, <1>4
  <2> QED
    BY <2>1, <2>2, <2>3
<1>6. n \in 0..L /\ (\A i \in 1..n : IsDigit(v[i])) /\ (n = L \/ ~IsDigit(v[n + 1]))
  <2>1. n \in 0..Len(v) /\ (\A i \in 1..n : IsDigit(v[i])) /\ (n = Len(v) \/ ~IsDigit(v[n + 1]))
    BY <1>1, <1>2, DigitsInFront
  <2> QED
    BY <1>2, <2>1
<1>7. PICK M : M = N + 1 - from
  OBVIOUS
<1>8. m \in 0..M /\ (\A i \in 1..m : IsDigit(w[i])) /\ (m = M \/ ~IsDigit(w[m + 1]))
  <2>1. m \in 0..Len(w) /\ (\A i \in 1..m : IsDigit(w[i])) /\ (m = Len(w) \/ ~IsDigit(w[m + 1]))
    BY <1>1, <1>3, DigitsInFront
  <2> QED
    BY <1>3, <1>7, <2>1
<1>9. L < M /\ M \in Nat
  BY <1>4, <1>7
<1>10. ~(m < n)
  <2>1. SUFFICES ASSUME m < n PROVE FALSE
    OBVIOUS
  <2>2. PICK k : k = m + 1
    OBVIOUS
  <2>3. k \in 1..n /\ k \in 1..L /\ m # M
    BY <1>2, <1>6, <1>8, <1>9, <2>1, <2>2
  <2>4. IsDigit(v[k]) /\ w[k] = v[k] /\ ~IsDigit(w[k])
    BY <1>5, <1>6, <1>8, <2>2, <2>3
  <2> QED
    BY <2>4
<1>11. ~(n < m)
  <2>1. SUFFICES ASSUME n < m PROVE FALSE
    OBVIOUS
  <2>2. PICK k : k = n + 1
    OBVIOUS
  <2>3. k \in 1..m
    BY <1>6, <1>8, <1>9, <2>1, <2>2
  <2>4. IsDigit(w[k])
    BY <1>8, <2>3
  <2>5. CASE n = L
    <3>1. w[k] = "CR"
      BY <1>5, <2>2, <2>5
    <3> QED
      BY <2>4, <3>1, DigitIsNone
  <2>6. CASE n # L
    <3>1. k \in 1..L /\ ~IsDigit(v[k])
      BY <1>2, <1>6, <2>2, <2>6
    <3>2. w[k] = v[k]
      BY <1>5, <3>1
    <3> QED
      BY <2>4, <3>1, <3>2
  <2> QED
    BY <2>5, <2>6
<1>12. n = m
  BY <1>6, <1>8, <1>9, <1>10, <1>11
<1>13. SubSeq(v, 1, n) = SubSeq(w, 1, n)
  <2>1. PICK a, b : a = SubSeq(v, 1, n) /\ b = SubSeq(w, 1, n)
    OBVIOUS
  <2>2. /\ 1 \in 1..(Len(v) + 1) /\ n \in 0..Len(v) /\ 1 <= n + 1
        /\ 1 \in 1..(Len(w) + 1) /\ n \in 0..Len(w) /\ n + 1 - 1 = n
        /\ \A k \in 1..n : k \in 1..L /\ 1 + k - 1 = k
    BY <1>2, <1>3, <1>6, <1>7, <1>9
  <2>3. a \in Seq(C) /\ Len(a) = n + 1 - 1 /\ \A k \in 1..(n + 1 - 1) : a[k] = v[1 + k - 1]
    BY <1>2, <2>1, <2>2, SubSeqIs
  <2>4. b \in Seq(C) /\ Len(b) = n + 1 - 1 /\ \A k \in 1..(n + 1 - 1) : b[k] = w[1 + k - 1]
    BY <1>3, <2>1, <2>2, SubSeqIs
  <2>5. Len(a) = Len(b) /\ \A k \in 1..Len(a) : a[k] = b[k]
    BY <1>5, <2>2, <2>3, <2>4
  <2>6. a = b
    BY <2>3, <2>4, <2>5, SameSeq
  <2> QED
    BY <2>1, <2>6
<1>14. atoi(v) = atoi(w)
  BY <1>1, <1>12, <1>13 DEF atoi
<1>15. v # <<>> /\ w # <<>>
  <2>1. Len(v) # 0 /\ Len(w) # 0
    BY <1>2, <1>3, <1>7, <1>9
  <2> QED
    BY <2>1
<1>16. IsDigit(w[1])
  <2>1. 1 \in 1..L
    BY <1>2
  <2> QED
    BY <1>5, <2>1
<1> QED
  BY <1>14, <1>15, <1>16 DEF NumberAt

\* No blanks are skipped in a text that begins with none.
LEMMA NoBlanks ==
    ASSUME NEW C, NEW s \in Seq(C), NEW len \in 1..Len(s), ~IsSpace(s[1])
    PROVE  Leading(SubSeq(s, 1, len), IsSpace) = 0
<1>1. PICK t, n : t = SubSeq(s, 1, len) /\ n = Leading(t, IsSpace)
  OBVIOUS
<1>2. 1 \in 1..(Len(s) + 1) /\ len \in 0..Len(s) /\ 1 <= len + 1 /\ 1 \in 1..(len + 1 - 1) /\ 1 + 1 - 1 = 1
  OBVIOUS
<1>3. t \in Seq(C) /\ Len(t) = len + 1 - 1 /\ \A k \in 1..(len + 1 - 1) : t[k] = s[1 + k - 1]
  BY <1>1, <1>2, SubSeqIs
<1>4. t[1] = s[1]
  <2>1. t[1] = s[1 + 1 - 1]
    BY <1>2, <1>3
  <2> QED
    BY <1>2, <2>1
<1>5. n \in 0..Len(t) /\ \A i \in 1..n : IsSpace(t[i])
  BY <1>1, <1>3, BlanksInFront
<1>6. n # 0 => 1 \in 1..n
  <2>1. Len(t) \in Nat
    BY <1>3
  <2> QED
    BY <1>5, <2>1
<1>7. n = 0
  BY <1>4, <1>5, <1>6
<1> QED
  BY <1>1, <1>7

\* What one form of GetValueFromStr reads of a line that ends with CR LF, the other
\* reads too, if it has room; numbers agree where no blanks come first.
THEOREM FamiliesAgreeHolds ==
    \A C : \A s \in Seq(C), key \in Seq(C) \ {<<>>}, count \in Nat \ {0} : FamiliesAgree(s, key, count)
<1> SUFFICES ASSUME NEW C, NEW s \in Seq(C), NEW key \in Seq(C), key # <<>>, NEW count \in Nat \ {0}
             PROVE  FamiliesAgree(s, key, count)
  OBVIOUS
<1>1. PICK line, value, number, from :
          /\ line = LineOf(s, key, count)
          /\ value = GetValueFromStr(s, key, count, Len(s) + 2)
          /\ number = GetNumberFromString(s, key, count)
          /\ from = Behind(s, key, count)
  OBVIOUS
<1>2. SUFFICES ASSUME line.found, ~Contains(line.value, "LF")
               PROVE  /\ value = line
                      /\ number.found /\ ~IsSpace(s[1]) =>
                            /\ number = GetNumberFromStr(s, key, count)
                            /\ IsSpace(Last(line.value)) /\ ~IsSpace(Head(line.value))
  BY <1>1 DEF FamiliesAgree
<1>3. PICK e : LineAt(s, from, e) /\ line = Found(SubSeq(s, from, e - 1))
  BY <1>1, <1>2, LineIs
<1>4. PICK v, N, L : v = SubSeq(s, from, e - 1) /\ N = Len(s) /\ L = e - from
  OBVIOUS
<1>5. line = Found(v) /\ line.value = v
  BY <1>3, <1>4 DEF Found
<1>6. /\ v \in Seq(C) /\ Len(v) = L
      /\ from \in Nat /\ e \in Nat /\ from >= 2 /\ from < e /\ e < N /\ N \in Nat
  <2>1. /\ v \in Seq(C) /\ LineText(s, from, e, v)
        /\ from \in Nat /\ e \in Nat /\ from >= 2 /\ from < e /\ e < N /\ N \in Nat
    BY <1>3, <1>4, LineTextIs
  <2>2. Len(v) = L
    BY <1>4, <2>1 DEF LineText
  <2> QED
    BY <2>1, <2>2
<1>7. L \in Nat /\ L >= 1 /\ L <= N /\ L > 0 /\ L < (N + 2) - 1 /\ from + L - 1 = e - 1 /\ from # 0
  BY <1>4, <1>6
<1>8. ValueLength(s, from) = L
  BY <1>2, <1>3, <1>4, <1>5, LengthIs
<1>9. value = line
  <2>1. value = Found(SubSeq(s, from, from + L - 1))
    BY <1>1, <1>4, <1>7, <1>8 DEF GetValueFromStr
  <2> QED
    BY <1>4, <1>5, <1>7, <2>1
<1>10. ASSUME number.found, ~IsSpace(s[1])
       PROVE  /\ number = GetNumberFromStr(s, key, count)
              /\ IsSpace(Last(v)) /\ ~IsSpace(Head(v))
  <2>1. ~NotFound.found
    BY DEF NotFound
  <2>2. Bare(v) # v /\ number = NumberAt(v)
    <3>1. StringTrim(v) = [changed |-> Bare(v) # v, text |-> v]
      BY DEF StringTrim
    <3>2. StringTrim(v).text = v /\ (StringTrim(v).changed <=> Bare(v) # v)
      <4>1. CASE Bare(v) = v
        <5>1. StringTrim(v) = [changed |-> FALSE, text |-> v]
          BY <3>1, <4>1
        <5> QED
          BY <4>1, <5>1
      <4>2. CASE Bare(v) # v
        <5>1. StringTrim(v) = [changed |-> TRUE, text |-> v]
          BY <3>1, <4>2
        <5> QED
          BY <4>2, <5>1
      <4> QED
        BY <4>1, <4>2
    <3>3. number = IF line.found /\ StringTrim(v).changed THEN NumberAt(v) ELSE NotFound
      BY <1>1, <1>5, <3>2 DEF GetNumberFromString
    <3> QED
      BY <1>10, <2>1, <3>2, <3>3
  <2>3. v # <<>> /\ IsDigit(v[1])
    BY <1>10, <2>1, <2>2 DEF NumberAt
  <2>4. PICK w : w = From(s, from)
    OBVIOUS
  <2>5. NumberAt(w) = NumberAt(v)
    <3>1. NumberLine(s, from, e, v, w)
      BY <1>3, <1>4, <2>3, <2>4 DEF NumberLine
    <3> QED
      BY <3>1, SameNumber
  <2>6. Leading(SubSeq(s, 1, L), IsSpace) = 0
    <3>1. L \in 1..Len(s)
      BY <1>4, <1>6, <1>7
    <3> QED
      BY <1>10, <3>1, NoBlanks
  <2>7. GetNumberFromStr(s, key, count) = NumberAt(w)
    <3>1. ~(from = 0 \/ L <= 0) /\ from + 0 = from
      BY <1>6, <1>7
    <3> QED
      BY <1>1, <1>8, <2>4, <2>6, <3>1 DEF GetNumberFromStr
  <2>8. ~IsSpace(v[1])
    BY <2>3, DigitIsNone
  <2>9. IsSpace(v[Len(v)])
    BY <1>6, <2>2, <2>3, <2>8, BareStays
  <2>10. Head(v) = v[1] /\ Last(v) = v[Len(v)]
    BY <1>6, <2>3 DEF Last
  <2> QED
    BY <2>2, <2>5, <2>7, <2>8, <2>9, <2>10
<1> QED
  BY <1>5, <1>9, <1>10
=============================================================================

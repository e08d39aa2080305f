--------------------------- MODULE XmlTreeProofs ---------------------------
(* For any documents, names, paths and texts: the document is a tree after    *)
(* every call; a path given to AddNode is found again and not made twice; the *)
(* value given to UpdateValue is the one text read at its path; the loop with *)
(* Goto and Next meets the elements the indexes lead to; and a call that only *)
(* goes down from the current node never frees it.                            *)
EXTENDS XmlTree, FiniteSetTheorems, SequenceTheorems, WellFoundedInduction, TLAPS

------------------------------------------------------------------------------
(* Numbers and functions.                                                     *)

\* Every set of numbers that is not empty has a least one.
LEMMA Least ==
    ASSUME NEW T, T \subseteq Nat, T # {}
    PROVE  \E x \in T : \A y \in T : x <= y
<1> DEFINE R == OpToRel(<, Nat)
<1>1. IsWellFoundedOn(R, Nat)
  BY NatLessThanWellFounded
<1> HIDE DEF R
<1>2. PICK x \in T : \A y \in T : <<y, x>> \notin R
  BY <1>1, WFMin
<1>3. \A y \in T : ~(y < x)
  BY <1>2 DEF R, OpToRel
<1> QED
  BY <1>3

\* Induction, in the form of a set of numbers.
LEMMA Induct ==
    ASSUME NEW S, 0 \in S, \A n \in Nat : n \in S => n + 1 \in S
    PROVE  Nat \subseteq S
<1> SUFFICES ASSUME Nat \ S # {} PROVE FALSE
  OBVIOUS
<1>1. PICK x \in Nat \ S : \A y \in Nat \ S : x <= y
  BY Least
<1>2. x # 0 /\ x - 1 \in Nat /\ x - 1 \in S
  BY <1>1
<1> QED
  BY <1>1, <1>2

\* What a function of numbers says of one number from the one before it.
Maps(F, N, D) == F \in [1..N -> [D -> D]]
Folds(f, F, N, D, start) ==
    f \in [0..N -> D] /\ f[0] = start /\ \A k \in 1..N : f[k] = F[k][f[k - 1]]

\* There is such a function, whatever the values at each number are mapped to.
LEMMA Folded ==
    ASSUME NEW N \in Nat, NEW D, NEW start \in D, NEW F, Maps(F, N, D)
    PROVE  \E f : Folds(f, F, N, D, start)
<1> USE DEF Maps
<1> DEFINE Fold(f, n) == f[0] = start /\ \A k \in 1..n : f[k] = F[k][f[k - 1]]
           G == {n \in Nat : n <= N => \E f \in [0..n -> D] : Fold(f, n)}
<1>1. 0 \in G
  <2>1. [k \in 0..0 |-> start] \in [0..0 -> D] /\ Fold([k \in 0..0 |-> start], 0)
    OBVIOUS
  <2> QED
    BY <2>1
<1>2. ASSUME NEW n \in Nat, n \in G PROVE n + 1 \in G
  <2> SUFFICES ASSUME n + 1 <= N PROVE \E g \in [0..(n + 1) -> D] : Fold(g, n + 1)
    OBVIOUS
  <2>1. PICK f \in [0..n -> D] : Fold(f, n)
    BY <1>2
  <2> DEFINE g == [k \in 0..(n + 1) |-> IF k = n + 1 THEN F[n + 1][f[n]] ELSE f[k]]
  <2>2. F[n + 1][f[n]] \in D
    <3>1. n + 1 \in 1..N /\ f[n] \in D
      OBVIOUS
    <3> QED
      BY <3>1
  <2>3. g \in [0..(n + 1) -> D]
    BY <2>2
  <2>4. Fold(g, n + 1)
    <3>1. g[0] = start
      BY <2>1
    <3>2. ASSUME NEW k \in 1..(n + 1) PROVE g[k] = F[k][g[k - 1]]
      <4>1. CASE k = n + 1
        BY <4>1
      <4>2. CASE k # n + 1
        <5>1. k \in 1..n /\ k - 1 \in 0..n /\ k # n + 1 /\ k - 1 # n + 1
          BY <4>2
        <5>2. g[k] = f[k] /\ g[k - 1] = f[k - 1]
          BY <5>1
        <5> QED
          BY <2>1, <5>1, <5>2
      <4> QED
        BY <4>1, <4>2
    <3> QED
      BY <3>1, <3>2
  <2> QED
    BY <2>3, <2>4
<1> HIDE DEF G
<1>3. N \in G
  BY <1>1, <1>2, Induct
<1> QED
  BY <1>3 DEF G, Folds

\* An item is an element, a text or the declaration, and only one of them.
LEMMA Items ==
    /\ \A e \in Nat : IsElem(Elem(e)) /\ Elem(e).elem = e /\ Elem(e) \in Item
    /\ \A v \in STRING : ~IsElem(Text(v)) /\ IsText(Text(v)) /\ Text(v) \in Item
    /\ ~IsElem(Declaration) /\ Declaration \in Item
    /\ \A x : IsElem(x) => x = Elem(x.elem) /\ x.elem \in Nat
BY DEF IsElem, IsText, Elem, Text, Item, Declaration

------------------------------------------------------------------------------
(* What is picked.                                                            *)

\* f[k] is what is picked of the first k.
Picks(f, items, S) ==
    /\ f \in [0..Len(items) -> Seq(Nat)]
    /\ f[0] = <<>>
    /\ \A k \in 1..Len(items) :
           f[k] = IF IsElem(items[k]) /\ items[k].elem \in S
                  THEN Append(f[k - 1], items[k].elem) ELSE f[k - 1]

\* The list that is picked is the last of the lists picked on the way.
LEMMA PickedUpto ==
    ASSUME NEW items \in Seq(Item), NEW S
    PROVE  \E f : Picks(f, items, S) /\ Picked(items, S) = f[Len(items)]
<1> DEFINE N == Len(items)
           Eq(f) == f = [k \in 0..N |->
                           IF k = 0 THEN <<>>
                           ELSE IF IsElem(items[k]) /\ items[k].elem \in S
                                THEN Append(f[k - 1], items[k].elem)
                           ELSE f[k - 1]]
<1>1. N \in Nat /\ <<>> \in Seq(Nat)
  OBVIOUS
<1>2. PICK F : F = [k \in 1..N |-> [x \in Seq(Nat) |->
                        IF IsElem(items[k]) /\ items[k].elem \in S
                        THEN Append(x, items[k].elem) ELSE x]]
  OBVIOUS
<1>3. PICK f : Folds(f, F, N, Seq(Nat), <<>>)
  <2>1. Maps(F, N, Seq(Nat))
    BY <1>2, Items DEF Maps
  <2> QED
    BY <1>1, <2>1, Folded
<1>4. Eq(f)
  <2>1. f \in [0..N -> Seq(Nat)] /\ f[0] = <<>> /\ \A k \in 1..N : f[k] = F[k][f[k - 1]]
    BY <1>3 DEF Folds
  <2>2. ASSUME NEW k \in 0..N, k # 0
        PROVE  f[k] = IF IsElem(items[k]) /\ items[k].elem \in S
                      THEN Append(f[k - 1], items[k].elem) ELSE f[k - 1]
    <3>1. k \in 1..N /\ f[k - 1] \in Seq(Nat)
      BY <2>1, <2>2
    <3> QED
      BY <1>2, <2>1, <3>1
  <2> QED
    BY <2>1, <2>2
<1> DEFINE u == CHOOSE h : Eq(h)
<1>5. Eq(u)
  <2> HIDE DEF Eq
  <2> QED
    BY <1>4
<1>6. Picked(items, S) = u[N]
  BY DEF Picked
<1> HIDE DEF u
<1>7. u[0] = <<>> /\ \A k \in 1..N :
          u[k] = IF IsElem(items[k]) /\ items[k].elem \in S
                 THEN Append(u[k - 1], items[k].elem) ELSE u[k - 1]
  <2>1. u[0] = <<>>
    BY <1>1, <1>5
  <2>2. ASSUME NEW k \in 1..N
        PROVE  u[k] = IF IsElem(items[k]) /\ items[k].elem \in S
                      THEN Append(u[k - 1], items[k].elem) ELSE u[k - 1]
    <3>1. k \in 0..N /\ k # 0
      OBVIOUS
    <3> HIDE DEF N
    <3> QED
      BY <1>5, <3>1
  <2> QED
    BY <2>1, <2>2
<1>8. \A k \in 0..N : u[k] \in Seq(Nat)
  <2> DEFINE G == {k \in Nat : k <= N => u[k] \in Seq(Nat)}
  <2>1. 0 \in G
    BY <1>1, <1>7
  <2>2. ASSUME NEW k \in Nat, k \in G PROVE k + 1 \in G
    <3> SUFFICES ASSUME k + 1 <= N PROVE u[k + 1] \in Seq(Nat)
      OBVIOUS
    <3>1. k + 1 \in 1..N /\ (k + 1) - 1 = k /\ u[k] \in Seq(Nat)
      BY <2>2
    <3>2. u[k + 1] = IF IsElem(items[k + 1]) /\ items[k + 1].elem \in S
                     THEN Append(u[k], items[k + 1].elem) ELSE u[k]
      BY <1>7, <3>1
    <3> QED
      BY <3>1, <3>2, Items
  <2> HIDE DEF G
  <2>3. Nat \subseteq G
    BY <2>1, <2>2, Induct
  <2> QED
    BY <2>3 DEF G
<1>9. Picks(u, items, S)
  <2>1. u \in [0..N -> Seq(Nat)]
    BY <1>5, <1>8
  <2> QED
    BY <1>7, <2>1 DEF Picks
<1> QED
  BY <1>6, <1>9

\* What is picked of the first items does not depend on those behind.
LEMMA PicksAgree ==
    ASSUME NEW items \in Seq(Item), NEW more \in Seq(Item), NEW S, NEW f, NEW g,
           Len(items) <= Len(more), \A k \in 1..Len(items) : more[k] = items[k],
           Picks(f, items, S), Picks(g, more, S)
    PROVE  \A k \in 0..Len(items) : g[k] = f[k]
<1> DEFINE G == {k \in Nat : k <= Len(items) => g[k] = f[k]}
<1>1. 0 \in G
  BY DEF Picks
<1>2. ASSUME NEW k \in Nat, k \in G PROVE k + 1 \in G
  <2> SUFFICES ASSUME k + 1 <= Len(items) PROVE g[k + 1] = f[k + 1]
    OBVIOUS
  <2>1. /\ k + 1 \in 1..Len(items) /\ k + 1 \in 1..Len(more)
        /\ (k + 1) - 1 = k /\ g[k] = f[k] /\ more[k + 1] = items[k + 1]
    BY <1>2
  <2> QED
    BY <2>1 DEF Picks
<1> HIDE DEF G
<1>3. Nat \subseteq G
  BY <1>1, <1>2, Induct
<1> QED
  BY <1>3 DEF G

\* Of no items nothing is picked.
LEMMA PickedEmpty == \A S : Picked(<<>>, S) = <<>>
<1> SUFFICES ASSUME NEW S PROVE Picked(<<>>, S) = <<>>
  OBVIOUS
<1>1. <<>> \in Seq(Item) /\ Len(<<>>) = 0
  OBVIOUS
<1>2. PICK f : Picks(f, <<>>, S) /\ Picked(<<>>, S) = f[Len(<<>>)]
  BY <1>1, PickedUpto
<1> QED
  BY <1>1, <1>2 DEF Picks

\* An item behind the others is picked last.
LEMMA PickedAppend ==
    ASSUME NEW items \in Seq(Item), NEW x \in Item, NEW S
    PROVE  /\ Picked(items, S) \in Seq(Nat)
           /\ Picked(Append(items, x), S) =
                  IF IsElem(x) /\ x.elem \in S
                  THEN Append(Picked(items, S), x.elem) ELSE Picked(items, S)
<1> DEFINE more == Append(items, x)
           N == Len(items)
<1>1. /\ more \in Seq(Item) /\ Len(more) = N + 1 /\ more[N + 1] = x /\ N \in Nat
      /\ \A k \in 1..N : more[k] = items[k]
  OBVIOUS
<1>2. PICK f : Picks(f, items, S) /\ Picked(items, S) = f[N]
  BY PickedUpto
<1>3. PICK g : Picks(g, more, S) /\ Picked(more, S) = g[N + 1]
  BY <1>1, PickedUpto
<1>4. g[N] = f[N]
  <2> HIDE DEF more
  <2> QED
    BY <1>1, <1>2, <1>3, PicksAgree
<1>5. f[N] \in Seq(Nat)
  BY <1>2 DEF Picks
<1>6. g[N + 1] = IF IsElem(x) /\ x.elem \in S THEN Append(g[N], x.elem) ELSE g[N]
  <2> HIDE DEF more
  <2>1. N + 1 \in 1..Len(more) /\ (N + 1) - 1 = N
    BY <1>1
  <2> QED
    BY <1>1, <1>3, <2>1 DEF Picks
<1> QED
  BY <1>2, <1>3, <1>4, <1>5, <1>6

\* Induction over sequences, in the form of a set of them.
LEMMA InductSeq ==
    ASSUME NEW X, NEW G, <<>> \in G,
           \A s \in Seq(X), x \in X : s \in G => Append(s, x) \in G
    PROVE  Seq(X) \subseteq G
<1> DEFINE H == {n \in Nat : \A s \in Seq(X) : Len(s) = n => s \in G}
<1>1. 0 \in H
  <2>1. \A s \in Seq(X) : Len(s) = 0 => s = <<>>
    OBVIOUS
  <2> QED
    BY <2>1
<1>2. ASSUME NEW n \in Nat, n \in H PROVE n + 1 \in H
  <2> SUFFICES ASSUME NEW s \in Seq(X), Len(s) = n + 1 PROVE s \in G
    OBVIOUS
  <2> DEFINE front == SubSeq(s, 1, n)
  <2>1. /\ front \in Seq(X) /\ Len(front) = n /\ s[n + 1] \in X
        /\ s = Append(front, s[n + 1])
    OBVIOUS
  <2> HIDE DEF front
  <2>2. front \in G
    BY <1>2, <2>1
  <2> QED
    BY <2>1, <2>2
<1> HIDE DEF H
<1>3. Nat \subseteq H
  BY <1>1, <1>2, Induct
<1> QED
  BY <1>3 DEF H

\* What is picked is a list of numbers.
LEMMA PickedSeq == \A items \in Seq(Item) : \A S : Picked(items, S) \in Seq(Nat)
<1>1. Declaration \in Item
  BY Items
<1> QED
  BY <1>1, PickedAppend

\* What is picked are the elements of the items that are in S.
LEMMA PickedRange ==
    ASSUME NEW S
    PROVE  \A items \in Seq(Item) :
               /\ \A i \in 1..Len(Picked(items, S)) :
                      /\ Picked(items, S)[i] \in S /\ Picked(items, S)[i] \in Nat
                      /\ \E j \in 1..Len(items) : items[j] = Elem(Picked(items, S)[i])
               /\ \A j \in 1..Len(items) : IsElem(items[j]) /\ items[j].elem \in S =>
                      \E i \in 1..Len(Picked(items, S)) : Picked(items, S)[i] = items[j].elem
<1> DEFINE Ranges(items) ==
               /\ \A i \in 1..Len(Picked(items, S)) :
                      /\ Picked(items, S)[i] \in S /\ Picked(items, S)[i] \in Nat
                      /\ \E j \in 1..Len(items) : items[j] = Elem(Picked(items, S)[i])
               /\ \A j \in 1..Len(items) : IsElem(items[j]) /\ items[j].elem \in S =>
                      \E i \in 1..Len(Picked(items, S)) : Picked(items, S)[i] = items[j].elem
           G == {items \in Seq(Item) : Ranges(items)}
<1>1. <<>> \in G
  <2>1. <<>> \in Seq(Item) /\ Len(<<>>) = 0 /\ 1..0 = {}
    OBVIOUS
  <2> QED
    BY <2>1, PickedEmpty
<1>2. ASSUME NEW s \in Seq(Item), NEW x \in Item, s \in G PROVE Append(s, x) \in G
  <2> DEFINE more == Append(s, x)
             p == Picked(s, S)
             q == Picked(more, S)
  <2>1. /\ more \in Seq(Item) /\ Len(more) = Len(s) + 1 /\ more[Len(s) + 1] = x
        /\ Len(s) \in Nat /\ \A j \in 1..Len(s) : more[j] = s[j]
    OBVIOUS
  <2>2. p \in Seq(Nat) /\ q \in Seq(Nat)
    BY <2>1, PickedSeq
  <2>3. q = IF IsElem(x) /\ x.elem \in S THEN Append(p, x.elem) ELSE p
    BY PickedAppend
  <2>4. Ranges(s)
    BY <1>2
  <2> HIDE DEF more, q
  <2>5. CASE IsElem(x) /\ x.elem \in S
    <3>1. /\ Len(q) = Len(p) + 1 /\ q[Len(p) + 1] = x.elem /\ Len(p) \in Nat
          /\ \A i \in 1..Len(p) : q[i] = p[i]
      BY <2>2, <2>3, <2>5
    <3>2. x = Elem(x.elem) /\ x.elem \in Nat
      BY <2>5, Items
    <3>3. ASSUME NEW i \in 1..Len(q)
          PROVE  q[i] \in S /\ q[i] \in Nat /\ \E j \in 1..Len(more) : more[j] = Elem(q[i])
      <4>1. CASE i = Len(p) + 1
        <5>1. Len(s) + 1 \in 1..Len(more) /\ more[Len(s) + 1] = Elem(q[i])
          BY <2>1, <3>1, <3>2, <4>1
        <5> QED
          BY <2>5, <3>1, <3>2, <4>1, <5>1
      <4>2. CASE i # Len(p) + 1
        <5>1. i \in 1..Len(p)
          BY <3>1, <4>2
        <5>2. PICK j \in 1..Len(s) : s[j] = Elem(p[i])
          BY <2>4, <5>1
        <5>3. j \in 1..Len(more) /\ more[j] = s[j]
          BY <2>1
        <5> QED
          BY <2>4, <3>1, <5>1, <5>2, <5>3
      <4> QED
        BY <4>1, <4>2
    <3>4. ASSUME NEW j \in 1..Len(more), IsElem(more[j]) /\ more[j].elem \in S
          PROVE  \E i \in 1..Len(q) : q[i] = more[j].elem
      <4>1. CASE j = Len(s) + 1
        BY <2>1, <3>1, <4>1
      <4>2. CASE j # Len(s) + 1
        <5>1. j \in 1..Len(s) /\ more[j] = s[j]
          BY <2>1, <4>2
        <5>2. PICK i \in 1..Len(p) : p[i] = s[j].elem
          BY <2>4, <3>4, <5>1
        <5>3. i \in 1..Len(q) /\ q[i] = p[i]
          BY <3>1
        <5> QED
          BY <5>1, <5>2, <5>3
      <4> QED
        BY <4>1, <4>2
    <3> QED
      BY <2>1, <3>3, <3>4 DEF more, q
  <2>6. CASE ~(IsElem(x) /\ x.elem \in S)
    <3>1. q = p
      BY <2>3, <2>6
    <3>2. ASSUME NEW i \in 1..Len(q)
          PROVE  q[i] \in S /\ q[i] \in Nat /\ \E j \in 1..Len(more) : more[j] = Elem(q[i])
      <4>1. PICK j \in 1..Len(s) : s[j] = Elem(p[i])
        BY <2>4, <3>1
      <4>2. j \in 1..Len(more) /\ more[j] = s[j]
        BY <2>1
      <4> QED
        BY <2>4, <3>1, <4>1, <4>2
    <3>3. ASSUME NEW j \in 1..Len(more), IsElem(more[j]) /\ more[j].elem \in S
          PROVE  \E i \in 1..Len(q) : q[i] = more[j].elem
      <4>1. j # Len(s) + 1
        BY <2>1, <2>6, <3>3
      <4>2. j \in 1..Len(s) /\ more[j] = s[j]
        BY <2>1, <4>1
      <4> QED
        BY <2>4, <3>1, <3>3, <4>2
    <3> QED
      BY <2>1, <3>2, <3>3 DEF more, q
  <2> QED
    BY <2>5, <2>6
<1> HIDE DEF G
<1>3. Seq(Item) \subseteq G
  BY <1>1, <1>2, InductSeq
<1> QED
  BY <1>3 DEF G

\* Sets that have the same of the items pick the same.
LEMMA PickedSame ==
    ASSUME NEW S, NEW R
    PROVE  \A items \in Seq(Item) :
               (\A j \in 1..Len(items) : IsElem(items[j]) =>
                    (items[j].elem \in S <=> items[j].elem \in R))
                 => Picked(items, S) = Picked(items, R)
<1> DEFINE Alike(items) ==
               \A j \in 1..Len(items) : IsElem(items[j]) =>
                    (items[j].elem \in S <=> items[j].elem \in R)
           G == {items \in Seq(Item) : Alike(items) => Picked(items, S) = Picked(items, R)}
<1>1. <<>> \in G
  <2>1. <<>> \in Seq(Item)
    OBVIOUS
  <2> QED
    BY <2>1, PickedEmpty
<1>2. ASSUME NEW s \in Seq(Item), NEW x \in Item, s \in G PROVE Append(s, x) \in G
  <2> DEFINE more == Append(s, x)
  <2>1. /\ more \in Seq(Item) /\ Len(more) = Len(s) + 1 /\ more[Len(s) + 1] = x
        /\ Len(s) \in Nat /\ \A j \in 1..Len(s) : more[j] = s[j]
    OBVIOUS
  <2>2. /\ Picked(more, S) = IF IsElem(x) /\ x.elem \in S
                             THEN Append(Picked(s, S), x.elem) ELSE Picked(s, S)
        /\ Picked(more, R) = IF IsElem(x) /\ x.elem \in R
                             THEN Append(Picked(s, R), x.elem) ELSE Picked(s, R)
    BY PickedAppend
  <2> HIDE DEF more
  <2> SUFFICES ASSUME Alike(more) PROVE Picked(more, S) = Picked(more, R)
    BY <2>1 DEF more
  <2>3. ASSUME NEW j \in 1..Len(s), IsElem(s[j])
        PROVE  s[j].elem \in S <=> s[j].elem \in R
    <3>1. j \in 1..Len(more) /\ more[j] = s[j]
      BY <2>1
    <3> QED
      BY <2>3, <3>1
  <2>4. Picked(s, S) = Picked(s, R)
    BY <1>2, <2>3
  <2>5. IsElem(x) => (x.elem \in S <=> x.elem \in R)
    <3>1. Len(s) + 1 \in 1..Len(more)
      BY <2>1
    <3> QED
      BY <2>1, <3>1
  <2> QED
    BY <2>2, <2>4, <2>5
<1> HIDE DEF G
<1>3. Seq(Item) \subseteq G
  BY <1>1, <1>2, InductSeq
<1> QED
  BY <1>3 DEF G

\* What is picked of two lists is picked of each.
LEMMA PickedConcat ==
    ASSUME NEW S, NEW a \in Seq(Item)
    PROVE  \A b \in Seq(Item) : Picked(a \o b, S) = Picked(a, S) \o Picked(b, S)
<1> DEFINE G == {b \in Seq(Item) : Picked(a \o b, S) = Picked(a, S) \o Picked(b, S)}
<1>1. <<>> \in G
  <2>1. <<>> \in Seq(Item) /\ a \o <<>> = a
    OBVIOUS
  <2>2. Picked(a, S) \in Seq(Nat) /\ Picked(a, S) \o <<>> = Picked(a, S)
    BY PickedSeq
  <2> QED
    BY <2>1, <2>2, PickedEmpty
<1>2. ASSUME NEW b \in Seq(Item), NEW x \in Item, b \in G PROVE Append(b, x) \in G
  <2>1. a \o Append(b, x) = Append(a \o b, x) /\ a \o b \in Seq(Item) /\ Append(b, x) \in Seq(Item)
    OBVIOUS
  <2>2. Picked(a, S) \in Seq(Nat) /\ Picked(b, S) \in Seq(Nat)
    BY PickedSeq
  <2>3. Picked(Append(a \o b, x), S) =
            IF IsElem(x) /\ x.elem \in S
            THEN Append(Picked(a \o b, S), x.elem) ELSE Picked(a \o b, S)
    BY <2>1, PickedAppend
  <2>4. Picked(Append(b, x), S) =
            IF IsElem(x) /\ x.elem \in S THEN Append(Picked(b, S), x.elem) ELSE Picked(b, S)
    BY PickedAppend
  <2>5. Picked(a \o b, S) = Picked(a, S) \o Picked(b, S)
    BY <1>2
  <2>6. IsElem(x) => x.elem \in Nat
    BY Items
  <2> SUFFICES Picked(Append(a \o b, x), S) = Picked(a, S) \o Picked(Append(b, x), S)
    <3>1. Append(b, x) \in Seq(Item)
      OBVIOUS
    <3>2. Picked(a \o Append(b, x), S) = Picked(Append(a \o b, x), S)
      BY <2>1
    <3> QED
      BY <3>1, <3>2
  <2>7. CASE IsElem(x) /\ x.elem \in S
    <3>1. PICK D, p, q, e :
               /\ p \in Seq(D) /\ q \in Seq(D) /\ e \in D
               /\ p = Picked(a, S) /\ q = Picked(b, S) /\ e = x.elem
      BY <2>2, <2>6, <2>7
    <3>2. Append(p \o q, e) = p \o Append(q, e)
      <4>1. p \in Seq(D) /\ q \in Seq(D) /\ e \in D
        BY <3>1
      <4> QED
        BY <4>1, SMTT(60)
    <3>3. Picked(Append(a \o b, x), S) = Append(p \o q, e)
      BY <2>3, <2>5, <2>7, <3>1, Zenon
    <3>4. Picked(Append(b, x), S) = Append(q, e)
      BY <2>4, <2>7, <3>1, Zenon
    <3>5. Picked(a, S) = p
      BY <3>1
    <3> QED
      BY <3>2, <3>3, <3>4, <3>5
  <2>8. CASE ~(IsElem(x) /\ x.elem \in S)
    BY <2>3, <2>4, <2>5, <2>8
  <2> QED
    BY <2>7, <2>8
<1> HIDE DEF G
<1>3. Seq(Item) \subseteq G
  BY <1>1, <1>2, InductSeq
<1> QED
  BY <1>3 DEF G

\* No element is held twice.
Once(items) ==
    \A i, j \in 1..Len(items) : IsElem(items[i]) /\ items[i] = items[j] => i = j

\* What is picked of them is a list that has no number twice.
LEMMA PickedOnce ==
    ASSUME NEW S
    PROVE  \A items \in Seq(Item) : Once(items) =>
               \A i, j \in 1..Len(Picked(items, S)) :
                   Picked(items, S)[i] = Picked(items, S)[j] => i = j
<1> DEFINE Distinct(items) ==
               \A i, j \in 1..Len(Picked(items, S)) :
                   Picked(items, S)[i] = Picked(items, S)[j] => i = j
           G == {items \in Seq(Item) : Once(items) => Distinct(items)}
<1>1. <<>> \in G
  <2>1. <<>> \in Seq(Item) /\ Len(<<>>) = 0 /\ 1..0 = {}
    OBVIOUS
  <2> QED
    BY <2>1, PickedEmpty
<1>2. ASSUME NEW s \in Seq(Item), NEW x \in Item, s \in G PROVE Append(s, x) \in G
  <2> DEFINE more == Append(s, x)
             p == Picked(s, S)
             q == Picked(more, S)
  <2>1. /\ more \in Seq(Item) /\ Len(more) = Len(s) + 1 /\ more[Len(s) + 1] = x
        /\ Len(s) \in Nat /\ \A j \in 1..Len(s) : more[j] = s[j]
    OBVIOUS
  <2>2. p \in Seq(Nat) /\ q \in Seq(Nat)
    BY <2>1, PickedSeq
  <2>3. q = IF IsElem(x) /\ x.elem \in S THEN Append(p, x.elem) ELSE p
    BY PickedAppend
  <2> HIDE DEF more, q
  <2> SUFFICES ASSUME Once(more)
               PROVE  \A i, j \in 1..Len(q) : q[i] = q[j] => i = j
    BY <2>1 DEF more, q
  <2>4. Once(s)
    <3> SUFFICES ASSUME NEW i \in 1..Len(s), NEW j \in 1..Len(s),
                        IsElem(s[i]), s[i] = s[j]
                 PROVE  i = j
      BY DEF Once
    <3>1. i \in 1..Len(more) /\ j \in 1..Len(more) /\ more[i] = s[i] /\ more[j] = s[j]
      BY <2>1
    <3> QED
      BY <3>1 DEF Once
  <2>5. \A i, j \in 1..Len(p) : p[i] = p[j] => i = j
    BY <1>2, <2>4
  <2>6. CASE IsElem(x) /\ x.elem \in S
    <3>1. /\ Len(q) = Len(p) + 1 /\ q[Len(p) + 1] = x.elem /\ Len(p) \in Nat
          /\ \A i \in 1..Len(p) : q[i] = p[i]
      BY <2>2, <2>3, <2>6
    <3>2. ASSUME NEW i \in 1..Len(p) PROVE p[i] # x.elem
      <4> SUFFICES ASSUME p[i] = x.elem PROVE FALSE
        OBVIOUS
      <4>1. PICK j \in 1..Len(s) : s[j] = Elem(p[i])
        BY PickedRange
      <4>2. s[j] = x
        BY <2>6, <4>1, Items
      <4>3. j \in 1..Len(more) /\ Len(s) + 1 \in 1..Len(more) /\ more[j] = more[Len(s) + 1]
        BY <2>1, <4>2
      <4>4. j = Len(s) + 1
        BY <2>1, <2>6, <4>3 DEF Once
      <4> QED
        BY <2>1, <4>4
    <3> QED
      <4> SUFFICES ASSUME NEW i \in 1..Len(q), NEW j \in 1..Len(q), q[i] = q[j] PROVE i = j
        OBVIOUS
      <4>1. (i \in 1..Len(p) \/ i = Len(p) + 1) /\ (j \in 1..Len(p) \/ j = Len(p) + 1)
        BY <3>1
      <4> QED
        BY <2>5, <3>1, <3>2, <4>1
  <2>7. CASE ~(IsElem(x) /\ x.elem \in S)
    BY <2>3, <2>5, <2>7
  <2> QED
    BY <2>6, <2>7
<1> HIDE DEF G
<1>3. Seq(Item) \subseteq G
  BY <1>1, <1>2, InductSeq
<1> QED
  BY <1>3 DEF G

------------------------------------------------------------------------------
(* Trees.                                                                     *)

TreeNodes(D) == [D -> [title : Titles, kids : Seq(Item)]]

\* What a tree is, in the terms of Holds.
LEMMA TreeFacts ==
    ASSUME NEW T, IsTree(T)
    PROVE  /\ Doc \in DOMAIN T /\ DOMAIN T \subseteq Nat /\ IsFiniteSet(DOMAIN T)
           /\ T \in TreeNodes(DOMAIN T)
           /\ \A n \in DOMAIN T :
                  /\ T[n].kids \in Seq(Item) /\ T[n].title \in Titles
                  /\ T[n] = Node(T[n].title, T[n].kids)
                  /\ DOMAIN T[n].kids = 1..Len(T[n].kids) /\ Len(T[n].kids) \in Nat
                  /\ Once(T[n].kids)
           /\ \A n \in DOMAIN T, e \in Nat : Holds(T, n, e) => e \in DOMAIN T /\ n < e
           /\ \A n, m \in DOMAIN T, e \in Nat : Holds(T, n, e) /\ Holds(T, m, e) => n = m
           /\ \A e \in DOMAIN T \ {Doc} : \E n \in DOMAIN T : Holds(T, n, e)
<1>1. Doc \in DOMAIN T /\ DOMAIN T \subseteq Nat /\ IsFiniteSet(DOMAIN T) /\ T \in TreeNodes(DOMAIN T)
  BY DEF IsTree, TreeNodes
<1>2. ASSUME NEW n \in DOMAIN T
      PROVE  /\ T[n].kids \in Seq(Item) /\ T[n].title \in Titles
             /\ T[n] = Node(T[n].title, T[n].kids)
             /\ DOMAIN T[n].kids = 1..Len(T[n].kids) /\ Len(T[n].kids) \in Nat
  <2>1. T[n] \in [title : Titles, kids : Seq(Item)]
    BY <1>1 DEF TreeNodes
  <2>2. T[n].kids \in Seq(Item)
    BY <2>1
  <2>3. DOMAIN T[n].kids = 1..Len(T[n].kids) /\ Len(T[n].kids) \in Nat
    BY <2>2
  <2> QED
    BY <2>1, <2>2, <2>3 DEF Node
<1>3. ASSUME NEW n \in DOMAIN T, NEW j \in DOMAIN T[n].kids, IsElem(T[n].kids[j])
      PROVE  /\ T[n].kids[j].elem \in DOMAIN T
             /\ n < T[n].kids[j].elem
             /\ \A m \in DOMAIN T : \A k \in DOMAIN T[m].kids :
                    T[m].kids[k] = T[n].kids[j] => m = n /\ k = j
  BY <1>3 DEF IsTree
<1>4. ASSUME NEW n \in DOMAIN T PROVE Once(T[n].kids)
  BY <1>2, <1>3 DEF Once
<1>5. ASSUME NEW n \in DOMAIN T, NEW e \in Nat, Holds(T, n, e)
      PROVE  e \in DOMAIN T /\ n < e /\ \A m \in DOMAIN T : Holds(T, m, e) => n = m
  <2>1. PICK j \in DOMAIN T[n].kids : T[n].kids[j] = Elem(e)
    BY <1>5 DEF Holds
  <2>2. IsElem(T[n].kids[j]) /\ T[n].kids[j].elem = e
    BY <2>1, Items
  <2>3. ASSUME NEW m \in DOMAIN T, Holds(T, m, e) PROVE n = m
    <3>1. PICK k \in DOMAIN T[m].kids : T[m].kids[k] = Elem(e)
      BY <2>3 DEF Holds
    <3> QED
      BY <1>3, <2>1, <2>2, <3>1
  <2> QED
    BY <1>3, <2>2, <2>3
<1>6. \A e \in DOMAIN T \ {Doc} : \E n \in DOMAIN T : Holds(T, n, e)
  BY DEF IsTree
<1> QED
  BY <1>1, <1>2, <1>4, <1>5, <1>6

\* What makes a tree, in the same terms.
LEMMA TreeMade ==
    ASSUME NEW T,
           Doc \in DOMAIN T, DOMAIN T \subseteq Nat, IsFiniteSet(DOMAIN T),
           T \in TreeNodes(DOMAIN T),
           \A n \in DOMAIN T : Once(T[n].kids),
           \A n \in DOMAIN T, e \in Nat : Holds(T, n, e) => e \in DOMAIN T /\ n < e,
           \A n, m \in DOMAIN T, e \in Nat : Holds(T, n, e) /\ Holds(T, m, e) => n = m,
           \A e \in DOMAIN T \ {Doc} : \E n \in DOMAIN T : Holds(T, n, e)
    PROVE  IsTree(T)
<1>1. \A n \in DOMAIN T : DOMAIN T[n].kids = 1..Len(T[n].kids)
  <2>1. \A n \in DOMAIN T : T[n].kids \in Seq(Item)
    BY DEF TreeNodes
  <2> QED
    BY <2>1
<1>2. ASSUME NEW n \in DOMAIN T, NEW j \in DOMAIN T[n].kids, IsElem(T[n].kids[j])
      PROVE  /\ T[n].kids[j].elem \in DOMAIN T
             /\ n < T[n].kids[j].elem
             /\ \A m \in DOMAIN T : \A k \in DOMAIN T[m].kids :
                    T[m].kids[k] = T[n].kids[j] => m = n /\ k = j
  <2>1. PICK e \in Nat : T[n].kids[j] = Elem(e) /\ T[n].kids[j].elem = e
    BY <1>2, Items
  <2>2. Holds(T, n, e)
    BY <2>1 DEF Holds
  <2>3. ASSUME NEW m \in DOMAIN T, NEW k \in DOMAIN T[m].kids, T[m].kids[k] = T[n].kids[j]
        PROVE  m = n /\ k = j
    <3>1. Holds(T, m, e)
      BY <2>1, <2>3 DEF Holds
    <3>2. m = n
      BY <2>2, <3>1
    <3> QED
      BY <1>1, <1>2, <2>3, <3>2 DEF Once
  <2> QED
    BY <2>1, <2>2, <2>3
<1> QED
  BY <1>2 DEF IsTree, TreeNodes

\* The greatest of finitely many numbers.
LEMMA MaxIs ==
    \A n \in Nat : \A S \in SUBSET Nat :
        IsFiniteSet(S) /\ S # {} /\ Cardinality(S) = n =>
            Max(S) \in S /\ \A x \in S : Max(S) >= x
<1> DEFINE Has(S) == \E y \in S : \A x \in S : y >= x
           G == {n \in Nat : \A S \in SUBSET Nat :
                     IsFiniteSet(S) /\ S # {} /\ Cardinality(S) = n => Has(S)}
<1>1. 0 \in G
  BY FS_EmptySet
<1>2. ASSUME NEW n \in Nat, n \in G PROVE n + 1 \in G
  <2> SUFFICES ASSUME NEW S \in SUBSET Nat,
                      IsFiniteSet(S) /\ S # {} /\ Cardinality(S) = n + 1
               PROVE  Has(S)
    OBVIOUS
  <2>1. PICK s \in S : TRUE
    OBVIOUS
  <2>2. IsFiniteSet(S \ {s}) /\ Cardinality(S \ {s}) = n /\ S \ {s} \in SUBSET Nat
    BY <2>1, FS_RemoveElement
  <2>3. CASE S \ {s} = {}
    BY <2>1, <2>3
  <2>4. CASE S \ {s} # {}
    <3>1. PICK y \in S \ {s} : \A x \in S \ {s} : y >= x
      BY <1>2, <2>2, <2>4
    <3>2. CASE y >= s
      BY <3>1, <3>2
    <3>3. CASE ~(y >= s)
      <4>1. s >= s /\ \A x \in S \ {s} : s >= x
        BY <3>1, <3>3
      <4> QED
        BY <4>1
    <3> QED
      BY <3>2, <3>3
  <2> QED
    BY <2>3, <2>4
<1> HIDE DEF G
<1>3. Nat \subseteq G
  BY <1>1, <1>2, Induct
<1>4. ASSUME NEW S, Has(S) PROVE Max(S) \in S /\ \A x \in S : Max(S) >= x
  BY <1>4 DEF Max
<1> QED
  BY <1>3, <1>4 DEF G

\* The number of a new element is above all others.
LEMMA NewIsNew ==
    ASSUME NEW T, IsTree(T)
    PROVE  New(T) \in Nat /\ New(T) \notin DOMAIN T /\ \A n \in DOMAIN T : n < New(T)
<1>1. Max(DOMAIN T) \in DOMAIN T /\ \A x \in DOMAIN T : Max(DOMAIN T) >= x
  <2>1. Cardinality(DOMAIN T) \in Nat
    BY TreeFacts, FS_CardinalityType
  <2> QED
    BY <2>1, TreeFacts, MaxIs
<1> QED
  BY <1>1, TreeFacts DEF New

\* An item more under a node: the other nodes stay.
LEMMA HeldFacts ==
    ASSUME NEW T, IsTree(T), NEW n \in DOMAIN T, NEW item \in Item
    PROVE  LET H == Held(T, n, item) IN
           /\ DOMAIN H = DOMAIN T /\ H \in TreeNodes(DOMAIN T)
           /\ H[n].title = T[n].title /\ H[n].kids = Append(T[n].kids, item)
           /\ \A m \in DOMAIN T : m # n => H[m] = T[m]
<1> DEFINE H == Held(T, n, item)
<1>1. H = [T EXCEPT ![n] = Node(T[n].title, Append(T[n].kids, item))]
  BY DEF Held
<1>2. Node(T[n].title, Append(T[n].kids, item)) \in [title : Titles, kids : Seq(Item)]
  <2>1. T[n].title \in Titles /\ T[n].kids \in Seq(Item)
    BY TreeFacts
  <2>2. Append(T[n].kids, item) \in Seq(Item)
    BY <2>1
  <2> QED
    BY <2>1, <2>2 DEF Node
<1>3. T \in TreeNodes(DOMAIN T)
  BY TreeFacts
<1>4. DOMAIN H = DOMAIN T /\ H[n] = Node(T[n].title, Append(T[n].kids, item))
      /\ \A m \in DOMAIN T : m # n => H[m] = T[m]
  BY <1>1, <1>3 DEF TreeNodes
<1>5. H \in TreeNodes(DOMAIN T)
  BY <1>1, <1>2, <1>3 DEF TreeNodes
<1> HIDE DEF H
<1>6. H[n].title = T[n].title /\ H[n].kids = Append(T[n].kids, item)
  BY <1>4 DEF Node
<1> QED
  BY <1>4, <1>5, <1>6 DEF H

\* What an item more holds.
LEMMA AppendHolds ==
    ASSUME NEW kids \in Seq(Item), NEW item \in Item, NEW e \in Nat
    PROVE  (\E j \in DOMAIN Append(kids, item) : Append(kids, item)[j] = Elem(e))
             <=> (\E j \in DOMAIN kids : kids[j] = Elem(e)) \/ item = Elem(e)
<1> DEFINE more == Append(kids, item)
<1>1. /\ DOMAIN more = 1..(Len(kids) + 1) /\ DOMAIN kids = 1..Len(kids) /\ Len(kids) \in Nat
      /\ more[Len(kids) + 1] = item /\ \A j \in 1..Len(kids) : more[j] = kids[j]
  OBVIOUS
<1> HIDE DEF more
<1>2. \A j \in 1..(Len(kids) + 1) : j \in 1..Len(kids) \/ j = Len(kids) + 1
  BY <1>1
<1>3. 1..Len(kids) \subseteq 1..(Len(kids) + 1) /\ Len(kids) + 1 \in 1..(Len(kids) + 1)
  BY <1>1
<1>4. (\E j \in DOMAIN more : more[j] = Elem(e))
             <=> (\E j \in DOMAIN kids : kids[j] = Elem(e)) \/ item = Elem(e)
  BY <1>1, <1>2, <1>3
<1> QED
  BY <1>4 DEF more

\* A new item is held once.
LEMMA AppendOnce ==
    ASSUME NEW kids \in Seq(Item), NEW item \in Item, Once(kids),
           IsElem(item) => \A j \in 1..Len(kids) : kids[j] # item
    PROVE  Once(Append(kids, item))
<1> DEFINE more == Append(kids, item)
<1>1. /\ Len(more) = Len(kids) + 1 /\ Len(kids) \in Nat
      /\ more[Len(kids) + 1] = item /\ \A j \in 1..Len(kids) : more[j] = kids[j]
  OBVIOUS
<1> HIDE DEF more
<1>2. \A j \in 1..(Len(kids) + 1) : j \in 1..Len(kids) \/ j = Len(kids) + 1
  BY <1>1
<1>3. Once(more)
  <2> SUFFICES ASSUME NEW i \in 1..Len(more), NEW j \in 1..Len(more),
                      IsElem(more[i]), more[i] = more[j]
               PROVE  i = j
    BY DEF Once
  <2>1. (i \in 1..Len(kids) \/ i = Len(kids) + 1) /\ (j \in 1..Len(kids) \/ j = Len(kids) + 1)
    BY <1>1, <1>2
  <2> QED
    BY <1>1, <2>1 DEF Once
<1> QED
  BY <1>3 DEF more

\* LinkEndChild with a text leaves a tree.
LEMMA LinkTextTree ==
    ASSUME NEW T, IsTree(T), NEW n \in DOMAIN T, NEW val \in STRING
    PROVE  /\ IsTree(LinkText(T, n, val)) /\ DOMAIN LinkText(T, n, val) = DOMAIN T
           /\ \A m \in DOMAIN T : LinkText(T, n, val)[m].title = T[m].title
           /\ LinkText(T, n, val)[n].kids = Append(T[n].kids, Text(val))
           /\ \A m \in DOMAIN T : m # n => LinkText(T, n, val)[m] = T[m]
<1> DEFINE L == LinkText(T, n, val)
<1>1. Text(val) \in Item /\ ~IsElem(Text(val)) /\ \A e \in Nat : Text(val) # Elem(e)
  BY Items
<1>2. /\ DOMAIN L = DOMAIN T /\ L \in TreeNodes(DOMAIN T)
      /\ L[n].title = T[n].title /\ L[n].kids = Append(T[n].kids, Text(val))
      /\ \A m \in DOMAIN T : m # n => L[m] = T[m]
  BY <1>1, HeldFacts DEF LinkText
<1> HIDE DEF L
<1>3. \A m \in DOMAIN T : T[m].kids \in Seq(Item) /\ Once(T[m].kids)
  BY TreeFacts
<1>4. \A m \in DOMAIN T, e \in Nat : Holds(L, m, e) <=> Holds(T, m, e)
  <2> SUFFICES ASSUME NEW m \in DOMAIN T, NEW e \in Nat PROVE Holds(L, m, e) <=> Holds(T, m, e)
    OBVIOUS
  <2>1. CASE m = n
    <3>1. L[n].kids = Append(T[n].kids, Text(val)) /\ T[n].kids \in Seq(Item)
      BY <1>2, <1>3
    <3>2. Holds(L, n, e) <=> Holds(T, n, e) \/ Text(val) = Elem(e)
      BY <1>1, <3>1, AppendHolds DEF Holds
    <3> QED
      BY <1>1, <2>1, <3>2
  <2>2. CASE m # n
    BY <1>2, <2>2 DEF Holds
  <2> QED
    BY <2>1, <2>2
<1>5. \A m \in DOMAIN T : Once(L[m].kids)
  BY <1>1, <1>2, <1>3, AppendOnce
<1>6. IsTree(L)
  <2>1. \A m \in DOMAIN L, e \in Nat : Holds(L, m, e) => e \in DOMAIN L /\ m < e
    BY <1>2, <1>4, TreeFacts
  <2>2. \A p, m \in DOMAIN L, e \in Nat : Holds(L, p, e) /\ Holds(L, m, e) => p = m
    BY <1>2, <1>4, TreeFacts
  <2>3. \A e \in DOMAIN L \ {Doc} : \E m \in DOMAIN L : Holds(L, m, e)
    <3>1. DOMAIN T \subseteq Nat /\ \A e \in DOMAIN T \ {Doc} : \E m \in DOMAIN T : Holds(T, m, e)
      BY TreeFacts
    <3> QED
      BY <1>2, <1>4, <3>1
  <2>4. Doc \in DOMAIN L /\ DOMAIN L \subseteq Nat /\ IsFiniteSet(DOMAIN L)
    BY <1>2, TreeFacts
  <2> QED
    BY <1>2, <1>5, <2>1, <2>2, <2>3, <2>4, TreeMade
<1> QED
  BY <1>2, <1>6 DEF L

\* LinkEndChild with a new element leaves a tree.
LEMMA LinkTree ==
    ASSUME NEW T, IsTree(T), NEW n \in DOMAIN T, NEW name \in Titles
    PROVE  LET L == Link(T, n, name) w == New(T) IN
           /\ IsTree(L) /\ DOMAIN L = DOMAIN T \cup {w} /\ w \notin DOMAIN T /\ w \in Nat
           /\ L[w] = Node(name, <<>>)
           /\ L[n] = Node(T[n].title, Append(T[n].kids, Elem(w)))
           /\ \A m \in DOMAIN T : m # n => L[m] = T[m]
<1> DEFINE L == Link(T, n, name)
           w == New(T)
           H == Held(T, n, Elem(w))
<1>1. w \in Nat /\ w \notin DOMAIN T /\ \A m \in DOMAIN T : m < w
  BY NewIsNew
<1>2. Elem(w) \in Item /\ IsElem(Elem(w)) /\ \A e \in Nat : Elem(w) = Elem(e) => e = w
  <2> HIDE DEF w
  <2> QED
    BY <1>1, Items
<1>3. /\ DOMAIN H = DOMAIN T /\ H \in TreeNodes(DOMAIN T)
      /\ H[n].title = T[n].title /\ H[n].kids = Append(T[n].kids, Elem(w))
      /\ \A m \in DOMAIN T : m # n => H[m] = T[m]
  BY <1>2, HeldFacts
<1>4. L = [k \in DOMAIN T \cup {w} |-> IF k = w THEN Node(name, <<>>) ELSE H[k]]
  BY DEF Link
<1> HIDE DEF L, w, H
<1>5. /\ DOMAIN L = DOMAIN T \cup {w} /\ L[w] = Node(name, <<>>)
      /\ \A m \in DOMAIN T : L[m] = H[m]
  BY <1>1, <1>4
<1>6. L[w].title = name /\ L[w].kids = <<>> /\ \A m \in DOMAIN T : L[m].title = T[m].title
  <2>1. L[w].title = name /\ L[w].kids = <<>>
    BY <1>5 DEF Node
  <2> QED
    BY <1>3, <1>5, <2>1
<1>7. L \in TreeNodes(DOMAIN L)
  <2>1. Node(name, <<>>) \in [title : Titles, kids : Seq(Item)]
    BY DEF Node
  <2>2. \A m \in DOMAIN T : H[m] \in [title : Titles, kids : Seq(Item)]
    BY <1>3 DEF TreeNodes
  <2> QED
    BY <1>1, <1>4, <1>5, <2>1, <2>2 DEF TreeNodes
<1>8. \A m \in DOMAIN T : T[m].kids \in Seq(Item) /\ Once(T[m].kids)
  BY TreeFacts
<1>9. \A m \in DOMAIN L, e \in Nat :
          Holds(L, m, e) <=> m \in DOMAIN T /\ (Holds(T, m, e) \/ (m = n /\ e = w))
  <2> SUFFICES ASSUME NEW m \in DOMAIN L, NEW e \in Nat
               PROVE  Holds(L, m, e) <=> m \in DOMAIN T /\ (Holds(T, m, e) \/ (m = n /\ e = w))
    OBVIOUS
  <2>1. CASE m = w
    <3>1. DOMAIN L[m].kids = {}
      BY <1>6, <2>1
    <3> QED
      BY <1>1, <2>1, <3>1 DEF Holds
  <2>2. CASE m = n
    <3>1. L[n].kids = Append(T[n].kids, Elem(w)) /\ T[n].kids \in Seq(Item)
      BY <1>3, <1>5, <1>8
    <3>2. Holds(L, n, e) <=> Holds(T, n, e) \/ Elem(w) = Elem(e)
      <4>1. PICK s, x : s = T[n].kids /\ x = Elem(w)
        OBVIOUS
      <4>2. s \in Seq(Item) /\ x \in Item /\ L[n].kids = Append(s, x)
        BY <1>2, <3>1, <4>1
      <4>3. (\E j \in DOMAIN Append(s, x) : Append(s, x)[j] = Elem(e))
              <=> (\E j \in DOMAIN s : s[j] = Elem(e)) \/ x = Elem(e)
        BY <4>2, AppendHolds
      <4>4. Holds(T, n, e) <=> \E j \in DOMAIN s : s[j] = Elem(e)
        BY <4>1 DEF Holds
      <4>5. Holds(L, n, e) <=> \E j \in DOMAIN Append(s, x) : Append(s, x)[j] = Elem(e)
        BY <4>2 DEF Holds
      <4> QED
        BY <4>1, <4>3, <4>4, <4>5
    <3> QED
      BY <1>2, <2>2, <3>2
  <2>3. CASE m # n /\ m # w
    <3>1. m \in DOMAIN T /\ L[m] = T[m]
      BY <1>3, <1>5, <2>3
    <3> QED
      BY <2>3, <3>1 DEF Holds
  <2> QED
    BY <2>1, <2>2, <2>3
<1>10. \A m \in DOMAIN L : Once(L[m].kids)
  <2> SUFFICES ASSUME NEW m \in DOMAIN L PROVE Once(L[m].kids)
    OBVIOUS
  <2>1. CASE m = w
    BY <1>6, <2>1 DEF Once
  <2>2. CASE m = n
    <3>1. L[n].kids = Append(T[n].kids, Elem(w)) /\ T[n].kids \in Seq(Item) /\ Once(T[n].kids)
      BY <1>3, <1>5, <1>8
    <3>2. \A j \in 1..Len(T[n].kids) : T[n].kids[j] # Elem(w)
      <4>1. ~Holds(T, n, w)
        BY <1>1, TreeFacts
      <4>2. DOMAIN T[n].kids = 1..Len(T[n].kids)
        BY <3>1
      <4> QED
        BY <4>1, <4>2 DEF Holds
    <3> QED
      BY <1>2, <2>2, <3>1, <3>2, AppendOnce
  <2>3. CASE m # n /\ m # w
    BY <1>3, <1>5, <1>8, <2>3
  <2> QED
    BY <2>1, <2>2, <2>3
<1>11. IsTree(L)
  <2>0. /\ Doc \in DOMAIN T /\ DOMAIN T \subseteq Nat /\ IsFiniteSet(DOMAIN T)
        /\ \A m \in DOMAIN T, e \in Nat : Holds(T, m, e) => e \in DOMAIN T /\ m < e
        /\ \A p, m \in DOMAIN T, e \in Nat : Holds(T, p, e) /\ Holds(T, m, e) => p = m
        /\ \A e \in DOMAIN T \ {Doc} : \E m \in DOMAIN T : Holds(T, m, e)
    BY TreeFacts
  <2>1. \A m \in DOMAIN L, e \in Nat : Holds(L, m, e) => e \in DOMAIN L /\ m < e
    BY <1>1, <1>5, <1>9, <2>0
  <2>2. \A p, m \in DOMAIN L, e \in Nat : Holds(L, p, e) /\ Holds(L, m, e) => p = m
    BY <1>1, <1>9, <2>0
  <2>3. \A e \in DOMAIN L \ {Doc} : \E m \in DOMAIN L : Holds(L, m, e)
    <3> SUFFICES ASSUME NEW e \in DOMAIN L \ {Doc} PROVE \E m \in DOMAIN L : Holds(L, m, e)
      OBVIOUS
    <3>1. CASE e = w
      BY <1>1, <1>5, <1>9, <3>1
    <3>2. CASE e # w
      <4>1. e \in DOMAIN T \ {Doc} /\ e \in Nat
        BY <1>5, <2>0, <3>2
      <4>2. PICK m \in DOMAIN T : Holds(T, m, e)
        BY <2>0, <4>1
      <4> QED
        BY <1>5, <1>9, <4>1, <4>2
    <3> QED
      BY <3>1, <3>2
  <2>4. Doc \in DOMAIN L /\ DOMAIN L \subseteq Nat /\ IsFiniteSet(DOMAIN L)
    BY <1>1, <1>5, <2>0, FS_AddElement
  <2> QED
    BY <1>7, <1>10, <2>1, <2>2, <2>3, <2>4, TreeMade
<1>12. L[n] = Node(T[n].title, Append(T[n].kids, Elem(w)))
  <2>1. L[n] = H[n] /\ n \in DOMAIN H /\ H \in TreeNodes(DOMAIN H)
    BY <1>3, <1>5
  <2>2. H[n] = Node(H[n].title, H[n].kids)
    BY <2>1 DEF TreeNodes, Node
  <2> QED
    BY <1>3, <2>1, <2>2
<1> QED
  BY <1>1, <1>3, <1>5, <1>11, <1>12 DEF L, w, H

\* An element has one parent and one place.
LEMMA ParentIs ==
    ASSUME NEW T, IsTree(T), NEW e \in DOMAIN T \ {Doc}
    PROVE  /\ ParentOf(T, e) \in DOMAIN T /\ Holds(T, ParentOf(T, e), e) /\ ParentOf(T, e) < e
           /\ \A m \in DOMAIN T : Holds(T, m, e) => m = ParentOf(T, e)
           /\ PlaceOf(T, e) \in DOMAIN T[ParentOf(T, e)].kids
           /\ T[ParentOf(T, e)].kids[PlaceOf(T, e)] = Elem(e)
<1>1. e \in Nat /\ e # Null
  BY TreeFacts DEF Null
<1>2. \E n \in DOMAIN T : Holds(T, n, e)
  BY TreeFacts
<1>3. ParentOf(T, e) = CHOOSE n \in DOMAIN T : Holds(T, n, e)
  BY <1>1 DEF ParentOf
<1>4. ParentOf(T, e) \in DOMAIN T /\ Holds(T, ParentOf(T, e), e)
  BY <1>2, <1>3
<1>5. ParentOf(T, e) < e /\ \A m \in DOMAIN T : Holds(T, m, e) => m = ParentOf(T, e)
  BY <1>1, <1>4, TreeFacts
<1>6. /\ PlaceOf(T, e) \in DOMAIN T[ParentOf(T, e)].kids
      /\ T[ParentOf(T, e)].kids[PlaceOf(T, e)] = Elem(e)
  BY <1>4 DEF PlaceOf, Holds
<1> QED
  BY <1>4, <1>5, <1>6

\* What is below a node hangs below it and nowhere else, and has greater numbers.
LEMMA BelowIs ==
    ASSUME NEW T, IsTree(T), NEW n \in DOMAIN T
    PROVE  /\ Below(T, n) \subseteq DOMAIN T
           /\ \A m \in Below(T, n) \cup {n}, k \in DOMAIN T : Holds(T, m, k) => k \in Below(T, n)
           /\ \A e \in Below(T, n) : n < e
           /\ \A e \in Below(T, n), m \in DOMAIN T : Holds(T, m, e) => m \in Below(T, n) \cup {n}
<1> DEFINE B == Below(T, n)
           Closed(S) == \A m \in S \cup {n} : \A k \in DOMAIN T : Holds(T, m, k) => k \in S
<1>0. B = {e \in DOMAIN T : \A S \in SUBSET DOMAIN T : Closed(S) => e \in S}
  BY DEF Below
<1>1. B \subseteq DOMAIN T /\ \A S \in SUBSET DOMAIN T : Closed(S) => B \subseteq S
  <2> HIDE DEF Closed, B
  <2> QED
    BY <1>0
<1> HIDE DEF B
<1>2. Closed(B)
  <2> SUFFICES ASSUME NEW m \in B \cup {n}, NEW k \in DOMAIN T, Holds(T, m, k) PROVE k \in B
    OBVIOUS
  <2> SUFFICES ASSUME NEW S \in SUBSET DOMAIN T, Closed(S) PROVE k \in S
    <3> HIDE DEF Closed
    <3> QED
      BY <1>0
  <2>1. m \in S \cup {n}
    <3> HIDE DEF Closed
    <3> QED
      BY <1>1
  <2> QED
    BY <2>1
<1>3. DOMAIN T \subseteq Nat /\ \A m \in DOMAIN T, e \in Nat : Holds(T, m, e) => e \in DOMAIN T /\ m < e
  BY TreeFacts
<1>4. \A e \in B : n < e
  <2> DEFINE S == {e \in DOMAIN T : n < e}
  <2>1. Closed(S)
    <3> SUFFICES ASSUME NEW m \in S \cup {n}, NEW k \in DOMAIN T, Holds(T, m, k) PROVE k \in S
      OBVIOUS
    <3>1. m \in DOMAIN T /\ n <= m /\ m \in Nat /\ n \in Nat /\ k \in Nat
      BY <1>3
    <3>2. m < k
      BY <1>3, <3>1
    <3> QED
      BY <3>1, <3>2
  <2> HIDE DEF Closed
  <2>2. B \subseteq S
    BY <1>1, <2>1
  <2> QED
    BY <2>2
<1>5. \A e \in B, m \in DOMAIN T : Holds(T, m, e) => m \in B \cup {n}
  <2> DEFINE S == {e \in DOMAIN T : \E m \in B \cup {n} : Holds(T, m, e)}
  <2>1. S \subseteq B
    BY <1>2
  <2>2. Closed(S)
    BY <2>1
  <2>3. B \subseteq S
    <3> HIDE DEF Closed
    <3> QED
      BY <1>1, <2>2
  <2> SUFFICES ASSUME NEW e \in B, NEW m \in DOMAIN T, Holds(T, m, e) PROVE m \in B \cup {n}
    OBVIOUS
  <2>4. PICK p \in B \cup {n} : Holds(T, p, e)
    BY <2>3
  <2>5. p \in DOMAIN T /\ e \in Nat
    BY <1>1, <1>3
  <2>6. m = p
    BY <2>4, <2>5, TreeFacts
  <2> QED
    BY <2>6
<1> QED
  BY <1>1, <1>2, <1>4, <1>5 DEF B

\* Clear leaves a tree, and nothing below the node.
LEMMA ClearTree ==
    ASSUME NEW T, IsTree(T), NEW n \in DOMAIN T
    PROVE  LET C == Clear(T, n) IN
           /\ IsTree(C) /\ DOMAIN C = DOMAIN T \ Below(T, n) /\ n \in DOMAIN C
           /\ C[n] = Node(T[n].title, <<>>)
           /\ \A m \in DOMAIN C : m # n => C[m] = T[m]
<1> DEFINE B == Below(T, n)
           C == Clear(T, n)
           F == Freed(T, B)
<1>1. /\ B \subseteq DOMAIN T
      /\ \A m \in B \cup {n}, k \in DOMAIN T : Holds(T, m, k) => k \in B
      /\ \A e \in B : n < e
      /\ \A e \in B, m \in DOMAIN T : Holds(T, m, e) => m \in B \cup {n}
  BY BelowIs
<1>2. C = [F EXCEPT ![n] = Node(F[n].title, <<>>)]
  BY DEF Clear
<1>3. F = [m \in DOMAIN T \ B |-> T[m]]
  BY DEF Freed
<1> HIDE DEF B, C, F
<1>4. /\ Doc \in DOMAIN T /\ DOMAIN T \subseteq Nat /\ IsFiniteSet(DOMAIN T) /\ T \in TreeNodes(DOMAIN T)
      /\ \A m \in DOMAIN T : T[m].title \in Titles /\ Once(T[m].kids)
      /\ \A m \in DOMAIN T, e \in Nat : Holds(T, m, e) => e \in DOMAIN T /\ m < e
      /\ \A p, m \in DOMAIN T, e \in Nat : Holds(T, p, e) /\ Holds(T, m, e) => p = m
      /\ \A e \in DOMAIN T \ {Doc} : \E m \in DOMAIN T : Holds(T, m, e)
  BY TreeFacts
<1>5. n \in DOMAIN T \ B
  BY <1>1, <1>4
<1>6. /\ DOMAIN C = DOMAIN T \ B /\ C[n] = Node(T[n].title, <<>>)
      /\ \A m \in DOMAIN C : m # n => C[m] = T[m]
  BY <1>2, <1>3, <1>5
<1>7. C \in TreeNodes(DOMAIN C)
  <2>1. <<>> \in Seq(Item)
    OBVIOUS
  <2>2. Node(T[n].title, <<>>) \in [title : Titles, kids : Seq(Item)]
    BY <1>4, <2>1 DEF Node
  <2>3. \A m \in DOMAIN T : T[m] \in [title : Titles, kids : Seq(Item)]
    BY <1>4 DEF TreeNodes
  <2>4. \A m \in DOMAIN C : C[m] \in [title : Titles, kids : Seq(Item)]
    BY <1>6, <2>2, <2>3
  <2>5. C = [m \in DOMAIN C |-> C[m]]
    BY <1>2, <1>3
  <2> QED
    BY <2>4, <2>5 DEF TreeNodes
<1>8. C[n].kids = <<>>
  BY <1>6 DEF Node
<1>9. \A m \in DOMAIN C, e \in Nat : Holds(C, m, e) <=> m # n /\ Holds(T, m, e)
  <2> SUFFICES ASSUME NEW m \in DOMAIN C, NEW e \in Nat
               PROVE  Holds(C, m, e) <=> m # n /\ Holds(T, m, e)
    OBVIOUS
  <2>1. CASE m = n
    <3>1. DOMAIN C[m].kids = {}
      BY <1>8, <2>1
    <3> QED
      BY <2>1, <3>1 DEF Holds
  <2>2. CASE m # n
    BY <1>6, <2>2 DEF Holds
  <2> QED
    BY <2>1, <2>2
<1>10. IsTree(C)
  <2>1. \A m \in DOMAIN C, e \in Nat : Holds(C, m, e) => e \in DOMAIN C /\ m < e
    <3> SUFFICES ASSUME NEW m \in DOMAIN C, NEW e \in Nat, Holds(C, m, e)
                 PROVE  e \in DOMAIN C /\ m < e
      OBVIOUS
    <3>1. m # n /\ Holds(T, m, e) /\ m \in DOMAIN T /\ m \notin B
      BY <1>6, <1>9
    <3>2. e \in DOMAIN T /\ m < e
      BY <1>4, <3>1
    <3>3. e \notin B
      BY <1>1, <3>1
    <3> QED
      BY <1>6, <3>2, <3>3
  <2>2. \A p, m \in DOMAIN C, e \in Nat : Holds(C, p, e) /\ Holds(C, m, e) => p = m
    BY <1>4, <1>6, <1>9
  <2>3. \A e \in DOMAIN C \ {Doc} : \E m \in DOMAIN C : Holds(C, m, e)
    <3> SUFFICES ASSUME NEW e \in DOMAIN C \ {Doc} PROVE \E m \in DOMAIN C : Holds(C, m, e)
      OBVIOUS
    <3>1. e \in DOMAIN T \ {Doc} /\ e \notin B /\ e \in Nat
      BY <1>4, <1>6
    <3>2. PICK m \in DOMAIN T : Holds(T, m, e)
      BY <1>4, <3>1
    <3>3. m \notin B \cup {n}
      BY <1>1, <3>1, <3>2
    <3> QED
      BY <1>6, <1>9, <3>1, <3>2, <3>3
  <2>4. Doc \in DOMAIN C /\ DOMAIN C \subseteq Nat /\ IsFiniteSet(DOMAIN C)
    <3>1. Doc \notin B
      BY <1>1, <1>4 DEF Doc
    <3>2. DOMAIN C \in SUBSET DOMAIN T
      BY <1>6
    <3> QED
      BY <1>4, <1>6, <3>1, <3>2, FS_Subset
  <2>5. \A m \in DOMAIN C : Once(C[m].kids)
    <3>1. Once(<<>>)
      BY DEF Once
    <3> QED
      BY <1>4, <1>6, <1>8, <3>1
  <2> QED
    BY <1>7, <2>1, <2>2, <2>3, <2>4, <2>5, TreeMade
<1> QED
  BY <1>5, <1>6, <1>10 DEF B, C

\* An item less: those behind it move up.
LEMMA RemoveAtIs ==
    ASSUME NEW X, NEW s \in Seq(X), NEW j \in 1..Len(s)
    PROVE  /\ RemoveAt(s, j) \in Seq(X) /\ Len(RemoveAt(s, j)) = Len(s) - 1
           /\ \A i \in 1..(Len(s) - 1) :
                  RemoveAt(s, j)[i] = IF i < j THEN s[i] ELSE s[i + 1]
<1> DEFINE a == SubSeq(s, 1, j - 1)
           b == SubSeq(s, j + 1, Len(s))
<1>1. Len(s) \in Nat /\ j \in Nat /\ j >= 1 /\ j <= Len(s)
  OBVIOUS
<1>2. a \in Seq(X) /\ Len(a) = j - 1 /\ \A i \in 1..(j - 1) : a[i] = s[i]
  BY <1>1
<1>3. b \in Seq(X) /\ Len(b) = Len(s) - j /\ \A i \in 1..(Len(s) - j) : b[i] = s[j + i]
  <2>1. \A i \in (j + 1)..Len(s) : s[i] \in X
    BY <1>1
  <2>2. b \in Seq(X)
    BY <1>1, <2>1
  <2>3. Len(b) = Len(s) - j
    BY <1>1
  <2>4. \A i \in 1..(Len(s) - j) : b[i] = s[j + i]
    BY <1>1
  <2> QED
    BY <2>2, <2>3, <2>4
<1>4. RemoveAt(s, j) = a \o b
  BY DEF RemoveAt
<1> HIDE DEF a, b
<1>5. a \o b \in Seq(X) /\ Len(a \o b) = Len(s) - 1
  <2>1. a \in Seq(X) /\ b \in Seq(X)
    BY <1>2, <1>3
  <2>2. a \o b \in Seq(X)
    BY <2>1, ConcatProperties
  <2>3. Len(a \o b) = Len(a) + Len(b)
    BY <2>1, ConcatProperties
  <2> QED
    BY <1>1, <1>2, <1>3, <2>2, <2>3
<1>6. ASSUME NEW i \in 1..(Len(s) - 1)
      PROVE  (a \o b)[i] = IF i < j THEN s[i] ELSE s[i + 1]
  <2>1. CASE i < j
    <3>1. i \in 1..Len(a)
      BY <1>1, <1>2, <2>1
    <3>2. (a \o b)[i] = a[i]
      BY <1>2, <1>3, <3>1
    <3> QED
      BY <1>2, <2>1, <3>1, <3>2
  <2>2. CASE ~(i < j)
    <3>1. i - (j - 1) \in 1..(Len(s) - j) /\ i \in 1..(Len(a) + Len(b)) /\ ~(i <= Len(a))
      BY <1>1, <1>2, <1>3, <2>2
    <3>2. (a \o b)[i] = b[i - Len(a)]
      BY <1>2, <1>3, <3>1
    <3>3. b[i - (j - 1)] = s[j + (i - (j - 1))] /\ j + (i - (j - 1)) = i + 1
      BY <1>1, <1>3, <3>1
    <3> QED
      BY <1>2, <2>2, <3>2, <3>3
  <2> QED
    BY <2>1, <2>2
<1> QED
  BY <1>4, <1>5, <1>6

\* One item less: it is held no more, and the others are.
LEMMA RemoveHolds ==
    ASSUME NEW kids \in Seq(Item), Once(kids), NEW n \in Nat, NEW j \in 1..Len(kids),
           kids[j] = Elem(n), NEW e \in Nat
    PROVE  /\ Once(RemoveAt(kids, j))
           /\ (\E i \in DOMAIN RemoveAt(kids, j) : RemoveAt(kids, j)[i] = Elem(e))
                 <=> e # n /\ \E i \in DOMAIN kids : kids[i] = Elem(e)
<1> DEFINE less == RemoveAt(kids, j)
           from(i) == IF i < j THEN i ELSE i + 1
<1>1. /\ less \in Seq(Item) /\ Len(less) = Len(kids) - 1
      /\ \A i \in 1..(Len(kids) - 1) : less[i] = IF i < j THEN kids[i] ELSE kids[i + 1]
  BY RemoveAtIs
<1> HIDE DEF less
<1>2. Len(kids) \in Nat /\ DOMAIN kids = 1..Len(kids)
  OBVIOUS
<1>3. DOMAIN less = 1..(Len(kids) - 1)
  BY <1>1
<1>4. \A i \in 1..(Len(kids) - 1) : from(i) \in 1..Len(kids) /\ from(i) # j /\ less[i] = kids[from(i)]
  BY <1>1, <1>2
<1>5. \A i, k \in 1..(Len(kids) - 1) : from(i) = from(k) => i = k
  BY <1>2
<1>6. \A k \in 1..Len(kids) : k # j => \E i \in 1..(Len(kids) - 1) : from(i) = k
  <2> SUFFICES ASSUME NEW k \in 1..Len(kids), k # j
               PROVE  \E i \in 1..(Len(kids) - 1) : from(i) = k
    OBVIOUS
  <2>1. CASE k < j
    <3>1. k \in 1..(Len(kids) - 1) /\ from(k) = k
      BY <1>2, <2>1
    <3> QED
      BY <3>1
  <2>2. CASE ~(k < j)
    <3>1. k - 1 \in 1..(Len(kids) - 1) /\ from(k - 1) = k
      BY <1>2, <2>2
    <3> QED
      BY <3>1
  <2> QED
    BY <2>1, <2>2
<1> HIDE DEF from
<1>7. Once(less)
  <2> SUFFICES ASSUME NEW i \in 1..Len(less), NEW k \in 1..Len(less),
                      IsElem(less[i]), less[i] = less[k]
               PROVE  i = k
    BY DEF Once
  <2>1. from(i) = from(k)
    BY <1>1, <1>4 DEF Once
  <2> QED
    BY <1>1, <1>5, <2>1
<1>8. IsElem(Elem(n)) /\ (Elem(e) = Elem(n) => e = n)
  BY Items
<1>9. (\E i \in DOMAIN less : less[i] = Elem(e)) <=> e # n /\ \E i \in DOMAIN kids : kids[i] = Elem(e)
  <2>1. ASSUME NEW i \in DOMAIN less, less[i] = Elem(e)
        PROVE  e # n /\ \E k \in DOMAIN kids : kids[k] = Elem(e)
    <3>1. from(i) \in DOMAIN kids /\ from(i) # j /\ kids[from(i)] = Elem(e)
      BY <1>2, <1>3, <1>4, <2>1
    <3>2. e # n
      BY <1>2, <1>8, <3>1 DEF Once
    <3> QED
      BY <3>1, <3>2
  <2>2. ASSUME NEW k \in DOMAIN kids, kids[k] = Elem(e), e # n
        PROVE  \E i \in DOMAIN less : less[i] = Elem(e)
    <3>1. k # j
      BY <1>8, <2>2
    <3>2. PICK i \in 1..(Len(kids) - 1) : from(i) = k
      BY <1>2, <1>6, <3>1
    <3> QED
      BY <1>3, <1>4, <2>2, <3>2
  <2> QED
    BY <2>1, <2>2
<1> QED
  BY <1>7, <1>9 DEF less

\* RemoveChild leaves a tree, without the node and what was below.
LEMMA RemoveTree ==
    ASSUME NEW T, IsTree(T), NEW n \in DOMAIN T \ {Doc}
    PROVE  LET R == RemoveChild(T, n) IN
           /\ IsTree(R) /\ DOMAIN R = DOMAIN T \ (Below(T, n) \cup {n})
<1> DEFINE B == Below(T, n)
           p == ParentOf(T, n)
           j == PlaceOf(T, n)
           F == Freed(T, B \cup {n})
           R == RemoveChild(T, n)
           less == RemoveAt(T[p].kids, j)
<1>1. /\ B \subseteq DOMAIN T
      /\ \A m \in B \cup {n}, k \in DOMAIN T : Holds(T, m, k) => k \in B
      /\ \A e \in B : n < e
      /\ \A e \in B, m \in DOMAIN T : Holds(T, m, e) => m \in B \cup {n}
  BY BelowIs
<1>2. /\ p \in DOMAIN T /\ p < n
      /\ \A m \in DOMAIN T : Holds(T, m, n) => m = p
      /\ j \in DOMAIN T[p].kids /\ T[p].kids[j] = Elem(n)
  BY ParentIs
<1>3. R = [F EXCEPT ![p] = Node(F[p].title, RemoveAt(F[p].kids, j))]
  BY DEF RemoveChild
<1>4. F = [m \in DOMAIN T \ (B \cup {n}) |-> T[m]]
  BY DEF Freed
<1> HIDE DEF B, p, j, F, R
<1>5. /\ Doc \in DOMAIN T /\ DOMAIN T \subseteq Nat /\ IsFiniteSet(DOMAIN T) /\ T \in TreeNodes(DOMAIN T)
      /\ \A m \in DOMAIN T : /\ T[m].title \in Titles /\ T[m].kids \in Seq(Item) /\ Once(T[m].kids)
                             /\ DOMAIN T[m].kids = 1..Len(T[m].kids)
      /\ \A m \in DOMAIN T, e \in Nat : Holds(T, m, e) => e \in DOMAIN T /\ m < e
      /\ \A q, m \in DOMAIN T, e \in Nat : Holds(T, q, e) /\ Holds(T, m, e) => q = m
      /\ \A e \in DOMAIN T \ {Doc} : \E m \in DOMAIN T : Holds(T, m, e)
  BY TreeFacts
<1>6. p \in DOMAIN T \ (B \cup {n})
  BY <1>1, <1>2, <1>5
<1>7. F[p] = T[p]
  BY <1>4, <1>6
<1>8. /\ DOMAIN R = DOMAIN T \ (B \cup {n}) /\ R[p] = Node(T[p].title, less)
      /\ \A m \in DOMAIN R : m # p => R[m] = T[m]
  BY <1>3, <1>4, <1>6, <1>7
<1>9. less \in Seq(Item)
  BY <1>2, <1>5, RemoveAtIs
<1>10. R \in TreeNodes(DOMAIN R)
  <2>1. Node(T[p].title, less) \in [title : Titles, kids : Seq(Item)]
    <3> HIDE DEF less
    <3> QED
      BY <1>2, <1>5, <1>9 DEF Node
  <2>2. \A m \in DOMAIN T : T[m] \in [title : Titles, kids : Seq(Item)]
    BY <1>5 DEF TreeNodes
  <2> HIDE DEF less
  <2>3. \A m \in DOMAIN R : R[m] \in [title : Titles, kids : Seq(Item)]
    BY <1>8, <2>1, <2>2
  <2>4. R = [m \in DOMAIN R |-> R[m]]
    BY <1>3, <1>4
  <2> QED
    BY <2>3, <2>4 DEF TreeNodes
<1>11. R[p].kids = less
  BY <1>8 DEF Node
<1>12. /\ Once(less)
       /\ \A e \in Nat : (\E i \in DOMAIN less : less[i] = Elem(e)) <=> e # n /\ Holds(T, p, e)
  <2>1. n \in Nat /\ T[p].kids \in Seq(Item) /\ Once(T[p].kids) /\ j \in 1..Len(T[p].kids)
    BY <1>2, <1>5
  <2> QED
    BY <1>2, <2>1, RemoveHolds DEF Holds
<1> HIDE DEF less
<1>13. \A m \in DOMAIN R, e \in Nat : Holds(R, m, e) <=> e # n /\ Holds(T, m, e)
  <2> SUFFICES ASSUME NEW m \in DOMAIN R, NEW e \in Nat
               PROVE  Holds(R, m, e) <=> e # n /\ Holds(T, m, e)
    OBVIOUS
  <2>1. CASE m = p
    BY <1>11, <1>12, <2>1 DEF Holds
  <2>2. CASE m # p
    <3>1. Holds(R, m, e) <=> Holds(T, m, e)
      BY <1>8, <2>2 DEF Holds
    <3>2. m \in DOMAIN T /\ (Holds(T, m, e) => e # n)
      BY <1>2, <1>8, <2>2
    <3> QED
      BY <3>1, <3>2
  <2> QED
    BY <2>1, <2>2
<1>14. IsTree(R)
  <2>1. \A m \in DOMAIN R, e \in Nat : Holds(R, m, e) => e \in DOMAIN R /\ m < e
    <3> SUFFICES ASSUME NEW m \in DOMAIN R, NEW e \in Nat, Holds(R, m, e)
                 PROVE  e \in DOMAIN R /\ m < e
      OBVIOUS
    <3>1. e # n /\ Holds(T, m, e) /\ m \in DOMAIN T /\ m \notin B \cup {n}
      BY <1>8, <1>13
    <3>2. e \in DOMAIN T /\ m < e
      BY <1>5, <3>1
    <3>3. e \notin B
      BY <1>1, <3>1
    <3> QED
      BY <1>8, <3>1, <3>2, <3>3
  <2>2. \A q, m \in DOMAIN R, e \in Nat : Holds(R, q, e) /\ Holds(R, m, e) => q = m
    BY <1>5, <1>8, <1>13
  <2>3. \A e \in DOMAIN R \ {Doc} : \E m \in DOMAIN R : Holds(R, m, e)
    <3> SUFFICES ASSUME NEW e \in DOMAIN R \ {Doc} PROVE \E m \in DOMAIN R : Holds(R, m, e)
      OBVIOUS
    <3>1. e \in DOMAIN T \ {Doc} /\ e \notin B \cup {n} /\ e \in Nat
      BY <1>5, <1>8
    <3>2. PICK m \in DOMAIN T : Holds(T, m, e)
      BY <1>5, <3>1
    <3>3. m \notin B \cup {n}
      BY <1>1, <3>1, <3>2
    <3> QED
      BY <1>8, <1>13, <3>1, <3>2, <3>3
  <2>4. Doc \in DOMAIN R /\ DOMAIN R \subseteq Nat /\ IsFiniteSet(DOMAIN R)
    <3>1. Doc \notin B \cup {n}
      BY <1>1, <1>5 DEF Doc
    <3>2. DOMAIN R \in SUBSET DOMAIN T
      BY <1>8
    <3> QED
      BY <1>5, <1>8, <3>1, <3>2, FS_Subset
  <2>5. \A m \in DOMAIN R : Once(R[m].kids)
    BY <1>5, <1>8, <1>11, <1>12
  <2> QED
    BY <1>10, <2>1, <2>2, <2>3, <2>4, <2>5, TreeMade
<1> QED
  BY <1>8, <1>14 DEF B, R

------------------------------------------------------------------------------
(* Elements of a name.                                                        *)

\* The list of a node's elements that are in S: each is there once, in S and under the node.
LEMMA ListedAre ==
    ASSUME NEW T, IsTree(T), NEW n \in DOMAIN T, NEW S, S \subseteq DOMAIN T
    PROVE  LET P == Picked(T[n].kids, S) IN
           /\ P \in Seq(Nat) /\ Len(P) \in Nat
           /\ \A i \in 1..Len(P) : P[i] \in S /\ P[i] \in DOMAIN T /\ Holds(T, n, P[i]) /\ n < P[i]
           /\ \A e \in S : Holds(T, n, e) => \E i \in 1..Len(P) : P[i] = e
           /\ \A i, j \in 1..Len(P) : P[i] = P[j] => i = j
<1> DEFINE kids == T[n].kids
           P == Picked(kids, S)
<1>1. kids \in Seq(Item) /\ Once(kids) /\ DOMAIN kids = 1..Len(kids) /\ DOMAIN T \subseteq Nat
  BY TreeFacts
<1>2. P \in Seq(Nat)
  BY <1>1, PickedSeq
<1>3. \A i \in 1..Len(P) : P[i] \in S /\ P[i] \in Nat /\ \E j \in 1..Len(kids) : kids[j] = Elem(P[i])
  <2> DEFINE s == kids
  <2>1. s \in Seq(Item)
    BY <1>1
  <2> HIDE DEF s
  <2>2. \A i \in 1..Len(Picked(s, S)) :
            /\ Picked(s, S)[i] \in S /\ Picked(s, S)[i] \in Nat
            /\ \E j \in 1..Len(s) : s[j] = Elem(Picked(s, S)[i])
    BY <2>1, PickedRange
  <2> QED
    BY <2>2 DEF s
<1>4. \A j \in 1..Len(kids) : IsElem(kids[j]) /\ kids[j].elem \in S =>
          \E i \in 1..Len(P) : P[i] = kids[j].elem
  <2> DEFINE s == kids
  <2>1. s \in Seq(Item)
    BY <1>1
  <2> HIDE DEF s
  <2>2. \A j \in 1..Len(s) : IsElem(s[j]) /\ s[j].elem \in S =>
            \E i \in 1..Len(Picked(s, S)) : Picked(s, S)[i] = s[j].elem
    BY <2>1, PickedRange
  <2> QED
    BY <2>2 DEF s
<1>5. \A i, j \in 1..Len(P) : P[i] = P[j] => i = j
  BY <1>1, PickedOnce
<1> HIDE DEF P
<1>6. ASSUME NEW i \in 1..Len(P) PROVE P[i] \in S /\ P[i] \in DOMAIN T /\ Holds(T, n, P[i]) /\ n < P[i]
  <2>1. Holds(T, n, P[i])
    BY <1>1, <1>3 DEF Holds
  <2> QED
    BY <1>3, <2>1, TreeFacts
<1>7. ASSUME NEW e \in S, Holds(T, n, e) PROVE \E i \in 1..Len(P) : P[i] = e
  <2>1. PICK j \in 1..Len(kids) : kids[j] = Elem(e)
    BY <1>1, <1>7 DEF Holds
  <2>2. IsElem(kids[j]) /\ kids[j].elem = e
    BY <1>1, <2>1, Items
  <2> QED
    BY <1>4, <2>2
<1>8. Len(P) \in Nat
  BY <1>2
<1> QED
  BY <1>2, <1>5, <1>6, <1>7, <1>8 DEF P

\* The same of the elements of a name.
LEMMA NamedAre ==
    ASSUME NEW T, IsTree(T), NEW n \in DOMAIN T, NEW name
    PROVE  LET P == Named(T, n, name) IN
           /\ P \in Seq(Nat) /\ Len(P) \in Nat
           /\ \A i \in 1..Len(P) : /\ P[i] \in DOMAIN T /\ T[P[i]].title = name
                                   /\ Holds(T, n, P[i]) /\ n < P[i]
           /\ \A i, j \in 1..Len(P) : P[i] = P[j] => i = j
<1>1. Titled(T, name) \subseteq DOMAIN T
  BY DEF Titled
<1>2. \A e \in Titled(T, name) : T[e].title = name
  BY DEF Titled
<1> QED
  BY <1>1, <1>2, ListedAre DEF Named

\* Another tree that has what is under a node gives it the same titles.
LEMMA TitledSame ==
    ASSUME NEW T, IsTree(T), NEW m \in DOMAIN T, NEW R, NEW name,
           \A e \in DOMAIN T : Holds(T, m, e) => e \in DOMAIN R /\ R[e].title = T[e].title
    PROVE  Picked(T[m].kids, Titled(R, name)) = Named(T, m, name)
<1> DEFINE kids == T[m].kids
<1>1. kids \in Seq(Item) /\ DOMAIN kids = 1..Len(kids)
  BY TreeFacts
<1>2. ASSUME NEW j \in 1..Len(kids), IsElem(kids[j])
      PROVE  kids[j].elem \in Titled(R, name) <=> kids[j].elem \in Titled(T, name)
  <2>1. PICK e \in Nat : kids[j] = Elem(e) /\ kids[j].elem = e
    BY <1>2, Items
  <2>2. Holds(T, m, e)
    BY <1>1, <2>1 DEF Holds
  <2>3. e \in DOMAIN T /\ e \in DOMAIN R /\ R[e].title = T[e].title
    BY <2>2, TreeFacts
  <2> QED
    BY <2>1, <2>3 DEF Titled
<1> QED
  BY <1>1, <1>2, PickedSame DEF Named

\* What the new element does to the lists.
LEMMA NamedLink ==
    ASSUME NEW T, IsTree(T), NEW n \in DOMAIN T, NEW name \in Titles
    PROVE  LET L == Link(T, n, name) IN
           /\ Named(L, n, name) = Append(Named(T, n, name), New(T))
           /\ \A x : x # name => Named(L, n, x) = Named(T, n, x)
           /\ \A m \in DOMAIN T : \A x : m # n => Named(L, m, x) = Named(T, m, x)
           /\ Last(ElementsOf(L, n)) = New(T)
<1> DEFINE L == Link(T, n, name)
           w == New(T)
<1>1. /\ IsTree(L) /\ DOMAIN L = DOMAIN T \cup {w} /\ w \notin DOMAIN T /\ w \in Nat
      /\ L[w].title = name
      /\ \A m \in DOMAIN T : L[m].title = T[m].title
      /\ L[n].kids = Append(T[n].kids, Elem(w))
      /\ \A m \in DOMAIN T : m # n => L[m] = T[m]
  <2>1. /\ IsTree(L) /\ DOMAIN L = DOMAIN T \cup {w} /\ w \notin DOMAIN T /\ w \in Nat
        /\ L[w] = Node(name, <<>>)
        /\ L[n] = Node(T[n].title, Append(T[n].kids, Elem(w)))
        /\ \A m \in DOMAIN T : m # n => L[m] = T[m]
    BY LinkTree
  <2> HIDE DEF L, w
  <2>2. L[w].title = name /\ L[n].title = T[n].title /\ L[n].kids = Append(T[n].kids, Elem(w))
    BY <2>1 DEF Node
  <2> QED
    BY <2>1, <2>2
<1> HIDE DEF L, w
<1>2. \A m \in DOMAIN T : \A e \in DOMAIN T : Holds(T, m, e) => e \in DOMAIN L /\ L[e].title = T[e].title
  BY <1>1
<1>3. \A m \in DOMAIN T : \A x : Picked(T[m].kids, Titled(L, x)) = Named(T, m, x)
  BY <1>2, TitledSame
<1>4. T[n].kids \in Seq(Item) /\ Elem(w) \in Item /\ IsElem(Elem(w)) /\ Elem(w).elem = w
  BY <1>1, Items, TreeFacts
<1>5. \A S : Picked(L[n].kids, S) = IF w \in S THEN Append(Picked(T[n].kids, S), w)
                                    ELSE Picked(T[n].kids, S)
  <2> SUFFICES ASSUME NEW S
               PROVE  Picked(L[n].kids, S) = IF w \in S THEN Append(Picked(T[n].kids, S), w)
                                             ELSE Picked(T[n].kids, S)
    OBVIOUS
  <2>1. Picked(Append(T[n].kids, Elem(w)), S) =
            IF IsElem(Elem(w)) /\ Elem(w).elem \in S
            THEN Append(Picked(T[n].kids, S), Elem(w).elem) ELSE Picked(T[n].kids, S)
    BY <1>4, PickedAppend
  <2> QED
    BY <1>1, <1>4, <2>1
<1>6. w \in Titled(L, name) /\ \A x : x # name => w \notin Titled(L, x)
  BY <1>1 DEF Titled
<1>7. Named(L, n, name) = Append(Named(T, n, name), w)
  BY <1>3, <1>5, <1>6 DEF Named
<1>8. ASSUME NEW x, x # name PROVE Named(L, n, x) = Named(T, n, x)
  <2>1. w \notin Titled(L, x)
    BY <1>6, <1>8
  <2>2. Named(L, n, x) = Picked(T[n].kids, Titled(L, x))
    BY <1>5, <2>1 DEF Named
  <2> QED
    BY <1>3, <2>2
<1>9. \A m \in DOMAIN T : \A x : m # n => Named(L, m, x) = Named(T, m, x)
  BY <1>1, <1>3 DEF Named
<1>10. Last(ElementsOf(L, n)) = w
  <2> DEFINE p == Picked(T[n].kids, DOMAIN L)
  <2>1. p \in Seq(Nat)
    BY <1>4, PickedSeq
  <2>2. ElementsOf(L, n) = Append(p, w)
    BY <1>1, <1>5 DEF ElementsOf
  <2> HIDE DEF p
  <2>3. Append(p, w)[Len(Append(p, w))] = w
    BY <1>1, <2>1
  <2> QED
    BY <2>2, <2>3 DEF Last
<1> QED
  BY <1>7, <1>8, <1>9, <1>10 DEF L, w

\* R has all that T has, where T has it: what is added to lists is added behind.
Extends(T, R) ==
    /\ DOMAIN T \subseteq DOMAIN R
    /\ \A m \in DOMAIN T : \A x :
           /\ Len(Named(T, m, x)) <= Len(Named(R, m, x))
           /\ \A i \in 1..Len(Named(T, m, x)) : Named(R, m, x)[i] = Named(T, m, x)[i]

\* A tree extends itself,
LEMMA ExtendsSelf == ASSUME NEW T, IsTree(T) PROVE Extends(T, T)
BY NamedAre DEF Extends

\* and what extends an extension extends it,
LEMMA ExtendsOn ==
    ASSUME NEW T, NEW R, NEW U, IsTree(T), IsTree(R), IsTree(U), Extends(T, R), Extends(R, U)
    PROVE  Extends(T, U)
<1>1. DOMAIN T \subseteq DOMAIN U
  BY DEF Extends
<1>2. ASSUME NEW m \in DOMAIN T, NEW x
      PROVE  /\ Len(Named(T, m, x)) <= Len(Named(U, m, x))
             /\ \A i \in 1..Len(Named(T, m, x)) : Named(U, m, x)[i] = Named(T, m, x)[i]
  <2> DEFINE a == Named(T, m, x)
             b == Named(R, m, x)
             c == Named(U, m, x)
  <2>1. m \in DOMAIN R /\ m \in DOMAIN U
    BY <1>1 DEF Extends
  <2>2. Len(a) \in Nat /\ Len(b) \in Nat /\ Len(c) \in Nat
    BY <2>1, NamedAre
  <2>3. /\ Len(a) <= Len(b) /\ Len(b) <= Len(c)
        /\ \A i \in 1..Len(a) : b[i] = a[i]
        /\ \A i \in 1..Len(b) : c[i] = b[i]
    BY <2>1 DEF Extends
  <2> HIDE DEF a, b, c
  <2>4. Len(a) <= Len(c) /\ \A i \in 1..Len(a) : i \in 1..Len(b) /\ c[i] = a[i]
    BY <2>2, <2>3
  <2> QED
    BY <2>4 DEF a, c
<1> QED
  BY <1>1, <1>2 DEF Extends

\* and so does a tree with an element more.
LEMMA LinkExtends ==
    ASSUME NEW T, IsTree(T), NEW n \in DOMAIN T, NEW name \in Titles
    PROVE  Extends(T, Link(T, n, name))
<1> DEFINE L == Link(T, n, name)
<1>1. DOMAIN T \subseteq DOMAIN L /\ New(T) \in Nat
  <2>1. DOMAIN L = DOMAIN T \cup {New(T)}
    BY LinkTree
  <2> QED
    BY <2>1, NewIsNew
<1>2. /\ Named(L, n, name) = Append(Named(T, n, name), New(T))
      /\ \A x : x # name => Named(L, n, x) = Named(T, n, x)
      /\ \A m \in DOMAIN T : \A x : m # n => Named(L, m, x) = Named(T, m, x)
  BY NamedLink
<1> HIDE DEF L
<1>3. ASSUME NEW m \in DOMAIN T, NEW x
      PROVE  /\ Len(Named(T, m, x)) <= Len(Named(L, m, x))
             /\ \A i \in 1..Len(Named(T, m, x)) : Named(L, m, x)[i] = Named(T, m, x)[i]
  <2>1. Named(T, m, x) \in Seq(Nat) /\ Len(Named(T, m, x)) \in Nat
    BY NamedAre
  <2>2. CASE Named(L, m, x) = Named(T, m, x)
    BY <2>1, <2>2
  <2>3. CASE Named(L, m, x) # Named(T, m, x)
    <3>1. Named(L, m, x) = Append(Named(T, m, x), New(T))
      BY <1>2, <2>3
    <3> DEFINE p == Named(T, m, x)
    <3>2. p \in Seq(Nat)
      BY <2>1
    <3> HIDE DEF p
    <3>3. Len(p) <= Len(Append(p, New(T))) /\ \A i \in 1..Len(p) : Append(p, New(T))[i] = p[i]
      BY <1>1, <3>2
    <3> QED
      BY <3>1, <3>3 DEF p
  <2> QED
    BY <2>2, <2>3
<1> QED
  BY <1>1, <1>3 DEF Extends, L

------------------------------------------------------------------------------
(* Paths.                                                                     *)

Where(T) == DOMAIN T \cup {Null}
Steps == [name : Names \cup {".", ".."}, index : Int]
Finds(T) == [found : BOOLEAN, node : Where(T)]

\* The search is among the children of a node of the tree.
LEMMA FromIs == ASSUME NEW T, IsTree(T), NEW n \in Where(T) PROVE From(n) \in DOMAIN T
BY TreeFacts DEF From, Where

\* A name is found where the list of the name is long enough.
LEMMA FindIs ==
    ASSUME NEW T, IsTree(T), NEW n \in Where(T), NEW step \in Steps
    PROVE  /\ _find_node(T, n, step) \in Finds(T)
           /\ step.name = "." => _find_node(T, n, step) = [found |-> TRUE, node |-> n]
           /\ step.name = ".." => _find_node(T, n, step).found
           /\ step.name \in Names =>
                  _find_node(T, n, step) =
                      IF step.index \in 0..(Len(Named(T, From(n), step.name)) - 1)
                      THEN [found |-> TRUE, node |-> Named(T, From(n), step.name)[step.index + 1]]
                      ELSE [found |-> FALSE, node |-> Null]
<1>1. step.name \in Names \cup {".", ".."} /\ step.index \in Int
  BY DEF Steps
<1>2. "." \notin Names /\ ".." \notin Names
  BY NamesAssumption
<1>3. Null \in Where(T)
  BY DEF Where
<1>4. CASE step.name = "."
  BY <1>2, <1>4 DEF _find_node, Finds
<1>5. CASE step.name = ".."
  <2>1. ParentOf(T, n) \in Where(T)
    <3>1. CASE n \in {Doc, Null}
      BY <1>3, <3>1 DEF ParentOf
    <3>2. CASE n \notin {Doc, Null}
      BY <3>2, ParentIs DEF Where
    <3> QED
      BY <3>1, <3>2
  <2> QED
    BY <1>2, <1>5, <2>1 DEF _find_node, Finds
<1>6. CASE step.name \in Names
  <2> DEFINE same == Named(T, From(n), step.name)
  <2>1. _find_node(T, n, step) = IF step.index \in 0..(Len(same) - 1)
                                 THEN [found |-> TRUE, node |-> same[step.index + 1]]
                                 ELSE [found |-> FALSE, node |-> Null]
    BY <1>2, <1>6 DEF _find_node
  <2>2. Len(same) \in Nat /\ \A i \in 1..Len(same) : same[i] \in DOMAIN T
    BY FromIs, NamedAre
  <2>3. CASE step.index \in 0..(Len(same) - 1)
    <3> HIDE DEF same
    <3>1. step.index + 1 \in 1..Len(same)
      BY <1>1, <2>2, <2>3
    <3>2. same[step.index + 1] \in Where(T)
      BY <2>2, <3>1 DEF Where
    <3> QED
      BY <1>2, <1>6, <2>1, <2>3, <3>2 DEF Finds, same
  <2>4. CASE step.index \notin 0..(Len(same) - 1)
    BY <1>2, <1>3, <1>6, <2>1, <2>4 DEF Finds
  <2> QED
    BY <2>3, <2>4
<1> QED
  BY <1>1, <1>4, <1>5, <1>6

\* What is found is found in what extends the tree.
LEMMA FindAgain ==
    ASSUME NEW T, IsTree(T), NEW R, IsTree(R), Extends(T, R), NEW n \in Where(T),
           NEW step \in Steps, step.name # "..", _find_node(T, n, step).found
    PROVE  _find_node(R, n, step) = _find_node(T, n, step)
<1>1. n \in Where(R) /\ From(n) \in DOMAIN T /\ From(n) \in DOMAIN R
  BY FromIs DEF Where, Extends
<1>2. CASE step.name = "."
  <2>1. _find_node(T, n, step) = [found |-> TRUE, node |-> n]
    BY <1>2, FindIs
  <2>2. _find_node(R, n, step) = [found |-> TRUE, node |-> n]
    BY <1>1, <1>2, FindIs
  <2> QED
    BY <2>1, <2>2
<1>3. CASE step.name # "."
  <2> DEFINE a == Named(T, From(n), step.name)
             b == Named(R, From(n), step.name)
             i == step.index
  <2>1. step.name \in Names /\ i \in Int
    BY <1>3 DEF Steps
  <2>2. _find_node(T, n, step) = IF i \in 0..(Len(a) - 1)
                                 THEN [found |-> TRUE, node |-> a[i + 1]]
                                 ELSE [found |-> FALSE, node |-> Null]
    BY <2>1, FindIs
  <2>3. _find_node(R, n, step) = IF i \in 0..(Len(b) - 1)
                                 THEN [found |-> TRUE, node |-> b[i + 1]]
                                 ELSE [found |-> FALSE, node |-> Null]
    BY <1>1, <2>1, FindIs
  <2>4. Len(a) \in Nat /\ Len(b) \in Nat
    BY <1>1, NamedAre
  <2>5. Len(a) <= Len(b) /\ \A j \in 1..Len(a) : b[j] = a[j]
    BY <1>1 DEF Extends
  <2> HIDE DEF a, b, i
  <2>6. i \in 0..(Len(a) - 1)
    BY <2>2
  <2>7. i \in 0..(Len(b) - 1) /\ i + 1 \in 1..Len(a)
    BY <2>1, <2>4, <2>5, <2>6
  <2> QED
    BY <2>2, <2>3, <2>5, <2>6, <2>7
<1> QED
  BY <1>2, <1>3

\* All trees that have a node n.
TreesWith(n) == {T \in UNION {TreeNodes(D) : D \in SUBSET Nat} : IsTree(T) /\ n \in DOMAIN T}

\* They are all of them, though a set must be bounded to be one.
LEMMA TreesAre == \A T, n : T \in TreesWith(n) <=> IsTree(T) /\ n \in DOMAIN T
<1> SUFFICES ASSUME NEW T, NEW n, IsTree(T), n \in DOMAIN T PROVE T \in TreesWith(n)
  BY DEF TreesWith
<1>1. T \in TreeNodes(DOMAIN T) /\ DOMAIN T \in SUBSET Nat
  BY TreeFacts
<1>2. T \in UNION {TreeNodes(D) : D \in SUBSET Nat}
  BY <1>1
<1> QED
  BY <1>2 DEF TreesWith

\* The elements are added one by one.
LEMMA GrownUpto ==
    ASSUME NEW T, IsTree(T), NEW n \in DOMAIN T, NEW name \in Titles, NEW add \in Nat
    PROVE  \E f : /\ f[0] = T /\ \A i \in 1..add : f[i] = Link(f[i - 1], n, name)
                  /\ Grown(T, n, name, add) = f[add]
<1> DEFINE Eq(f) == f = [i \in 0..add |-> IF i = 0 THEN T ELSE Link(f[i - 1], n, name)]
<1>1. PICK D : D = TreesWith(n)
  OBVIOUS
<1>2. PICK F : F = [k \in 1..add |-> [R \in D |-> Link(R, n, name)]]
  OBVIOUS
<1>3. PICK f : Folds(f, F, add, D, T)
  <2>1. T \in D
    BY <1>1, TreesAre
  <2>2. Maps(F, add, D)
    <3>1. ASSUME NEW R \in D PROVE Link(R, n, name) \in D
      <4>1. IsTree(R) /\ n \in DOMAIN R
        BY <1>1, TreesAre
      <4>2. IsTree(Link(R, n, name)) /\ DOMAIN Link(R, n, name) = DOMAIN R \cup {New(R)}
        BY <4>1, LinkTree
      <4> QED
        BY <1>1, <4>1, <4>2, TreesAre
    <3> QED
      BY <1>2, <3>1 DEF Maps
  <2> QED
    BY <2>1, <2>2, Folded
<1>4. Eq(f)
  <2>1. f \in [0..add -> D] /\ f[0] = T /\ \A k \in 1..add : f[k] = F[k][f[k - 1]]
    BY <1>3 DEF Folds
  <2>2. ASSUME NEW k \in 0..add, k # 0 PROVE f[k] = Link(f[k - 1], n, name)
    <3>1. k \in 1..add /\ k - 1 \in 0..add
      BY <2>2
    <3> QED
      BY <1>2, <2>1, <3>1
  <2> QED
    BY <2>1, <2>2
<1> DEFINE u == CHOOSE h : Eq(h)
<1>5. Eq(u)
  <2> HIDE DEF Eq
  <2> QED
    BY <1>4
<1>6. Grown(T, n, name, add) = u[add]
  BY DEF Grown
<1> HIDE DEF u
<1>7. u[0] = T
  BY <1>5
<1>8. ASSUME NEW k \in 1..add PROVE u[k] = Link(u[k - 1], n, name)
  <2>1. k \in 0..add /\ k # 0
    OBVIOUS
  <2> QED
    BY <1>5, <2>1
<1> QED
  BY <1>6, <1>7, <1>8

\* As many elements more of the name, the last of them new.
LEMMA GrownIs ==
    ASSUME NEW T, IsTree(T), NEW n \in DOMAIN T, NEW name \in Titles, NEW add \in Nat
    PROVE  LET G == Grown(T, n, name, add) IN
           /\ IsTree(G) /\ Extends(T, G)
           /\ Len(Named(G, n, name)) = Len(Named(T, n, name)) + add
           /\ add > 0 => /\ Last(ElementsOf(G, n)) = Named(G, n, name)[Len(Named(G, n, name))]
                         /\ Last(ElementsOf(G, n)) \in DOMAIN G
                         /\ G[Last(ElementsOf(G, n))].kids = <<>>
<1>1. PICK f : /\ f[0] = T /\ \A i \in 1..add : f[i] = Link(f[i - 1], n, name)
               /\ Grown(T, n, name, add) = f[add]
  BY GrownUpto
<1> DEFINE Good(i) == /\ IsTree(f[i]) /\ Extends(T, f[i])
                      /\ Len(Named(f[i], n, name)) = Len(Named(T, n, name)) + i
                      /\ i > 0 => \E e \in DOMAIN f[i] :
                             /\ Last(ElementsOf(f[i], n)) = e
                             /\ Named(f[i], n, name)[Len(Named(f[i], n, name))] = e
                             /\ f[i][e] = Node(name, <<>>)
           I == {i \in Nat : i <= add => Good(i)}
<1>2. 0 \in I
  <2>1. Len(Named(T, n, name)) \in Nat
    BY NamedAre
  <2>2. Good(0)
    <3>1. Extends(T, T)
      BY ExtendsSelf
    <3> QED
      BY <1>1, <2>1, <3>1
  <2> HIDE DEF Good
  <2> QED
    BY <2>2
<1>3. ASSUME NEW i \in Nat, i \in I PROVE i + 1 \in I
  <2> SUFFICES ASSUME i + 1 <= add PROVE Good(i + 1)
    <3> HIDE DEF Good
    <3> QED
      OBVIOUS
  <2>1. Good(i)
    <3> HIDE DEF Good
    <3> QED
      BY <1>3
  <2>2. PICK R, U, w, p :
            R = f[i] /\ U = f[i + 1] /\ w = New(R) /\ p = Named(R, n, name)
    OBVIOUS
  <2>3. /\ IsTree(R) /\ Extends(T, R) /\ n \in DOMAIN R
        /\ Len(p) = Len(Named(T, n, name)) + i
    <3>1. IsTree(R) /\ Extends(T, R) /\ Len(p) = Len(Named(T, n, name)) + i
      BY <2>1, <2>2
    <3> QED
      BY <3>1 DEF Extends
  <2>4. U = Link(R, n, name)
    <3>1. i + 1 \in 1..add /\ (i + 1) - 1 = i
      BY <1>3
    <3> QED
      BY <1>1, <2>2, <3>1
  <2>5. IsTree(U) /\ DOMAIN U = DOMAIN R \cup {w} /\ w \in Nat /\ U[w] = Node(name, <<>>)
    <3>1. /\ IsTree(Link(R, n, name)) /\ DOMAIN Link(R, n, name) = DOMAIN R \cup {New(R)}
          /\ New(R) \in Nat /\ Link(R, n, name)[New(R)] = Node(name, <<>>)
      BY <2>3, LinkTree
    <3> QED
      BY <2>2, <2>4, <3>1
  <2>6. Extends(T, U)
    <3>1. Extends(R, U)
      BY <2>3, <2>4, LinkExtends
    <3> QED
      BY <2>3, <2>5, <3>1, ExtendsOn
  <2>7. Named(U, n, name) = Append(p, w) /\ Last(ElementsOf(U, n)) = w
    BY <2>2, <2>3, <2>4, NamedLink
  <2>8. p \in Seq(Nat) /\ Len(Named(T, n, name)) \in Nat
    <3>1. p \in Seq(Nat)
      BY <2>2, <2>3, NamedAre
    <3>2. Len(Named(T, n, name)) \in Nat
      BY NamedAre
    <3> QED
      BY <3>1, <3>2
  <2>9. Len(Append(p, w)) = Len(p) + 1 /\ Append(p, w)[Len(p) + 1] = w
    <3>1. p \in Seq(Nat) /\ w \in Nat
      BY <2>5, <2>8
    <3> QED
      BY <3>1, AppendProperties
  <2>10. Len(Named(U, n, name)) = Len(Named(T, n, name)) + (i + 1)
    <3>1. Len(Named(U, n, name)) = Len(p) + 1
      BY <2>7, <2>9
    <3>2. PICK a, b : a = Len(Named(T, n, name)) /\ b = Len(p)
      OBVIOUS
    <3>3. b = a + i /\ a \in Nat
      BY <2>3, <2>8, <3>2
    <3>4. b + 1 = a + (i + 1)
      BY <3>3
    <3> QED
      BY <3>1, <3>2, <3>4
  <2>11. /\ w \in DOMAIN U /\ Last(ElementsOf(U, n)) = w
         /\ Named(U, n, name)[Len(Named(U, n, name))] = w /\ U[w] = Node(name, <<>>)
    BY <2>5, <2>7, <2>9
  <2> QED
    BY <2>2, <2>5, <2>6, <2>10, <2>11
<1>4. add \in I
  <2> HIDE DEF I
  <2> QED
    BY <1>2, <1>3, Induct
<1>5. Good(add)
  <2> HIDE DEF Good
  <2> QED
    BY <1>4
<1>6. \A e : f[add][e] = Node(name, <<>>) => f[add][e].kids = <<>>
  BY DEF Node
<1> QED
  BY <1>1, <1>5, <1>6

\* R and m are what a step from n in T can lead to.
At(T, n) == [tree |-> T, node |-> n]
Created(T, n, step, R, m) ==
    /\ IsTree(R) /\ Extends(T, R) /\ m \in Where(R)
    /\ _find_node(T, n, step).found => R = T /\ m = _find_node(T, n, step).node
    /\ step.name # ".." /\ step.index >= 0 =>
           _find_node(R, n, step) = [found |-> TRUE, node |-> m]
    /\ ~_find_node(T, n, step).found /\ step.index >= 0 => m \in DOMAIN R /\ R[m].kids = <<>>

\* Where an element is missing it is made, and with it those before it.
LEMMA CreateIs ==
    ASSUME NEW T, IsTree(T), NEW n \in Where(T), NEW step \in Steps
    PROVE  \E R, m : /\ _find_and_create_node(At(T, n), step) = At(R, m)
                     /\ Created(T, n, step, R, m)
<1> DEFINE at == [tree |-> T, node |-> n]
           seek == _find_node(T, n, step)
           o == From(n)
           add == step.index + 1 - Len(Named(T, o, step.name))
           full == Grown(T, o, step.name, add)
<1>1. at.tree = T /\ at.node = n
  OBVIOUS
<1>2. _find_and_create_node(at, step) =
          IF seek.found THEN [at EXCEPT !.node = seek.node]
          ELSE IF step.index < 0 THEN [at EXCEPT !.node = Null]
          ELSE [tree |-> full, node |-> Last(ElementsOf(full, o))]
  BY <1>1 DEF _find_and_create_node
<1>3. \A x : [at EXCEPT !.node = x] = [tree |-> T, node |-> x]
  OBVIOUS
<1>4. seek \in Finds(T) /\ o \in DOMAIN T /\ step.index \in Int
  BY FindIs, FromIs DEF Steps
<1> HIDE DEF at
<1>5. Extends(T, T) /\ Null \in Where(T)
  BY ExtendsSelf DEF Where
<1>6. CASE seek.found
  <2>1. seek.node \in Where(T) /\ seek = [found |-> TRUE, node |-> seek.node]
    BY <1>4, <1>6 DEF Finds
  <2>2. _find_and_create_node(at, step) = [tree |-> T, node |-> seek.node]
    BY <1>2, <1>3, <1>6
  <2> QED
    BY <1>5, <1>6, <2>1, <2>2 DEF at, At, Created
<1>7. CASE ~seek.found /\ step.index < 0
  <2>1. _find_and_create_node(at, step) = [tree |-> T, node |-> Null]
    BY <1>2, <1>3, <1>7
  <2>2. ~(step.index >= 0)
    BY <1>4, <1>7
  <2> QED
    BY <1>5, <1>7, <2>1, <2>2 DEF at, At, Created
<1>8. CASE ~seek.found /\ ~(step.index < 0)
  <2>1. PICK R, m : R = full /\ m = Last(ElementsOf(full, o))
    OBVIOUS
  <2>2. _find_and_create_node(at, step) = [tree |-> R, node |-> m]
    BY <1>2, <1>8, <2>1
  <2>3. step.name \in Names /\ step.name \in Titles
    <3>1. step.name \in Names \cup {".", ".."}
      BY DEF Steps
    <3>2. step.name # "." /\ step.name # ".."
      BY <1>8, FindIs
    <3> QED
      BY <3>1, <3>2 DEF Titles
  <2>4. PICK len, i, name : /\ len = Len(Named(T, o, step.name)) /\ i = step.index
                            /\ name = step.name
    OBVIOUS
  <2>5. len \in Nat /\ i \in Int /\ i >= 0
    BY <1>4, <1>8, <2>4, NamedAre
  <2>6. i \notin 0..(len - 1)
    <3>1. seek = IF i \in 0..(len - 1)
                 THEN [found |-> TRUE, node |-> Named(T, o, step.name)[i + 1]]
                 ELSE [found |-> FALSE, node |-> Null]
      BY <2>3, <2>4, FindIs
    <3> QED
      BY <1>8, <3>1
  <2>7. add = i + 1 - len /\ add \in Nat /\ add > 0
    BY <2>4, <2>5, <2>6
  <2>8. /\ IsTree(R) /\ Extends(T, R)
        /\ Len(Named(R, o, name)) = len + add
        /\ m = Named(R, o, name)[Len(Named(R, o, name))]
        /\ m \in DOMAIN R /\ R[m].kids = <<>>
    <3> HIDE DEF add, o
    <3>1. /\ IsTree(full) /\ Extends(T, full)
          /\ Len(Named(full, o, step.name)) = Len(Named(T, o, step.name)) + add
          /\ Last(ElementsOf(full, o)) = Named(full, o, step.name)[Len(Named(full, o, step.name))]
          /\ Last(ElementsOf(full, o)) \in DOMAIN full
          /\ full[Last(ElementsOf(full, o))].kids = <<>>
      BY <1>4, <2>3, <2>7, GrownIs
    <3> HIDE DEF full
    <3> QED
      BY <2>1, <2>4, <3>1
  <2>9. m \in Where(R) /\ n \in Where(R)
    BY <2>8 DEF Where, Extends
  <2>10. len + add = i + 1
    BY <2>5, <2>7
  <2>11. _find_node(R, n, step) = [found |-> TRUE, node |-> m]
    <3>1. _find_node(R, n, step) =
              IF i \in 0..(Len(Named(R, o, name)) - 1)
              THEN [found |-> TRUE, node |-> Named(R, o, name)[i + 1]]
              ELSE [found |-> FALSE, node |-> Null]
      BY <2>3, <2>4, <2>8, <2>9, FindIs
    <3>2. Len(Named(R, o, name)) = i + 1
      BY <2>8, <2>10
    <3>3. i \in 0..((i + 1) - 1)
      BY <2>5
    <3> QED
      BY <2>8, <3>1, <3>2, <3>3
  <2> QED
    BY <1>8, <2>2, <2>8, <2>9, <2>11 DEF at, At, Created
<1> QED
  BY <1>6, <1>7, <1>8

------------------------------------------------------------------------------
\* f[k] is where the first k steps lead.
Walks(f, T, from, steps) ==
    /\ f[0] = [found |-> TRUE, node |-> from]
    /\ \A k \in 1..Len(steps) :
           f[k] = IF f[k - 1].found THEN _find_node(T, f[k - 1].node, steps[k]) ELSE f[k - 1]

\* The function that Walk takes is the only one of its kind,
LEMMA WalkEq ==
    ASSUME NEW T, NEW from, NEW steps, Len(steps) \in Nat, NEW f, Walks(f, T, from, steps)
    PROVE  Walk(T, from, steps) = f[Len(steps)]
<1> DEFINE N == Len(steps)
           Eq(g) == g = [k \in 0..N |->
                           IF k = 0 THEN [found |-> TRUE, node |-> from]
                           ELSE IF g[k - 1].found THEN _find_node(T, g[k - 1].node, steps[k])
                           ELSE g[k - 1]]
           u == CHOOSE g : Eq(g)
<1>1. Eq([k \in 0..N |-> f[k]])
  <2> DEFINE g == [k \in 0..N |-> f[k]]
  <2>1. ASSUME NEW k \in 0..N
        PROVE  g[k] = IF k = 0 THEN [found |-> TRUE, node |-> from]
                      ELSE IF g[k - 1].found THEN _find_node(T, g[k - 1].node, steps[k])
                      ELSE g[k - 1]
    <3>1. CASE k = 0
      BY <3>1 DEF Walks
    <3>2. CASE k # 0
      <4>1. k \in 1..N /\ k - 1 \in 0..N
        BY <3>2
      <4>2. g[k] = f[k] /\ g[k - 1] = f[k - 1]
        BY <4>1
      <4> HIDE DEF g
      <4> QED
        BY <3>2, <4>1, <4>2 DEF Walks
    <3> QED
      BY <3>1, <3>2
  <2> QED
    BY <2>1
<1>2. PICK w : w = u /\ Eq(w)
  <2>1. Eq(u)
    <3> HIDE DEF Eq
    <3> QED
      BY <1>1
  <2> HIDE DEF Eq, u
  <2> QED
    BY <2>1
<1>3. Walk(T, from, steps) = u[N]
  BY DEF Walk
<1>4. Walk(T, from, steps) = w[N]
  <2> HIDE DEF u
  <2> QED
    BY <1>2, <1>3
<1> HIDE DEF u
<1>5. w = [k \in 0..N |-> IF k = 0 THEN [found |-> TRUE, node |-> from]
                         ELSE IF w[k - 1].found THEN _find_node(T, w[k - 1].node, steps[k])
                         ELSE w[k - 1]]
  BY <1>2
<1>6. \A k \in Nat : k <= N => w[k] = f[k]
  <2> DEFINE G == {k \in Nat : k <= N => w[k] = f[k]}
  <2>1. 0 \in G
    BY <1>5 DEF Walks
  <2>2. ASSUME NEW k \in Nat, k \in G PROVE k + 1 \in G
    <3> SUFFICES ASSUME k + 1 <= N PROVE w[k + 1] = f[k + 1]
      OBVIOUS
    <3>1. k + 1 \in 0..N /\ k + 1 \in 1..N /\ k + 1 # 0 /\ (k + 1) - 1 = k /\ w[k] = f[k]
      BY <2>2
    <3>2. w[k + 1] = IF w[k].found THEN _find_node(T, w[k].node, steps[k + 1]) ELSE w[k]
      BY <1>5, <3>1
    <3> QED
      BY <3>1, <3>2 DEF Walks
  <2> HIDE DEF G
  <2>3. Nat \subseteq G
    BY <2>1, <2>2, Induct
  <2> QED
    BY <2>3 DEF G
<1> QED
  BY <1>4, <1>6

\* and there is one, which stays in the tree.
LEMMA WalkIs ==
    ASSUME NEW T, IsTree(T), NEW from \in Where(T), NEW steps \in Seq(Steps)
    PROVE  \E f : /\ Walks(f, T, from, steps) /\ Walk(T, from, steps) = f[Len(steps)]
                  /\ \A k \in 0..Len(steps) : f[k] \in Finds(T)
<1>1. Len(steps) \in Nat /\ \A k \in 1..Len(steps) : steps[k] \in Steps
  OBVIOUS
<1>2. PICK N, D, F, start :
          /\ N = Len(steps) /\ D = Finds(T) /\ start = [found |-> TRUE, node |-> from]
          /\ F = [k \in 1..N |-> [x \in D |->
                     IF x.found THEN _find_node(T, x.node, steps[k]) ELSE x]]
  OBVIOUS
<1>3. start \in D
  BY <1>2 DEF Finds
<1>4. Maps(F, N, D)
  <2>1. ASSUME NEW k \in 1..N, NEW x \in D
        PROVE  (IF x.found THEN _find_node(T, x.node, steps[k]) ELSE x) \in D
    <3>1. x.node \in Where(T) /\ steps[k] \in Steps
      BY <1>1, <1>2 DEF Finds
    <3>2. _find_node(T, x.node, steps[k]) \in D
      BY <1>2, <3>1, FindIs
    <3> QED
      BY <3>2
  <2> QED
    BY <1>2, <2>1 DEF Maps
<1>5. PICK f : Folds(f, F, N, D, start)
  BY <1>1, <1>2, <1>3, <1>4, Folded
<1>6. f \in [0..N -> D] /\ f[0] = start /\ \A k \in 1..N : f[k] = F[k][f[k - 1]]
  BY <1>5 DEF Folds
<1>7. ASSUME NEW k \in 1..N
      PROVE  f[k] = IF f[k - 1].found THEN _find_node(T, f[k - 1].node, steps[k]) ELSE f[k - 1]
  <2>1. f[k - 1] \in D
    <3>1. k - 1 \in 0..N
      BY <1>1, <1>2
    <3> QED
      BY <1>6, <3>1
  <2> QED
    BY <1>2, <1>6, <2>1
<1>8. Walks(f, T, from, steps)
  BY <1>2, <1>6, <1>7 DEF Walks
<1>9. Walk(T, from, steps) = f[Len(steps)]
  BY <1>1, <1>8, WalkEq
<1> QED
  BY <1>2, <1>6, <1>8, <1>9

\* f[k] is what the first k steps make, and where they lead.
Makes(f, T, from, steps) ==
    /\ f[0] = At(T, from)
    /\ \A k \in 1..Len(steps) : f[k] = _find_and_create_node(f[k - 1], steps[k])

\* The function that MakeWay takes is the only one of its kind,
LEMMA MakeEq ==
    ASSUME NEW T, NEW from, NEW steps, Len(steps) \in Nat, NEW f, Makes(f, T, from, steps)
    PROVE  MakeWay(T, from, steps) = f[Len(steps)]
<1> DEFINE N == Len(steps)
           Eq(g) == g = [k \in 0..N |->
                           IF k = 0 THEN [tree |-> T, node |-> from]
                           ELSE _find_and_create_node(g[k - 1], steps[k])]
           u == CHOOSE g : Eq(g)
<1>1. Eq([k \in 0..N |-> f[k]])
  <2> DEFINE g == [k \in 0..N |-> f[k]]
  <2>1. ASSUME NEW k \in 0..N
        PROVE  g[k] = IF k = 0 THEN [tree |-> T, node |-> from]
                      ELSE _find_and_create_node(g[k - 1], steps[k])
    <3>1. CASE k = 0
      BY <3>1 DEF Makes, At
    <3>2. CASE k # 0
      <4>1. k \in 1..N /\ k - 1 \in 0..N
        BY <3>2
      <4>2. g[k] = f[k] /\ g[k - 1] = f[k - 1]
        BY <4>1
      <4> HIDE DEF g
      <4> QED
        BY <3>2, <4>1, <4>2 DEF Makes
    <3> QED
      BY <3>1, <3>2
  <2> QED
    BY <2>1
<1>2. PICK w : w = u /\ Eq(w)
  <2>1. Eq(u)
    <3> HIDE DEF Eq
    <3> QED
      BY <1>1
  <2> HIDE DEF Eq, u
  <2> QED
    BY <2>1
<1>3. MakeWay(T, from, steps) = u[N]
  BY DEF MakeWay
<1>4. MakeWay(T, from, steps) = w[N]
  <2> HIDE DEF u
  <2> QED
    BY <1>2, <1>3
<1> HIDE DEF u
<1>5. w = [k \in 0..N |-> IF k = 0 THEN [tree |-> T, node |-> from]
                         ELSE _find_and_create_node(w[k - 1], steps[k])]
  BY <1>2
<1>6. \A k \in Nat : k <= N => w[k] = f[k]
  <2> DEFINE G == {k \in Nat : k <= N => w[k] = f[k]}
  <2>1. 0 \in G
    BY <1>5 DEF Makes, At
  <2>2. ASSUME NEW k \in Nat, k \in G PROVE k + 1 \in G
    <3> SUFFICES ASSUME k + 1 <= N PROVE w[k + 1] = f[k + 1]
      OBVIOUS
    <3>1. k + 1 \in 0..N /\ k + 1 \in 1..N /\ k + 1 # 0 /\ (k + 1) - 1 = k /\ w[k] = f[k]
      BY <2>2
    <3>2. w[k + 1] = _find_and_create_node(w[k], steps[k + 1])
      BY <1>5, <3>1
    <3> QED
      BY <3>1, <3>2 DEF Makes
  <2> HIDE DEF G
  <2>3. Nat \subseteq G
    BY <2>1, <2>2, Induct
  <2> QED
    BY <2>3 DEF G
<1> QED
  BY <1>4, <1>6

\* A tree that extends T, and a node of it.
Made(x, T) == \E R, m : x = At(R, m) /\ IsTree(R) /\ Extends(T, R) /\ m \in Where(R)

\* a step extends the tree and stays in it,
LEMMA MadeStep ==
    ASSUME NEW T, IsTree(T), NEW x, Made(x, T), NEW step \in Steps
    PROVE  Made(_find_and_create_node(x, step), T)
<1>1. PICK R, m : x = At(R, m) /\ IsTree(R) /\ Extends(T, R) /\ m \in Where(R)
  BY DEF Made
<1>2. PICK U, e : _find_and_create_node(At(R, m), step) = At(U, e) /\ Created(R, m, step, U, e)
  BY <1>1, CreateIs
<1>3. Extends(T, U)
  BY <1>1, <1>2, ExtendsOn DEF Created
<1> QED
  BY <1>1, <1>2, <1>3 DEF Made, Created

\* and there is one.
LEMMA MakeIs ==
    ASSUME NEW T, IsTree(T), NEW from \in Where(T), NEW steps \in Seq(Steps)
    PROVE  \E f : /\ Makes(f, T, from, steps) /\ MakeWay(T, from, steps) = f[Len(steps)]
                  /\ \A k \in 0..Len(steps) : Made(f[k], T)
<1>1. Len(steps) \in Nat /\ \A k \in 1..Len(steps) : steps[k] \in Steps
  OBVIOUS
<1>2. PICK N, D, F, start :
          /\ N = Len(steps) /\ start = At(T, from)
          /\ D = {x \in [tree : TreesWith(Doc), node : Int] : Made(x, T)}
          /\ F = [k \in 1..N |-> [x \in D |-> _find_and_create_node(x, steps[k])]]
  OBVIOUS
<1>3. \A x : Made(x, T) => x \in D
  <2> SUFFICES ASSUME NEW R, NEW m, IsTree(R), m \in Where(R)
               PROVE  At(R, m) \in [tree : TreesWith(Doc), node : Int]
    BY <1>2 DEF Made
  <2>1. R \in TreesWith(Doc) /\ m \in Int
    BY TreesAre, TreeFacts DEF Where, Null
  <2> QED
    BY <2>1 DEF At
<1>4. start \in D
  <2>1. Made(start, T)
    BY <1>2, ExtendsSelf DEF Made
  <2> QED
    BY <1>3, <2>1
<1>5. Maps(F, N, D)
  <2>1. ASSUME NEW k \in 1..N, NEW x \in D
        PROVE  _find_and_create_node(x, steps[k]) \in D
    <3>1. Made(x, T) /\ steps[k] \in Steps
      BY <1>1, <1>2
    <3> QED
      BY <1>3, <3>1, MadeStep
  <2> QED
    BY <1>2, <2>1 DEF Maps
<1>6. PICK f : Folds(f, F, N, D, start)
  BY <1>1, <1>2, <1>4, <1>5, Folded
<1>7. f \in [0..N -> D] /\ f[0] = start /\ \A k \in 1..N : f[k] = F[k][f[k - 1]]
  BY <1>6 DEF Folds
<1>8. ASSUME NEW k \in 1..N PROVE f[k] = _find_and_create_node(f[k - 1], steps[k])
  <2>1. f[k - 1] \in D
    <3>1. k - 1 \in 0..N
      BY <1>1, <1>2
    <3> QED
      BY <1>7, <3>1
  <2> QED
    BY <1>2, <1>7, <2>1
<1>9. Makes(f, T, from, steps)
  BY <1>2, <1>7, <1>8 DEF Makes
<1>10. MakeWay(T, from, steps) = f[Len(steps)]
  BY <1>1, <1>9, MakeEq
<1>11. \A k \in 0..N : Made(f[k], T)
  BY <1>2, <1>7
<1> QED
  BY <1>2, <1>9, <1>10, <1>11
\* The trees and the nodes on the way.
Way(t, c, T, from, steps) ==
    /\ t[0] = T /\ c[0] = from
    /\ MakeWay(T, from, steps) = At(t[Len(steps)], c[Len(steps)])
    /\ \A k \in 0..Len(steps) : IsTree(t[k]) /\ c[k] \in Where(t[k])
    /\ \A k \in 1..Len(steps) : Created(t[k - 1], c[k - 1], steps[k], t[k], c[k])
    /\ \A k \in 0..Len(steps) : \A j \in 0..k : Extends(t[j], t[k])

\* Every path is made so.
LEMMA MakeSteps ==
    ASSUME NEW T, IsTree(T), NEW from \in Where(T), NEW steps \in Seq(Steps)
    PROVE  \E t, c : Way(t, c, T, from, steps)
<1>1. PICK N : N = Len(steps) /\ N \in Nat /\ \A k \in 1..N : steps[k] \in Steps
  OBVIOUS
<1>2. PICK f : /\ Makes(f, T, from, steps) /\ MakeWay(T, from, steps) = f[N]
               /\ \A k \in 0..N : Made(f[k], T)
  BY <1>1, MakeIs
<1>3. PICK t, c : t = [k \in 0..N |-> f[k].tree] /\ c = [k \in 0..N |-> f[k].node]
  OBVIOUS
<1>4. \A k \in 0..N : f[k] = At(t[k], c[k]) /\ IsTree(t[k]) /\ c[k] \in Where(t[k])
  <2>1. \A x, R, m : x = At(R, m) => x.tree = R /\ x.node = m
    BY DEF At
  <2> SUFFICES ASSUME NEW k \in 0..N
               PROVE  f[k] = At(t[k], c[k]) /\ IsTree(t[k]) /\ c[k] \in Where(t[k])
    OBVIOUS
  <2>2. PICK R, m : f[k] = At(R, m) /\ IsTree(R) /\ m \in Where(R)
    BY <1>2 DEF Made
  <2>3. t[k] = R /\ c[k] = m
    <3>1. t[k] = f[k].tree /\ c[k] = f[k].node
      BY <1>3
    <3> QED
      BY <2>1, <2>2, <3>1
  <2> QED
    BY <2>2, <2>3
<1>5. t[0] = T /\ c[0] = from
  <2>1. At(t[0], c[0]) = At(T, from)
    BY <1>1, <1>2, <1>4 DEF Makes
  <2> QED
    BY <2>1 DEF At
<1>6. \A k \in 1..N : Created(t[k - 1], c[k - 1], steps[k], t[k], c[k])
  <2> SUFFICES ASSUME NEW k \in 1..N
               PROVE  Created(t[k - 1], c[k - 1], steps[k], t[k], c[k])
    OBVIOUS
  <2>1. k - 1 \in 0..N /\ k \in 0..N
    BY <1>1
  <2>2. PICK U, e : /\ _find_and_create_node(At(t[k - 1], c[k - 1]), steps[k]) = At(U, e)
                    /\ Created(t[k - 1], c[k - 1], steps[k], U, e)
    BY <1>1, <1>4, <2>1, CreateIs
  <2>3. At(t[k], c[k]) = At(U, e)
    <3>1. f[k] = _find_and_create_node(f[k - 1], steps[k])
      BY <1>1, <1>2 DEF Makes
    <3> QED
      BY <1>4, <2>1, <2>2, <3>1
  <2>4. t[k] = U /\ c[k] = e
    BY <2>3 DEF At
  <2> QED
    BY <2>2, <2>4
<1>7. \A k \in 0..N : \A j \in 0..k : Extends(t[j], t[k])
  <2> DEFINE G == {k \in Nat : k <= N => \A j \in 0..k : Extends(t[j], t[k])}
  <2>1. 0 \in G
    <3>1. Extends(t[0], t[0])
      BY <1>5, ExtendsSelf
    <3> QED
      BY <3>1
  <2>2. ASSUME NEW k \in Nat, k \in G PROVE k + 1 \in G
    <3> SUFFICES ASSUME k + 1 <= N, NEW j \in 0..(k + 1) PROVE Extends(t[j], t[k + 1])
      OBVIOUS
    <3>1. k + 1 \in 1..N /\ (k + 1) - 1 = k /\ k \in 0..N /\ k + 1 \in 0..N /\ j \in 0..N
      BY <1>1
    <3>2. Extends(t[k], t[k + 1])
      BY <1>6, <3>1 DEF Created
    <3>3. CASE j = k + 1
      BY <1>4, <3>1, <3>3, ExtendsSelf
    <3>4. CASE j \in 0..k
      <4>1. Extends(t[j], t[k])
        BY <2>2, <3>1, <3>4
      <4> QED
        BY <1>4, <3>1, <3>2, <4>1, ExtendsOn
    <3> QED
      BY <3>3, <3>4
  <2> HIDE DEF G
  <2>3. Nat \subseteq G
    BY <2>1, <2>2, Induct
  <2> QED
    BY <1>1, <2>3 DEF G
<1>8. MakeWay(T, from, steps) = At(t[N], c[N])
  BY <1>1, <1>2, <1>4
<1> QED
  BY <1>1, <1>4, <1>5, <1>6, <1>7, <1>8 DEF Way

Down(steps) == \A k \in 1..Len(steps) : steps[k].name # ".." /\ steps[k].index >= 0

\* What was made on a way without ".." is found on it, and nothing is made again.
LEMMA MadeIsFound ==
    ASSUME NEW T, IsTree(T), NEW from \in Where(T), NEW steps \in Seq(Steps), Down(steps)
    PROVE  \E R, m : /\ MakeWay(T, from, steps) = At(R, m)
                     /\ IsTree(R) /\ Extends(T, R) /\ m \in Where(R)
                     /\ Walk(R, from, steps) = [found |-> TRUE, node |-> m]
                     /\ MakeWay(R, from, steps) = At(R, m)
<1>1. PICK N : N = Len(steps) /\ N \in Nat /\ \A k \in 1..N : steps[k] \in Steps
  OBVIOUS
<1>2. PICK t, c : Way(t, c, T, from, steps)
  BY MakeSteps
<1>3. /\ t[0] = T /\ c[0] = from
      /\ MakeWay(T, from, steps) = At(t[N], c[N])
      /\ \A k \in 0..N : IsTree(t[k]) /\ c[k] \in Where(t[k])
      /\ \A k \in 1..N : Created(t[k - 1], c[k - 1], steps[k], t[k], c[k])
      /\ \A k \in 0..N : \A j \in 0..k : Extends(t[j], t[k])
  BY <1>2, <1>1 DEF Way
<1>4. PICK R : R = t[N]
  OBVIOUS
<1>5. IsTree(R) /\ \A k \in 0..N : Extends(t[k], R) /\ c[k] \in Where(R)
  <2>1. IsTree(R) /\ \A k \in 0..N : Extends(t[k], R)
    BY <1>1, <1>3, <1>4
  <2> QED
    BY <1>3, <2>1 DEF Extends, Where
<1>6. \A k \in 1..N : _find_node(R, c[k - 1], steps[k]) = [found |-> TRUE, node |-> c[k]]
  <2> SUFFICES ASSUME NEW k \in 1..N
               PROVE  _find_node(R, c[k - 1], steps[k]) = [found |-> TRUE, node |-> c[k]]
    OBVIOUS
  <2>1. k - 1 \in 0..N /\ k \in 0..N /\ k - 1 \in 0..k
    BY <1>1
  <2>2. steps[k] \in Steps /\ steps[k].name # ".." /\ steps[k].index >= 0
    BY <1>1 DEF Down
  <2>3. _find_node(t[k], c[k - 1], steps[k]) = [found |-> TRUE, node |-> c[k]]
    BY <1>3, <2>2 DEF Created
  <2>4. IsTree(t[k]) /\ Extends(t[k], R) /\ c[k - 1] \in Where(t[k])
    <3>1. Extends(t[k - 1], t[k]) /\ c[k - 1] \in Where(t[k - 1])
      BY <1>3, <2>1
    <3> QED
      BY <1>3, <1>5, <2>1, <3>1 DEF Extends, Where
  <2>5. _find_node(t[k], c[k - 1], steps[k]).found
    BY <2>3
  <2> QED
    BY <1>5, <2>2, <2>3, <2>4, <2>5, FindAgain
<1>7. Walk(R, from, steps) = [found |-> TRUE, node |-> c[N]]
  <2>1. PICK w : w = [k \in 0..N |-> [found |-> TRUE, node |-> c[k]]]
    OBVIOUS
  <2>2. \A k \in 1..Len(steps) :
            w[k] = IF w[k - 1].found THEN _find_node(R, w[k - 1].node, steps[k]) ELSE w[k - 1]
    <3> SUFFICES ASSUME NEW k \in 1..Len(steps)
                 PROVE  w[k] = IF w[k - 1].found THEN _find_node(R, w[k - 1].node, steps[k])
                               ELSE w[k - 1]
      OBVIOUS
    <3>1. k \in 1..N /\ k - 1 \in 0..N
      BY <1>1
    <3>2. w[k - 1] = [found |-> TRUE, node |-> c[k - 1]] /\ w[k] = [found |-> TRUE, node |-> c[k]]
      BY <2>1, <3>1
    <3>3. w[k - 1].found /\ w[k - 1].node = c[k - 1]
      BY <3>2
    <3>4. _find_node(R, c[k - 1], steps[k]) = w[k]
      BY <1>6, <3>1, <3>2
    <3> QED
      BY <3>3, <3>4
  <2>3. Walks(w, R, from, steps)
    <3>1. w[0] = [found |-> TRUE, node |-> from]
      <4>1. 0 \in 0..N
        BY <1>1
      <4>2. w[0] = [found |-> TRUE, node |-> c[0]]
        BY <2>1, <4>1
      <4> QED
        BY <1>3, <4>2
    <3> QED
      BY <2>2, <3>1 DEF Walks
  <2>4. Walk(R, from, steps) = w[N]
    BY <1>1, <2>3, WalkEq
  <2> QED
    BY <1>1, <2>1, <2>4
<1>8. MakeWay(R, from, steps) = At(R, c[N])
  <2>1. PICK g : g = [k \in 0..N |-> At(R, c[k])]
    OBVIOUS
  <2>2. ASSUME NEW k \in 1..N PROVE g[k] = _find_and_create_node(g[k - 1], steps[k])
    <3>1. k - 1 \in 0..N
      BY <1>1
    <3>2. g[k - 1] = At(R, c[k - 1]) /\ g[k] = At(R, c[k])
      BY <2>1, <3>1
    <3>3. PICK U, e : /\ _find_and_create_node(At(R, c[k - 1]), steps[k]) = At(U, e)
                      /\ Created(R, c[k - 1], steps[k], U, e)
      BY <1>1, <1>5, <3>1, CreateIs
    <3>4. _find_node(R, c[k - 1], steps[k]) = [found |-> TRUE, node |-> c[k]]
      BY <1>6
    <3>5. U = R /\ e = c[k]
      BY <3>3, <3>4 DEF Created
    <3>6. _find_and_create_node(At(R, c[k - 1]), steps[k]) = At(R, c[k])
      BY <3>3, <3>5
    <3> QED
      BY <3>2, <3>6
  <2>3. Makes(g, R, from, steps)
    <3>1. g[0] = At(R, from)
      BY <1>1, <1>3, <2>1
    <3>2. \A k \in 1..Len(steps) : g[k] = _find_and_create_node(g[k - 1], steps[k])
      BY <1>1, <2>2
    <3> QED
      BY <3>1, <3>2 DEF Makes
  <2>4. MakeWay(R, from, steps) = g[N]
    BY <1>1, <2>3, MakeEq
  <2> QED
    BY <1>1, <2>1, <2>4
<1>9. Extends(T, R) /\ c[N] \in Where(R)
  BY <1>1, <1>3, <1>5
<1> QED
  BY <1>1, <1>3, <1>4, <1>5, <1>7, <1>8, <1>9

NoUp(steps) == \A k \in 1..Len(steps) : steps[k].name # ".."

\* A step that is not ".." stays, or leads to an element below.
LEMMA FindDown ==
    ASSUME NEW T, IsTree(T), NEW n \in Where(T), NEW step \in Steps, step.name # "..",
           _find_node(T, n, step).found
    PROVE  \E e \in Where(T) :
               /\ _find_node(T, n, step) = [found |-> TRUE, node |-> e]
               /\ step.name = "." => e = n
               /\ step.name # "." => e \in DOMAIN T /\ From(n) < e
<1>1. CASE step.name = "."
  BY <1>1, FindIs
<1>2. CASE step.name # "."
  <2> DEFINE same == Named(T, From(n), step.name)
  <2>1. step.name \in Names /\ step.index \in Int
    BY <1>2 DEF Steps
  <2>2. _find_node(T, n, step) = IF step.index \in 0..(Len(same) - 1)
                                 THEN [found |-> TRUE, node |-> same[step.index + 1]]
                                 ELSE [found |-> FALSE, node |-> Null]
    BY <2>1, FindIs
  <2>3. step.index \in 0..(Len(same) - 1)
    BY <2>2
  <2>4. Len(same) \in Nat /\ \A i \in 1..Len(same) : same[i] \in DOMAIN T /\ From(n) < same[i]
    BY FromIs, NamedAre
  <2> HIDE DEF same
  <2>5. PICK e : e = same[step.index + 1]
    OBVIOUS
  <2>6. step.index + 1 \in 1..Len(same)
    BY <2>1, <2>3, <2>4
  <2>7. e \in DOMAIN T /\ From(n) < e
    BY <2>4, <2>5, <2>6
  <2> QED
    BY <1>2, <2>2, <2>3, <2>5, <2>7 DEF Where
<1> QED
  BY <1>1, <1>2

\* The nodes on a way down are not below its end.
Leads(c, T, from, steps, n) ==
    /\ c[0] = from /\ c[Len(steps)] = n
    /\ \A k \in 0..Len(steps) : c[k] \in Where(T) /\ From(c[k]) <= n
    /\ \A k \in 1..Len(steps) :
           /\ _find_node(T, c[k - 1], steps[k]) = [found |-> TRUE, node |-> c[k]]
           /\ steps[k].name # "." => From(c[k - 1]) < n

\* A way down that is found leads so.
LEMMA WalkDown ==
    ASSUME NEW T, IsTree(T), NEW from \in Where(T), NEW steps \in Seq(Steps), NoUp(steps),
           NEW n \in DOMAIN T, Walk(T, from, steps) = [found |-> TRUE, node |-> n]
    PROVE  \E c : Leads(c, T, from, steps, n)
<1>1. PICK N : N = Len(steps) /\ N \in Nat /\ \A k \in 1..N : steps[k] \in Steps
  OBVIOUS
<1>2. PICK f : /\ Walks(f, T, from, steps) /\ Walk(T, from, steps) = f[N]
               /\ \A k \in 0..N : f[k] \in Finds(T)
  BY <1>1, WalkIs
<1>3. PICK c : c = [k \in 0..N |-> f[k].node]
  OBVIOUS
<1>4. \A k \in 0..N : c[k] \in Where(T) /\ c[k] = f[k].node
  <2> SUFFICES ASSUME NEW k \in 0..N PROVE c[k] \in Where(T) /\ c[k] = f[k].node
    OBVIOUS
  <2>1. c[k] = f[k].node
    BY <1>3
  <2>2. f[k].node \in Where(T)
    BY <1>2 DEF Finds
  <2> QED
    BY <2>1, <2>2
<1>5. n \in Nat /\ \A m \in Where(T) : From(m) \in Nat /\ (m # Null => From(m) = m)
  BY FromIs, TreeFacts DEF From, Where
<1>6. ASSUME NEW k \in 1..N, f[k].found, From(c[k]) <= n
      PROVE  /\ f[k - 1].found /\ From(c[k - 1]) <= n
             /\ _find_node(T, c[k - 1], steps[k]) = [found |-> TRUE, node |-> c[k]]
             /\ steps[k].name # "." => From(c[k - 1]) < n
  <2>1. k \in 0..N /\ k - 1 \in 0..N /\ k \in 1..Len(steps)
    BY <1>1
  <2>2. f[k] = IF f[k - 1].found THEN _find_node(T, f[k - 1].node, steps[k]) ELSE f[k - 1]
    BY <1>2, <2>1 DEF Walks
  <2>3. f[k - 1].found
    BY <1>6, <2>2
  <2>4. _find_node(T, c[k - 1], steps[k]) = f[k]
    BY <1>4, <2>1, <2>2, <2>3
  <2>5. steps[k] \in Steps /\ steps[k].name # ".." /\ c[k - 1] \in Where(T)
    BY <1>1, <1>4, <2>1 DEF NoUp
  <2>6. PICK e \in Where(T) :
            /\ _find_node(T, c[k - 1], steps[k]) = [found |-> TRUE, node |-> e]
            /\ steps[k].name = "." => e = c[k - 1]
            /\ steps[k].name # "." => e \in DOMAIN T /\ From(c[k - 1]) < e
    <3>1. _find_node(T, c[k - 1], steps[k]).found
      BY <1>6, <2>4
    <3> QED
      BY <2>5, <3>1, FindDown
  <2>7. e = c[k]
    <3>1. f[k].node = e
      BY <2>4, <2>6
    <3> QED
      BY <1>4, <2>1, <3>1
  <2>8. CASE steps[k].name = "."
    BY <1>6, <2>3, <2>6, <2>7, <2>8
  <2>9. CASE steps[k].name # "."
    <3>1. e \in DOMAIN T /\ From(c[k - 1]) < e /\ e # Null
      BY <2>6, <2>9, TreeFacts DEF Null
    <3>2. PICK a, b, d : a = From(c[k - 1]) /\ b = From(c[k]) /\ d = n
      OBVIOUS
    <3>3. a \in Nat /\ b \in Nat /\ d \in Nat /\ a < b /\ b <= d
      BY <1>4, <1>5, <1>6, <2>1, <2>7, <3>1, <3>2
    <3>4. a < d /\ a <= d
      BY <3>3
    <3> QED
      BY <2>3, <2>6, <2>7, <3>2, <3>4
  <2> QED
    BY <2>8, <2>9
<1>7. N \in 0..N /\ f[N] = [found |-> TRUE, node |-> n]
  <2>1. N \in 0..N
    BY <1>1
  <2>2. f[N] = [found |-> TRUE, node |-> n]
    BY <1>2
  <2> QED
    BY <2>1, <2>2
<1> DEFINE Good(k) == f[k].found /\ From(c[k]) <= n
           G == {j \in Nat : j <= N => Good(N - j)}
<1>8. 0 \in G
  <2>1. f[N] = [found |-> TRUE, node |-> n] /\ N \in 0..N
    BY <1>7
  <2>2. n \in Where(T) /\ n # Null
    BY <1>5 DEF Where, Null
  <2>3. c[N] = n /\ f[N].found
    BY <1>4, <2>1
  <2>4. From(c[N]) <= n
    BY <1>5, <2>2, <2>3
  <2>5. N - 0 = N
    BY <1>1
  <2> QED
    BY <2>3, <2>4, <2>5
<1>9. ASSUME NEW j \in Nat, j \in G PROVE j + 1 \in G
  <2> SUFFICES ASSUME j + 1 <= N PROVE Good(N - (j + 1))
    OBVIOUS
  <2>1. PICK k : k = N - j /\ k \in 1..N /\ k - 1 = N - (j + 1) /\ j <= N
    BY <1>1
  <2>2. Good(k)
    BY <1>9, <2>1
  <2>3. Good(k - 1)
    BY <1>6, <2>1, <2>2
  <2> QED
    BY <2>1, <2>3
<1>10. \A k \in 0..N : Good(k)
  <2> HIDE DEF G
  <2>1. Nat \subseteq G
    BY <1>8, <1>9, Induct
  <2> SUFFICES ASSUME NEW k \in 0..N PROVE Good(k)
    OBVIOUS
  <2>2. N - k \in Nat /\ N - k <= N /\ N - (N - k) = k
    BY <1>1
  <2>3. N - k \in G
    BY <2>1, <2>2
  <2> QED
    BY <2>2, <2>3 DEF G
<1>11. \A k \in 1..N : /\ _find_node(T, c[k - 1], steps[k]) = [found |-> TRUE, node |-> c[k]]
                       /\ steps[k].name # "." => From(c[k - 1]) < n
  <2> SUFFICES ASSUME NEW k \in 1..N
               PROVE  /\ _find_node(T, c[k - 1], steps[k]) = [found |-> TRUE, node |-> c[k]]
                      /\ steps[k].name # "." => From(c[k - 1]) < n
    OBVIOUS
  <2>1. Good(k)
    BY <1>1, <1>10
  <2> QED
    BY <1>6, <2>1
<1>12. c[0] = from
  <2>1. 0 \in 0..N /\ f[0] = [found |-> TRUE, node |-> from]
    BY <1>1, <1>2 DEF Walks
  <2> QED
    BY <1>4, <2>1
<1>13. c[N] = n
  <2>1. N \in 0..N /\ f[N] = [found |-> TRUE, node |-> n]
    BY <1>7
  <2> QED
    BY <1>4, <2>1
<1> QED
  BY <1>1, <1>4, <1>10, <1>11, <1>12, <1>13 DEF Leads

\* The same lists lead the same way.
LEMMA FindSame ==
    ASSUME NEW T, NEW U, NEW n, NEW step, step.name # "..",
           step.name # "." => Named(U, From(n), step.name) = Named(T, From(n), step.name)
    PROVE  _find_node(U, n, step) = _find_node(T, n, step)
<1>1. CASE step.name = "."
  BY <1>1 DEF _find_node
<1>2. CASE step.name # "."
  BY <1>2 DEF _find_node
<1> QED
  BY <1>1, <1>2

\* Where the lists on the way are the same the way leads to the same end.
LEMMA LeadsSame ==
    ASSUME NEW T, NEW from, NEW steps, Len(steps) \in Nat, NEW n, NEW c,
           Leads(c, T, from, steps, n), NoUp(steps), NEW U,
           \A k \in 1..Len(steps) : steps[k].name # "." =>
               Named(U, From(c[k - 1]), steps[k].name) = Named(T, From(c[k - 1]), steps[k].name)
    PROVE  Walk(U, from, steps) = [found |-> TRUE, node |-> n]
<1>1. PICK N : N = Len(steps) /\ N \in Nat
  OBVIOUS
<1>2. \A k \in 1..N : _find_node(U, c[k - 1], steps[k]) = [found |-> TRUE, node |-> c[k]]
  <2> SUFFICES ASSUME NEW k \in 1..N
               PROVE  _find_node(U, c[k - 1], steps[k]) = [found |-> TRUE, node |-> c[k]]
    OBVIOUS
  <2>1. _find_node(T, c[k - 1], steps[k]) = [found |-> TRUE, node |-> c[k]]
    BY <1>1 DEF Leads
  <2>2. steps[k].name # ".."
    BY <1>1 DEF NoUp
  <2> QED
    BY <1>1, <2>1, <2>2, FindSame
<1>3. PICK w : w = [k \in 0..N |-> [found |-> TRUE, node |-> c[k]]]
  OBVIOUS
<1>4. \A k \in 1..Len(steps) :
          w[k] = IF w[k - 1].found THEN _find_node(U, w[k - 1].node, steps[k]) ELSE w[k - 1]
  <2> SUFFICES ASSUME NEW k \in 1..Len(steps)
               PROVE  w[k] = IF w[k - 1].found THEN _find_node(U, w[k - 1].node, steps[k])
                             ELSE w[k - 1]
    OBVIOUS
  <2>1. k \in 1..N /\ k - 1 \in 0..N
    BY <1>1
  <2>2. w[k - 1] = [found |-> TRUE, node |-> c[k - 1]] /\ w[k] = [found |-> TRUE, node |-> c[k]]
    BY <1>3, <2>1
  <2>3. w[k - 1].found /\ w[k - 1].node = c[k - 1]
    BY <2>2
  <2>4. _find_node(U, c[k - 1], steps[k]) = w[k]
    BY <1>2, <2>1, <2>2
  <2> QED
    BY <2>3, <2>4
<1>5. w[0] = [found |-> TRUE, node |-> from]
  <2>1. 0 \in 0..N /\ c[0] = from
    BY <1>1 DEF Leads
  <2>2. w[0] = [found |-> TRUE, node |-> c[0]]
    BY <1>3, <2>1
  <2> QED
    BY <2>1, <2>2
<1>6. w[N] = [found |-> TRUE, node |-> n]
  <2>1. N \in 0..N /\ c[N] = n
    BY <1>1 DEF Leads
  <2>2. w[N] = [found |-> TRUE, node |-> c[N]]
    BY <1>3, <2>1
  <2> QED
    BY <2>1, <2>2
<1>7. Walks(w, U, from, steps)
  BY <1>4, <1>5 DEF Walks
<1>8. Walk(U, from, steps) = w[N]
  BY <1>1, <1>7, WalkEq
<1> QED
  BY <1>6, <1>8

\* A text under a node that had nothing is what GetText gives.
LEMMA TextIs ==
    ASSUME NEW U, NEW n, NEW val \in STRING, U[n].kids = Append(<<>>, Text(val))
    PROVE  TextOf(U, n) = val /\ Len(U[n].kids) = 1
<1>1. PICK s : s = U[n].kids /\ s = <<Text(val)>>
  OBVIOUS
<1>2. s # <<>> /\ Head(s) = Text(val) /\ Len(s) = 1
  BY <1>1
<1>3. IsText(Text(val)) /\ Text(val).text = val
  BY DEF IsText, Text
<1> QED
  BY <1>1, <1>2, <1>3 DEF TextOf

\* The node that a way down leads to is there after it was cleared and given a text.
Reaches(T, from, steps, n) == Walk(T, from, steps) = [found |-> TRUE, node |-> n]

\* It is reached again, and holds the text alone.
LEMMA UpdateFound ==
    ASSUME NEW T, IsTree(T), NEW from \in Where(T), NEW steps \in Seq(Steps), NoUp(steps),
           NEW n \in DOMAIN T, Reaches(T, from, steps, n),
           NEW val \in STRING
    PROVE  LET U == LinkText(Clear(T, n), n, val) IN
           /\ IsTree(U)
           /\ Reaches(U, from, steps, n)
           /\ TextOf(U, n) = val /\ Len(U[n].kids) = 1
<1>1. PICK C, U : C = Clear(T, n) /\ U = LinkText(C, n, val)
  OBVIOUS
<1>2. /\ IsTree(C) /\ DOMAIN C = DOMAIN T \ Below(T, n) /\ n \in DOMAIN C
      /\ C[n] = Node(T[n].title, <<>>)
      /\ \A m \in DOMAIN C : m # n => C[m] = T[m]
  BY <1>1, ClearTree
<1>3. /\ IsTree(U) /\ DOMAIN U = DOMAIN C
      /\ \A m \in DOMAIN C : U[m].title = C[m].title
      /\ U[n].kids = Append(C[n].kids, Text(val))
      /\ \A m \in DOMAIN C : m # n => U[m] = C[m]
  <2> DEFINE L == LinkText(C, n, val)
  <2>1. /\ IsTree(L) /\ DOMAIN L = DOMAIN C
        /\ \A m \in DOMAIN C : L[m].title = C[m].title
        /\ L[n].kids = Append(C[n].kids, Text(val))
        /\ \A m \in DOMAIN C : m # n => L[m] = C[m]
    BY <1>2, LinkTextTree
  <2> HIDE DEF L
  <2>2. U = L
    BY <1>1 DEF L
  <2> QED
    BY <2>1, <2>2
<1>4. C[n].kids = <<>> /\ \A m \in DOMAIN C : C[m].title = T[m].title
  <2>1. C[n].kids = <<>> /\ C[n].title = T[n].title
    BY <1>2 DEF Node
  <2> QED
    BY <1>2, <2>1
<1>5. TextOf(U, n) = val /\ Len(U[n].kids) = 1
  BY <1>3, <1>4, TextIs
<1>6. PICK c : Leads(c, T, from, steps, n)
  BY WalkDown DEF Reaches
<1>7. /\ \A e \in Below(T, n) : n < e
      /\ \A e \in Below(T, n), m \in DOMAIN T : Holds(T, m, e) => m \in Below(T, n) \cup {n}
  BY BelowIs
<1>8. ASSUME NEW m \in DOMAIN T, m < n, NEW x PROVE Named(U, m, x) = Named(T, m, x)
  <2>1. m \in Nat /\ n \in Nat /\ DOMAIN T \subseteq Nat
    BY TreeFacts
  <2>2. m \notin Below(T, n) \cup {n}
    BY <1>7, <1>8, <2>1
  <2>3. m \in DOMAIN C /\ m # n
    BY <1>2, <2>2
  <2>4. U[m] = T[m]
    BY <1>2, <1>3, <2>3
  <2>5. ASSUME NEW e \in DOMAIN T, Holds(T, m, e)
        PROVE  e \in DOMAIN U /\ U[e].title = T[e].title
    <3>1. e \notin Below(T, n)
      BY <1>7, <2>2, <2>5
    <3>2. e \in DOMAIN C /\ C[e].title = T[e].title
      BY <1>2, <1>4, <3>1
    <3> QED
      BY <1>3, <3>2
  <2>6. Picked(T[m].kids, Titled(U, x)) = Named(T, m, x)
    BY <2>5, TitledSame
  <2> QED
    BY <2>4, <2>6 DEF Named
<1>9. Len(steps) \in Nat /\ \A k \in 1..Len(steps) : k - 1 \in 0..Len(steps)
  <2>1. Len(steps) \in Nat
    OBVIOUS
  <2> QED
    BY <2>1
<1>10. \A k \in 1..Len(steps) : steps[k].name # "." =>
          Named(U, From(c[k - 1]), steps[k].name) = Named(T, From(c[k - 1]), steps[k].name)
  <2> SUFFICES ASSUME NEW k \in 1..Len(steps), steps[k].name # "."
               PROVE  Named(U, From(c[k - 1]), steps[k].name) =
                          Named(T, From(c[k - 1]), steps[k].name)
    OBVIOUS
  <2>1. c[k - 1] \in Where(T) /\ From(c[k - 1]) < n
    BY <1>6, <1>9 DEF Leads
  <2> QED
    BY <1>8, <2>1, FromIs
<1>11. Reaches(U, from, steps, n)
  BY <1>6, <1>9, <1>10, LeadsSame DEF Reaches
<1> QED
  BY <1>1, <1>3, <1>5, <1>11

\* Where a way was not found, what is made at its end is empty.
LEMMA MadeIsEmpty ==
    ASSUME NEW T, IsTree(T), NEW from \in Where(T), NEW steps \in Seq(Steps), Down(steps),
           ~Walk(T, from, steps).found, NEW R, NEW m, MakeWay(T, from, steps) = At(R, m)
    PROVE  m \in DOMAIN R /\ R[m].kids = <<>>
<1>1. PICK N : N = Len(steps) /\ N \in Nat /\ \A k \in 1..N : steps[k] \in Steps
  OBVIOUS
<1>2. PICK w : Walks(w, T, from, steps) /\ Walk(T, from, steps) = w[N]
  BY <1>1, WalkIs
<1>3. PICK t, c : Way(t, c, T, from, steps)
  BY MakeSteps
<1>4. /\ t[0] = T /\ c[0] = from
      /\ MakeWay(T, from, steps) = At(t[N], c[N])
      /\ \A k \in 0..N : IsTree(t[k]) /\ c[k] \in Where(t[k])
      /\ \A k \in 1..N : Created(t[k - 1], c[k - 1], steps[k], t[k], c[k])
  BY <1>1, <1>3 DEF Way
<1>5. R = t[N] /\ m = c[N]
  <2>1. At(R, m) = At(t[N], c[N])
    BY <1>4
  <2> QED
    BY <2>1 DEF At
<1> DEFINE Good(k) == IF w[k].found THEN t[k] = T /\ c[k] = w[k].node
                      ELSE c[k] \in DOMAIN t[k] /\ t[k][c[k]].kids = <<>>
           G == {k \in Nat : k <= N => Good(k)}
<1>6. 0 \in G
  <2>1. w[0] = [found |-> TRUE, node |-> from]
    BY <1>2 DEF Walks
  <2>2. w[0].found /\ w[0].node = from
    BY <2>1
  <2> QED
    BY <1>4, <2>2
<1>7. ASSUME NEW j \in Nat, j \in G PROVE j + 1 \in G
  <2> SUFFICES ASSUME j + 1 <= N PROVE Good(j + 1)
    OBVIOUS
  <2>1. PICK k : k = j + 1 /\ k \in 1..N /\ k - 1 = j /\ k \in 0..N /\ j \in 0..N
    BY <1>1
  <2>2. Good(j)
    BY <1>7, <2>1
  <2>3. steps[k] \in Steps /\ steps[k].name # ".." /\ steps[k].index >= 0
    BY <1>1, <2>1 DEF Down
  <2>4. w[k] = IF w[j].found THEN _find_node(T, w[j].node, steps[k]) ELSE w[j]
    BY <1>1, <1>2, <2>1 DEF Walks
  <2>5. Created(t[j], c[j], steps[k], t[k], c[k])
    BY <1>4, <2>1
  <2>6. CASE w[j].found
    <3>1. t[j] = T /\ c[j] = w[j].node
      BY <2>2, <2>6
    <3>2. w[k] = _find_node(t[j], c[j], steps[k])
      BY <2>4, <2>6, <3>1
    <3>3. CASE w[k].found
      <4>1. t[k] = t[j] /\ c[k] = _find_node(t[j], c[j], steps[k]).node
        BY <2>5, <3>2, <3>3 DEF Created
      <4> QED
        BY <2>1, <3>1, <3>2, <3>3, <4>1
    <3>4. CASE ~w[k].found
      <4>1. c[k] \in DOMAIN t[k] /\ t[k][c[k]].kids = <<>>
        BY <2>3, <2>5, <3>2, <3>4 DEF Created
      <4> QED
        BY <2>1, <3>4, <4>1
    <3> QED
      BY <3>3, <3>4
  <2>7. CASE ~w[j].found
    <3>1. c[j] \in DOMAIN t[j] /\ t[j][c[j]].kids = <<>> /\ IsTree(t[j])
      BY <1>4, <2>1, <2>2, <2>7
    <3>2. c[k] \in DOMAIN t[k] /\ t[k][c[k]].kids = <<>>
      <4>1. CASE _find_node(t[j], c[j], steps[k]).found
        <5>1. c[j] \in Where(t[j]) /\ From(c[j]) = c[j]
          <6>1. c[j] # Null
            BY <3>1, TreeFacts DEF Null
          <6> QED
            BY <3>1, <6>1 DEF Where, From
        <5>2. PICK e \in Where(t[j]) :
                  /\ _find_node(t[j], c[j], steps[k]) = [found |-> TRUE, node |-> e]
                  /\ steps[k].name = "." => e = c[j]
                  /\ steps[k].name # "." => e \in DOMAIN t[j] /\ From(c[j]) < e
          BY <2>3, <3>1, <4>1, <5>1, FindDown
        <5>3. steps[k].name = "."
          <6> SUFFICES ASSUME steps[k].name # "." PROVE FALSE
            OBVIOUS
          <6>1. steps[k].name \in Names
            BY <2>3 DEF Steps
          <6>2. PICK p : p = Named(t[j], From(c[j]), steps[k].name)
            OBVIOUS
          <6>3. p = <<>> /\ Len(p) = 0
            BY <3>1, <5>1, <6>2, PickedEmpty DEF Named
          <6>4. _find_node(t[j], c[j], steps[k]) =
                    IF steps[k].index \in 0..(Len(p) - 1)
                    THEN [found |-> TRUE, node |-> p[steps[k].index + 1]]
                    ELSE [found |-> FALSE, node |-> Null]
            BY <2>3, <3>1, <5>1, <6>1, <6>2, FindIs
          <6>5. steps[k].index \notin 0..(Len(p) - 1)
            BY <6>3
          <6> QED
            BY <4>1, <6>4, <6>5
        <5>4. _find_node(t[j], c[j], steps[k]).node = c[j]
          BY <5>2, <5>3
        <5>5. t[k] = t[j] /\ c[k] = c[j]
          BY <2>5, <4>1, <5>4 DEF Created
        <5> QED
          BY <3>1, <5>5
      <4>2. CASE ~_find_node(t[j], c[j], steps[k]).found
        BY <2>3, <2>5, <4>2 DEF Created
      <4> QED
        BY <4>1, <4>2
    <3>3. ~w[k].found
      BY <2>4, <2>7
    <3> QED
      BY <2>1, <3>2, <3>3
  <2> QED
    BY <2>6, <2>7
<1>8. Good(N)
  <2> HIDE DEF G
  <2>1. N \in G
    BY <1>1, <1>6, <1>7, Induct
  <2> QED
    BY <1>1, <2>1 DEF G
<1> QED
  BY <1>2, <1>5, <1>8

\* A text more leaves the ways as they are.
LEMMA UpdateMade ==
    ASSUME NEW T, IsTree(T), NEW from \in Where(T), NEW steps \in Seq(Steps), Down(steps),
           ~Walk(T, from, steps).found, NEW R, NEW m, MakeWay(T, from, steps) = At(R, m),
           NEW val \in STRING
    PROVE  LET U == LinkText(R, m, val) IN
           /\ IsTree(U) /\ DOMAIN T \subseteq DOMAIN U
           /\ Walk(U, from, steps) = [found |-> TRUE, node |-> m]
           /\ TextOf(U, m) = val /\ Len(U[m].kids) = 1
<1>1. /\ IsTree(R) /\ Extends(T, R) /\ m \in Where(R)
      /\ Walk(R, from, steps) = [found |-> TRUE, node |-> m]
  <2>1. PICK Q, e : /\ MakeWay(T, from, steps) = At(Q, e)
                    /\ IsTree(Q) /\ Extends(T, Q) /\ e \in Where(Q)
                    /\ Walk(Q, from, steps) = [found |-> TRUE, node |-> e]
                    /\ MakeWay(Q, from, steps) = At(Q, e)
    BY MadeIsFound
  <2>2. Q = R /\ e = m
    <3>1. At(Q, e) = At(R, m)
      BY <2>1
    <3> QED
      BY <3>1 DEF At
  <2> QED
    BY <2>1, <2>2
<1>2. m \in DOMAIN R /\ R[m].kids = <<>>
  BY MadeIsEmpty
<1>3. PICK U : U = LinkText(R, m, val)
  OBVIOUS
<1>4. /\ IsTree(U) /\ DOMAIN U = DOMAIN R
      /\ \A x \in DOMAIN R : U[x].title = R[x].title
      /\ U[m].kids = Append(R[m].kids, Text(val))
      /\ \A x \in DOMAIN R : x # m => U[x] = R[x]
  BY <1>1, <1>2, <1>3, LinkTextTree
<1>5. TextOf(U, m) = val /\ Len(U[m].kids) = 1
  BY <1>2, <1>4, TextIs
<1>6. ASSUME NEW n \in DOMAIN R, NEW x PROVE Named(U, n, x) = Named(R, n, x)
  <2>1. Picked(R[n].kids, Titled(U, x)) = Named(R, n, x)
    BY <1>1, <1>4, TitledSame
  <2>2. CASE n # m
    BY <1>4, <2>1, <2>2 DEF Named
  <2>3. CASE n = m
    <3>1. /\ R[n].kids \in Seq(Item)
          /\ Text(val) \in Item /\ ~IsElem(Text(val))
      BY <1>1, TreeFacts, Items
    <3>2. Picked(Append(R[n].kids, Text(val)), Titled(U, x)) = Picked(R[n].kids, Titled(U, x))
      BY <3>1, PickedAppend
    <3> QED
      BY <1>4, <2>1, <2>3, <3>2 DEF Named
  <2> QED
    BY <2>2, <2>3
<1>7. NoUp(steps) /\ Len(steps) \in Nat
  BY DEF NoUp, Down
<1>8. from \in Where(R) /\ DOMAIN T \subseteq DOMAIN U
  BY <1>1, <1>4 DEF Extends, Where
<1>9. PICK c : Leads(c, R, from, steps, m)
  BY <1>1, <1>2, <1>7, <1>8, WalkDown
<1>10. \A k \in 1..Len(steps) : steps[k].name # "." =>
          Named(U, From(c[k - 1]), steps[k].name) = Named(R, From(c[k - 1]), steps[k].name)
  <2> SUFFICES ASSUME NEW k \in 1..Len(steps)
               PROVE  Named(U, From(c[k - 1]), steps[k].name) =
                          Named(R, From(c[k - 1]), steps[k].name)
    OBVIOUS
  <2>1. k - 1 \in 0..Len(steps)
    BY <1>7
  <2>2. From(c[k - 1]) \in DOMAIN R
    BY <1>1, <1>9, <2>1, FromIs DEF Leads
  <2> QED
    BY <1>6, <2>2
<1>11. Walk(U, from, steps) = [found |-> TRUE, node |-> m]
  BY <1>7, <1>9, <1>10, LeadsSame
<1> QED
  BY <1>3, <1>4, <1>5, <1>8, <1>11

------------------------------------------------------------------------------
(* Siblings.                                                                  *)

\* What follows an element are elements.
LEMMA AfterRange ==
    ASSUME NEW T, IsTree(T), NEW e \in DOMAIN T \ {Doc}, NEW name
    PROVE  /\ After(T, e, name) \in Seq(Nat)
           /\ \A j \in 1..Len(After(T, e, name)) : After(T, e, name)[j] \in DOMAIN T
<1>1. PICK kids, p, S :
          /\ kids = T[ParentOf(T, e)].kids /\ p = PlaceOf(T, e)
          /\ S = IF name = Empty THEN DOMAIN T ELSE Titled(T, name)
  OBVIOUS
<1>2. kids \in Seq(Item) /\ Len(kids) \in Nat /\ p \in 1..Len(kids)
  <2>1. ParentOf(T, e) \in DOMAIN T /\ p \in DOMAIN kids
    BY <1>1, ParentIs
  <2>2. kids \in Seq(Item) /\ Len(kids) \in Nat /\ DOMAIN kids = 1..Len(kids)
    BY <1>1, <2>1, TreeFacts
  <2> QED
    BY <2>1, <2>2
<1>3. PICK s : s = SubSeq(kids, p + 1, Len(kids))
  OBVIOUS
<1>4. s \in Seq(Item)
  <2>1. p + 1 \in Int /\ Len(kids) \in Int /\ \A i \in (p + 1)..Len(kids) : kids[i] \in Item
    BY <1>2
  <2> QED
    BY <1>3, <2>1, SubSeqProperties
<1>5. After(T, e, name) = Picked(s, S) /\ S \subseteq DOMAIN T
  BY <1>1, <1>3 DEF After, Titled
<1> QED
  BY <1>4, <1>5, PickedSeq, PickedRange

\* A list split at one of its items.
LEMMA Split ==
    ASSUME NEW X, NEW s \in Seq(X), NEW p \in 1..Len(s)
    PROVE  \E a, b \in Seq(X) : s = Append(a, s[p]) \o b /\ b = SubSeq(s, p + 1, Len(s))
<1>1. Len(s) \in Nat /\ 1 \in 1..Len(s) /\ 1 \in 1..(Len(s) + 1) /\ p \in 0..Len(s)
      /\ p \in 1..Len(s) /\ Len(s) \in p..Len(s) /\ p \in 0..(Len(s))
      /\ p \in (1 - 1)..Len(s) /\ s[p] \in X
  OBVIOUS
<1>2. PICK a, b : a = SubSeq(s, 1, p - 1) /\ b = SubSeq(s, p + 1, Len(s))
  OBVIOUS
<1>3. SubSeq(s, 1, p) \o b = s
  <2>1. SubSeq(s, 1, p) \o SubSeq(s, p + 1, Len(s)) = SubSeq(s, 1, Len(s))
    BY <1>1, ConcatAdjacentSubSeq
  <2>2. SubSeq(s, 1, Len(s)) = s
    BY SubSeqFull
  <2> QED
    BY <1>2, <2>1, <2>2
<1>4. a \in Seq(X) /\ b \in Seq(X)
  <2>1. p - 1 \in Int /\ \A i \in 1..(p - 1) : s[i] \in X
    BY <1>1
  <2>2. p + 1 \in Int /\ Len(s) \in Int /\ \A i \in (p + 1)..Len(s) : s[i] \in X
    BY <1>1
  <2>3. a \in Seq(X)
    BY <1>2, <2>1, SubSeqProperties
  <2>4. b \in Seq(X)
    BY <1>2, <2>2, SubSeqProperties
  <2> QED
    BY <2>3, <2>4
<1>5. SubSeq(s, 1, p) = Append(a, s[p])
  <2>1. SubSeq(s, 1, p) = SubSeq(s, 1, p - 1) \o <<s[p]>>
    <3>1. p \in 1..Len(s) /\ p \in 1..p /\ 1 \in 1..Len(s)
      BY <1>1
    <3> QED
      BY <3>1, SubSeqRecursiveSecond
  <2>2. Append(a, s[p]) = a \o <<s[p]>>
    BY <1>1, <1>4, AppendIsConcat
  <2> QED
    BY <1>2, <2>1, <2>2
<1> QED
  BY <1>2, <1>3, <1>4, <1>5

\* What follows an element of a list among its siblings is the rest of the list.
Rest(P, i, Q) ==
    /\ Q \in Seq(Nat) /\ Len(P) \in Nat /\ Len(Q) = Len(P) - i
    /\ \A j \in 1..(Len(P) - i) : Q[j] = P[i + j]

\* The rest of the list follows, by the code of Next.
LEMMA AfterIs ==
    ASSUME NEW T, IsTree(T), NEW n \in DOMAIN T, NEW name \in Names,
           NEW i \in 1..Len(Named(T, n, name))
    PROVE  Rest(Named(T, n, name), i, After(T, Named(T, n, name)[i], name))
<1>1. PICK P : P = Named(T, n, name) /\ i \in 1..Len(P)
  OBVIOUS
<1>2. /\ P \in Seq(Nat) /\ Len(P) \in Nat
      /\ \A k \in 1..Len(P) : /\ P[k] \in DOMAIN T /\ T[P[k]].title = name
                              /\ Holds(T, n, P[k]) /\ n < P[k]
      /\ \A k, j \in 1..Len(P) : P[k] = P[j] => k = j
  <2>1. LET p == Named(T, n, name) IN
        /\ p \in Seq(Nat) /\ Len(p) \in Nat
        /\ \A k \in 1..Len(p) : /\ p[k] \in DOMAIN T /\ T[p[k]].title = name
                                /\ Holds(T, n, p[k]) /\ n < p[k]
        /\ \A k, j \in 1..Len(p) : p[k] = p[j] => k = j
    BY NamedAre
  <2> QED
    BY <1>1, <2>1
<1>3. PICK e : e = P[i] /\ e \in DOMAIN T /\ e \in Nat /\ Holds(T, n, e) /\ T[e].title = name /\ e # Doc
  <2>1. P[i] \in Nat /\ n \in Nat /\ n < P[i]
    BY <1>1, <1>2, TreeFacts
  <2>2. P[i] # Doc
    BY <2>1 DEF Doc
  <2> QED
    BY <1>1, <1>2, <2>1, <2>2
<1>4. PICK kids, p : kids = T[n].kids /\ p = PlaceOf(T, e)
  OBVIOUS
<1>5. /\ kids \in Seq(Item) /\ p \in 1..Len(kids) /\ kids[p] = Elem(e)
      /\ ParentOf(T, e) = n
  <2>1. ParentOf(T, e) = n
    BY <1>3, ParentIs
  <2> QED
    BY <1>3, <1>4, <2>1, ParentIs, TreeFacts
<1>6. PICK S : S = Titled(T, name) /\ e \in S
  BY <1>3 DEF Titled
<1>7. PICK a, b \in Seq(Item) : kids = Append(a, kids[p]) \o b /\ b = SubSeq(kids, p + 1, Len(kids))
  BY <1>5, Split
<1>8. PICK x, y : x = Picked(a, S) /\ y = Picked(b, S) /\ x \in Seq(Nat) /\ y \in Seq(Nat)
  BY PickedSeq
<1>9. P = Append(x, e) \o y
  <2>1. Elem(e) \in Item /\ IsElem(Elem(e)) /\ Elem(e).elem = e
    BY <1>3, Items
  <2>2. Picked(Append(a, Elem(e)), S) = Append(x, e)
    BY <1>6, <1>8, <2>1, PickedAppend
  <2>3. Append(a, Elem(e)) \in Seq(Item)
    BY <2>1, AppendProperties
  <2>4. Picked(Append(a, Elem(e)) \o b, S) = Picked(Append(a, Elem(e)), S) \o Picked(b, S)
    BY <2>3, PickedConcat
  <2>5. P = Picked(kids, S)
    BY <1>1, <1>4, <1>6 DEF Named
  <2> QED
    BY <1>5, <1>7, <1>8, <2>2, <2>4, <2>5
<1>10. PICK z : z = Append(x, e) /\ z \in Seq(Nat) /\ Len(z) = Len(x) + 1 /\ z[Len(x) + 1] = e
  <2>1. /\ Append(x, e) \in Seq(Nat) /\ Len(Append(x, e)) = Len(x) + 1
        /\ Append(x, e)[Len(x) + 1] = e
    BY <1>3, <1>8, AppendProperties
  <2> QED
    BY <2>1
<1>11. /\ Len(P) = Len(z) + Len(y)
       /\ \A j \in 1..(Len(z) + Len(y)) : P[j] = IF j <= Len(z) THEN z[j] ELSE y[j - Len(z)]
  BY <1>8, <1>9, <1>10, ConcatProperties
<1>12. Len(x) \in Nat /\ Len(y) \in Nat /\ Len(z) \in Nat
  BY <1>8, <1>10
<1>13. i = Len(z)
  <2>1. Len(z) \in 1..Len(P) /\ Len(z) \in 1..(Len(z) + Len(y))
    BY <1>10, <1>11, <1>12
  <2>2. P[Len(z)] = e
    BY <1>10, <1>11, <1>12, <2>1
  <2> QED
    BY <1>1, <1>2, <1>3, <2>1, <2>2
<1>14. After(T, e, name) = y
  <2>1. name # Empty
    BY NamesAssumption
  <2> QED
    BY <1>4, <1>5, <1>6, <1>7, <1>8, <2>1 DEF After
<1>15. Len(y) = Len(P) - i /\ \A j \in 1..(Len(P) - i) : y[j] = P[i + j]
  <2>1. PICK lx, ly, lz, lp : lx = Len(x) /\ ly = Len(y) /\ lz = Len(z) /\ lp = Len(P)
    OBVIOUS
  <2>2. ly \in Nat /\ lz \in Nat /\ lp = lz + ly /\ i = lz
    BY <1>11, <1>12, <1>13, <2>1
  <2>3. ASSUME NEW j \in 1..(lp - i) PROVE y[j] = P[i + j]
    <3>1. i + j \in 1..(lz + ly) /\ ~(i + j <= lz) /\ (i + j) - lz = j
      BY <2>2
    <3> QED
      BY <1>11, <2>1, <3>1
  <2>4. ly = lp - i
    BY <2>2
  <2> QED
    BY <2>1, <2>3, <2>4
<1> QED
  <2>1. Rest(P, i, After(T, P[i], name))
    BY <1>2, <1>3, <1>8, <1>14, <1>15 DEF Rest
  <2> QED
    BY <1>1, <2>1

\* The walk along the siblings of a name and the indexes agree.
LEMMA LoopIs ==
    ASSUME NEW T, IsTree(T), NEW n \in DOMAIN T, NEW name \in Names,
           NEW i \in 0..Len(Named(T, n, name))
    PROVE  LET at(k) == _find_node(T, n, [name |-> name, index |-> k])
               count == Len(Named(T, n, name))
           IN  IF i = count THEN ~at(i).found
               ELSE /\ at(i).found
                    /\ After(T, at(i).node, name) = [j \in 1..(count - i - 1) |-> at(i + j).node]
<1>1. PICK P, count : P = Named(T, n, name) /\ count = Len(P)
  OBVIOUS
<1>2. P \in Seq(Nat) /\ count \in Nat /\ i \in 0..count /\ i \in Nat
  BY <1>1, NamedAre
<1> DEFINE at(k) == _find_node(T, n, [name |-> name, index |-> k])
<1>3. ASSUME NEW k \in Nat
      PROVE  at(k) = IF k \in 0..(count - 1) THEN [found |-> TRUE, node |-> P[k + 1]]
                     ELSE [found |-> FALSE, node |-> Null]
  <2>1. PICK step : step = [name |-> name, index |-> k]
    OBVIOUS
  <2>2. step \in Steps /\ step.name = name /\ step.index = k
    BY <2>1 DEF Steps
  <2>3. n \in Where(T) /\ From(n) = n
    BY TreeFacts DEF Where, From, Null
  <2>4. _find_node(T, n, step) =
            IF step.index \in 0..(Len(Named(T, From(n), step.name)) - 1)
            THEN [found |-> TRUE, node |-> Named(T, From(n), step.name)[step.index + 1]]
            ELSE [found |-> FALSE, node |-> Null]
    BY <2>2, <2>3, FindIs
  <2>5. _find_node(T, n, step) = IF k \in 0..(count - 1) THEN [found |-> TRUE, node |-> P[k + 1]]
                                 ELSE [found |-> FALSE, node |-> Null]
    BY <1>1, <2>2, <2>3, <2>4
  <2> QED
    BY <2>1, <2>5
<1>4. \A k \in 0..(count - 1) : at(k).found /\ at(k).node = P[k + 1]
  <2> SUFFICES ASSUME NEW k \in 0..(count - 1) PROVE at(k).found /\ at(k).node = P[k + 1]
    OBVIOUS
  <2>1. at(k) = [found |-> TRUE, node |-> P[k + 1]]
    BY <1>3
  <2> HIDE DEF at
  <2> QED
    BY <2>1
<1>5. i = count => ~at(i).found
  <2> SUFFICES ASSUME i = count PROVE ~at(i).found
    OBVIOUS
  <2>1. i \notin 0..(count - 1)
    BY <1>2
  <2> HIDE DEF at
  <2>2. at(i) = [found |-> FALSE, node |-> Null]
    BY <1>2, <1>3, <2>1
  <2> QED
    BY <2>2
<1> HIDE DEF at
<1>6. ASSUME i # count
      PROVE  After(T, at(i).node, name) = [j \in 1..(count - i - 1) |-> at(i + j).node]
  <2>1. i \in 0..(count - 1) /\ i + 1 \in 1..count
    BY <1>2, <1>6
  <2>2. PICK e, s : e = P[i + 1] /\ e = at(i).node /\ s = After(T, e, name)
    BY <1>4, <2>1
  <2>3. /\ s \in Seq(Nat) /\ Len(s) = count - (i + 1)
        /\ \A j \in 1..(count - (i + 1)) : s[j] = P[(i + 1) + j]
    <3>1. i + 1 \in 1..Len(Named(T, n, name))
      BY <1>1, <2>1
    <3>2. Rest(Named(T, n, name), i + 1, After(T, Named(T, n, name)[i + 1], name))
      BY <3>1, AfterIs
    <3>3. Rest(P, i + 1, s)
      BY <1>1, <2>2, <3>2
    <3> QED
      BY <1>1, <3>3 DEF Rest
  <2>4. count - (i + 1) = count - i - 1 /\ Len(s) \in Nat
    BY <1>2, <2>3
  <2>5. s = [j \in 1..(count - i - 1) |-> s[j]]
    BY <2>3, <2>4
  <2>6. ASSUME NEW j \in 1..(count - i - 1) PROVE s[j] = at(i + j).node
    <3>1. (i + 1) + j = (i + j) + 1 /\ i + j \in 0..(count - 1)
      BY <1>2, <2>1
    <3>2. s[j] = P[(i + 1) + j]
      BY <2>3, <2>4
    <3> QED
      BY <1>4, <3>1, <3>2
  <2>7. [j \in 1..(count - i - 1) |-> s[j]] = [j \in 1..(count - i - 1) |-> at(i + j).node]
    BY <2>6
  <2> QED
    BY <2>2, <2>5, <2>7
<1>7. i # count => at(i).found
  <2>1. i # count => i \in 0..(count - 1)
    BY <1>2
  <2> QED
    BY <1>4, <2>1
<1> QED
  BY <1>1, <1>5, <1>6, <1>7 DEF at

------------------------------------------------------------------------------
(* The invariant: the document is a tree, and the current node one of its     *)
(* elements, none, or one that was freed.                                     *)

TreeInv ==
    /\ IsTree(tree)
    /\ m_doc \in BOOLEAN
    /\ m_currNode \in Where(tree) \cup {Dangling}
    /\ ~m_doc => m_currNode = Null /\ tree = Blank

\* A document without an element is a tree:
LEMMA OneNode ==
    ASSUME NEW s \in Seq(Item), \A j \in 1..Len(s) : ~IsElem(s[j])
    PROVE  LET T == [n \in {Doc} |-> Node(Empty, s)] IN IsTree(T) /\ DOMAIN T = {Doc}
<1>1. PICK N : N = Node(Empty, s)
  OBVIOUS
<1>2. N \in [title : Titles, kids : Seq(Item)] /\ N.kids = s
  <2>1. PICK X : X = Seq(Item)
    OBVIOUS
  <2>2. PICK e : e = Empty /\ e \in Titles
    BY DEF Titles
  <2>4. N = [title |-> e, kids |-> s] /\ s \in X
    BY <1>1, <2>1, <2>2 DEF Node
  <2>3. N \in [title : Titles, kids : X] /\ N.kids = s
    BY <2>2, <2>4
  <2> QED
    BY <2>1, <2>3
<1>3. PICK T : T = [n \in {Doc} |-> N]
  OBVIOUS
<1>4. DOMAIN T = {Doc} /\ T[Doc].kids = s /\ T \in TreeNodes({Doc})
  <2>1. DOMAIN T = {Doc} /\ T[Doc] = N
    BY <1>3
  <2>2. PICK X : X = [title : Titles, kids : Seq(Item)]
    OBVIOUS
  <2>3. T \in [{Doc} -> X]
    BY <1>2, <1>3, <2>2
  <2>4. T \in TreeNodes({Doc})
    BY <2>2, <2>3 DEF TreeNodes
  <2> QED
    BY <1>2, <2>1, <2>4
<1>5. Once(T[Doc].kids)
  BY <1>4 DEF Once
<1>6. ASSUME NEW e \in Nat PROVE ~Holds(T, Doc, e)
  <2>1. \A j \in DOMAIN s : j \in 1..Len(s)
    OBVIOUS
  <2>2. IsElem(Elem(e))
    BY Items
  <2> QED
    BY <1>4, <2>1, <2>2 DEF Holds
<1>7. {Doc} \subseteq Nat /\ IsFiniteSet({Doc})
  <2>1. IsFiniteSet({Doc})
    BY FS_Singleton
  <2>2. {Doc} \subseteq Nat
    BY DEF Doc
  <2> QED
    BY <2>1, <2>2
<1>8. IsTree(T)
  <2>1. \A n \in DOMAIN T, e \in Nat : ~Holds(T, n, e)
    BY <1>4, <1>6
  <2>2. \A n \in DOMAIN T : Once(T[n].kids)
    BY <1>4, <1>5
  <2>3. Doc \in DOMAIN T /\ DOMAIN T \subseteq Nat /\ IsFiniteSet(DOMAIN T)
        /\ T \in TreeNodes(DOMAIN T) /\ DOMAIN T \ {Doc} = {}
    BY <1>4, <1>7
  <2> QED
    BY <2>1, <2>2, <2>3, TreeMade
<1> QED
  BY <1>1, <1>3, <1>4, <1>8

\* the one before the first call,
LEMMA BlankIsTree == IsTree(Blank) /\ DOMAIN Blank = {Doc}
<1>1. <<>> \in Seq(Item) /\ \A j \in 1..Len(<<>>) : ~IsElem(<<>>[j])
  OBVIOUS
<1> QED
  BY <1>1, OneNode DEF Blank

\* and the one that _create_xml_ makes.
LEMMA NewDocumentIsTree == IsTree(NewDocument) /\ DOMAIN NewDocument = {Doc}
<1>1. PICK s : s = <<Declaration>>
  OBVIOUS
<1>2. s \in Seq(Item) /\ \A j \in 1..Len(s) : ~IsElem(s[j])
  BY <1>1, Items
<1>3. LET T == [n \in {Doc} |-> Node(Empty, s)] IN IsTree(T) /\ DOMAIN T = {Doc}
  BY <1>2, OneNode
<1> QED
  BY <1>1, <1>3 DEF NewDocument

\* A call works on a tree that has the nodes there are.
LEMMA TheTreeIs ==
    ASSUME TreeInv
    PROVE  /\ IsTree(TheTree) /\ DOMAIN TheTree = DOMAIN tree /\ Where(TheTree) = Where(tree)
           /\ m_doc => TheTree = tree
<1>1. CASE m_doc
  BY <1>1 DEF TheTree, TreeInv
<1>2. CASE ~m_doc
  <2>1. TheTree = NewDocument /\ tree = Blank
    BY <1>2 DEF TheTree, TreeInv
  <2> QED
    BY <1>2, <2>1, BlankIsTree, NewDocumentIsTree DEF Where
<1> QED
  BY <1>1, <1>2

\* The path of a call starts at a node of the tree.
LEMMA PathIs ==
    ASSUME TreeInv, NEW path \in Paths
    PROVE  /\ path.steps \in Seq(Steps) /\ path.abs \in BOOLEAN
           /\ Usable(path) => Start(path) \in Where(TheTree)
           /\ Plain(path) => Down(path.steps) /\ NoUp(path.steps)
<1>1. path \in [abs : BOOLEAN, steps : Seq(Steps)]
  BY PathsAssumption DEF Steps
<1>2. path.steps \in Seq(Steps) /\ path.abs \in BOOLEAN
  BY <1>1
<1>3. Usable(path) => Start(path) \in Where(TheTree)
  BY TheTreeIs DEF Usable, Start, TreeInv, Where
<1>4. DOMAIN path.steps = 1..Len(path.steps)
  BY <1>2
<1>5. Plain(path) => Down(path.steps) /\ NoUp(path.steps)
  BY <1>4 DEF Plain, Down, NoUp
<1> QED
  BY <1>2, <1>3, <1>5

\* What a path leads to, and what is made on it.
LEMMA GotoIs ==
    ASSUME TreeInv, NEW path \in Paths, Usable(path)
    PROVE  _goto(TheTree, path) \in Finds(TheTree)
<1>1. /\ IsTree(TheTree) /\ Start(path) \in Where(TheTree) /\ path.steps \in Seq(Steps)
  BY TheTreeIs, PathIs
<1>2. PICK f : /\ Walk(TheTree, Start(path), path.steps) = f[Len(path.steps)]
               /\ \A k \in 0..Len(path.steps) : f[k] \in Finds(TheTree)
  BY <1>1, WalkIs
<1>3. Len(path.steps) \in 0..Len(path.steps)
  BY <1>1
<1> QED
  BY <1>2, <1>3 DEF _goto

\* A path that is made extends the tree.
LEMMA MadeTree ==
    ASSUME TreeInv, NEW path \in Paths, Usable(path)
    PROVE  \E R, m : /\ _create_mult_node(TheTree, path) = At(R, m)
                     /\ IsTree(R) /\ Extends(TheTree, R) /\ m \in Where(R)
<1>1. IsTree(TheTree) /\ Start(path) \in Where(TheTree) /\ path.steps \in Seq(Steps)
  BY TheTreeIs, PathIs
<1>2. PICK f : /\ MakeWay(TheTree, Start(path), path.steps) = f[Len(path.steps)]
               /\ \A k \in 0..Len(path.steps) : Made(f[k], TheTree)
  BY <1>1, MakeIs
<1>3. Len(path.steps) \in 0..Len(path.steps)
  BY <1>1
<1>4. Made(_create_mult_node(TheTree, path), TheTree)
  BY <1>2, <1>3 DEF _create_mult_node
<1> QED
  BY <1>4 DEF Made

\* A value that is added extends it too.
LEMMA AddedTree ==
    ASSUME TreeInv, NEW path \in Paths, Usable(path), NEW val \in Values
    PROVE  IsTree(Added(path, val)) /\ Where(tree) \subseteq Where(Added(path, val))
<1>1. PICK R, m : /\ _create_mult_node(TheTree, path) = At(R, m)
                  /\ IsTree(R) /\ Extends(TheTree, R) /\ m \in Where(R)
  BY MadeTree
<1>2. At(R, m).tree = R /\ At(R, m).node = m
  BY DEF At
<1>3. Added(path, val) = IF m = Null THEN R ELSE LinkText(R, m, val)
  BY <1>1, <1>2 DEF Added
<1>4. val \in STRING
  BY NamesAssumption
<1>5. Where(tree) \subseteq Where(R)
  BY <1>1, TheTreeIs DEF Where, Extends
<1>6. CASE m = Null
  BY <1>1, <1>3, <1>5, <1>6
<1>7. CASE m # Null
  <2>1. m \in DOMAIN R
    BY <1>1, <1>7 DEF Where
  <2>2. IsTree(LinkText(R, m, val)) /\ DOMAIN LinkText(R, m, val) = DOMAIN R
    BY <1>1, <1>4, <2>1, LinkTextTree
  <2> QED
    BY <1>3, <1>5, <1>7, <2>2 DEF Where
<1> QED
  BY <1>6, <1>7

\* No action leaves the current node freed below a way down.
NotFreed ==
    m_currNode' = Dangling /\ m_currNode > Doc =>
        last'.path.abs \/ \E i \in DOMAIN last'.path.steps : last'.path.steps[i].name = ".."

\* The call that is noted.
LEMMA Ends ==
    /\ NoCall.op # "AddNode" /\ NoCall.op # "UpdateValue"
    /\ \A op, path, val : Noted(op, path, val) =>
           last'.op = op /\ last'.path = path /\ last'.val = val
BY DEF NoCall, Noted

\* What becomes of the document when only the tree and the current node change.
LEMMA BecomesTree ==
    ASSUME NEW T, Becomes(T), IsTree(T), m_currNode' \in Where(T) \cup {Dangling}
    PROVE  TreeInv'
<1>1. tree' = T /\ m_doc' = TRUE
  BY DEF Becomes
<1>2. IsTree(tree')
  BY <1>1
<1>3. m_currNode' \in Where(tree') \cup {Dangling}
  BY <1>1
<1> QED
  BY <1>1, <1>2, <1>3 DEF TreeInv

\* A step that takes a node of the tree, or stays, frees none.
LEMMA Takes ==
    ASSUME NEW T, IsTree(T), m_currNode' \in Where(T) \/ m_currNode' = m_currNode
    PROVE  NotFreed
<1>1. Dangling \notin Where(T)
  BY TreeFacts DEF Where, Dangling, Null
<1>2. ~(m_currNode = Dangling /\ m_currNode > Doc)
  BY DEF Dangling, Doc
<1> QED
  BY <1>1, <1>2 DEF NotFreed

\* The current node is one of the tree of the call.
LEMMA CurrentIn == TreeInv => m_currNode \in Where(TheTree) \cup {Dangling}
BY TheTreeIs DEF TreeInv

\* One lemma for each operation: the document stays a tree and the current node is not freed.
LEMMA GotoStep == ASSUME TreeInv, Goto PROVE TreeInv' /\ NotFreed
<1>1. PICK path \in Paths :
          /\ Usable(path) /\ Becomes(TheTree)
          /\ m_currNode' = IF _goto(TheTree, path).found THEN _goto(TheTree, path).node ELSE m_currNode
  BY DEF Goto
<1>2. _goto(TheTree, path).node \in Where(TheTree)
  BY <1>1, GotoIs DEF Finds
<1>3. IsTree(TheTree) /\ m_currNode' \in Where(TheTree) \cup {Dangling}
      /\ (m_currNode' \in Where(TheTree) \/ m_currNode' = m_currNode)
  BY <1>1, <1>2, TheTreeIs, CurrentIn
<1> QED
  BY <1>1, <1>3, BecomesTree, Takes

\* The tree stays and a node of it is taken.
LEMMA MovesIn ==
    ASSUME TreeInv, m_doc, UNCHANGED <<m_doc, tree>>, m_currNode' \in DOMAIN tree
    PROVE  TreeInv' /\ NotFreed
<1>1. IsTree(tree) /\ m_currNode' \in Where(tree)
  BY DEF TreeInv, Where
<1>2. TreeInv'
  <2>1. IsTree(tree') /\ m_currNode' \in Where(tree') \cup {Dangling} /\ m_doc'
    BY <1>1
  <2> QED
    BY <2>1 DEF TreeInv
<1> QED
  BY <1>1, <1>2, Takes

\* The first of a list is in it.
LEMMA HeadIn ==
    ASSUME NEW P \in Seq(Nat), P # <<>>, NEW D, \A i \in 1..Len(P) : P[i] \in D
    PROVE  Head(P) \in D
<1>1. 1 \in 1..Len(P) /\ Head(P) = P[1]
  OBVIOUS
<1> QED
  BY <1>1

\* GotoFirstChild.
LEMMA FirstChildStep == ASSUME TreeInv, GotoFirstChild PROVE TreeInv' /\ NotFreed
<1>1. PICK P : P = ElementsOf(tree, From(m_currNode))
  OBVIOUS
<1>2. Sound /\ m_doc /\ P # <<>> /\ m_currNode' = Head(P) /\ UNCHANGED <<m_doc, tree>>
  BY <1>1 DEF GotoFirstChild
<1>3. IsTree(tree) /\ From(m_currNode) \in DOMAIN tree
  BY <1>2, FromIs DEF TreeInv, Sound
<1>4. P \in Seq(Nat) /\ \A i \in 1..Len(P) : P[i] \in DOMAIN tree
  <2>1. LET Q == Picked(tree[From(m_currNode)].kids, DOMAIN tree) IN
        /\ Q \in Seq(Nat)
        /\ \A i \in 1..Len(Q) : Q[i] \in DOMAIN tree
    BY <1>3, ListedAre
  <2> QED
    BY <1>1, <2>1 DEF ElementsOf
<1>5. m_currNode' \in DOMAIN tree
  BY <1>2, <1>4, HeadIn
<1> QED
  BY <1>2, <1>5, MovesIn

\* Next.
LEMMA SiblingStep == ASSUME TreeInv, NextSibling PROVE TreeInv' /\ NotFreed
<1>1. PICK name : Next_(name)
  BY DEF NextSibling
<1>2. PICK P : P = After(tree, m_currNode, name)
  OBVIOUS
<1>3. /\ m_currNode \in DOMAIN tree \ {Doc} /\ P # <<>> /\ m_currNode' = Head(P)
      /\ UNCHANGED <<m_doc, tree>>
  BY <1>1, <1>2 DEF Next_
<1>4. IsTree(tree) /\ m_doc
  <2>1. m_currNode # Null
    BY <1>3, TreeFacts DEF TreeInv, Null
  <2> QED
    BY <2>1 DEF TreeInv
<1>5. P \in Seq(Nat) /\ \A i \in 1..Len(P) : P[i] \in DOMAIN tree
  BY <1>2, <1>3, <1>4, AfterRange
<1>6. m_currNode' \in DOMAIN tree
  BY <1>3, <1>5, HeadIn
<1> QED
  BY <1>3, <1>4, <1>6, MovesIn

\* AddNode.
LEMMA AddNodeStep == ASSUME TreeInv, AddNode PROVE TreeInv' /\ NotFreed
<1>1. PICK path \in Paths :
          /\ Usable(path)
          /\ Becomes(_create_mult_node(TheTree, path).tree)
          /\ m_currNode' = _create_mult_node(TheTree, path).node
  BY DEF AddNode
<1>2. PICK R, m : /\ _create_mult_node(TheTree, path) = At(R, m)
                  /\ IsTree(R) /\ Extends(TheTree, R) /\ m \in Where(R)
  BY <1>1, MadeTree
<1>3. At(R, m).tree = R /\ At(R, m).node = m
  BY DEF At
<1>4. Becomes(R) /\ m_currNode' = m
  BY <1>1, <1>2, <1>3
<1> QED
  BY <1>2, <1>4, BecomesTree, Takes

\* Another child.
LEMMA LinkIs ==
    ASSUME TreeInv, m_currNode # Dangling, NEW name \in Names
    PROVE  LET n == From(m_currNode) L == Link(TheTree, n, name) IN
           /\ IsTree(L) /\ Last(ElementsOf(L, n)) \in DOMAIN L
           /\ DOMAIN tree \subseteq DOMAIN L
<1>1. PICK T : T = TheTree
  OBVIOUS
<1>2. IsTree(T) /\ DOMAIN T = DOMAIN tree /\ m_currNode \in Where(T)
  BY <1>1, TheTreeIs, CurrentIn
<1>3. PICK n : n = From(m_currNode) /\ n \in DOMAIN T
  BY <1>2, FromIs
<1>4. name \in Titles
  BY DEF Titles
<1>5. /\ IsTree(Link(T, n, name)) /\ DOMAIN Link(T, n, name) = DOMAIN T \cup {New(T)}
  BY <1>2, <1>3, <1>4, LinkTree
<1>6. Last(ElementsOf(Link(T, n, name), n)) = New(T)
  BY <1>2, <1>3, <1>4, NamedLink
<1> QED
  BY <1>1, <1>2, <1>3, <1>5, <1>6

\* SimpleAddNode.
LEMMA SimpleAddNodeStep == ASSUME TreeInv, SimpleAddNode PROVE TreeInv' /\ NotFreed
<1>1. PICK name \in Names :
          /\ Sound
          /\ Becomes(Link(TheTree, From(m_currNode), name))
          /\ m_currNode' = Last(ElementsOf(Link(TheTree, From(m_currNode), name), From(m_currNode)))
  BY DEF SimpleAddNode
<1>2. PICK n, L : n = From(m_currNode) /\ L = Link(TheTree, n, name)
  OBVIOUS
<1>3. IsTree(L) /\ Last(ElementsOf(L, n)) \in DOMAIN L
  BY <1>1, <1>2, LinkIs DEF Sound
<1>4. Becomes(L) /\ m_currNode' \in Where(L)
  BY <1>1, <1>2, <1>3 DEF Where
<1> QED
  BY <1>3, <1>4, BecomesTree, Takes

\* AddValue.
LEMMA AddValueStep == ASSUME TreeInv, AddValue PROVE TreeInv' /\ NotFreed
<1>1. PICK path \in Paths, val \in Values :
          Usable(path) /\ Becomes(Added(path, val)) /\ m_currNode' = m_currNode
  BY DEF AddValue
<1>2. PICK U : U = Added(path, val) /\ IsTree(U) /\ Where(tree) \subseteq Where(U)
  BY <1>1, AddedTree
<1>3. m_currNode' \in Where(U) \cup {Dangling}
  BY <1>1, <1>2 DEF TreeInv
<1> QED
  BY <1>1, <1>2, <1>3, BecomesTree, Takes

\* SimpleAddValue.
LEMMA SimpleAddValueStep == ASSUME TreeInv, SimpleAddValue PROVE TreeInv' /\ NotFreed
<1>1. PICK name \in Names, val \in Values :
          /\ Sound /\ m_currNode' = m_currNode
          /\ Becomes(LinkText(Link(TheTree, From(m_currNode), name),
                              Last(ElementsOf(Link(TheTree, From(m_currNode), name),
                                              From(m_currNode))), val))
  BY DEF SimpleAddValue
<1>2. PICK n, L : n = From(m_currNode) /\ L = Link(TheTree, n, name)
  OBVIOUS
<1>3. PICK e, U : e = Last(ElementsOf(L, n)) /\ U = LinkText(L, e, val)
  OBVIOUS
<1>4. IsTree(L) /\ e \in DOMAIN L /\ DOMAIN tree \subseteq DOMAIN L
  BY <1>1, <1>2, <1>3, LinkIs DEF Sound
<1>5. val \in STRING
  BY NamesAssumption
<1>6. IsTree(U) /\ DOMAIN U = DOMAIN L
  BY <1>3, <1>4, <1>5, LinkTextTree
<1>7. Becomes(U) /\ m_currNode' \in Where(U) \cup {Dangling}
  BY <1>1, <1>2, <1>3, <1>4, <1>6 DEF TreeInv, Where
<1> QED
  BY <1>1, <1>6, <1>7, BecomesTree, Takes

\* UpdateValue and EraseValue with a path to no node.
LEMMA NullStep == ASSUME TreeInv, UpdateNull \/ EraseNull PROVE TreeInv' /\ NotFreed
<1>1. PICK path \in Paths : FollowsNull(path)
  BY DEF UpdateNull, EraseNull
<1>2. Becomes(TheTree) /\ m_currNode' = m_currNode
  BY <1>1 DEF FollowsNull
<1>3. IsTree(TheTree) /\ m_currNode' \in Where(TheTree) \cup {Dangling}
  BY <1>2, TheTreeIs, CurrentIn
<1> QED
  BY <1>2, <1>3, BecomesTree, Takes

\* Parse, which may free the current node.
LEMMA ParseStep == ASSUME TreeInv, Parse PROVE TreeInv'
<1>1. PICK T \in Documents \cup {Blank} : Becomes(T)
  BY DEF Parse
<1>2. IsTree(T)
  BY DocumentsAssumption, BlankIsTree
<1>3. m_currNode' \in Where(T) \cup {Dangling}
  BY <1>2, TreeFacts DEF Parse, Where
<1> QED
  BY <1>1, <1>2, <1>3, BecomesTree

\* What the calls that free do to the current node.
LEMMA CutIs ==
    ASSUME NEW T, IsTree(T), m_currNode \in Where(T) \cup {Dangling},
           NEW gone, gone \subseteq DOMAIN T, NEW R, DOMAIN R = DOMAIN T \ gone
    PROVE  Cut(gone) \in Where(R) \cup {Dangling}
<1>1. Null \notin DOMAIN T
  BY TreeFacts DEF Null
<1> QED
  BY <1>1 DEF Cut, Where

\* A way down from the current node does not lead above it.
LEMMA DownFrom ==
    ASSUME TreeInv, NEW path \in Paths, Usable(path), m_currNode > Doc,
           ~path.abs, \A i \in DOMAIN path.steps : path.steps[i].name # "..",
           NEW n \in DOMAIN TheTree, _goto(TheTree, path) = [found |-> TRUE, node |-> n]
    PROVE  m_currNode \notin Below(TheTree, n)
<1>1. PICK T, steps : T = TheTree /\ steps = path.steps
  OBVIOUS
<1>2. /\ IsTree(T) /\ Start(path) = m_currNode /\ m_currNode \in Where(T)
      /\ steps \in Seq(Steps)
  BY <1>1, TheTreeIs, PathIs DEF Start
<1>3. NoUp(steps)
  <2>1. DOMAIN steps = 1..Len(steps)
    BY <1>2
  <2> QED
    BY <1>1, <2>1 DEF NoUp
<1>4. Walk(T, m_currNode, steps) = [found |-> TRUE, node |-> n]
  BY <1>1, <1>2 DEF _goto
<1>5. PICK c : Leads(c, T, m_currNode, steps, n)
  BY <1>1, <1>2, <1>3, <1>4, WalkDown
<1>6. From(m_currNode) <= n
  <2>1. 0 \in 0..Len(steps)
    BY <1>2
  <2> QED
    BY <1>5, <2>1 DEF Leads
<1>7. m_currNode <= n
  <2>1. m_currNode # Null
    BY DEF Null, Doc
  <2> QED
    BY <1>6, <2>1 DEF From
<1>8. \A e \in Below(T, n) : n < e
  BY <1>1, <1>2, BelowIs
<1>9. n \in Nat /\ DOMAIN T \subseteq Nat /\ Below(T, n) \subseteq DOMAIN T
  BY <1>1, <1>2, TreeFacts, BelowIs
<1>10. m_currNode \notin Below(T, n)
  <2> SUFFICES ASSUME m_currNode \in Below(T, n) PROVE FALSE
    OBVIOUS
  <2>1. n < m_currNode /\ m_currNode \in Nat
    BY <1>8, <1>9
  <2> QED
    BY <1>7, <1>9, <2>1
<1> QED
  BY <1>1, <1>10

\* UpdateValue: what is below the node is freed.
LEMMA UpdateStep == ASSUME TreeInv, UpdateValue PROVE TreeInv' /\ NotFreed
<1>1. PICK path \in Paths, val \in Values :
          /\ Usable(path)
          /\ LET to == _goto(TheTree, path) IN
                 IF to.found
                 THEN /\ to.node # Null
                      /\ Becomes(LinkText(Clear(TheTree, to.node), to.node, val))
                      /\ m_currNode' = Cut(Below(TheTree, to.node))
                      /\ Noted("UpdateValue", path, val)
                 ELSE /\ Becomes(Added(path, val))
                      /\ m_currNode' = m_currNode
  BY DEF UpdateValue
<1>2. PICK T, to : T = TheTree /\ to = _goto(TheTree, path)
  OBVIOUS
<1>3. IsTree(T) /\ to \in Finds(T) /\ val \in STRING /\ m_currNode \in Where(T) \cup {Dangling}
  BY <1>1, <1>2, TheTreeIs, GotoIs, CurrentIn, NamesAssumption
<1>4. CASE to.found
  <2>1. PICK n : n = to.node /\ n # Null /\ n \in Where(T) /\ to = [found |-> TRUE, node |-> n]
    BY <1>1, <1>2, <1>3, <1>4 DEF Finds
  <2>2. n \in DOMAIN T
    BY <2>1 DEF Where
  <2>3. PICK C, U : C = Clear(T, n) /\ U = LinkText(C, n, val)
    OBVIOUS
  <2>4. Becomes(U) /\ m_currNode' = Cut(Below(T, n)) /\ last'.path = path
    BY <1>1, <1>2, <1>4, <2>1, <2>3, Ends
  <2>5. IsTree(C) /\ DOMAIN C = DOMAIN T \ Below(T, n) /\ n \in DOMAIN C
    BY <1>3, <2>2, <2>3, ClearTree
  <2>6. IsTree(U) /\ DOMAIN U = DOMAIN C
    BY <1>3, <2>3, <2>5, LinkTextTree
  <2>7. Below(T, n) \subseteq DOMAIN T
    BY <1>3, <2>2, BelowIs
  <2>8. m_currNode' \in Where(U) \cup {Dangling}
    BY <1>3, <2>4, <2>5, <2>6, <2>7, CutIs
  <2>9. NotFreed
    <3> SUFFICES ASSUME m_currNode > Doc, ~path.abs,
                        \A i \in DOMAIN path.steps : path.steps[i].name # ".."
                 PROVE  m_currNode' # Dangling
      BY <2>4 DEF NotFreed
    <3>1. m_currNode \notin Below(T, n)
      BY <1>1, <1>2, <2>1, <2>2, DownFrom
    <3>2. m_currNode # Dangling
      BY DEF Dangling, Doc
    <3> QED
      BY <2>4, <3>1, <3>2 DEF Cut
  <2> QED
    BY <2>4, <2>6, <2>8, <2>9, BecomesTree
<1>5. CASE ~to.found
  <2>1. PICK U : U = Added(path, val) /\ IsTree(U) /\ Where(tree) \subseteq Where(U)
    BY <1>1, AddedTree
  <2>2. Becomes(U) /\ m_currNode' = m_currNode
    BY <1>1, <1>2, <1>5, <2>1
  <2>3. m_currNode' \in Where(U) \cup {Dangling}
    BY <2>1, <2>2 DEF TreeInv
  <2> QED
    BY <2>1, <2>2, <2>3, BecomesTree, Takes
<1> QED
  BY <1>4, <1>5

\* EraseValue: the node is freed with what is below.
LEMMA EraseStep == ASSUME TreeInv, EraseValue PROVE TreeInv' /\ NotFreed
<1>1. PICK path \in Paths :
          /\ Usable(path)
          /\ LET to == _goto(TheTree, path) IN
                 /\ to.found /\ to.node # Null
                 /\ Becomes(IF to.node = Doc THEN TheTree ELSE RemoveChild(TheTree, to.node))
                 /\ m_currNode' = IF m_currNode = to.node THEN Null
                                  ELSE IF to.node = Doc THEN m_currNode
                                  ELSE Cut(Below(TheTree, to.node))
          /\ Noted("EraseValue", path, Empty)
  BY DEF EraseValue
<1>2. PICK T, to, n : T = TheTree /\ to = _goto(TheTree, path) /\ n = to.node
  OBVIOUS
<1>3. /\ IsTree(T) /\ to \in Finds(T) /\ to.found /\ n # Null
      /\ m_currNode \in Where(T) \cup {Dangling}
  BY <1>1, <1>2, TheTreeIs, GotoIs, CurrentIn
<1>4. n \in DOMAIN T /\ to = [found |-> TRUE, node |-> n] /\ Null \in Where(T)
  BY <1>2, <1>3 DEF Finds, Where
<1>5. /\ Becomes(IF n = Doc THEN T ELSE RemoveChild(T, n))
      /\ m_currNode' = IF m_currNode = n THEN Null
                       ELSE IF n = Doc THEN m_currNode ELSE Cut(Below(T, n))
      /\ last'.path = path
  BY <1>1, <1>2, Ends
<1>6. CASE n = Doc
  <2>1. Becomes(T) /\ m_currNode' \in Where(T) \cup {Dangling}
    BY <1>3, <1>4, <1>5, <1>6
  <2>2. m_currNode' \in Where(T) \/ m_currNode' = m_currNode
    BY <1>4, <1>5, <1>6
  <2> QED
    BY <1>3, <2>1, <2>2, BecomesTree, Takes
<1>7. CASE n # Doc
  <2>1. PICK R : R = RemoveChild(T, n)
    OBVIOUS
  <2>2. IsTree(R) /\ DOMAIN R = DOMAIN T \ (Below(T, n) \cup {n})
    BY <1>3, <1>4, <1>7, <2>1, RemoveTree
  <2>3. Becomes(R) /\ m_currNode' = IF m_currNode = n THEN Null ELSE Cut(Below(T, n))
    BY <1>5, <1>7, <2>1
  <2>4. Below(T, n) \subseteq DOMAIN T
    BY <1>3, <1>4, BelowIs
  <2>5. m_currNode' \in Where(R) \cup {Dangling}
    BY <1>3, <2>2, <2>3 DEF Where, Cut
  <2>6. NotFreed
    <3> SUFFICES ASSUME m_currNode > Doc, ~path.abs,
                        \A i \in DOMAIN path.steps : path.steps[i].name # ".."
                 PROVE  m_currNode' # Dangling
      BY <1>5 DEF NotFreed
    <3>1. m_currNode \notin Below(T, n)
      BY <1>1, <1>2, <1>4, DownFrom
    <3>2. m_currNode # Dangling /\ Null # Dangling
      BY DEF Dangling, Doc, Null
    <3> QED
      BY <2>3, <3>1, <3>2 DEF Cut
  <2> QED
    BY <2>2, <2>3, <2>5, <2>6, BecomesTree
<1> QED
  BY <1>6, <1>7

------------------------------------------------------------------------------
(* The theorems.                                                              *)

\* The documents to begin with are trees.
LEMMA InitIs == Init => TreeInv
<1> SUFFICES ASSUME Init PROVE TreeInv
  OBVIOUS
<1>1. IsTree(tree) /\ m_doc \in BOOLEAN /\ (~m_doc => tree = Blank)
  BY BlankIsTree, NewDocumentIsTree, DocumentsAssumption DEF Init
<1>2. m_currNode = Null
  BY DEF Init
<1> QED
  BY <1>1, <1>2 DEF TreeInv, Where

\* Every operation leaves a tree, and only Parse, a path from the root or ".." frees the node.
LEMMA StepIs == TreeInv /\ [Next]_xmlVars => TreeInv' /\ (NotFreed \/ Parse)
<1> SUFFICES ASSUME TreeInv, [Next]_xmlVars PROVE TreeInv' /\ (NotFreed \/ Parse)
  OBVIOUS
<1>1. CASE Next
  BY <1>1, GotoStep, FirstChildStep, SiblingStep, AddNodeStep, SimpleAddNodeStep,
     AddValueStep, SimpleAddValueStep, UpdateStep, NullStep, EraseStep, ParseStep DEF Next
<1>2. CASE UNCHANGED xmlVars
  <2>1. UNCHANGED <<m_doc, tree, m_currNode>>
    BY <1>2 DEF xmlVars
  <2>2. IsTree(tree)
    BY DEF TreeInv
  <2>3. TreeInv'
    BY <2>1 DEF TreeInv
  <2> QED
    BY <2>1, <2>2, <2>3, Takes
<1> QED
  BY <1>1, <1>2

\* The document is a tree after every call, whatever was erased or read anew,
\* and the current node is in it unless it was freed.
THEOREM TreeHolds == Spec => []TreeInv
<1>1. Init => TreeInv
  BY InitIs
<1>2. TreeInv /\ [Next]_xmlVars => TreeInv'
  BY StepIs
<1> QED
  BY <1>1, <1>2, PTL DEF Spec

\* The loop with Goto and Next visits the elements of a name once each, in the
\* order of their indexes, in every document the operations can make.
THEOREM LoopMeetsIndexHolds == Spec => []LoopMeetsIndex
<1>1. TreeInv => LoopMeetsIndex
  <2> SUFFICES ASSUME TreeInv PROVE LoopMeetsIndex
    OBVIOUS
  <2>1. IsTree(tree)
    BY DEF TreeInv
  <2> QED
    BY <2>1, LoopIs DEF LoopMeetsIndex
<1> QED
  BY <1>1, TreeHolds, PTL

\* A current node is never freed by a call that only goes down from it.
THEOREM DownwardIsSoundHolds == Spec => DownwardIsSound
<1>1. TreeInv /\ [Next]_xmlVars =>
          [m_currNode' = Dangling /\ m_currNode > Doc /\ ~Parse =>
              last'.path.abs
                  \/ \E i \in DOMAIN last'.path.steps : last'.path.steps[i].name = ".."]_xmlVars
  BY StepIs DEF NotFreed
<1> QED
  BY <1>1, TreeHolds, PTL DEF Spec, DownwardIsSound

\* Which calls are noted.
LEMMA NotedIs ==
    ASSUME Next
    PROVE  /\ last'.op = "AddNode" => AddNode
           /\ last'.op = "UpdateValue" => UpdateValue
<1>1. "AddNode" # "UpdateValue" /\ "AddNode" # "EraseValue" /\ "UpdateValue" # "EraseValue"
  OBVIOUS
<1>2. Goto \/ GotoFirstChild \/ SimpleAddNode \/ AddValue \/ SimpleAddValue \/ Parse => last' = NoCall
  BY DEF Goto, GotoFirstChild, SimpleAddNode, AddValue, SimpleAddValue, Parse
<1>3. NextSibling \/ UpdateNull \/ EraseNull => last' = NoCall
  BY DEF NextSibling, Next_, UpdateNull, EraseNull, FollowsNull
<1>4. AddNode => last'.op = "AddNode"
  <2>1. AddNode => \E path : Noted("AddNode", path, Empty)
    BY DEF AddNode
  <2> QED
    BY <2>1, Ends
<1>5. EraseValue => last'.op = "EraseValue"
  <2>1. EraseValue => \E path : Noted("EraseValue", path, Empty)
    BY DEF EraseValue
  <2> QED
    BY <2>1, Ends
<1>6. UpdateValue => last'.op # "AddNode"
  <2>1. UpdateValue => \/ last' = NoCall
                       \/ \E path, val : last' = [op |-> "UpdateValue", path |-> path, val |-> val]
    BY DEF UpdateValue, Noted
  <2> QED
    BY <1>1, <2>1, Ends
<1> QED
  BY <1>1, <1>2, <1>3, <1>4, <1>5, <1>6, Ends DEF Next

\* The path of an AddNode is found after it.
LEMMA AddedStep == ASSUME TreeInv, AddNode PROVE AddedIsFound'
<1>1. PICK path \in Paths :
          /\ Usable(path)
          /\ Becomes(_create_mult_node(TheTree, path).tree)
          /\ m_currNode' = _create_mult_node(TheTree, path).node
          /\ Noted("AddNode", path, Empty)
  BY DEF AddNode
<1>2. last'.path = path
  BY <1>1, Ends
<1>3. PICK T, steps : T = TheTree /\ steps = path.steps
  OBVIOUS
<1>4. ASSUME path.abs, Plain(path)
      PROVE  /\ Walk(tree', Null, steps) = [found |-> TRUE, node |-> m_currNode']
             /\ MakeWay(tree', Null, steps) = [tree |-> tree', node |-> m_currNode']
  <2>1. /\ IsTree(T) /\ Null \in Where(T) /\ Start(path) = Null
        /\ steps \in Seq(Steps) /\ Down(steps)
    BY <1>3, <1>4, TheTreeIs, PathIs DEF Where, Start
  <2>2. PICK R, m : /\ MakeWay(T, Null, steps) = At(R, m)
                    /\ IsTree(R) /\ Extends(T, R) /\ m \in Where(R)
                    /\ Walk(R, Null, steps) = [found |-> TRUE, node |-> m]
                    /\ MakeWay(R, Null, steps) = At(R, m)
    BY <2>1, MadeIsFound
  <2>3. _create_mult_node(TheTree, path) = At(R, m)
    BY <1>3, <2>1, <2>2 DEF _create_mult_node
  <2>4. At(R, m).tree = R /\ At(R, m).node = m
    BY DEF At
  <2>5. tree' = R /\ m_currNode' = m
    BY <1>1, <2>3, <2>4 DEF Becomes
  <2> QED
    BY <2>2, <2>5 DEF At
<1>5. SUFFICES ASSUME path.abs, Plain(path)
               PROVE  /\ Walk(tree', Null, steps) = [found |-> TRUE, node |-> m_currNode']
                      /\ MakeWay(tree', Null, steps) = [tree |-> tree', node |-> m_currNode']
  BY <1>2, <1>3 DEF AddedIsFound, _goto, _create_mult_node, Start, Plain
<1> QED
  BY <1>4, <1>5

\* The value of an UpdateValue is read after it.
LEMMA UpdatedStep == ASSUME TreeInv, UpdateValue PROVE UpdatedIsRead'
<1>1. PICK path \in Paths, val \in Values :
          /\ Usable(path)
          /\ LET to == _goto(TheTree, path) IN
                 IF to.found
                 THEN /\ to.node # Null
                      /\ Becomes(LinkText(Clear(TheTree, to.node), to.node, val))
                      /\ m_currNode' = Cut(Below(TheTree, to.node))
                      /\ Noted("UpdateValue", path, val)
                 ELSE /\ Becomes(Added(path, val))
                      /\ last' = IF _create_mult_node(TheTree, path).node = Null THEN NoCall
                                 ELSE [op |-> "UpdateValue", path |-> path, val |-> val]
                      /\ m_currNode' = m_currNode
  BY DEF UpdateValue
<1>2. PICK T, to, steps, from :
          T = TheTree /\ to = _goto(TheTree, path) /\ steps = path.steps /\ from = Start(path)
  OBVIOUS
<1>3. /\ IsTree(T) /\ to \in Finds(T) /\ val \in STRING
      /\ from \in Where(T) /\ steps \in Seq(Steps) /\ to = Walk(T, from, steps)
  BY <1>1, <1>2, TheTreeIs, GotoIs, PathIs, NamesAssumption DEF _goto
<1>4. SUFFICES ASSUME last'.op = "UpdateValue", Plain(last'.path),
                      last'.path.abs \/ m_currNode' # Dangling
               PROVE  LET at == Walk(tree', IF last'.path.abs THEN Null ELSE m_currNode',
                                     last'.path.steps)
                      IN  at.found /\ TextOf(tree', at.node) = last'.val
                              /\ Len(tree'[at.node].kids) = 1
  BY DEF UpdatedIsRead, _goto, Start, Plain
<1>5. last'.path = path /\ last'.val = val
  <2>1. Noted("UpdateValue", path, val) => last'.path = path /\ last'.val = val
    BY Ends
  <2>2. last' = [op |-> "UpdateValue", path |-> path, val |-> val]
            => last'.path = path /\ last'.val = val
    OBVIOUS
  <2>3. last' # NoCall
    BY <1>4, Ends
  <2> QED
    BY <1>1, <2>1, <2>2, <2>3
<1>6. Down(steps) /\ NoUp(steps)
  BY <1>2, <1>4, <1>5, PathIs
<1>7. ASSUME NEW n, Walk(tree', from, steps) = [found |-> TRUE, node |-> n],
             TextOf(tree', n) = val, Len(tree'[n].kids) = 1,
             from = IF path.abs THEN Null ELSE m_currNode'
      PROVE  LET at == Walk(tree', IF last'.path.abs THEN Null ELSE m_currNode', last'.path.steps)
             IN  at.found /\ TextOf(tree', at.node) = last'.val /\ Len(tree'[at.node].kids) = 1
  <2>1. PICK at : at = Walk(tree', from, steps)
    OBVIOUS
  <2>2. at.found /\ at.node = n
    BY <1>7, <2>1
  <2>3. Walk(tree', IF last'.path.abs THEN Null ELSE m_currNode', last'.path.steps) = at
    BY <1>2, <1>5, <1>7, <2>1
  <2> QED
    BY <1>5, <1>7, <2>2, <2>3
<1>8. CASE to.found
  <2>1. PICK n : n = to.node /\ n # Null /\ n \in Where(T) /\ to = [found |-> TRUE, node |-> n]
    BY <1>1, <1>2, <1>3, <1>8 DEF Finds
  <2>2. n \in DOMAIN T
    BY <2>1 DEF Where
  <2>3. PICK U : U = LinkText(Clear(T, n), n, val)
    OBVIOUS
  <2>4. tree' = U /\ m_currNode' = Cut(Below(T, n))
    BY <1>1, <1>2, <1>8, <2>1, <2>3 DEF Becomes
  <2>5. /\ Walk(U, from, steps) = [found |-> TRUE, node |-> n]
        /\ TextOf(U, n) = val /\ Len(U[n].kids) = 1
    <3>1. Reaches(T, from, steps, n)
      BY <1>3, <2>1 DEF Reaches
    <3>2. NoUp(steps) /\ IsTree(T) /\ from \in Where(T) /\ steps \in Seq(Steps) /\ val \in STRING
      BY <1>3, <1>6
    <3>3. LET V == LinkText(Clear(T, n), n, val) IN
          /\ Reaches(V, from, steps, n)
          /\ TextOf(V, n) = val /\ Len(V[n].kids) = 1
      BY <2>2, <3>1, <3>2, UpdateFound
    <3> QED
      BY <2>3, <3>3 DEF Reaches
  <2>6. from = IF path.abs THEN Null ELSE m_currNode'
    BY <1>2, <1>4, <1>5, <2>4 DEF Start, Cut
  <2> QED
    BY <1>7, <2>4, <2>5, <2>6
<1>9. CASE ~to.found
  <2>1. PICK R, m : _create_mult_node(TheTree, path) = At(R, m)
    BY <1>1, MadeTree
  <2>2. At(R, m).tree = R /\ At(R, m).node = m
    BY DEF At
  <2>3. MakeWay(T, from, steps) = At(R, m)
    BY <1>2, <2>1 DEF _create_mult_node
  <2>4. m # Null
    BY <1>1, <1>2, <1>4, <1>9, <2>1, <2>2, Ends
  <2>5. PICK U : U = LinkText(R, m, val)
    OBVIOUS
  <2>6. tree' = U /\ m_currNode' = m_currNode
    BY <1>1, <1>2, <1>9, <2>1, <2>2, <2>4, <2>5 DEF Becomes, Added
  <2>7. /\ Walk(U, from, steps) = [found |-> TRUE, node |-> m]
        /\ TextOf(U, m) = val /\ Len(U[m].kids) = 1
    BY <1>3, <1>6, <1>9, <2>3, <2>5, UpdateMade
  <2>8. from = IF path.abs THEN Null ELSE m_currNode'
    BY <1>2, <2>6 DEF Start
  <2> QED
    BY <1>7, <2>6, <2>7, <2>8
<1> QED
  BY <1>8, <1>9

\* A path given to AddNode leads to the node that was made or found there, and
\* adds nothing when it is given again, for every document and path from the root.
THEOREM AddedIsFoundHolds == Spec => []AddedIsFound
<1>1. Init => AddedIsFound
  BY Ends DEF Init, AddedIsFound
<1>2. TreeInv /\ AddedIsFound /\ [Next]_xmlVars => AddedIsFound'
  <2> SUFFICES ASSUME TreeInv, AddedIsFound, [Next]_xmlVars PROVE AddedIsFound'
    OBVIOUS
  <2>1. CASE Next
    <3>1. CASE AddNode
      BY <3>1, AddedStep
    <3>2. CASE ~AddNode
      <4>1. last'.op # "AddNode"
        BY <2>1, <3>2, NotedIs
      <4> QED
        BY <4>1 DEF AddedIsFound
    <3> QED
      BY <3>1, <3>2
  <2>2. CASE UNCHANGED xmlVars
    BY <2>2 DEF xmlVars, AddedIsFound, _goto, _create_mult_node, Start, Plain
  <2> QED
    BY <2>1, <2>2
<1> QED
  BY <1>1, <1>2, TreeHolds, PTL DEF Spec

\* What was given to UpdateValue is the one text that is read at its path.
THEOREM UpdatedIsReadHolds == Spec => []UpdatedIsRead
<1>1. Init => UpdatedIsRead
  BY Ends DEF Init, UpdatedIsRead
<1>2. TreeInv /\ UpdatedIsRead /\ [Next]_xmlVars => UpdatedIsRead'
  <2> SUFFICES ASSUME TreeInv, UpdatedIsRead, [Next]_xmlVars PROVE UpdatedIsRead'
    OBVIOUS
  <2>1. CASE Next
    <3>1. CASE UpdateValue
      BY <3>1, UpdatedStep
    <3>2. CASE ~UpdateValue
      <4>1. last'.op # "UpdateValue"
        BY <2>1, <3>2, NotedIs
      <4> QED
        BY <4>1 DEF UpdatedIsRead
    <3> QED
      BY <3>1, <3>2
  <2>2. CASE UNCHANGED xmlVars
    BY <2>2 DEF xmlVars, UpdatedIsRead, _goto, Start, Plain
  <2> QED
    BY <2>1, <2>2
<1> QED
  BY <1>1, <1>2, TreeHolds, PTL DEF Spec
=============================================================================

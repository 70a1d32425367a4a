------------------------------ MODULE DataFacts ------------------------------
(***************************************************************************)
(* What the proofs about lists, memory maps and loops have in common:      *)
(* least and greatest numbers, induction over a set, that a function       *)
(* defined from its value one place before exists, and a list with one     *)
(* element replaced or put in.                                             *)
(***************************************************************************)
EXTENDS Integers, Sequences, FiniteSetTheorems, TLAPS

\* A set of natural numbers has a least element.
LEMMA Least ==
  ASSUME NEW S, S \subseteq Nat, S # {}
  PROVE  \E m \in S : \A k \in S : m <= k
<1> DEFINE Below == {0 .. m : m \in S}
           Order == StrictSubsetOrdering(Nat)
<1>1. IsWellFoundedOn(Order, FiniteSubsetsOf(Nat))
  BY FS_StrictSubsetOrderingWellFounded
<1>2. Below \subseteq FiniteSubsetsOf(Nat)
  <2>1. ASSUME NEW m \in S PROVE 0 .. m \in FiniteSubsetsOf(Nat)
    <3>1. m \in Int /\ 0 \in Int /\ 0 .. m \in SUBSET Nat
      OBVIOUS
    <3>2. IsFiniteSet(0 .. m)
      BY <3>1, FS_Interval
    <3> QED BY <3>1, <3>2 DEF FiniteSubsetsOf
  <2> QED BY <2>1
<1>3. PICK least \in Below : \A other \in Below : <<other, least>> \notin Order
  <2>1. Below # {}
    OBVIOUS
  <2> HIDE DEF Order, Below
  <2> QED BY <1>1, <1>2, <2>1, WFMin
<1>4. PICK m \in S : least = 0 .. m
  OBVIOUS
<1>5. ASSUME NEW k \in S, k < m PROVE FALSE
  <2>1. 0 .. k \in SUBSET Nat /\ 0 .. m \in SUBSET Nat /\ 0 .. k \subseteq 0 .. m
    BY <1>5
  <2>2. m \in 0 .. m /\ m \notin 0 .. k
    BY <1>5
  <2>3. <<0 .. k, 0 .. m>> \in Order
    BY <2>1, <2>2 DEF StrictSubsetOrdering
  <2> QED BY <1>3, <1>4, <2>3
<1>6. m \in Nat /\ \A k \in S : k \in Nat
  OBVIOUS
<1> QED BY <1>5, <1>6

\* And one with a bound a greatest.
LEMMA Greatest ==
  ASSUME NEW n \in Nat, NEW S, S \subseteq 0 .. n, S # {}
  PROVE  \E m \in S : \A k \in S : k <= m
<1> DEFINE Distances == {n - k : k \in S}
<1>1. PICK d \in Distances : \A e \in Distances : d <= e
  <2>1. Distances \subseteq Nat /\ Distances # {}
    OBVIOUS
  <2> HIDE DEF Distances
  <2> QED BY <2>1, Least
<1>2. PICK m \in S : d = n - m
  OBVIOUS
<1>3. ASSUME NEW k \in S PROVE k <= m
  <2>1. n - m <= n - k
    BY <1>1, <1>2
  <2>2. m \in Nat /\ k \in Nat
    OBVIOUS
  <2> QED BY <2>1, <2>2
<1> QED BY <1>3

\* Induction: a set that has 0 and the successor of each of its members has every
\* natural number.
LEMMA Induction ==
  ASSUME NEW P, 0 \in P, \A n \in Nat : n \in P => n + 1 \in P
  PROVE  Nat \subseteq P
<1> SUFFICES ASSUME Nat \ P # {} PROVE FALSE
  OBVIOUS
<1>1. PICK m \in Nat \ P : \A k \in Nat \ P : m <= k
  <2>1. Nat \ P \subseteq Nat
    OBVIOUS
  <2> QED BY <2>1, Least
<1>2. m # 0 /\ m - 1 \in Nat /\ ~ (m <= m - 1) /\ m - 1 + 1 = m
  OBVIOUS
<1>3. m - 1 \in P
  BY <1>1, <1>2
<1> QED BY <1>2, <1>3

\* Induction up to a bound.
LEMMA InductionUpTo ==
  ASSUME NEW m \in Nat, NEW P, 0 \in P, \A n \in 0 .. m - 1 : n \in P => n + 1 \in P
  PROVE  0 .. m \subseteq P
<1> DEFINE Q == {n \in Nat : n <= m => n \in P}
<1>1. 0 \in Q
  OBVIOUS
<1>2. ASSUME NEW n \in Nat, n \in Q PROVE n + 1 \in Q
  <2>1. CASE n + 1 <= m
    <3>1. n \in 0 .. m - 1 /\ n <= m
      BY <2>1
    <3>2. n + 1 \in P
      BY <1>2, <3>1
    <3> QED BY <3>2
  <2>2. CASE ~ (n + 1 <= m)
    BY <2>2
  <2> QED BY <2>1, <2>2
<1>3. Nat \subseteq Q
  <2> HIDE DEF Q
  <2> QED BY <1>1, <1>2, Induction
<1> QED BY <1>3

\* A function with a given value at 0 whose value at every other place up to m
\* is found from the one before.
Recurs(f, m, S, a, g) ==
  /\ f \in [0 .. m -> S] /\ f[0] = a
  /\ \A n \in 1 .. m : f[n] = g[n][f[n - 1]]

\* There is such a function.
LEMMA Recursion ==
  ASSUME NEW m \in Nat, NEW S, NEW a \in S, NEW g \in [1 .. m -> [S -> S]]
  PROVE  \E f : Recurs(f, m, S, a, g)
<1> DEFINE Upto(f, n) == f[0] = a /\ \A k \in 1 .. n : f[k] = g[k][f[k - 1]]
           P == {n \in Nat : \E f \in [0 .. n -> S] : Upto(f, n)}
<1>1. 0 \in P
  <2>1. [n \in 0 .. 0 |-> a] \in [0 .. 0 -> S] /\ [n \in 0 .. 0 |-> a][0] = a
    OBVIOUS
  <2>2. \A k \in 1 .. 0 : FALSE
    OBVIOUS
  <2> QED BY <2>1, <2>2
<1>2. ASSUME NEW n \in 0 .. m - 1, n \in P PROVE n + 1 \in P
  <2>1. PICK f \in [0 .. n -> S] : Upto(f, n)
    BY <1>2
  <2> DEFINE h == [k \in 0 .. n + 1 |-> IF k = n + 1 THEN g[n + 1][f[n]] ELSE f[k]]
  <2>2. n + 1 \in 1 .. m /\ n \in 0 .. n
    OBVIOUS
  <2>3. f[n] \in S
    BY <2>1, <2>2
  <2>4. g[n + 1][f[n]] \in S
    BY <2>2, <2>3
  <2>5. h \in [0 .. n + 1 -> S]
    <3>1. ASSUME NEW k \in 0 .. n + 1 PROVE h[k] \in S
      <4>1. CASE k = n + 1
        BY <4>1, <2>4
      <4>2. CASE k # n + 1
        <5>1. k \in 0 .. n
          BY <4>2
        <5> QED BY <4>2, <5>1, <2>1
      <4> QED BY <4>1, <4>2
    <3> QED BY <3>1
  <2>6. h[0] = a
    BY <2>1
  <2>7. ASSUME NEW k \in 1 .. n + 1 PROVE h[k] = g[k][h[k - 1]]
    <3>1. k - 1 \in 0 .. n + 1 /\ k - 1 # n + 1 /\ k \in 0 .. n + 1
      OBVIOUS
    <3>2. h[k - 1] = f[k - 1]
      BY <3>1
    <3>3. CASE k = n + 1
      <4>1. k - 1 = n
        BY <3>3
      <4> QED BY <3>1, <3>2, <3>3, <4>1
    <3>4. CASE k # n + 1
      <4>1. k \in 1 .. n
        BY <3>4
      <4> QED BY <3>1, <3>2, <3>4, <4>1, <2>1
    <3> QED BY <3>3, <3>4
  <2>8. n + 1 \in Nat
    OBVIOUS
  <2> HIDE DEF h
  <2> QED BY <2>5, <2>6, <2>7, <2>8
<1>3. m \in P
  <2> HIDE DEF P
  <2>1. 0 .. m \subseteq P
    BY <1>1, <1>2, InductionUpTo
  <2> QED BY <2>1
<1>4. \E f \in [0 .. m -> S] : Upto(f, m)
  BY <1>3
<1> QED BY <1>4 DEF Recurs

-----------------------------------------------------------------------------
\* A list with element i replaced.
LEMMA Replaced ==
  ASSUME NEW C, NEW s \in Seq(C), NEW i \in 1 .. Len(s), NEW e \in C
  PROVE  LET t == [s EXCEPT ![i] = e]
         IN  /\ t \in Seq(C) /\ Len(t) = Len(s)
             /\ \A j \in 1 .. Len(s) : t[j] = IF j = i THEN e ELSE s[j]
<1> DEFINE t == [s EXCEPT ![i] = e]
<1>1. PICK n \in Nat : n = Len(s)
  OBVIOUS
<1>2. DOMAIN s = 1 .. n /\ \A j \in 1 .. n : s[j] \in C
  BY <1>1
<1>3. DOMAIN t = 1 .. n /\ \A j \in 1 .. n : t[j] = IF j = i THEN e ELSE s[j]
  BY <1>1, <1>2
<1>4. \A j \in 1 .. n : t[j] \in C
  BY <1>2, <1>3
<1>5. t = [j \in 1 .. n |-> t[j]]
  BY <1>3
<1> HIDE DEF t
<1>6. t \in Seq(C) /\ Len(t) = n
  BY <1>3, <1>4, <1>5
<1> QED BY <1>1, <1>3, <1>6 DEF t

\* A list with one more element.
LEMMA Appended ==
  ASSUME NEW C, NEW s \in Seq(C), NEW e \in C
  PROVE  /\ Append(s, e) \in Seq(C) /\ Len(Append(s, e)) = Len(s) + 1
         /\ \A j \in 1 .. Len(s) : Append(s, e)[j] = s[j]
         /\ Append(s, e)[Len(s) + 1] = e
OBVIOUS

\* One list after another.
LEMMA Concatenated ==
  ASSUME NEW C, NEW s \in Seq(C), NEW t \in Seq(C), NEW k \in Nat, k = Len(s)
  PROVE  /\ s \o t \in Seq(C) /\ Len(s \o t) = k + Len(t)
         /\ \A j \in 1 .. k : (s \o t)[j] = s[j]
         /\ \A j \in 1 .. Len(t) : (s \o t)[k + j] = t[j]
OBVIOUS

\* A list without its last element.
LEMMA Shortened ==
  ASSUME NEW n \in Nat, NEW f, f = [k \in 1 .. n + 1 |-> f[k]],
         NEW g, g = [k \in 1 .. n |-> g[k]], \A k \in 1 .. n : g[k] = f[k]
  PROVE  f # <<>> /\ g = SubSeq(f, 1, Len(f) - 1)
<1> DEFINE C == {f[k] : k \in 1 .. n + 1}
<1>1. f \in Seq(C) /\ Len(f) = n + 1 /\ f # <<>>
  OBVIOUS
<1>2. PICK h : h = SubSeq(f, 1, n)
  OBVIOUS
<1>3. \A k \in 1 .. n : f[k] \in C
  OBVIOUS
<1>4. h \in Seq(C) /\ Len(h) = n /\ \A k \in 1 .. n : h[k] = f[k]
  <2> HIDE DEF C
  <2>1. /\ SubSeq(f, 1, n) \in Seq(C) /\ Len(SubSeq(f, 1, n)) = n
        /\ \A k \in 1 .. n : SubSeq(f, 1, n)[k] = f[k]
    BY <1>3, SMTT(60)
  <2> QED BY <1>2, <2>1, Zenon
<1>5. h = [k \in 1 .. n |-> h[k]]
  BY <1>4
<1>6. Len(f) - 1 = n
  BY <1>1
<1>7. h = g
  <2> HIDE DEF C
  <2>1. \A k \in 1 .. n : h[k] = g[k]
    BY <1>4
  <2> QED BY <1>5, <2>1
<1> QED BY <1>1, <1>2, <1>6, <1>7, Zenon

\* And without its first.
LEMMA Beheaded ==
  ASSUME NEW n \in Nat \ {0}, NEW f, f = [k \in 1 .. n |-> f[k]],
         NEW g, g = [k \in 1 .. n - 1 |-> g[k]], \A k \in 1 .. n - 1 : g[k] = f[k + 1]
  PROVE  f # <<>> /\ g = Tail(f)
<1> DEFINE C == {f[k] : k \in 1 .. n}
<1>1. f \in Seq(C) /\ Len(f) = n /\ f # <<>>
  OBVIOUS
<1>2. PICK h : h = Tail(f)
  OBVIOUS
<1>3. h \in Seq(C) /\ Len(h) = n - 1 /\ \A k \in 1 .. n - 1 : h[k] = f[k + 1]
  <2> HIDE DEF C
  <2> QED BY <1>1, <1>2
<1>4. h = [k \in 1 .. n - 1 |-> h[k]]
  BY <1>3
<1>5. h = g
  <2> HIDE DEF C
  <2>1. \A k \in 1 .. n - 1 : h[k] = g[k]
    BY <1>3
  <2> QED BY <1>4, <2>1
<1> QED BY <1>1, <1>2, <1>5, Zenon

\* A function on 1 .. n is a list.
LEMMA Listed ==
  ASSUME NEW C, NEW n \in Nat, NEW f, f = [k \in 1 .. n |-> f[k]], \A k \in 1 .. n : f[k] \in C
  PROVE  f \in Seq(C) /\ Len(f) = n
OBVIOUS

IsList(f, n) == f = [k \in 1 .. n |-> f[k]]

\* f and behind it g.
LEMMA Joined ==
  ASSUME NEW a \in Nat, NEW b \in Nat,
         NEW f, IsList(f, a), NEW g, IsList(g, b), NEW h, IsList(h, a + b),
         \A k \in 1 .. a : h[k] = f[k], \A k \in 1 .. b : h[a + k] = g[k]
  PROVE  h = f \o g
<1> DEFINE C == {f[k] : k \in 1 .. a} \cup {g[k] : k \in 1 .. b}
<1>1. (\A k \in 1 .. a : f[k] \in C) /\ (\A k \in 1 .. b : g[k] \in C)
  OBVIOUS
<1> HIDE DEF C
<1>2. /\ f \in Seq(C) /\ Len(f) = a
      /\ g \in Seq(C) /\ Len(g) = b
  BY <1>1, Listed DEF IsList
<1>3. PICK j : j = f \o g
  OBVIOUS
<1>4. /\ j \in Seq(C) /\ Len(j) = a + b
      /\ \A k \in 1 .. a : j[k] = f[k]
      /\ \A k \in 1 .. b : j[a + k] = g[k]
  <2>1. /\ f \o g \in Seq(C) /\ Len(f \o g) = a + Len(g)
        /\ \A k \in 1 .. a : (f \o g)[k] = f[k]
        /\ \A k \in 1 .. Len(g) : (f \o g)[a + k] = g[k]
    BY <1>2
  <2> QED BY <1>2, <1>3, <2>1, Zenon
<1>5. j = [k \in 1 .. a + b |-> j[k]]
  BY <1>4
<1>6. ASSUME NEW k \in 1 .. a + b PROVE j[k] = h[k]
  <2>1. CASE k <= a
    <3>1. k \in 1 .. a
      BY <2>1
    <3> QED BY <1>4, <3>1
  <2>2. CASE ~ (k <= a)
    <3>1. k - a \in 1 .. b /\ a + (k - a) = k
      BY <2>2
    <3>2. j[a + (k - a)] = g[k - a] /\ h[a + (k - a)] = g[k - a]
      BY <1>4, <3>1
    <3> QED BY <3>1, <3>2
  <2> QED BY <2>1, <2>2
<1> QED BY <1>3, <1>5, <1>6 DEF IsList

\* g is the part of the list l of n elements from a to b.
IsPart(g, m, l, n, a, b) ==
  /\ m \in Nat /\ IsList(g, m)
  /\ n \in Nat /\ IsList(l, n)
  /\ a \in Nat \ {0} /\ b \in Nat /\ b <= n /\ m = b - a + 1
  /\ \A i \in 1 .. m : g[i] = l[a + i - 1]

\* A part of a list, and two lists joined, are what their elements say.
LEMMA Part ==
  ASSUME NEW g, NEW m, NEW l, NEW n, NEW a, NEW b, IsPart(g, m, l, n, a, b)
  PROVE  SubSeq(l, a, b) = g
<1> USE DEF IsPart
<1> DEFINE C == {l[k] : k \in 1 .. n}
<1>1. \A k \in 1 .. n : l[k] \in C
  OBVIOUS
<1> HIDE DEF C
<1>2. l \in Seq(C) /\ Len(l) = n
  BY <1>1, Listed DEF IsList
<1>3. PICK j : j = SubSeq(l, a, b)
  OBVIOUS
<1>6. \A i \in 1 .. m : a + i - 1 \in 1 .. n
  OBVIOUS
<1>7. j = [i \in 1 .. m |-> l[a + i - 1]]
  BY <1>2, <1>3, <1>6
<1>8. j = [i \in 1 .. m |-> j[i]]
  BY <1>7
<1>9. \A i \in 1 .. m : j[i] = g[i]
  BY <1>7
<1>10. g = [i \in 1 .. m |-> g[i]]
  BY DEF IsList
<1> QED BY <1>3, <1>8, <1>9, <1>10

\* h is f and behind it g.
IsJoin(h, f, p, g, q) ==
  /\ p \in Nat /\ q \in Nat /\ IsList(f, p) /\ IsList(g, q) /\ IsList(h, p + q)
  /\ \A i \in 1 .. p : h[i] = f[i]
  /\ \A i \in 1 .. q : h[p + i] = g[i]

LEMMA Join ==
  ASSUME NEW h, NEW f, NEW p, NEW g, NEW q, IsJoin(h, f, p, g, q)
  PROVE  h = f \o g
BY Joined DEF IsJoin

\* k is the list l of n elements and behind them e.
Grown(k, l, n, e) ==
  IsList(k, n + 1) /\ (\A i \in 1 .. n : k[i] = l[i]) /\ k[n + 1] = e

LEMMA AppendPutsLast ==
  ASSUME NEW l, NEW n \in Nat, IsList(l, n), NEW e, NEW k, k = Append(l, e)
  PROVE  Grown(k, l, n, e)
<1> DEFINE C == {l[i] : i \in 1 .. n} \cup {e}
<1>1. l \in Seq(C) /\ Len(l) = n /\ e \in C
  <2>1. \A i \in 1 .. n : l[i] \in C
    OBVIOUS
  <2>2. e \in C
    OBVIOUS
  <2> HIDE DEF C
  <2> QED BY <2>1, <2>2, Listed DEF IsList
<1> HIDE DEF C
<1>2. /\ k \in Seq(C) /\ Len(k) = n + 1
      /\ \A j \in 1 .. n : k[j] = l[j]
      /\ k[n + 1] = e
  BY <1>1, Appended
<1>3. IsList(k, n + 1)
  BY <1>2 DEF IsList
<1> QED BY <1>2, <1>3 DEF Grown

\* A list is its elements but the last, and behind them that.
LEMMA Lengthened ==
  ASSUME NEW n \in Nat, NEW f, IsList(f, n + 1), NEW g, IsList(g, n),
         \A k \in 1 .. n : g[k] = f[k]
  PROVE  f = Append(g, f[n + 1])
<1>1. PICK e, h : e = f[n + 1] /\ h = Append(g, e)
  OBVIOUS
<1>2. Grown(h, g, n, e)
  BY <1>1, AppendPutsLast
<1>3. ASSUME NEW k \in 1 .. n + 1 PROVE h[k] = f[k]
  <2>1. CASE k = n + 1
    BY <1>1, <1>2, <2>1 DEF Grown
  <2>2. CASE k # n + 1
    <3>1. k \in 1 .. n
      BY <2>2
    <3> QED BY <1>2, <3>1 DEF Grown
  <2> QED BY <2>1, <2>2
<1>4. h = f
  BY <1>2, <1>3 DEF Grown, IsList
<1> QED BY <1>1, <1>4

=============================================================================

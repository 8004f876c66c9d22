------------------------------ MODULE Recursion ------------------------------
(***************************************************************************)
(* Folds and recursive functions in general: Op is what a fold does with   *)
(* the next element, or the body of a recursive function at an argument,   *)
(* and k a parameter of it.  To use a fact, instantiate the module.        *)
(***************************************************************************)
EXTENDS Integers, Sequences, SequencesExt, SequenceTheorems, WellFoundedInduction, TLAPS

CONSTANT Op(_, _, _)

-----------------------------------------------------------------------------
(* Folds.                                                                  *)

\* A set of natural numbers has a least member.
LEMMA LeastOf ==
  ASSUME NEW S, S \subseteq Nat, S # {}
  PROVE  \E a \in S : \A b \in S : a <= b
<1>1. \E a \in S : \A b \in S : ~(<<b, a>> \in OpToRel(<, Nat))
  BY WFMin, NatLessThanWellFounded, Zenon
<1>2. \A a, b \in S : ~(<<b, a>> \in OpToRel(<, Nat)) => ~(b < a)
  BY DEF OpToRel
<1>3. \A a, b \in S : ~(b < a) => a <= b
  OBVIOUS
<1>. QED BY <1>1, <1>2, <1>3

\* A set of numbers with an upper bound has a greatest member.
LEMMA GreatestOf ==
  ASSUME NEW m \in Nat, NEW u \in SUBSET (1 .. m), u # {}
  PROVE  Max(u) \in u /\ \A y \in u : Max(u) >= y
<1>. DEFINE S == {m - y : y \in u}
<1>0. \A y \in u : y \in 1 .. m
  OBVIOUS
<1>1. S \subseteq Nat /\ S # {}
  <2>1. \A y \in 1 .. m : m - y \in Nat
    OBVIOUS
  <2>2. S \subseteq Nat
    BY <1>0, <2>1
  <2>. QED BY <2>2
<1>2. PICK a \in S : \A b \in S : a <= b
  BY <1>1, LeastOf
<1>3. PICK x \in u : a = m - x
  BY <1>2
<1>4. \A y \in u : x >= y
  BY <1>0, <1>2, <1>3
<1>. QED BY <1>3, <1>4 DEF Max

\* FoldLeft's table for the characters up to number m.
Table(k, t, s, m, f) ==
  f = [u \in SUBSET (1 .. m) |->
         IF u = {} THEN t ELSE Op(k, f[u \ {Max(u)}], s[Max(u)])]

\* It exists, for there is no least m for which it does not.
LEMMA TableExists == \A k, t, s : \A m \in Nat : \E f : Table(k, t, s, m, f)
<1>. SUFFICES ASSUME NEW k, NEW t, NEW s PROVE \A m \in Nat : \E f : Table(k, t, s, m, f)
  OBVIOUS
<1>. DEFINE Bad == {m \in Nat : ~\E f : Table(k, t, s, m, f)}
<1>1. SUFFICES ASSUME Bad # {} PROVE FALSE
  OBVIOUS
<1>2. PICK m \in Bad : \A b \in Bad : m <= b
  BY <1>1, LeastOf
<1>3. m # 0
  <2>1. Table(k, t, s, 0, [u \in SUBSET (1 .. 0) |-> t])
    BY DEF Table
  <2>. QED BY <2>1
<1>4. PICK f : Table(k, t, s, m - 1, f)
  <2>1. m - 1 \in Nat /\ ~(m <= m - 1)
    BY <1>3
  <2>. QED BY <1>2, <2>1
<1>. DEFINE Step(h, u) == IF u = {} THEN t ELSE Op(k, h[u \ {Max(u)}], s[Max(u)])
            g == [u \in SUBSET (1 .. m) |-> IF m \notin u THEN f[u] ELSE Step(f, u)]
<1>5. ASSUME NEW u \in SUBSET (1 .. m) PROVE g[u] = Step(g, u)
  <2>0. m \in Nat
    OBVIOUS
  <2>1. u # {} => Max(u) \in u /\ \A y \in u : Max(u) >= y
    BY <2>0, GreatestOf
  <2>2. CASE m \notin u
    <3>1. u \in SUBSET (1 .. m - 1)
      BY <2>0, <2>2
    <3>2. f[u] = Step(f, u)
      BY <1>4, <3>1 DEF Table
    <3>3. u \ {Max(u)} \in SUBSET (1 .. m) /\ m \notin u \ {Max(u)}
      BY <2>2
    <3>4. g[u \ {Max(u)}] = f[u \ {Max(u)}]
      BY <3>3
    <3>. QED BY <2>2, <3>2, <3>4
  <2>3. CASE m \in u
    <3>1. Max(u) = m
      <4>. DEFINE x == Max(u)
      <4>1. x \in u /\ x >= m
        BY <2>1, <2>3
      <4>2. x \in 1 .. m
        BY <4>1
      <4>. HIDE DEF x
      <4>3. x = m
        BY <2>0, <4>1, <4>2
      <4>. QED BY <4>3 DEF x
    <3>2. u \ {m} \in SUBSET (1 .. m) /\ m \notin u \ {m}
      OBVIOUS
    <3>3. g[u \ {m}] = f[u \ {m}]
      BY <3>2
    <3>. QED BY <2>3, <3>1, <3>3
  <2>. QED BY <2>2, <2>3
<1>6. Table(k, t, s, m, g)
  <2>1. g = [u \in SUBSET (1 .. m) |-> g[u]]
    OBVIOUS
  <2>. HIDE DEF g
  <2>. QED BY <1>5, <2>1 DEF Table
<1>. QED BY <1>2, <1>6

Fold(k, t, s) == FoldLeft(LAMBDA x, c : Op(k, x, c), t, s)

\* w is what s has been folded to after each of its elements.
Follows(k, t, s, w) == w[0] = t /\ \A i \in 1 .. Len(s) : w[i] = Op(k, w[i - 1], s[i])

\* The fold is what the table ends with.
LEMMA FoldTable ==
  ASSUME NEW k, NEW t, NEW C, NEW s \in Seq(C)
  PROVE  \E w : Follows(k, t, s, w) /\ w[Len(s)] = Fold(k, t, s)
<1>. DEFINE n == Len(s)
            f == CHOOSE g : Table(k, t, s, n, g)
            w == [i \in 0 .. n |-> f[1 .. i]]
<1>1. n \in Nat /\ DOMAIN s = 1 .. n
  OBVIOUS
<1>2. Table(k, t, s, n, f)
  BY <1>1, TableExists
<1>. HIDE DEF f
<1>3. w[0] = t
  <2>1. 1 .. 0 = {}
    OBVIOUS
  <2>. QED BY <1>1, <1>2, <2>1 DEF Table
<1>4. ASSUME NEW i \in 1 .. n PROVE w[i] = Op(k, w[i - 1], s[i])
  <2>0. i \in Nat /\ i >= 1 /\ i <= n
    BY <1>1
  <2>1. 1 .. i \in SUBSET (1 .. n) /\ 1 .. i # {} /\ i \in Nat /\ i \in 1 .. i
    <3>. HIDE DEF n
    <3>1. \A x \in 1 .. i : x \in 1 .. n
      BY <1>1, <2>0
    <3>2. i \in 1 .. i
      BY <2>0
    <3>. QED BY <2>0, <3>1, <3>2
  <2>2. Max(1 .. i) = i
    <3>1. 1 .. i \in SUBSET (1 .. i)
      OBVIOUS
    <3>2. Max(1 .. i) \in 1 .. i /\ \A y \in 1 .. i : Max(1 .. i) >= y
      BY <2>1, <3>1, GreatestOf
    <3>. QED BY <2>1, <3>2
  <2>3. (1 .. i) \ {i} = 1 .. i - 1
    BY <2>1
  <2>4. f[1 .. i] = Op(k, f[1 .. i - 1], s[i])
    BY <1>2, <2>1, <2>2, <2>3 DEF Table
  <2>5. i \in 0 .. n /\ i - 1 \in 0 .. n
    BY <1>1
  <2>. QED BY <2>4, <2>5
<1>5. Fold(k, t, s) = f[1 .. n]
  BY <1>1 DEF Fold, FoldLeft, MapThenFoldSet, Table, f
<1>6. w[n] = f[1 .. n]
  BY <1>1
<1>7. Follows(k, t, s, w)
  BY <1>3, <1>4 DEF Follows
<1>. QED BY <1>5, <1>6, <1>7

\* There is no other way to fold it.
LEMMA FoldIs ==
  ASSUME NEW k, NEW t, NEW C, NEW s \in Seq(C), NEW v, Follows(k, t, s, v)
  PROVE  v[Len(s)] = Fold(k, t, s)
<1>. DEFINE n == Len(s)
<1>0. n \in Nat
  OBVIOUS
<1>a. PICK w : Follows(k, t, s, w) /\ w[Len(s)] = Fold(k, t, s)
  BY FoldTable
<1>1. w[n] = Fold(k, t, s) /\ w[0] = t /\ \A i \in 1 .. n : w[i] = Op(k, w[i - 1], s[i])
  BY <1>a DEF Follows
<1>2. v[0] = t /\ \A i \in 1 .. n : v[i] = Op(k, v[i - 1], s[i])
  BY DEF Follows
<1>. HIDE DEF n
<1>. DEFINE Bad == {i \in 0 .. n : v[i] # w[i]}
<1>3. Bad = {}
  <2>. SUFFICES ASSUME Bad # {} PROVE FALSE
    OBVIOUS
  <2>1. Bad \subseteq Nat
    BY <1>0
  <2>2. PICK a \in Bad : \A b \in Bad : a <= b
    BY <2>1, LeastOf
  <2>3. a # 0
    BY <1>1, <1>2
  <2>4. a \in 1 .. n /\ a - 1 \in 0 .. n /\ ~(a <= a - 1)
    BY <1>0, <2>3
  <2>5. v[a - 1] = w[a - 1]
    BY <2>2, <2>4
  <2>. QED BY <1>1, <1>2, <2>4, <2>5
<1>4. n \in 0 .. n
  BY <1>0
<1>5. v[n] = w[n]
  BY <1>3, <1>4
<1>. QED BY <1>1, <1>5 DEF n

\* Nothing to fold.
LEMMA FoldEmpty == \A k, t : Fold(k, t, <<>>) = t
<1>. SUFFICES ASSUME NEW k, NEW t PROVE Fold(k, t, <<>>) = t
  OBVIOUS
<1>. DEFINE e == <<>>
<1>1. e \in Seq({}) /\ Len(e) = 0
  OBVIOUS
<1>. HIDE DEF e
<1>2. PICK w : Follows(k, t, e, w) /\ w[Len(e)] = Fold(k, t, e)
  BY <1>1, FoldTable
<1>3. Fold(k, t, e) = t
  BY <1>1, <1>2 DEF Follows
<1>. QED BY <1>3 DEF e

\* A fold goes on where that of the first part ended.
LEMMA FoldConcat ==
  ASSUME NEW k, NEW t, NEW C, NEW s \in Seq(C), NEW u \in Seq(C)
  PROVE  Fold(k, t, s \o u) = Fold(k, Fold(k, t, s), u)
<1>. DEFINE n == Len(s)
            m == Len(u)
            su == s \o u
<1>1. n \in Nat /\ m \in Nat /\ su \in Seq(C) /\ Len(su) = n + m
  OBVIOUS
<1>2. \A i \in 1 .. n : i \in 1 .. n + m /\ su[i] = s[i]
  OBVIOUS
<1>3. \A i \in 1 .. m : n + i \in 1 .. n + m /\ su[n + i] = u[i]
  OBVIOUS
<1>. HIDE DEF n, m, su
<1>4. PICK w : /\ w[n + m] = Fold(k, t, su) /\ w[0] = t
               /\ \A i \in 1 .. n + m : w[i] = Op(k, w[i - 1], su[i])
  <2>1. PICK w : Follows(k, t, su, w) /\ w[Len(su)] = Fold(k, t, su)
    BY <1>1, FoldTable
  <2>2. w[0] = t /\ \A i \in 1 .. n + m : w[i] = Op(k, w[i - 1], su[i])
    BY <1>1, <2>1 DEF Follows
  <2>3. w[n + m] = Fold(k, t, su)
    BY <1>1, <2>1
  <2>. QED BY <2>2, <2>3, Zenon
<1>5. w[n] = Fold(k, t, s)
  <2>1. Follows(k, t, s, w)
    BY <1>2, <1>4 DEF n, Follows
  <2>. QED BY <2>1, FoldIs DEF n
<1>. DEFINE v == [i \in 0 .. m |-> w[n + i]]
<1>6. v[0] = w[n]
  BY <1>1
<1>7. ASSUME NEW i \in 1 .. m PROVE v[i] = Op(k, v[i - 1], u[i])
  <2>. DEFINE j == n + i
  <2>1. j \in 1 .. n + m /\ su[j] = u[i]
    BY <1>3
  <2>2. i \in 0 .. m /\ i - 1 \in 0 .. m /\ n + (i - 1) = j - 1
    BY <1>1
  <2>3. v[i] = w[j] /\ v[i - 1] = w[j - 1]
    BY <2>2
  <2>. HIDE DEF j, v
  <2>4. w[j] = Op(k, w[j - 1], su[j])
    BY <1>4, <2>1
  <2>. QED BY <2>1, <2>3, <2>4
<1>8. v[m] = w[n + m]
  BY <1>1
<1>. HIDE DEF v
<1>9. v[m] = Fold(k, w[n], u)
  <2>1. Follows(k, w[n], u, v)
    BY <1>6, <1>7 DEF m, Follows
  <2>. QED BY <2>1, FoldIs DEF m
<1>. QED BY <1>4, <1>5, <1>8, <1>9 DEF su

\* A single element.
LEMMA FoldOne ==
  ASSUME NEW k, NEW t, NEW c
  PROVE  Fold(k, t, <<c>>) = Op(k, t, c)
<1>. DEFINE s == <<c>>
<1>1. s \in Seq({c}) /\ Len(s) = 1 /\ s[1] = c
  OBVIOUS
<1>. HIDE DEF s
<1>2. PICK w : Follows(k, t, s, w) /\ w[Len(s)] = Fold(k, t, s)
  BY <1>1, FoldTable
<1>3. 1 \in 1 .. 1 /\ 1 - 1 = 0
  OBVIOUS
<1>4. Fold(k, t, s) = Op(k, t, c)
  BY <1>1, <1>2, <1>3 DEF Follows
<1>. QED BY <1>4 DEF s

\* What each element keeps is kept all along.
LEMMA FollowsStays ==
  ASSUME NEW k, NEW T, NEW t \in T, NEW C, NEW s \in Seq(C), NEW w, Follows(k, t, s, w),
         \A x \in T, c \in C : Op(k, x, c) \in T
  PROVE  \A i \in 0 .. Len(s) : w[i] \in T
<1>. DEFINE n == Len(s)
<1>0. n \in Nat /\ \A i \in 1 .. n : s[i] \in C
  OBVIOUS
<1>1. w[0] = t /\ \A i \in 1 .. n : w[i] = Op(k, w[i - 1], s[i])
  BY DEF Follows
<1>. HIDE DEF n
<1>. DEFINE Bad == {i \in 0 .. n : w[i] \notin T}
<1>2. Bad = {}
  <2>. SUFFICES ASSUME Bad # {} PROVE FALSE
    OBVIOUS
  <2>1. Bad \subseteq Nat
    BY <1>0
  <2>2. PICK a \in Bad : \A b \in Bad : a <= b
    BY <2>1, LeastOf
  <2>3. a # 0
    BY <1>1
  <2>4. a \in 1 .. n /\ a - 1 \in 0 .. n /\ ~(a <= a - 1)
    BY <1>0, <2>3
  <2>5. w[a - 1] \in T
    BY <2>2, <2>4
  <2>. QED BY <1>0, <1>1, <2>4, <2>5
<1>. QED BY <1>2 DEF n

\* In particular by the whole fold.
LEMMA FoldStays ==
  ASSUME NEW k, NEW T, NEW t \in T, NEW C, NEW s \in Seq(C),
         \A x \in T, c \in C : Op(k, x, c) \in T
  PROVE  Fold(k, t, s) \in T
<1>1. PICK w : Follows(k, t, s, w) /\ w[Len(s)] = Fold(k, t, s)
  BY FoldTable
<1>2. \A i \in 0 .. Len(s) : w[i] \in T
  BY <1>1, FollowsStays
<1>3. Len(s) \in 0 .. Len(s)
  OBVIOUS
<1>. QED BY <1>1, <1>2, <1>3

\* What an element of C adds at the end of a sequence over D does not depend on it.
Adds(k, C, D) ==
  /\ \A c \in C : Op(k, <<>>, c) \in Seq(D)
  /\ \A x \in Seq(D), c \in C : Op(k, x, c) = x \o Op(k, <<>>, c)

\* Then that holds for all of them together.
LEMMA FoldAdds ==
  ASSUME NEW k, NEW C, NEW D, Adds(k, C, D), NEW s \in Seq(C), NEW t \in Seq(D)
  PROVE  Fold(k, t, s) = t \o Fold(k, <<>>, s) /\ Fold(k, t, s) \in Seq(D)
<1>. DEFINE n == Len(s)
            e == <<>>
            T == Seq(D)
<1>0. n \in Nat /\ e \in T /\ \A x \in T : x \o e = x
  BY ConcatEmptySeq
<1>a. /\ \A c \in C : Op(k, e, c) \in T
      /\ \A x \in T, c \in C : Op(k, x, c) = x \o Op(k, e, c)
  BY DEF Adds
<1>b. \A i \in 1 .. n : s[i] \in C
  OBVIOUS
<1>c. \A x, y \in T : x \o y \in T
  OBVIOUS
<1>d. t \in T
  OBVIOUS
<1>e. \A x, y, z \in T : (x \o y) \o z = x \o (y \o z)
  BY ConcatAssociative
<1>. HIDE DEF n, e, T
<1>1. \A x \in T, c \in C : Op(k, x, c) \in T
  <2>. TAKE x \in T, c \in C
  <2>1. Op(k, e, c) \in T /\ Op(k, x, c) = x \o Op(k, e, c)
    BY <1>a
  <2>. QED BY <1>c, <2>1
<1>2. PICK w : Follows(k, e, s, w) /\ w[n] = Fold(k, e, s)
  BY FoldTable DEF n
<1>3. \A i \in 0 .. n : w[i] \in T
  BY <1>0, <1>1, <1>2, FollowsStays DEF n
<1>. DEFINE v == [i \in 0 .. n |-> t \o w[i]]
<1>4. Follows(k, t, s, v)
  <2>0. w[0] = e /\ \A i \in 1 .. n : w[i] = Op(k, w[i - 1], s[i])
    BY <1>2 DEF Follows, n
  <2>1. v[0] = t
    BY <1>0, <2>0
  <2>2. ASSUME NEW i \in 1 .. n PROVE v[i] = Op(k, v[i - 1], s[i])
    <3>1. i \in 0 .. n /\ i - 1 \in 0 .. n
      BY <1>0
    <3>. DEFINE x == w[i - 1]
                o == Op(k, e, s[i])
    <3>2. x \in T /\ o \in T /\ w[i] = x \o o
      BY <1>a, <1>b, <1>3, <2>0, <3>1
    <3>3. v[i] = t \o w[i] /\ v[i - 1] = t \o x
      BY <3>1
    <3>. HIDE DEF v, x
    <3>4. t \o x \in T /\ Op(k, t \o x, s[i]) = (t \o x) \o o
      BY <1>a, <1>b, <1>c, <1>d, <3>2
    <3>. HIDE DEF o
    <3>5. (t \o x) \o o = t \o (x \o o)
      BY <1>d, <1>e, <3>2
    <3>. QED BY <3>2, <3>3, <3>4, <3>5
  <2>. HIDE DEF v
  <2>. QED BY <2>1, <2>2 DEF Follows, n
<1>5. n \in 0 .. n
  BY <1>0
<1>6. v[n] = t \o w[n] /\ w[n] \in T
  BY <1>3, <1>5
<1>7. v[n] = Fold(k, t, s)
  BY <1>4, FoldIs DEF n
<1>8. t \o w[n] \in T
  BY <1>c, <1>d, <1>6
<1>. HIDE DEF v
<1>. QED BY <1>2, <1>6, <1>7, <1>8 DEF e, T

\* What the first adds comes before what the others add.
LEMMA FoldFirst ==
  ASSUME NEW k, NEW C, NEW D, Adds(k, C, D), NEW p \in C, NEW s \in Seq(C)
  PROVE  Fold(k, <<>>, <<p>> \o s) = Op(k, <<>>, p) \o Fold(k, <<>>, s)
<1>. DEFINE e == <<>>
            o == <<p>>
<1>1. o \in Seq(C)
  OBVIOUS
<1>2. Fold(k, e, o) = Op(k, e, p) /\ Op(k, e, p) \in Seq(D)
  BY FoldOne DEF Adds
<1>. HIDE DEF e, o
<1>3. Fold(k, e, o \o s) = Fold(k, Fold(k, e, o), s)
  BY <1>1, FoldConcat
<1>. DEFINE t == Op(k, e, p)
<1>4. t \in Seq(D) /\ Fold(k, e, o) = t
  BY <1>2
<1>. HIDE DEF t
<1>5. Fold(k, t, s) = t \o Fold(k, e, s)
  BY <1>4, FoldAdds DEF e
<1>. QED BY <1>2, <1>3, <1>4, <1>5 DEF e, o, t

-----------------------------------------------------------------------------
(* Recursive functions of a natural number.                                *)

\* The value at n of a function of k depends on those at smaller arguments only.
LooksBack(k) ==
  \A n \in Nat : \A f, g : (\A i \in 0 .. n - 1 : f[i] = g[i]) => Op(k, f, n) = Op(k, g, n)

\* f is the function up to m.
UpTo(k, m, f) == \A n \in 0 .. m : f[n] = Op(k, f, n)

\* There is no least m up to which the function does not exist.
LEMMA UpToExists ==
  ASSUME NEW k, LooksBack(k)
  PROVE  \A m \in Nat : \E f : UpTo(k, m, f)
<1>. DEFINE Bad == {m \in Nat : ~\E f : UpTo(k, m, f)}
<1>1. SUFFICES ASSUME Bad # {} PROVE FALSE
  OBVIOUS
<1>2. PICK a \in Bad : \A b \in Bad : a <= b
  BY <1>1, LeastOf
<1>3. \E f : \A n \in 0 .. a - 1 : f[n] = Op(k, f, n)
  <2>1. CASE a = 0
    <3>1. 0 .. a - 1 = {}
      BY <2>1
    <3>. QED BY <3>1
  <2>2. CASE a # 0
    <3>1. a - 1 \in Nat /\ ~(a <= a - 1)
      BY <2>2
    <3>2. \E f : UpTo(k, a - 1, f)
      BY <1>2, <3>1
    <3>. QED BY <3>2 DEF UpTo
  <2>. QED BY <2>1, <2>2
<1>4. PICK f : \A n \in 0 .. a - 1 : f[n] = Op(k, f, n)
  BY <1>3
<1>. DEFINE g == [n \in 0 .. a |-> Op(k, f, n)]
<1>5. ASSUME NEW n \in 0 .. a PROVE g[n] = Op(k, g, n)
  <2>1. n \in Nat /\ a \in Nat
    OBVIOUS
  <2>2. \A i \in 0 .. n - 1 : i \in 0 .. a - 1 /\ i \in 0 .. a
    BY <2>1
  <2>3. \A i \in 0 .. n - 1 : f[i] = g[i]
    BY <1>4, <2>2
  <2>. HIDE DEF g
  <2>4. Op(k, f, n) = Op(k, g, n)
    BY <2>1, <2>3 DEF LooksBack
  <2>. QED BY <2>4 DEF g
<1>6. UpTo(k, a, g)
  BY <1>5 DEF UpTo
<1>. QED BY <1>6

\* Where two of them are given they agree.
LEMMA UpToUnique ==
  ASSUME NEW k, LooksBack(k), NEW m \in Nat, NEW l \in Nat, NEW f, NEW g,
         UpTo(k, m, f), UpTo(k, l, g)
  PROVE  \A n \in Nat : n <= m /\ n <= l => f[n] = g[n]
<1>. DEFINE Bad == {n \in Nat : n <= m /\ n <= l /\ f[n] # g[n]}
<1>1. SUFFICES ASSUME Bad # {} PROVE FALSE
  OBVIOUS
<1>2. PICK a \in Bad : \A b \in Bad : a <= b
  <2>1. Bad \subseteq Nat
    OBVIOUS
  <2>. QED BY <1>1, <2>1, LeastOf
<1>3. \A i \in 0 .. a - 1 : f[i] = g[i]
  <2>1. \A i \in 0 .. a - 1 : i \in Nat /\ i <= m /\ i <= l /\ ~(a <= i)
    OBVIOUS
  <2>. QED BY <1>2, <2>1
<1>4. Op(k, f, a) = Op(k, g, a)
  BY <1>3 DEF LooksBack
<1>5. f[a] = Op(k, f, a) /\ g[a] = Op(k, g, a)
  BY DEF UpTo
<1>. QED BY <1>4, <1>5

\* So there is a function that satisfies the equation everywhere.
LEMMA Unfolds ==
  ASSUME NEW k, LooksBack(k)
  PROVE  \E f : f = [n \in Nat |-> Op(k, f, n)]
<1>. DEFINE part(m) == CHOOSE f : UpTo(k, m, f)
            g == [n \in Nat |-> part(n)[n]]
<1>1. \A m \in Nat : UpTo(k, m, part(m))
  BY UpToExists
<1>. HIDE DEF part
<1>2. ASSUME NEW n \in Nat PROVE g[n] = Op(k, g, n)
  <2>1. UpTo(k, n, part(n))
    BY <1>1
  <2>2. ASSUME NEW i \in 0 .. n - 1 PROVE part(n)[i] = g[i]
    <3>1. i \in Nat /\ i <= n /\ i <= i
      OBVIOUS
    <3>2. UpTo(k, i, part(i))
      BY <1>1, <3>1
    <3>3. part(n)[i] = part(i)[i]
      BY <2>1, <3>1, <3>2, UpToUnique
    <3>. QED BY <3>1, <3>3
  <2>3. part(n)[n] = Op(k, part(n), n)
    BY <2>1 DEF UpTo
  <2>4. g[n] = part(n)[n]
    OBVIOUS
  <2>. DEFINE p == part(n)
  <2>. HIDE DEF p, g
  <2>5. Op(k, p, n) = Op(k, g, n)
    BY <2>2 DEF p, LooksBack
  <2>. QED BY <2>3, <2>4, <2>5 DEF p
<1>3. g = [n \in Nat |-> g[n]]
  OBVIOUS
<1>. HIDE DEF g
<1>4. g = [n \in Nat |-> Op(k, g, n)]
  BY <1>2, <1>3
<1>. QED BY <1>4
=============================================================================

--------------------------- MODULE SequenceLemmas ---------------------------
(***************************************************************************)
(* What the proofs about several components need of sequences: induction   *)
(* on a length, and what keeping, removing and inserting elements leaves.  *)
(***************************************************************************)
EXTENDS KeptSequences, SequencesExt, SequenceTheorems, WellFoundedInduction, TLAPS

-----------------------------------------------------------------------------
(* Induction on the natural numbers, for a set of numbers.                 *)

\* A set of naturals has a least element.
LEMMA LeastNatural ==
    ASSUME NEW T \in SUBSET Nat, T # {}
    PROVE  \E m \in T : \A k \in T : m <= k
<1> DEFINE R == {pair \in Nat \X Nat : pair[1] < pair[2]}
<1>1. IsWellFoundedOn(R, Nat)
  BY NatLessThanWellFounded DEF OpToRel
<1>2. PICK m \in T : \A k \in T : <<k, m>> \notin R
  <2> HIDE DEF R
  <2> QED BY <1>1, WFMin
<1>3. \A k \in T : ~ (k < m)
  BY <1>2
<1> QED BY <1>3

\* A set with 0 that is closed under successors up to n reaches n.
LEMMA UpTo ==
    ASSUME NEW n \in Nat, NEW T, 0 \in T,
           \A i \in 0..(n - 1) : i \in T => i + 1 \in T
    PROVE  0..n \subseteq T
<1> SUFFICES ASSUME (0..n) \ T # {} PROVE FALSE
  OBVIOUS
<1> DEFINE U == (0..n) \ T
<1>1. PICK m \in U : \A k \in U : m <= k
  <2>1. U \in SUBSET Nat /\ U # {}
    OBVIOUS
  <2> HIDE DEF U
  <2> QED BY <2>1, LeastNatural
<1>2. m - 1 \in 0..(n - 1) /\ m - 1 \in T
  BY <1>1
<1>3. (m - 1) + 1 \in T
  BY <1>2
<1> QED BY <1>1, <1>3

-----------------------------------------------------------------------------
(* Kept.                                                                   *)

\* f computes Kept for the first n elements of s.
KeptUpTo(s, keep, f, n) ==
    /\ f[0] = << >>
    /\ \A i \in 1..n : f[i] = IF s[i] \in keep THEN Append(f[i - 1], s[i]) ELSE f[i - 1]

\* The recursion in Kept defines a function.
LEMMA KeptRecursion ==
    ASSUME NEW S, NEW s \in Seq(S), NEW keep
    PROVE  \E f : KeptUpTo(s, keep, f, Len(s)) /\ Kept(s, keep) = f[Len(s)]
<1> DEFINE n == Len(s)
           Eq(f) == f = [i \in 0..n |-> IF i = 0 THEN << >>
                           ELSE IF s[i] \in keep THEN Append(f[i - 1], s[i]) ELSE f[i - 1]]
           T == {i \in 0..n : \E f : f = [j \in 0..i |-> f[j]] /\ KeptUpTo(s, keep, f, i)}
<1>0. n \in Nat
  BY LenProperties
<1>1. 0 \in T
  <2>1. KeptUpTo(s, keep, [i \in 0..0 |-> << >>], 0)
    BY DEF KeptUpTo
  <2> DEFINE g == [i \in 0..0 |-> << >>]
  <2>2. g = [j \in 0..0 |-> g[j]]
    OBVIOUS
  <2> QED BY <1>0, <2>1, <2>2
<1>2. ASSUME NEW i \in 0..(n - 1), i \in T PROVE i + 1 \in T
  <2>1. PICK f : f = [j \in 0..i |-> f[j]] /\ KeptUpTo(s, keep, f, i)
    BY <1>2
  <2> DEFINE g == [j \in 0..(i + 1) |-> IF j <= i THEN f[j]
                     ELSE IF s[j] \in keep THEN Append(f[i], s[j]) ELSE f[i]]
  <2>2. KeptUpTo(s, keep, g, i + 1)
    <3>1. KeptUpTo(s, keep, f, i)
      BY <2>1
    <3>2. (\A j \in 0..i : g[j] = f[j]) /\ (\A j \in 1..i : j - 1 \in 0..i)
      BY <1>0
    <3>3. g[i + 1] = IF s[i + 1] \in keep THEN Append(f[i], s[i + 1]) ELSE f[i]
      BY <1>0
    <3>4. (i + 1) - 1 = i /\ 0 \in 0..i /\ i \in 0..i
      BY <1>0
    <3> HIDE DEF g
    <3>5. ASSUME NEW j \in 1..(i + 1)
          PROVE  g[j] = IF s[j] \in keep THEN Append(g[j - 1], s[j]) ELSE g[j - 1]
      <4>1. CASE j = i + 1
        BY <3>2, <3>3, <3>4, <4>1
      <4>2. CASE j \in 1..i
        <5>1. g[j] = f[j] /\ g[j - 1] = f[j - 1]
          BY <3>2, <4>2
        <5>2. f[j] = IF s[j] \in keep THEN Append(f[j - 1], s[j]) ELSE f[j - 1]
          BY <3>1, <4>2 DEF KeptUpTo
        <5> QED BY <5>1, <5>2
      <4> QED BY <1>0, <4>1, <4>2
    <3>6. g[0] = << >>
      BY <3>1, <3>2, <3>4 DEF KeptUpTo
    <3> QED BY <3>5, <3>6 DEF KeptUpTo
  <2>3. g = [j \in 0..(i + 1) |-> g[j]]
    OBVIOUS
  <2> QED BY <1>0, <2>2, <2>3
<1>3. n \in T
  <2> HIDE DEF T
  <2>1. 0..n \subseteq T
    BY <1>0, <1>1, <1>2, UpTo
  <2> QED BY <1>0, <2>1
<1>4. PICK f : f = [j \in 0..n |-> f[j]] /\ KeptUpTo(s, keep, f, n)
  BY <1>3
<1>5. Eq(f)
  <2>1. f = [i \in 0..n |-> f[i]]
    BY <1>4
  <2> DEFINE g == [i \in 0..n |-> IF i = 0 THEN << >>
                     ELSE IF s[i] \in keep THEN Append(f[i - 1], s[i]) ELSE f[i - 1]]
  <2>2. ASSUME NEW i \in 0..n PROVE f[i] = g[i]
    <3>1. CASE i = 0
      BY <1>0, <1>4, <3>1 DEF KeptUpTo
    <3>2. CASE i \in 1..n
      BY <1>0, <1>4, <3>2 DEF KeptUpTo
    <3> QED BY <1>0, <3>1, <3>2
  <2>3. [i \in 0..n |-> f[i]] = [i \in 0..n |-> g[i]]
    <3> HIDE DEF g
    <3> QED BY <2>2
  <2>4. [i \in 0..n |-> g[i]] = g
    OBVIOUS
  <2> QED BY <2>1, <2>3, <2>4
<1>6. Eq(CHOOSE g : Eq(g))
  <2> HIDE DEF Eq
  <2> QED BY <1>5
<1> DEFINE u == CHOOSE g : Eq(g)
<1>7. Kept(s, keep) = u[n]
  BY DEF Kept
<1>8. u = [i \in 0..n |-> IF i = 0 THEN << >>
            ELSE IF s[i] \in keep THEN Append(u[i - 1], s[i]) ELSE u[i - 1]]
  BY <1>6
<1> HIDE DEF u
<1>9. KeptUpTo(s, keep, u, n)
  <2>1. \A i \in 0..n : u[i] = IF i = 0 THEN << >>
            ELSE IF s[i] \in keep THEN Append(u[i - 1], s[i]) ELSE u[i - 1]
    BY <1>8
  <2> QED BY <1>0, <2>1 DEF KeptUpTo
<1> QED BY <1>7, <1>9

\* Kept has the elements of s that are in keep, and each once if s has.
LEMMA KeptProperties ==
    ASSUME NEW S, NEW s \in Seq(S), NEW keep
    PROVE  /\ Kept(s, keep) \in Seq(S)
           /\ Len(Kept(s, keep)) <= Len(s)
           /\ Range(Kept(s, keep)) = Range(s) \cap keep
           /\ IsInjective(s) => IsInjective(Kept(s, keep))
<1> DEFINE n == Len(s)
<1>0. n \in Nat /\ DOMAIN s = 1..n /\ \A i \in 1..n : s[i] \in S
  BY LenProperties
<1>1. PICK f : KeptUpTo(s, keep, f, n) /\ Kept(s, keep) = f[n]
  BY KeptRecursion
<1> DEFINE Part(i) == {s[j] : j \in 1..i} \cap keep
           Good(i) == /\ f[i] \in Seq(S) /\ Len(f[i]) <= i /\ Range(f[i]) = Part(i)
                      /\ IsInjective(s) => IsInjective(f[i])
           T == {i \in 0..n : Good(i)}
<1> HIDE DEF n
<1>2. Good(0)
  BY <1>1, EmptySeq DEF KeptUpTo, Range, IsInjective
<1>3. ASSUME NEW i \in 0..(n - 1), Good(i) PROVE Good(i + 1)
  <2>0. i + 1 \in 1..n /\ s[i + 1] \in S /\ (i + 1) - 1 = i
    BY <1>0
  <2> DEFINE e == s[i + 1]
  <2>1. Part(i + 1) = Part(i) \cup ({e} \cap keep)
    BY <1>0
  <2>2. CASE e \notin keep
    <3>1. f[i + 1] = f[i]
      BY <1>1, <2>0, <2>2 DEF KeptUpTo
    <3>2. Part(i + 1) = Part(i)
      BY <2>1, <2>2
    <3> HIDE DEF Part
    <3> QED BY <1>3, <3>1, <3>2, LenProperties
  <2>3. CASE e \in keep
    <3>1. f[i + 1] = Append(f[i], e)
      BY <1>1, <2>0, <2>3 DEF KeptUpTo
    <3> DEFINE t == f[i]
               k == Len(t)
    <3>2. t \in Seq(S) /\ k \in Nat /\ k <= i /\ DOMAIN t = 1..k /\ Range(t) = Part(i)
      BY <1>3, LenProperties
    <3>3. /\ Append(t, e) \in Seq(S) /\ Len(Append(t, e)) = k + 1
          /\ \A j \in 1..k : Append(t, e)[j] = t[j]
          /\ Append(t, e)[k + 1] = e
      <4> HIDE DEF t
      <4> QED BY <2>0, <3>2, AppendProperties
    <3>4. DOMAIN Append(t, e) = 1..(k + 1)
      BY <3>3, LenProperties
    <3> HIDE DEF t, k
    <3>5. Range(Append(t, e)) = Range(t) \cup {e}
      BY <3>2, <3>3, <3>4 DEF Range
    <3>6. Range(Append(t, e)) = Part(i + 1)
      BY <2>1, <2>3, <3>2, <3>5
    <3>7. ASSUME IsInjective(s) PROVE IsInjective(Append(t, e))
      <4>1. IsInjective(t)
        BY <1>3, <3>7 DEF t
      <4>2. \A j \in 1..i : s[j] # e
        BY <1>0, <2>0, <3>7 DEF IsInjective
      <4>3. e \notin Range(t)
        BY <3>2, <4>2
      <4>4. \A j \in 1..k : t[j] # e
        BY <3>2, <4>3 DEF Range
      <4> HIDE DEF e
      <4> QED BY <3>2, <3>3, <3>4, <4>1, <4>4 DEF IsInjective
    <3>8. Len(Append(t, e)) <= i + 1
      BY <3>2, <3>3
    <3> HIDE DEF e, Part
    <3> QED BY <3>1, <3>3, <3>6, <3>7, <3>8 DEF t
  <2> QED BY <2>2, <2>3
<1>4. n \in T
  <2>1. 0 \in T
    BY <1>0, <1>2
  <2>2. \A i \in 0..(n - 1) : i \in T => i + 1 \in T
    <3> HIDE DEF Good
    <3> QED BY <1>0, <1>3
  <2> HIDE DEF T
  <2>3. 0..n \subseteq T
    BY <1>0, <2>1, <2>2, UpTo
  <2> QED BY <1>0, <2>3
<1>5. Part(n) = Range(s) \cap keep
  BY <1>0 DEF Range
<1> QED BY <1>1, <1>4, <1>5 DEF n

-----------------------------------------------------------------------------
(* RemoveAt and InsertAt.                                                  *)

\* Removing the i-th element keeps the others in order.
LEMMA RemoveAtProperties ==
    ASSUME NEW S, NEW s \in Seq(S), NEW i \in 1..Len(s)
    PROVE  /\ RemoveAt(s, i) \in Seq(S)
           /\ Len(RemoveAt(s, i)) = Len(s) - 1
           /\ \A j \in 1..(Len(s) - 1) :
                RemoveAt(s, i)[j] = IF j < i THEN s[j] ELSE s[j + 1]
<1> DEFINE a == SubSeq(s, 1, i - 1)
           b == SubSeq(s, i + 1, Len(s))
           n == Len(s)
<1>0. n \in Nat /\ i \in Nat /\ 1 <= i /\ i <= n
  BY LenProperties
<1>1. /\ a \in Seq(S) /\ Len(a) = i - 1
      /\ \A j \in 1..(i - 1) : a[j] = s[j]
  BY SubSeqProperties
<1>2. /\ b \in Seq(S) /\ Len(b) = n - i
      /\ \A j \in 1..(n - i) : b[j] = s[i + j]
  BY SubSeqProperties
<1>4. RemoveAt(s, i) = a \o b
  BY DEF RemoveAt
<1> HIDE DEF a, b, n
<1>3. /\ a \o b \in Seq(S)
      /\ Len(a \o b) = Len(a) + Len(b)
      /\ \A j \in 1..(Len(a) + Len(b)) :
            (a \o b)[j] = IF j <= Len(a) THEN a[j] ELSE b[j - Len(a)]
  BY <1>1, <1>2, ConcatProperties
<1>5. Len(a) + Len(b) = n - 1
  BY <1>0, <1>1, <1>2
<1>6. ASSUME NEW j \in 1..(n - 1)
      PROVE  (a \o b)[j] = IF j < i THEN s[j] ELSE s[j + 1]
  <2>0. j \in Nat /\ 1 <= j /\ j <= n - 1
    BY <1>0
  <2>1. CASE j < i
    <3>1. j \in 1..(i - 1) /\ j <= Len(a)
      BY <1>0, <1>1, <2>0, <2>1
    <3> QED BY <1>1, <1>3, <1>5, <2>1, <3>1
  <2>2. CASE ~ (j < i)
    <3> DEFINE k == j - (i - 1)
    <3>1. k \in 1..(n - i) /\ i + k = j + 1 /\ ~ (j <= i - 1)
      BY <1>0, <2>0, <2>2
    <3>2. (a \o b)[j] = b[k]
      BY <1>1, <1>3, <1>5, <3>1
    <3> HIDE DEF k
    <3>3. b[k] = s[i + k]
      BY <1>2, <3>1
    <3> QED BY <2>2, <3>1, <3>2, <3>3
  <2> QED BY <2>1, <2>2
<1> QED BY <1>3, <1>4, <1>5, <1>6 DEF n

\* Inserting at i moves the elements from i on one place up.
LEMMA InsertAtProperties ==
    ASSUME NEW S, NEW s \in Seq(S), NEW e \in S, NEW i \in 1..(Len(s) + 1)
    PROVE  /\ InsertAt(s, i, e) \in Seq(S)
           /\ Len(InsertAt(s, i, e)) = Len(s) + 1
           /\ \A j \in 1..(Len(s) + 1) :
                /\ j < i => InsertAt(s, i, e)[j] = s[j]
                /\ j = i => InsertAt(s, i, e)[j] = e
                /\ j > i => InsertAt(s, i, e)[j] = s[j - 1]
<1> DEFINE a == SubSeq(s, 1, i - 1)
           b == SubSeq(s, i, Len(s))
           c == a \o <<e>>
           n == Len(s)
<1>0. n \in Nat /\ i \in Nat /\ 1 <= i /\ i <= n + 1
  BY LenProperties
<1>1. /\ a \in Seq(S) /\ Len(a) = i - 1
      /\ \A j \in 1..(i - 1) : a[j] = s[j]
  BY SubSeqProperties
<1>2. /\ b \in Seq(S) /\ Len(b) = n - i + 1
      /\ \A j \in 1..(n - i + 1) : b[j] = s[i + j - 1]
  BY SubSeqProperties
<1>3. /\ c \in Seq(S) /\ Len(c) = i
      /\ \A j \in 1..(i - 1) : c[j] = s[j]
      /\ c[i] = e
  BY <1>1
<1>5. InsertAt(s, i, e) = c \o b
  BY DEF InsertAt
<1> HIDE DEF a, b, c, n
<1>4. /\ c \o b \in Seq(S)
      /\ Len(c \o b) = Len(c) + Len(b)
      /\ \A j \in 1..(Len(c) + Len(b)) :
            (c \o b)[j] = IF j <= Len(c) THEN c[j] ELSE b[j - Len(c)]
  BY <1>2, <1>3, ConcatProperties
<1>6. Len(c) + Len(b) = n + 1
  BY <1>0, <1>2, <1>3
<1>7. ASSUME NEW j \in 1..(n + 1)
      PROVE  (c \o b)[j] =
                IF j < i THEN s[j] ELSE IF j = i THEN e ELSE s[j - 1]
  <2>0. j \in Nat /\ 1 <= j /\ j <= n + 1
    BY <1>0
  <2>1. CASE j <= i
    <3>1. (c \o b)[j] = c[j]
      BY <1>3, <1>4, <1>6, <2>1
    <3>2. CASE j < i
      <4>1. j \in 1..(i - 1)
        BY <1>0, <2>0, <3>2
      <4> QED BY <1>3, <3>1, <3>2, <4>1
    <3>3. CASE j = i
      BY <1>0, <1>3, <3>1, <3>3
    <3>4. j < i \/ j = i
      BY <1>0, <2>0, <2>1
    <3> QED BY <3>2, <3>3, <3>4
  <2>2. CASE ~ (j <= i)
    <3> DEFINE k == j - i
    <3>1. /\ k \in 1..(n - i + 1) /\ i + k - 1 = j - 1
          /\ ~ (j < i) /\ j # i
      BY <1>0, <2>0, <2>2
    <3>2. (c \o b)[j] = b[k]
      BY <1>3, <1>4, <1>6, <2>2
    <3> HIDE DEF k
    <3>3. b[k] = s[i + k - 1]
      BY <1>2, <3>1
    <3> QED BY <3>1, <3>2, <3>3
  <2> QED BY <2>1, <2>2
<1> QED BY <1>4, <1>5, <1>6, <1>7 DEF n
=============================================================================

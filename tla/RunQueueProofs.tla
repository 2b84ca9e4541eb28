---------------------------- MODULE RunQueueProofs ----------------------------
(***************************************************************************)
(* Proofs about RunQueue, for any number of slots, edits and steps of mpv: *)
(* types (TypeCorrect), mpv's playlist is the run's sequence               *)
(* (MirrorAlways), the run keeps up with the owner (AlwaysKeepsUp), the    *)
(* owner's marker settles on the slot mpv plays (MarkerAlwaysSettles), and *)
(* so does the run's coordinate (AlwaysSettles).                           *)
(*                                                                         *)
(* The inductive invariant is about the commands that are still on their   *)
(* way: applied one by one to the run's sequence (Path, Reaches) they give *)
(* sequences of distinct minted slots, and the last of these is the        *)
(* owner's order, or, once the owner has consumed slots of its own accord, *)
(* at least holds its slots (Holds).  An edit of the owner adds to the     *)
(* path (HoldsMore), a command the run handles is taken from its front     *)
(* (ReachNext).  This rests on what the three views of one edit come to:   *)
(* Vec::remove and insert at the owner, one command after another at the   *)
(* run, playlist-remove and playlist-move in mpv.                          *)
(*                                                                         *)
(* Two more invariants are about what is unread.  Announced: what the run  *)
(* says last names the slot it is on.  Follow: the last position among     *)
(* mpv's unread events is the one mpv is on, each natural end has a        *)
(* position behind it, and a run that will read none is already there.     *)
(***************************************************************************)
EXTENDS RunQueue, SequenceLemmas, FiniteSetTheorems, TLAPS

-----------------------------------------------------------------------------
(* Sequences of distinct slots.                                            *)

\* t has elements of s, in the order of s.
InOrder(t, s) ==
  \A a, b \in 1..Len(t) : a < b => \E i, j \in 1..Len(s) : i < j /\ s[i] = t[a] /\ s[j] = t[b]

\* Kept leaves the order as it is.
LEMMA KeptInOrder ==
  ASSUME NEW S, NEW s \in Seq(S), NEW keep
  PROVE  InOrder(Kept(s, keep), s)
<1> DEFINE n == Len(s)
<1>0. n \in Nat /\ DOMAIN s = 1..n /\ \A i \in 1..n : s[i] \in S
  BY LenProperties
<1>1. PICK f : KeptUpTo(s, keep, f, n) /\ Kept(s, keep) = f[n]
  BY KeptRecursion
<1> DEFINE Good(i) == f[i] \in Seq(S) /\ Range(f[i]) \subseteq {s[j] : j \in 1..i} /\ InOrder(f[i], s)
           T == {i \in 0..n : Good(i)}
<1> HIDE DEF n
<1>2. Good(0)
  BY <1>1, EmptySeq DEF KeptUpTo, Range, InOrder
<1>3. ASSUME NEW i \in 0..(n - 1), Good(i) PROVE Good(i + 1)
  <2>0. i + 1 \in 1..n /\ s[i + 1] \in S /\ (i + 1) - 1 = i
    BY <1>0
  <2> DEFINE e == s[i + 1]
  <2>1. {s[j] : j \in 1..i} \cup {e} = {s[j] : j \in 1..(i + 1)}
    BY <1>0
  <2>2. CASE e \notin keep
    <3>1. f[i + 1] = f[i]
      BY <1>1, <2>0, <2>2 DEF KeptUpTo
    <3> QED BY <1>3, <3>1, <2>1
  <2>3. CASE e \in keep
    <3>1. f[i + 1] = Append(f[i], e)
      BY <1>1, <2>0, <2>3 DEF KeptUpTo
    <3> DEFINE t == f[i]
               k == Len(t)
               u == Append(t, e)
    <3>2. t \in Seq(S) /\ k \in Nat /\ DOMAIN t = 1..k
      BY <1>3, LenProperties
    <3>3. /\ u \in Seq(S) /\ Len(u) = k + 1 /\ DOMAIN u = 1..(k + 1)
          /\ \A j \in 1..k : u[j] = t[j]
          /\ u[k + 1] = e
      <4> HIDE DEF t
      <4> QED BY <2>0, <3>2, AppendProperties, LenProperties
    <3>4. Range(t) \subseteq {s[j] : j \in 1..i} /\ InOrder(t, s)
      BY <1>3
    <3> HIDE DEF t, k, u
    <3>5. Range(u) \subseteq Range(t) \cup {e}
      BY <3>2, <3>3 DEF Range
    <3>6. InOrder(u, s)
      <4> SUFFICES ASSUME NEW a \in 1..(k + 1), NEW b \in 1..(k + 1), a < b
                   PROVE  \E p, q \in 1..Len(s) : p < q /\ s[p] = u[a] /\ s[q] = u[b]
        BY <3>3 DEF InOrder
      <4>1. CASE b \in 1..k
        <5>1. a \in 1..k
          BY <3>2, <4>1
        <5>2. \A c, d \in 1..k : c < d => \E p, q \in 1..Len(s) : p < q /\ s[p] = t[c] /\ s[q] = t[d]
          BY <3>4 DEF InOrder, k, t
        <5>3. \E p, q \in 1..Len(s) : p < q /\ s[p] = t[a] /\ s[q] = t[b]
          BY <4>1, <5>1, <5>2
        <5> QED BY <3>3, <4>1, <5>1, <5>3
      <4>2. CASE b = k + 1
        <5>1. a \in 1..k
          BY <3>2, <4>2
        <5>2. u[a] \in Range(t)
          BY <3>2, <3>3, <5>1 DEF Range
        <5>3. PICK p \in 1..i : s[p] = u[a]
          BY <3>4, <5>2
        <5>4. p \in 1..Len(s) /\ i + 1 \in 1..Len(s) /\ p < i + 1
          BY <1>0 DEF n
        <5> QED BY <3>3, <4>2, <5>3, <5>4
      <4> QED BY <3>2, <4>1, <4>2
    <3> HIDE DEF e
    <3> QED BY <2>1, <3>1, <3>3, <3>4, <3>5, <3>6 DEF u, t
  <2> QED BY <2>2, <2>3
<1>4. n \in T
  <2>1. 0 \in T
    BY <1>0, <1>2
  <2>2. \A i \in 0..(n - 1) : i \in T => i + 1 \in T
    <3> HIDE DEF Good
    <3> QED BY <1>0, <1>3
  <2> HIDE DEF T
  <2>3. 0..n \subseteq T
    BY <1>0, <2>1, <2>2, UpTo
  <2> QED BY <1>0, <2>3
<1> QED BY <1>1, <1>4

\* There is one way to arrange elements of s in the order of s.
LEMMA OrderIsUnique ==
  ASSUME NEW S, NEW s \in Seq(S), NEW t \in Seq(S), NEW u \in Seq(S),
         IsInjective(s), IsInjective(t), IsInjective(u), Range(t) = Range(u),
         InOrder(t, s), InOrder(u, s)
  PROVE  t = u
<1> DEFINE n == Len(t)
           m == Len(u)
           Off == {i \in Nat : i \in 1..n /\ i \in 1..m /\ t[i] # u[i]}
<1>0. /\ n \in Nat /\ m \in Nat /\ DOMAIN t = 1..n /\ DOMAIN u = 1..m
      /\ DOMAIN s = 1..Len(s) /\ Len(s) \in Nat
  BY LenProperties
<1> HIDE DEF n, m
<1>a. \A a, b \in 1..n : a < b => \E c, d \in 1..Len(s) : c < d /\ s[c] = t[a] /\ s[d] = t[b]
  BY DEF InOrder, n, m
<1>b. \A a, b \in 1..m : a < b => \E c, d \in 1..Len(s) : c < d /\ s[c] = u[a] /\ s[d] = u[b]
  BY DEF InOrder, n, m
<1>1. Off = {}
  <2> SUFFICES ASSUME Off # {} PROVE FALSE
    OBVIOUS
  <2>1. PICK i \in Off : \A k \in Off : i <= k
    <3>1. Off \in SUBSET Nat
      OBVIOUS
    <3> HIDE DEF Off
    <3> QED BY <3>1, LeastNatural
  <2>2. i \in 1..n /\ i \in 1..m /\ t[i] # u[i]
    BY <2>1
  <2>3. \A k \in 1..(i - 1) : t[k] = u[k]
    BY <1>0, <2>1, <2>2
  <2>4. PICK j \in 1..m : u[j] = t[i]
    BY <1>0, <2>2 DEF Range
  <2>5. PICK k \in 1..n : t[k] = u[i]
    BY <1>0, <2>2 DEF Range
  <2>6. j > i
    <3>1. j # i
      BY <2>2, <2>4
    <3>2. ASSUME j < i PROVE FALSE
      <4>1. j \in 1..n /\ t[j] = t[i]
        BY <1>0, <2>2, <2>3, <2>4, <3>2
      <4> QED BY <1>0, <2>2, <3>1, <4>1 DEF IsInjective
    <3> QED BY <1>0, <2>2, <2>4, <3>1, <3>2
  <2>7. k > i
    <3>1. k # i
      BY <2>2, <2>5
    <3>2. ASSUME k < i PROVE FALSE
      <4>1. k \in 1..m /\ u[k] = u[i]
        BY <1>0, <2>2, <2>3, <2>5, <3>2
      <4> QED BY <1>0, <2>2, <3>1, <4>1 DEF IsInjective
    <3> QED BY <1>0, <2>2, <2>5, <3>1, <3>2
  <2>8. PICK a, b \in 1..Len(s) : a < b /\ s[a] = t[i] /\ s[b] = u[i]
    BY <1>0, <1>a, <2>2, <2>5, <2>7
  <2>9. PICK c, d \in 1..Len(s) : c < d /\ s[c] = u[i] /\ s[d] = t[i]
    BY <1>0, <1>b, <2>2, <2>4, <2>6
  <2>10. a = d /\ b = c
    BY <2>8, <2>9 DEF IsInjective
  <2> QED BY <1>0, <2>8, <2>9, <2>10
<1>2. \A i \in 1..n : i \in 1..m => t[i] = u[i]
  BY <1>0, <1>1
<1>3. ~(n < m)
  <2> SUFFICES ASSUME n < m PROVE FALSE
    OBVIOUS
  <2>1. n + 1 \in 1..m
    BY <1>0
  <2>2. PICK j \in 1..n : t[j] = u[n + 1]
    BY <1>0, <2>1 DEF Range
  <2>3. u[j] = u[n + 1] /\ j \in 1..m
    BY <1>0, <1>2, <2>2
  <2>4. j = n + 1
    BY <1>0, <2>1, <2>3 DEF IsInjective
  <2> QED BY <1>0, <2>2, <2>4
<1>4. ~(m < n)
  <2> SUFFICES ASSUME m < n PROVE FALSE
    OBVIOUS
  <2>1. m + 1 \in 1..n
    BY <1>0
  <2>2. PICK j \in 1..m : u[j] = t[m + 1]
    BY <1>0, <2>1 DEF Range
  <2>3. t[j] = t[m + 1] /\ j \in 1..n
    BY <1>0, <1>2, <2>2
  <2>4. j = m + 1
    BY <1>0, <2>1, <2>3 DEF IsInjective
  <2> QED BY <1>0, <2>2, <2>4
<1>5. n = m
  BY <1>0, <1>3, <1>4
<1> QED BY <1>0, <1>2, <1>5, SeqEqual DEF n, m

\* Removing an element leaves the others, once each and in their order.
LEMMA RemoveDistinct ==
  ASSUME NEW S, NEW s \in Seq(S), IsInjective(s), NEW i \in 1..Len(s)
  PROVE  LET t == RemoveAt(s, i) IN
         /\ t \in Seq(S) /\ Len(t) = Len(s) - 1 /\ IsInjective(t)
         /\ Range(t) = Range(s) \ {s[i]} /\ InOrder(t, s)
<1> DEFINE t == RemoveAt(s, i)
           n == Len(s)
<1>1. /\ t \in Seq(S) /\ Len(t) = n - 1
      /\ \A j \in 1..(n - 1) : t[j] = IF j < i THEN s[j] ELSE s[j + 1]
  BY RemoveAtProperties
<1>2. n \in Nat /\ DOMAIN s = 1..n /\ DOMAIN t = 1..(n - 1)
  BY <1>1, LenProperties
<1> HIDE DEF t, n
<1>3. \A j \in 1..(n - 1) : \E k \in 1..n : k # i /\ t[j] = s[k] /\ k = IF j < i THEN j ELSE j + 1
  BY <1>1, <1>2
<1>4. IsInjective(t)
  <2> SUFFICES ASSUME NEW a \in 1..(n - 1), NEW b \in 1..(n - 1), t[a] = t[b] PROVE a = b
    BY <1>2 DEF IsInjective
  <2>1. PICK k \in 1..n : t[a] = s[k] /\ k = IF a < i THEN a ELSE a + 1
    BY <1>3
  <2>2. PICK l \in 1..n : t[b] = s[l] /\ l = IF b < i THEN b ELSE b + 1
    BY <1>3
  <2>3. k = l
    BY <1>2, <2>1, <2>2 DEF IsInjective
  <2> QED BY <1>2, <2>1, <2>2, <2>3 DEF n
<1>5. Range(t) \subseteq Range(s) \ {s[i]}
  <2> SUFFICES ASSUME NEW j \in 1..(n - 1) PROVE t[j] \in Range(s) /\ t[j] # s[i]
    BY <1>2 DEF Range
  <2>1. PICK k \in 1..n : k # i /\ t[j] = s[k]
    BY <1>3
  <2> QED BY <1>2, <2>1 DEF IsInjective, Range, n
<1>6. Range(s) \ {s[i]} \subseteq Range(t)
  <2> SUFFICES ASSUME NEW k \in 1..n, s[k] # s[i] PROVE s[k] \in Range(t)
    BY <1>2 DEF Range
  <2>1. CASE k < i
    <3>1. k \in 1..(n - 1)
      BY <1>2, <2>1 DEF n
    <3>2. t[k] = s[k]
      BY <1>1, <2>1, <3>1
    <3> QED BY <1>2, <3>1, <3>2 DEF Range
  <2>2. CASE k > i
    <3>1. k - 1 \in 1..(n - 1) /\ ~(k - 1 < i) /\ (k - 1) + 1 = k
      BY <1>2, <2>2 DEF n
    <3>2. t[k - 1] = s[k]
      BY <1>1, <3>1
    <3> QED BY <1>2, <3>1, <3>2 DEF Range
  <2> QED BY <1>2, <2>1, <2>2 DEF n
<1>7. InOrder(t, s)
  <2> SUFFICES ASSUME NEW a \in 1..(n - 1), NEW b \in 1..(n - 1), a < b
               PROVE  \E p, q \in 1..Len(s) : p < q /\ s[p] = t[a] /\ s[q] = t[b]
    BY <1>1 DEF InOrder
  <2>1. PICK k \in 1..n : t[a] = s[k] /\ k = IF a < i THEN a ELSE a + 1
    BY <1>3
  <2>2. PICK l \in 1..n : t[b] = s[l] /\ l = IF b < i THEN b ELSE b + 1
    BY <1>3
  <2>3. k < l
    BY <1>2, <2>1, <2>2 DEF n
  <2> QED BY <2>1, <2>2, <2>3 DEF n
<1> QED BY <1>1, <1>4, <1>5, <1>6, <1>7 DEF t, n

\* What stands where after an insertion.
LEMMA InsertedIs ==
  ASSUME NEW S, NEW s \in Seq(S), NEW e \in S, NEW i \in 1..(Len(s) + 1)
  PROVE  /\ \A j \in 1..(Len(s) + 1) : j < i => InsertAt(s, i, e)[j] = s[j]
         /\ InsertAt(s, i, e)[i] = e
         /\ \A j \in 1..(Len(s) + 1) : j > i => InsertAt(s, i, e)[j] = s[j - 1]
<1> DEFINE t == InsertAt(s, i, e)
<1>1. \A j \in 1..(Len(s) + 1) : /\ j < i => t[j] = s[j]
                                 /\ j = i => t[j] = e
                                 /\ j > i => t[j] = s[j - 1]
  BY InsertAtProperties
<1> HIDE DEF t
<1>2. t[i] = e
  BY <1>1
<1> QED BY <1>1, <1>2 DEF t

\* Orders compose.
LEMMA InOrderTwice ==
  ASSUME NEW s, NEW t, NEW u, InOrder(t, s), InOrder(u, t)
  PROVE  InOrder(u, s)
<1> SUFFICES ASSUME NEW a \in 1..Len(u), NEW b \in 1..Len(u), a < b
             PROVE  \E i, j \in 1..Len(s) : i < j /\ s[i] = u[a] /\ s[j] = u[b]
  BY DEF InOrder
<1>1. PICK i, j \in 1..Len(t) : i < j /\ t[i] = u[a] /\ t[j] = u[b]
  BY DEF InOrder
<1>2. PICK k, l \in 1..Len(s) : k < l /\ s[k] = t[i] /\ s[l] = t[j]
  BY <1>1 DEF InOrder
<1> QED BY <1>1, <1>2

\* Inserting a new element keeps every element once.
LEMMA InsertDistinct ==
  ASSUME NEW S, NEW s \in Seq(S), IsInjective(s), NEW e \in S, e \notin Range(s),
         NEW i \in 1..(Len(s) + 1)
  PROVE  LET t == InsertAt(s, i, e) IN
         /\ t \in Seq(S) /\ Len(t) = Len(s) + 1 /\ IsInjective(t) /\ Range(t) = Range(s) \cup {e}
<1> DEFINE t == InsertAt(s, i, e)
           n == Len(s)
<1>0. t \in Seq(S) /\ Len(t) = n + 1
  BY InsertAtProperties
<1>1. /\ t \in Seq(S) /\ Len(t) = n + 1
      /\ \A j \in 1..(n + 1) : j < i => t[j] = s[j]
      /\ t[i] = e
      /\ \A j \in 1..(n + 1) : j > i => t[j] = s[j - 1]
  BY <1>0, InsertedIs
<1>2. n \in Nat /\ DOMAIN s = 1..n /\ DOMAIN t = 1..(n + 1) /\ i \in 1..(n + 1)
  BY <1>1, LenProperties
<1>3. \A k \in 1..n : s[k] # e
  BY <1>2 DEF Range
<1> HIDE DEF t, n
<1>4. t[i] = e
  BY <1>1, <1>2
<1>5. \A j \in 1..(n + 1) : j # i => \E k \in 1..n : t[j] = s[k] /\ k = IF j < i THEN j ELSE j - 1
  <2> SUFFICES ASSUME NEW j \in 1..(n + 1), j # i
               PROVE  \E k \in 1..n : t[j] = s[k] /\ k = IF j < i THEN j ELSE j - 1
    OBVIOUS
  <2>1. CASE j < i
    BY <1>1, <1>2, <2>1
  <2>2. CASE j > i
    <3>1. j - 1 \in 1..n
      BY <1>2, <2>2
    <3> QED BY <1>1, <1>2, <2>2, <3>1
  <2> QED BY <1>2, <2>1, <2>2
<1>6. IsInjective(t)
  <2> SUFFICES ASSUME NEW a \in 1..(n + 1), NEW b \in 1..(n + 1), t[a] = t[b] PROVE a = b
    BY <1>2 DEF IsInjective
  <2>1. CASE a = i \/ b = i
    BY <1>3, <1>4, <1>5, <2>1
  <2>2. CASE a # i /\ b # i
    <3>1. PICK k \in 1..n : t[a] = s[k] /\ k = IF a < i THEN a ELSE a - 1
      BY <1>5, <2>2
    <3>2. PICK l \in 1..n : t[b] = s[l] /\ l = IF b < i THEN b ELSE b - 1
      BY <1>5, <2>2
    <3>3. k = l
      BY <1>2, <3>1, <3>2 DEF IsInjective
    <3> QED BY <1>2, <2>2, <3>1, <3>2, <3>3
  <2> QED BY <2>1, <2>2
<1>7. Range(t) \subseteq Range(s) \cup {e}
  <2> SUFFICES ASSUME NEW j \in 1..(n + 1) PROVE t[j] \in Range(s) \cup {e}
    BY <1>2 DEF Range
  <2>1. CASE j = i
    BY <1>4, <2>1
  <2>2. CASE j # i
    <3>1. PICK k \in 1..n : t[j] = s[k]
      BY <1>5, <2>2
    <3> QED BY <1>2, <3>1 DEF Range
  <2> QED BY <2>1, <2>2
<1>8. Range(s) \cup {e} \subseteq Range(t)
  <2>1. e \in Range(t)
    BY <1>2, <1>4 DEF Range
  <2>2. ASSUME NEW k \in 1..n PROVE s[k] \in Range(t)
    <3>1. CASE k < i
      <4>1. k \in 1..(n + 1) /\ t[k] = s[k]
        BY <1>1, <1>2, <3>1
      <4> QED BY <1>2, <4>1 DEF Range
    <3>2. CASE ~(k < i)
      <4>1. k + 1 \in 1..(n + 1) /\ k + 1 > i /\ (k + 1) - 1 = k
        BY <1>2, <3>2
      <4>2. t[k + 1] = s[k]
        BY <1>1, <4>1
      <4> QED BY <1>2, <4>1, <4>2 DEF Range
    <3> QED BY <3>1, <3>2
  <2> QED BY <1>2, <2>1, <2>2 DEF Range
<1> QED BY <1>1, <1>6, <1>7, <1>8 DEF t, n

\* Removing an element and putting it back where it was.
LEMMA PutBack ==
  ASSUME NEW S, NEW s \in Seq(S), NEW i \in 1..Len(s)
  PROVE  InsertAt(RemoveAt(s, i), i, s[i]) = s
<1> DEFINE t == RemoveAt(s, i)
           u == InsertAt(t, i, s[i])
           n == Len(s)
<1>1. n \in Nat /\ s[i] \in S
  BY LenProperties, ElementOfSeq
<1>2. /\ t \in Seq(S) /\ Len(t) = n - 1
      /\ \A j \in 1..(n - 1) : t[j] = IF j < i THEN s[j] ELSE s[j + 1]
  BY RemoveAtProperties
<1> HIDE DEF t
<1>3. i \in 1..(Len(t) + 1)
  BY <1>1, <1>2
<1>4. /\ u \in Seq(S) /\ Len(u) = n
      /\ \A j \in 1..n : j < i => u[j] = t[j]
      /\ u[i] = s[i]
      /\ \A j \in 1..n : j > i => u[j] = t[j - 1]
  <2>1. Len(t) + 1 = n
    BY <1>1, <1>2
  <2>2. u \in Seq(S) /\ Len(u) = n
    BY <1>1, <1>2, <1>3, <2>1, InsertAtProperties
  <2>3. /\ \A j \in 1..(Len(t) + 1) : j < i => u[j] = t[j]
        /\ u[i] = s[i]
        /\ \A j \in 1..(Len(t) + 1) : j > i => u[j] = t[j - 1]
    BY <1>1, <1>2, <1>3, InsertedIs
  <2> QED BY <2>1, <2>2, <2>3
<1> HIDE DEF u
<1>5. ASSUME NEW j \in 1..n PROVE u[j] = s[j]
  <2>1. CASE j < i
    <3>1. j \in 1..(n - 1)
      BY <1>1, <2>1
    <3> QED BY <1>2, <1>4, <2>1, <3>1
  <2>2. CASE j > i
    <3>1. j - 1 \in 1..(n - 1) /\ ~(j - 1 < i) /\ (j - 1) + 1 = j
      BY <1>1, <2>2
    <3> QED BY <1>2, <1>4, <2>2, <3>1
  <2> QED BY <1>1, <1>4, <2>1, <2>2
<1>6. u = s
  BY <1>4, <1>5, SeqEqual
<1> QED BY <1>6 DEF u, t

\* An appended element is inserted behind the last, and can be taken away.
LEMMA AppendInsert ==
  ASSUME NEW S, NEW s \in Seq(S), NEW e \in S
  PROVE  /\ InsertAt(s, Len(s) + 1, e) = Append(s, e)
         /\ RemoveAt(Append(s, e), Len(s) + 1) = s
<1> DEFINE n == Len(s)
           a == Append(s, e)
           u == InsertAt(s, n + 1, e)
           t == RemoveAt(a, n + 1)
<1>0. n \in Nat
  BY LenProperties
<1>1. a \in Seq(S) /\ Len(a) = n + 1 /\ (\A j \in 1..n : a[j] = s[j]) /\ a[n + 1] = e
  BY AppendProperties
<1>2. /\ u \in Seq(S) /\ Len(u) = n + 1
      /\ \A j \in 1..(n + 1) : j < n + 1 => u[j] = s[j]
      /\ u[n + 1] = e
  <2>1. n + 1 \in 1..(n + 1)
    BY <1>0
  <2>2. u \in Seq(S) /\ Len(u) = n + 1
    BY <2>1, InsertAtProperties
  <2> QED BY <2>1, <2>2, InsertedIs
<1> HIDE DEF a
<1>3. /\ t \in Seq(S) /\ Len(t) = n
      /\ \A j \in 1..n : t[j] = a[j]
  <2>1. n + 1 \in 1..Len(a)
    BY <1>0, <1>1
  <2>2. /\ t \in Seq(S) /\ Len(t) = Len(a) - 1
        /\ \A j \in 1..(Len(a) - 1) : t[j] = IF j < n + 1 THEN a[j] ELSE a[j + 1]
    BY <1>1, <2>1, RemoveAtProperties
  <2> QED BY <1>0, <1>1, <2>2
<1> HIDE DEF u, t
<1>4. u = a
  <2>1. \A j \in 1..Len(u) : u[j] = a[j]
    BY <1>0, <1>1, <1>2
  <2> QED BY <1>1, <1>2, <2>1, SeqEqual
<1>5. t = s
  <2>1. \A j \in 1..Len(t) : t[j] = s[j]
    BY <1>1, <1>3
  <2> QED BY <1>3, <2>1, SeqEqual DEF n
<1> QED BY <1>4, <1>5 DEF u, t, a, n

\* The place of an element.
LEMMA IndexOfIs ==
  ASSUME NEW S, NEW s \in Seq(S), NEW x
  PROVE  /\ x \in Range(s) => IndexOf(x, s) \in 1..Len(s) /\ s[IndexOf(x, s)] = x
         /\ x \notin Range(s) => IndexOf(x, s) = 0
         /\ IsInjective(s) => \A i \in 1..Len(s) : s[i] = x => IndexOf(x, s) = i
<1>0. DOMAIN s = 1..Len(s) /\ Len(s) \in Nat
  BY LenProperties
<1>1. ASSUME x \in Range(s) PROVE IndexOf(x, s) \in 1..Len(s) /\ s[IndexOf(x, s)] = x
  <2>1. \E i \in DOMAIN s : s[i] = x
    BY <1>1 DEF Range
  <2>2. IndexOf(x, s) = CHOOSE i \in DOMAIN s : s[i] = x
    BY <1>1 DEF IndexOf
  <2> QED BY <1>0, <2>1, <2>2
<1>2. x \notin Range(s) => IndexOf(x, s) = 0
  BY DEF IndexOf
<1>3. ASSUME IsInjective(s), NEW i \in 1..Len(s), s[i] = x PROVE IndexOf(x, s) = i
  <2>1. x \in Range(s)
    BY <1>0, <1>3 DEF Range
  <2> QED BY <1>0, <1>1, <1>3, <2>1 DEF IsInjective
<1> QED BY <1>1, <1>2, <1>3

\* What a move makes of a sequence of distinct slots.
LEMMA MoveDistinct ==
  ASSUME NEW S, NEW s \in Seq(S), IsInjective(s), NEW x \in Range(s), NEW to \in 1..Len(s)
  PROVE  LET t    == MoveSlot(s, x, to)
             from == IndexOf(x, s) IN
         /\ t \in Seq(S) /\ Len(t) = Len(s) /\ IsInjective(t) /\ Range(t) = Range(s)
         /\ t = InsertAt(RemoveAt(s, from), to, x)
         /\ t[to] = x
         /\ to <= from => \A j \in 1..(to - 1) : t[j] = s[j]
         /\ to = from => t = s
<1> DEFINE from == IndexOf(x, s)
           rest == RemoveAt(s, from)
           t    == InsertAt(rest, to, x)
           n    == Len(s)
<1>1. from \in 1..n /\ s[from] = x /\ n \in Nat /\ DOMAIN s = 1..n /\ x \in S
  BY IndexOfIs, LenProperties, ElementOfSeq
<1> HIDE DEF from
<1>2. /\ rest \in Seq(S) /\ Len(rest) = n - 1 /\ IsInjective(rest)
      /\ Range(rest) = Range(s) \ {x}
  BY <1>1, RemoveDistinct
<1>3. \A j \in 1..(n - 1) : rest[j] = IF j < from THEN s[j] ELSE s[j + 1]
  BY <1>1, RemoveAtProperties
<1> HIDE DEF rest
<1>4. MoveSlot(s, x, to) = t
  <2>1. MoveSlot(s, x, to) = InsertAt(rest, IF to > Len(rest) THEN Len(rest) + 1 ELSE to, x)
    BY DEF MoveSlot, rest, from
  <2>2. to > Len(rest) => to = Len(rest) + 1
    <3>1. Len(rest) = n - 1 /\ n \in Nat /\ to \in 1..n
      BY <1>1, <1>2
    <3> HIDE DEF n
    <3> QED BY <3>1
  <2> QED BY <2>1, <2>2
<1>5. to \in 1..(Len(rest) + 1)
  BY <1>1, <1>2
<1>6. /\ t \in Seq(S) /\ Len(t) = Len(rest) + 1 /\ IsInjective(t) /\ Range(t) = Range(rest) \cup {x}
  BY <1>1, <1>2, <1>5, InsertDistinct
<1>7. (\A j \in 1..(Len(rest) + 1) : j < to => t[j] = rest[j]) /\ t[to] = x
  BY <1>1, <1>2, <1>5, InsertedIs
<1>8. to = from => t = s
  BY <1>1, PutBack DEF rest
<1> HIDE DEF t
<1>9. ASSUME to <= from, NEW j \in 1..(to - 1) PROVE t[j] = s[j]
  <2>1. j \in 1..(n - 1) /\ j < to /\ j < from /\ j \in 1..(Len(rest) + 1)
    BY <1>1, <1>2, <1>9
  <2> QED BY <1>3, <1>7, <2>1
<1>10. Range(t) = Range(s) /\ Len(t) = n /\ t[to] = x
  BY <1>1, <1>2, <1>5, <1>6, <1>7
<1> QED BY <1>4, <1>6, <1>8, <1>9, <1>10 DEF t, rest, from

\* Distinct sequences of the same slots are equally long.
LEMMA SameLength ==
  ASSUME NEW S, NEW s \in Seq(S), IsInjective(s)
  PROVE  IsFiniteSet(Range(s)) /\ Cardinality(Range(s)) = Len(s)
<1>1. Len(s) \in Nat /\ DOMAIN s = 1..Len(s) /\ s \in [1..Len(s) -> S]
  BY LenProperties
<1>2. s \in [1..Len(s) -> Range(s)]
  BY <1>1 DEF Range
<1>3. s \in Bijection(1..Len(s), Range(s))
  BY <1>1, <1>2 DEF Bijection, Injection, Surjection, IsInjective, Range
<1>4. ExistsBijection(1..Len(s), Range(s))
  BY <1>3 DEF ExistsBijection
<1> QED BY <1>1, <1>4, FS_NatBijection, FS_CountingElements

-----------------------------------------------------------------------------
(* The run's commands.                                                     *)

Runs == [alive : BOOLEAN, slots : Seq(Slots), cur : Slots \cup {NoSlot}, idx : Nat,
         list : Seq(Slots), pos : Nat]

\* mpv holds the run's sequence, which names each of its slots once.
RunInv(r) ==
  /\ r \in Runs
  /\ r.list = r.slots /\ IsInjective(r.slots)
  /\ r.cur \in Range(r.slots) \cup {NoSlot}
  /\ r.pos \in 0..Len(r.list)

\* What cmd_queue_move makes of a sequence.
Moved(q, x, to) == IF x \notin Range(q) \/ to > Len(q) THEN q ELSE MoveSlot(q, x, to)

\* mpv's playlist-move and the run's own move come to the same order.
LEMMA MovesAgree ==
  ASSUME NEW list, NEW from \in Nat, NEW to \in Nat, from # to
  PROVE  PlaylistMove(list, from, PlaylistMoveTarget(from, to))
           = InsertAt(RemoveAt(list, from), to, list[from])
<1>1. CASE from < to
  <2>1. PlaylistMoveTarget(from, to) = to + 1
    BY <1>1 DEF PlaylistMoveTarget
  <2>2. from < to + 1 /\ (to + 1) - 1 = to
    BY <1>1
  <2> QED BY <2>1, <2>2 DEF PlaylistMove
<1>2. CASE ~(from < to)
  <2>1. PlaylistMoveTarget(from, to) = to
    BY <1>2 DEF PlaylistMoveTarget
  <2> QED BY <1>2, <2>1 DEF PlaylistMove
<1> QED BY <1>1, <1>2

\* cmd_queue_move keeps the run and mpv together.
LEMMA MoveDoes ==
  ASSUME NEW r, RunInv(r), NEW x, NEW to \in Nat \ {0}
  PROVE  LET t == CmdMove(r, x, to) IN
         /\ RunInv(t) /\ t.alive = r.alive /\ t.cur = r.cur
         /\ t.slots = Moved(r.slots, x, to)
         /\ t.slots \in Seq(Slots) /\ IsInjective(t.slots)
         /\ Range(t.slots) = Range(r.slots) /\ Len(t.slots) = Len(r.slots)
<1> DEFINE from == IndexOf(x, r.slots)
           list == PlaylistMove(r.list, from, PlaylistMoveTarget(from, to))
           idx  == ShiftIndexForMove(r.idx, from, to)
           pos  == IF r.pos = 0 THEN 0 ELSE IndexOf(r.list[r.pos], list)
           slots == MoveSlot(r.slots, x, to)
           s    == [r EXCEPT !.slots = slots, !.idx = idx, !.list = list, !.pos = pos]
<1>1. CmdMove(r, x, to) = IF from = 0 \/ to > Len(r.slots) \/ from = to THEN r ELSE s
  BY DEF CmdMove
<1>2. /\ r.slots \in Seq(Slots) /\ IsInjective(r.slots) /\ r.list = r.slots /\ r.idx \in Nat
      /\ r.pos \in 0..Len(r.list)
      /\ DOMAIN r.slots = 1..Len(r.slots) /\ Len(r.slots) \in Nat
  BY LenProperties DEF RunInv, Runs
<1>3. /\ x \in Range(r.slots) => from \in 1..Len(r.slots) /\ r.slots[from] = x
      /\ x \notin Range(r.slots) => from = 0
  BY <1>2, IndexOfIs
<1> HIDE DEF from
<1>4. CASE from = 0 \/ to > Len(r.slots)
  <2>1. Moved(r.slots, x, to) = r.slots
    BY <1>2, <1>3, <1>4 DEF Moved
  <2> QED BY <1>1, <1>2, <1>4, <2>1
<1>5. CASE ~(from = 0 \/ to > Len(r.slots))
  <2>1. /\ x \in Range(r.slots) /\ from \in 1..Len(r.slots) /\ r.slots[from] = x
        /\ to \in 1..Len(r.slots)
    BY <1>2, <1>3, <1>5
  <2>2. /\ slots \in Seq(Slots) /\ Len(slots) = Len(r.slots) /\ IsInjective(slots)
        /\ Range(slots) = Range(r.slots)
        /\ slots = InsertAt(RemoveAt(r.slots, from), to, x)
        /\ to = from => slots = r.slots
    BY <1>2, <2>1, MoveDistinct DEF from
  <2>3. Moved(r.slots, x, to) = slots
    BY <2>1, <1>2 DEF Moved
  <2>4. CASE from = to
    BY <1>1, <1>2, <2>2, <2>3, <2>4
  <2>5. CASE from # to
    <3>1. list = slots
      BY <1>2, <2>1, <2>2, <2>5, MovesAgree
    <3>2. idx \in Nat
      BY <1>2, <2>1, <2>5 DEF ShiftIndexForMove
    <3> HIDE DEF list, slots, idx
    <3>3. pos \in 0..Len(list)
      <4>1. CASE r.pos = 0
        BY <1>2, <2>2, <3>1, <4>1
      <4>2. CASE r.pos # 0
        <5>1. r.pos \in 1..Len(r.slots)
          BY <1>2, <4>2
        <5>2. r.list[r.pos] \in Range(list)
          <6>1. r.slots[r.pos] \in Range(r.slots)
            BY <1>2, <5>1 DEF Range
          <6> QED BY <1>2, <2>2, <3>1, <6>1
        <5>3. IndexOf(r.list[r.pos], list) \in 1..Len(list)
          BY <2>2, <3>1, <5>2, IndexOfIs
        <5> QED BY <4>2, <5>3
      <4> QED BY <4>1, <4>2
    <3>4. pos \in Nat
      BY <2>2, <1>2, <3>1, <3>3
    <3> HIDE DEF pos
    <3>5. /\ s \in Runs /\ s.slots = slots /\ s.list = list /\ s.pos = pos
          /\ s.cur = r.cur /\ s.alive = r.alive
      BY <2>2, <3>1, <3>2, <3>4 DEF RunInv, Runs
    <3> HIDE DEF s
    <3>6. RunInv(s)
      BY <2>2, <3>1, <3>3, <3>5 DEF RunInv
    <3> QED BY <1>1, <1>5, <2>2, <2>3, <2>5, <3>5, <3>6
  <2> QED BY <2>4, <2>5
<1> QED BY <1>4, <1>5

\* f computes the moves of cmd_queue_reorder for the first n positions.
ReorderUpTo(r, order, f, n) ==
  /\ f[0] = r
  /\ \A i \in 1..n : f[i] = CmdMove(f[i - 1], order[i], i)

\* The recursion in CmdReorder defines a function.
LEMMA ReorderRecursion ==
  ASSUME NEW r, NEW order \in Seq(Slots), IsSlotPermutation(r.slots, order)
  PROVE  \E f : ReorderUpTo(r, order, f, Len(order)) /\ CmdReorder(r, order) = f[Len(order)]
<1> DEFINE n == Len(order)
           Eq(f) == f = [i \in 0..n |-> IF i = 0 THEN r ELSE CmdMove(f[i - 1], order[i], i)]
           T == {i \in 0..n : \E f : f = [j \in 0..i |-> f[j]] /\ ReorderUpTo(r, order, f, i)}
<1>0. n \in Nat
  BY LenProperties
<1>1. 0 \in T
  <2>1. ReorderUpTo(r, order, [i \in 0..0 |-> r], 0)
    BY DEF ReorderUpTo
  <2> DEFINE g == [i \in 0..0 |-> r]
  <2>2. g = [j \in 0..0 |-> g[j]]
    OBVIOUS
  <2> QED BY <1>0, <2>1, <2>2
<1>2. ASSUME NEW i \in 0..(n - 1), i \in T PROVE i + 1 \in T
  <2>1. PICK f : f = [j \in 0..i |-> f[j]] /\ ReorderUpTo(r, order, f, i)
    BY <1>2
  <2> DEFINE g == [j \in 0..(i + 1) |-> IF j <= i THEN f[j] ELSE CmdMove(f[i], order[j], j)]
  <2>2. ReorderUpTo(r, order, g, i + 1)
    <3>1. ReorderUpTo(r, order, f, i)
      BY <2>1
    <3>2. (\A j \in 0..i : g[j] = f[j]) /\ (\A j \in 1..i : j - 1 \in 0..i)
      BY <1>0
    <3>3. g[i + 1] = CmdMove(f[i], order[i + 1], i + 1)
      BY <1>0
    <3>4. (i + 1) - 1 = i /\ 0 \in 0..i /\ i \in 0..i
      BY <1>0
    <3> HIDE DEF g
    <3>5. ASSUME NEW j \in 1..(i + 1) PROVE g[j] = CmdMove(g[j - 1], order[j], j)
      <4>1. CASE j = i + 1
        BY <3>2, <3>3, <3>4, <4>1
      <4>2. CASE j \in 1..i
        <5>1. g[j] = f[j] /\ g[j - 1] = f[j - 1]
          BY <3>2, <4>2
        <5>2. f[j] = CmdMove(f[j - 1], order[j], j)
          BY <3>1, <4>2 DEF ReorderUpTo
        <5> QED BY <5>1, <5>2
      <4> QED BY <1>0, <4>1, <4>2
    <3>6. g[0] = r
      BY <3>1, <3>2, <3>4 DEF ReorderUpTo
    <3> QED BY <3>5, <3>6 DEF ReorderUpTo
  <2>3. g = [j \in 0..(i + 1) |-> g[j]]
    OBVIOUS
  <2> QED BY <1>0, <2>2, <2>3
<1>3. n \in T
  <2> HIDE DEF T
  <2>1. 0..n \subseteq T
    BY <1>0, <1>1, <1>2, UpTo
  <2> QED BY <1>0, <2>1
<1>4. PICK f : f = [j \in 0..n |-> f[j]] /\ ReorderUpTo(r, order, f, n)
  BY <1>3
<1>5. Eq(f)
  <2>1. f = [i \in 0..n |-> f[i]]
    BY <1>4
  <2> DEFINE g == [i \in 0..n |-> IF i = 0 THEN r ELSE CmdMove(f[i - 1], order[i], i)]
  <2>2. ASSUME NEW i \in 0..n PROVE f[i] = g[i]
    <3>1. CASE i = 0
      BY <1>0, <1>4, <3>1 DEF ReorderUpTo
    <3>2. CASE i \in 1..n
      BY <1>0, <1>4, <3>2 DEF ReorderUpTo
    <3> QED BY <1>0, <3>1, <3>2
  <2>3. [i \in 0..n |-> f[i]] = [i \in 0..n |-> g[i]]
    <3> HIDE DEF g
    <3> QED BY <2>2
  <2>4. [i \in 0..n |-> g[i]] = g
    OBVIOUS
  <2> QED BY <2>1, <2>3, <2>4
<1>6. Eq(CHOOSE g : Eq(g))
  <2> HIDE DEF Eq
  <2> QED BY <1>5
<1> DEFINE u == CHOOSE g : Eq(g)
<1>7. CmdReorder(r, order) = u[n]
  BY DEF CmdReorder
<1>8. u = [i \in 0..n |-> IF i = 0 THEN r ELSE CmdMove(u[i - 1], order[i], i)]
  BY <1>6
<1> HIDE DEF u
<1>9. ReorderUpTo(r, order, u, n)
  <2>1. \A i \in 0..n : u[i] = IF i = 0 THEN r ELSE CmdMove(u[i - 1], order[i], i)
    BY <1>8
  <2> QED BY <1>0, <2>1 DEF ReorderUpTo
<1> QED BY <1>7, <1>9

\* cmd_queue_reorder, move by move from the front, comes to the order it was
\* given, in the run and in mpv.
LEMMA ReorderDoes ==
  ASSUME NEW r, RunInv(r), NEW order \in Seq(Slots), IsInjective(order)
  PROVE  LET t == CmdReorder(r, order) IN
         /\ RunInv(t) /\ t.alive = r.alive /\ t.cur = r.cur
         /\ t.slots = IF IsSlotPermutation(r.slots, order) THEN order ELSE r.slots
<1> DEFINE n == Len(order)
<1>0. n \in Nat /\ DOMAIN order = 1..n
  BY LenProperties
<1>1. CASE ~IsSlotPermutation(r.slots, order)
  BY <1>1 DEF CmdReorder
<1>2. CASE IsSlotPermutation(r.slots, order)
  <2>1. PICK f : ReorderUpTo(r, order, f, n) /\ CmdReorder(r, order) = f[n]
    BY <1>2, ReorderRecursion
  <2>2. Len(r.slots) = n /\ Range(r.slots) = Range(order)
    BY <1>2 DEF IsSlotPermutation
  <2> DEFINE Good(i) == /\ RunInv(f[i]) /\ f[i].alive = r.alive /\ f[i].cur = r.cur
                        /\ f[i].slots \in Seq(Slots) /\ IsInjective(f[i].slots)
                        /\ Len(f[i].slots) = n /\ Range(f[i].slots) = Range(order)
                        /\ \A j \in 1..i : f[i].slots[j] = order[j]
             T == {i \in 0..n : Good(i)}
  <2> HIDE DEF n
  <2>3. Good(0)
    BY <2>1, <2>2 DEF ReorderUpTo, RunInv, Runs
  <2>4. ASSUME NEW i \in 0..(n - 1), Good(i) PROVE Good(i + 1)
    <3> DEFINE q    == f[i].slots
               x    == order[i + 1]
               from == IndexOf(x, q)
               t    == CmdMove(f[i], x, i + 1)
    <3>1. i + 1 \in 1..n /\ (i + 1) - 1 = i /\ i + 1 \in Nat \ {0}
      BY <1>0
    <3>2. f[i + 1] = t
      BY <2>1, <3>1 DEF ReorderUpTo
    <3>3. /\ RunInv(t) /\ t.alive = f[i].alive /\ t.cur = f[i].cur
          /\ t.slots = Moved(q, x, i + 1)
          /\ t.slots \in Seq(Slots) /\ IsInjective(t.slots)
          /\ Range(t.slots) = Range(q) /\ Len(t.slots) = Len(q)
      BY <2>4, <3>1, MoveDoes
    <3>4. /\ q \in Seq(Slots) /\ IsInjective(q) /\ Len(q) = n /\ Range(q) = Range(order)
          /\ \A j \in 1..i : q[j] = order[j]
      BY <2>4
    <3> HIDE DEF t, q
    <3>5. x \in Range(q)
      BY <1>0, <3>1, <3>4 DEF Range
    <3>6. from \in 1..n /\ q[from] = x
      BY <3>4, <3>5, IndexOfIs
    <3>7. i + 1 <= from
      <4> SUFFICES ASSUME from <= i PROVE FALSE
        BY <1>0, <3>1, <3>6
      <4>1. from \in 1..i
        BY <1>0, <3>6
      <4>2. order[from] = order[i + 1]
        BY <3>4, <3>6, <4>1
      <4>3. from = i + 1
        BY <1>0, <3>1, <3>6, <4>2 DEF IsInjective
      <4> QED BY <1>0, <3>1, <4>1, <4>3
    <3>8. t.slots = MoveSlot(q, x, i + 1)
      BY <1>0, <3>1, <3>3, <3>4, <3>5 DEF Moved
    <3>9. t.slots[i + 1] = x /\ \A j \in 1..((i + 1) - 1) : t.slots[j] = q[j]
      BY <3>1, <3>4, <3>5, <3>7, <3>8, MoveDistinct
    <3>10. \A j \in 1..(i + 1) : t.slots[j] = order[j]
      BY <1>0, <3>1, <3>4, <3>9
    <3> QED BY <2>4, <3>2, <3>3, <3>4, <3>10
  <2>5. n \in T
    <3>1. 0 \in T
      BY <1>0, <2>3
    <3>2. \A i \in 0..(n - 1) : i \in T => i + 1 \in T
      <4> HIDE DEF Good
      <4> QED BY <1>0, <2>4
    <3> HIDE DEF T
    <3>3. 0..n \subseteq T
      BY <1>0, <3>1, <3>2, UpTo
    <3> QED BY <1>0, <3>3
  <2>6. f[n].slots = order
    <3>1. Good(n)
      BY <2>5
    <3> QED BY <3>1, SeqEqual DEF n
  <2> QED BY <1>2, <2>1, <2>5, <2>6
<1> QED BY <1>1, <1>2

\* The commands the owner sends: a move names a position, a reorder names
\* each slot once.
Commands ==
  {k \in [c : {"remove", "move", "append", "reorder", "stop"}, slot : Slots \cup {NoSlot},
          to : Nat, order : Seq(Slots)] :
     /\ k.c = "move" => k.to > 0
     /\ k.c = "append" => k.slot \in Slots
     /\ IsInjective(k.order)}

\* What cmd_queue_remove makes of a sequence.
Dropped(q, x) == IF x \in Range(q) THEN Without(q, x) ELSE q

\* What a command makes of the run's sequence.
Applied(q, k) ==
  CASE k.c = "remove"  -> Dropped(q, k.slot)
    [] k.c = "move"    -> Moved(q, k.slot, k.to)
    [] k.c = "append"  -> Append(q, k.slot)
    [] k.c = "reorder" -> IF IsSlotPermutation(q, k.order) THEN k.order ELSE q
    [] k.c = "stop"    -> q

\* remove_existing_slot leaves the other slots, in their order.
LEMMA DropDistinct ==
  ASSUME NEW S, NEW q \in Seq(S), IsInjective(q), NEW x
  PROVE  LET t == Dropped(q, x) IN
         /\ t \in Seq(S) /\ IsInjective(t) /\ Range(t) = Range(q) \ {x} /\ InOrder(t, q)
         /\ x \in Range(q) => Len(t) = Len(q) - 1
<1>1. CASE x \in Range(q)
  <2>1. IndexOf(x, q) \in 1..Len(q) /\ q[IndexOf(x, q)] = x
    BY <1>1, IndexOfIs
  <2>2. Dropped(q, x) = RemoveAt(q, IndexOf(x, q))
    BY <1>1 DEF Dropped, Without
  <2> QED BY <2>1, <2>2, RemoveDistinct
<1>2. CASE x \notin Range(q)
  <2>1. Dropped(q, x) = q
    BY <1>2 DEF Dropped
  <2>2. InOrder(q, q)
    BY DEF InOrder
  <2> QED BY <1>2, <2>1, <2>2
<1> QED BY <1>1, <1>2

\* A move keeps the slots, once each.
LEMMA MovedDistinct ==
  ASSUME NEW S, NEW q \in Seq(S), IsInjective(q), NEW x, NEW to \in Nat \ {0}
  PROVE  LET t == Moved(q, x, to) IN
         t \in Seq(S) /\ IsInjective(t) /\ Range(t) = Range(q)
<1>1. CASE x \notin Range(q) \/ to > Len(q)
  BY <1>1 DEF Moved
<1>2. CASE ~(x \notin Range(q) \/ to > Len(q))
  <2>1. x \in Range(q) /\ to \in 1..Len(q)
    BY <1>2, LenProperties
  <2>2. Moved(q, x, to) = MoveSlot(q, x, to)
    BY <1>2 DEF Moved
  <2> QED BY <2>1, <2>2, MoveDistinct
<1> QED BY <1>1, <1>2

\* Appending a new slot keeps every slot once.
LEMMA AppendDistinct ==
  ASSUME NEW S, NEW q \in Seq(S), IsInjective(q), NEW x \in S, x \notin Range(q)
  PROVE  LET t == Append(q, x) IN
         t \in Seq(S) /\ Len(t) = Len(q) + 1 /\ IsInjective(t) /\ Range(t) = Range(q) \cup {x}
<1>1. Len(q) + 1 \in 1..(Len(q) + 1)
  BY LenProperties
<1> DEFINE t == InsertAt(q, Len(q) + 1, x)
<1>2. t \in Seq(S) /\ Len(t) = Len(q) + 1 /\ IsInjective(t) /\ Range(t) = Range(q) \cup {x}
  BY <1>1, InsertDistinct
<1>3. t = Append(q, x)
  BY AppendInsert
<1> HIDE DEF t
<1> QED BY <1>2, <1>3

\* The append and the move that an insertion is sent as come to the insertion.
LEMMA AppendThenMove ==
  ASSUME NEW S, NEW q \in Seq(S), IsInjective(q), NEW x \in S, x \notin Range(q), NEW at \in 1..Len(q)
  PROVE  Moved(Append(q, x), x, at) = InsertAt(q, at, x)
<1> DEFINE a == Append(q, x)
           n == Len(q)
<1>1. n \in Nat
  BY LenProperties
<1>2. a \in Seq(S) /\ Len(a) = n + 1 /\ IsInjective(a) /\ Range(a) = Range(q) \cup {x}
  BY AppendDistinct
<1>3. a[n + 1] = x
  BY AppendProperties
<1>4. RemoveAt(a, n + 1) = q
  BY AppendInsert
<1> HIDE DEF a, n
<1>5. n + 1 \in 1..Len(a)
  BY <1>1, <1>2
<1>6. IndexOf(x, a) = n + 1
  BY <1>2, <1>3, <1>5, IndexOfIs
<1>7. x \in Range(a) /\ at \in 1..Len(a) /\ ~(at > Len(a))
  BY <1>1, <1>2 DEF n
<1>8. Moved(a, x, at) = MoveSlot(a, x, at)
  BY <1>7 DEF Moved
<1>9. MoveSlot(a, x, at) = InsertAt(RemoveAt(a, IndexOf(x, a)), at, x)
  BY <1>2, <1>7, MoveDistinct
<1>10. Moved(a, x, at) = InsertAt(q, at, x)
  BY <1>4, <1>6, <1>8, <1>9
<1> QED BY <1>10 DEF a

\* retain without one slot is remove_existing_slot of it.
LEMMA DropAgrees ==
  ASSUME NEW S, NEW q \in Seq(S), IsInjective(q), NEW x
  PROVE  Kept(q, S \ {x}) = Dropped(q, x)
<1> DEFINE d == Dropped(q, x)
           k == Kept(q, S \ {x})
<1>1. Range(q) \subseteq S
  BY LenProperties DEF Range
<1>2. d \in Seq(S) /\ IsInjective(d) /\ Range(d) = Range(q) \ {x} /\ InOrder(d, q)
  BY DropDistinct
<1>3. k \in Seq(S) /\ IsInjective(k) /\ Range(k) = Range(q) \cap (S \ {x}) /\ InOrder(k, q)
  BY KeptProperties, KeptInOrder
<1> HIDE DEF d, k
<1>4. Range(k) = Range(d)
  BY <1>1, <1>2, <1>3
<1>5. k = d
  BY <1>2, <1>3, <1>4, OrderIsUnique
<1> QED BY <1>5 DEF k, d

\* Forwarding the removed slots one by one comes to the owner's one removal.
LEMMA DropsAgree ==
  ASSUME NEW S, NEW q \in Seq(S), IsInjective(q), NEW x, NEW y
  PROVE  Kept(q, S \ {x, y}) = Dropped(Dropped(q, x), y)
<1> DEFINE d == Dropped(q, x)
           e == Dropped(d, y)
           k == Kept(q, S \ {x, y})
<1>1. Range(q) \subseteq S
  BY LenProperties DEF Range
<1>2. d \in Seq(S) /\ IsInjective(d) /\ Range(d) = Range(q) \ {x} /\ InOrder(d, q)
  BY DropDistinct
<1> HIDE DEF d
<1>3. e \in Seq(S) /\ IsInjective(e) /\ Range(e) = Range(d) \ {y} /\ InOrder(e, d)
  BY <1>2, DropDistinct
<1>4. k \in Seq(S) /\ IsInjective(k) /\ Range(k) = Range(q) \cap (S \ {x, y}) /\ InOrder(k, q)
  BY KeptProperties, KeptInOrder
<1> HIDE DEF e, k
<1>5. InOrder(e, q)
  BY <1>2, <1>3, InOrderTwice
<1>6. Range(k) = Range(e)
  BY <1>1, <1>2, <1>3, <1>4
<1>7. k = e
  BY <1>3, <1>4, <1>5, <1>6, OrderIsUnique
<1> QED BY <1>7 DEF k, d, e

\* An order of a set names each of its elements once.
LEMMA OrdersAre ==
  ASSUME NEW S, NEW T \in SUBSET S, IsFiniteSet(T), NEW o \in SetToSeqs(T)
  PROVE  o \in Seq(S) /\ Len(o) = Cardinality(T) /\ IsInjective(o) /\ Range(o) = T
<1> DEFINE n == Cardinality(T)
<1>1. n \in Nat
  BY FS_CardinalityType
<1>2. o \in [1..n -> T] /\ \A i, j \in 1..n : i # j => o[i] # o[j]
  BY DEF SetToSeqs
<1> HIDE DEF n
<1>3. o \in Injection(1..n, T)
  BY <1>2 DEF Injection, IsInjective
<1>4. IsFiniteSet(1..n) /\ Cardinality(1..n) = n
  BY <1>1, FS_Interval
<1>5. o \in Surjection(1..n, T)
  BY <1>3, <1>4, FS_Injection DEF n
<1>6. DOMAIN o = 1..n /\ o \in [1..n -> S]
  BY <1>2
<1>7. o \in Seq(S) /\ Len(o) = n
  BY <1>1, <1>6, LenProperties
<1>8. IsInjective(o)
  BY <1>2, <1>6 DEF IsInjective
<1>9. Range(o) = T
  BY <1>2, <1>5, <1>6 DEF Surjection, Range
<1> QED BY <1>7, <1>8, <1>9 DEF n

-----------------------------------------------------------------------------
(* Commands on their way.                                                  *)

\* f is what the commands cs make of q one by one: always slots of m, once
\* each.
Path(f, q, cs, m) ==
  /\ f[0] = q
  /\ \A i \in 1..Len(cs) : f[i] = Applied(f[i - 1], cs[i])
  /\ \A i \in 0..Len(cs) : f[i] \in Seq(Slots) /\ IsInjective(f[i]) /\ Range(f[i]) \subseteq m

\* The commands cs turn q into `last`.
Reaches(q, cs, m, last) == \E f : Path(f, q, cs, m) /\ f[Len(cs)] = last

\* No command changes nothing.
LEMMA ReachHere ==
  ASSUME NEW q, NEW m
  PROVE  /\ q \in Seq(Slots) /\ IsInjective(q) /\ Range(q) \subseteq m => Reaches(q, << >>, m, q)
         /\ \A last : Reaches(q, << >>, m, last) => last = q
<1>0. Len(<< >>) = 0
  OBVIOUS
<1>1. ASSUME q \in Seq(Slots), IsInjective(q), Range(q) \subseteq m PROVE Reaches(q, << >>, m, q)
  <2> DEFINE f == [i \in 0..0 |-> q]
  <2>1. f[0] = q /\ \A i \in 0..0 : f[i] = q
    OBVIOUS
  <2> HIDE DEF f
  <2>2. Path(f, q, << >>, m)
    BY <1>0, <1>1, <2>1 DEF Path
  <2> QED BY <1>0, <2>1, <2>2 DEF Reaches
<1>2. ASSUME NEW last, Reaches(q, << >>, m, last) PROVE last = q
  BY <1>0, <1>2 DEF Reaches, Path
<1> QED BY <1>1, <1>2

\* A command sent later is applied to what the earlier ones come to.
LEMMA ReachMore ==
  ASSUME NEW q, NEW cs \in Seq(Commands), NEW m, NEW last, Reaches(q, cs, m, last),
         NEW k \in Commands, NEW m2, m \subseteq m2,
         Applied(last, k) \in Seq(Slots), IsInjective(Applied(last, k)),
         Range(Applied(last, k)) \subseteq m2
  PROVE  Append(cs, k) \in Seq(Commands) /\ Reaches(q, Append(cs, k), m2, Applied(last, k))
<1> DEFINE n == Len(cs)
           ds == Append(cs, k)
           next == Applied(last, k)
<1>1. PICK f : Path(f, q, cs, m) /\ f[n] = last
  BY DEF Reaches
<1>2. /\ ds \in Seq(Commands) /\ n \in Nat /\ Len(ds) = n + 1
      /\ ds[n + 1] = k /\ \A i \in 1..n : ds[i] = cs[i]
  BY AppendProperties, LenProperties
<1>3. /\ f[0] = q
      /\ \A i \in 1..n : f[i] = Applied(f[i - 1], cs[i])
      /\ \A i \in 0..n : f[i] \in Seq(Slots) /\ IsInjective(f[i]) /\ Range(f[i]) \subseteq m
  BY <1>1 DEF Path
<1> HIDE DEF n, ds, next
<1> DEFINE g == [i \in 0..(n + 1) |-> IF i = n + 1 THEN next ELSE f[i]]
<1>4. (\A i \in 0..n : g[i] = f[i]) /\ g[n + 1] = next
  BY <1>2
<1> HIDE DEF g
<1>5. ASSUME NEW i \in 1..(n + 1) PROVE g[i] = Applied(g[i - 1], ds[i])
  <2>1. CASE i = n + 1
    <3>1. g[i - 1] = last /\ ds[i] = k
      BY <1>1, <1>2, <1>4, <2>1
    <3> QED BY <1>4, <2>1, <3>1 DEF next
  <2>2. CASE i \in 1..n
    <3>1. g[i] = f[i] /\ g[i - 1] = f[i - 1] /\ ds[i] = cs[i]
      BY <1>2, <1>4, <2>2
    <3> QED BY <1>3, <2>2, <3>1
  <2> QED BY <1>2, <2>1, <2>2
<1>6. ASSUME NEW i \in 0..(n + 1)
      PROVE  g[i] \in Seq(Slots) /\ IsInjective(g[i]) /\ Range(g[i]) \subseteq m2
  <2>1. CASE i = n + 1
    BY <1>4, <2>1 DEF next
  <2>2. CASE i \in 0..n
    <3>1. g[i] = f[i]
      BY <1>4, <2>2
    <3>2. f[i] \in Seq(Slots) /\ IsInjective(f[i]) /\ Range(f[i]) \subseteq m
      BY <1>3, <2>2
    <3> QED BY <3>1, <3>2
  <2> QED BY <1>2, <2>1, <2>2
<1>7. g[0] = q
  BY <1>2, <1>3, <1>4
<1>8. Path(g, q, ds, m2)
  BY <1>2, <1>5, <1>6, <1>7 DEF Path
<1>9. Reaches(q, ds, m2, next)
  BY <1>2, <1>4, <1>8 DEF Reaches
<1> QED BY <1>2, <1>9 DEF ds, next

\* The run applies the oldest command.
LEMMA ReachNext ==
  ASSUME NEW q, NEW cs \in Seq(Commands), cs # << >>, NEW m, NEW last, Reaches(q, cs, m, last)
  PROVE  LET t == Applied(q, Head(cs)) IN
         /\ Head(cs) \in Commands /\ Tail(cs) \in Seq(Commands)
         /\ t \in Seq(Slots) /\ IsInjective(t) /\ Range(t) \subseteq m
         /\ Reaches(t, Tail(cs), m, last)
<1> DEFINE n == Len(cs)
           ds == Tail(cs)
           t == Applied(q, Head(cs))
<1>1. PICK f : Path(f, q, cs, m) /\ f[n] = last
  BY DEF Reaches
<1>2. /\ ds \in Seq(Commands) /\ n \in Nat \ {0} /\ Len(ds) = n - 1
      /\ Head(cs) \in Commands /\ Head(cs) = cs[1]
      /\ \A i \in 1..(n - 1) : ds[i] = cs[i + 1]
  BY EmptySeq, HeadTailProperties
<1>3. /\ f[0] = q
      /\ \A i \in 1..n : f[i] = Applied(f[i - 1], cs[i])
      /\ \A i \in 0..n : f[i] \in Seq(Slots) /\ IsInjective(f[i]) /\ Range(f[i]) \subseteq m
  BY <1>1 DEF Path
<1> HIDE DEF n, ds
<1>4. f[1] = t
  <2>1. f[1] = Applied(f[1 - 1], cs[1])
    BY <1>2, <1>3
  <2> QED BY <1>2, <1>3, <2>1
<1> HIDE DEF t
<1> DEFINE g == [i \in 0..(n - 1) |-> f[i + 1]]
<1>5. \A i \in 0..(n - 1) : g[i] = f[i + 1]
  OBVIOUS
<1> HIDE DEF g
<1>6. ASSUME NEW i \in 1..(n - 1) PROVE g[i] = Applied(g[i - 1], ds[i])
  <2>1. g[i] = f[i + 1] /\ g[i - 1] = f[i] /\ ds[i] = cs[i + 1]
    <3>1. i \in 0..(n - 1) /\ i - 1 \in 0..(n - 1) /\ (i - 1) + 1 = i
      BY <1>2
    <3> QED BY <1>2, <1>5, <3>1
  <2>2. f[i + 1] = Applied(f[i], cs[i + 1])
    <3>1. i + 1 \in 1..n /\ (i + 1) - 1 = i
      BY <1>2
    <3> QED BY <1>3, <3>1
  <2> QED BY <2>1, <2>2
<1>7. ASSUME NEW i \in 0..(n - 1)
      PROVE  g[i] \in Seq(Slots) /\ IsInjective(g[i]) /\ Range(g[i]) \subseteq m
  <2>1. i + 1 \in 0..n
    BY <1>2
  <2> QED BY <1>3, <1>5, <2>1
<1>8. g[0] = t /\ g[n - 1] = last
  <2>1. 0 \in 0..(n - 1) /\ n - 1 \in 0..(n - 1) /\ (n - 1) + 1 = n /\ 0 + 1 = 1
    BY <1>2
  <2> QED BY <1>1, <1>4, <1>5, <2>1 DEF n
<1>9. Path(g, t, ds, m)
  BY <1>2, <1>6, <1>7, <1>8 DEF Path
<1>10. Reaches(t, ds, m, last)
  BY <1>2, <1>8, <1>9 DEF Reaches
<1>11. t \in Seq(Slots) /\ IsInjective(t) /\ Range(t) \subseteq m
  <2>1. 1 \in 0..n
    BY <1>2
  <2> QED BY <1>3, <1>4, <2>1
<1> QED BY <1>2, <1>10, <1>11 DEF ds, t

-----------------------------------------------------------------------------
(* The run handles a command.                                              *)

\* What HandleCommand makes of the run.
Done(r, k) ==
  CASE k.c = "remove"  -> CmdRemove(r, k.slot)
    [] k.c = "move"    -> [run |-> CmdMove(r, k.slot, k.to), sent |-> <<>>]
    [] k.c = "reorder" -> [run |-> CmdReorder(r, k.order), sent |-> <<>>]
    [] k.c = "append"  -> [run |-> CmdAppend(r, k.slot), sent |-> <<>>]
    [] k.c = "stop"    -> [run |-> [r EXCEPT !.alive = FALSE], sent |-> <<>>]

\* cmd_queue_remove takes the slot out of the run and of mpv's playlist.
LEMMA RemoveDoes ==
  ASSUME NEW r, RunInv(r), NEW x
  PROVE  LET t == CmdRemove(r, x).run IN
         /\ RunInv(t) /\ t.alive = r.alive /\ t.slots = Dropped(r.slots, x)
         /\ t.cur \in {r.cur, NoSlot}
<1> DEFINE at == IndexOf(x, r.slots)
           slots == RemoveAt(r.slots, at)
           mpv == PlaylistRemove(r, at)
           cur == IF r.cur = x THEN NoSlot ELSE r.cur
           s == [r EXCEPT !.slots = slots, !.cur = cur, !.list = mpv.list, !.pos = mpv.pos]
<1>1. /\ r.slots \in Seq(Slots) /\ IsInjective(r.slots) /\ r.list = r.slots
      /\ r.pos \in 0..Len(r.list) /\ r.cur \in Range(r.slots) \cup {NoSlot} /\ r \in Runs
      /\ Len(r.slots) \in Nat
  BY LenProperties DEF RunInv, Runs
<1>2. CASE x \notin Range(r.slots)
  <2>1. at = 0
    BY <1>1, <1>2, IndexOfIs
  <2> QED BY <1>2, <2>1 DEF CmdRemove, Dropped
<1>3. CASE x \in Range(r.slots)
  <2>1. at \in 1..Len(r.slots) /\ r.slots[at] = x
    BY <1>1, <1>3, IndexOfIs
  <2>2. CmdRemove(r, x).run = s
    <3>1. at # 0
      BY <2>1
    <3> HIDE DEF s
    <3>2. CmdRemove(r, x) = [run |-> s, sent |-> mpv.sent]
      BY <3>1 DEF CmdRemove, s
    <3> HIDE DEF mpv
    <3> QED BY <3>2
  <2>3. /\ slots \in Seq(Slots) /\ Len(slots) = Len(r.slots) - 1 /\ IsInjective(slots)
        /\ Range(slots) = Range(r.slots) \ {x}
    <3> HIDE DEF at
    <3>1. /\ slots \in Seq(Slots) /\ Len(slots) = Len(r.slots) - 1 /\ IsInjective(slots)
          /\ Range(slots) = Range(r.slots) \ {r.slots[at]}
      BY <1>1, <2>1, RemoveDistinct
    <3> HIDE DEF slots
    <3> QED BY <2>1, <3>1
  <2>4. slots = Dropped(r.slots, x)
    BY <1>3 DEF Dropped, Without
  <2>5. mpv.list = slots
    BY <1>1 DEF PlaylistRemove
  <2>6. mpv.pos \in 0..Len(slots) /\ mpv.pos \in Nat
    <3>1. mpv.pos = IF at < r.pos THEN r.pos - 1
                    ELSE IF at = r.pos /\ at > Len(slots) THEN 0 ELSE r.pos
      BY <1>1 DEF PlaylistRemove
    <3> HIDE DEF slots, at, mpv
    <3> QED BY <1>1, <2>1, <2>3, <3>1
  <2> HIDE DEF slots, mpv, at
  <2>7. /\ cur \in Range(slots) \cup {NoSlot} /\ cur \in Slots \cup {NoSlot}
        /\ cur \in {r.cur, NoSlot}
    BY <1>1, <2>3 DEF Runs
  <2> HIDE DEF cur
  <2>8. /\ s \in Runs /\ s.slots = slots /\ s.list = mpv.list /\ s.pos = mpv.pos
        /\ s.cur = cur /\ s.alive = r.alive
    BY <1>1, <2>3, <2>5, <2>6, <2>7 DEF Runs
  <2> HIDE DEF s
  <2>9. RunInv(s)
    BY <2>3, <2>5, <2>6, <2>7, <2>8 DEF RunInv
  <2> QED BY <2>2, <2>4, <2>7, <2>8, <2>9
<1> QED BY <1>2, <1>3

\* An append reaches the run and mpv's playlist.
LEMMA AppendDoes ==
  ASSUME NEW r, RunInv(r), NEW x \in Slots, IsInjective(Append(r.slots, x))
  PROVE  LET t == CmdAppend(r, x) IN
         RunInv(t) /\ t.alive = r.alive /\ t.cur = r.cur /\ t.slots = Append(r.slots, x)
<1> DEFINE slots == Append(r.slots, x)
           s == [r EXCEPT !.slots = slots, !.list = slots]
<1>1. /\ r.slots \in Seq(Slots) /\ r.list = r.slots /\ r \in Runs
      /\ r.pos \in 0..Len(r.list) /\ r.cur \in Range(r.slots) \cup {NoSlot}
  BY DEF RunInv, Runs
<1>2. CmdAppend(r, x) = s
  BY <1>1 DEF CmdAppend, Runs
<1>3. /\ slots \in Seq(Slots) /\ Len(slots) = Len(r.slots) + 1 /\ Len(r.slots) \in Nat
      /\ \A i \in 1..Len(r.slots) : slots[i] = r.slots[i]
      /\ DOMAIN r.slots = 1..Len(r.slots) /\ DOMAIN slots = 1..(Len(r.slots) + 1)
  BY <1>1, AppendProperties, LenProperties
<1> HIDE DEF slots
<1>4. Range(r.slots) \subseteq Range(slots)
  BY <1>3 DEF Range
<1>5. /\ s \in Runs /\ s.slots = slots /\ s.list = slots /\ s.pos = r.pos
      /\ s.cur = r.cur /\ s.alive = r.alive
  BY <1>1, <1>3 DEF Runs
<1> HIDE DEF s
<1>6. r.pos \in 0..Len(slots)
  BY <1>1, <1>3
<1>7. RunInv(s)
  BY <1>1, <1>4, <1>5, <1>6 DEF RunInv, slots
<1> QED BY <1>2, <1>5, <1>7 DEF slots

\* A command does to the run and to mpv's playlist what it says.
LEMMA CommandDoes ==
  ASSUME NEW r, RunInv(r), NEW k \in Commands, IsInjective(Applied(r.slots, k))
  PROVE  LET t == Done(r, k).run IN
         /\ RunInv(t) /\ t.slots = Applied(r.slots, k)
         /\ t.alive => r.alive /\ k.c # "stop"
         /\ t.cur \in {r.cur, NoSlot}
<1>0. /\ k.c \in {"remove", "move", "append", "reorder", "stop"}
      /\ k.to \in Nat /\ k.order \in Seq(Slots) /\ IsInjective(k.order)
  BY DEF Commands
<1>1. CASE k.c = "remove"
  <2>1. Done(r, k) = CmdRemove(r, k.slot) /\ Applied(r.slots, k) = Dropped(r.slots, k.slot)
    BY <1>1 DEF Done, Applied
  <2> QED BY <1>1, <2>1, RemoveDoes
<1>2. CASE k.c = "move"
  <2>1. /\ Done(r, k).run = CmdMove(r, k.slot, k.to)
        /\ Applied(r.slots, k) = Moved(r.slots, k.slot, k.to)
    BY <1>2 DEF Done, Applied
  <2>2. k.to \in Nat \ {0}
    BY <1>2 DEF Commands
  <2> QED BY <1>2, <2>1, <2>2, MoveDoes
<1>3. CASE k.c = "reorder"
  <2>1. /\ Done(r, k).run = CmdReorder(r, k.order)
        /\ Applied(r.slots, k) = IF IsSlotPermutation(r.slots, k.order) THEN k.order ELSE r.slots
    BY <1>3 DEF Done, Applied
  <2> QED BY <1>0, <1>3, <2>1, ReorderDoes
<1>4. CASE k.c = "append"
  <2>1. /\ Done(r, k).run = CmdAppend(r, k.slot)
        /\ Applied(r.slots, k) = Append(r.slots, k.slot)
    BY <1>4 DEF Done, Applied
  <2>2. k.slot \in Slots
    BY <1>4 DEF Commands
  <2> QED BY <1>4, <2>1, <2>2, AppendDoes
<1>5. CASE k.c = "stop"
  <2> DEFINE s == [r EXCEPT !.alive = FALSE]
  <2>1. Done(r, k).run = s /\ Applied(r.slots, k) = r.slots
    BY <1>5 DEF Done, Applied
  <2>2. /\ s \in Runs /\ s.slots = r.slots /\ s.list = r.list /\ s.cur = r.cur /\ s.pos = r.pos
        /\ s.alive = FALSE
    BY DEF RunInv, Runs
  <2> HIDE DEF s
  <2>3. RunInv(s)
    BY <2>2 DEF RunInv
  <2> QED BY <2>1, <2>2, <2>3
<1> QED BY <1>0, <1>1, <1>2, <1>3, <1>4, <1>5

-----------------------------------------------------------------------------
(* The inductive invariant.                                                *)

\* No command of cs ends the run.
Clear(cs) == \A i \in 1..Len(cs) : cs[i].c # "stop"

\* What the commands cs make of the run's sequence q holds every slot of the
\* owner's order, and is that order while nothing is consumed (c) or stopped.
Holds(c, q, cs, m, order) ==
  \E last : /\ Reaches(q, cs, m, last)
            /\ Range(order) \subseteq Range(last)
            /\ ~c /\ Clear(cs) => last = order

Owner ==
  /\ minted \subseteq Slots
  /\ queue \in Seq(Slots) /\ IsInjective(queue) /\ Range(queue) \subseteq minted
  /\ active \in Range(queue) \cup {NoSlot}
  /\ edits \in 0..MaxEdits /\ keys \in 0..MaxKeys

Run == RunInv(run) /\ Range(run.slots) \subseteq minted

OnTheWay ==
  /\ chan \in Seq(Commands)
  /\ run.alive => Holds(consumes, run.slots, chan, minted, queue)

IInv == Owner /\ Run /\ OnTheWay

\* Commands lead to sequences of distinct slots.
LEMMA ReachType ==
  ASSUME NEW q, NEW cs \in Seq(Commands), NEW m, NEW last, Reaches(q, cs, m, last)
  PROVE  last \in Seq(Slots) /\ IsInjective(last) /\ Range(last) \subseteq m
<1>1. PICK f : Path(f, q, cs, m) /\ f[Len(cs)] = last
  BY DEF Reaches
<1>2. Len(cs) \in 0..Len(cs)
  BY LenProperties
<1> QED BY <1>1, <1>2 DEF Path

\* One more command, sent with the owner's edit of its own order.
LEMMA HoldsMore ==
  ASSUME NEW c, NEW q, NEW cs \in Seq(Commands), NEW m, NEW order, Holds(c, q, cs, m, order),
         NEW m2, m \subseteq m2, NEW k \in Commands, NEW order2,
         \A last \in Seq(Slots) :
           IsInjective(last) /\ Range(last) \subseteq m /\ Range(order) \subseteq Range(last)
             => /\ Applied(last, k) \in Seq(Slots) /\ IsInjective(Applied(last, k))
                /\ Range(Applied(last, k)) \subseteq m2
                /\ Range(order2) \subseteq Range(Applied(last, k)),
         k.c # "stop" => Applied(order, k) = order2
  PROVE  Holds(c, q, Append(cs, k), m2, order2)
<1>1. PICK last : /\ Reaches(q, cs, m, last)
                  /\ Range(order) \subseteq Range(last)
                  /\ ~c /\ Clear(cs) => last = order
  BY DEF Holds
<1>2. last \in Seq(Slots) /\ IsInjective(last) /\ Range(last) \subseteq m
  BY <1>1, ReachType
<1>3. /\ Applied(last, k) \in Seq(Slots) /\ IsInjective(Applied(last, k))
      /\ Range(Applied(last, k)) \subseteq m2
      /\ Range(order2) \subseteq Range(Applied(last, k))
  BY <1>1, <1>2
<1>4. Reaches(q, Append(cs, k), m2, Applied(last, k))
  BY <1>1, <1>3, ReachMore
<1>5. Clear(Append(cs, k)) => Clear(cs) /\ k.c # "stop"
  <2>1. /\ Len(Append(cs, k)) = Len(cs) + 1 /\ Len(cs) \in Nat /\ Append(cs, k)[Len(cs) + 1] = k
        /\ \A i \in 1..Len(cs) : Append(cs, k)[i] = cs[i]
    BY AppendProperties, LenProperties
  <2>2. Len(cs) + 1 \in 1..(Len(cs) + 1) /\ \A i \in 1..Len(cs) : i \in 1..(Len(cs) + 1)
    BY <2>1
  <2> DEFINE ds == Append(cs, k)
  <2> HIDE DEF ds
  <2> QED BY <2>1, <2>2 DEF Clear, ds
<1>6. ~c /\ Clear(Append(cs, k)) => Applied(last, k) = order2
  BY <1>1, <1>5
<1> QED BY <1>3, <1>4, <1>6 DEF Holds

\* A move of the owner's order and the command that forwards it.
LEMMA MoveHolds ==
  ASSUME NEW c, NEW q, NEW cs \in Seq(Commands), NEW m, NEW order \in Seq(Slots), IsInjective(order),
         Holds(c, q, cs, m, order), NEW k \in Commands, k.c = "move"
  PROVE  Holds(c, q, Append(cs, k), m, Moved(order, k.slot, k.to))
<1>1. k.to \in Nat \ {0}
  BY DEF Commands
<1>2. \A t : Applied(t, k) = Moved(t, k.slot, k.to)
  BY DEF Applied
<1>3. Range(Moved(order, k.slot, k.to)) = Range(order)
  BY <1>1, MovedDistinct
<1>4. ASSUME NEW last \in Seq(Slots), IsInjective(last), Range(last) \subseteq m,
             Range(order) \subseteq Range(last)
      PROVE  /\ Applied(last, k) \in Seq(Slots) /\ IsInjective(Applied(last, k))
             /\ Range(Applied(last, k)) \subseteq m
             /\ Range(Moved(order, k.slot, k.to)) \subseteq Range(Applied(last, k))
  <2>1. /\ Applied(last, k) \in Seq(Slots) /\ IsInjective(Applied(last, k))
        /\ Range(Applied(last, k)) = Range(last)
    BY <1>1, <1>2, <1>4, MovedDistinct
  <2> QED BY <1>3, <1>4, <2>1
<1> DEFINE d == Moved(order, k.slot, k.to)
<1>6. \A last \in Seq(Slots) :
        IsInjective(last) /\ Range(last) \subseteq m /\ Range(order) \subseteq Range(last)
          => /\ Applied(last, k) \in Seq(Slots) /\ IsInjective(Applied(last, k))
             /\ Range(Applied(last, k)) \subseteq m
             /\ Range(d) \subseteq Range(Applied(last, k))
  BY <1>4
<1>7. k.c # "stop" => Applied(order, k) = d
  BY <1>2
<1> HIDE DEF d
<1>8. m \subseteq m
  OBVIOUS
<1>9. Holds(c, q, Append(cs, k), m, d)
  BY <1>6, <1>7, <1>8, HoldsMore
<1> QED BY <1>9 DEF d

\* A new slot behind the owner's order and the command that forwards it.
LEMMA AppendHolds ==
  ASSUME NEW c, NEW q, NEW cs \in Seq(Commands), NEW m, NEW order \in Seq(Slots), IsInjective(order),
         Holds(c, q, cs, m, order), Range(order) \subseteq m,
         NEW k \in Commands, k.c = "append", k.slot \notin m
  PROVE  Holds(c, q, Append(cs, k), m \cup {k.slot}, Append(order, k.slot))
<1>1. k.slot \in Slots
  BY DEF Commands
<1>2. \A t : Applied(t, k) = Append(t, k.slot)
  BY DEF Applied
<1>3. Range(Append(order, k.slot)) = Range(order) \cup {k.slot}
  <2>1. k.slot \notin Range(order)
    OBVIOUS
  <2> QED BY <1>1, <2>1, AppendDistinct
<1>4. ASSUME NEW last \in Seq(Slots), IsInjective(last), Range(last) \subseteq m,
             Range(order) \subseteq Range(last)
      PROVE  /\ Applied(last, k) \in Seq(Slots) /\ IsInjective(Applied(last, k))
             /\ Range(Applied(last, k)) \subseteq m \cup {k.slot}
             /\ Range(Append(order, k.slot)) \subseteq Range(Applied(last, k))
  <2>1. k.slot \notin Range(last)
    BY <1>4
  <2>2. /\ Append(last, k.slot) \in Seq(Slots) /\ IsInjective(Append(last, k.slot))
        /\ Range(Append(last, k.slot)) = Range(last) \cup {k.slot}
    BY <1>1, <1>4, <2>1, AppendDistinct
  <2> QED BY <1>2, <1>3, <1>4, <2>2
<1>6. \A last \in Seq(Slots) :
        IsInjective(last) /\ Range(last) \subseteq m /\ Range(order) \subseteq Range(last)
          => /\ Applied(last, k) \in Seq(Slots) /\ IsInjective(Applied(last, k))
             /\ Range(Applied(last, k)) \subseteq m \cup {k.slot}
             /\ Range(Append(order, k.slot)) \subseteq Range(Applied(last, k))
  BY <1>4
<1>7. k.c # "stop" => Applied(order, k) = Append(order, k.slot)
  BY <1>2
<1>8. m \subseteq m \cup {k.slot}
  OBVIOUS
<1> QED BY <1>6, <1>7, <1>8, HoldsMore

\* A slot taken out of the owner's order and the command that forwards it.
LEMMA DropHolds ==
  ASSUME NEW c, NEW q, NEW cs \in Seq(Commands), NEW m, NEW order \in Seq(Slots), IsInjective(order),
         Holds(c, q, cs, m, order), NEW k \in Commands, k.c = "remove"
  PROVE  Holds(c, q, Append(cs, k), m, Dropped(order, k.slot))
<1>1. \A t : Applied(t, k) = Dropped(t, k.slot)
  BY DEF Applied
<1>2. Range(Dropped(order, k.slot)) = Range(order) \ {k.slot}
  BY DropDistinct
<1>3. ASSUME NEW last \in Seq(Slots), IsInjective(last), Range(last) \subseteq m,
             Range(order) \subseteq Range(last)
      PROVE  /\ Applied(last, k) \in Seq(Slots) /\ IsInjective(Applied(last, k))
             /\ Range(Applied(last, k)) \subseteq m
             /\ Range(Dropped(order, k.slot)) \subseteq Range(Applied(last, k))
  <2>1. /\ Dropped(last, k.slot) \in Seq(Slots) /\ IsInjective(Dropped(last, k.slot))
        /\ Range(Dropped(last, k.slot)) = Range(last) \ {k.slot}
    BY <1>3, DropDistinct
  <2> QED BY <1>1, <1>2, <1>3, <2>1
<1> DEFINE d == Dropped(order, k.slot)
<1>6. \A last \in Seq(Slots) :
        IsInjective(last) /\ Range(last) \subseteq m /\ Range(order) \subseteq Range(last)
          => /\ Applied(last, k) \in Seq(Slots) /\ IsInjective(Applied(last, k))
             /\ Range(Applied(last, k)) \subseteq m
             /\ Range(d) \subseteq Range(Applied(last, k))
  BY <1>3
<1>7. k.c # "stop" => Applied(order, k) = d
  BY <1>1
<1> HIDE DEF d
<1>8. m \subseteq m
  OBVIOUS
<1>9. Holds(c, q, Append(cs, k), m, d)
  BY <1>6, <1>7, <1>8, HoldsMore
<1> QED BY <1>9 DEF d

\* A new order of the same slots and the command that forwards it.
LEMMA ReorderHolds ==
  ASSUME NEW c, NEW q, NEW cs \in Seq(Commands), NEW m, NEW order \in Seq(Slots), IsInjective(order),
         Holds(c, q, cs, m, order), Range(order) \subseteq m,
         NEW k \in Commands, k.c = "reorder", Range(k.order) = Range(order)
  PROVE  Holds(c, q, Append(cs, k), m, k.order)
<1>1. \A t : Applied(t, k) = IF IsSlotPermutation(t, k.order) THEN k.order ELSE t
  BY DEF Applied
<1>2. k.order \in Seq(Slots) /\ IsInjective(k.order)
  BY DEF Commands
<1>3. Len(k.order) = Len(order)
  BY <1>2, SameLength
<1>4. Applied(order, k) = k.order
  BY <1>1, <1>3 DEF IsSlotPermutation
<1>5. ASSUME NEW last \in Seq(Slots), IsInjective(last), Range(last) \subseteq m,
             Range(order) \subseteq Range(last)
      PROVE  /\ Applied(last, k) \in Seq(Slots) /\ IsInjective(Applied(last, k))
             /\ Range(Applied(last, k)) \subseteq m
             /\ Range(k.order) \subseteq Range(Applied(last, k))
  BY <1>1, <1>2, <1>5
<1> QED BY <1>4, <1>5, HoldsMore

\* Stopping the run instead of emptying its sequence.
LEMMA StopHolds ==
  ASSUME NEW c, NEW q, NEW cs \in Seq(Commands), NEW m, NEW order \in Seq(Slots),
         Holds(c, q, cs, m, order), NEW k \in Commands, k.c = "stop"
  PROVE  Holds(c, q, Append(cs, k), m, << >>)
<1>1. \A t : Applied(t, k) = t
  BY DEF Applied
<1>2. Range(<< >>) = {}
  BY EmptySeq DEF Range
<1>3. ASSUME NEW last \in Seq(Slots), IsInjective(last), Range(last) \subseteq m,
             Range(order) \subseteq Range(last)
      PROVE  /\ Applied(last, k) \in Seq(Slots) /\ IsInjective(Applied(last, k))
             /\ Range(Applied(last, k)) \subseteq m
             /\ Range(<< >>) \subseteq Range(Applied(last, k))
  BY <1>1, <1>2, <1>3
<1>6. \A last \in Seq(Slots) :
        IsInjective(last) /\ Range(last) \subseteq m /\ Range(order) \subseteq Range(last)
          => /\ Applied(last, k) \in Seq(Slots) /\ IsInjective(Applied(last, k))
             /\ Range(Applied(last, k)) \subseteq m
             /\ Range(<< >>) \subseteq Range(Applied(last, k))
  BY <1>3
<1>7. k.c # "stop" => Applied(order, k) = << >>
  BY <1>1
<1>8. m \subseteq m
  OBVIOUS
<1> QED BY <1>6, <1>7, <1>8, HoldsMore

\* Two commands are sent one behind the other.
LEMMA TwoSent ==
  ASSUME NEW S, NEW cs \in Seq(S), NEW ks \in Seq(S)
  PROVE  /\ Len(ks) = 1 => cs \o ks = Append(cs, ks[1])
         /\ Len(ks) = 2 => cs \o ks = Append(Append(cs, ks[1]), ks[2])
<1> DEFINE n == Len(cs)
           l == cs \o ks
<1>1. /\ l \in Seq(S) /\ Len(l) = n + Len(ks) /\ n \in Nat
      /\ \A i \in 1..(n + Len(ks)) : l[i] = IF i <= n THEN cs[i] ELSE ks[i - n]
  BY ConcatProperties, LenProperties
<1>2. ASSUME Len(ks) = 1 PROVE l = Append(cs, ks[1])
  <2> DEFINE a == Append(cs, ks[1])
  <2>0. ks[1] \in S
    BY <1>2, ElementOfSeq
  <2>1. a \in Seq(S) /\ Len(a) = n + 1 /\ (\A i \in 1..n : a[i] = cs[i]) /\ a[n + 1] = ks[1]
    BY <2>0, AppendProperties
  <2> HIDE DEF n, l, a
  <2>2. \A i \in 1..(n + 1) : l[i] = a[i]
    BY <1>1, <1>2, <2>1
  <2> QED BY <1>1, <1>2, <2>1, <2>2, SeqEqual DEF a
<1>3. ASSUME Len(ks) = 2 PROVE l = Append(Append(cs, ks[1]), ks[2])
  <2> DEFINE a == Append(cs, ks[1])
             b == Append(a, ks[2])
  <2>0. ks[1] \in S /\ ks[2] \in S
    BY <1>3, ElementOfSeq
  <2>1. a \in Seq(S) /\ Len(a) = n + 1 /\ (\A i \in 1..n : a[i] = cs[i]) /\ a[n + 1] = ks[1]
    BY <2>0, AppendProperties
  <2> HIDE DEF n, a
  <2>2. b \in Seq(S) /\ Len(b) = n + 2 /\ (\A i \in 1..(n + 1) : b[i] = a[i]) /\ b[n + 2] = ks[2]
    <3>1. /\ b \in Seq(S) /\ Len(b) = Len(a) + 1 /\ (\A i \in 1..Len(a) : b[i] = a[i])
          /\ b[Len(a) + 1] = ks[2]
      BY <2>0, <2>1, AppendProperties
    <3>2. (n + 1) + 1 = n + 2
      BY <1>1
    <3> HIDE DEF b
    <3> QED BY <2>1, <3>1, <3>2
  <2> HIDE DEF l, b
  <2>3. ASSUME NEW i \in 1..(n + 2) PROVE l[i] = b[i]
    <3>1. CASE i \in 1..n
      BY <1>1, <1>3, <2>1, <2>2, <3>1
    <3>2. CASE i = n + 1
      BY <1>1, <1>3, <2>1, <2>2, <3>2
    <3>3. CASE i = n + 2
      BY <1>1, <1>3, <2>2, <3>3
    <3> QED BY <1>1, <3>1, <3>2, <3>3
  <2> QED BY <1>1, <1>3, <2>2, <2>3, SeqEqual DEF a, b
<1> QED BY <1>2, <1>3

-----------------------------------------------------------------------------
(* The owner's edits keep the invariant.                                   *)

\* An edit of the owner that keeps its order a set of minted slots, and whose
\* commands keep up with it.
LEMMA EditKeeps ==
  ASSUME IInv, NEW kind, NEW q, NEW a, NEW ks, Edit(kind, q, a, ks), UNCHANGED consumes,
         minted \subseteq minted', minted' \subseteq Slots,
         q \in Seq(Slots), IsInjective(q), Range(q) \subseteq minted',
         a \in Range(q) \cup {NoSlot},
         chan \o ks \in Seq(Commands),
         run.alive => Holds(consumes, run.slots, chan \o ks, minted', q)
  PROVE  IInv'
<1>1. /\ queue' = q /\ active' = a /\ chan' = chan \o ks /\ run' = run /\ consumes' = consumes
      /\ edits < MaxEdits /\ edits' = edits + 1 /\ keys' = keys
  BY DEF Edit
<1>2. /\ RunInv(run) /\ Range(run.slots) \subseteq minted
      /\ edits \in 0..MaxEdits /\ keys \in 0..MaxKeys
  BY DEF IInv, Owner, Run
<1>3. edits' \in 0..MaxEdits /\ keys' \in 0..MaxKeys
  BY <1>1, <1>2, RunQueueAssumption
<1>4. Owner'
  BY <1>1, <1>3 DEF Owner
<1>5. Run'
  <2>1. RunInv(run')
    BY <1>1, <1>2
  <2>2. Range(run'.slots) \subseteq minted'
    BY <1>1, <1>2
  <2> QED BY <2>1, <2>2 DEF Run
<1>6. OnTheWay'
  BY <1>1 DEF OnTheWay
<1> QED BY <1>4, <1>5, <1>6 DEF IInv

\* A removal keeps the invariant.
LEMMA RemoveSlotsKeeps ==
  ASSUME IInv, RemoveSlots, UNCHANGED consumes
  PROVE  IInv'
<1>1. PICK gone \in SUBSET Range(queue) :
        /\ Cardinality(gone) \in 1..2
        /\ LET left == Kept(queue, Slots \ gone)
               picked == Kept(queue, gone)
               cmds == [i \in 1..Cardinality(gone) |->
                          [c |-> "remove", slot |-> picked[i], to |-> 0, order |-> <<>>]]
           IN /\ Edit("remove", left, IF active \in gone THEN NoSlot ELSE active,
                      IF left = <<>> THEN <<[c |-> "stop", slot |-> NoSlot, to |-> 0, order |-> <<>>]>> ELSE cmds)
              /\ UNCHANGED minted
  BY DEF RemoveSlots
<1> DEFINE left == Kept(queue, Slots \ gone)
           picked == Kept(queue, gone)
           n == Cardinality(gone)
           Removal(i) == [c |-> "remove", slot |-> picked[i], to |-> 0, order |-> <<>>]
           cmds == [i \in 1..n |-> Removal(i)]
           stop == [c |-> "stop", slot |-> NoSlot, to |-> 0, order |-> <<>>]
           ks == IF left = <<>> THEN <<stop>> ELSE cmds
           a == IF active \in gone THEN NoSlot ELSE active
<1>2. /\ Edit("remove", left, a, ks) /\ minted' = minted /\ n \in 1..2
  BY <1>1
<1>3. /\ minted \subseteq Slots /\ queue \in Seq(Slots) /\ IsInjective(queue)
      /\ Range(queue) \subseteq minted /\ active \in Range(queue) \cup {NoSlot}
      /\ chan \in Seq(Commands)
      /\ run.alive => Holds(consumes, run.slots, chan, minted, queue)
  BY DEF IInv, Owner, OnTheWay
<1>4. left \in Seq(Slots) /\ IsInjective(left) /\ Range(left) = Range(queue) \cap (Slots \ gone)
  BY <1>3, KeptProperties
<1>5. picked \in Seq(Slots) /\ IsInjective(picked) /\ Range(picked) = gone
  <2>1. Range(picked) = Range(queue) \cap gone
    BY <1>3, KeptProperties
  <2> QED BY <1>3, <2>1, KeptProperties
<1>6. Len(picked) = n /\ DOMAIN picked = 1..n /\ \A i \in 1..n : picked[i] \in Slots
  BY <1>5, SameLength, LenProperties, ElementOfSeq
<1>7. n = 1 => left = Dropped(queue, picked[1])
  <2> SUFFICES ASSUME n = 1 PROVE left = Dropped(queue, picked[1])
    OBVIOUS
  <2>1. gone = {picked[1]}
    <3> HIDE DEF picked, n
    <3> QED BY <1>5, <1>6 DEF Range
  <2>2. Kept(queue, Slots \ {picked[1]}) = Dropped(queue, picked[1])
    <3> HIDE DEF picked
    <3> QED BY <1>3, DropAgrees
  <2> HIDE DEF picked
  <2> QED BY <2>1, <2>2
<1>8. n = 2 => left = Dropped(Dropped(queue, picked[1]), picked[2])
  <2> SUFFICES ASSUME n = 2 PROVE left = Dropped(Dropped(queue, picked[1]), picked[2])
    OBVIOUS
  <2>1. gone = {picked[1], picked[2]}
    <3> HIDE DEF picked, n
    <3>1. 1..n = {1, 2}
      OBVIOUS
    <3> QED BY <1>5, <1>6, <3>1 DEF Range
  <2>2. Kept(queue, Slots \ {picked[1], picked[2]}) = Dropped(Dropped(queue, picked[1]), picked[2])
    <3> HIDE DEF picked
    <3> QED BY <1>3, DropsAgree
  <2> HIDE DEF picked
  <2> QED BY <2>1, <2>2
<1>9. a \in Range(left) \cup {NoSlot}
  BY <1>3, <1>4
<1> HIDE DEF left, picked, n, a
<1>10. <<>> \in Seq(Slots) /\ IsInjective(<<>>)
  BY EmptySeq DEF IsInjective
<1>11. chan \o ks \in Seq(Commands) /\ (run.alive => Holds(consumes, run.slots, chan \o ks, minted, left))
  <2>1. CASE left = <<>>
    <3>1. stop \in Commands /\ stop.c = "stop"
      BY <1>10 DEF Commands
    <3> HIDE DEF stop
    <3>2. ks = <<stop>>
      BY <2>1
    <3>3. ks \in Seq(Commands) /\ Len(ks) = 1 /\ ks[1] = stop
      BY <3>1, <3>2
    <3> HIDE DEF ks
    <3>4. chan \o ks = Append(chan, stop)
      BY <1>3, <3>3, TwoSent
    <3>5. Append(chan, stop) \in Seq(Commands)
      BY <1>3, <3>1, AppendProperties
    <3>6. run.alive => Holds(consumes, run.slots, Append(chan, stop), minted, left)
      BY <1>3, <2>1, <3>1, StopHolds
    <3> QED BY <3>4, <3>5, <3>6
  <2>2. CASE left # <<>>
    <3>1. \A i \in 1..n : Removal(i) \in Commands /\ Removal(i).c = "remove" /\ Removal(i).slot = picked[i]
      BY <1>6, <1>10 DEF Commands
    <3> HIDE DEF Removal
    <3>2. cmds \in Seq(Commands) /\ Len(cmds) = n /\ \A i \in 1..n : cmds[i] = Removal(i)
      BY <1>2, <3>1
    <3>3. ks = cmds
      BY <2>2
    <3> HIDE DEF ks, cmds
    <3> DEFINE one == Append(chan, Removal(1))
               two == Append(one, Removal(2))
               d1 == Dropped(queue, picked[1])
               d2 == Dropped(d1, picked[2])
    <3>4. Removal(1) \in Commands /\ Removal(1).c = "remove" /\ Removal(1).slot = picked[1]
      BY <1>2, <3>1
    <3>5. one \in Seq(Commands) /\ (run.alive => Holds(consumes, run.slots, one, minted, d1))
      <4>1. one \in Seq(Commands)
        BY <1>3, <3>4, AppendProperties
      <4>2. ASSUME run.alive PROVE Holds(consumes, run.slots, one, minted, Dropped(queue, Removal(1).slot))
        BY <1>3, <3>4, <4>2, DropHolds
      <4> QED BY <3>4, <4>1, <4>2
    <3>6. d1 \in Seq(Slots) /\ IsInjective(d1)
      BY <1>3, DropDistinct
    <3> HIDE DEF one, d1
    <3>7. CASE n = 1
      <4>1. chan \o ks = one
        BY <1>3, <3>2, <3>3, <3>7, TwoSent DEF one
      <4> QED BY <1>7, <3>5, <3>7, <4>1 DEF d1
    <3>8. CASE n = 2
      <4>1. Removal(2) \in Commands /\ Removal(2).c = "remove" /\ Removal(2).slot = picked[2]
        BY <3>1, <3>8
      <4>2. two \in Seq(Commands)
        BY <3>5, <4>1, AppendProperties
      <4>3. ASSUME run.alive PROVE Holds(consumes, run.slots, two, minted, Dropped(d1, Removal(2).slot))
        BY <3>5, <3>6, <4>1, <4>3, DropHolds
      <4>4. chan \o ks = two
        BY <1>3, <3>2, <3>3, <3>8, TwoSent DEF one
      <4>5. left = d2
        BY <1>8, <3>8 DEF d1
      <4> HIDE DEF two
      <4> QED BY <4>1, <4>2, <4>3, <4>4, <4>5
    <3> QED BY <1>2, <3>7, <3>8
  <2> QED BY <2>1, <2>2
<1>12. Range(left) \subseteq minted /\ minted \subseteq minted' /\ minted' \subseteq Slots
  BY <1>2, <1>3, <1>4
<1> HIDE DEF ks
<1> QED BY <1>2, <1>4, <1>9, <1>11, <1>12, EditKeeps

\* A move keeps the invariant.
LEMMA MoveOneSlotKeeps ==
  ASSUME IInv, MoveOneSlot, UNCHANGED consumes
  PROVE  IInv'
<1>1. PICK s \in Range(queue), to \in DOMAIN queue :
        /\ Edit("move", MoveSlot(queue, s, to), active,
                <<[c |-> "move", slot |-> s, to |-> to, order |-> <<>>]>>)
        /\ UNCHANGED minted
  BY DEF MoveOneSlot
<1> DEFINE k == [c |-> "move", slot |-> s, to |-> to, order |-> <<>>]
           ks == <<k>>
           q == MoveSlot(queue, s, to)
<1>2. /\ minted \subseteq Slots /\ queue \in Seq(Slots) /\ IsInjective(queue)
      /\ Range(queue) \subseteq minted /\ active \in Range(queue) \cup {NoSlot}
      /\ chan \in Seq(Commands)
      /\ run.alive => Holds(consumes, run.slots, chan, minted, queue)
  BY DEF IInv, Owner, OnTheWay
<1>3. to \in 1..Len(queue) /\ to \in Nat /\ to > 0 /\ s \in Slots /\ Len(queue) \in Nat
  BY <1>2, LenProperties
<1>4. q \in Seq(Slots) /\ IsInjective(q) /\ Range(q) = Range(queue)
  BY <1>2, <1>3, MoveDistinct
<1>5. q = Moved(queue, s, to)
  BY <1>3 DEF Moved
<1>6. k \in Commands /\ k.c = "move" /\ k.slot = s /\ k.to = to
  BY <1>3, EmptySeq DEF Commands, IsInjective
<1> HIDE DEF k, q
<1>7. ks \in Seq(Commands) /\ Len(ks) = 1 /\ ks[1] = k
  BY <1>6
<1>8. Edit("move", q, active, ks) /\ minted' = minted
  BY <1>1 DEF k, q
<1> HIDE DEF ks
<1>9. chan \o ks = Append(chan, k)
  BY <1>2, <1>7, TwoSent
<1>10. Append(chan, k) \in Seq(Commands)
  BY <1>2, <1>6, AppendProperties
<1>11. ASSUME run.alive PROVE Holds(consumes, run.slots, Append(chan, k), minted, Moved(queue, k.slot, k.to))
  BY <1>2, <1>6, <1>11, MoveHolds
<1>12. run.alive => Holds(consumes, run.slots, Append(chan, k), minted, q)
  BY <1>5, <1>6, <1>11
<1> QED BY <1>2, <1>4, <1>8, <1>9, <1>10, <1>12, EditKeeps

\* An insertion keeps the invariant.
LEMMA AppendSlotKeeps ==
  ASSUME IInv, AppendSlot, UNCHANGED consumes
  PROVE  IInv'
<1>1. PICK s \in Slots \ minted, at \in 1..(Len(queue) + 1) :
        /\ Edit("append", InsertAt(queue, at, s), active,
                <<[c |-> "append", slot |-> s, to |-> 0, order |-> <<>>]>>
                \o (IF at <= Len(queue) THEN <<[c |-> "move", slot |-> s, to |-> at, order |-> <<>>]>> ELSE <<>>))
        /\ minted' = minted \cup {s}
  BY DEF AppendSlot
<1> DEFINE k1 == [c |-> "append", slot |-> s, to |-> 0, order |-> <<>>]
           k2 == [c |-> "move", slot |-> s, to |-> at, order |-> <<>>]
           ks == <<k1>> \o (IF at <= Len(queue) THEN <<k2>> ELSE <<>>)
           q == InsertAt(queue, at, s)
           m == minted \cup {s}
           one == Append(chan, k1)
           two == Append(one, k2)
<1>2. /\ minted \subseteq Slots /\ queue \in Seq(Slots) /\ IsInjective(queue)
      /\ Range(queue) \subseteq minted /\ active \in Range(queue) \cup {NoSlot}
      /\ chan \in Seq(Commands)
      /\ run.alive => Holds(consumes, run.slots, chan, minted, queue)
  BY DEF IInv, Owner, OnTheWay
<1>3. s \in Slots /\ s \notin minted /\ s \notin Range(queue) /\ Len(queue) \in Nat
  BY <1>2, LenProperties
<1>4. q \in Seq(Slots) /\ IsInjective(q) /\ Range(q) = Range(queue) \cup {s}
  BY <1>2, <1>3, InsertDistinct
<1>5. <<>> \in Seq(Slots) /\ IsInjective(<<>>)
  BY EmptySeq DEF IsInjective
<1>6. k1 \in Commands /\ k1.c = "append" /\ k1.slot = s
  BY <1>3, <1>5 DEF Commands
<1>7. k2 \in Commands /\ k2.c = "move" /\ k2.slot = s /\ k2.to = at
  BY <1>3, <1>5 DEF Commands
<1>8. Edit("append", q, active, ks) /\ minted' = m
  BY <1>1
<1> HIDE DEF k1, k2, q
<1>9. one \in Seq(Commands) /\ two \in Seq(Commands)
  BY <1>2, <1>6, <1>7, AppendProperties
<1>10. ASSUME run.alive PROVE Holds(consumes, run.slots, one, m, Append(queue, s))
  <2>1. k1.slot \notin minted
    BY <1>3, <1>6
  <2>2. Holds(consumes, run.slots, one, minted \cup {k1.slot}, Append(queue, k1.slot))
    BY <1>2, <1>6, <1>10, <2>1, AppendHolds
  <2> QED BY <1>6, <2>2
<1>11. Append(queue, s) \in Seq(Slots) /\ IsInjective(Append(queue, s))
  BY <1>2, <1>3, AppendDistinct
<1>12. chan \o ks \in Seq(Commands) /\ (run.alive => Holds(consumes, run.slots, chan \o ks, m, q))
  <2>1. CASE at <= Len(queue)
    <3>1. ks = <<k1>> \o <<k2>>
      BY <2>1
    <3> DEFINE x == <<k1>>
               y == <<k2>>
    <3>a. x \in Seq(Commands) /\ Len(x) = 1 /\ x[1] = k1
      BY <1>6
    <3>b. y \in Seq(Commands) /\ Len(y) = 1 /\ y[1] = k2
      BY <1>7
    <3> HIDE DEF x, y
    <3>2. ks \in Seq(Commands) /\ Len(ks) = 2 /\ ks[1] = k1 /\ ks[2] = k2
      <4>1. ks = x \o y
        BY <3>1 DEF x, y
      <4> HIDE DEF ks
      <4>2. /\ ks \in Seq(Commands) /\ Len(ks) = Len(x) + Len(y)
            /\ \A j \in 1..(Len(x) + Len(y)) : ks[j] = IF j <= Len(x) THEN x[j] ELSE y[j - Len(x)]
        BY <3>a, <3>b, <4>1, ConcatProperties
      <4> QED BY <3>a, <3>b, <4>2
    <3> HIDE DEF ks
    <3>3. chan \o ks = two
      BY <1>2, <3>2, TwoSent
    <3>4. at \in 1..Len(queue)
      BY <1>3, <2>1
    <3>5. Moved(Append(queue, s), s, at) = q
      BY <1>2, <1>3, <3>4, AppendThenMove DEF q
    <3> HIDE DEF one, m
    <3>6. ASSUME run.alive PROVE Holds(consumes, run.slots, two, m, Moved(Append(queue, s), k2.slot, k2.to))
      <4> DEFINE o == Append(queue, s)
      <4> HIDE DEF o
      <4>1. /\ o \in Seq(Slots) /\ IsInjective(o)
            /\ Holds(consumes, run.slots, one, m, o) /\ one \in Seq(Commands)
        BY <1>9, <1>10, <1>11, <3>6 DEF o
      <4>2. Holds(consumes, run.slots, two, m, Moved(o, k2.slot, k2.to))
        BY <1>7, <4>1, MoveHolds
      <4> QED BY <4>2 DEF o
    <3> HIDE DEF two
    <3> QED BY <1>7, <1>9, <3>3, <3>5, <3>6
  <2>2. CASE ~(at <= Len(queue))
    <3>1. at = Len(queue) + 1
      BY <1>3, <2>2
    <3>2. q = Append(queue, s)
      BY <1>2, <1>3, <3>1, AppendInsert DEF q
    <3>3. ks \in Seq(Commands) /\ Len(ks) = 1 /\ ks[1] = k1
      BY <1>6, <2>2
    <3> HIDE DEF ks
    <3>4. chan \o ks = one
      BY <1>2, <3>3, TwoSent
    <3> HIDE DEF one, m
    <3> QED BY <1>9, <1>10, <3>2, <3>4
  <2> QED BY <2>1, <2>2
<1>13. /\ minted \subseteq m /\ m \subseteq Slots /\ Range(q) \subseteq m
       /\ active \in Range(q) \cup {NoSlot}
  BY <1>2, <1>3, <1>4
<1> HIDE DEF ks, m, one, two
<1> QED BY <1>4, <1>8, <1>12, <1>13, EditKeeps

\* A shuffled order holds the slots of the owner's order, each once.
LEMMA ShuffledIs ==
  ASSUME Owner, NEW order \in ShuffleOrders
  PROVE  order \in Seq(Slots) /\ IsInjective(order) /\ Range(order) = Range(queue)
<1> DEFINE pinned == IF run.alive /\ active \in Range(queue) THEN <<active>> ELSE <<>>
           rest == Range(queue) \ Range(pinned)
<1>2. /\ minted \subseteq Slots /\ queue \in Seq(Slots) /\ IsInjective(queue)
      /\ Range(queue) \subseteq minted
  BY DEF Owner
<1>3. PICK o \in SetToSeqs(rest) : order = pinned \o o
  BY DEF ShuffleOrders
<1>4. IsFiniteSet(rest) /\ rest \subseteq Slots /\ Range(queue) \subseteq Slots
  <2>1. Range(queue) \subseteq Slots /\ IsFiniteSet(Slots)
    BY <1>2, RunQueueAssumption
  <2> QED BY <2>1, FS_Subset
<1>5. o \in Seq(Slots) /\ IsInjective(o) /\ Range(o) = rest
  BY <1>4, OrdersAre
<1>6. order \in Seq(Slots) /\ IsInjective(order) /\ Range(order) = Range(queue)
  <2>1. CASE run.alive /\ active \in Range(queue)
    <3>1. pinned = <<active>> /\ Range(pinned) = {active}
      <4>1. pinned = <<active>>
        BY <2>1
      <4>2. Range(<<active>>) = {active}
        BY DEF Range
      <4> QED BY <4>1, <4>2
    <3>2. rest = Range(queue) \ {active}
      BY <3>1
    <3> HIDE DEF pinned, rest
    <3>3. active \in Slots /\ active \notin Range(o)
      BY <1>4, <1>5, <2>1, <3>2
    <3>4. order = InsertAt(o, 1, active)
      <4>1. order = <<active>> \o o
        BY <1>3, <3>1
      <4>2. InsertAt(o, 1, active) \in Seq(Slots) /\ Len(InsertAt(o, 1, active)) = Len(o) + 1
        BY <1>5, <3>3, LenProperties, InsertAtProperties
      <4>3. /\ InsertAt(o, 1, active)[1] = active
            /\ \A j \in 1..(Len(o) + 1) : j > 1 => InsertAt(o, 1, active)[j] = o[j - 1]
        BY <1>5, <3>3, LenProperties, InsertedIs
      <4>4. /\ order \in Seq(Slots) /\ Len(order) = Len(o) + 1 /\ order[1] = active
            /\ \A j \in 1..(Len(o) + 1) : j > 1 => order[j] = o[j - 1]
        <5>1. <<active>> \in Seq(Slots) /\ Len(<<active>>) = 1 /\ <<active>>[1] = active
          BY <3>3
        <5>2. /\ order \in Seq(Slots) /\ Len(order) = 1 + Len(o)
              /\ \A j \in 1..(1 + Len(o)) : order[j] = IF j <= 1 THEN <<active>>[j] ELSE o[j - 1]
          BY <1>5, <4>1, <5>1, ConcatProperties
        <5>3. Len(o) \in Nat
          BY <1>5, LenProperties
        <5> QED BY <5>1, <5>2, <5>3
      <4> DEFINE t == InsertAt(o, 1, active)
      <4> HIDE DEF t
      <4>5. \A j \in 1..(Len(o) + 1) : order[j] = t[j]
        <5>1. Len(o) \in Nat
          BY <1>5, LenProperties
        <5>2. /\ t[1] = active
              /\ \A j \in 1..(Len(o) + 1) : j > 1 => t[j] = o[j - 1]
          BY <4>3 DEF t
        <5> QED BY <4>4, <5>1, <5>2
      <4>6. t \in Seq(Slots) /\ Len(t) = Len(o) + 1
        BY <4>2 DEF t
      <4>7. order = t
        BY <4>4, <4>5, <4>6, SeqEqual
      <4> QED BY <4>7 DEF t
    <3>5. 1 \in 1..(Len(o) + 1)
      BY <1>5, LenProperties
    <3>6. order \in Seq(Slots) /\ IsInjective(order) /\ Range(order) = Range(o) \cup {active}
      BY <1>5, <3>3, <3>4, <3>5, InsertDistinct
    <3> QED BY <1>5, <2>1, <3>2, <3>6
  <2>2. CASE ~(run.alive /\ active \in Range(queue))
    <3>1. pinned = <<>>
      BY <2>2
    <3>2. rest = Range(queue)
      <4>1. Range(<<>>) = {}
        BY EmptySeq DEF Range
      <4> QED BY <3>1, <4>1
    <3>3. order = o
      <4>1. order = <<>> \o o
        BY <1>3, <3>1
      <4> QED BY <1>5, <4>1, ConcatEmptySeq
    <3> QED BY <1>5, <3>2, <3>3
  <2> QED BY <2>1, <2>2
<1> QED BY <1>6

\* A shuffle keeps the invariant.
LEMMA ShuffleKeeps ==
  ASSUME IInv, Shuffle, UNCHANGED consumes
  PROVE  IInv'
<1>1. PICK order \in ShuffleOrders :
        /\ Edit("shuffle", order, active, <<[c |-> "reorder", slot |-> NoSlot, to |-> 0, order |-> order]>>)
        /\ UNCHANGED minted
  BY DEF Shuffle
<1> DEFINE k == [c |-> "reorder", slot |-> NoSlot, to |-> 0, order |-> order]
           ks == <<k>>
<1>2. /\ minted \subseteq Slots /\ queue \in Seq(Slots) /\ IsInjective(queue)
      /\ Range(queue) \subseteq minted /\ active \in Range(queue) \cup {NoSlot}
      /\ chan \in Seq(Commands)
      /\ run.alive => Holds(consumes, run.slots, chan, minted, queue)
  BY DEF IInv, Owner, OnTheWay
<1>6. order \in Seq(Slots) /\ IsInjective(order) /\ Range(order) = Range(queue)
  BY <1>1, ShuffledIs DEF IInv
<1>7. k \in Commands /\ k.c = "reorder" /\ k.order = order
  BY <1>6 DEF Commands
<1> HIDE DEF k
<1>8. ks \in Seq(Commands) /\ Len(ks) = 1 /\ ks[1] = k
  BY <1>7
<1>9. Edit("shuffle", order, active, ks) /\ minted' = minted
  BY <1>1 DEF k
<1> HIDE DEF ks
<1>10. chan \o ks = Append(chan, k) /\ Append(chan, k) \in Seq(Commands)
  BY <1>2, <1>7, <1>8, TwoSent, AppendProperties
<1>11. ASSUME run.alive PROVE Holds(consumes, run.slots, Append(chan, k), minted, k.order)
  BY <1>2, <1>6, <1>7, <1>11, ReorderHolds
<1>12. /\ run.alive => Holds(consumes, run.slots, Append(chan, k), minted, order)
       /\ Range(order) \subseteq minted /\ active \in Range(order) \cup {NoSlot}
  BY <1>2, <1>6, <1>7, <1>11
<1> QED BY <1>2, <1>6, <1>9, <1>10, <1>12, EditKeeps

-----------------------------------------------------------------------------
(* The other steps keep the invariant.                                     *)

\* A step of the run or of mpv that leaves the sequence and the commands.
LEMMA RunStepKeeps ==
  ASSUME IInv, UNCHANGED <<queue, active, minted, chan, edits, consumes>>,
         RunInv(run'), run'.slots = run.slots, run'.alive => run.alive,
         keys' \in 0..MaxKeys
  PROVE  IInv'
<1>1. Owner'
  BY DEF IInv, Owner
<1>2. Run'
  BY DEF IInv, Run
<1>3. OnTheWay'
  BY DEF IInv, OnTheWay
<1> QED BY <1>1, <1>2, <1>3 DEF IInv

\* mpv goes from entry to entry of its playlist.
LEMMA MpvLeavesKeeps ==
  ASSUME IInv, NEW reason, NEW to, to \in 0..Len(run.list), MpvLeaves(reason, to),
         UNCHANGED consumes, keys' \in 0..MaxKeys
  PROVE  IInv'
<1> DEFINE s == [run EXCEPT !.pos = to]
<1>1. run' = s /\ UNCHANGED <<queue, active, minted, chan, edits, consumes>>
  BY DEF MpvLeaves
<1>2. /\ run \in Runs /\ run.list = run.slots /\ IsInjective(run.slots)
      /\ run.cur \in Range(run.slots) \cup {NoSlot} /\ to \in Nat
  BY LenProperties DEF IInv, Run, RunInv, Runs
<1>3. /\ s \in Runs /\ s.slots = run.slots /\ s.list = run.list /\ s.cur = run.cur /\ s.pos = to
      /\ s.alive = run.alive
  BY <1>2 DEF Runs
<1> HIDE DEF s
<1>4. RunInv(s)
  BY <1>2, <1>3 DEF RunInv
<1>5. RunInv(run') /\ run'.slots = run.slots /\ (run'.alive => run.alive)
  BY <1>1, <1>3, <1>4
<1> QED BY <1>1, <1>5, RunStepKeeps

\* The end of an entry, and a step in the mpv window.
LEMMA MpvKeeps ==
  ASSUME IInv, MpvEof \/ MpvKey, UNCHANGED consumes
  PROVE  IInv'
<1>1. /\ keys \in 0..MaxKeys /\ MaxKeys \in Nat /\ run.pos \in 0..Len(run.list)
      /\ run.list \in Seq(Slots) /\ Len(run.list) \in Nat /\ DOMAIN run.list = 1..Len(run.list)
  BY RunQueueAssumption, LenProperties DEF IInv, Owner, Run, RunInv, Runs
<1>2. CASE MpvEof
  <2> DEFINE to == IF run.pos < Len(run.list) THEN run.pos + 1 ELSE 0
  <2>1. MpvLeaves("eof", to) /\ keys' = keys
    BY <1>2 DEF MpvEof
  <2>2. to \in 0..Len(run.list)
    BY <1>1
  <2> HIDE DEF to
  <2> QED BY <1>1, <2>1, <2>2, MpvLeavesKeeps
<1>3. CASE MpvKey
  <2>1. PICK to \in {run.pos - 1, run.pos + 1} \cap DOMAIN run.list : MpvLeaves("stop", to)
    BY <1>3 DEF MpvKey
  <2>2. to \in 0..Len(run.list)
    BY <1>1
  <2>3. keys' \in 0..MaxKeys
    <3>1. keys < MaxKeys /\ keys' = keys + 1
      BY <1>3 DEF MpvKey
    <3> QED BY <1>1, <3>1
  <2> QED BY <2>1, <2>2, <2>3, MpvLeavesKeeps
<1> QED BY <1>2, <1>3

\* The run reads a command.
LEMMA HandleCommandKeeps ==
  ASSUME IInv, HandleCommand, UNCHANGED consumes
  PROVE  IInv'
<1> DEFINE k == Head(chan)
           t == Applied(run.slots, k)
<1>1. /\ run.alive /\ chan # <<>> /\ run' = Done(run, k).run /\ chan' = Tail(chan)
      /\ UNCHANGED <<queue, active, minted, edits, keys>>
  BY DEF HandleCommand, Done
<1>2. /\ Owner /\ RunInv(run) /\ chan \in Seq(Commands)
      /\ Holds(consumes, run.slots, chan, minted, queue)
  BY <1>1 DEF IInv, Run, OnTheWay
<1>3. PICK last : /\ Reaches(run.slots, chan, minted, last)
                  /\ Range(queue) \subseteq Range(last)
                  /\ ~consumes /\ Clear(chan) => last = queue
  BY <1>2 DEF Holds
<1>4. /\ k \in Commands /\ Tail(chan) \in Seq(Commands)
      /\ t \in Seq(Slots) /\ IsInjective(t) /\ Range(t) \subseteq minted
      /\ Reaches(t, Tail(chan), minted, last)
  BY <1>1, <1>2, <1>3, ReachNext
<1>5. /\ RunInv(run') /\ run'.slots = t
      /\ run'.alive => k.c # "stop"
  BY <1>1, <1>2, <1>4, CommandDoes
<1>6. k.c # "stop" /\ Clear(Tail(chan)) => Clear(chan)
  <2> SUFFICES ASSUME k.c # "stop", Clear(Tail(chan)), NEW i \in 1..Len(chan)
               PROVE  chan[i].c # "stop"
    BY DEF Clear
  <2> DEFINE ds == Tail(chan)
  <2>1. /\ k = chan[1] /\ Len(ds) = Len(chan) - 1 /\ Len(chan) \in Nat \ {0}
        /\ \A j \in 1..Len(ds) : ds[j] = chan[j + 1]
    BY <1>1, <1>2, EmptySeq, HeadTailProperties
  <2>2. \A j \in 1..Len(ds) : ds[j].c # "stop"
    BY DEF Clear
  <2> HIDE DEF ds, k
  <2>3. CASE i = 1
    BY <2>1, <2>3
  <2>4. CASE i # 1
    <3>1. i - 1 \in 1..Len(ds) /\ (i - 1) + 1 = i
      BY <2>1, <2>4
    <3>2. ds[i - 1] = chan[i]
      BY <2>1, <3>1
    <3> QED BY <2>2, <3>1, <3>2
  <2> QED BY <2>3, <2>4
<1> HIDE DEF k, t
<1>7. ASSUME run'.alive PROVE Holds(consumes, t, Tail(chan), minted, queue)
  <2>1. ~consumes /\ Clear(Tail(chan)) => last = queue
    BY <1>3, <1>5, <1>6, <1>7
  <2> QED BY <1>3, <1>4, <2>1 DEF Holds
<1>8. Owner'
  BY <1>1, <1>2 DEF Owner
<1>9. Run'
  BY <1>1, <1>4, <1>5 DEF Run
<1>10. OnTheWay'
  BY <1>1, <1>4, <1>5, <1>7 DEF OnTheWay
<1> QED BY <1>8, <1>9, <1>10 DEF IInv

\* The run adopts an entry of its sequence.
LEMMA AdoptDoes ==
  ASSUME RunInv(run), NEW left, NEW p \in DOMAIN run.slots, Adopt(left, p)
  PROVE  RunInv(run') /\ run'.slots = run.slots /\ (run'.alive => run.alive)
<1> DEFINE s == [run EXCEPT !.idx = p, !.cur = run.slots[p]]
<1>1. run' = s
  BY DEF Adopt
<1>2. /\ run \in Runs /\ run.slots \in Seq(Slots) /\ run.list = run.slots /\ IsInjective(run.slots)
      /\ run.pos \in 0..Len(run.list) /\ p \in Nat /\ run.slots[p] \in Range(run.slots)
      /\ run.slots[p] \in Slots
  BY LenProperties DEF RunInv, Runs, Range
<1>3. /\ s \in Runs /\ s.slots = run.slots /\ s.list = run.list /\ s.cur = run.slots[p]
      /\ s.pos = run.pos /\ s.alive = run.alive
  BY <1>2 DEF Runs
<1> HIDE DEF s
<1>4. RunInv(s)
  BY <1>2, <1>3 DEF RunInv
<1> QED BY <1>1, <1>3, <1>4

\* The run ends.
LEMMA EndDoes ==
  ASSUME RunInv(run), EndRun
  PROVE  RunInv(run') /\ run'.slots = run.slots /\ (run'.alive => run.alive)
<1> DEFINE s == [run EXCEPT !.alive = FALSE]
<1>1. run' = s
  BY DEF EndRun
<1>2. /\ s \in Runs /\ s.slots = run.slots /\ s.list = run.list /\ s.cur = run.cur /\ s.pos = run.pos
      /\ s.alive = FALSE
  BY DEF RunInv, Runs
<1> HIDE DEF s
<1>3. RunInv(s)
  BY <1>2 DEF RunInv
<1> QED BY <1>1, <1>2, <1>3

\* The run reads an event of mpv.
LEMMA HandleEventKeeps ==
  ASSUME IInv, HandleEvent, UNCHANGED consumes
  PROVE  IInv'
<1>1. /\ UNCHANGED <<queue, active, minted, chan, edits, consumes, keys>>
      /\ (\E p : OnPlaylistPos(p)) \/ (\E reason : OnEndFile(reason))
  BY DEF HandleEvent
<1>2. /\ RunInv(run) /\ keys \in 0..MaxKeys
      /\ run \in Runs /\ run.slots \in Seq(Slots) /\ run.idx \in Nat
      /\ DOMAIN run.slots = 1..Len(run.slots) /\ Len(run.slots) \in Nat
  BY LenProperties DEF IInv, Owner, Run, RunInv, Runs
<1>3. ASSUME NEW left, NEW p, Diverges(p), Adopt(left, p)
      PROVE  RunInv(run') /\ run'.slots = run.slots /\ (run'.alive => run.alive)
  <2>1. p \in DOMAIN run.slots
    BY <1>3 DEF Diverges
  <2> QED BY <1>2, <1>3, <2>1, AdoptDoes
<1>4. ASSUME UNCHANGED run
      PROVE  RunInv(run') /\ run'.slots = run.slots /\ (run'.alive => run.alive)
  BY <1>2, <1>4
<1>5. RunInv(run') /\ run'.slots = run.slots /\ (run'.alive => run.alive)
  <2>1. CASE \E p : OnPlaylistPos(p)
    <3>1. PICK p : OnPlaylistPos(p)
      BY <2>1
    <3>2. CASE Diverges(p)
      BY <1>3, <3>1, <3>2 DEF OnPlaylistPos
    <3>3. CASE ~Diverges(p)
      <4>1. UNCHANGED run
        BY <3>1, <3>3 DEF OnPlaylistPos
      <4> QED BY <1>4, <4>1
    <3> QED BY <3>2, <3>3
  <2>2. CASE \E reason : OnEndFile(reason)
    <3> DEFINE next == /\ run' = [run EXCEPT !.idx = @ + 1, !.cur = run.slots[run.idx + 1]]
                       /\ out' = out \o Completed(run.cur, TRUE) \o Changed(run.slots[run.idx + 1])
    <3>1. PICK reason : OnEndFile(reason)
      BY <2>2
    <3>2. \/ EndRun
          \/ Diverges(run.pos) /\ Adopt(run.cur, run.pos)
          \/ UNCHANGED run
          \/ ~(run.idx + 1 > Len(run.slots)) /\ next
      BY <3>1 DEF OnEndFile
    <3>3. CASE EndRun
      BY <1>2, <3>3, EndDoes
    <3>4. CASE Diverges(run.pos) /\ Adopt(run.cur, run.pos)
      BY <1>3, <3>4
    <3>5. CASE UNCHANGED run
      BY <1>4, <3>5
    <3>6. CASE ~(run.idx + 1 > Len(run.slots)) /\ next
      <4> DEFINE p == run.idx + 1
                 s == [run EXCEPT !.idx = p, !.cur = run.slots[p]]
      <4>1. p \in 1..Len(run.slots) /\ p \in Nat
        BY <1>2, <3>6
      <4>2. run' = s
        BY <3>6
      <4> HIDE DEF p
      <4>3. /\ run.list = run.slots /\ IsInjective(run.slots)
            /\ run.pos \in 0..Len(run.list) /\ run.slots[p] \in Range(run.slots)
            /\ run.slots[p] \in Slots
        BY <1>2, <4>1, ElementOfSeq DEF RunInv, Range
      <4>4. /\ s \in Runs /\ s.slots = run.slots /\ s.list = run.list /\ s.cur = run.slots[p]
            /\ s.pos = run.pos /\ s.alive = run.alive
        BY <1>2, <4>1, <4>3 DEF Runs
      <4> HIDE DEF s
      <4>5. RunInv(s)
        BY <4>3, <4>4 DEF RunInv
      <4> QED BY <4>2, <4>4, <4>5
    <3> QED BY <3>2, <3>3, <3>4, <3>5, <3>6
  <2> QED BY <1>1, <2>1, <2>2
<1> QED BY <1>1, <1>2, <1>5, RunStepKeeps

\* The owner lets go of a slot that completed under the consume policy.
LEMMA HoldsLess ==
  ASSUME NEW c, c, NEW q, NEW cs, NEW m, NEW order, Holds(c, q, cs, m, order),
         NEW order2, Range(order2) \subseteq Range(order)
  PROVE  Holds(c, q, cs, m, order2)
<1>1. PICK last : Reaches(q, cs, m, last) /\ Range(order) \subseteq Range(last)
  BY DEF Holds
<1>2. Range(order2) \subseteq Range(last)
  BY <1>1
<1> QED BY <1>1, <1>2 DEF Holds

\* The marker after a consumed slot is on a slot of the queue, or nowhere.
LEMMA AfterConsumeIs ==
  ASSUME queue \in Seq(Slots), IsInjective(queue), NEW s \in Range(queue)
  PROVE  AfterConsume(s) \in Range(Without(queue, s)) \cup {NoSlot}
<1> DEFINE left == Without(queue, s)
           a == IndexOf(s, queue)
           b == Len(left)
           i == Min({a, b})
<1>1. left = Dropped(queue, s)
  BY DEF Dropped
<1>2. left \in Seq(Slots)
  BY <1>1, DropDistinct
<1>3. a \in 1..Len(queue) /\ a \in Nat
  BY IndexOfIs, LenProperties
<1>4. AfterConsume(s) = IF left = <<>> THEN NoSlot ELSE left[i]
  BY DEF AfterConsume
<1> HIDE DEF left, a
<1>5. CASE left = <<>>
  BY <1>4, <1>5
<1>6. CASE left # <<>>
  <2>1. b \in Nat \ {0} /\ DOMAIN left = 1..b
    BY <1>2, <1>6, EmptySeq, LenProperties
  <2>2. i \in {a, b} /\ i <= a /\ i <= b
    <3>1. \E x \in {a, b} : \A y \in {a, b} : x =< y
      <4>1. CASE a <= b
        BY <1>3, <2>1, <4>1
      <4>2. CASE b <= a
        BY <1>3, <2>1, <4>2
      <4> QED BY <1>3, <2>1, <4>1, <4>2
    <3>2. i = CHOOSE x \in {a, b} : \A y \in {a, b} : x =< y
      BY DEF Min
    <3> HIDE DEF i, b
    <3>3. i \in {a, b} /\ \A y \in {a, b} : i =< y
      BY <3>1, <3>2
    <3> QED BY <3>3
  <2> HIDE DEF i, b
  <2>3. i \in 1..b
    BY <1>3, <2>1, <2>2
  <2>4. left[i] \in Range(left)
    BY <2>1, <2>3 DEF Range
  <2> QED BY <1>4, <1>6, <2>4 DEF left
<1> QED BY <1>5, <1>6 DEF left

\* The owner reads an event of the run.
LEMMA OwnerReadsKeeps ==
  ASSUME IInv, OwnerReads, UNCHANGED consumes
  PROVE  IInv'
<1> DEFINE ev == Head(out)
<1>1. /\ queue' = IF Consumed(ev) THEN Without(queue, ev.slot) ELSE queue
      /\ active' = IF Consumed(ev) /\ active = ev.slot THEN AfterConsume(ev.slot)
                   ELSE IF ev.e = "changed" /\ ev.slot \in Range(queue) THEN ev.slot ELSE active
      /\ UNCHANGED <<minted, chan, run, edits, keys>>
  BY DEF OwnerReads
<1> HIDE DEF ev
<1>2. /\ minted \subseteq Slots /\ queue \in Seq(Slots) /\ IsInjective(queue)
      /\ Range(queue) \subseteq minted /\ active \in Range(queue) \cup {NoSlot}
      /\ edits \in 0..MaxEdits /\ keys \in 0..MaxKeys
      /\ RunInv(run) /\ Range(run.slots) \subseteq minted
      /\ chan \in Seq(Commands)
      /\ run.alive => Holds(consumes, run.slots, chan, minted, queue)
  BY DEF IInv, Owner, Run, OnTheWay
<1>3. Run'
  BY <1>1, <1>2 DEF Run
<1>4. CASE Consumed(ev)
  <2> DEFINE s == ev.slot
             left == Without(queue, s)
  <2>1. consumes /\ s \in Range(queue) /\ ev.e # "changed"
    BY <1>4 DEF Consumed
  <2>2. left = Dropped(queue, s)
    BY <2>1 DEF Dropped
  <2>3. left \in Seq(Slots) /\ IsInjective(left) /\ Range(left) = Range(queue) \ {s}
    <3> DEFINE d == Dropped(queue, s)
    <3>1. d \in Seq(Slots) /\ IsInjective(d) /\ Range(d) = Range(queue) \ {s}
      BY <1>2, DropDistinct
    <3> HIDE DEF left, d
    <3> QED BY <2>2, <3>1 DEF d
  <2>4. AfterConsume(s) \in Range(left) \cup {NoSlot}
    BY <1>2, <2>1, AfterConsumeIs
  <2>5. queue' = left /\ active' = IF active = s THEN AfterConsume(s) ELSE active
    BY <1>1, <1>4, <2>1
  <2> HIDE DEF left, s
  <2>6. active' \in Range(left) \cup {NoSlot}
    BY <1>2, <2>3, <2>4, <2>5
  <2>7. Owner'
    <3>1. Range(left) \subseteq minted
      BY <1>2, <2>3
    <3> QED BY <1>1, <1>2, <2>3, <2>5, <2>6, <3>1 DEF Owner
  <2>8. OnTheWay'
    <3>1. ASSUME run.alive PROVE Holds(consumes, run.slots, chan, minted, left)
      BY <1>2, <2>1, <2>3, <3>1, HoldsLess
    <3> QED BY <1>1, <1>2, <2>5, <3>1 DEF OnTheWay
  <2> QED BY <1>3, <2>7, <2>8 DEF IInv
<1>5. CASE ~Consumed(ev)
  <2>1. queue' = queue /\ active' \in Range(queue) \cup {NoSlot}
    BY <1>1, <1>2, <1>5
  <2>2. Owner'
    BY <1>1, <1>2, <2>1 DEF Owner
  <2>3. OnTheWay'
    BY <1>1, <1>2, <2>1 DEF OnTheWay
  <2> QED BY <1>3, <2>2, <2>3 DEF IInv
<1> QED BY <1>4, <1>5

-----------------------------------------------------------------------------
(* The owner hears of every slot the run goes to.                          *)

Events == [e : {"completed", "changed"}, slot : Slots, consume : BOOLEAN]

\* What the run says last is the slot it is on, and once the owner has heard
\* it, the owner's marker is on that slot while its queue holds it.  A run
\* that has lost its slot to a removal has nothing to say.
Announced ==
  /\ out \in Seq(Events)
  /\ out # <<>> => /\ out[Len(out)].e = "changed"
                   /\ run.cur # NoSlot => out[Len(out)].slot = run.cur
  /\ out = <<>> /\ run.cur # NoSlot /\ run.cur \in Range(queue) => active = run.cur

\* The events of a run that goes to slot s end with it.
LEMMA ChangeIsLast ==
  ASSUME NEW sent \in Seq(Events), NEW left \in Slots \cup {NoSlot}, NEW consume \in BOOLEAN,
         NEW s \in Slots
  PROVE  LET t == sent \o Completed(left, consume) \o Changed(s) IN
         /\ t \in Seq(Events) /\ t # <<>>
         /\ t[Len(t)].e = "changed" /\ t[Len(t)].slot = s
<1> DEFINE c == Completed(left, consume)
           u == sent \o c
           d == [e |-> "changed", slot |-> s, consume |-> FALSE]
           t == u \o <<d>>
<1>1. c \in Seq(Events)
  <2>1. CASE left = NoSlot
    BY <2>1, EmptySeq DEF Completed
  <2>2. CASE left # NoSlot
    <3> DEFINE x == [e |-> "completed", slot |-> left, consume |-> consume]
    <3>1. x \in Events /\ c = <<x>>
      BY <2>2 DEF Events, Completed
    <3> HIDE DEF x, c
    <3> QED BY <3>1
  <2> QED BY <2>1, <2>2
<1>2. u \in Seq(Events)
  <2> HIDE DEF c
  <2> QED BY <1>1, ConcatProperties
<1>3. d \in Events /\ d.e = "changed" /\ d.slot = s
  BY DEF Events
<1>4. Changed(s) = <<d>>
  BY DEF Changed
<1> HIDE DEF c, u, d
<1>5. /\ t \in Seq(Events) /\ Len(t) = Len(u) + 1 /\ Len(u) \in Nat
      /\ t[Len(u) + 1] = d
  <2>1. <<d>> \in Seq(Events) /\ Len(<<d>>) = 1 /\ <<d>>[1] = d
    BY <1>3
  <2> DEFINE o == <<d>>
  <2> HIDE DEF o
  <2>2. /\ u \o o \in Seq(Events) /\ Len(u \o o) = Len(u) + Len(o)
        /\ \A j \in 1..(Len(u) + Len(o)) : (u \o o)[j] = IF j <= Len(u) THEN u[j] ELSE o[j - Len(u)]
    BY <1>2, <2>1, ConcatProperties DEF o
  <2>3. Len(u) \in Nat
    BY <1>2, LenProperties
  <2>4. Len(o) = 1 /\ o[1] = d
    BY <2>1 DEF o
  <2> DEFINE w == u \o o
  <2> HIDE DEF w
  <2>5. w \in Seq(Events) /\ Len(w) = Len(u) + 1 /\ w[Len(u) + 1] = d
    <3>1. \A j \in 1..(Len(u) + 1) : w[j] = IF j <= Len(u) THEN u[j] ELSE o[j - Len(u)]
      BY <2>2, <2>4 DEF w
    <3>2. Len(u) + 1 \in 1..(Len(u) + 1) /\ ~(Len(u) + 1 <= Len(u)) /\ (Len(u) + 1) - Len(u) = 1
      BY <2>3
    <3>3. w[Len(u) + 1] = o[1]
      BY <3>1, <3>2
    <3>4. w \in Seq(Events) /\ Len(w) = Len(u) + 1
      BY <2>2, <2>4 DEF w
    <3> QED BY <2>4, <3>3, <3>4
  <2> QED BY <2>3, <2>5 DEF w, o
<1> HIDE DEF t
<1>6. t # <<>>
  BY <1>5, EmptySeq
<1> QED BY <1>3, <1>4, <1>5, <1>6 DEF t, u, c

\* The marker an edit leaves on a slot was there before, and the edit puts no
\* slot in the queue that the run can be on.
LEMMA EditSends ==
  ASSUME IInv, RemoveSlots \/ MoveOneSlot \/ AppendSlot \/ Shuffle
  PROVE  /\ UNCHANGED <<run, out>>
         /\ Range(queue') \cap minted \subseteq Range(queue)
         /\ active \in Range(queue') => active' = active
<1>1. /\ minted \subseteq Slots /\ queue \in Seq(Slots) /\ IsInjective(queue)
      /\ Range(queue) \subseteq minted /\ DOMAIN queue = 1..Len(queue)
  BY LenProperties DEF IInv, Owner
<1>2. CASE RemoveSlots
  <2>1. PICK gone \in SUBSET Range(queue) :
          /\ queue' = Kept(queue, Slots \ gone)
          /\ active' = IF active \in gone THEN NoSlot ELSE active
          /\ UNCHANGED <<run, out>>
    BY <1>2 DEF RemoveSlots, Edit
  <2>2. Range(queue') = Range(queue) \cap (Slots \ gone)
    BY <1>1, <2>1, KeptProperties
  <2> QED BY <2>1, <2>2
<1>3. CASE MoveOneSlot
  <2>1. PICK s \in Range(queue), to \in DOMAIN queue :
          queue' = MoveSlot(queue, s, to) /\ active' = active /\ UNCHANGED <<run, out>>
    BY <1>3 DEF MoveOneSlot, Edit
  <2>2. Range(MoveSlot(queue, s, to)) = Range(queue)
    BY <1>1, <2>1, MoveDistinct
  <2> QED BY <2>1, <2>2
<1>4. CASE AppendSlot
  <2>1. PICK s \in Slots \ minted, at \in 1..(Len(queue) + 1) :
          queue' = InsertAt(queue, at, s) /\ active' = active /\ UNCHANGED <<run, out>>
    BY <1>4 DEF AppendSlot, Edit
  <2>2. Range(InsertAt(queue, at, s)) = Range(queue) \cup {s}
    BY <1>1, <2>1, InsertDistinct
  <2> QED BY <2>1, <2>2
<1>5. CASE Shuffle
  <2>1. PICK order \in ShuffleOrders :
          queue' = order /\ active' = active /\ UNCHANGED <<run, out>>
    BY <1>5 DEF Shuffle, Edit
  <2>2. Range(order) = Range(queue)
    BY <2>1, ShuffledIs DEF IInv
  <2> QED BY <2>1, <2>2
<1> QED BY <1>2, <1>3, <1>4, <1>5

\* An event of mpv leaves the run where it is, or the run goes on and says so.
LEMMA EventSends ==
  ASSUME IInv, HandleEvent
  PROVE  \/ run'.cur = run.cur /\ out' = out
         \/ \E left \in Slots \cup {NoSlot}, consume \in BOOLEAN, s \in Slots :
              run'.cur = s /\ out' = out \o Completed(left, consume) \o Changed(s)
<1>1. /\ run \in Runs /\ run.slots \in Seq(Slots) /\ run.cur \in Slots \cup {NoSlot} /\ run.idx \in Nat
      /\ Len(run.slots) \in Nat /\ DOMAIN run.slots = 1..Len(run.slots)
  BY LenProperties DEF IInv, Run, RunInv, Runs
<1>2. \A i : SlotAt(run.slots, i) \in Slots \cup {NoSlot}
  BY <1>1, ElementOfSeq DEF SlotAt
<1>3. ASSUME NEW left \in Slots \cup {NoSlot}, NEW p, Diverges(p), Adopt(left, p)
      PROVE  \E s \in Slots : run'.cur = s /\ out' = out \o Completed(left, FALSE) \o Changed(s)
  <2>1. p \in 1..Len(run.slots)
    BY <1>1, <1>3 DEF Diverges
  <2>2. run.slots[p] \in Slots
    BY <1>1, <2>1, ElementOfSeq
  <2>3. run'.cur = run.slots[p] /\ out' = out \o Completed(left, FALSE) \o Changed(run.slots[p])
    BY <1>1, <1>3 DEF Adopt, Runs
  <2> QED BY <2>2, <2>3
<1>4. (\E p : OnPlaylistPos(p)) \/ (\E reason : OnEndFile(reason))
  BY DEF HandleEvent
<1>5. CASE \E p : OnPlaylistPos(p)
  <2>1. PICK p : OnPlaylistPos(p)
    BY <1>5
  <2>2. CASE Diverges(p)
    <3>1. Adopt(SlotAt(run.slots, run.idx), p)
      BY <2>1, <2>2 DEF OnPlaylistPos
    <3> QED BY <1>2, <1>3, <2>2, <3>1
  <2>3. CASE ~Diverges(p)
    BY <2>1, <2>3 DEF OnPlaylistPos
  <2> QED BY <2>2, <2>3
<1>6. CASE \E reason : OnEndFile(reason)
  <2> DEFINE next == /\ run' = [run EXCEPT !.idx = @ + 1, !.cur = run.slots[run.idx + 1]]
                     /\ out' = out \o Completed(run.cur, TRUE) \o Changed(run.slots[run.idx + 1])
  <2>1. PICK reason : OnEndFile(reason)
    BY <1>6
  <2>2. \/ EndRun
        \/ Diverges(run.pos) /\ Adopt(run.cur, run.pos)
        \/ UNCHANGED <<run, out>>
        \/ ~(run.idx + 1 > Len(run.slots)) /\ next
    BY <2>1 DEF OnEndFile
  <2>3. CASE EndRun
    BY <1>1, <2>3 DEF EndRun, Runs
  <2>4. CASE Diverges(run.pos) /\ Adopt(run.cur, run.pos)
    BY <1>1, <1>3, <2>4
  <2>5. CASE UNCHANGED <<run, out>>
    BY <2>5
  <2>6. CASE ~(run.idx + 1 > Len(run.slots)) /\ next
    <3>1. run.idx + 1 \in 1..Len(run.slots)
      BY <1>1, <2>6
    <3>2. run.slots[run.idx + 1] \in Slots
      BY <1>1, <3>1, ElementOfSeq
    <3>3. run'.cur = run.slots[run.idx + 1]
      BY <1>1, <2>6 DEF Runs
    <3> QED BY <1>1, <2>6, <3>2, <3>3
  <2> QED BY <2>2, <2>3, <2>4, <2>5, <2>6
<1> QED BY <1>4, <1>5, <1>6

\* A command leaves the run on its slot, or on none.
LEMMA CommandSends ==
  ASSUME IInv, HandleCommand
  PROVE  /\ run'.cur \in {run.cur, NoSlot}
         /\ UNCHANGED <<queue, active, out>>
<1> DEFINE k == Head(chan)
<1>1. /\ run.alive /\ chan # <<>> /\ run' = Done(run, k).run
      /\ UNCHANGED <<queue, active, out>>
  BY DEF HandleCommand, Done
<1>2. RunInv(run) /\ chan \in Seq(Commands) /\ Holds(consumes, run.slots, chan, minted, queue)
  BY <1>1 DEF IInv, Run, OnTheWay
<1>3. PICK last : Reaches(run.slots, chan, minted, last)
  BY <1>2 DEF Holds
<1>4. k \in Commands /\ IsInjective(Applied(run.slots, k))
  BY <1>1, <1>2, <1>3, ReachNext
<1>5. Done(run, k).run.cur \in {run.cur, NoSlot}
  BY <1>2, <1>4, CommandDoes
<1> QED BY <1>1, <1>5

\* The owner's marker follows the last thing the run said.
LEMMA ReadSends ==
  ASSUME IInv, Announced, OwnerReads
  PROVE  Announced'
<1> DEFINE ev == Head(out)
<1>1. /\ out # <<>> /\ out' = Tail(out) /\ run' = run
      /\ queue' = IF Consumed(ev) THEN Without(queue, ev.slot) ELSE queue
      /\ active' = IF Consumed(ev) /\ active = ev.slot THEN AfterConsume(ev.slot)
                   ELSE IF ev.e = "changed" /\ ev.slot \in Range(queue) THEN ev.slot ELSE active
  BY DEF OwnerReads
<1>2. /\ out \in Seq(Events) /\ out[Len(out)].e = "changed"
      /\ run.cur # NoSlot => out[Len(out)].slot = run.cur
  BY <1>1 DEF Announced
<1> DEFINE ds == Tail(out)
<1>3. /\ ev = out[1] /\ ds \in Seq(Events) /\ Len(ds) = Len(out) - 1 /\ Len(out) \in Nat \ {0}
      /\ \A j \in 1..Len(ds) : ds[j] = out[j + 1]
  BY <1>1, <1>2, EmptySeq, HeadTailProperties
<1> HIDE DEF ds, ev
<1>4. ds # <<>> => ds[Len(ds)] = out[Len(out)]
  <2> SUFFICES ASSUME ds # <<>> PROVE ds[Len(ds)] = out[Len(out)]
    OBVIOUS
  <2>1. Len(ds) \in 1..Len(ds) /\ Len(ds) + 1 = Len(out)
    BY <1>3, EmptySeq
  <2> QED BY <1>3, <2>1
<1>5. ASSUME ds = <<>>, run.cur # NoSlot, run.cur \in Range(queue') PROVE active' = run.cur
  <2>1. Len(out) = 1
    BY <1>3, <1>5, EmptySeq
  <2>2. ev.e = "changed" /\ ev.slot = run.cur
    BY <1>2, <1>3, <1>5, <2>1
  <2>3. ~Consumed(ev)
    BY <2>2 DEF Consumed
  <2> QED BY <1>1, <1>5, <2>2, <2>3
<1>6. out' = ds
  BY <1>1 DEF ds
<1> QED BY <1>1, <1>2, <1>3, <1>4, <1>5, <1>6 DEF Announced

\* Every step keeps what has been announced.
LEMMA NextAnnounces == IInv /\ Announced /\ [Next]_vars => Announced'
<1> SUFFICES ASSUME IInv, Announced, [Next]_vars PROVE Announced'
  OBVIOUS
<1>1. /\ run \in Runs /\ run.cur \in Range(run.slots) \cup {NoSlot} /\ Range(run.slots) \subseteq minted
  BY DEF IInv, Run, RunInv
<1>2. ASSUME run'.cur \in {run.cur, NoSlot}, UNCHANGED <<queue, active, out>>
      PROVE  Announced'
  BY <1>2 DEF Announced
<1>3. CASE UNCHANGED vars
  BY <1>2, <1>3 DEF vars
<1>4. CASE MpvEof \/ MpvKey
  <2>1. PICK reason, to : MpvLeaves(reason, to)
    BY <1>4 DEF MpvEof, MpvKey
  <2>2. UNCHANGED <<queue, active, out>> /\ run'.cur = run.cur
    BY <1>1, <2>1 DEF MpvLeaves, Runs
  <2> QED BY <1>2, <2>2
<1>5. CASE RunTick
  BY <1>2, <1>5 DEF RunTick
<1>6. CASE RemoveSlots \/ MoveOneSlot \/ AppendSlot \/ Shuffle
  <2>1. /\ UNCHANGED <<run, out>>
        /\ Range(queue') \cap minted \subseteq Range(queue)
        /\ active \in Range(queue') => active' = active
    BY <1>6, EditSends
  <2>2. ASSUME out = <<>>, run.cur # NoSlot, run.cur \in Range(queue') PROVE active' = run.cur
    <3>1. run.cur \in Range(queue)
      BY <1>1, <2>1, <2>2
    <3>2. active = run.cur
      BY <2>2, <3>1 DEF Announced
    <3> QED BY <2>1, <2>2, <3>2
  <2> QED BY <2>1, <2>2 DEF Announced
<1>7. CASE HandleCommand
  BY <1>2, <1>7, CommandSends
<1>8. CASE HandleEvent
  <2>1. UNCHANGED <<queue, active>>
    BY <1>8 DEF HandleEvent
  <2>2. CASE run'.cur = run.cur /\ out' = out
    BY <1>2, <2>1, <2>2
  <2>3. CASE \E left \in Slots \cup {NoSlot}, consume \in BOOLEAN, s \in Slots :
               run'.cur = s /\ out' = out \o Completed(left, consume) \o Changed(s)
    <3>1. PICK left \in Slots \cup {NoSlot}, consume \in BOOLEAN, s \in Slots :
                 run'.cur = s /\ out' = out \o Completed(left, consume) \o Changed(s)
      BY <2>3
    <3>2. out \in Seq(Events)
      BY DEF Announced
    <3>3. /\ out' \in Seq(Events) /\ out' # <<>>
          /\ out'[Len(out')].e = "changed" /\ out'[Len(out')].slot = run'.cur
      BY <3>1, <3>2, ChangeIsLast
    <3> QED BY <3>3 DEF Announced
  <2> QED BY <1>8, <2>2, <2>3, EventSends
<1>9. CASE OwnerReads
  BY <1>9, ReadSends
<1> QED BY <1>3, <1>4, <1>5, <1>6, <1>7, <1>8, <1>9 DEF Next

-----------------------------------------------------------------------------
(* The events of mpv that the run has not read.                            *)

MpvEvents == [e : {"eof", "stop", "pos"}, at : Nat]

\* None of the events es names a position.
NoPos(es) == \A i \in 1..Len(es) : es[i].e # "pos"

\* The last position they name is p.
EndsAt(es, p) ==
  \A i \in 1..Len(es) :
    es[i].e = "pos" /\ (\A j \in (i + 1)..Len(es) : es[j].e # "pos") => es[i].at = p

\* A position follows the natural end of an entry.
EofLed(es) == \A i \in 1..Len(es) : es[i].e = "eof" => \E j \in (i + 1)..Len(es) : es[j].e = "pos"

\* No entry ends.
NoEnd(es) == \A i \in 1..Len(es) : es[i].e = "pos"

\* The first entry that ends was cut short.
StopFirst(es) == \E i \in 1..Len(es) : es[i].e = "stop" /\ \A j \in 1..(i - 1) : es[j].e = "pos"

\* More events arrive behind those that wait.
LEMMA EventsArrive ==
  ASSUME NEW es \in Seq(MpvEvents), NEW ks \in Seq(MpvEvents), NEW p
  PROVE  LET t == es \o ks IN
         /\ t \in Seq(MpvEvents)
         /\ NoPos(t) => NoPos(es) /\ NoPos(ks)
         /\ NoEnd(t) => NoEnd(es) /\ NoEnd(ks)
         /\ EofLed(es) /\ EofLed(ks) => EofLed(t)
         /\ NoPos(ks) /\ EndsAt(es, p) => EndsAt(t, p)
         /\ ~NoPos(ks) /\ EndsAt(ks, p) => EndsAt(t, p)
         /\ StopFirst(t) => StopFirst(es) \/ (NoEnd(es) /\ StopFirst(ks))
<1> DEFINE t == es \o ks
           n == Len(es)
           m == Len(ks)
<1>1. /\ t \in Seq(MpvEvents) /\ Len(t) = n + m /\ n \in Nat /\ m \in Nat
      /\ \A i \in 1..(n + m) : t[i] = IF i <= n THEN es[i] ELSE ks[i - n]
  BY ConcatProperties, LenProperties
<1> HIDE DEF t, n, m
<1>2. /\ \A i \in 1..n : i \in 1..Len(t) /\ t[i] = es[i]
      /\ \A i \in 1..m : n + i \in 1..Len(t) /\ t[n + i] = ks[i]
  <2>1. ASSUME NEW i \in 1..m PROVE n + i \in 1..(n + m) /\ ~(n + i <= n) /\ (n + i) - n = i
    BY <1>1
  <2> QED BY <1>1, <2>1
<1>3. \A i \in 1..Len(t) : i \in 1..n \/ (i - n \in 1..m /\ i = n + (i - n))
  BY <1>1
<1>4. NoPos(t) => NoPos(es) /\ NoPos(ks)
  BY <1>2 DEF NoPos, n, m
<1>5. NoEnd(t) => NoEnd(es) /\ NoEnd(ks)
  BY <1>2 DEF NoEnd, n, m
<1>6. ASSUME EofLed(es), EofLed(ks) PROVE EofLed(t)
  <2> SUFFICES ASSUME NEW i \in 1..Len(t), t[i].e = "eof"
               PROVE  \E j \in (i + 1)..Len(t) : t[j].e = "pos"
    BY DEF EofLed
  <2>1. CASE i \in 1..n
    <3>1. PICK j \in (i + 1)..n : es[j].e = "pos"
      BY <1>2, <1>6, <2>1 DEF EofLed, n
    <3>2. j \in 1..n /\ j \in (i + 1)..Len(t)
      BY <1>1, <2>1
    <3> QED BY <1>2, <3>1, <3>2
  <2>2. CASE i - n \in 1..m /\ i = n + (i - n)
    <3>1. ks[i - n].e = "eof"
      BY <1>2, <2>2
    <3>2. PICK j \in ((i - n) + 1)..m : ks[j].e = "pos"
      BY <1>6, <2>2, <3>1 DEF EofLed, m
    <3>3. j \in 1..m /\ n + j \in (i + 1)..Len(t)
      BY <1>1, <2>2
    <3> QED BY <1>2, <3>2, <3>3
  <2> QED BY <1>3, <2>1, <2>2
<1>7. ASSUME NoPos(ks), EndsAt(es, p) PROVE EndsAt(t, p)
  <2> SUFFICES ASSUME NEW i \in 1..Len(t), t[i].e = "pos", \A j \in (i + 1)..Len(t) : t[j].e # "pos"
               PROVE  t[i].at = p
    BY DEF EndsAt
  <2>1. i \in 1..n
    BY <1>2, <1>3, <1>7 DEF NoPos, m
  <2>2. ASSUME NEW j \in (i + 1)..n PROVE es[j].e # "pos"
    <3>1. j \in 1..n /\ j \in (i + 1)..Len(t)
      BY <1>1, <2>1
    <3> QED BY <1>2, <3>1
  <2>3. es[i].e = "pos"
    BY <1>2, <2>1
  <2>4. es[i].at = p
    BY <1>7, <2>1, <2>2, <2>3 DEF EndsAt, n
  <2> QED BY <1>2, <2>1, <2>4
<1>8. ASSUME ~NoPos(ks), EndsAt(ks, p) PROVE EndsAt(t, p)
  <2> SUFFICES ASSUME NEW i \in 1..Len(t), t[i].e = "pos", \A j \in (i + 1)..Len(t) : t[j].e # "pos"
               PROVE  t[i].at = p
    BY DEF EndsAt
  <2>1. PICK l \in 1..m : ks[l].e = "pos"
    BY <1>8 DEF NoPos, m
  <2>2. ~(i \in 1..n)
    <3> SUFFICES ASSUME i \in 1..n PROVE FALSE
      OBVIOUS
    <3>1. n + l \in (i + 1)..Len(t)
      BY <1>1
    <3> QED BY <1>2, <2>1, <3>1
  <2>3. i - n \in 1..m /\ i = n + (i - n)
    BY <1>3, <2>2
  <2>4. ASSUME NEW j \in ((i - n) + 1)..m PROVE ks[j].e # "pos"
    <3>1. j \in 1..m /\ n + j \in (i + 1)..Len(t)
      BY <1>1, <2>3
    <3> QED BY <1>2, <3>1
  <2>5. t[i] = ks[i - n]
    BY <1>2, <2>3
  <2>6. ks[i - n].at = p
    BY <1>8, <2>3, <2>4, <2>5 DEF EndsAt, m
  <2> QED BY <2>5, <2>6
<1>9. ASSUME StopFirst(t) PROVE StopFirst(es) \/ (NoEnd(es) /\ StopFirst(ks))
  <2>1. PICK i \in 1..Len(t) : t[i].e = "stop" /\ \A j \in 1..(i - 1) : t[j].e = "pos"
    BY <1>9 DEF StopFirst
  <2>2. CASE i \in 1..n
    <3>1. \A j \in 1..(i - 1) : es[j].e = "pos"
      <4>1. \A j \in 1..(i - 1) : j \in 1..n
        BY <1>1, <2>2
      <4> QED BY <1>2, <2>1, <4>1
    <3>2. es[i].e = "stop"
      BY <1>2, <2>1, <2>2
    <3> QED BY <2>2, <3>1, <3>2 DEF StopFirst, n
  <2>3. CASE i - n \in 1..m /\ i = n + (i - n)
    <3>1. NoEnd(es)
      <4>1. \A j \in 1..n : j \in 1..(i - 1)
        BY <1>1, <2>3
      <4> QED BY <1>2, <2>1, <4>1 DEF NoEnd, n
    <3>2. \A j \in 1..((i - n) - 1) : ks[j].e = "pos"
      <4>1. \A j \in 1..((i - n) - 1) : n + j \in 1..(i - 1) /\ j \in 1..m
        BY <1>1, <2>3
      <4> QED BY <1>2, <2>1, <4>1
    <3>3. ks[i - n].e = "stop"
      BY <1>2, <2>1, <2>3
    <3> QED BY <2>3, <3>1, <3>2, <3>3 DEF StopFirst, m
  <2> QED BY <1>3, <2>2, <2>3
<1> QED BY <1>1, <1>4, <1>5, <1>6, <1>7, <1>8, <1>9 DEF t

\* The first of the events is read.
LEMMA EventRead ==
  ASSUME NEW es \in Seq(MpvEvents), es # <<>>, NEW p
  PROVE  LET h == Head(es)
             t == Tail(es)
         IN /\ h \in MpvEvents /\ t \in Seq(MpvEvents)
            /\ EndsAt(es, p) => EndsAt(t, p)
            /\ EofLed(es) => EofLed(t)
            /\ h.e = "pos" => /\ NoEnd(t) => NoEnd(es)
                              /\ StopFirst(t) => StopFirst(es)
                              /\ NoPos(t) /\ EndsAt(es, p) => h.at = p
            /\ h.e # "pos" /\ NoPos(t) => NoPos(es)
            /\ h.e = "stop" => StopFirst(es)
            /\ h.e = "eof" /\ EofLed(es) => ~NoPos(t)
<1> DEFINE h == Head(es)
           t == Tail(es)
           n == Len(es)
<1>1. /\ h = es[1] /\ h \in MpvEvents /\ t \in Seq(MpvEvents) /\ Len(t) = n - 1 /\ n \in Nat \ {0}
      /\ \A j \in 1..Len(t) : t[j] = es[j + 1]
  <2>1. n \in Nat \ {0}
    BY EmptySeq, LenProperties
  <2>2. es[1] \in MpvEvents
    BY <2>1, ElementOfSeq
  <2> QED BY <2>1, <2>2, HeadTailProperties
<1> HIDE DEF h, t, n
<1>2. /\ \A i \in 1..Len(t) : i + 1 \in 1..n /\ es[i + 1] = t[i]
      /\ \A i \in 1..n : i = 1 \/ (i - 1 \in 1..Len(t) /\ es[i] = t[i - 1])
  <2>1. \A i \in 1..n : i = 1 \/ (i - 1 \in 1..Len(t) /\ (i - 1) + 1 = i)
    BY <1>1
  <2> QED BY <1>1, <2>1
<1>3. ASSUME EndsAt(es, p) PROVE EndsAt(t, p)
  <2> SUFFICES ASSUME NEW i \in 1..Len(t), t[i].e = "pos", \A j \in (i + 1)..Len(t) : t[j].e # "pos"
               PROVE  t[i].at = p
    BY DEF EndsAt
  <2>1. ASSUME NEW j \in ((i + 1) + 1)..n PROVE es[j].e # "pos"
    <3>1. j - 1 \in (i + 1)..Len(t) /\ j \in 1..n /\ j # 1
      BY <1>1
    <3> QED BY <1>2, <3>1
  <2> QED BY <1>2, <1>3, <2>1 DEF EndsAt, n
<1>4. ASSUME EofLed(es) PROVE EofLed(t)
  <2> SUFFICES ASSUME NEW i \in 1..Len(t), t[i].e = "eof"
               PROVE  \E j \in (i + 1)..Len(t) : t[j].e = "pos"
    BY DEF EofLed
  <2>1. PICK j \in ((i + 1) + 1)..n : es[j].e = "pos"
    BY <1>2, <1>4 DEF EofLed, n
  <2>2. j - 1 \in (i + 1)..Len(t) /\ j \in 1..n /\ j # 1
    BY <1>1
  <2> QED BY <1>2, <2>1, <2>2
<1>5. ASSUME h.e = "pos", NoEnd(t) PROVE NoEnd(es)
  BY <1>1, <1>2, <1>5 DEF NoEnd, n
<1>6. ASSUME h.e = "pos", StopFirst(t) PROVE StopFirst(es)
  <2>1. PICK i \in 1..Len(t) : t[i].e = "stop" /\ \A j \in 1..(i - 1) : t[j].e = "pos"
    BY <1>6 DEF StopFirst
  <2>2. i + 1 \in 1..n /\ es[i + 1].e = "stop"
    BY <1>2, <2>1
  <2>3. ASSUME NEW j \in 1..((i + 1) - 1) PROVE es[j].e = "pos"
    <3>1. CASE j = 1
      BY <1>1, <1>6, <3>1
    <3>2. CASE j # 1
      <4>1. j - 1 \in 1..(i - 1) /\ j \in 1..n
        BY <1>1, <2>2, <3>2
      <4> QED BY <1>2, <2>1, <3>2, <4>1
    <3> QED BY <3>1, <3>2
  <2> QED BY <2>2, <2>3 DEF StopFirst, n
<1>7. ASSUME h.e = "pos", NoPos(t), EndsAt(es, p) PROVE h.at = p
  <2>1. 1 \in 1..n
    BY <1>1
  <2>2. ASSUME NEW j \in (1 + 1)..n PROVE es[j].e # "pos"
    <3>1. j \in 1..n /\ j # 1
      BY <1>1
    <3> QED BY <1>2, <1>7, <3>1 DEF NoPos
  <2> QED BY <1>1, <1>7, <2>1, <2>2 DEF EndsAt, n
<1>8. ASSUME h.e # "pos", NoPos(t) PROVE NoPos(es)
  BY <1>1, <1>2, <1>8 DEF NoPos, n
<1>9. ASSUME h.e = "stop" PROVE StopFirst(es)
  <2>1. 1 \in 1..n /\ \A j \in 1..(1 - 1) : es[j].e = "pos"
    BY <1>1
  <2> QED BY <1>1, <1>9, <2>1 DEF StopFirst, n
<1>10. ASSUME h.e = "eof", EofLed(es) PROVE ~NoPos(t)
  <2>1. 1 \in 1..n
    BY <1>1
  <2>2. PICK j \in (1 + 1)..n : es[j].e = "pos"
    BY <1>1, <1>10, <2>1 DEF EofLed, n
  <2>3. j \in 1..n /\ j # 1
    BY <1>1
  <2> QED BY <1>2, <2>2, <2>3 DEF NoPos
<1> QED BY <1>1, <1>3, <1>4, <1>5, <1>6, <1>7, <1>8, <1>9, <1>10 DEF h, t

\* mpv says nothing.
LEMMA NothingSaid ==
  /\ <<>> \in Seq(MpvEvents) /\ NoPos(<<>>) /\ NoEnd(<<>>) /\ EofLed(<<>>) /\ ~StopFirst(<<>>)
  /\ \A p : EndsAt(<<>>, p)
BY EmptySeq DEF NoPos, NoEnd, EofLed, StopFirst, EndsAt

\* mpv names the position it has shifted to.
LEMMA PosSaid ==
  ASSUME NEW before \in Nat, NEW after \in Nat
  PROVE  LET ks == PosEvents(before, after) IN
         /\ ks \in Seq(MpvEvents) /\ NoEnd(ks) /\ EofLed(ks) /\ ~StopFirst(ks)
         /\ EndsAt(ks, after)
         /\ NoPos(ks) <=> ~(before # after /\ after > 0)
<1>1. CASE before # after /\ after > 0
  <2> DEFINE x == [e |-> "pos", at |-> after]
             ks == <<x>>
  <2>1. PosEvents(before, after) = ks
    BY <1>1 DEF PosEvents
  <2>2. x \in MpvEvents /\ x.e = "pos" /\ x.at = after
    BY DEF MpvEvents
  <2> HIDE DEF x
  <2>3. ks \in Seq(MpvEvents) /\ Len(ks) = 1 /\ ks[1] = x
    BY <2>2
  <2> HIDE DEF ks
  <2>4. 1..Len(ks) = {1}
    BY <2>3
  <2>5. NoEnd(ks) /\ EofLed(ks) /\ ~StopFirst(ks) /\ EndsAt(ks, after) /\ ~NoPos(ks)
    BY <2>2, <2>3, <2>4 DEF NoEnd, EofLed, StopFirst, EndsAt, NoPos
  <2> QED BY <1>1, <2>1, <2>3, <2>5
<1>2. CASE ~(before # after /\ after > 0)
  <2>1. PosEvents(before, after) = <<>>
    BY <1>2 DEF PosEvents
  <2> QED BY <1>2, <2>1, NothingSaid
<1> QED BY <1>1, <1>2

\* mpv ends an entry, and names the position it goes on at unless that is
\* where it was.
LEMMA EndSaid ==
  ASSUME NEW reason \in {"eof", "stop"}, NEW before \in Nat, NEW after \in Nat
  PROVE  LET ks == <<[e |-> reason, at |-> 0]>> \o PosEvents(before, after) IN
         /\ ks \in Seq(MpvEvents) /\ ~NoEnd(ks)
         /\ StopFirst(ks) => reason = "stop"
         /\ EndsAt(ks, after)
         /\ NoPos(ks) <=> ~(before # after /\ after > 0)
         /\ reason = "stop" \/ ~NoPos(ks) => EofLed(ks)
<1> DEFINE x == [e |-> reason, at |-> 0]
           y == [e |-> "pos", at |-> after]
           ks == <<x>> \o PosEvents(before, after)
<1>1. x \in MpvEvents /\ x.e = reason /\ y \in MpvEvents /\ y.e = "pos" /\ y.at = after
  BY DEF MpvEvents
<1>2. CASE before # after /\ after > 0
  <2>1. PosEvents(before, after) = <<y>>
    BY <1>2 DEF PosEvents
  <2> DEFINE a == <<x>>
             b == <<y>>
  <2>2. /\ a \in Seq(MpvEvents) /\ Len(a) = 1 /\ a[1] = x
        /\ b \in Seq(MpvEvents) /\ Len(b) = 1 /\ b[1] = y
    BY <1>1
  <2>3. ks \in Seq(MpvEvents) /\ Len(ks) = 2 /\ ks[1] = x /\ ks[2] = y
    <3>1. ks = a \o b
      BY <2>1
    <3> HIDE DEF a, b, ks
    <3>2. /\ ks \in Seq(MpvEvents) /\ Len(ks) = Len(a) + Len(b)
          /\ \A j \in 1..(Len(a) + Len(b)) : ks[j] = IF j <= Len(a) THEN a[j] ELSE b[j - Len(a)]
      BY <2>2, <3>1, ConcatProperties
    <3> QED BY <2>2, <3>2
  <2> HIDE DEF ks, x, y, a, b
  <2>4. 1..Len(ks) = {1, 2}
    BY <2>3
  <2>5. ~NoEnd(ks) /\ ~NoPos(ks)
    BY <1>1, <2>3, <2>4 DEF NoEnd, NoPos
  <2>6. StopFirst(ks) => reason = "stop"
    BY <1>1, <2>3, <2>4 DEF StopFirst
  <2>7. EndsAt(ks, after)
    BY <1>1, <2>3, <2>4 DEF EndsAt
  <2>8. EofLed(ks)
    <3>1. 2 \in (1 + 1)..Len(ks)
      BY <2>3
    <3> QED BY <1>1, <2>3, <2>4, <3>1 DEF EofLed
  <2> QED BY <1>2, <2>3, <2>5, <2>6, <2>7, <2>8 DEF ks, x
<1>3. CASE ~(before # after /\ after > 0)
  <2>1. PosEvents(before, after) = <<>>
    BY <1>3 DEF PosEvents
  <2>2. ks = <<x>>
    BY <2>1
  <2> HIDE DEF ks, x
  <2>3. ks \in Seq(MpvEvents) /\ Len(ks) = 1 /\ ks[1] = x
    BY <1>1, <2>2
  <2>4. 1..Len(ks) = {1}
    BY <2>3
  <2>5. ~NoEnd(ks) /\ NoPos(ks)
    BY <1>1, <2>3, <2>4 DEF NoEnd, NoPos
  <2>6. StopFirst(ks) => reason = "stop"
    BY <1>1, <2>3, <2>4 DEF StopFirst
  <2>7. EndsAt(ks, after)
    BY <1>1, <2>3, <2>4 DEF EndsAt
  <2>8. reason = "stop" => EofLed(ks)
    BY <1>1, <2>3, <2>4 DEF EofLed
  <2> QED BY <1>3, <2>3, <2>5, <2>6, <2>7, <2>8 DEF ks, x
<1> QED BY <1>2, <1>3

-----------------------------------------------------------------------------
(* Where the run and mpv are after a command.                              *)

\* mpv's position and the run's ordinal in t are on the entries they are on in r.
StaysOn(r, t) ==
  /\ r.pos = 0 => t.pos = 0
  /\ r.pos > 0 => t.pos > 0 /\ t.slots[t.pos] = r.slots[r.pos]
  /\ r.idx \in DOMAIN r.slots => t.idx \in DOMAIN t.slots /\ t.slots[t.idx] = r.slots[r.idx]

\* The entry at i is at ShiftIndexForMove's index after the move.
LEMMA ShiftFollows ==
  ASSUME NEW S, NEW s \in Seq(S), NEW from \in 1..Len(s), NEW to \in 1..Len(s), NEW i \in 1..Len(s)
  PROVE  LET t == InsertAt(RemoveAt(s, from), to, s[from])
             k == ShiftIndexForMove(i, from, to)
         IN k \in 1..Len(s) /\ t[k] = s[i]
<1> DEFINE rest == RemoveAt(s, from)
           x == s[from]
           t == InsertAt(rest, to, x)
           n == Len(s)
           k == ShiftIndexForMove(i, from, to)
<1>1. n \in Nat /\ x \in S
  BY LenProperties, ElementOfSeq
<1>2. /\ rest \in Seq(S) /\ Len(rest) = n - 1
      /\ \A j \in 1..(n - 1) : rest[j] = IF j < from THEN s[j] ELSE s[j + 1]
  BY RemoveAtProperties
<1> HIDE DEF rest, x, n
<1>3. to \in 1..(Len(rest) + 1) /\ Len(rest) + 1 = n
  BY <1>1, <1>2 DEF n
<1>4. /\ \A j \in 1..n : j < to => t[j] = rest[j]
      /\ t[to] = x
      /\ \A j \in 1..n : j > to => t[j] = rest[j - 1]
  BY <1>1, <1>2, <1>3, InsertedIs
<1> HIDE DEF t
<1>5. from \in 1..n /\ to \in 1..n /\ i \in 1..n
  BY DEF n
<1>6. CASE i = from
  <2>1. k = to
    BY <1>6 DEF ShiftIndexForMove
  <2> QED BY <1>4, <1>5, <1>6, <2>1 DEF t, x, n, rest
<1>7. CASE from < i /\ i <= to
  <2>1. k = i - 1
    BY <1>5, <1>7 DEF ShiftIndexForMove
  <2>2. i - 1 \in 1..n /\ i - 1 < to /\ i - 1 \in 1..(n - 1) /\ ~(i - 1 < from) /\ (i - 1) + 1 = i
    BY <1>1, <1>5, <1>7
  <2>3. t[i - 1] = s[i]
    BY <1>2, <1>4, <2>2
  <2> QED BY <2>1, <2>2, <2>3 DEF t, x, n, rest
<1>8. CASE to <= i /\ i < from
  <2>1. k = i + 1
    BY <1>5, <1>8 DEF ShiftIndexForMove
  <2>2. i + 1 \in 1..n /\ i + 1 > to /\ i \in 1..(n - 1) /\ (i + 1) - 1 = i
    BY <1>1, <1>5, <1>8
  <2>3. t[i + 1] = s[i]
    BY <1>2, <1>4, <1>8, <2>2
  <2> QED BY <2>1, <2>2, <2>3 DEF t, x, n, rest
<1>9. CASE ~(i = from) /\ ~(from < i /\ i <= to) /\ ~(to <= i /\ i < from)
  <2>1. k = i
    BY <1>9 DEF ShiftIndexForMove
  <2>2. CASE i < from
    <3>1. i < to /\ i \in 1..(n - 1)
      BY <1>1, <1>5, <1>9, <2>2
    <3>2. t[i] = s[i]
      BY <1>2, <1>4, <1>5, <2>2, <3>1
    <3> QED BY <1>5, <2>1, <3>2 DEF t, x, n, rest
  <2>3. CASE from < i
    <3>1. i > to /\ i - 1 \in 1..(n - 1) /\ ~(i - 1 < from) /\ (i - 1) + 1 = i
      BY <1>1, <1>5, <1>9, <2>3
    <3>2. t[i] = s[i]
      BY <1>2, <1>4, <1>5, <3>1
    <3> QED BY <1>5, <2>1, <3>2 DEF t, x, n, rest
  <2> QED BY <1>5, <1>9, <2>2, <2>3
<1> QED BY <1>6, <1>7, <1>8, <1>9

\* cmd_queue_move leaves both on their entries.
LEMMA MoveStays ==
  ASSUME NEW r, RunInv(r), NEW x, NEW to \in Nat \ {0}
  PROVE  StaysOn(r, CmdMove(r, x, to))
<1> DEFINE from == IndexOf(x, r.slots)
           list == PlaylistMove(r.list, from, PlaylistMoveTarget(from, to))
           idx  == ShiftIndexForMove(r.idx, from, to)
           pos  == IF r.pos = 0 THEN 0 ELSE IndexOf(r.list[r.pos], list)
           slots == MoveSlot(r.slots, x, to)
           s    == [r EXCEPT !.slots = slots, !.idx = idx, !.list = list, !.pos = pos]
           t    == CmdMove(r, x, to)
<1>1. t = IF from = 0 \/ to > Len(r.slots) \/ from = to THEN r ELSE s
  BY DEF CmdMove
<1>2. /\ r.slots \in Seq(Slots) /\ IsInjective(r.slots) /\ r.list = r.slots /\ r \in Runs
      /\ r.pos \in 0..Len(r.list)
      /\ DOMAIN r.slots = 1..Len(r.slots) /\ Len(r.slots) \in Nat
  BY LenProperties DEF RunInv, Runs
<1>3. /\ RunInv(t) /\ Len(t.slots) = Len(r.slots) /\ Range(t.slots) = Range(r.slots)
  BY MoveDoes
<1>4. CASE from = 0 \/ to > Len(r.slots) \/ from = to
  BY <1>1, <1>2, <1>4 DEF StaysOn
<1>5. CASE ~(from = 0 \/ to > Len(r.slots) \/ from = to)
  <2>1. t = s
    BY <1>1, <1>5
  <2>2. /\ x \in Range(r.slots) /\ from \in 1..Len(r.slots) /\ r.slots[from] = x
        /\ to \in 1..Len(r.slots)
    BY <1>2, <1>5, IndexOfIs
  <2>3. slots = InsertAt(RemoveAt(r.slots, from), to, x)
    BY <1>2, <2>2, MoveDistinct
  <2> HIDE DEF t, list, slots, idx, from
  <2>4. t.slots = slots /\ t.idx = idx /\ t.pos = pos /\ t.list = list
    <3> HIDE DEF pos
    <3> QED BY <1>2, <2>1 DEF Runs
  <2>5. ASSUME r.idx \in DOMAIN r.slots
        PROVE  t.idx \in DOMAIN t.slots /\ t.slots[t.idx] = r.slots[r.idx]
    <3> DEFINE q == r.slots
               i == r.idx
               u == InsertAt(RemoveAt(q, from), to, q[from])
    <3>a. q \in Seq(Slots) /\ from \in 1..Len(q) /\ to \in 1..Len(q) /\ i \in 1..Len(q)
      BY <1>2, <2>2, <2>5
    <3>b. idx = ShiftIndexForMove(i, from, to)
      BY DEF idx
    <3> HIDE DEF q, i
    <3>c. idx \in 1..Len(q) /\ u[idx] = q[i]
      BY <3>a, <3>b, ShiftFollows
    <3>1. idx \in 1..Len(r.slots) /\ InsertAt(RemoveAt(r.slots, from), to, r.slots[from])[idx] = r.slots[r.idx]
      BY <3>c DEF q, i
    <3>2. slots[idx] = r.slots[r.idx]
      BY <2>2, <2>3, <3>1
    <3>3. DOMAIN t.slots = 1..Len(t.slots)
      BY <1>3, LenProperties DEF RunInv, Runs
    <3> QED BY <1>3, <2>4, <3>1, <3>2, <3>3
  <2>6. ASSUME r.pos > 0 PROVE t.pos > 0 /\ t.slots[t.pos] = r.slots[r.pos]
    <3>1. r.pos \in DOMAIN r.slots /\ r.pos # 0
      BY <1>2, <2>6
    <3>2. r.slots[r.pos] \in Range(t.slots)
      BY <1>3, <3>1 DEF Range
    <3>3. t.pos = IndexOf(r.slots[r.pos], t.slots)
      BY <1>2, <1>3, <2>4, <3>1 DEF RunInv
    <3>4. t.slots \in Seq(Slots)
      BY <1>3 DEF RunInv, Runs
    <3>5. IndexOf(r.slots[r.pos], t.slots) \in 1..Len(t.slots)
          /\ t.slots[IndexOf(r.slots[r.pos], t.slots)] = r.slots[r.pos]
      BY <3>2, <3>4, IndexOfIs
    <3> QED BY <3>3, <3>5
  <2>7. r.pos = 0 => t.pos = 0
    BY <2>4
  <2> QED BY <2>5, <2>6, <2>7 DEF StaysOn, t
<1> QED BY <1>4, <1>5

\* cmd_queue_reorder leaves both on their entries.
LEMMA ReorderStays ==
  ASSUME NEW r, RunInv(r), NEW order \in Seq(Slots)
  PROVE  StaysOn(r, CmdReorder(r, order))
<1> DEFINE n == Len(order)
<1>0. n \in Nat
  BY LenProperties
<1>1. CASE ~IsSlotPermutation(r.slots, order)
  BY <1>1 DEF CmdReorder, StaysOn
<1>2. CASE IsSlotPermutation(r.slots, order)
  <2>1. PICK f : ReorderUpTo(r, order, f, n) /\ CmdReorder(r, order) = f[n]
    BY <1>2, ReorderRecursion
  <2> DEFINE Good(i) == RunInv(f[i]) /\ StaysOn(r, f[i])
             T == {i \in 0..n : Good(i)}
  <2> HIDE DEF n
  <2>2. Good(0)
    BY <2>1 DEF ReorderUpTo, StaysOn
  <2>3. ASSUME NEW i \in 0..(n - 1), Good(i) PROVE Good(i + 1)
    <3> DEFINE t == CmdMove(f[i], order[i + 1], i + 1)
    <3>1. i + 1 \in 1..n /\ (i + 1) - 1 = i /\ i + 1 \in Nat \ {0}
      BY <1>0
    <3>2. f[i + 1] = t
      BY <2>1, <3>1 DEF ReorderUpTo
    <3>3. RunInv(t) /\ StaysOn(f[i], t)
      BY <2>3, <3>1, MoveDoes, MoveStays
    <3>4. StaysOn(r, f[i])
      BY <2>3
    <3> HIDE DEF t
    <3>5. StaysOn(r, t)
      BY <3>3, <3>4 DEF StaysOn
    <3> QED BY <3>2, <3>3, <3>5
  <2>4. n \in T
    <3>1. 0 \in T
      BY <1>0, <2>2
    <3>2. \A i \in 0..(n - 1) : i \in T => i + 1 \in T
      <4> HIDE DEF Good
      <4> QED BY <1>0, <2>3
    <3> HIDE DEF T
    <3>3. 0..n \subseteq T
      BY <1>0, <3>1, <3>2, UpTo
    <3> QED BY <1>0, <3>3
  <2> QED BY <2>1, <2>4
<1> QED BY <1>1, <1>2

\* So does every command but a removal.
LEMMA CommandStays ==
  ASSUME NEW r, RunInv(r), NEW k \in Commands, k.c \in {"move", "reorder", "append"}
  PROVE  LET t == Done(r, k).run IN StaysOn(r, t) /\ Done(r, k).sent = <<>>
<1>1. CASE k.c = "move"
  <2>1. k.to \in Nat \ {0}
    BY <1>1 DEF Commands
  <2> QED BY <1>1, <2>1, MoveStays DEF Done
<1>2. CASE k.c = "reorder"
  <2>1. k.order \in Seq(Slots)
    BY DEF Commands
  <2> QED BY <1>2, <2>1, ReorderStays DEF Done
<1>3. CASE k.c = "append"
  <2>1. k.slot \in Slots
    BY <1>3 DEF Commands
  <2> DEFINE x == k.slot
             t == Append(r.slots, x)
             s == [r EXCEPT !.slots = t, !.list = t]
  <2>2. r \in Runs /\ r.slots \in Seq(Slots) /\ r.list = r.slots /\ r.pos \in 0..Len(r.slots)
    BY DEF RunInv, Runs
  <2>3. /\ \A i \in 1..Len(r.slots) : t[i] = r.slots[i]
        /\ DOMAIN r.slots = 1..Len(r.slots) /\ DOMAIN t = 1..(Len(r.slots) + 1) /\ Len(r.slots) \in Nat
    BY <2>1, <2>2, AppendProperties, LenProperties
  <2>4. CmdAppend(r, x) = s
    BY <2>2 DEF CmdAppend, Runs
  <2> HIDE DEF t, x
  <2>5. s.slots = t /\ s.idx = r.idx /\ s.pos = r.pos
    BY <2>2 DEF Runs
  <2> HIDE DEF s
  <2>6. StaysOn(r, s)
    BY <2>2, <2>3, <2>5 DEF StaysOn
  <2>7. Done(r, k) = [run |-> CmdAppend(r, x), sent |-> <<>>]
    BY <1>3 DEF Done, x
  <2> QED BY <2>4, <2>6, <2>7
<1> QED BY <1>1, <1>2, <1>3

\* cmd_queue_remove leaves the run's ordinal, and mpv on its entry or on the
\* one that takes its place.
LEMMA RemoveStays ==
  ASSUME NEW r, RunInv(r), NEW x
  PROVE  LET t == CmdRemove(r, x).run
             sent == CmdRemove(r, x).sent
         IN /\ sent \in Seq(MpvEvents)
            /\ x \notin Range(r.slots) => t = r /\ sent = <<>>
            /\ x \in Range(r.slots) => t.idx = r.idx /\ t.cur = IF r.cur = x THEN NoSlot ELSE r.cur
            /\ r.pos = 0 => t.pos = 0
            /\ r.pos > 0 /\ t.pos > 0 /\ r.slots[r.pos] # x =>
                 t.slots[t.pos] = r.slots[r.pos] /\ sent = PosEvents(r.pos, t.pos)
            /\ r.pos > 0 /\ t.pos > 0 /\ r.slots[r.pos] = x =>
                 t.pos = r.pos /\ sent = <<[e |-> "stop", at |-> 0]>> \o PosEvents(r.pos, t.pos)
<1> DEFINE at == IndexOf(x, r.slots)
           slots == RemoveAt(r.slots, at)
           mpv == PlaylistRemove(r, at)
           cur == IF r.cur = x THEN NoSlot ELSE r.cur
           s == [r EXCEPT !.slots = slots, !.cur = cur, !.list = mpv.list, !.pos = mpv.pos]
<1>1. /\ r.slots \in Seq(Slots) /\ IsInjective(r.slots) /\ r.list = r.slots
      /\ r.pos \in 0..Len(r.slots) /\ r \in Runs
      /\ Len(r.slots) \in Nat /\ DOMAIN r.slots = 1..Len(r.slots)
  BY LenProperties DEF RunInv, Runs
<1>2. CASE x \notin Range(r.slots)
  <2>1. at = 0
    BY <1>1, <1>2, IndexOfIs
  <2>2. CmdRemove(r, x) = [run |-> r, sent |-> <<>>]
    BY <2>1 DEF CmdRemove
  <2>3. r.pos > 0 => r.slots[r.pos] # x
    BY <1>1, <1>2 DEF Range
  <2>4. PosEvents(r.pos, r.pos) = <<>>
    BY DEF PosEvents
  <2> QED BY <1>2, <2>2, <2>3, <2>4, NothingSaid
<1>3. CASE x \in Range(r.slots)
  <2>1. at \in 1..Len(r.slots) /\ r.slots[at] = x
    BY <1>1, <1>3, IndexOfIs
  <2>2. CmdRemove(r, x).run = s /\ CmdRemove(r, x).sent = mpv.sent
    <3>1. at # 0
      BY <2>1
    <3> HIDE DEF s
    <3>2. CmdRemove(r, x) = [run |-> s, sent |-> mpv.sent]
      BY <3>1 DEF CmdRemove, s
    <3> HIDE DEF mpv
    <3> QED BY <3>2
  <2>3. /\ Len(slots) = Len(r.slots) - 1
        /\ \A j \in 1..(Len(r.slots) - 1) : slots[j] = IF j < at THEN r.slots[j] ELSE r.slots[j + 1]
    BY <1>1, <2>1, RemoveAtProperties
  <2>4. mpv.pos = IF at < r.pos THEN r.pos - 1
                  ELSE IF at = r.pos /\ at > Len(slots) THEN 0 ELSE r.pos
    BY <1>1 DEF PlaylistRemove
  <2>5. mpv.sent = (IF at = r.pos THEN <<[e |-> "stop", at |-> 0]>> ELSE <<>>) \o PosEvents(r.pos, mpv.pos)
    BY <1>1 DEF PlaylistRemove
  <2> HIDE DEF slots, mpv, at
  <2>6. s.slots = slots /\ s.pos = mpv.pos /\ s.idx = r.idx /\ s.cur = cur
    <3> HIDE DEF cur
    <3> QED BY <1>1 DEF Runs
  <2>7. r.pos \in Nat /\ mpv.pos \in Nat
    BY <1>1, <2>1, <2>3, <2>4
  <2>8. PosEvents(r.pos, mpv.pos) \in Seq(MpvEvents)
    BY <2>7, PosSaid
  <2>9. at # r.pos => mpv.sent = PosEvents(r.pos, mpv.pos)
    <3> DEFINE ks == PosEvents(r.pos, mpv.pos)
    <3> HIDE DEF ks
    <3>1. ks \in Seq(MpvEvents)
      BY <2>8 DEF ks
    <3>2. <<>> \o ks = ks
      BY <3>1, ConcatEmptySeq
    <3> QED BY <2>5, <3>2 DEF ks
  <2>10. mpv.sent \in Seq(MpvEvents)
    <3>1. CASE at = r.pos
      <4>1. "stop" \in {"eof", "stop"}
        OBVIOUS
      <4> QED BY <2>5, <2>7, <3>1, <4>1, EndSaid
    <3>2. CASE at # r.pos
      BY <2>8, <2>9, <3>2
    <3> QED BY <3>1, <3>2
  <2>11. r.pos = 0 => mpv.pos = 0
    BY <2>1, <2>4
  <2>12. ASSUME r.pos > 0, mpv.pos > 0, r.slots[r.pos] # x
         PROVE  slots[mpv.pos] = r.slots[r.pos] /\ mpv.sent = PosEvents(r.pos, mpv.pos)
    <3>1. at # r.pos
      BY <2>1, <2>12
    <3>2. CASE at < r.pos
      <4>1. mpv.pos = r.pos - 1 /\ r.pos - 1 \in 1..(Len(r.slots) - 1) /\ ~(r.pos - 1 < at)
            /\ (r.pos - 1) + 1 = r.pos
        BY <1>1, <2>1, <2>4, <3>2
      <4> QED BY <2>3, <2>9, <3>1, <4>1
    <3>3. CASE at > r.pos
      <4>1. mpv.pos = r.pos /\ r.pos \in 1..(Len(r.slots) - 1) /\ r.pos < at
        BY <1>1, <2>1, <2>4, <2>12, <3>3
      <4> QED BY <2>3, <2>9, <3>1, <4>1
    <3> QED BY <1>1, <2>1, <3>1, <3>2, <3>3
  <2>13. ASSUME r.pos > 0, mpv.pos > 0, r.slots[r.pos] = x
         PROVE  mpv.pos = r.pos /\ mpv.sent = <<[e |-> "stop", at |-> 0]>> \o PosEvents(r.pos, mpv.pos)
    <3>1. at = r.pos
      BY <1>1, <2>1, <2>13 DEF IsInjective
    <3>2. mpv.pos = r.pos
      BY <2>1, <2>4, <2>13, <3>1
    <3> DEFINE ks == PosEvents(r.pos, mpv.pos)
    <3> HIDE DEF ks
    <3>3. mpv.sent = <<[e |-> "stop", at |-> 0]>> \o ks
      BY <2>5, <3>1 DEF ks
    <3> QED BY <3>2, <3>3 DEF ks
  <2> HIDE DEF s
  <2> QED BY <1>3, <2>2, <2>6, <2>10, <2>11, <2>12, <2>13
<1> QED BY <1>2, <1>3

-----------------------------------------------------------------------------
(* The run settles on the entry mpv plays.                                 *)

\* The run's active slot is the one at its ordinal.
OnItsSlot(r) == r.idx \in DOMAIN r.slots /\ r.cur = r.slots[r.idx]

\* A slot the owner has minted is gone from the run for good.
Lost ==
  \E x \in minted \ Range(run.slots) :
    \A i \in 1..Len(chan) : chan[i].c = "append" => chan[i].slot # x

\* An append on its way names a slot the run does not hold and no other
\* append names.
AppendsNew ==
  /\ \A i \in 1..Len(chan) : chan[i].c = "append" => chan[i].slot \in minted \ Range(run.slots)
  /\ \A i, j \in 1..Len(chan) :
       chan[i].c = "append" /\ chan[j].c = "append" /\ chan[i].slot = chan[j].slot => i = j

\* While mpv is on an entry, the last position among the unread events es is
\* that entry's, and a run that will read no position is on its ordinal.
Coordinates(r, es) ==
  r.pos > 0 => /\ NoPos(es) => r.idx = r.pos
               /\ EndsAt(es, r.pos)
               /\ EofLed(es)

\* The run has read nothing yet of what mpv did since it was settled: its
\* active slot is the one mpv plays until mpv leaves it, and is none when a
\* removal made mpv leave it.
Unread(r, es) ==
  /\ NoEnd(es) => r.cur = r.slots[r.pos]
  /\ StopFirst(es) => r.cur = NoSlot

\* A run that has lost no slot, to which a step in the mpv window may happen,
\* is always on its slot.  Without such steps it has unread events of mpv when
\* it is not, and settles when it reads them.
Follows ==
  /\ Coordinates(run, evs)
  /\ ~Lost => OnItsSlot(run)
  /\ keys = 0 /\ run.pos > 0 => Unread(run, evs) \/ (tick = "events" /\ OnItsSlot(run))

Follow == evs \in Seq(MpvEvents) /\ AppendsNew /\ (run.alive => Follows)

\* The slots a command leaves to the run.
LEMMA AppliedRange ==
  ASSUME NEW q \in Seq(Slots), IsInjective(q), NEW k \in Commands
  PROVE  /\ k.c = "append" => Range(Applied(q, k)) \subseteq Range(q) \cup {k.slot}
         /\ k.c # "append" => Range(Applied(q, k)) \subseteq Range(q)
         /\ k.c = "remove" => k.slot \notin Range(Applied(q, k))
<1>1. k.c \in {"remove", "move", "append", "reorder", "stop"} /\ k.to \in Nat
  BY DEF Commands
<1>2. CASE k.c = "remove"
  <2>1. Applied(q, k) = Dropped(q, k.slot)
    BY <1>2 DEF Applied
  <2>2. Range(Dropped(q, k.slot)) = Range(q) \ {k.slot}
    BY DropDistinct
  <2> QED BY <1>2, <2>1, <2>2
<1>3. CASE k.c = "move"
  <2>1. Applied(q, k) = Moved(q, k.slot, k.to)
    BY <1>3 DEF Applied
  <2>2. k.to \in Nat \ {0}
    BY <1>3 DEF Commands
  <2>3. Range(Moved(q, k.slot, k.to)) = Range(q)
    BY <2>2, MovedDistinct
  <2> QED BY <1>3, <2>1, <2>3
<1>4. CASE k.c = "append"
  <2>1. Applied(q, k) = Append(q, k.slot) /\ k.slot \in Slots
    BY <1>4 DEF Applied, Commands
  <2> DEFINE t == Append(q, k.slot)
             n == Len(q)
  <2>2. /\ \A i \in 1..n : t[i] = q[i]
        /\ t[n + 1] = k.slot
        /\ DOMAIN q = 1..n /\ DOMAIN t = 1..(n + 1) /\ n \in Nat
    BY <2>1, AppendProperties, LenProperties
  <2> HIDE DEF t, n
  <2>3. Range(t) \subseteq Range(q) \cup {k.slot}
    BY <2>2 DEF Range
  <2> QED BY <1>4, <2>1, <2>3 DEF t
<1>5. CASE k.c = "reorder"
  <2>1. Applied(q, k) = IF IsSlotPermutation(q, k.order) THEN k.order ELSE q
    BY <1>5 DEF Applied
  <2> QED BY <1>5, <2>1 DEF IsSlotPermutation
<1>6. CASE k.c = "stop"
  BY <1>6 DEF Applied
<1> QED BY <1>1, <1>2, <1>3, <1>4, <1>5, <1>6

\* What the run's command does to what is on its way.
LEMMA CommandTaken ==
  ASSUME IInv, HandleCommand
  PROVE  LET k == Head(chan) IN
         /\ run.alive /\ tick = "commands" /\ UNCHANGED <<tick, keys, minted>>
         /\ run' = Done(run, k).run /\ run'.slots = Applied(run.slots, k) /\ RunInv(run')
         /\ k \in Commands /\ k = chan[1] /\ Len(chan) \in Nat \ {0} /\ Len(chan') = Len(chan) - 1
         /\ \A j \in 1..Len(chan') : chan'[j] = chan[j + 1]
         /\ run'.alive => /\ k.c # "stop"
                          /\ k.c = "remove" => evs' = evs \o CmdRemove(run, k.slot).sent
                          /\ k.c # "remove" => evs' = evs \o PosEvents(run.pos, run'.pos)
<1> DEFINE k == Head(chan)
           ds == Tail(chan)
<1>1. /\ run.alive /\ tick = "commands" /\ chan # <<>> /\ run' = Done(run, k).run
      /\ evs' = IF Done(run, k).run.alive
                  THEN evs \o (IF k.c = "remove" THEN Done(run, k).sent
                               ELSE PosEvents(run.pos, Done(run, k).run.pos))
                  ELSE <<>>
      /\ chan' = ds
      /\ UNCHANGED <<tick, keys, minted>>
  BY DEF HandleCommand, Done
<1>2. RunInv(run) /\ chan \in Seq(Commands) /\ Holds(consumes, run.slots, chan, minted, queue)
  BY <1>1 DEF IInv, Run, OnTheWay
<1>3. PICK last : Reaches(run.slots, chan, minted, last)
  BY <1>2 DEF Holds
<1>4. k \in Commands /\ IsInjective(Applied(run.slots, k))
  BY <1>1, <1>2, <1>3, ReachNext
<1>5. /\ RunInv(run') /\ run'.slots = Applied(run.slots, k)
      /\ run'.alive => k.c # "stop"
  BY <1>1, <1>2, <1>4, CommandDoes
<1>6. /\ k = chan[1] /\ Len(ds) = Len(chan) - 1 /\ Len(chan) \in Nat \ {0}
      /\ \A j \in 1..Len(ds) : ds[j] = chan[j + 1]
  BY <1>1, <1>2, EmptySeq, HeadTailProperties
<1>7. k.c = "remove" => Done(run, k).sent = CmdRemove(run, k.slot).sent
  BY DEF Done
<1> HIDE DEF k, ds
<1>8. run'.alive => /\ k.c = "remove" => evs' = evs \o CmdRemove(run, k.slot).sent
                    /\ k.c # "remove" => evs' = evs \o PosEvents(run.pos, run'.pos)
  BY <1>1, <1>7
<1> QED BY <1>1, <1>4, <1>5, <1>6, <1>8 DEF k

\* What an edit of the owner puts on its way: at most one append, in front,
\* of the slot it mints.
LEMMA EditCommands ==
  ASSUME IInv, RemoveSlots \/ MoveOneSlot \/ AppendSlot \/ Shuffle
  PROVE  /\ UNCHANGED <<run, evs, tick, keys>> /\ minted \subseteq minted'
         /\ \E ks \in Seq(Commands) :
              /\ chan' = chan \o ks
              /\ \A i \in 1..Len(ks) : ks[i].c = "append" => i = 1 /\ ks[1].slot \in minted' \ minted
<1>1. queue \in Seq(Slots) /\ <<>> \in Seq(Slots) /\ IsInjective(<<>>)
  BY EmptySeq DEF IInv, Owner, IsInjective
<1>2. CASE RemoveSlots
  <2>1. PICK gone \in SUBSET Range(queue) :
          /\ Cardinality(gone) \in 1..2
          /\ LET left == Kept(queue, Slots \ gone)
                 picked == Kept(queue, gone)
                 cmds == [i \in 1..Cardinality(gone) |->
                            [c |-> "remove", slot |-> picked[i], to |-> 0, order |-> <<>>]]
             IN /\ Edit("remove", left, IF active \in gone THEN NoSlot ELSE active,
                        IF left = <<>> THEN <<[c |-> "stop", slot |-> NoSlot, to |-> 0, order |-> <<>>]>> ELSE cmds)
                /\ UNCHANGED minted
    BY <1>2 DEF RemoveSlots
  <2> DEFINE left == Kept(queue, Slots \ gone)
             picked == Kept(queue, gone)
             n == Cardinality(gone)
             Removal(i) == [c |-> "remove", slot |-> picked[i], to |-> 0, order |-> <<>>]
             cmds == [i \in 1..n |-> Removal(i)]
             stop == [c |-> "stop", slot |-> NoSlot, to |-> 0, order |-> <<>>]
             ks == IF left = <<>> THEN <<stop>> ELSE cmds
  <2>2. /\ UNCHANGED <<run, evs, tick, keys, minted>> /\ chan' = chan \o ks /\ n \in 1..2
    BY <2>1 DEF Edit
  <2>3. picked \in Seq(Slots) /\ Len(picked) = n
    <3>1. picked \in Seq(Slots) /\ IsInjective(picked) /\ Range(picked) = Range(queue) \cap gone
      BY <1>1, KeptProperties DEF IInv, Owner
    <3>2. Range(picked) = gone
      BY <3>1
    <3> HIDE DEF picked
    <3> QED BY <3>1, <3>2, SameLength
  <2>4. ASSUME NEW i \in 1..n PROVE Removal(i) \in Commands /\ Removal(i).c = "remove"
    <3>1. picked[i] \in Slots
      BY <2>3, ElementOfSeq
    <3> HIDE DEF picked
    <3> QED BY <1>1, <3>1 DEF Commands
  <2>5. stop \in Commands /\ stop.c = "stop"
    BY <1>1 DEF Commands
  <2> HIDE DEF left, picked, n, Removal, stop
  <2>6. ks \in Seq(Commands) /\ \A i \in 1..Len(ks) : ks[i].c # "append"
    <3>1. CASE left = <<>>
      <4>1. ks = <<stop>>
        BY <3>1
      <4> HIDE DEF ks
      <4>2. ks \in Seq(Commands) /\ Len(ks) = 1 /\ ks[1] = stop
        BY <2>5, <4>1
      <4> QED BY <2>5, <4>2
    <3>2. CASE left # <<>>
      <4>1. ks = cmds
        BY <3>2
      <4>2. cmds \in Seq(Commands) /\ Len(cmds) = n /\ \A i \in 1..n : cmds[i] = Removal(i)
        BY <2>2, <2>4
      <4> HIDE DEF ks, cmds
      <4> QED BY <2>4, <4>1, <4>2
    <3> QED BY <3>1, <3>2
  <2> HIDE DEF ks
  <2> QED BY <2>2, <2>6
<1>3. CASE MoveOneSlot
  <2>1. PICK s \in Range(queue), to \in DOMAIN queue :
          /\ chan' = chan \o <<[c |-> "move", slot |-> s, to |-> to, order |-> <<>>]>>
          /\ UNCHANGED <<run, evs, tick, keys, minted>>
    BY <1>3 DEF MoveOneSlot, Edit
  <2> DEFINE k == [c |-> "move", slot |-> s, to |-> to, order |-> <<>>]
             ks == <<k>>
  <2>2. s \in Slots /\ to \in Nat /\ to > 0
    BY <1>1, LenProperties DEF IInv, Owner
  <2>3. k \in Commands /\ k.c = "move"
    BY <1>1, <2>2 DEF Commands
  <2> HIDE DEF k
  <2>4. ks \in Seq(Commands) /\ Len(ks) = 1 /\ ks[1] = k
    BY <2>3
  <2>5. chan' = chan \o ks
    BY <2>1 DEF k
  <2> HIDE DEF ks
  <2> QED BY <2>1, <2>3, <2>4, <2>5
<1>4. CASE AppendSlot
  <2>1. PICK s \in Slots \ minted, at \in 1..(Len(queue) + 1) :
          /\ chan' = chan \o (<<[c |-> "append", slot |-> s, to |-> 0, order |-> <<>>]>>
                       \o (IF at <= Len(queue) THEN <<[c |-> "move", slot |-> s, to |-> at, order |-> <<>>]>> ELSE <<>>))
          /\ UNCHANGED <<run, evs, tick, keys>> /\ minted' = minted \cup {s}
    BY <1>4 DEF AppendSlot, Edit
  <2> DEFINE k1 == [c |-> "append", slot |-> s, to |-> 0, order |-> <<>>]
             k2 == [c |-> "move", slot |-> s, to |-> at, order |-> <<>>]
             x == <<k1>>
             y == IF at <= Len(queue) THEN <<k2>> ELSE <<>>
             ks == x \o y
  <2>2. k1 \in Commands /\ k1.slot = s
    BY <1>1 DEF Commands
  <2>3. k2 \in Commands /\ k2.c = "move"
    BY <1>1 DEF Commands
  <2>4. chan' = chan \o ks
    BY <2>1
  <2> HIDE DEF k1, k2
  <2>5. x \in Seq(Commands) /\ Len(x) = 1 /\ x[1] = k1
    BY <2>2
  <2>6. y \in Seq(Commands) /\ \A i \in 1..Len(y) : y[i].c = "move"
    <3>1. CASE at <= Len(queue)
      <4>1. y = <<k2>>
        BY <3>1
      <4> HIDE DEF y
      <4>2. y \in Seq(Commands) /\ Len(y) = 1 /\ y[1] = k2
        BY <2>3, <4>1
      <4> QED BY <2>3, <4>2
    <3>2. CASE ~(at <= Len(queue))
      <4>1. y = <<>>
        BY <3>2
      <4> QED BY <4>1, EmptySeq
    <3> QED BY <3>1, <3>2
  <2> HIDE DEF x, y, ks
  <2>7. /\ ks \in Seq(Commands) /\ Len(ks) = Len(x) + Len(y) /\ Len(y) \in Nat
        /\ \A j \in 1..(Len(x) + Len(y)) : ks[j] = IF j <= Len(x) THEN x[j] ELSE y[j - Len(x)]
    BY <2>5, <2>6, ConcatProperties, LenProperties DEF ks
  <2>8. ks[1].slot = s
    BY <2>2, <2>5, <2>7
  <2>9. ASSUME NEW i \in 1..Len(ks), i # 1 PROVE ks[i].c = "move"
    <3>1. ~(i <= 1) /\ i - 1 \in 1..Len(y)
      BY <2>5, <2>7, <2>9
    <3> QED BY <2>5, <2>6, <2>7, <3>1
  <2>10. s \in minted' \ minted
    BY <2>1
  <2> QED BY <2>1, <2>4, <2>7, <2>8, <2>9, <2>10
<1>5. CASE Shuffle
  <2>1. PICK order \in ShuffleOrders :
          /\ chan' = chan \o <<[c |-> "reorder", slot |-> NoSlot, to |-> 0, order |-> order]>>
          /\ UNCHANGED <<run, evs, tick, keys, minted>>
    BY <1>5 DEF Shuffle, Edit
  <2> DEFINE k == [c |-> "reorder", slot |-> NoSlot, to |-> 0, order |-> order]
             ks == <<k>>
  <2>2. order \in Seq(Slots) /\ IsInjective(order)
    BY <2>1, ShuffledIs DEF IInv
  <2>3. k \in Commands /\ k.c = "reorder"
    BY <2>2 DEF Commands
  <2> HIDE DEF k
  <2>4. ks \in Seq(Commands) /\ Len(ks) = 1 /\ ks[1] = k
    BY <2>3
  <2>5. chan' = chan \o ks
    BY <2>1 DEF k
  <2> HIDE DEF ks
  <2> QED BY <2>1, <2>3, <2>4, <2>5
<1> QED BY <1>2, <1>3, <1>4, <1>5

\* What an event of mpv does to the run that reads it and goes on.
LEMMA EventDoes ==
  ASSUME IInv, HandleEvent
  PROVE  LET h == Head(evs) IN
         /\ evs # <<>> /\ tick = "events" /\ UNCHANGED <<chan, minted, tick, keys>>
         /\ run'.slots = run.slots /\ run'.pos = run.pos /\ run.alive
         /\ run'.alive => evs' = Tail(evs)
         /\ run'.alive =>
              \/ /\ run' = run
                 /\ \/ h.e = "pos" /\ ~Diverges(h.at)
                    \/ h.e = "stop" /\ run.cur # NoSlot /\ ~Diverges(run.pos)
              \/ /\ OnItsSlot(run')
                 /\ h.e = "pos" => run'.idx = h.at
                 /\ h.e = "stop" => run'.idx = run.pos
<1> DEFINE h == Head(evs)
<1>1. /\ run \in Runs /\ run.slots \in Seq(Slots) /\ run.idx \in Nat
      /\ Len(run.slots) \in Nat /\ DOMAIN run.slots = 1..Len(run.slots)
  BY LenProperties DEF IInv, Run, RunInv, Runs
<1>2. /\ run.alive /\ evs # <<>> /\ tick = "events" /\ UNCHANGED <<chan, minted, tick, keys>>
      /\ IF h.e = "pos" THEN OnPlaylistPos(h.at) ELSE OnEndFile(h.e)
      /\ run'.alive => evs' = Tail(evs)
  BY DEF HandleEvent
<1> HIDE DEF h
<1>3. ASSUME NEW left, NEW p, Diverges(p), Adopt(left, p)
      PROVE  run'.slots = run.slots /\ run'.pos = run.pos /\ run'.idx = p /\ OnItsSlot(run')
  <2>1. p \in DOMAIN run.slots
    BY <1>3 DEF Diverges
  <2>2. run' = [run EXCEPT !.idx = p, !.cur = run.slots[p]]
    BY <1>3 DEF Adopt
  <2>3. run'.slots = run.slots /\ run'.pos = run.pos /\ run'.idx = p /\ run'.cur = run.slots[p]
    BY <1>1, <2>2 DEF Runs
  <2> QED BY <2>1, <2>3 DEF OnItsSlot
<1>4. CASE h.e = "pos"
  <2>1. OnPlaylistPos(h.at)
    BY <1>2, <1>4
  <2>2. CASE Diverges(h.at)
    <3>1. Adopt(SlotAt(run.slots, run.idx), h.at)
      BY <2>1, <2>2 DEF OnPlaylistPos
    <3>2. run'.slots = run.slots /\ run'.pos = run.pos /\ run'.idx = h.at /\ OnItsSlot(run')
      BY <1>3, <2>2, <3>1
    <3> QED BY <1>2, <1>4, <3>2 DEF h
  <2>3. CASE ~Diverges(h.at)
    <3>1. run' = run
      BY <2>1, <2>3 DEF OnPlaylistPos
    <3> QED BY <1>2, <1>4, <2>3, <3>1 DEF h
  <2> QED BY <2>2, <2>3
<1>5. CASE h.e # "pos"
  <2> DEFINE next == run' = [run EXCEPT !.idx = @ + 1, !.cur = run.slots[run.idx + 1]]
  <2>1. OnEndFile(h.e)
    BY <1>2, <1>5
  <2>2. \/ EndRun
        \/ h.e = "stop" /\ Diverges(run.pos) /\ Adopt(run.cur, run.pos)
        \/ h.e = "stop" /\ run.cur # NoSlot /\ ~Diverges(run.pos) /\ run' = run
        \/ h.e # "stop" /\ ~(run.idx + 1 > Len(run.slots)) /\ next
    BY <2>1 DEF OnEndFile
  <2>3. CASE EndRun
    <3>1. run'.slots = run.slots /\ run'.pos = run.pos /\ ~run'.alive
      BY <1>1, <2>3 DEF EndRun, Runs
    <3> QED BY <1>2, <3>1
  <2>4. CASE h.e = "stop" /\ Diverges(run.pos) /\ Adopt(run.cur, run.pos)
    <3>1. run'.slots = run.slots /\ run'.pos = run.pos /\ run'.idx = run.pos /\ OnItsSlot(run')
      BY <1>3, <2>4
    <3> QED BY <1>2, <1>5, <3>1 DEF h
  <2>5. CASE h.e = "stop" /\ run.cur # NoSlot /\ ~Diverges(run.pos) /\ run' = run
    BY <1>2, <1>5, <2>5 DEF h
  <2>6. CASE h.e # "stop" /\ ~(run.idx + 1 > Len(run.slots)) /\ next
    <3>1. run.idx + 1 \in DOMAIN run.slots
      BY <1>1, <2>6
    <3>2. /\ run'.slots = run.slots /\ run'.pos = run.pos /\ run'.idx = run.idx + 1
          /\ run'.cur = run.slots[run.idx + 1]
      BY <1>1, <2>6 DEF Runs
    <3>3. OnItsSlot(run')
      BY <3>1, <3>2 DEF OnItsSlot
    <3> QED BY <1>2, <1>5, <2>6, <3>2, <3>3 DEF h
  <2> QED BY <2>2, <2>3, <2>4, <2>5, <2>6
<1> QED BY <1>4, <1>5

\* What is lost stays lost, and a removal that reaches the run loses its slot.
LEMMA LostStays ==
  ASSUME IInv, AppendsNew, [Next]_vars
  PROVE  /\ AppendsNew'
         /\ Lost => Lost'
         /\ HandleCommand /\ Head(chan).c = "remove" /\ Head(chan).slot \in Range(run.slots) => Lost'
<1>0. /\ run \in Runs /\ run.slots \in Seq(Slots) /\ IsInjective(run.slots)
      /\ Range(run.slots) \subseteq minted /\ chan \in Seq(Commands)
  BY DEF IInv, Run, RunInv, Runs, OnTheWay
<1>1. ASSUME UNCHANGED <<chan, minted>>, run'.slots = run.slots
      PROVE  AppendsNew' /\ (Lost => Lost')
  BY <1>1 DEF AppendsNew, Lost
<1>2. CASE RemoveSlots \/ MoveOneSlot \/ AppendSlot \/ Shuffle
  <2>1. UNCHANGED run /\ minted \subseteq minted'
    BY <1>2, EditCommands
  <2>2. PICK ks \in Seq(Commands) :
          /\ chan' = chan \o ks
          /\ \A i \in 1..Len(ks) : ks[i].c = "append" => i = 1 /\ ks[1].slot \in minted' \ minted
    BY <1>2, EditCommands
  <2> DEFINE n == Len(chan)
             t == chan \o ks
  <2>3. /\ Len(t) = n + Len(ks) /\ n \in Nat /\ Len(ks) \in Nat
        /\ \A i \in 1..(n + Len(ks)) : t[i] = IF i <= n THEN chan[i] ELSE ks[i - n]
    BY <1>0, ConcatProperties, LenProperties
  <2>4. chan' = t
    BY <2>2
  <2> HIDE DEF n, t
  <2>5. ASSUME NEW i \in 1..Len(t), t[i].c = "append"
        PROVE  (i \in 1..n /\ t[i] = chan[i]) \/ (i = n + 1 /\ t[i].slot \in minted' \ minted)
    <3>1. CASE i <= n
      BY <2>3, <3>1
    <3>2. CASE ~(i <= n)
      <4>1. i - n \in 1..Len(ks) /\ t[i] = ks[i - n]
        BY <2>3, <3>2
      <4>2. i - n = 1 /\ ks[1].slot \in minted' \ minted
        BY <2>2, <2>5, <4>1
      <4> QED BY <2>3, <4>1, <4>2
    <3> QED BY <3>1, <3>2
  <2>6. AppendsNew'
    <3>1. ASSUME NEW i \in 1..Len(t), t[i].c = "append"
          PROVE  t[i].slot \in minted' \ Range(run.slots)
      BY <1>0, <2>1, <2>5, <3>1 DEF AppendsNew, n
    <3>2. ASSUME NEW i \in 1..Len(t), NEW j \in 1..Len(t),
                 t[i].c = "append", t[j].c = "append", t[i].slot = t[j].slot
          PROVE  i = j
      <4>1. CASE i \in 1..n /\ t[i] = chan[i] /\ j \in 1..n /\ t[j] = chan[j]
        BY <3>2, <4>1 DEF AppendsNew, n
      <4>2. CASE i = n + 1 /\ j = n + 1
        BY <4>2
      <4>3. CASE i \in 1..n /\ t[i] = chan[i] /\ t[j].slot \in minted' \ minted
        BY <3>2, <4>3 DEF AppendsNew, n
      <4>4. CASE j \in 1..n /\ t[j] = chan[j] /\ t[i].slot \in minted' \ minted
        BY <3>2, <4>4 DEF AppendsNew, n
      <4> QED BY <2>5, <3>2, <4>1, <4>2, <4>3, <4>4
    <3> QED BY <2>1, <2>4, <3>1, <3>2 DEF AppendsNew
  <2>7. ASSUME Lost PROVE Lost'
    <3>1. PICK x \in minted \ Range(run.slots) :
            \A i \in 1..Len(chan) : chan[i].c = "append" => chan[i].slot # x
      BY <2>7 DEF Lost
    <3>2. \A i \in 1..Len(t) : t[i].c = "append" => t[i].slot # x
      BY <2>5, <3>1 DEF n
    <3>3. x \in minted'
      BY <2>1
    <3> QED BY <2>1, <2>4, <3>2, <3>3 DEF Lost
  <2>8. ~HandleCommand \/ Head(chan).slot \notin Range(run.slots) \/ Head(chan).c # "remove" \/ Lost'
    <3> SUFFICES ASSUME HandleCommand PROVE FALSE
      OBVIOUS
    <3>1. Len(chan') = Len(chan) - 1
      BY CommandTaken
    <3> QED BY <2>3, <2>4, <3>1 DEF n
  <2> QED BY <2>6, <2>7, <2>8
<1>3. CASE HandleCommand
  <2> DEFINE k == Head(chan)
  <2>1. /\ UNCHANGED minted /\ run'.slots = Applied(run.slots, k)
        /\ k \in Commands /\ k = chan[1] /\ Len(chan) \in Nat \ {0} /\ Len(chan') = Len(chan) - 1
        /\ \A j \in 1..Len(chan') : chan'[j] = chan[j + 1]
    BY <1>3, CommandTaken
  <2> HIDE DEF k
  <2>2. /\ k.c = "append" => Range(run'.slots) \subseteq Range(run.slots) \cup {k.slot}
        /\ k.c # "append" => Range(run'.slots) \subseteq Range(run.slots)
        /\ k.c = "remove" => k.slot \notin Range(run'.slots)
    BY <1>0, <2>1, AppliedRange
  <2>3. /\ 1 \in 1..Len(chan)
        /\ \A j \in 1..Len(chan') : j + 1 \in 1..Len(chan) /\ j + 1 # 1 /\ chan'[j] = chan[j + 1]
    BY <2>1
  <2>4. ASSUME NEW j \in 1..Len(chan'), chan'[j].c = "append"
        PROVE  chan'[j].slot \in minted' \ Range(run'.slots)
    <3>1. chan[j + 1].slot \in minted \ Range(run.slots)
      BY <2>3, <2>4 DEF AppendsNew
    <3>2. k.c = "append" => chan[j + 1].slot # k.slot
      BY <2>1, <2>3, <2>4 DEF AppendsNew
    <3> QED BY <2>1, <2>2, <2>3, <3>1, <3>2
  <2>5. ASSUME NEW i \in 1..Len(chan'), NEW j \in 1..Len(chan'),
               chan'[i].c = "append", chan'[j].c = "append", chan'[i].slot = chan'[j].slot
        PROVE  i = j
    <3>1. i + 1 = j + 1
      BY <2>3, <2>5 DEF AppendsNew
    <3> QED BY <2>1, <3>1
  <2>6. AppendsNew'
    BY <2>4, <2>5 DEF AppendsNew
  <2>7. ASSUME Lost PROVE Lost'
    <3>1. PICK x \in minted \ Range(run.slots) :
            \A i \in 1..Len(chan) : chan[i].c = "append" => chan[i].slot # x
      BY <2>7 DEF Lost
    <3>2. x \in minted' \ Range(run'.slots)
      BY <2>1, <2>2, <2>3, <3>1
    <3>3. \A j \in 1..Len(chan') : chan'[j].c = "append" => chan'[j].slot # x
      BY <2>3, <3>1
    <3> QED BY <3>2, <3>3 DEF Lost
  <2>8. ASSUME k.c = "remove", k.slot \in Range(run.slots) PROVE Lost'
    <3>1. k.slot \in minted' \ Range(run'.slots)
      BY <1>0, <2>1, <2>2, <2>8
    <3>2. \A j \in 1..Len(chan') : chan'[j].c = "append" => chan'[j].slot # k.slot
      BY <2>3, <2>8 DEF AppendsNew
    <3> QED BY <3>1, <3>2 DEF Lost
  <2> QED BY <2>6, <2>7, <2>8 DEF k
<1>4. ASSUME ~HandleCommand, UNCHANGED <<chan, minted>>, run'.slots = run.slots
      PROVE  /\ AppendsNew' /\ (Lost => Lost')
             /\ HandleCommand /\ Head(chan).c = "remove" /\ Head(chan).slot \in Range(run.slots) => Lost'
  BY <1>1, <1>4
<1>5. ASSUME MpvEof \/ MpvKey PROVE UNCHANGED <<chan, minted>> /\ run'.slots = run.slots
  <2>1. PICK reason, to : MpvLeaves(reason, to)
    BY <1>5 DEF MpvEof, MpvKey
  <2> QED BY <1>0, <2>1 DEF MpvLeaves, Runs
<1>6. ASSUME HandleEvent PROVE UNCHANGED <<chan, minted>> /\ run'.slots = run.slots
  BY <1>6, EventDoes
<1>7. ASSUME RunTick \/ OwnerReads \/ UNCHANGED vars PROVE UNCHANGED <<chan, minted>> /\ run'.slots = run.slots
  BY <1>7 DEF RunTick, OwnerReads, vars
<1> QED BY <1>2, <1>3, <1>4, <1>5, <1>6, <1>7 DEF Next

\* mpv goes from entry to entry: what it says leads the run there.
LEMMA MpvFollows ==
  ASSUME IInv, Follow, run.alive, MpvEof \/ MpvKey, Lost => Lost'
  PROVE  evs' \in Seq(MpvEvents) /\ Follows'
<1>1. /\ run \in Runs /\ run.pos \in Nat /\ Len(run.list) \in Nat /\ DOMAIN run.list = 1..Len(run.list)
      /\ keys \in Nat
  BY LenProperties DEF IInv, Owner, Run, RunInv, Runs
<1>2. PICK reason \in {"eof", "stop"}, to \in Nat :
        /\ MpvLeaves(reason, to) /\ to # run.pos
        /\ keys' = 0 => keys = 0 /\ reason = "eof"
  <2>1. CASE MpvEof
    <3> DEFINE to == IF run.pos < Len(run.list) THEN run.pos + 1 ELSE 0
    <3>1. MpvLeaves("eof", to) /\ keys' = keys /\ run.pos > 0
      BY <2>1 DEF MpvEof, MpvLeaves
    <3>2. to \in Nat /\ to # run.pos
      BY <1>1, <3>1
    <3> HIDE DEF to
    <3> QED BY <3>1, <3>2
  <2>2. CASE MpvKey
    <3>1. PICK to \in {run.pos - 1, run.pos + 1} \cap DOMAIN run.list : MpvLeaves("stop", to)
      BY <2>2 DEF MpvKey
    <3>2. to \in Nat /\ to # run.pos
      BY <1>1
    <3>3. keys' # 0
      BY <1>1, <2>2 DEF MpvKey
    <3> QED BY <3>1, <3>2, <3>3
  <2> QED BY <2>1, <2>2
<1> DEFINE ks == <<[e |-> reason, at |-> 0]>> \o PosEvents(run.pos, to)
<1>3. /\ run.pos > 0 /\ run' = [run EXCEPT !.pos = to] /\ evs' = evs \o ks
      /\ UNCHANGED <<minted, chan, tick>>
  <2>1. /\ run.pos > 0 /\ run' = [run EXCEPT !.pos = to]
        /\ evs' = evs \o <<[e |-> reason, at |-> 0]>> \o PosEvents(run.pos, to)
        /\ UNCHANGED <<minted, chan, tick>>
    BY <1>2 DEF MpvLeaves
  <2> DEFINE a == <<[e |-> reason, at |-> 0]>>
             b == PosEvents(run.pos, to)
  <2>2. a \in Seq(MpvEvents) /\ b \in Seq(MpvEvents) /\ evs \in Seq(MpvEvents)
    <3> DEFINE x == [e |-> reason, at |-> 0]
    <3>1. x \in MpvEvents
      BY DEF MpvEvents
    <3>2. b \in Seq(MpvEvents)
      BY <1>1, PosSaid
    <3>3. a = <<x>>
      OBVIOUS
    <3> HIDE DEF x, a, b
    <3> QED BY <3>1, <3>2, <3>3 DEF Follow
  <2> HIDE DEF a, b
  <2>3. (evs \o a) \o b = evs \o (a \o b)
    BY <2>2, ConcatAssociative
  <2> QED BY <2>1, <2>3 DEF a, b
<1>4. /\ ks \in Seq(MpvEvents) /\ ~NoEnd(ks)
      /\ StopFirst(ks) => reason = "stop"
      /\ EndsAt(ks, to)
      /\ to > 0 => ~NoPos(ks) /\ EofLed(ks)
  BY <1>1, <1>2, EndSaid
<1> HIDE DEF ks
<1>5. run'.pos = to /\ run'.idx = run.idx /\ run'.cur = run.cur /\ run'.slots = run.slots
  BY <1>1, <1>3 DEF Runs
<1>6. /\ evs' \in Seq(MpvEvents)
      /\ NoPos(evs') => NoPos(evs) /\ NoPos(ks)
      /\ NoEnd(evs') => NoEnd(evs) /\ NoEnd(ks)
      /\ EofLed(evs) /\ EofLed(ks) => EofLed(evs')
      /\ ~NoPos(ks) /\ EndsAt(ks, to) => EndsAt(evs', to)
      /\ StopFirst(evs') => StopFirst(evs) \/ (NoEnd(evs) /\ StopFirst(ks))
  BY <1>3, <1>4, EventsArrive DEF Follow
<1>7. Coordinates(run', evs')
  BY <1>3, <1>4, <1>5, <1>6 DEF Coordinates, Follow, Follows
<1>8. ~Lost' => OnItsSlot(run')
  BY <1>5 DEF OnItsSlot, Follow, Follows
<1>9. keys' = 0 => Unread(run', evs') \/ (tick' = "events" /\ OnItsSlot(run'))
  <2> SUFFICES ASSUME keys' = 0 PROVE Unread(run', evs') \/ (tick' = "events" /\ OnItsSlot(run'))
    OBVIOUS
  <2>1. Unread(run, evs) \/ (tick = "events" /\ OnItsSlot(run))
    BY <1>2, <1>3 DEF Follow, Follows
  <2>2. ASSUME Unread(run, evs) PROVE Unread(run', evs')
    BY <1>2, <1>4, <1>5, <1>6, <2>2 DEF Unread
  <2> QED BY <1>3, <1>5, <2>1, <2>2 DEF OnItsSlot
<1> QED BY <1>6, <1>7, <1>8, <1>9 DEF Follows

\* The run handles a command: what is unread leads from where it was to where
\* the command has moved it.
LEMMA CommandFollows ==
  ASSUME IInv, Follow, HandleCommand, run'.alive, Lost => Lost',
         Head(chan).c = "remove" /\ Head(chan).slot \in Range(run.slots) => Lost'
  PROVE  evs' \in Seq(MpvEvents) /\ Follows'
<1> DEFINE k == Head(chan)
           q == run.slots
<1>1. /\ run.alive /\ tick = "commands" /\ UNCHANGED <<tick, keys, minted>>
      /\ run' = Done(run, k).run /\ RunInv(run')
      /\ k \in Commands /\ k.c # "stop"
      /\ k.c = "remove" => evs' = evs \o CmdRemove(run, k.slot).sent
      /\ k.c # "remove" => evs' = evs \o PosEvents(run.pos, run'.pos)
  BY CommandTaken
<1>2. /\ evs \in Seq(MpvEvents) /\ Coordinates(run, evs)
      /\ ~Lost => OnItsSlot(run)
      /\ keys = 0 /\ run.pos > 0 => Unread(run, evs)
  BY <1>1 DEF Follow, Follows
<1>3. /\ RunInv(run) /\ run \in Runs /\ q \in Seq(Slots) /\ IsInjective(q) /\ run.pos \in 0..Len(q)
      /\ DOMAIN q = 1..Len(q) /\ Len(q) \in Nat
      /\ run' \in Runs /\ IsInjective(run'.slots) /\ run'.pos \in 0..Len(run'.slots)
      /\ DOMAIN run'.slots = 1..Len(run'.slots) /\ run.pos \in Nat /\ run'.pos \in Nat
      /\ Len(run'.slots) \in Nat
  BY <1>1, LenProperties DEF IInv, Run, RunInv, Runs
<1>4. k.c \in {"remove", "move", "reorder", "append"}
  BY <1>1 DEF Commands
<1> HIDE DEF k
<1>5. CASE k.c # "remove"
  <2> DEFINE ks == PosEvents(run.pos, run'.pos)
  <2>1. StaysOn(run, run')
    BY <1>1, <1>3, <1>4, <1>5, CommandStays
  <2>2. run'.cur = run.cur
    <3>1. CASE k.c = "move"
      <4>1. k.to \in Nat \ {0} /\ run' = CmdMove(run, k.slot, k.to)
        BY <1>1, <3>1 DEF Commands, Done
      <4> QED BY <1>3, <4>1, MoveDoes
    <3>2. CASE k.c = "reorder"
      <4>1. k.order \in Seq(Slots) /\ IsInjective(k.order) /\ run' = CmdReorder(run, k.order)
        BY <1>1, <3>2 DEF Commands, Done
      <4> QED BY <1>3, <4>1, ReorderDoes
    <3>3. CASE k.c = "append"
      <4>1. run' = CmdAppend(run, k.slot)
        BY <1>1, <3>3 DEF Done
      <4> QED BY <1>3, <4>1 DEF CmdAppend, Runs
    <3> QED BY <1>4, <1>5, <3>1, <3>2, <3>3
  <2>3. /\ ks \in Seq(MpvEvents) /\ EofLed(ks) /\ ~StopFirst(ks) /\ EndsAt(ks, run'.pos)
        /\ NoPos(ks) <=> ~(run.pos # run'.pos /\ run'.pos > 0)
    BY <1>3, PosSaid
  <2>4. evs' = evs \o ks
    BY <1>1, <1>5
  <2> HIDE DEF ks
  <2>5. /\ evs' \in Seq(MpvEvents)
        /\ NoPos(evs') => NoPos(evs) /\ NoPos(ks)
        /\ NoEnd(evs') => NoEnd(evs)
        /\ EofLed(evs) /\ EofLed(ks) => EofLed(evs')
        /\ NoPos(ks) /\ EndsAt(evs, run'.pos) => EndsAt(evs', run'.pos)
        /\ ~NoPos(ks) /\ EndsAt(ks, run'.pos) => EndsAt(evs', run'.pos)
        /\ StopFirst(evs') => StopFirst(evs) \/ (NoEnd(evs) /\ StopFirst(ks))
    BY <1>2, <2>3, <2>4, EventsArrive
  <2>6. run'.pos > 0 => run.pos > 0 /\ run'.slots[run'.pos] = q[run.pos]
    BY <1>3, <2>1 DEF StaysOn
  <2>7. ASSUME run'.pos > 0, NoPos(evs') PROVE run'.idx = run'.pos
    <3>1. run'.pos = run.pos /\ run.idx = run.pos
      BY <1>2, <2>3, <2>5, <2>6, <2>7 DEF Coordinates
    <3>2. run.idx \in DOMAIN q
      BY <1>3, <2>7, <3>1
    <3>3. run'.idx \in DOMAIN run'.slots /\ run'.slots[run'.idx] = q[run.idx]
      BY <2>1, <3>2 DEF StaysOn
    <3>4. run'.pos \in DOMAIN run'.slots
      BY <1>3, <2>7
    <3> QED BY <1>3, <2>6, <2>7, <3>1, <3>3, <3>4 DEF IsInjective
  <2>8. ASSUME run'.pos > 0 PROVE EndsAt(evs', run'.pos) /\ EofLed(evs')
    <3>1. EndsAt(evs, run.pos) /\ EofLed(evs)
      BY <1>2, <2>6, <2>8 DEF Coordinates
    <3>2. NoPos(ks) => run'.pos = run.pos
      BY <2>3, <2>8
    <3> QED BY <2>3, <2>5, <3>1, <3>2
  <2>9. Coordinates(run', evs')
    BY <2>7, <2>8 DEF Coordinates
  <2>10. ~Lost' => OnItsSlot(run')
    BY <1>2, <2>1, <2>2 DEF OnItsSlot, StaysOn
  <2>11. keys' = 0 /\ run'.pos > 0 => Unread(run', evs')
    BY <1>1, <1>2, <2>2, <2>3, <2>5, <2>6 DEF Unread
  <2> QED BY <2>5, <2>9, <2>10, <2>11 DEF Follows
<1>6. CASE k.c = "remove"
  <2> DEFINE x == k.slot
             t == CmdRemove(run, x).run
             ks == CmdRemove(run, x).sent
             end == [e |-> "stop", at |-> 0]
  <2>1. run' = CmdRemove(run, x).run /\ evs' = evs \o ks
    BY <1>1, <1>6 DEF Done
  <2>a. /\ ks \in Seq(MpvEvents)
        /\ x \notin Range(q) => t = run /\ ks = <<>>
        /\ x \in Range(q) => t.idx = run.idx /\ t.cur = IF run.cur = x THEN NoSlot ELSE run.cur
        /\ run.pos = 0 => t.pos = 0
        /\ run.pos > 0 /\ t.pos > 0 /\ q[run.pos] # x =>
             t.slots[t.pos] = q[run.pos] /\ ks = PosEvents(run.pos, t.pos)
        /\ run.pos > 0 /\ t.pos > 0 /\ q[run.pos] = x =>
             t.pos = run.pos /\ ks = <<end>> \o PosEvents(run.pos, t.pos)
    BY <1>3, RemoveStays
  <2> HIDE DEF x, ks, t
  <2>2. /\ ks \in Seq(MpvEvents)
        /\ x \notin Range(q) => run' = run /\ ks = <<>>
        /\ x \in Range(q) => run'.idx = run.idx /\ run'.cur = IF run.cur = x THEN NoSlot ELSE run.cur
        /\ run.pos = 0 => run'.pos = 0
        /\ run.pos > 0 /\ run'.pos > 0 /\ q[run.pos] # x =>
             run'.slots[run'.pos] = q[run.pos] /\ ks = PosEvents(run.pos, run'.pos)
        /\ run.pos > 0 /\ run'.pos > 0 /\ q[run.pos] = x =>
             run'.pos = run.pos /\ ks = <<end>> \o PosEvents(run.pos, run'.pos)
    BY <2>1, <2>a DEF t
  <2>3. /\ evs' \in Seq(MpvEvents)
        /\ NoPos(evs') => NoPos(evs) /\ NoPos(ks)
        /\ NoEnd(evs') => NoEnd(evs) /\ NoEnd(ks)
        /\ EofLed(evs) /\ EofLed(ks) => EofLed(evs')
        /\ NoPos(ks) /\ EndsAt(evs, run'.pos) => EndsAt(evs', run'.pos)
        /\ ~NoPos(ks) /\ EndsAt(ks, run'.pos) => EndsAt(evs', run'.pos)
        /\ StopFirst(evs') => StopFirst(evs) \/ (NoEnd(evs) /\ StopFirst(ks))
    BY <1>2, <2>1, <2>2, EventsArrive
  <2>4. CASE x \notin Range(q)
    <3>1. run' = run /\ evs' = evs
      <4>1. evs \o <<>> = evs
        BY <1>2, ConcatEmptySeq
      <4> QED BY <2>1, <2>2, <2>4, <4>1
    <3> QED BY <1>1, <1>2, <2>3, <3>1 DEF Follows
  <2>5. CASE x \in Range(q)
    <3>1. Lost'
      BY <1>6, <2>5 DEF k, x
    <3>2. run'.idx = run.idx /\ run'.cur = IF run.cur = x THEN NoSlot ELSE run.cur
      BY <2>2, <2>5
    <3>3. CASE run'.pos = 0
      BY <2>3, <3>1, <3>3 DEF Follows, Coordinates
    <3>4. CASE run'.pos # 0
      <4>1. run'.pos > 0 /\ run.pos > 0
        BY <1>3, <2>2, <3>4
      <4>2. /\ NoPos(evs) => run.idx = run.pos
            /\ EndsAt(evs, run.pos) /\ EofLed(evs)
            /\ keys = 0 => Unread(run, evs)
        BY <1>2, <4>1 DEF Coordinates
      <4>3. CASE q[run.pos] # x
        <5>1. run'.slots[run'.pos] = q[run.pos] /\ ks = PosEvents(run.pos, run'.pos)
          BY <2>2, <4>1, <4>3
        <5>2. /\ EofLed(ks) /\ ~StopFirst(ks) /\ EndsAt(ks, run'.pos)
              /\ NoPos(ks) <=> ~(run.pos # run'.pos /\ run'.pos > 0)
          BY <1>3, <5>1, PosSaid
        <5>3. NoPos(ks) => run'.pos = run.pos
          BY <4>1, <5>2
        <5>4. Coordinates(run', evs')
          BY <2>3, <3>2, <4>2, <5>2, <5>3 DEF Coordinates
        <5>5. keys' = 0 => Unread(run', evs')
          BY <1>1, <2>3, <3>2, <4>2, <4>3, <5>1, <5>2 DEF Unread
        <5> QED BY <2>3, <3>1, <5>4, <5>5 DEF Follows
      <4>4. CASE q[run.pos] = x
        <5>1. run'.pos = run.pos /\ ks = <<end>> \o PosEvents(run.pos, run'.pos)
          BY <2>2, <4>1, <4>4
        <5>2. NoPos(ks) /\ EofLed(ks) /\ ~NoEnd(ks)
          <6>1. "stop" \in {"eof", "stop"}
            OBVIOUS
          <6> QED BY <1>3, <5>1, <6>1, EndSaid
        <5>3. Coordinates(run', evs')
          BY <2>3, <3>2, <4>2, <5>1, <5>2 DEF Coordinates
        <5>4. keys' = 0 => Unread(run', evs')
          BY <1>1, <2>3, <3>2, <4>2, <4>4, <5>2 DEF Unread
        <5> QED BY <2>3, <3>1, <5>3, <5>4 DEF Follows
      <4> QED BY <4>3, <4>4
    <3> QED BY <3>3, <3>4
  <2> QED BY <2>4, <2>5
<1> QED BY <1>5, <1>6

\* The run reads an event of mpv.
LEMMA EventFollows ==
  ASSUME IInv, Follow, HandleEvent, run'.alive, Lost => Lost'
  PROVE  evs' \in Seq(MpvEvents) /\ Follows'
<1> DEFINE h == Head(evs)
<1>1. /\ evs # <<>> /\ tick = "events" /\ UNCHANGED <<tick, keys>>
      /\ run'.slots = run.slots /\ run'.pos = run.pos /\ run.alive /\ evs' = Tail(evs)
      /\ \/ /\ run' = run
            /\ \/ h.e = "pos" /\ ~Diverges(h.at)
               \/ h.e = "stop" /\ run.cur # NoSlot /\ ~Diverges(run.pos)
         \/ /\ OnItsSlot(run')
            /\ h.e = "pos" => run'.idx = h.at
            /\ h.e = "stop" => run'.idx = run.pos
  BY EventDoes
<1>2. /\ evs \in Seq(MpvEvents) /\ Follows
  BY <1>1 DEF Follow
<1>3. /\ h \in MpvEvents /\ evs' \in Seq(MpvEvents)
      /\ EndsAt(evs, run.pos) => EndsAt(evs', run.pos)
      /\ EofLed(evs) => EofLed(evs')
      /\ h.e = "pos" => /\ NoEnd(evs') => NoEnd(evs)
                        /\ StopFirst(evs') => StopFirst(evs)
                        /\ NoPos(evs') /\ EndsAt(evs, run.pos) => h.at = run.pos
      /\ h.e = "stop" => StopFirst(evs)
      /\ h.e = "eof" /\ EofLed(evs) => ~NoPos(evs')
  BY <1>1, <1>2, EventRead
<1>4. h.e \in {"eof", "stop", "pos"}
  BY <1>3 DEF MpvEvents
<1>5. run.pos > 0 => run.pos \in DOMAIN run.slots
  BY LenProperties DEF IInv, Run, RunInv, Runs
<1> HIDE DEF h
<1>6. run.pos > 0 => /\ NoPos(evs) => run.idx = run.pos
                     /\ EndsAt(evs, run.pos) /\ EofLed(evs)
  BY <1>2 DEF Follows, Coordinates
<1>7. CASE OnItsSlot(run') /\ (h.e = "pos" => run'.idx = h.at) /\ (h.e = "stop" => run'.idx = run.pos)
  <2>1. Coordinates(run', evs')
    BY <1>1, <1>3, <1>4, <1>6, <1>7 DEF Coordinates
  <2> QED BY <1>1, <1>3, <1>7, <2>1 DEF Follows
<1>8. CASE run' = run /\ h.e = "pos" /\ ~Diverges(h.at)
  <2>1. Coordinates(run', evs')
    BY <1>3, <1>5, <1>6, <1>8 DEF Coordinates, Diverges
  <2>2. Unread(run, evs) => Unread(run', evs')
    BY <1>3, <1>8 DEF Unread
  <2> QED BY <1>1, <1>2, <1>3, <1>8, <2>1, <2>2 DEF Follows
<1>9. CASE run' = run /\ h.e = "stop" /\ run.cur # NoSlot /\ ~Diverges(run.pos)
  <2>1. Coordinates(run', evs')
    BY <1>3, <1>5, <1>6, <1>9 DEF Coordinates, Diverges
  <2>2. ~Unread(run, evs)
    BY <1>3, <1>9 DEF Unread
  <2> QED BY <1>1, <1>2, <1>3, <1>9, <2>1, <2>2 DEF Follows
<1> QED BY <1>1, <1>7, <1>8, <1>9

\* Every step keeps the run on its way to mpv's entry.
LEMMA NextFollows == IInv /\ Follow /\ [Next]_vars => Follow'
<1> SUFFICES ASSUME IInv, Follow, [Next]_vars PROVE Follow'
  OBVIOUS
<1>1. AppendsNew' /\ (Lost => Lost')
  BY LostStays DEF Follow
<1>2. ASSUME UNCHANGED <<run, evs, tick, keys>> PROVE Follow'
  <2>1. Follows => Follows'
    BY <1>1, <1>2 DEF Follows
  <2> QED BY <1>1, <1>2, <2>1 DEF Follow
<1>3. CASE MpvEof \/ MpvKey
  <2>1. run.alive
    BY <1>3 DEF MpvEof, MpvKey, MpvLeaves
  <2> QED BY <1>1, <1>3, <2>1, MpvFollows DEF Follow
<1>4. CASE HandleCommand
  <2>1. Head(chan).c = "remove" /\ Head(chan).slot \in Range(run.slots) => Lost'
    BY <1>4, LostStays DEF Follow
  <2>2. CASE run'.alive
    BY <1>1, <1>4, <2>1, <2>2, CommandFollows DEF Follow
  <2>3. CASE ~run'.alive
    <3>1. evs' = <<>>
      BY <1>4, <2>3 DEF HandleCommand
    <3> QED BY <1>1, <2>3, <3>1, EmptySeq DEF Follow
  <2> QED BY <2>2, <2>3
<1>5. CASE HandleEvent
  <2>1. CASE run'.alive
    BY <1>1, <1>5, <2>1, EventFollows DEF Follow
  <2>2. CASE ~run'.alive
    <3>1. evs' = <<>>
      BY <1>5, <2>2 DEF HandleEvent
    <3> QED BY <1>1, <2>2, <3>1, EmptySeq DEF Follow
  <2> QED BY <2>1, <2>2
<1>6. CASE RunTick
  <2>1. /\ run.alive /\ UNCHANGED <<run, evs, keys>>
        /\ \/ tick = "commands"
           \/ tick = "events" /\ evs = <<>>
    BY <1>6 DEF RunTick
  <2>2. Follows
    BY <2>1 DEF Follow
  <2>3. keys = 0 /\ run.pos > 0 => Unread(run, evs)
    <3> SUFFICES ASSUME keys = 0, run.pos > 0, tick = "events", evs = <<>>, OnItsSlot(run)
                 PROVE  Unread(run, evs)
      BY <2>1, <2>2 DEF Follows
    <3>1. run.idx = run.pos
      BY <2>2, NothingSaid DEF Follows, Coordinates
    <3> QED BY <3>1, NothingSaid DEF Unread, OnItsSlot
  <2>4. Follows'
    BY <1>1, <2>1, <2>2, <2>3 DEF Follows
  <2> QED BY <1>1, <2>1, <2>4 DEF Follow
<1>7. CASE RemoveSlots \/ MoveOneSlot \/ AppendSlot \/ Shuffle
  BY <1>2, <1>7, EditCommands
<1>8. CASE OwnerReads
  BY <1>2, <1>8 DEF OwnerReads
<1>9. CASE UNCHANGED vars
  BY <1>2, <1>9 DEF vars
<1> QED BY <1>3, <1>4, <1>5, <1>6, <1>7, <1>8, <1>9 DEF Next

-----------------------------------------------------------------------------
(* The theorems.                                                           *)

\* A run starts with the owner's order.
LEMMA InitHolds == Init => IInv
<1> SUFFICES ASSUME Init PROVE IInv
  OBVIOUS
<1>1. PICK order \in SetToSeqs(Slots) :
        /\ queue = SubSeq(order, 1, StartLen) /\ active = queue[1] /\ minted = Range(queue)
        /\ run = [alive |-> TRUE, slots |-> queue, cur |-> queue[1], idx |-> 1, list |-> queue, pos |-> 1]
        /\ chan = <<>> /\ edits = 0 /\ keys = 0
  BY DEF Init
<1>2. order \in Seq(Slots) /\ Len(order) = Cardinality(Slots) /\ IsInjective(order)
  <2>1. Slots \in SUBSET Slots
    OBVIOUS
  <2> QED BY <2>1, RunQueueAssumption, OrdersAre
<1>3. StartLen \in 1..Len(order)
  BY <1>2, RunQueueAssumption
<1>4. /\ queue \in Seq(Slots) /\ Len(queue) = StartLen
      /\ \A i \in 1..StartLen : queue[i] = order[i]
  <2>1. 1 \in 1..(Len(order) + 1) /\ StartLen \in 0..Len(order) /\ Len(order) \in Nat
    BY <1>2, <1>3, LenProperties
  <2>2. \A i \in 1..StartLen : order[i] \in Slots
    BY <1>2, <1>3, <2>1, ElementOfSeq
  <2> QED BY <1>1, <1>2, <1>3, <2>1, <2>2
<1>5. DOMAIN queue = 1..StartLen /\ DOMAIN order = 1..Len(order) /\ StartLen \in Nat
  BY <1>2, <1>3, <1>4, LenProperties
<1>6. IsInjective(queue)
  BY <1>2, <1>3, <1>4, <1>5 DEF IsInjective
<1>7. 1 \in 1..StartLen
  BY <1>3
<1>8. queue[1] \in Range(queue) /\ Range(queue) \subseteq Slots
  BY <1>4, <1>5, <1>7, ElementOfSeq DEF Range
<1>9. Owner
  BY <1>1, <1>4, <1>6, <1>8, RunQueueAssumption DEF Owner
<1>10. /\ run.alive = TRUE /\ run.slots = queue /\ run.cur = queue[1] /\ run.idx = 1
       /\ run.list = queue /\ run.pos = 1 /\ run \in Runs
  BY <1>1, <1>4, <1>8 DEF Runs
<1>11. Run
  BY <1>1, <1>3, <1>4, <1>5, <1>6, <1>8, <1>10 DEF Run, RunInv
<1>12. OnTheWay
  <2>1. chan \in Seq(Commands)
    BY <1>1, EmptySeq
  <2>2. Reaches(queue, chan, minted, queue)
    BY <1>1, <1>4, <1>6, ReachHere
  <2>3. Holds(consumes, queue, chan, minted, queue)
    BY <2>2 DEF Holds
  <2> QED BY <1>10, <2>1, <2>3 DEF OnTheWay
<1> QED BY <1>9, <1>11, <1>12 DEF IInv

\* Every step keeps the invariant.
LEMMA NextKeeps == IInv /\ [Next]_vars => IInv'
<1> SUFFICES ASSUME IInv, [Next]_vars PROVE IInv'
  OBVIOUS
<1>1. CASE UNCHANGED vars
  <2>1. UNCHANGED <<queue, active, consumes, minted, chan, run, edits, keys>>
    BY <1>1 DEF vars
  <2>2. Owner' /\ Run' /\ OnTheWay'
    BY <2>1 DEF IInv, Owner, Run, OnTheWay
  <2> QED BY <2>2 DEF IInv
<1>2. CASE Next
  <2>1. UNCHANGED consumes
    BY <1>2 DEF Next
  <2>2. CASE RunTick
    <3>1. UNCHANGED <<queue, active, consumes, minted, chan, run, edits, keys>>
      BY <2>1, <2>2 DEF RunTick
    <3>2. Owner' /\ Run' /\ OnTheWay'
      BY <3>1 DEF IInv, Owner, Run, OnTheWay
    <3> QED BY <3>2 DEF IInv
  <2> QED BY <1>2, <2>1, <2>2, MpvKeeps, RemoveSlotsKeeps, MoveOneSlotKeeps, AppendSlotKeeps,
             ShuffleKeeps, HandleCommandKeeps, HandleEventKeeps, OwnerReadsKeeps DEF Next
<1> QED BY <1>1, <1>2

\* The owner's order, the run's sequence and mpv's playlist hold minted slots,
\* each once, and what is on its way turns the run's order into the owner's.
THEOREM Inductive == Spec => []IInv
<1> QED BY InitHolds, NextKeeps, PTL DEF Spec

\* Every queue, marker and index keeps its type: slots are minted, the active
\* slot and the run's are held, and mpv's position is on its playlist.
THEOREM TypeCorrect == Spec => []TypeOK
<1>1. IInv => TypeOK
  BY DEF IInv, Owner, Run, RunInv, Runs, TypeOK
<1> QED BY Inductive, <1>1, PTL

\* mpv's playlist is the run's sequence after every command, whatever moves,
\* removals, insertions and reorders have run.
THEOREM MirrorAlways == Spec => []PlaylistMirrorsRun
<1>1. IInv => PlaylistMirrorsRun
  BY DEF IInv, Run, RunInv, PlaylistMirrorsRun
<1> QED BY Inductive, <1>1, PTL

\* Once it has read every command the run plays the owner's order while
\* nothing is consumed, and always holds every slot the owner shows.
THEOREM AlwaysKeepsUp == Spec => []RunKeepsUp
<1>1. IInv => RunKeepsUp
  <2> SUFFICES ASSUME IInv, Quiet
               PROVE  (~consumes => run.slots = queue) /\ Range(queue) \subseteq Range(run.slots)
    BY DEF RunKeepsUp
  <2>1. run.alive /\ chan = <<>>
    BY DEF Quiet
  <2>2. Holds(consumes, run.slots, <<>>, minted, queue)
    BY <2>1 DEF IInv, OnTheWay
  <2>3. PICK last : /\ Reaches(run.slots, <<>>, minted, last)
                    /\ Range(queue) \subseteq Range(last)
                    /\ ~consumes /\ Clear(<<>>) => last = queue
    BY <2>2 DEF Holds
  <2>4. last = run.slots
    BY <2>3, ReachHere
  <2>5. Clear(<<>>)
    BY DEF Clear
  <2> QED BY <2>3, <2>4, <2>5
<1> QED BY Inductive, <1>1, PTL
\* The run announces each slot it goes to after what it announced before, and
\* edits, consumption and late events never leave the owner's marker behind:
\* once everything is read, the active slot is the slot mpv plays, unless the
\* owner has let go of it.
THEOREM MarkerAlwaysSettles == Spec => []ObservedSlotIsPlaying
<1>1. Init => Announced
  <2> SUFFICES ASSUME Init PROVE Announced
    OBVIOUS
  <2>1. /\ out = <<>>
        /\ \E start : /\ active = start[1]
                      /\ run = [alive |-> TRUE, slots |-> start, cur |-> start[1], idx |-> 1,
                                list |-> start, pos |-> 1]
    BY DEF Init
  <2>2. active = run.cur
    BY <2>1
  <2>3. out \in Seq(Events)
    BY <2>1, EmptySeq
  <2> QED BY <2>1, <2>2, <2>3 DEF Announced
<1>2. IInv /\ Announced => ObservedSlotIsPlaying
  <2> SUFFICES ASSUME IInv, Announced, Quiet, OnOneEntry, run.list[run.pos] \in Range(queue)
               PROVE  active = run.list[run.pos]
    BY DEF ObservedSlotIsPlaying
  <2>1. run.alive /\ run.pos > 0 /\ evs = <<>> /\ out = <<>>
    BY DEF Quiet
  <2>2. run.cur = run.list[run.pos]
    BY <2>1 DEF OnOneEntry
  <2>3. run.cur # NoSlot
    BY <2>2, RunQueueAssumption DEF IInv, Owner
  <2> QED BY <2>1, <2>2, <2>3 DEF Announced
<1> QED BY Inductive, NextAnnounces, <1>1, <1>2, PTL DEF Spec

\* Whatever moves, removals, insertions and reorders run between an end of
\* file and its event, the run comes to the entry mpv plays when it has read
\* mpv's events: cmd_queue_remove may leave current_idx behind.
THEOREM AlwaysSettles == Spec => []CoordinateSettles
<1>1. Init => Follow
  <2> SUFFICES ASSUME Init PROVE Follow
    OBVIOUS
  <2>1. /\ evs = <<>> /\ chan = <<>> /\ tick = "commands"
        /\ \E start : run = [alive |-> TRUE, slots |-> start, cur |-> start[1], idx |-> 1,
                             list |-> start, pos |-> 1]
    BY DEF Init
  <2>2. run.idx = 1 /\ run.pos = 1 /\ run.cur = run.slots[1]
    BY <2>1
  <2>3. 1 \in DOMAIN run.slots
    BY <2>2, InitHolds, LenProperties DEF IInv, Run, RunInv, Runs
  <2>4. AppendsNew
    BY <2>1, EmptySeq DEF AppendsNew
  <2>5. Coordinates(run, evs) /\ OnItsSlot(run) /\ Unread(run, evs)
    BY <2>1, <2>2, <2>3, NothingSaid DEF Coordinates, OnItsSlot, Unread
  <2> QED BY <2>1, <2>4, <2>5, NothingSaid DEF Follow, Follows
<1>2. IInv /\ Follow => CoordinateSettles
  <2> SUFFICES ASSUME IInv, Follow, keys = 0 \/ minted \subseteq Range(run.slots),
                      run.alive, evs = <<>>, run.pos > 0
               PROVE  run.idx = run.pos /\ run.cur = run.list[run.pos]
    BY DEF CoordinateSettles, OnOneEntry
  <2>1. Follows
    BY DEF Follow
  <2>2. run.idx = run.pos
    BY <2>1, NothingSaid DEF Follows, Coordinates
  <2>3. run.cur = run.slots[run.pos]
    <3>1. CASE keys = 0
      BY <2>1, <2>2, <3>1, NothingSaid DEF Follows, Unread, OnItsSlot
    <3>2. CASE minted \subseteq Range(run.slots)
      <4>1. ~Lost
        BY <3>2 DEF Lost
      <4> QED BY <2>1, <2>2, <4>1 DEF Follows, OnItsSlot
    <3> QED BY <3>1, <3>2
  <2>4. run.list = run.slots
    BY DEF IInv, Run, RunInv
  <2> QED BY <2>2, <2>3, <2>4
<1> QED BY Inductive, NextFollows, <1>1, <1>2, PTL DEF Spec
=============================================================================

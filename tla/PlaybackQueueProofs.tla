------------------------ MODULE PlaybackQueueProofs ------------------------
(***************************************************************************)
(* Proofs about PlaybackQueue: its slot identities are unique and never    *)
(* reused, its active marker is live, a revision names one content, and a  *)
(* refresh keeps the active slot.                                          *)
(***************************************************************************)
EXTENDS PlaybackQueue, SequenceLemmas, FiniteSetTheorems, TLAPS

-----------------------------------------------------------------------------
(* Permutations.                                                           *)

\* An injection of an interval into itself reaches every number.
LEMMA InjectionOfInterval ==
    ASSUME NEW n \in Nat, NEW p \in [1..n -> 1..n],
           \A i, j \in 1..n : p[i] = p[j] => i = j
    PROVE  \A k \in 1..n : \E i \in 1..n : p[i] = k
<1>1. IsFiniteSet(1..n)
  BY FS_Interval
<1>2. p \in Injection(1..n, 1..n)
  BY DEF Injection, IsInjective
<1>3. p \in Surjection(1..n, 1..n)
  BY <1>1, <1>2, FS_Injection
<1> QED BY <1>3 DEF Surjection

-----------------------------------------------------------------------------
(* Slot lists.                                                             *)

\* The ids of a slot list are slot ids.
LEMMA IdsType ==
    ASSUME NEW s \in Seq(Slot)
    PROVE  /\ Ids(s) \subseteq Nat
           /\ \A i \in DOMAIN s : s[i] \in Slot /\ s[i].id \in Nat
<1>1. \A i \in DOMAIN s : s[i] \in Slot
  BY ElementOfSeq, LenProperties
<1> QED BY <1>1 DEF Ids, Slot, SlotId

\* slot_index finds a slot that carries the id.
LEMMA SlotIndexProperties ==
    ASSUME NEW s \in Seq(Slot), NEW id \in Ids(s)
    PROVE  /\ SlotIndex(s, id) \in DOMAIN s
           /\ SlotIndex(s, id) \in 1..Len(s)
           /\ s[SlotIndex(s, id)].id = id
           /\ SlotAt(s, id) \in Slot
           /\ SlotAt(s, id).id = id
<1>1. PICK i \in DOMAIN s : s[i].id = id
  BY DEF Ids
<1>2. SlotIndex(s, id) \in DOMAIN s /\ s[SlotIndex(s, id)].id = id
  BY <1>1 DEF SlotIndex
<1>3. DOMAIN s = 1..Len(s)
  BY LenProperties
<1> QED BY <1>2, <1>3, IdsType DEF SlotAt

\* A list that takes its slots from different places of another keeps ids
\* unique and adds none.
LEMMA SelectedSlots ==
    ASSUME NEW s \in Seq(Slot), UniqueIds(s), NEW t \in Seq(Slot),
           NEW f \in [DOMAIN t -> DOMAIN s],
           \A i, j \in DOMAIN t : f[i] = f[j] => i = j,
           \A i \in DOMAIN t : t[i].id = s[f[i]].id
    PROVE  UniqueIds(t) /\ Ids(t) \subseteq Ids(s)
<1>1. ASSUME NEW i \in DOMAIN t, NEW j \in DOMAIN t, t[i].id = t[j].id
      PROVE  i = j
  <2>1. f[i] \in DOMAIN s /\ f[j] \in DOMAIN s
    OBVIOUS
  <2>2. s[f[i]].id = s[f[j]].id
    BY <1>1
  <2> QED BY <2>1, <2>2 DEF UniqueIds
<1>2. Ids(t) \subseteq Ids(s)
  BY DEF Ids
<1> QED BY <1>1, <1>2 DEF UniqueIds

\* Removing one slot: exactly its id goes.
LEMMA RemovedSlot ==
    ASSUME NEW s \in Seq(Slot), UniqueIds(s), NEW id \in Ids(s)
    PROVE  LET t == RemoveAt(s, SlotIndex(s, id)) IN
           /\ t \in Seq(Slot)
           /\ UniqueIds(t)
           /\ Ids(t) = Ids(s) \ {id}
<1> DEFINE k == SlotIndex(s, id)
           n == Len(s)
           t == RemoveAt(s, k)
           f == [j \in DOMAIN t |-> IF j < k THEN j ELSE j + 1]
<1>0. n \in Nat /\ k \in 1..n /\ s[k].id = id /\ DOMAIN s = 1..n
  BY SlotIndexProperties, LenProperties
<1>1. /\ t \in Seq(Slot)
      /\ Len(t) = n - 1
      /\ \A j \in 1..(n - 1) : t[j] = IF j < k THEN s[j] ELSE s[j + 1]
  BY <1>0, RemoveAtProperties
<1>2. DOMAIN t = 1..(n - 1)
  BY <1>1, LenProperties
<1> HIDE DEF k, n, t
<1>3. \A j \in DOMAIN t : f[j] \in DOMAIN s /\ t[j] = s[f[j]] /\ f[j] # k
  BY <1>0, <1>1, <1>2
<1>4. \A i, j \in DOMAIN t : f[i] = f[j] => i = j
  BY <1>0, <1>2
<1>5. \A m \in DOMAIN s \ {k} : \E j \in DOMAIN t : f[j] = m
  <2> TAKE m \in DOMAIN s \ {k}
  <2>1. CASE m < k
    BY <1>0, <1>2, <2>1
  <2>2. CASE ~ (m < k)
    <3>1. m - 1 \in DOMAIN t /\ f[m - 1] = m
      BY <1>0, <1>2, <2>2
    <3> QED BY <3>1
  <2> QED BY <2>1, <2>2
<1>6. f \in [DOMAIN t -> DOMAIN s]
  BY <1>3
<1> HIDE DEF f
<1>7. UniqueIds(t) /\ Ids(t) \subseteq Ids(s)
  <2>1. \A j \in DOMAIN t : t[j].id = s[f[j]].id
    BY <1>3
  <2> QED BY ONLY <1>1, <1>4, <1>6, <2>1, UniqueIds(s), s \in Seq(Slot),
             SelectedSlots, Zenon
<1>8. id \notin Ids(t)
  BY <1>0, <1>3 DEF Ids, UniqueIds
<1>9. Ids(s) \ {id} \subseteq Ids(t)
  BY <1>0, <1>3, <1>5 DEF Ids
<1> QED BY <1>1, <1>7, <1>8, <1>9 DEF t, k

\* Inserting a slot with a new id: exactly that id comes.
LEMMA InsertedSlot ==
    ASSUME NEW s \in Seq(Slot), UniqueIds(s),
           NEW e \in Slot, e.id \notin Ids(s), NEW k \in 1..(Len(s) + 1)
    PROVE  LET t == InsertAt(s, k, e) IN
           /\ t \in Seq(Slot)
           /\ UniqueIds(t)
           /\ Ids(t) = Ids(s) \cup {e.id}
<1> DEFINE n == Len(s)
           t == InsertAt(s, k, e)
<1>0. n \in Nat /\ k \in 1..(n + 1) /\ DOMAIN s = 1..n
  BY LenProperties
<1>1. /\ t \in Seq(Slot)
      /\ Len(t) = n + 1
      /\ \A j \in 1..(n + 1) :
            /\ j < k => t[j] = s[j]
            /\ j = k => t[j] = e
            /\ j > k => t[j] = s[j - 1]
  <2>1. InsertAt(s, k, e) \in Seq(Slot) /\ Len(InsertAt(s, k, e)) = Len(s) + 1
    BY InsertAtProperties
  <2>2. ASSUME NEW j \in 1..(Len(s) + 1)
        PROVE  /\ j < k => InsertAt(s, k, e)[j] = s[j]
               /\ j = k => InsertAt(s, k, e)[j] = e
               /\ j > k => InsertAt(s, k, e)[j] = s[j - 1]
    BY ONLY s \in Seq(Slot), e \in Slot, k \in 1..(Len(s) + 1), <2>2,
            InsertAtProperties
  <2> QED BY <2>1, <2>2
<1>2. DOMAIN t = 1..(n + 1)
  BY <1>1, LenProperties
<1> HIDE DEF t, n
<1>3. t[k] = e /\ k \in DOMAIN t
  BY <1>0, <1>1, <1>2
<1>4. ASSUME NEW j \in DOMAIN t, j # k
      PROVE  \E m \in DOMAIN s : t[j] = s[m] /\ m = IF j < k THEN j ELSE j - 1
  BY <1>0, <1>1, <1>2, <1>4
<1>5. ASSUME NEW m \in DOMAIN s
      PROVE  \E j \in DOMAIN t : t[j] = s[m]
  <2>1. CASE m < k
    BY <1>0, <1>1, <1>2, <2>1
  <2>2. CASE ~ (m < k)
    <3>1. m + 1 \in DOMAIN t /\ t[m + 1] = s[m]
      BY <1>0, <1>1, <1>2, <2>2
    <3> QED BY <3>1
  <2> QED BY <2>1, <2>2
<1>6. ASSUME NEW i \in DOMAIN t, NEW j \in DOMAIN t, t[i].id = t[j].id
      PROVE  i = j
  <2>1. CASE i = k \/ j = k
    BY <1>3, <1>4, <1>6, <2>1 DEF Ids
  <2>2. CASE i # k /\ j # k
    <3>1. PICK a \in DOMAIN s : t[i] = s[a] /\ a = IF i < k THEN i ELSE i - 1
      BY <1>4, <2>2
    <3>2. PICK b \in DOMAIN s : t[j] = s[b] /\ b = IF j < k THEN j ELSE j - 1
      BY <1>4, <2>2
    <3>3. a = b
      BY <1>6, <3>1, <3>2 DEF UniqueIds
    <3> QED BY <1>0, <1>2, <2>2, <3>1, <3>2, <3>3
  <2> QED BY <2>1, <2>2
<1>7. Ids(t) = Ids(s) \cup {e.id}
  BY <1>3, <1>4, <1>5 DEF Ids
<1> QED BY <1>1, <1>6, <1>7 DEF t, UniqueIds

-----------------------------------------------------------------------------
(* The invariant of one queue value, and what a method may do to it.       *)

QueueInv(q) ==
    /\ q \in QueueType
    /\ UniqueIds(q.slots)
    /\ q.active \in Ids(q.slots) \cup {NoSlot}
    /\ \A id \in Ids(q.slots) : id < q.next

\* A method that may take the number rev leaves a good value; it introduces
\* only ids the allocator had not given out, and either carries rev or has
\* changed nothing a reader sees.
GoodStep(q, r, rev) ==
    /\ QueueInv(r)
    /\ r.mint = q.mint
    /\ r.next >= q.next
    /\ \A id \in Ids(r.slots) : id \in Ids(q.slots) \/ id >= q.next
    /\ \/ r.revision = rev
       \/ r.revision = q.revision /\ Content(r) = Content(q)

\* A method that returns early is a good step.
LEMMA SameValue ==
    ASSUME NEW q, QueueInv(q), NEW rev \in Nat
    PROVE  GoodStep(q, q, rev)
BY DEF GoodStep, QueueInv, QueueType

\* A method that installs the slots t and the marker a.
LEMMA NewSlots ==
    ASSUME NEW q, QueueInv(q), NEW rev \in Nat, NEW t \in Seq(Slot),
           UniqueIds(t), NEW a \in Ids(t) \cup {NoSlot},
           NEW next \in Nat, next >= q.next,
           \A id \in Ids(t) : id < next,
           \A id \in Ids(t) : id \in Ids(q.slots) \/ id >= q.next,
           NEW r, r = [q EXCEPT !.slots = t, !.active = a,
                                !.revision = rev, !.next = next]
    PROVE  GoodStep(q, r, rev)
<1>1. q \in QueueType
  BY DEF QueueInv
<1>2. Ids(t) \subseteq Nat
  BY IdsType
<1>3. /\ r \in QueueType /\ r.slots = t /\ r.active = a
      /\ r.revision = rev /\ r.next = next /\ r.mint = q.mint
  BY <1>1, <1>2 DEF QueueType, SlotId
<1> QED BY <1>3 DEF GoodStep, QueueInv

\* The same, when no slot is added.
LEMMA FewerSlots ==
    ASSUME NEW q, QueueInv(q), NEW rev \in Nat, NEW t \in Seq(Slot),
           UniqueIds(t), Ids(t) \subseteq Ids(q.slots),
           NEW a \in Ids(t) \cup {NoSlot},
           NEW r, r = [q EXCEPT !.slots = t, !.active = a, !.revision = rev]
    PROVE  GoodStep(q, r, rev)
<1>1. q \in QueueType /\ q.next \in Nat /\ q.next >= q.next
  BY DEF QueueInv, QueueType
<1>2. Ids(t) \subseteq Nat
  BY IdsType
<1>3. /\ r \in QueueType /\ r.slots = t /\ r.active = a
      /\ r.revision = rev /\ r.next = q.next /\ r.mint = q.mint
  BY <1>1, <1>2 DEF QueueType, SlotId
<1>4. \A id \in Ids(t) : id < q.next
  BY DEF QueueInv
<1> QED BY <1>1, <1>3, <1>4 DEF GoodStep, QueueInv

-----------------------------------------------------------------------------
(* One lemma per method.                                                   *)

\* set_active_slot
LEMMA SetActiveGood ==
    ASSUME NEW q, QueueInv(q), NEW rev \in Nat, NEW id
    PROVE  GoodStep(q, SetActive(q, id, rev), rev)
<1>1. CASE id \notin Ids(q.slots) \/ q.active = id
  BY <1>1, SameValue DEF SetActive
<1>2. CASE id \in Ids(q.slots) /\ q.active # id
  <2>1. q \in QueueType /\ q.slots \in Seq(Slot)
    BY DEF QueueInv, QueueType
  <2>2. SetActive(q, id, rev) =
            [q EXCEPT !.slots = q.slots, !.active = id, !.revision = rev]
    BY <1>2, <2>1 DEF SetActive, QueueType
  <2> QED BY <1>2, <2>1, <2>2, FewerSlots DEF QueueInv
<1> QED BY <1>1, <1>2

\* clear_active_slot
LEMMA ClearActiveGood ==
    ASSUME NEW q, QueueInv(q), NEW rev \in Nat
    PROVE  GoodStep(q, ClearActive(q, rev), rev)
<1>1. CASE q.active = NoSlot
  BY <1>1, SameValue DEF ClearActive
<1>2. CASE q.active # NoSlot
  <2>1. q \in QueueType /\ q.slots \in Seq(Slot)
    BY DEF QueueInv, QueueType
  <2>2. ClearActive(q, rev) =
            [q EXCEPT !.slots = q.slots, !.active = NoSlot, !.revision = rev]
    BY <1>2, <2>1 DEF ClearActive, QueueType
  <2>3. UniqueIds(q.slots) /\ NoSlot \in Ids(q.slots) \cup {NoSlot}
    BY DEF QueueInv
  <2> QED BY <2>1, <2>2, <2>3, FewerSlots
<1> QED BY <1>1, <1>2

\* insert and append: the new slot takes the allocator's next id.
LEMMA InsertGood ==
    ASSUME NEW q, QueueInv(q), NEW rev \in Nat, NEW index \in Nat,
           NEW item \in Item
    PROVE  GoodStep(q, Insert(q, index, item, rev), rev)
<1> DEFINE at == IF index > Len(q.slots) THEN Len(q.slots) ELSE index
           e  == [id |-> q.next, item |-> item]
           t  == InsertAt(q.slots, at + 1, e)
<1>1. /\ q \in QueueType /\ q.slots \in Seq(Slot) /\ UniqueIds(q.slots)
      /\ q.next \in Nat /\ q.active \in Ids(q.slots) \cup {NoSlot}
      /\ \A id \in Ids(q.slots) : id < q.next
  BY DEF QueueInv, QueueType
<1>2. Len(q.slots) \in Nat
  BY <1>1, LenProperties
<1>3. at + 1 \in 1..(Len(q.slots) + 1)
  BY <1>2
<1>4. e \in Slot /\ e.id = q.next /\ e.id \notin Ids(q.slots)
  BY <1>1 DEF Slot, SlotId
<1> HIDE DEF at, e
<1>5. t \in Seq(Slot) /\ UniqueIds(t) /\ Ids(t) = Ids(q.slots) \cup {q.next}
  BY <1>1, <1>3, <1>4, InsertedSlot
<1>6. Insert(q, index, item, rev) =
        [q EXCEPT !.slots = t, !.active = q.active, !.revision = rev,
                  !.next = q.next + 1]
  BY <1>1 DEF Insert, QueueType, at, e
<1> HIDE DEF t
<1>7. q.next + 1 \in Nat /\ q.next + 1 >= q.next /\ q.next >= q.next
  BY <1>1
<1>8. /\ \A id \in Ids(t) : id < q.next + 1
      /\ \A id \in Ids(t) : id \in Ids(q.slots) \/ id >= q.next
  BY <1>1, <1>5, <1>7, IdsType
<1> QED BY <1>1, <1>5, <1>6, <1>7, <1>8, NewSlots

\* replace: fresh consecutive ids, no marker.
LEMMA ReplaceGood ==
    ASSUME NEW q, QueueInv(q), NEW rev \in Nat, NEW items \in Seq(Item)
    PROVE  GoodStep(q, Replace(q, items, rev), rev)
<1> DEFINE t == [i \in 1..Len(items) |->
                    [id |-> q.next + i - 1, item |-> items[i]]]
<1>1. q \in QueueType /\ q.next \in Nat
  BY DEF QueueInv, QueueType
<1>2. Len(items) \in Nat /\ \A i \in 1..Len(items) : items[i] \in Item
  BY LenProperties, ElementOfSeq
<1>3. \A i \in 1..Len(items) : t[i] \in Slot /\ t[i].id = q.next + i - 1
  BY <1>1, <1>2 DEF Slot, SlotId
<1>4. t \in Seq(Slot) /\ DOMAIN t = 1..Len(items)
  BY <1>2, <1>3, SeqDef
<1>5. Replace(q, items, rev) =
        [q EXCEPT !.slots = t, !.active = NoSlot, !.revision = rev,
                  !.next = q.next + Len(items)]
  BY <1>1 DEF Replace, QueueType
<1> HIDE DEF t
<1>6. UniqueIds(t)
  BY <1>1, <1>2, <1>3, <1>4 DEF UniqueIds
<1>7. \A id \in Ids(t) : id < q.next + Len(items) /\ id >= q.next
  BY <1>1, <1>2, <1>3, <1>4 DEF Ids
<1>8. q.next + Len(items) \in Nat /\ q.next + Len(items) >= q.next
  BY <1>1, <1>2
<1> QED BY <1>4, <1>5, <1>6, <1>7, <1>8, NewSlots

\* clear
LEMMA ClearGood ==
    ASSUME NEW q, QueueInv(q), NEW rev \in Nat
    PROVE  GoodStep(q, Clear(q, rev), rev)
<1>1. CASE q.slots = << >>
  BY <1>1, SameValue DEF Clear
<1>2. CASE q.slots # << >>
  <2>1. << >> \in Seq(Slot) /\ UniqueIds(<< >>) /\ Ids(<< >>) = {}
    BY EmptySeq DEF UniqueIds, Ids
  <2>2. Clear(q, rev) =
            [q EXCEPT !.slots = << >>, !.active = NoSlot, !.revision = rev]
    BY <1>2 DEF Clear
  <2> QED BY <2>1, <2>2, FewerSlots
<1> QED BY <1>1, <1>2

\* truncate_slots: a prefix, and no marker behind it.
LEMMA TruncateGood ==
    ASSUME NEW q, QueueInv(q), NEW rev \in Nat, NEW len \in Nat
    PROVE  GoodStep(q, Truncate(q, len, rev), rev)
<1> DEFINE n == Len(q.slots)
           t == SubSeq(q.slots, 1, len)
           f == [i \in DOMAIN t |-> i]
<1>1. CASE len >= n
  BY <1>1, SameValue DEF Truncate
<1>2. CASE ~ (len >= n)
  <2>1. q \in QueueType /\ q.slots \in Seq(Slot) /\ UniqueIds(q.slots)
    BY DEF QueueInv, QueueType
  <2>2. n \in Nat /\ DOMAIN q.slots = 1..n
    BY <2>1, LenProperties
  <2>3. t \in Seq(Slot) /\ Len(t) = len /\ \A i \in 1..len : t[i] = q.slots[i]
    BY <1>2, <2>1, <2>2, SubSeqProperties
  <2>4. DOMAIN t = 1..len
    BY <2>3, LenProperties
  <2>5. Truncate(q, len, rev) =
            [q EXCEPT !.slots = t,
                      !.active = IF q.active \in Ids(t) THEN q.active ELSE NoSlot,
                      !.revision = rev]
    BY <1>2, <2>1 DEF Truncate, QueueType
  <2> HIDE DEF t, n
  <2>6. /\ f \in [DOMAIN t -> DOMAIN q.slots]
        /\ \A i, j \in DOMAIN t : f[i] = f[j] => i = j
        /\ \A i \in DOMAIN t : t[i].id = q.slots[f[i]].id
    BY <1>2, <2>2, <2>3, <2>4
  <2> HIDE DEF f
  <2>7. UniqueIds(t) /\ Ids(t) \subseteq Ids(q.slots)
    BY <2>1, <2>3, <2>6, SelectedSlots
  <2> QED BY <2>3, <2>5, <2>7, FewerSlots
<1> QED BY <1>1, <1>2

\* remove_slot and consume_slot: the marker moves to a slot that stays.
LEMMA RemoveExistingGood ==
    ASSUME NEW q, QueueInv(q), NEW rev \in Nat, NEW id
    PROVE  GoodStep(q, RemoveExisting(q, id, rev), rev)
<1> DEFINE k == SlotIndex(q.slots, id)
           t == RemoveAt(q.slots, k)
           heir == IF t = << >> THEN NoSlot
                   ELSE IF k <= Len(t) THEN t[k].id ELSE t[Len(t)].id
           a == IF q.active = id THEN heir ELSE q.active
<1>1. CASE id \notin Ids(q.slots)
  BY <1>1, SameValue DEF RemoveExisting
<1>2. CASE id \in Ids(q.slots)
  <2>1. /\ q \in QueueType /\ q.slots \in Seq(Slot) /\ UniqueIds(q.slots)
        /\ q.active \in Ids(q.slots) \cup {NoSlot}
    BY DEF QueueInv, QueueType
  <2>2. t \in Seq(Slot) /\ UniqueIds(t) /\ Ids(t) = Ids(q.slots) \ {id}
    BY <1>2, <2>1, RemovedSlot
  <2>3. RemoveExisting(q, id, rev) =
            [q EXCEPT !.slots = t, !.active = a, !.revision = rev]
    BY <1>2, <2>1 DEF RemoveExisting, QueueType
  <2>4. k \in Nat /\ k >= 1
    BY <1>2, <2>1, SlotIndexProperties
  <2> HIDE DEF t, k
  <2>5. heir \in Ids(t) \cup {NoSlot}
    <3>1. Len(t) \in Nat /\ DOMAIN t = 1..Len(t)
      BY <2>2, LenProperties
    <3>2. t # << >> => Len(t) >= 1
      BY <2>2, <3>1, EmptySeq
    <3> QED BY <2>4, <3>1, <3>2 DEF Ids
  <2>6. a \in Ids(t) \cup {NoSlot}
    BY <2>1, <2>2, <2>5
  <2> HIDE DEF a
  <2> QED BY <2>2, <2>3, <2>6, FewerSlots
<1> QED BY <1>1, <1>2

\* remove_slot refuses the active slot.
LEMMA RemoveInactiveGood ==
    ASSUME NEW q, QueueInv(q), NEW rev \in Nat, NEW id
    PROVE  GoodStep(q, RemoveInactive(q, id, rev), rev)
BY SameValue, RemoveExistingGood DEF RemoveInactive

\* remove_active_slot_confirmed
LEMMA RemoveConfirmedGood ==
    ASSUME NEW q, QueueInv(q), NEW rev \in Nat, NEW id
    PROVE  GoodStep(q, RemoveConfirmed(q, id, rev), rev)
<1> DEFINE t == RemoveAt(q.slots, SlotIndex(q.slots, id))
           a == IF q.active = id THEN NoSlot ELSE q.active
<1>1. CASE id \notin Ids(q.slots)
  BY <1>1, SameValue DEF RemoveConfirmed
<1>2. CASE id \in Ids(q.slots)
  <2>1. /\ q \in QueueType /\ q.slots \in Seq(Slot) /\ UniqueIds(q.slots)
        /\ q.active \in Ids(q.slots) \cup {NoSlot}
    BY DEF QueueInv, QueueType
  <2>2. t \in Seq(Slot) /\ UniqueIds(t) /\ Ids(t) = Ids(q.slots) \ {id}
    BY <1>2, <2>1, RemovedSlot
  <2>3. RemoveConfirmed(q, id, rev) =
            [q EXCEPT !.slots = t, !.active = a, !.revision = rev]
    BY <1>2, <2>1 DEF RemoveConfirmed, QueueType
  <2>4. a \in Ids(t) \cup {NoSlot}
    BY <2>1, <2>2
  <2> HIDE DEF t, a
  <2> QED BY <2>2, <2>3, <2>4, FewerSlots
<1> QED BY <1>1, <1>2

\* What reorder_slots installs holds the slots it had.
LEMMA ReorderedSlots ==
    ASSUME NEW s \in Seq(Slot), UniqueIds(s), NEW order,
           IsSlotPermutation(s, order)
    PROVE  LET t == [i \in DOMAIN order |-> SlotAt(s, order[i])] IN
           /\ t \in Seq(Slot)
           /\ UniqueIds(t)
           /\ Ids(t) = Ids(s)
<1> DEFINE t == [i \in DOMAIN order |-> SlotAt(s, order[i])]
           n == Len(s)
<1>1. PICK p \in [DOMAIN s -> DOMAIN s] :
            /\ \A i, j \in DOMAIN s : p[i] = p[j] => i = j
            /\ \A i \in DOMAIN s : order[i] = s[p[i]].id
  BY DEF IsSlotPermutation
<1>2. DOMAIN order = DOMAIN s /\ DOMAIN s = 1..n /\ n \in Nat
  BY LenProperties DEF IsSlotPermutation
<1>3. ASSUME NEW i \in DOMAIN s
      PROVE  t[i] \in Slot /\ t[i].id = s[p[i]].id
  <2>1. s[p[i]].id \in Ids(s)
    BY <1>1 DEF Ids
  <2>2. t[i] = SlotAt(s, s[p[i]].id)
    BY <1>1, <1>2
  <2> HIDE DEF t
  <2> QED BY <2>1, <2>2, SlotIndexProperties
<1>4. t \in Seq(Slot) /\ DOMAIN t = DOMAIN s
  <2>1. t \in [1..n -> Slot]
    BY <1>2, <1>3
  <2> QED BY <1>2, <2>1, SeqDef
<1> HIDE DEF t
<1>5. UniqueIds(t) /\ Ids(t) \subseteq Ids(s)
  <2>1. p \in [DOMAIN t -> DOMAIN s]
    BY <1>1, <1>4
  <2>2. \A i, j \in DOMAIN t : p[i] = p[j] => i = j
    BY <1>1, <1>4
  <2>3. \A i \in DOMAIN t : t[i].id = s[p[i]].id
    BY <1>3, <1>4
  <2> QED BY <1>4, <2>1, <2>2, <2>3, SelectedSlots
<1>6. Ids(s) \subseteq Ids(t)
  <2> HIDE DEF n
  <2>1. p \in [1..n -> 1..n] /\ \A i, j \in 1..n : p[i] = p[j] => i = j
    BY <1>1, <1>2
  <2>2. \A k \in 1..n : \E i \in 1..n : p[i] = k
    BY <1>2, <2>1, InjectionOfInterval
  <2>3. ASSUME NEW k \in DOMAIN s
        PROVE  s[k].id \in Ids(t)
    <3>1. PICK i \in DOMAIN s : p[i] = k
      BY <1>2, <2>2
    <3>2. t[i].id = s[k].id /\ i \in DOMAIN t
      BY <1>3, <1>4, <3>1
    <3> QED BY <3>2 DEF Ids
  <2> QED BY <2>3 DEF Ids
<1> QED BY <1>4, <1>5, <1>6 DEF t

\* reorder_slots
LEMMA ReorderGood ==
    ASSUME NEW q, QueueInv(q), NEW rev \in Nat, NEW order
    PROVE  GoodStep(q, Reorder(q, order, rev), rev)
<1> DEFINE same == order = [i \in DOMAIN q.slots |-> q.slots[i].id]
           t == [i \in DOMAIN order |-> SlotAt(q.slots, order[i])]
<1>1. CASE same \/ ~ IsSlotPermutation(q.slots, order)
  BY <1>1, SameValue DEF Reorder
<1>2. CASE ~ same /\ IsSlotPermutation(q.slots, order)
  <2>1. /\ q \in QueueType /\ q.slots \in Seq(Slot) /\ UniqueIds(q.slots)
        /\ q.active \in Ids(q.slots) \cup {NoSlot}
    BY DEF QueueInv, QueueType
  <2>2. t \in Seq(Slot) /\ UniqueIds(t) /\ Ids(t) = Ids(q.slots)
    BY <1>2, <2>1, ReorderedSlots
  <2>3. Reorder(q, order, rev) =
            [q EXCEPT !.slots = t, !.active = q.active, !.revision = rev]
    BY <1>2, <2>1 DEF Reorder, QueueType
  <2> HIDE DEF t
  <2> QED BY <2>1, <2>2, <2>3, FewerSlots
<1> QED BY <1>1, <1>2

\* move_slot takes one slot out and puts it back elsewhere.
LEMMA MoveGood ==
    ASSUME NEW q, QueueInv(q), NEW rev \in Nat, NEW id, NEW to \in Nat
    PROVE  GoodStep(q, Move(q, id, to, rev), rev)
<1> DEFINE rest == RemoveAt(q.slots, SlotIndex(q.slots, id))
           at == IF to > Len(rest) THEN Len(rest) ELSE to
           e == SlotAt(q.slots, id)
           t == InsertAt(rest, at + 1, e)
<1>1. CASE id \notin Ids(q.slots)
  BY <1>1, SameValue DEF Move
<1>2. CASE id \in Ids(q.slots)
  <2>1. /\ q \in QueueType /\ q.slots \in Seq(Slot) /\ UniqueIds(q.slots)
        /\ q.active \in Ids(q.slots) \cup {NoSlot}
    BY DEF QueueInv, QueueType
  <2>2. /\ rest \in Seq(Slot) /\ UniqueIds(rest)
        /\ Ids(rest) = Ids(q.slots) \ {id}
    BY <1>2, <2>1, RemovedSlot
  <2>3. e \in Slot /\ e.id = id
    BY <1>2, <2>1, SlotIndexProperties
  <2>4. Move(q, id, to, rev) =
            [q EXCEPT !.slots = t, !.active = q.active, !.revision = rev]
    BY <1>2, <2>1 DEF Move, QueueType
  <2> HIDE DEF rest, e
  <2>5. Len(rest) \in Nat
    BY <2>2, LenProperties
  <2>6. at + 1 \in 1..(Len(rest) + 1)
    BY <2>5
  <2> HIDE DEF at
  <2>7. t \in Seq(Slot) /\ UniqueIds(t) /\ Ids(t) = Ids(rest) \cup {e.id}
    BY <2>2, <2>3, <2>6, InsertedSlot
  <2>8. Ids(t) = Ids(q.slots)
    BY <1>2, <2>2, <2>3, <2>7
  <2> HIDE DEF t
  <2> QED BY <2>1, <2>4, <2>7, <2>8, FewerSlots
<1> QED BY <1>1, <1>2

\* A method that only changes items keeps every id in its place.
LEMMA SameIds ==
    ASSUME NEW q, QueueInv(q), NEW rev \in Nat, NEW t \in Seq(Slot),
           DOMAIN t = DOMAIN q.slots,
           \A i \in DOMAIN t : t[i].id = q.slots[i].id,
           NEW r, r = [q EXCEPT !.slots = t, !.revision = rev]
    PROVE  GoodStep(q, r, rev)
<1>1. /\ q \in QueueType /\ UniqueIds(q.slots)
      /\ q.active \in Ids(q.slots) \cup {NoSlot}
  BY DEF QueueInv
<1>2. UniqueIds(t) /\ Ids(t) = Ids(q.slots)
  BY <1>1 DEF UniqueIds, Ids
<1>3. r = [q EXCEPT !.slots = t, !.active = q.active, !.revision = rev]
  BY <1>1 DEF QueueType
<1> HIDE DEF QueueInv
<1> QED BY <1>1, <1>2, <1>3, FewerSlots

\* What one slot's new item makes of the slot list.
LEMMA NewItem ==
    ASSUME NEW s \in Seq(Slot), NEW k \in DOMAIN s, NEW item \in Item
    PROVE  LET t == [s EXCEPT ![k].item = item] IN
           /\ t \in Seq(Slot)
           /\ DOMAIN t = DOMAIN s
           /\ \A i \in DOMAIN t : t[i].id = s[i].id
<1> DEFINE t == [s EXCEPT ![k].item = item]
<1>1. DOMAIN s = 1..Len(s) /\ Len(s) \in Nat
  BY LenProperties
<1>2. \A i \in DOMAIN s : s[i] \in Slot
  BY IdsType
<1>3. DOMAIN t = DOMAIN s
  OBVIOUS
<1>4. \A i \in DOMAIN s : t[i] \in Slot /\ t[i].id = s[i].id
  BY <1>2 DEF Slot
<1>5. t \in [1..Len(s) -> Slot]
  BY <1>1, <1>3, <1>4
<1>6. t \in Seq(Slot)
  BY <1>1, <1>5, SeqDef
<1> QED BY <1>3, <1>4, <1>6

\* update_slot_item
LEMMA UpdateItemGood ==
    ASSUME NEW q, QueueInv(q), NEW rev \in Nat, NEW id, NEW item \in Item
    PROVE  GoodStep(q, UpdateItem(q, id, item, rev), rev)
<1> DEFINE k == SlotIndex(q.slots, id)
           t == [q.slots EXCEPT ![k].item = item]
<1>1. CASE id \notin Ids(q.slots) \/ SlotAt(q.slots, id).item = item
  BY <1>1, SameValue DEF UpdateItem
<1>2. CASE ~ (id \notin Ids(q.slots) \/ SlotAt(q.slots, id).item = item)
  <2>1. q \in QueueType /\ q.slots \in Seq(Slot)
    BY DEF QueueInv, QueueType
  <2>2. k \in DOMAIN q.slots
    BY <1>2, <2>1, SlotIndexProperties
  <2>3. UpdateItem(q, id, item, rev) = [q EXCEPT !.slots = t, !.revision = rev]
    BY <1>2, <2>1 DEF UpdateItem, QueueType
  <2> HIDE DEF k
  <2>4. /\ t \in Seq(Slot) /\ DOMAIN t = DOMAIN q.slots
        /\ \A i \in DOMAIN t : t[i].id = q.slots[i].id
    BY <2>1, <2>2, NewItem
  <2> HIDE DEF t
  <2> QED BY <2>3, <2>4, SameIds
<1> QED BY <1>1, <1>2

\* apply_progress
LEMMA ApplyProgressGood ==
    ASSUME NEW q, QueueInv(q), NEW rev \in Nat, NEW id, NEW p \in Progress
    PROVE  GoodStep(q, ApplyProgress(q, id, p, rev), rev)
<1> DEFINE k == SlotIndex(q.slots, id)
           old == SlotAt(q.slots, id).item
           new == [old EXCEPT !.progress = p]
           early == \/ id \notin Ids(q.slots)
                    \/ old.content \in TwitchContents
                    \/ old.progress = p
           t == [q.slots EXCEPT ![k].item = new]
<1>1. CASE early
  BY <1>1, SameValue DEF ApplyProgress
<1>2. CASE ~ early
  <2>1. q \in QueueType /\ q.slots \in Seq(Slot)
    BY DEF QueueInv, QueueType
  <2>2. k \in DOMAIN q.slots /\ SlotAt(q.slots, id) \in Slot
    BY <1>2, <2>1, SlotIndexProperties
  <2>3. new \in Item
    BY <1>2, <2>2 DEF Slot, Item
  <2>4. t = [q.slots EXCEPT ![k].item.progress = p]
    BY <2>1, <2>2 DEF SlotAt
  <2>5. ApplyProgress(q, id, p, rev) =
            [q EXCEPT !.slots = [q.slots EXCEPT ![k].item.progress = p],
                      !.revision = rev]
    BY <1>2, <2>1 DEF ApplyProgress, QueueType
  <2> HIDE DEF k, new
  <2>6. /\ t \in Seq(Slot) /\ DOMAIN t = DOMAIN q.slots
        /\ \A i \in DOMAIN t : t[i].id = q.slots[i].id
    BY <2>1, <2>2, <2>3, NewItem
  <2> HIDE DEF t
  <2> QED BY <2>4, <2>5, <2>6, SameIds
<1> QED BY <1>1, <1>2

\* merge_fetched_slot keeps the slot's id.
LEMMA MergeFetchedSlot ==
    ASSUME NEW slot \in Slot, NEW fetched \in EmbyItem, NEW active
    PROVE  /\ MergeFetched(slot, fetched, active) \in Slot
           /\ MergeFetched(slot, fetched, active).id = slot.id
<1>1. fetched \in Item
  BY ContentsAssumption DEF EmbyItem, Item
<1>2. [fetched EXCEPT !.progress = slot.item.progress] \in Item
  <2>1. slot.item.progress \in Progress
    BY DEF Slot, Item
  <2> QED BY <2>1, ContentsAssumption DEF EmbyItem, Item
<1> QED BY <1>1, <1>2 DEF MergeFetched, Slot

\* merge_refresh_for_slots
LEMMA MergeRefreshForSlotsGood ==
    ASSUME NEW q, QueueInv(q), NEW rev \in Nat, NEW fetched \in Fetches
    PROVE  GoodStep(q, MergeRefreshForSlots(q, fetched, rev), rev)
<1> DEFINE hit(i) == /\ q.slots[i].id \in DOMAIN fetched
                     /\ q.slots[i].item.content = fetched[q.slots[i].id].content
           t == [i \in DOMAIN q.slots |->
                    IF hit(i)
                    THEN MergeFetched(q.slots[i], fetched[q.slots[i].id], q.active)
                    ELSE q.slots[i]]
<1>1. q \in QueueType /\ q.slots \in Seq(Slot)
  BY DEF QueueInv, QueueType
<1>2. CASE t = q.slots
  BY <1>2, SameValue DEF MergeRefreshForSlots
<1>3. CASE t # q.slots
  <2>1. MergeRefreshForSlots(q, fetched, rev) =
            [q EXCEPT !.slots = t, !.revision = rev]
    BY <1>3 DEF MergeRefreshForSlots
  <2>2. ASSUME NEW i \in DOMAIN q.slots
        PROVE  t[i] \in Slot /\ t[i].id = q.slots[i].id
    <3>1. q.slots[i] \in Slot
      BY <1>1, IdsType
    <3>2. CASE hit(i)
      <4>1. fetched[q.slots[i].id] \in EmbyItem
        BY <3>2, FetchesAssumption
      <4>2. t[i] = MergeFetched(q.slots[i], fetched[q.slots[i].id], q.active)
        BY <3>2
      <4> HIDE DEF t
      <4> QED BY <3>1, <4>1, <4>2, MergeFetchedSlot
    <3>3. CASE ~ hit(i)
      BY <3>1, <3>3
    <3> QED BY <3>2, <3>3
  <2>3. DOMAIN t = DOMAIN q.slots
    OBVIOUS
  <2> HIDE DEF t
  <2>4. DOMAIN q.slots = 1..Len(q.slots) /\ Len(q.slots) \in Nat
    BY <1>1, LenProperties
  <2>5. t \in Seq(Slot)
    <3>1. t \in [1..Len(q.slots) -> Slot]
      BY <2>2, <2>3, <2>4 DEF t
    <3> QED BY <2>4, <3>1, SeqDef
  <2> QED BY <2>1, <2>2, <2>3, <2>5, SameIds
<1> QED BY <1>2, <1>3

\* merge_refresh: the slots that stay come in their old order.
LEMMA MergeRefreshGood ==
    ASSUME QueueInv(queue), Rev \in Nat, NEW list \in FetchLists,
           NEW pick \in [Found(list) -> DOMAIN list],
           NEW at \in [1..Cardinality(Staying(list)) -> Staying(list)],
           Increasing(at)
    PROVE  GoodStep(queue, MergeRefresh(list, pick, at), Rev)
<1> DEFINE s == queue.slots
           merged == [i \in DOMAIN s |->
                        IF i \in Found(list)
                        THEN MergeFetched(s[i], list[pick[i]], queue.active)
                        ELSE s[i]]
           t == [k \in DOMAIN at |-> merged[at[k]]]
           a == IF queue.active \in Ids(t) THEN queue.active ELSE NoSlot
           n == Cardinality(Staying(list))
<1>1. queue \in QueueType /\ s \in Seq(Slot) /\ UniqueIds(s)
  BY DEF QueueInv, QueueType
<1>2. CASE t = s
  BY <1>2, SameValue DEF MergeRefresh
<1>3. CASE t # s
  <2>1. MergeRefresh(list, pick, at) =
            [queue EXCEPT !.slots = t, !.active = a, !.revision = Rev]
    BY <1>1, <1>3 DEF MergeRefresh, QueueType
  <2>2. n \in Nat
    <3>1. DOMAIN s = 1..Len(s) /\ Len(s) \in Nat
      BY <1>1, LenProperties
    <3>2. Staying(list) \subseteq DOMAIN s
      BY DEF Staying
    <3>3. IsFiniteSet(1..Len(s))
      BY <3>1, FS_Interval
    <3>4. Staying(list) \in SUBSET (1..Len(s))
      BY <3>1, <3>2
    <3>5. IsFiniteSet(Staying(list))
      BY ONLY <3>3, <3>4, FS_Subset
    <3> QED BY <3>5, FS_CardinalityType
  <2>3. \A k \in 1..n : at[k] \in DOMAIN s
    BY DEF Staying
  <2>4. ASSUME NEW i \in DOMAIN s
        PROVE  merged[i] \in Slot /\ merged[i].id = s[i].id
    <3>1. s[i] \in Slot
      BY <1>1, IdsType
    <3>2. CASE i \in Found(list)
      <4>1. list[pick[i]] \in EmbyItem
        BY <3>2, FetchListsAssumption, ElementOfSeq, LenProperties
      <4>2. merged[i] = MergeFetched(s[i], list[pick[i]], queue.active)
        BY <3>2
      <4> HIDE DEF merged, s
      <4> QED BY <3>1, <4>1, <4>2, MergeFetchedSlot
    <3>3. CASE i \notin Found(list)
      BY <3>1, <3>3
    <3> QED BY <3>2, <3>3
  <2> HIDE DEF merged, s, n
  <2>5. \A k \in 1..n : t[k] \in Slot /\ t[k].id = s[at[k]].id
    BY <2>3, <2>4 DEF n
  <2>6. DOMAIN t = 1..n
    BY DEF n
  <2>7. t \in Seq(Slot)
    <3>1. t \in [1..n -> Slot]
      BY <2>5, <2>6
    <3> HIDE DEF t
    <3> QED BY <2>2, <3>1, SeqDef
  <2>8. \A i, j \in 1..n : at[i] = at[j] => i = j
    <3>1. DOMAIN at = 1..n
      BY DEF n
    <3>2. \A i \in 1..n : at[i] \in Int
      BY <1>1, <2>3, LenProperties
    <3> QED BY <2>2, <3>1, <3>2 DEF Increasing
  <2> HIDE DEF t
  <2>9. at \in [DOMAIN t -> DOMAIN s]
    BY <2>3, <2>6 DEF n
  <2>10. UniqueIds(t) /\ Ids(t) \subseteq Ids(s)
    <3>1. \A k \in DOMAIN t : t[k].id = s[at[k]].id
      BY <2>5, <2>6
    <3>2. \A i, j \in DOMAIN t : at[i] = at[j] => i = j
      BY <2>6, <2>8
    <3> QED BY ONLY <1>1, <2>7, <2>9, <3>1, <3>2, SelectedSlots, Zenon
  <2> QED BY <2>1, <2>7, <2>10, FewerSlots DEF s
<1> QED BY <1>2, <1>3

-----------------------------------------------------------------------------
(* The inductive invariant of the state machine.                           *)

\* Ids below the allocator, and a revision its mint has already issued: what
\* makes a freshly allocated id new and a freshly minted revision fresh.
IInv ==
    /\ TypeOK
    /\ SlotIdentity
    /\ IdsNeverReused
    /\ \A id \in Ids(queue.slots) \cup retired \cup reserved : id < queue.next
    /\ queue.revision < mints[queue.mint]

\* The constructors establish the inductive invariant.
LEMMA InitIInv == Init => IInv
<1> SUFFICES ASSUME Init PROVE IInv
  OBVIOUS
<1>1. PICK slots \in Snapshots, m \in Mints :
        \E next \in NextSlotIds(slots), active \in Ids(slots) \cup {NoSlot} :
            /\ queue = [slots |-> slots, active |-> active, revision |-> 0,
                        mint |-> m, next |-> next]
            /\ mints = [k \in Mints |-> IF k = m THEN 1 ELSE 0]
  BY DEF Init
<1>2. PICK next \in NextSlotIds(slots), active \in Ids(slots) \cup {NoSlot} :
            /\ queue = [slots |-> slots, active |-> active, revision |-> 0,
                        mint |-> m, next |-> next]
            /\ mints = [k \in Mints |-> IF k = m THEN 1 ELSE 0]
  BY <1>1
<1>3. slots \in Seq(Slot) /\ UniqueIds(slots) /\ Ids(slots) \subseteq Nat
  BY SnapshotsAssumption, IdsType
<1>4. next \in Nat /\ \A id \in Ids(slots) : id < next
  BY <1>3 DEF NextSlotIds
<1>5. reserved = {} /\ retired = {}
  BY DEF Init
<1>6. queue \in QueueType
  BY <1>2, <1>3, <1>4 DEF QueueType, SlotId
<1>7. TypeOK
  BY <1>2, <1>5, <1>6 DEF TypeOK
<1> QED BY <1>2, <1>3, <1>4, <1>5, <1>7 DEF IInv, SlotIdentity, IdsNeverReused

\* The invariant of the state makes the queue value good.
LEMMA IInvQueue ==
    ASSUME IInv
    PROVE  QueueInv(queue) /\ Rev \in Nat
BY DEF IInv, TypeOK, QueueInv, QueueType, SlotIdentity, Rev

\* Committing a good step keeps the invariant and is a fresh revision.
LEMMA CommitGood ==
    ASSUME IInv, NEW r, GoodStep(queue, r, Rev), Commit(r), UNCHANGED reserved
    PROVE  /\ IInv'
           /\ Content(queue') # Content(queue)
                => queue'.revision >= mints[queue'.mint]
<1> DEFINE old == Ids(queue.slots)
           new == Ids(r.slots)
<1>1. /\ QueueInv(queue) /\ Rev \in Nat /\ queue.revision < Rev
      /\ queue \in QueueType /\ queue.next \in Nat /\ queue.mint \in Mints
  BY IInvQueue DEF IInv, Rev, QueueInv, QueueType
<1>2. /\ QueueInv(r) /\ r \in QueueType /\ r.slots \in Seq(Slot)
      /\ r.next \in Nat /\ r.next >= queue.next
      /\ r.mint = queue.mint /\ r.revision \in Nat
  BY DEF GoodStep, QueueInv, QueueType
<1>3. /\ queue' = r /\ reserved' = reserved
      /\ retired' = retired \cup (old \ new)
      /\ mints' = IF r.revision = Rev
                  THEN [mints EXCEPT ![queue.mint] = @ + 1] ELSE mints
  BY DEF Commit
<1>4. /\ mints \in [Mints -> Nat] /\ reserved \subseteq Nat
      /\ retired \subseteq Nat /\ old \subseteq Nat /\ new \subseteq Nat
  BY <1>2, IdsType DEF IInv, TypeOK, QueueType, SlotId
<1>5. mints' \in [Mints -> Nat]
  BY <1>1, <1>3, <1>4
<1>6. TypeOK'
  BY <1>2, <1>3, <1>4, <1>5 DEF TypeOK, SlotId
<1>7. SlotIdentity'
  BY <1>2, <1>3 DEF SlotIdentity, QueueInv
<1>8. \A id \in new : id \in old \/ id >= queue.next
  BY DEF GoodStep
<1>9. \A id \in old \cup retired \cup reserved : id < queue.next
  BY DEF IInv
<1>10. /\ retired \cap old = {} /\ reserved \cap (retired \cup old) = {}
  BY DEF IInv, IdsNeverReused
<1> HIDE DEF old, new
<1>11. /\ (retired \cup (old \ new)) \cap new = {}
       /\ reserved \cap (retired \cup (old \ new) \cup new) = {}
  BY <1>1, <1>4, <1>8, <1>9, <1>10
<1>12. IdsNeverReused'
  BY <1>3, <1>11 DEF IdsNeverReused, new
<1>13. \A id \in new \cup (retired \cup (old \ new)) \cup reserved : id < r.next
  <2>1. \A id \in new : id < r.next
    BY <1>2 DEF QueueInv, new
  <2> QED BY <1>1, <1>2, <1>4, <1>9, <2>1
<1>14. (\A id \in Ids(queue.slots) \cup retired \cup reserved : id < queue.next)'
  BY <1>3, <1>13 DEF new
<1>15. \/ r.revision = Rev
       \/ r.revision = queue.revision /\ Content(r) = Content(queue)
  BY DEF GoodStep
<1>16. (queue.revision < mints[queue.mint])'
  BY <1>1, <1>2, <1>3, <1>4, <1>15 DEF Rev
<1>17. Content(queue') # Content(queue) => queue'.revision >= mints[queue'.mint]
  BY <1>1, <1>2, <1>3, <1>15 DEF Rev
<1> QED BY <1>6, <1>7, <1>12, <1>14, <1>16, <1>17 DEF IInv

\* What every step owes: the invariant, and a fresh revision for a change.
StepOwes ==
    /\ IInv'
    /\ Content(queue') # Content(queue)
        => queue'.revision >= mints[queue'.mint]

\* append_with_id of a reserved id, which is neither live nor retired.
LEMMA AppendReservedGood ==
    ASSUME IInv, AppendReserved
    PROVE  StepOwes
<1>1. PICK id \in reserved, item \in Item :
        /\ Commit(AppendWithId(queue, id, item, Rev))
        /\ reserved' = reserved \ {id}
  BY DEF AppendReserved
<1> DEFINE s == queue.slots
           e == [id |-> id, item |-> item]
           t == Append(s, e)
           r == AppendWithId(queue, id, item, Rev)
<1>2. /\ queue \in QueueType /\ s \in Seq(Slot) /\ UniqueIds(s)
      /\ queue.next \in Nat /\ queue.mint \in Mints /\ Rev \in Nat
      /\ mints \in [Mints -> Nat] /\ reserved \subseteq Nat /\ retired \subseteq Nat
      /\ Ids(s) \subseteq Nat
      /\ queue.active \in Ids(s) \cup {NoSlot}
  BY IInvQueue, IdsType DEF IInv, TypeOK, SlotIdentity, QueueType, SlotId
<1>3. id \in Nat /\ id < queue.next /\ id \notin Ids(s)
  BY <1>2 DEF IInv, IdsNeverReused
<1>4. e \in Slot /\ e.id = id
  BY <1>3 DEF Slot, SlotId
<1>5. r = [queue EXCEPT !.slots = t, !.revision = Rev]
  <2>1. ~ (id + 1 > queue.next)
    BY <1>2, <1>3
  <2>2. r = [queue EXCEPT !.slots = t, !.next = queue.next, !.revision = Rev]
    BY <2>1 DEF AppendWithId
  <2> HIDE DEF r, t
  <2> QED BY <1>2, <2>2 DEF QueueType
<1> HIDE DEF e
<1>6. /\ t \in Seq(Slot) /\ Len(t) = Len(s) + 1 /\ Len(s) \in Nat
      /\ \A j \in 1..Len(s) : t[j] = s[j]
      /\ t[Len(s) + 1] = e
  BY <1>2, <1>4, AppendProperties, LenProperties
<1>7. DOMAIN t = 1..(Len(s) + 1) /\ DOMAIN s = 1..Len(s)
  BY <1>2, <1>6, LenProperties
<1> HIDE DEF t, s
<1>8. Ids(t) = Ids(s) \cup {id}
  <2>1. \A j \in 1..(Len(s) + 1) : j \in 1..Len(s) \/ j = Len(s) + 1
    BY <1>6
  <2>2. \A j \in 1..Len(s) : j \in 1..(Len(s) + 1)
    BY <1>6
  <2>3. Len(s) + 1 \in 1..(Len(s) + 1)
    BY <1>6
  <2> QED BY <1>4, <1>6, <1>7, <2>1, <2>2, <2>3 DEF Ids
<1>9. UniqueIds(t)
  <2> SUFFICES ASSUME NEW i \in 1..(Len(s) + 1), NEW j \in 1..(Len(s) + 1),
                      t[i].id = t[j].id
               PROVE  i = j
    BY <1>7 DEF UniqueIds
  <2>1. CASE i \in 1..Len(s) /\ j \in 1..Len(s)
    BY <1>2, <1>6, <1>7, <2>1 DEF UniqueIds
  <2>2. CASE i = Len(s) + 1 /\ j \in 1..Len(s)
    BY <1>3, <1>4, <1>6, <1>7, <2>2 DEF Ids
  <2>3. CASE j = Len(s) + 1 /\ i \in 1..Len(s)
    BY <1>3, <1>4, <1>6, <1>7, <2>3 DEF Ids
  <2>4. CASE i = Len(s) + 1 /\ j = Len(s) + 1
    BY <2>4
  <2> QED BY <1>6, <2>1, <2>2, <2>3, <2>4
<1>10. /\ r \in QueueType /\ r.slots = t /\ r.active = queue.active
       /\ r.revision = Rev /\ r.next = queue.next /\ r.mint = queue.mint
  BY <1>2, <1>5, <1>6 DEF QueueType
<1> HIDE DEF r
<1>11. /\ queue' = r
       /\ mints' = [mints EXCEPT ![queue.mint] = @ + 1]
       /\ retired' = retired \cup (Ids(s) \ Ids(t))
       /\ reserved' = reserved \ {id}
  BY <1>1, <1>10 DEF Commit, r, s
<1>12. retired' = retired
  BY <1>8, <1>11
<1>13. TypeOK'
  <2>1. mints' \in [Mints -> Nat]
    BY <1>2, <1>11
  <2>2. reserved' \subseteq Nat /\ retired' \subseteq Nat
    BY <1>2, <1>11, <1>12
  <2>3. queue' \in QueueType
    BY <1>10, <1>11
  <2> QED BY <2>1, <2>2, <2>3 DEF TypeOK, SlotId
<1>14. SlotIdentity'
  BY <1>2, <1>8, <1>9, <1>10, <1>11 DEF SlotIdentity
<1>15. /\ retired \cap Ids(s) = {} /\ reserved \cap (retired \cup Ids(s)) = {}
  BY DEF IInv, IdsNeverReused, s
<1>16. IdsNeverReused'
  <2>1. retired \cap Ids(t) = {} /\ (reserved \ {id}) \cap (retired \cup Ids(t)) = {}
    BY <1>1, <1>8, <1>15
  <2> QED BY <1>10, <1>11, <1>12, <2>1 DEF IdsNeverReused
<1>17. \A i \in Ids(t) \cup retired \cup (reserved \ {id}) : i < queue.next
  <2>1. \A i \in Ids(s) \cup retired \cup reserved : i < queue.next
    BY DEF IInv, s
  <2> QED BY <1>3, <1>8, <2>1
<1>18. (\A i \in Ids(queue.slots) \cup retired \cup reserved : i < queue.next)'
  BY <1>10, <1>11, <1>12, <1>17
<1>19. /\ (queue.revision < mints[queue.mint])'
       /\ queue'.revision >= mints[queue'.mint]
  BY <1>2, <1>10, <1>11 DEF Rev
<1> QED BY <1>13, <1>14, <1>16, <1>18, <1>19 DEF StepOwes, IInv

\* mint_slot_id reserves an id no slot has carried.
LEMMA MintSlotIdGood ==
    ASSUME IInv, MintSlotId
    PROVE  StepOwes
<1> DEFINE old == Ids(queue.slots)
<1>1. /\ queue \in QueueType /\ queue.next \in Nat /\ reserved \subseteq Nat
      /\ retired \subseteq Nat /\ old \subseteq Nat
  BY IdsType DEF IInv, TypeOK, QueueType, SlotId
<1>2. /\ queue' = [queue EXCEPT !.next = @ + 1]
      /\ reserved' = reserved \cup {queue.next}
      /\ mints' = mints /\ retired' = retired
  BY DEF MintSlotId
<1>3. /\ queue' \in QueueType /\ queue'.slots = queue.slots
      /\ queue'.active = queue.active /\ queue'.revision = queue.revision
      /\ queue'.mint = queue.mint /\ queue'.next = queue.next + 1
  BY <1>1, <1>2 DEF QueueType
<1>4. \A id \in old \cup retired \cup reserved : id < queue.next
  BY DEF IInv
<1>5. TypeOK'
  BY <1>1, <1>2, <1>3 DEF TypeOK, IInv, SlotId
<1>6. SlotIdentity'
  BY <1>3 DEF SlotIdentity, IInv
<1>7. IdsNeverReused'
  <2>1. queue.next \notin old \cup retired
    BY <1>1, <1>4
  <2> QED BY <1>2, <1>3, <2>1 DEF IInv, IdsNeverReused
<1>8. \A id \in old \cup retired \cup (reserved \cup {queue.next}) : id < queue.next + 1
  <2> HIDE DEF old
  <2>1. ASSUME NEW id \in old \cup retired \cup reserved
        PROVE  id < queue.next + 1
    <3>1. id \in Nat /\ id < queue.next
      BY <1>1, <1>4
    <3> QED BY <1>1, <3>1
  <2>2. queue.next < queue.next + 1
    BY <1>1
  <2> QED BY <2>1, <2>2
<1>9. (\A id \in Ids(queue.slots) \cup retired \cup reserved : id < queue.next)'
  BY <1>2, <1>3, <1>8
<1> QED BY <1>2, <1>3, <1>5, <1>6, <1>7, <1>9 DEF StepOwes, IInv, Content

\* Every action is one of the methods above.
LEMMA NextGood ==
    ASSUME IInv, Next
    PROVE  StepOwes
<1>0. QueueInv(queue) /\ Rev \in Nat
  BY IInvQueue
<1>1. ASSUME NEW r, GoodStep(queue, r, Rev), Commit(r) /\ UNCHANGED reserved
      PROVE  StepOwes
  BY <1>1, CommitGood DEF StepOwes
<1>2. Len(queue.slots) \in Nat
  BY <1>0, LenProperties DEF QueueInv, QueueType
<1>3. CASE SetActiveSlot
  BY <1>0, <1>1, <1>3, SetActiveGood DEF SetActiveSlot
<1>4. CASE ClearActiveSlot
  BY <1>0, <1>1, <1>4, ClearActiveGood DEF ClearActiveSlot
<1>5. CASE InsertItem
  <2>1. \A i \in 0..Len(queue.slots) : i \in Nat
    BY <1>2
  <2> QED BY <1>0, <1>1, <1>5, <2>1, InsertGood DEF InsertItem
<1>6. CASE MintSlotId
  BY <1>6, MintSlotIdGood
<1>7. CASE AppendReserved
  BY <1>7, AppendReservedGood
<1>8. CASE ReplaceItems
  BY <1>0, <1>1, <1>8, ReplaceGood, ItemListsAssumption DEF ReplaceItems
<1>9. CASE ClearSlots
  BY <1>0, <1>1, <1>9, ClearGood DEF ClearSlots
<1>10. CASE TruncateSlots
  <2>1. \A i \in 0..Len(queue.slots) : i \in Nat
    BY <1>2
  <2> QED BY <1>0, <1>1, <1>10, <2>1, TruncateGood DEF TruncateSlots
<1>11. CASE RemoveSlot
  BY <1>0, <1>1, <1>11, RemoveInactiveGood DEF RemoveSlot
<1>12. CASE RemoveActiveSlotConfirmed
  BY <1>0, <1>1, <1>12, RemoveConfirmedGood DEF RemoveActiveSlotConfirmed
<1>13. CASE ConsumeSlot
  BY <1>0, <1>1, <1>13, RemoveExistingGood DEF ConsumeSlot
<1>14. CASE ReorderSlots
  BY <1>0, <1>1, <1>14, ReorderGood DEF ReorderSlots
<1>15. CASE MoveSlot
  <2>1. \A i \in 0..Len(queue.slots) : i \in Nat
    BY <1>2
  <2> QED BY <1>0, <1>1, <1>15, <2>1, MoveGood DEF MoveSlot
<1>16. CASE UpdateSlotItem
  BY <1>0, <1>1, <1>16, UpdateItemGood DEF UpdateSlotItem
<1>17. CASE ApplySlotProgress
  BY <1>0, <1>1, <1>17, ApplyProgressGood DEF ApplySlotProgress
<1>18. CASE RefreshSlots
  BY <1>0, <1>1, <1>18, MergeRefreshForSlotsGood DEF RefreshSlots
<1>19. CASE RefreshAll
  BY <1>0, <1>1, <1>19, MergeRefreshGood DEF RefreshAll
<1>20. CASE RebaseRevisionMint
  <2>1. PICK m \in Mints :
            /\ queue' = [queue EXCEPT !.revision = mints[m], !.mint = m]
            /\ mints' = [mints EXCEPT ![m] = @ + 1]
            /\ reserved' = reserved /\ retired' = retired
    BY <1>20 DEF RebaseRevisionMint
  <2>2. queue \in QueueType /\ mints \in [Mints -> Nat]
    BY DEF IInv, TypeOK
  <2>3. /\ queue' \in QueueType /\ queue'.slots = queue.slots
        /\ queue'.active = queue.active /\ queue'.next = queue.next
        /\ queue'.revision = mints[m] /\ queue'.mint = m
    BY <2>1, <2>2 DEF QueueType
  <2>4. mints' \in [Mints -> Nat] /\ mints[m] < mints'[m]
    BY <2>1, <2>2
  <2> QED BY <2>1, <2>3, <2>4
          DEF StepOwes, IInv, TypeOK, SlotIdentity, IdsNeverReused, Content
<1>21. CASE OtherQueueMints
  <2>1. PICK m \in Mints :
            /\ mints' = [mints EXCEPT ![m] = @ + 1]
            /\ queue' = queue /\ reserved' = reserved /\ retired' = retired
    BY <1>21 DEF OtherQueueMints
  <2>2. queue \in QueueType /\ mints \in [Mints -> Nat]
    BY DEF IInv, TypeOK
  <2>3. queue.mint \in Mints /\ queue.revision \in Nat
    BY <2>2 DEF QueueType
  <2>4. mints' \in [Mints -> Nat] /\ mints[queue.mint] <= mints'[queue.mint]
    BY <2>1, <2>2, <2>3
  <2>5. queue.revision < mints'[queue.mint]
    BY <2>2, <2>3, <2>4 DEF IInv
  <2> QED BY <2>1, <2>4, <2>5
          DEF StepOwes, IInv, TypeOK, SlotIdentity, IdsNeverReused, Content
<1> QED
  BY <1>3, <1>4, <1>5, <1>6, <1>7, <1>8, <1>9, <1>10, <1>11, <1>12, <1>13,
     <1>14, <1>15, <1>16, <1>17, <1>18, <1>19, <1>20, <1>21 DEF Next

\* The invariant holds throughout.
LEMMA IInvariant == Spec => []IInv
<1>1. IInv /\ [Next]_vars => IInv'
  <2>1. CASE Next
    BY <2>1, NextGood DEF StepOwes
  <2>2. CASE UNCHANGED vars
    BY <2>2 DEF vars, IInv, TypeOK, SlotIdentity, IdsNeverReused
  <2> QED BY <2>1, <2>2
<1> QED BY InitIInv, <1>1, PTL DEF Spec

-----------------------------------------------------------------------------
\* Every reachable queue value, allocator and mint is of its type, whatever
\* sequence of the methods of PlaybackQueue produced it.
THEOREM TypeCorrect == Spec => []TypeOK
<1>1. IInv => TypeOK
  BY DEF IInv
<1> QED BY IInvariant, <1>1, PTL

\* No sequence of edits, moves, shuffles, refreshes and adoptions gives two
\* occurrences one id or leaves the active marker on a slot that is gone.
THEOREM SlotIdentityHolds == Spec => []SlotIdentity
<1>1. IInv => SlotIdentity
  BY DEF IInv
<1> QED BY IInvariant, <1>1, PTL

\* A slot id that left the queue, or is reserved, never names another slot:
\* neither replace nor append_with_id nor allocate_slot_id hands it out again.
THEOREM IdsAreNeverReused == Spec => []IdsNeverReused
<1>1. IInv => IdsNeverReused
  BY DEF IInv
<1> QED BY IInvariant, <1>1, PTL

\* Every visible change of the queue carries a revision its mint had not
\* issued, so a reader that holds an older revision can tell.
THEOREM RevisionNamesContent == Spec => RevisionFresh
<1>1. IInv /\ [Next]_vars =>
        [Content(queue') # Content(queue)
            => queue'.revision >= mints[queue'.mint]]_vars
  BY NextGood DEF StepOwes
<1> QED BY IInvariant, <1>1, PTL DEF Spec, RevisionFresh

-----------------------------------------------------------------------------
(* A refresh and the active slot.                                          *)

\* The slot e takes the place of d after a refresh: it has its id, its
\* content and, if it is active, the progress played here.
Refreshed(d, e, active) ==
    /\ e.id = d.id /\ e.item.content = d.item.content
    /\ d.id = active => e.item.progress = d.item.progress

\* merge_fetched_slot with an item of the same content
LEMMA MergeFetchedRefreshes ==
    ASSUME NEW slot \in Slot, NEW fetched \in EmbyItem, NEW active,
           fetched.content = slot.item.content
    PROVE  Refreshed(slot, MergeFetched(slot, fetched, active), active)
<1> DEFINE kept == [fetched EXCEPT !.progress = slot.item.progress]
           merged == MergeFetched(slot, fetched, active)
<1>1. kept.content = fetched.content /\ kept.progress = slot.item.progress
  BY DEF EmbyItem
<1>2. merged.id = slot.id
  BY MergeFetchedSlot
<1>3. merged.item = IF slot.id = active THEN kept ELSE fetched
  BY DEF MergeFetched, Slot
<1> QED BY <1>1, <1>2, <1>3 DEF Refreshed

\* A refreshed list that has the active slot keeps what the property asks.
LEMMA ActiveKept ==
    ASSUME IInv, IInv', queue'.active = queue.active,
           \A k \in DOMAIN queue'.slots : \E i \in DOMAIN queue.slots :
                Refreshed(queue.slots[i], queue'.slots[k], queue.active),
           queue.active # NoSlot => queue.active \in Ids(queue'.slots)
    PROVE  queue.active # NoSlot =>
            /\ queue.active \in Ids(queue'.slots)
            /\ LET old == SlotAt(queue.slots, queue.active).item
                   new == SlotAt(queue'.slots, queue.active).item
               IN new.content = old.content /\ new.progress = old.progress
<1> SUFFICES ASSUME queue.active # NoSlot
             PROVE  LET old == SlotAt(queue.slots, queue.active).item
                        new == SlotAt(queue'.slots, queue.active).item
                    IN new.content = old.content /\ new.progress = old.progress
  OBVIOUS
<1> DEFINE s == queue.slots
           t == queue'.slots
           id == queue.active
<1>1. /\ s \in Seq(Slot) /\ UniqueIds(s) /\ id \in Ids(s)
      /\ t \in Seq(Slot) /\ UniqueIds(t) /\ id \in Ids(t)
  BY DEF IInv, TypeOK, QueueType, SlotIdentity
<1>2. /\ SlotIndex(s, id) \in DOMAIN s /\ s[SlotIndex(s, id)].id = id
      /\ SlotIndex(t, id) \in DOMAIN t /\ t[SlotIndex(t, id)].id = id
  BY <1>1 DEF SlotIndex, Ids
<1>3. PICK i \in DOMAIN s : Refreshed(s[i], t[SlotIndex(t, id)], id)
  BY <1>2
<1>4. i = SlotIndex(s, id)
  BY <1>1, <1>2, <1>3 DEF Refreshed, UniqueIds
<1> QED BY <1>2, <1>3, <1>4 DEF SlotAt, Refreshed

\* merge_refresh_for_slots
LEMMA RefreshSlotsKeepsActive ==
    ASSUME IInv, IInv', RefreshSlots
    PROVE  /\ queue'.active = queue.active
           /\ \A k \in DOMAIN queue'.slots : \E i \in DOMAIN queue.slots :
                Refreshed(queue.slots[i], queue'.slots[k], queue.active)
           /\ queue.active # NoSlot => queue.active \in Ids(queue'.slots)
<1>1. PICK f \in Fetches : queue' = MergeRefreshForSlots(queue, f, Rev)
  BY DEF RefreshSlots, Commit
<1> DEFINE s == queue.slots
           hit(i) == s[i].id \in DOMAIN f /\ s[i].item.content = f[s[i].id].content
           merged == [i \in DOMAIN s |->
                        IF hit(i) THEN MergeFetched(s[i], f[s[i].id], queue.active) ELSE s[i]]
<1>2. s \in Seq(Slot) /\ queue \in QueueType /\ queue.active \in Ids(s) \cup {NoSlot}
  BY DEF IInv, TypeOK, QueueType, SlotIdentity
<1>3. queue'.active = queue.active /\ queue'.slots = merged
  BY <1>1, <1>2 DEF MergeRefreshForSlots, QueueType
<1>4. ASSUME NEW i \in DOMAIN s PROVE Refreshed(s[i], merged[i], queue.active)
  <2>1. s[i] \in Slot
    BY <1>2, IdsType
  <2>2. CASE hit(i)
    <3>1. f[s[i].id] \in EmbyItem /\ f[s[i].id].content = s[i].item.content
      BY <2>2, FetchesAssumption
    <3>2. merged[i] = MergeFetched(s[i], f[s[i].id], queue.active)
      BY <2>2
    <3> HIDE DEF merged, s
    <3> QED BY <2>1, <3>1, <3>2, MergeFetchedRefreshes
  <2>3. CASE ~ hit(i)
    BY <2>3 DEF Refreshed
  <2> QED BY <2>2, <2>3
<1>5. DOMAIN merged = DOMAIN s
  OBVIOUS
<1> HIDE DEF merged
<1> QED BY <1>2, <1>3, <1>4, <1>5 DEF Refreshed, Ids

\* merge_refresh: the active slot is one of those that stay, and each of
\* these has its place in the new list.
LEMMA RefreshAllKeepsActive ==
    ASSUME IInv, IInv', RefreshAll
    PROVE  /\ queue'.active = queue.active
           /\ \A k \in DOMAIN queue'.slots : \E i \in DOMAIN queue.slots :
                Refreshed(queue.slots[i], queue'.slots[k], queue.active)
           /\ queue.active # NoSlot => queue.active \in Ids(queue'.slots)
<1>1. PICK list \in FetchLists :
        \E pick \in [Found(list) -> DOMAIN list],
           at \in [1..Cardinality(Staying(list)) -> Staying(list)] :
            /\ \A i \in Found(list) : IsMatch(queue.slots, list, i, pick[i])
            /\ Increasing(at)
            /\ queue' = MergeRefresh(list, pick, at)
  BY DEF RefreshAll, Commit
<1>2. PICK pick \in [Found(list) -> DOMAIN list],
           at \in [1..Cardinality(Staying(list)) -> Staying(list)] :
            /\ \A i \in Found(list) : IsMatch(queue.slots, list, i, pick[i])
            /\ Increasing(at)
            /\ queue' = MergeRefresh(list, pick, at)
  BY <1>1
<1> DEFINE s == queue.slots
           n == Cardinality(Staying(list))
           merged == [i \in DOMAIN s |->
                        IF i \in Found(list)
                        THEN MergeFetched(s[i], list[pick[i]], queue.active)
                        ELSE s[i]]
           t == [k \in DOMAIN at |-> merged[at[k]]]
<1>3. /\ s \in Seq(Slot) /\ queue \in QueueType /\ queue.active \in Ids(s) \cup {NoSlot}
      /\ DOMAIN s = 1..Len(s) /\ Len(s) \in Nat
  <2>1. s \in Seq(Slot) /\ queue \in QueueType /\ queue.active \in Ids(s) \cup {NoSlot}
    BY DEF IInv, TypeOK, QueueType, SlotIdentity
  <2> QED BY <2>1, LenProperties
<1>4. ASSUME NEW i \in DOMAIN s PROVE Refreshed(s[i], merged[i], queue.active)
  <2>1. s[i] \in Slot
    BY <1>3, IdsType
  <2>2. CASE i \in Found(list)
    <3>1. list[pick[i]] \in EmbyItem
      BY <2>2, FetchListsAssumption, ElementOfSeq, LenProperties
    <3>2. list[pick[i]].content = s[i].item.content
      BY <1>2, <2>2 DEF IsMatch
    <3>3. merged[i] = MergeFetched(s[i], list[pick[i]], queue.active)
      BY <2>2
    <3> HIDE DEF merged, s
    <3> QED BY <2>1, <3>1, <3>2, <3>3, MergeFetchedRefreshes
  <2>3. CASE i \notin Found(list)
    BY <2>3 DEF Refreshed
  <2> QED BY <2>2, <2>3
<1>5. /\ Staying(list) \subseteq DOMAIN s /\ IsFiniteSet(Staying(list)) /\ n \in Nat
      /\ \A i \in DOMAIN s : s[i].id = queue.active => i \in Staying(list)
  <2>1. /\ Staying(list) \in SUBSET (1..Len(s))
        /\ \A i \in DOMAIN s : s[i].id = queue.active => i \in Staying(list)
    BY <1>3 DEF Staying
  <2>2. IsFiniteSet(1..Len(s))
    BY <1>3, FS_Interval
  <2>3. IsFiniteSet(Staying(list))
    BY ONLY <2>1, <2>2, FS_Subset
  <2> QED BY <1>3, <2>1, <2>3, FS_CardinalityType
<1> HIDE DEF merged
\* An increasing list of as many positions as stay has every one of them.
<1>6. \A i \in Staying(list) : \E k \in 1..n : at[k] = i
  <2>1. \A k \in 1..n : at[k] \in Int
    BY <1>3, <1>5
  <2>2. \A j, k \in 1..n : at[j] = at[k] => j = k
    BY <1>2, <1>5, <2>1 DEF Increasing
  <2>3. at \in Injection(1..n, Staying(list))
    BY <2>2 DEF Injection, IsInjective
  <2>4. IsFiniteSet(1..n) /\ Cardinality(1..n) = n
    BY <1>5, FS_Interval
  <2>5. at \in Surjection(1..n, Staying(list))
    BY <1>5, <2>3, <2>4, FS_Injection
  <2> QED BY <2>5 DEF Surjection
<1>7. queue.active # NoSlot => queue.active \in Ids(t)
  <2> SUFFICES ASSUME queue.active # NoSlot PROVE queue.active \in Ids(t)
    OBVIOUS
  <2>1. PICK i \in DOMAIN s : s[i].id = queue.active
    BY <1>3 DEF Ids
  <2>2. PICK k \in 1..n : at[k] = i
    BY <1>5, <1>6, <2>1
  <2>3. k \in DOMAIN t /\ t[k].id = queue.active
    BY <1>4, <2>1, <2>2 DEF Refreshed
  <2> QED BY <2>3 DEF Ids
<1>8. \A k \in DOMAIN t : \E i \in DOMAIN s : Refreshed(s[i], t[k], queue.active)
  BY <1>4, <1>5
<1>9. queue'.slots = t /\ queue'.active = queue.active
  <2>1. MergeRefresh(list, pick, at) =
            IF t = s THEN queue
            ELSE [queue EXCEPT !.slots = t,
                               !.active = IF @ \in Ids(t) THEN @ ELSE NoSlot,
                               !.revision = Rev]
    BY DEF MergeRefresh, merged
  <2> HIDE DEF t
  <2> QED BY <1>2, <1>3, <1>7, <2>1 DEF QueueType
<1> HIDE DEF t
<1> QED BY <1>7, <1>8, <1>9

\* A refresh that comes back while a slot is active neither removes that
\* slot, nor moves the marker, nor loses the progress played here
\* (merge_refresh_for_slots, merge_refresh, merge_fetched_slot), whatever was
\* fetched.
THEOREM RefreshAlwaysKeepsActive == Spec => RefreshKeepsActive
<1>1. IInv /\ IInv' /\ [Next]_vars =>
        [RefreshSlots \/ RefreshAll =>
            /\ queue'.active = queue.active
            /\ queue.active # NoSlot =>
                /\ queue.active \in Ids(queue'.slots)
                /\ LET old == SlotAt(queue.slots, queue.active).item
                       new == SlotAt(queue'.slots, queue.active).item
                   IN new.content = old.content /\ new.progress = old.progress]_vars
  BY RefreshSlotsKeepsActive, RefreshAllKeepsActive, ActiveKept
<1> QED BY IInvariant, <1>1, PTL DEF Spec, RefreshKeepsActive
=============================================================================

--------------------------- MODULE PlaybackQueue ---------------------------
(***************************************************************************)
(* The life of one PlaybackQueue value (crates/mbv-queue/src/lib.rs): it   *)
(* is built from a list of items or from an owner's slot snapshot, and     *)
(* every mutating method of the type is an action.  The revision mint is   *)
(* shared with the other queues of its owner, so other holders of the same *)
(* mint take numbers from it between two steps of this value.              *)
(***************************************************************************)
EXTENDS QueueValues

CONSTANTS
    Snapshots,      \* slot lists the value may be built from
    ItemLists,      \* arguments of replace
    Fetches,        \* arguments of merge_refresh_for_slots
    FetchLists,     \* arguments of merge_refresh
    Mints           \* revision mints of the process

ASSUME SnapshotsAssumption ==
    \A s \in Snapshots : s \in Seq(Slot) /\ UniqueIds(s)
ASSUME ItemListsAssumption == \A s \in ItemLists : s \in Seq(Item)
ASSUME FetchesAssumption ==
    \A f \in Fetches : f \in [DOMAIN f -> EmbyItem]
ASSUME FetchListsAssumption == \A s \in FetchLists : s \in Seq(EmbyItem)

VARIABLES
    queue,      \* the PlaybackQueue value
    mints,      \* the number each revision mint issues next
    reserved,   \* ids minted by mint_slot_id and not appended yet
    retired     \* history: ids that named a slot once and no longer do

vars == <<queue, mints, reserved, retired>>

QueueType ==
    [slots : Seq(Slot), active : SlotId \cup {NoSlot}, revision : Nat,
     mint : Mints, next : Nat]

\* What a reader of the queue sees; the revision is the name of this value.
Content(q) == <<q.slots, q.active>>

\* from_queue_items and from_slot_items: an active id that is not live is
\* dropped, and the revision comes from the given mint.
Init ==
    /\ \E slots \in Snapshots, m \in Mints :
        \E next \in NextSlotIds(slots), active \in Ids(slots) \cup {NoSlot} :
            /\ queue = [slots |-> slots, active |-> active, revision |-> 0,
                        mint |-> m, next |-> next]
            /\ mints = [k \in Mints |-> IF k = m THEN 1 ELSE 0]
    /\ reserved = {}
    /\ retired = {}

\* The number the queue's mint issues next.
Rev == mints[queue.mint]

\* A method leaves the value q; it took a number from the mint exactly when
\* q carries it.
Commit(q) ==
    /\ queue' = q
    /\ mints' = IF q.revision = Rev THEN [mints EXCEPT ![queue.mint] = @ + 1]
                ELSE mints
    /\ retired' = retired \cup (Ids(queue.slots) \ Ids(q.slots))

\* Ids a caller may name: live ones and one that is gone or never existed.
Named == Ids(queue.slots) \cup {0}

SetActiveSlot ==
    \E id \in Named : Commit(SetActive(queue, id, Rev)) /\ UNCHANGED reserved

ClearActiveSlot == Commit(ClearActive(queue, Rev)) /\ UNCHANGED reserved

\* insert, and append at the end
InsertItem ==
    \E index \in 0..Len(queue.slots), item \in Item :
        Commit(Insert(queue, index, item, Rev)) /\ UNCHANGED reserved

MintSlotId ==
    /\ queue' = [queue EXCEPT !.next = @ + 1]
    /\ reserved' = reserved \cup {queue.next}
    /\ UNCHANGED <<mints, retired>>

AppendReserved ==
    \E id \in reserved, item \in Item :
        /\ Commit(AppendWithId(queue, id, item, Rev))
        /\ reserved' = reserved \ {id}

ReplaceItems ==
    \E items \in ItemLists :
        Commit(Replace(queue, items, Rev)) /\ UNCHANGED reserved

ClearSlots == Commit(Clear(queue, Rev)) /\ UNCHANGED reserved

TruncateSlots ==
    \E len \in 0..Len(queue.slots) :
        Commit(Truncate(queue, len, Rev)) /\ UNCHANGED reserved

RemoveSlot ==
    \E id \in Named : Commit(RemoveInactive(queue, id, Rev)) /\ UNCHANGED reserved

RemoveActiveSlotConfirmed ==
    \E id \in Named :
        Commit(RemoveConfirmed(queue, id, Rev)) /\ UNCHANGED reserved

ConsumeSlot ==
    \E id \in Named :
        Commit(RemoveExisting(queue, id, Rev)) /\ UNCHANGED reserved

ReorderSlots ==
    \E order \in [DOMAIN queue.slots -> Named] :
        Commit(Reorder(queue, order, Rev)) /\ UNCHANGED reserved

MoveSlot ==
    \E id \in Named, to \in 0..Len(queue.slots) :
        Commit(Move(queue, id, to, Rev)) /\ UNCHANGED reserved

UpdateSlotItem ==
    \E id \in Named, item \in Item :
        Commit(UpdateItem(queue, id, item, Rev)) /\ UNCHANGED reserved

ApplySlotProgress ==
    \E id \in Named, p \in Progress :
        Commit(ApplyProgress(queue, id, p, Rev)) /\ UNCHANGED reserved

RefreshSlots ==
    \E f \in Fetches :
        Commit(MergeRefreshForSlots(queue, f, Rev)) /\ UNCHANGED reserved

-----------------------------------------------------------------------------
(* merge_refresh: a full reconciliation against the fetched items.         *)

\* FetchedItemMatches::next_match: the slots with one content take its
\* fetched items in order, the last item serving every further slot.
Before(s, i, c) == {j \in 1..(i - 1) : s[j].content = c}
Fetched(list, c) == {j \in DOMAIN list : list[j].content = c}
IsMatch(slots, list, i, j) ==
    LET c     == slots[i].item.content
        items == [k \in DOMAIN slots |-> slots[k].item]
        nth   == Cardinality(Before(items, i, c))
        last  == Cardinality(Fetched(list, c)) - 1
    IN /\ list[j].content = c
       /\ Cardinality(Before(list, j, c)) = IF nth > last THEN last ELSE nth

\* Emby slots the answer has an item for; the other slots that stay are the
\* active one and those of other services.
Found(list) == {i \in DOMAIN queue.slots :
                    /\ IsEmby(queue.slots[i].item)
                    /\ Fetched(list, queue.slots[i].item.content) # {}}
Staying(list) == {i \in DOMAIN queue.slots :
                       \/ i \in Found(list)
                       \/ ~ IsEmby(queue.slots[i].item)
                       \/ queue.slots[i].id = queue.active}

Increasing(f) == \A i, j \in DOMAIN f : i < j => f[i] < f[j]

\* `pick' assigns each found slot its fetched item, `at' lists the positions
\* of the slots that stay.
MergeRefresh(list, pick, at) ==
    LET merged == [i \in DOMAIN queue.slots |->
            IF i \in Found(list)
            THEN MergeFetched(queue.slots[i], list[pick[i]], queue.active)
            ELSE queue.slots[i]]
        slots == [k \in DOMAIN at |-> merged[at[k]]]
    IN IF slots = queue.slots THEN queue
       ELSE [queue EXCEPT !.slots = slots,
                          !.active = IF @ \in Ids(slots) THEN @ ELSE NoSlot,
                          !.revision = Rev]

RefreshAll ==
    \E list \in FetchLists :
        \E pick \in [Found(list) -> DOMAIN list],
           at \in [1..Cardinality(Staying(list)) -> Staying(list)] :
            /\ \A i \in Found(list) : IsMatch(queue.slots, list, i, pick[i])
            /\ Increasing(at)
            /\ Commit(MergeRefresh(list, pick, at))
            /\ UNCHANGED reserved

-----------------------------------------------------------------------------
\* rebase_revision_mint
RebaseRevisionMint ==
    \E m \in Mints :
        /\ queue' = [queue EXCEPT !.revision = mints[m], !.mint = m]
        /\ mints' = [mints EXCEPT ![m] = @ + 1]
        /\ UNCHANGED <<reserved, retired>>

\* Another queue of the process takes a number from one of the mints.
OtherQueueMints ==
    \E m \in Mints :
        /\ mints' = [mints EXCEPT ![m] = @ + 1]
        /\ UNCHANGED <<queue, reserved, retired>>

Next ==
    \/ SetActiveSlot \/ ClearActiveSlot \/ InsertItem \/ MintSlotId
    \/ AppendReserved \/ ReplaceItems \/ ClearSlots \/ TruncateSlots
    \/ RemoveSlot \/ RemoveActiveSlotConfirmed \/ ConsumeSlot
    \/ ReorderSlots \/ MoveSlot \/ UpdateSlotItem \/ ApplySlotProgress
    \/ RefreshSlots \/ RefreshAll \/ RebaseRevisionMint \/ OtherQueueMints

Spec == Init /\ [][Next]_vars

-----------------------------------------------------------------------------
\* Type correctness of the value, its allocator and the mints; with it, that
\* no operation gives a Twitch item playback progress.
TypeOK ==
    /\ queue \in QueueType
    /\ mints \in [Mints -> Nat]
    /\ reserved \subseteq SlotId
    /\ retired \subseteq SlotId

\* An id addresses one occurrence: no two slots share one, and the active
\* marker, which every removal and refresh has to re-anchor or drop, names
\* a slot that is in the queue.
SlotIdentity ==
    /\ UniqueIds(queue.slots)
    /\ queue.active \in Ids(queue.slots) \cup {NoSlot}

\* A slot id that left the queue never comes back as another slot, whatever
\* mix of removals, replacements, adopted ids and allocations follows: a
\* command that was addressed to it can only miss.
IdsNeverReused ==
    /\ retired \cap Ids(queue.slots) = {}
    /\ reserved \cap (retired \cup Ids(queue.slots)) = {}

\* A revision names one queue content.  Every step that changes the slots,
\* their order, an item or the active marker leaves a revision its mint has
\* never issued before, although other queues draw from the same mint and
\* the queue may change mints.
RevisionFresh ==
    [][Content(queue') # Content(queue)
        => queue'.revision >= mints[queue'.mint]]_vars

\* A refresh that comes back while a slot is active neither removes that
\* slot, nor moves the marker, nor loses the progress played here.
RefreshKeepsActive ==
    [][RefreshSlots \/ RefreshAll =>
        /\ queue'.active = queue.active
        /\ queue.active # NoSlot =>
            /\ queue.active \in Ids(queue'.slots)
            /\ LET old == SlotAt(queue.slots, queue.active).item
                   new == SlotAt(queue'.slots, queue.active).item
               IN new.content = old.content /\ new.progress = old.progress]_vars
=============================================================================

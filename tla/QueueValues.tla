---------------------------- MODULE QueueValues ----------------------------
(***************************************************************************)
(* The values of crates/mbv-queue: a queue item, a queue slot, and the     *)
(* PlaybackQueue value with the functions its mutating methods compute.    *)
(*                                                                         *)
(* An item keeps what the methods tell apart: the content it names (with   *)
(* its service), the local progress, and the rest of the server's answer   *)
(* (`meta').  A queue value is a record; `revision' is the number its      *)
(* revision mint issued last, and every function that bumps it takes the   *)
(* number to be issued next as the argument `rev'.                         *)
(***************************************************************************)
EXTENDS Integers, FiniteSets, SequencesExt

CONSTANTS
    Contents,       \* content ids, of every service
    EmbyContents,   \* the content ids that name an Emby item
    TwitchContents, \* the content ids that name a Twitch stream
    Progress,       \* local progress (position and played flag)
    NoProgress,     \* position zero, not played
    Metas,          \* versions of an item's server-side metadata
    NoSlot          \* the absent slot id (Option::None)

ASSUME ContentsAssumption ==
    /\ EmbyContents \subseteq Contents
    /\ TwitchContents \subseteq Contents \ EmbyContents
ASSUME NoSlotAssumption == NoSlot \notin Nat

\* A Twitch item keeps no playback state.
Item ==
    {item \in [content : Contents, progress : Progress, meta : Metas] :
        item.content \in TwitchContents => item.progress = NoProgress}
EmbyItem == [content : EmbyContents, progress : Progress, meta : Metas]

SlotId == Nat
Slot == [id : SlotId, item : Item]

IsEmby(item) == item.content \in EmbyContents

Ids(slots) == {slots[i].id : i \in DOMAIN slots}

UniqueIds(slots) ==
    \A i, j \in DOMAIN slots : slots[i].id = slots[j].id => i = j

\* PlaybackQueue::slot_index (one-based); the id must be live.
SlotIndex(slots, id) == CHOOSE i \in DOMAIN slots : slots[i].id = id

\* PlaybackQueue::slot
SlotAt(slots, id) == slots[SlotIndex(slots, id)]

\* The allocator value a constructor leaves behind: one past the largest id.
NextSlotIds(slots) ==
    {n \in {1} \cup {id + 1 : id \in Ids(slots)} :
        \A id \in Ids(slots) : id < n}

\* Fault: the marker moves without a new revision.
SetActiveKeepsRevision(q, id, rev) ==
    IF id \notin Ids(q.slots) THEN q ELSE [q EXCEPT !.active = id]

\* PlaybackQueue::set_active_slot; an absent slot leaves the value alone.
SetActive(q, id, rev) ==
    IF id \notin Ids(q.slots) \/ q.active = id THEN q
    ELSE [q EXCEPT !.active = id, !.revision = rev]

\* PlaybackQueue::clear_active_slot
ClearActive(q, rev) ==
    IF q.active = NoSlot THEN q
    ELSE [q EXCEPT !.active = NoSlot, !.revision = rev]

\* PlaybackQueue::insert at the zero-based `index', clamped to the length.
Insert(q, index, item, rev) ==
    LET at == IF index > Len(q.slots) THEN Len(q.slots) ELSE index IN
    [q EXCEPT !.slots = InsertAt(@, at + 1, [id |-> q.next, item |-> item]),
              !.next = @ + 1,
              !.revision = rev]

\* PlaybackQueue::append_with_id
AppendWithId(q, id, item, rev) ==
    [q EXCEPT !.slots = Append(@, [id |-> id, item |-> item]),
              !.next = IF id + 1 > @ THEN id + 1 ELSE @,
              !.revision = rev]

\* Fault: the replacement numbers its slots from one again.
ReplaceRestartsIds(q, items, rev) ==
    [q EXCEPT !.slots = [i \in 1..Len(items) |-> [id |-> i, item |-> items[i]]],
              !.active = NoSlot,
              !.next = Len(items) + 1,
              !.revision = rev]

\* PlaybackQueue::replace: the allocator goes on counting.
Replace(q, items, rev) ==
    [q EXCEPT !.slots = [i \in 1..Len(items) |->
                            [id |-> q.next + i - 1, item |-> items[i]]],
              !.active = NoSlot,
              !.next = @ + Len(items),
              !.revision = rev]

\* PlaybackQueue::clear; an empty queue is left alone.
Clear(q, rev) ==
    IF q.slots = << >> THEN q
    ELSE [q EXCEPT !.slots = << >>, !.active = NoSlot, !.revision = rev]

\* PlaybackQueue::truncate_slots
Truncate(q, len, rev) ==
    IF len >= Len(q.slots) THEN q
    ELSE LET kept == SubSeq(q.slots, 1, len) IN
         [q EXCEPT !.slots = kept,
                   !.active = IF @ \in Ids(kept) THEN @ ELSE NoSlot,
                   !.revision = rev]

\* Fault: the active marker stays on the removed slot.
RemoveExistingKeepsMarker(q, id, rev) ==
    IF id \notin Ids(q.slots) THEN q
    ELSE [q EXCEPT !.slots = RemoveAt(@, SlotIndex(@, id)), !.revision = rev]

\* PlaybackQueue::remove_existing_slot, behind consume_slot and remove_slot:
\* an active slot hands the marker to the slot that takes its place, or to
\* the last one.
RemoveExisting(q, id, rev) ==
    IF id \notin Ids(q.slots) THEN q
    ELSE LET i    == SlotIndex(q.slots, id)
             rest == RemoveAt(q.slots, i)
             heir == IF rest = << >> THEN NoSlot
                     ELSE IF i <= Len(rest) THEN rest[i].id
                     ELSE rest[Len(rest)].id
         IN [q EXCEPT !.slots = rest,
                      !.active = IF @ = id THEN heir ELSE @,
                      !.revision = rev]

\* PlaybackQueue::remove_slot refuses the active slot.
RemoveInactive(q, id, rev) ==
    IF q.active = id THEN q ELSE RemoveExisting(q, id, rev)

\* PlaybackQueue::remove_active_slot_confirmed drops the marker instead.
RemoveConfirmed(q, id, rev) ==
    IF id \notin Ids(q.slots) THEN q
    ELSE [q EXCEPT !.slots = RemoveAt(@, SlotIndex(@, id)),
                   !.active = IF @ = id THEN NoSlot ELSE @,
                   !.revision = rev]

\* Fault: every named slot is live, but one may be named twice.
NamesOnlyLiveSlots(slots, order) ==
    /\ DOMAIN order = DOMAIN slots
    /\ \A i \in DOMAIN order : order[i] \in Ids(slots)

\* is_slot_permutation: the sorted id lists are equal, that is, some
\* bijection of the positions carries one list to the other.
IsSlotPermutation(slots, order) ==
    /\ DOMAIN order = DOMAIN slots
    /\ \E p \in [DOMAIN slots -> DOMAIN slots] :
           /\ \A i, j \in DOMAIN slots : p[i] = p[j] => i = j
           /\ \A i \in DOMAIN slots : order[i] = slots[p[i]].id

\* PlaybackQueue::reorder_slots
Reorder(q, order, rev) ==
    IF \/ order = [i \in DOMAIN q.slots |-> q.slots[i].id]
       \/ ~ IsSlotPermutation(q.slots, order)
    THEN q
    ELSE [q EXCEPT !.slots = [i \in DOMAIN order |-> SlotAt(@, order[i])],
                   !.revision = rev]

\* PlaybackQueue::move_slot to the zero-based `to', clamped.
Move(q, id, to, rev) ==
    IF id \notin Ids(q.slots) THEN q
    ELSE LET rest == RemoveAt(q.slots, SlotIndex(q.slots, id))
             at   == IF to > Len(rest) THEN Len(rest) ELSE to
         IN [q EXCEPT !.slots = InsertAt(rest, at + 1, SlotAt(@, id)),
                      !.revision = rev]

\* PlaybackQueue::update_slot_item; an equal item keeps the revision.
UpdateItem(q, id, item, rev) ==
    IF id \notin Ids(q.slots) \/ SlotAt(q.slots, id).item = item THEN q
    ELSE [q EXCEPT !.slots[SlotIndex(q.slots, id)].item = item,
                   !.revision = rev]

\* Fault: progress is written to an item of any service.
ApplyProgressToAny(q, id, progress, rev) ==
    IF id \notin Ids(q.slots) \/ SlotAt(q.slots, id).item.progress = progress
    THEN q
    ELSE [q EXCEPT !.slots[SlotIndex(q.slots, id)].item.progress = progress,
                   !.revision = rev]

\* PlaybackQueue::apply_progress; progress never writes a Twitch item.
ApplyProgress(q, id, progress, rev) ==
    IF \/ id \notin Ids(q.slots)
       \/ SlotAt(q.slots, id).item.content \in TwitchContents
       \/ SlotAt(q.slots, id).item.progress = progress
    THEN q
    ELSE [q EXCEPT !.slots[SlotIndex(q.slots, id)].item.progress = progress,
                   !.revision = rev]

\* Fault: the fetched progress overwrites what the active slot played.
MergeFetchedOverwrites(slot, fetched, active) == [slot EXCEPT !.item = fetched]

\* PlaybackQueue::merge_fetched_slot: the active slot keeps local progress.
MergeFetched(slot, fetched, active) ==
    [slot EXCEPT !.item =
        IF slot.id = active
        THEN [fetched EXCEPT !.progress = slot.item.progress]
        ELSE fetched]

\* PlaybackQueue::merge_refresh_for_slots.  `fetched' maps the slot ids
\* captured before the fetch to the items it returned.
MergeRefreshForSlots(q, fetched, rev) ==
    LET merged == [i \in DOMAIN q.slots |->
            IF /\ q.slots[i].id \in DOMAIN fetched
               /\ q.slots[i].item.content = fetched[q.slots[i].id].content
            THEN MergeFetched(q.slots[i], fetched[q.slots[i].id], q.active)
            ELSE q.slots[i]]
    IN IF merged = q.slots THEN q
       ELSE [q EXCEPT !.slots = merged, !.revision = rev]
=============================================================================

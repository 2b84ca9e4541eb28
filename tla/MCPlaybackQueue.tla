-------------------------- MODULE MCPlaybackQueue --------------------------
(***************************************************************************)
(* Bounded instances of PlaybackQueue.  `MaxLen', `MaxSlotId' and          *)
(* `MaxRevision' cap the queue length, the slot allocator and the mints.   *)
(***************************************************************************)
EXTENDS PlaybackQueue

CONSTANTS MaxLen, MaxSlotId, MaxRevision

\* Up to two occurrences of one fresh item.
MCItemLists ==
    LET fresh == {a \in Item : a.progress = NoProgress /\ a.meta = 0}
    IN {<< >>} \cup {<<a>> : a \in fresh} \cup {<<a, a>> : a \in fresh}

\* An empty queue, and snapshots whose ids are neither dense nor in order.
MCSnapshots ==
    {<< >>} \cup
    {<<[id |-> 2, item |-> a]>> : a \in Item} \cup
    {<<[id |-> 2, item |-> a], [id |-> 1, item |-> a]>> : a \in Item}

\* Answers to a fetch that captured one or two slots, current or stale.
MCFetches ==
    LET answers == {e \in EmbyItem : e.meta = 1}
    IN [{1} -> answers] \cup [{2} -> answers] \cup [{1, 3} -> answers]

MCFetchLists ==
    LET answers == {e \in EmbyItem : e.meta = 1}
    IN {<< >>} \cup {<<a>> : a \in answers} \cup {<<a, a>> : a \in answers}

Bounded ==
    /\ Len(queue'.slots) <= MaxLen
    /\ queue'.next <= MaxSlotId
    /\ \A m \in Mints : mints'[m] <= MaxRevision

BoundedNext == Next /\ Bounded

BoundedSpec == Init /\ [][BoundedNext]_vars
=============================================================================

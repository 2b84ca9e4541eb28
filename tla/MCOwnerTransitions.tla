------------------------ MODULE MCOwnerTransitions ------------------------
(***************************************************************************)
(* Bounded instances of OwnerTransitions.                                  *)
(***************************************************************************)
EXTENDS OwnerTransitions, FiniteSetsExt

CONSTANTS
    MaxLen,       \* queue length
    MaxSlotId,    \* slot ids allocated by the queue
    MaxRequest,   \* requests of one client
    MaxLocal,     \* locally minted transition ids
    MaxStarts,    \* transition ids of both kinds and submissions, together
    MaxLineage,   \* whole-queue installs
    MaxSubmissions, \* submissions to the player that clients cause directly
    MaxReports,   \* events waiting for the owner
    MaxCommands   \* commands waiting for the run

\* Lists of two items.
MCPlaylists == [1..2 -> Item]

\* A client numbers its slots from one, in any order it has moved them to.
MCReplacements ==
    {<<[id |-> 2, item |-> a], [id |-> 1, item |-> a]>> : a \in Item}

Bounded ==
    /\ Len(queue'.slots) <= MaxLen
    /\ queue'.next <= MaxSlotId
    /\ \A c \in Clients : requests'[c] <= MaxRequest
    /\ next_local_id' <= MaxLocal
    /\ lineage' <= MaxLineage
    /\ generation' \in 0..MaxSubmissions \cup {generation}
    /\ \/ generation' + next_local_id' + MapThenSumSet(LAMBDA c : requests'[c], Clients) <= MaxStarts
       \/ UNCHANGED <<generation, next_local_id, requests>>
    /\ Len(commands') <= MaxCommands
    /\ Len(reports') <= MaxReports

\* What clients and mpv start is bounded.
Started ==
    \/ ClientStep \/ TransportStep \/ PlaySlot
    \/ RemoveSlot \/ RemoveSlots \/ ReorderQueue \/ AppendItem \/ Stop
    \/ ClearQueue \/ ReplaceQueue \/ AdoptQueue \/ InstallResolved
    \/ RunSettlesJump \/ RunAdvances \/ RunEnds

\* What the owner and the run do about it is not.
Answered ==
    \/ HandleTrackChanged \/ HandleEnded \/ OnRecvTimeout
    \/ RunStarts \/ RunTakes \/ RunDropsJump

BoundedNext == (Started /\ Bounded) \/ Answered

BoundedSpec == Init /\ [][BoundedNext]_vars

BoundedFairSpec ==
    /\ BoundedSpec
    /\ WF_vars(HandleTrackChanged \/ HandleEnded)
    /\ SF_vars(OnRecvTimeout)
=============================================================================

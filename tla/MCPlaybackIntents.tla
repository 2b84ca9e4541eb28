------------------------- MODULE MCPlaybackIntents -------------------------
(***************************************************************************)
(* Bounded instances of PlaybackIntents.                                   *)
(***************************************************************************)
EXTENDS PlaybackIntents, FiniteSetsExt, TLC

CONSTANTS
    MaxRequest,   \* requests of all connections
    MaxLocal,     \* locally minted jump ids
    MaxCommands,  \* commands waiting for the run
    MaxEvents     \* events waiting for the owner

\* A single item, with a start position past it, and a list that holds it.
MCPlays ==
    {[items |-> <<"a">>, start |-> 2], [items |-> <<"b", "a">>, start |-> 1]}

Bounded ==
    /\ MapThenSumSet(LAMBDA c : requests'[c], Connections) <= MaxRequest
    /\ next_local_id' <= MaxLocal
    /\ Len(commands') <= MaxCommands
    /\ Len(events') <= MaxEvents

BoundedNext == Next /\ Bounded

BoundedSpec == Init /\ [][BoundedNext]_vars

Symmetry == Permutations(Connections)

BoundedFairSpec == BoundedSpec /\ Fairness
=============================================================================

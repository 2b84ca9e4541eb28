--------------------------- MODULE DurableQueue ---------------------------
(***************************************************************************)
(* What the Stay-alive owner promises about its queue across its own life: *)
(* a started owner has the queue that was saved last, edits only add to    *)
(* it, what is saved only moves towards the live queue and never back, and *)
(* an owner that stops in good order has saved all of it.  Queues are      *)
(* named by the ordinal of the edit that made them.                        *)
(***************************************************************************)
EXTENDS Naturals

VARIABLES
    status,   \* up, or how the last owner ended: stopped or lost
    queue,    \* the live queue; after a loss, what a new owner will find
    durable   \* the queue on disk

vars == <<status, queue, durable>>

Init == status = "stopped" /\ queue = 0 /\ durable = 0

Start ==
    /\ status # "up" /\ status' = "up"
    /\ queue' = durable /\ UNCHANGED durable

Edit ==
    /\ status = "up" /\ UNCHANGED <<status, durable>>
    /\ queue' \in Nat /\ queue' > queue

Persist ==
    /\ status = "up" /\ UNCHANGED <<status, queue>>
    /\ durable' \in Nat /\ durable < durable' /\ durable' <= queue

\* The last save and the end of the process are one step.
Stop ==
    /\ status = "up" /\ status' = "stopped"
    /\ durable' = queue /\ UNCHANGED queue

\* A crash, or a last save that failed.
Lose ==
    /\ status = "up" /\ status' = "lost"
    /\ UNCHANGED durable /\ queue' = durable

Next == Start \/ Edit \/ Persist \/ Stop \/ Lose

Spec == Init /\ [][Next]_vars
=============================================================================

----------------------------- MODULE LatestJump -----------------------------
(***************************************************************************)
(* What the Player owner promises of slot jumps: one at a time is in       *)
(* flight to the player, the latest of the others waits behind it, and a   *)
(* jump that is displaced while it waits is never sent: its client is told *)
(* that it is superseded.                                                  *)
(***************************************************************************)

CONSTANT Owned    \* the jumps that have a client to tell

VARIABLES
    in_flight,  \* at most one jump
    waiting,    \* at most one jump
    sent,       \* jumps on their way to the player, or armed there
    told,       \* jumps reported as superseded
    asked       \* jumps ever asked for

vars == <<in_flight, waiting, sent, told, asked>>

Init == in_flight = {} /\ waiting = {} /\ sent = {} /\ told = {} /\ asked = {}

\* A new jump goes to the player at once.
Send ==
    /\ in_flight = {} /\ asked \subseteq asked'
    /\ \E j \in asked' \ asked : in_flight' = {j} /\ sent' = sent \cup {j}
    /\ UNCHANGED <<waiting, told>>

\* Or it takes the place of the one that waits.
Hold ==
    /\ in_flight # {} /\ asked \subseteq asked'
    /\ \E j \in asked' \ asked : waiting' = {j}
    /\ told' = told \cup (waiting \cap Owned)
    /\ UNCHANGED <<in_flight, sent>>

\* The jump in flight is done, or given up.
Promote ==
    /\ waiting # {} /\ in_flight' = waiting /\ waiting' = {} /\ sent' = sent \cup waiting
    /\ UNCHANGED <<told, asked>>

\* Both are forgotten: an edit took them out, or the player is started anew.
Drop ==
    /\ in_flight' = {} /\ waiting' = {}
    /\ sent' \subseteq sent /\ asked \subseteq asked' /\ UNCHANGED told

\* The player is through with a jump, or it was lost on its way.
Lose == sent' \subseteq sent /\ UNCHANGED <<in_flight, waiting, told, asked>>

Next == Send \/ Hold \/ Promote \/ Drop \/ Lose

Spec == Init /\ [][Next]_vars
=============================================================================

-------------------------- MODULE OwnerTransitions --------------------------
(***************************************************************************)
(* The Player owner of the daemon and its slot jumps: one transition in    *)
(* flight to the playback run, at most one held back behind it, and the    *)
(* queue edits, timeouts, stops and restarts of the run that cross them    *)
(* (crates/mbv-player/src/transition.rs and owner_state.rs,                *)
(* crates/mbv-daemon/src/core/transition_dispatch.rs and control/).        *)
(*                                                                         *)
(* The output is the local run.  The owner is one thread that handles one  *)
(* event at a time; the run is another, reached through the channel        *)
(* `commands' and answering through `reports'.  Of the run the owner only  *)
(* depends on which slots it holds and which jump it has armed.            *)
(*                                                                         *)
(* A request's generation always equals its request id and is left out, as *)
(* is the progress that a completion or a stop records in its slot.        *)
(* The fields `sender' and `local' of a transition and the variable        *)
(* `history' record what the code does not: who asked for a jump, and what *)
(* became of it.                                                           *)
(***************************************************************************)
EXTENDS QueueValues, KeptSequences

CONSTANTS
    Clients,        \* connected control clients
    NoClient,       \* the origin of a transport step (MPRIS, tray, Emby)
    NoRequest,      \* a track change nobody asked for
    NoTransition,   \* Option::<Transition>::None
    NoOrigin,       \* no tracked origin of the queued transition
    Replacements,   \* slot lists a client replaces the queue with
    Playlists       \* item lists a client adopts or a play resolves to

ASSUME ClientsAssumption == NoClient \notin Clients
ASSUME NoRequestAssumption == NoRequest \notin Nat
ASSUME ReplacementsAssumption ==
    \A s \in Replacements : s \in Seq(Slot) /\ UniqueIds(s) /\ s # << >>
ASSUME PlaylistsAssumption == \A s \in Playlists : s \in Seq(Item) /\ s # << >>

VARIABLES
    queue,          \* the canonical queue
    lineage,        \* QueueLineage: the number of whole-queue installs
    generation,     \* PlayerStatus::sequence_generation
    observed,       \* observed_active_slot
    in_flight,      \* the transition dispatched to the run
    queued_latest,  \* the newest transition held back behind it
    deadline,       \* whether in_flight_deadline is armed
    next_local_id,  \* ids minted for transitions without a client request
    queued_transition_origin,
    requests,       \* per client, the last request id of a dispatched step
    run,            \* the playback run
    commands,       \* PlayerCommands the run has not taken yet
    reports,        \* PlayerEvents the owner has not handled yet
    history         \* history: the last jump sent to a run, the superseded ones

owner == <<in_flight, queued_latest, deadline, queued_transition_origin>>
vars == <<queue, lineage, generation, observed, owner, next_local_id,
          requests, run, commands, reports, history>>

Direction == {"next", "previous"}
Transition ==
    [request : Nat, target : SlotId, cause : Direction \cup {"jump"},
     sender : Clients \cup {NoClient}, local : BOOLEAN]
Identity(t) == <<t.sender, t.local, t.request>>
ASSUME NoTransitionAssumption == NoTransition \notin Transition
ASSUME NoOriginAssumption == NoOrigin \notin [request : Nat, client : Clients]

\* The run: whether its command channel is open, whether the controller
\* asked it to stop, whether its thread is still starting, taking the waiting
\* commands or past them, its run_identity, the slots it holds and the jump
\* it waits for.
Run == [alive : BOOLEAN, stopping : BOOLEAN,
        phase : {"starting", "draining", "playing"}, identity : Nat,
        held : SUBSET SlotId, jump : Transition \cup {NoTransition}]
Command == [op : {"jump", "submit", "append", "remove"}, ids : SUBSET SlotId,
            jump : Transition \cup {NoTransition}]
Report == [op : {"changed", "completed", "stopped"}, slot : SlotId,
           request : Nat \cup {NoRequest}, identity : Nat]

EmptyQueue == [slots |-> << >>, active |-> NoSlot, revision |-> 0, next |-> 1]
NoRun == [alive |-> FALSE, stopping |-> FALSE, phase |-> "starting",
          identity |-> 0, held |-> {}, jump |-> NoTransition]

\* A cold daemon.
Init ==
    /\ queue = EmptyQueue /\ lineage = 0 /\ generation = 0 /\ observed = NoSlot
    /\ in_flight = NoTransition /\ queued_latest = NoTransition
    /\ deadline = FALSE /\ queued_transition_origin = NoOrigin
    /\ next_local_id = 0 /\ requests = [c \in Clients |-> 0]
    /\ run = NoRun /\ commands = << >> /\ reports = << >>
    /\ history = [sent |-> << >>, superseded |-> {}]

-----------------------------------------------------------------------------
(* What the handlers share.                                                *)

Edit(op, ids) == [op |-> op, ids |-> ids, jump |-> NoTransition]
JumpTo(t) == [op |-> "jump", ids |-> {}, jump |-> t]

\* Player::send_command: without a run the command is dropped.
SendCommand(c) ==
    commands' = IF run.alive THEN Append(commands, c) ELSE commands

\* Player::submit_queue_slots, into the live run unless it was told to stop.
SubmitIntoLiveRun(q) ==
    /\ run.alive /\ ~ run.stopping
    /\ generation' = generation + 1
    /\ SendCommand(Edit("submit", Ids(q.slots)))
    /\ UNCHANGED run

\* Or else (also when the run is of the other headless class, or has left its
\* loop) into a fresh run, once the old one is joined.
ColdStart(q) ==
    /\ generation' = generation + 1
    /\ run' = [NoRun EXCEPT !.alive = TRUE, !.held = Ids(q.slots)]
    /\ commands' = << >>

\* A queue with an Audiobookshelf item is refused once that service is gone.
RefuseQueueSlots == UNCHANGED <<generation, run, commands>>

\* OwnerTransitionState::reset with the queued origin.
ResetSlotJumps ==
    /\ in_flight' = NoTransition /\ queued_latest' = NoTransition
    /\ deadline' = FALSE /\ queued_transition_origin' = NoOrigin

\* Fault: the jump that finds no run stays in flight.
DeliverKeepsColdJump(t, q, obs, behind, origin) ==
    /\ in_flight' = t /\ queued_latest' = behind
    /\ deadline' = FALSE /\ queued_transition_origin' = origin
    /\ \/ /\ run.alive
          /\ queue' = q /\ observed' = obs
          /\ SendCommand(JumpTo(t))
          /\ history' = [history EXCEPT !.sent = Identity(t)]
          /\ UNCHANGED <<generation, run>>
       \/ /\ ~ run.alive
          /\ queue' = SetActive(q, t.target, 0) /\ observed' = NoSlot
          /\ ColdStart(q)
          /\ UNCHANGED history

\* send_jump_or_cold_start for the transition t, which has just become the
\* one in flight; the caller leaves the queue q, the observation obs and,
\* behind t, the transition `behind'.
Deliver(t, q, obs, behind, origin) ==
    \/ /\ run.alive
       /\ in_flight' = t /\ queued_latest' = behind
       /\ deadline' = FALSE /\ queued_transition_origin' = origin
       /\ queue' = q /\ observed' = obs
       /\ SendCommand(JumpTo(t))
       /\ history' = [history EXCEPT !.sent = Identity(t)]
       /\ UNCHANGED <<generation, run>>
    \/ /\ ~ run.alive
       /\ ResetSlotJumps
       /\ \/ /\ t.target \in Ids(q.slots)
             /\ ColdStart(q)
             /\ queue' = SetActive(q, t.target, 0) /\ observed' = NoSlot
          \/ /\ RefuseQueueSlots
             /\ queue' = q /\ observed' = obs
       /\ UNCHANGED history

Origin(t) ==
    IF t.sender = NoClient THEN NoOrigin
    ELSE [request |-> t.request, client |-> t.sender]

\* The Superseded event for the displaced transition t goes to the client of
\* the tracked origin, when that origin is the one of t.
Supersede(t) ==
    history' =
        IF /\ t # NoTransition
           /\ queued_transition_origin # NoOrigin
           /\ queued_transition_origin.request = t.request
        THEN [history EXCEPT !.superseded = @ \cup
                {<<queued_transition_origin.client, t.local, t.request>>}]
        ELSE history

\* Fault: a transport step leaves the origin of the transition it displaced.
AcceptKeepsOrigin(t) ==
    \/ /\ in_flight = NoTransition
       /\ Deliver(t, queue, observed, queued_latest, queued_transition_origin)
    \/ /\ in_flight # NoTransition
       /\ queued_latest' = t
       /\ Supersede(queued_latest)
       /\ queued_transition_origin' =
            IF t.sender = NoClient THEN queued_transition_origin ELSE Origin(t)
       /\ UNCHANGED <<queue, generation, observed, in_flight, deadline, run,
                      commands>>

\* Fault: the new origin is recorded before the displaced one is looked up.
AcceptTracksFirst(t) ==
    \/ /\ in_flight = NoTransition
       /\ Deliver(t, queue, observed, queued_latest, queued_transition_origin)
    \/ /\ in_flight # NoTransition
       /\ queued_latest' = t
       /\ queued_transition_origin' = Origin(t)
       /\ UNCHANGED <<queue, generation, observed, in_flight, deadline, run,
                      commands, history>>

\* Fault: the transition that waited longer stays queued.
AcceptKeepsOlder(t) ==
    \/ /\ in_flight = NoTransition
       /\ Deliver(t, queue, observed, queued_latest, queued_transition_origin)
    \/ /\ in_flight # NoTransition
       /\ Supersede(queued_latest)
       /\ \/ /\ queued_latest = NoTransition
             /\ queued_latest' = t /\ queued_transition_origin' = Origin(t)
          \/ /\ queued_latest # NoTransition
             /\ UNCHANGED <<queued_latest, queued_transition_origin>>
       /\ UNCHANGED <<queue, generation, observed, in_flight, deadline, run,
                      commands>>

\* dispatch_slot_jump, with OwnerTransitionState::accept.
DispatchSlotJump(t) ==
    \/ /\ in_flight = NoTransition
       /\ Deliver(t, queue, observed, queued_latest, queued_transition_origin)
    \/ /\ in_flight # NoTransition
       /\ queued_latest' = t
       /\ Supersede(queued_latest)
       /\ queued_transition_origin' = Origin(t)
       /\ UNCHANGED <<queue, generation, observed, in_flight, deadline, run,
                      commands>>

\* The transition in flight is done: the queued one takes its place.
Promote(q, obs) ==
    \/ /\ queued_latest # NoTransition
       /\ Deliver(queued_latest, q, obs, NoTransition, NoOrigin)
    \/ /\ queued_latest = NoTransition
       /\ ResetSlotJumps
       /\ queue' = q /\ observed' = obs
       /\ UNCHANGED <<generation, run, commands, history>>

-----------------------------------------------------------------------------
(* Steps and jumps.                                                        *)

\* relative_step_target: from the newest desired slot, or the observed one,
\* or the queue's marker.  A step in the direction of the newest one joins it.
Latest == IF queued_latest # NoTransition THEN queued_latest ELSE in_flight
Coalesced(d) == Latest # NoTransition /\ Latest.cause = d
StepBase ==
    IF Latest # NoTransition THEN Latest.target
    ELSE IF observed # NoSlot THEN observed ELSE queue.active
Neighbors(d) ==
    {queue.slots[j].id : j \in {i \in DOMAIN queue.slots :
        \E k \in DOMAIN queue.slots :
            /\ queue.slots[k].id = StepBase
            /\ i = IF d = "next" THEN k + 1 ELSE k - 1}}

\* Fault: a step off the edge lands on its own base.
StepTargetStays(d) == IF Neighbors(d) = {} THEN {StepBase} ELSE Neighbors(d)

StepTarget(d) == Neighbors(d)

\* PlaybackIntentAction::Next and Previous.  A step that coalesces or has no
\* neighbor is answered and changes nothing here.
ClientStep ==
    \E c \in Clients, d \in Direction :
        /\ ~ Coalesced(d)
        /\ \E id \in StepTarget(d) :
              DispatchSlotJump([request |-> requests[c] + 1, target |-> id,
                                cause |-> d, sender |-> c, local |-> FALSE])
        /\ requests' = [requests EXCEPT ![c] = @ + 1]
        /\ UNCHANGED <<lineage, next_local_id, reports>>

\* dispatch_relative_step, for TransportCommand::Step
TransportStep ==
    \E d \in Direction :
        /\ ~ Coalesced(d)
        /\ \E id \in StepTarget(d) :
              DispatchSlotJump([request |-> next_local_id + 1, target |-> id,
                                cause |-> d, sender |-> NoClient, local |-> TRUE])
        /\ next_local_id' = next_local_id + 1
        /\ UNCHANGED <<lineage, requests, reports>>

\* handle_queue_play_slot
PlaySlot ==
    \E c \in Clients, id \in Ids(queue.slots) :
        /\ DispatchSlotJump([request |-> next_local_id + 1, target |-> id,
                             cause |-> "jump", sender |-> c, local |-> TRUE])
        /\ next_local_id' = next_local_id + 1
        /\ UNCHANGED <<lineage, requests, reports>>

-----------------------------------------------------------------------------
(* Queue edits.                                                            *)

StopRun == run' = [run EXCEPT !.stopping = run.alive]

\* The player's queue is cleared and the run stopped.
StopEmptied ==
    /\ generation' = generation + 1
    /\ StopRun
    /\ ResetSlotJumps
    /\ UNCHANGED commands

\* handle_queue_remove_slot.  The track change that removing the active slot
\* forces carries no request, so the pending jumps are dropped with it.
RemoveSlot ==
    \E id \in Ids(queue.slots) :
        /\ queue' = RemoveConfirmed(queue, id, 0)
        /\ \/ /\ id = queue.active /\ queue'.slots = << >>
              /\ StopEmptied
           \/ /\ id # queue.active \/ queue'.slots # << >>
              /\ IF id = queue.active THEN ResetSlotJumps ELSE UNCHANGED owner
              /\ SendCommand(Edit("remove", {id}))
              /\ UNCHANGED <<generation, run>>
        /\ UNCHANGED <<lineage, observed, next_local_id, requests, reports, history>>

\* handle_queue_remove_slots stops on every emptied queue.
RemoveSlots ==
    \E gone \in SUBSET Ids(queue.slots) \ {{}} :
        /\ queue' = [queue EXCEPT
                !.slots = Kept(@, {slot \in Range(@) : slot.id \notin gone}),
                !.active = IF @ \in gone THEN NoSlot ELSE @]
        /\ \/ queue'.slots = << >> /\ StopEmptied
           \/ /\ queue'.slots # << >>
              /\ IF queue.active \in gone THEN ResetSlotJumps ELSE UNCHANGED owner
              /\ SendCommand(Edit("remove", gone))
              /\ UNCHANGED <<generation, run>>
        /\ UNCHANGED <<lineage, observed, next_local_id, requests, reports, history>>

\* handle_queue_move_slot and handle_queue_shuffle: the run holds the same
\* slots in another order.
ReorderQueue ==
    /\ \/ \E id \in Ids(queue.slots), to \in 0..Len(queue.slots) :
             queue' = Move(queue, id, to, 0)
       \/ \E order \in [DOMAIN queue.slots -> Ids(queue.slots)] :
             queue' = Reorder(queue, order, 0)
    /\ UNCHANGED <<lineage, generation, observed, owner, next_local_id,
                   requests, run, commands, reports, history>>

\* handle_queue_append, at the end or before a slot
AppendItem ==
    \E index \in 0..Len(queue.slots), item \in Item :
        /\ queue' = Insert(queue, index, item, 0)
        /\ SendCommand(Edit("append", {queue.next}))
        /\ UNCHANGED <<lineage, generation, observed, owner, next_local_id,
                       requests, run, reports, history>>

\* handle_stop, and the Stop of a transport
Stop ==
    /\ StopRun
    /\ ResetSlotJumps
    /\ UNCHANGED <<queue, lineage, generation, observed, next_local_id,
                   requests, commands, reports, history>>

-----------------------------------------------------------------------------
(* Whole-queue installs: each mints a lineage.                             *)

Install(q) ==
    /\ queue' = q /\ lineage' = lineage + 1
    /\ ResetSlotJumps
    /\ UNCHANGED <<next_local_id, requests, history>>

\* The Stopped with which a run of that identity ends, if it names a slot.
Stopped(identity) ==
    {<< >>} \cup {<<[op |-> "stopped", slot |-> id, request |-> NoRequest,
                     identity |-> identity]>> :
                     id \in run.held}

\* The new queue is submitted.  A run that is still starting when it is
\* stopped and joined has yet to read its identity.
Submit(q) ==
    \/ SubmitIntoLiveRun(q) /\ UNCHANGED reports
    \/ /\ ColdStart(q)
       /\ \E last \in Stopped(IF run.phase = "starting" THEN generation + 1
                               ELSE run.identity) :
              reports' = reports \o last

\* from_slot_items and from_queue_items with the cursor's slot active.
NewQueues(slots) ==
    {[slots |-> slots, active |-> slots[cursor].id, revision |-> 0, next |-> n] :
        cursor \in DOMAIN slots, n \in NextSlotIds(slots)}
Numbered(items) == [i \in DOMAIN items |-> [id |-> i, item |-> items[i]]]

\* handle_queue_clear
ClearQueue ==
    /\ Install(Clear(queue, 0))
    /\ StopEmptied
    /\ UNCHANGED <<observed, reports>>

\* handle_queue_replace
ReplaceQueue ==
    \E slots \in Replacements : \E q \in NewQueues(slots) :
        /\ Install(q)
        /\ Submit(q)
        /\ observed' = NoSlot

\* handle_adopt_queue
AdoptQueue ==
    \E items \in Playlists : \E q \in NewQueues(Numbered(items)) :
        /\ queue.slots = << >>
        /\ Install(q)
        /\ UNCHANGED <<generation, observed, run, commands, reports>>

\* handle_playback_resolved for the play that is still current, with
\* install_resolved_queue and play_resolved_locally
InstallResolved ==
    \E items \in Playlists : \E q \in NewQueues(Numbered(items)) :
        /\ Install(q)
        /\ Submit(q)
        /\ UNCHANGED observed

-----------------------------------------------------------------------------
(* What comes back.                                                        *)

\* OwnerTransitionState::settle
Settles(r) ==
    /\ in_flight # NoTransition
    /\ r.request = in_flight.request
    /\ r.slot = in_flight.target

\* handle_track_changed: a slot the queue lost is discarded, any other moves
\* the observation and the marker and may settle the jump in flight.
HandleTrackChanged ==
    LET r == Head(reports)
        q == SetActive(queue, r.slot, 0)
    IN /\ reports # << >> /\ r.op = "changed"
       /\ reports' = Tail(reports)
       /\ \/ /\ r.slot \notin Ids(queue.slots)
             /\ UNCHANGED <<queue, generation, observed, owner, run, commands, history>>
          \/ /\ r.slot \in Ids(queue.slots)
             /\ \/ Settles(r) /\ Promote(q, r.slot)
                \/ /\ ~ Settles(r)
                   /\ queue' = q /\ observed' = r.slot
                   /\ UNCHANGED <<generation, owner, run, commands, history>>
       /\ UNCHANGED <<lineage, next_local_id, requests>>

\* playback_run_identity_is_current, and the slot is there
Applies(r) == r.identity = generation /\ r.slot \in Ids(queue.slots)

\* handle_track_completed and handle_stopped_event.  A completed slot may be
\* consumed, and hands the marker to the slot that takes its place.
HandleEnded ==
    LET r == Head(reports)
    IN /\ reports # << >> /\ r.op # "changed"
       /\ reports' = Tail(reports)
       /\ queue' \in IF Applies(r) /\ r.op = "completed"
                     THEN {queue, RemoveExisting(queue, r.slot, 0)} ELSE {queue}
       /\ UNCHANGED <<lineage, generation, observed, owner, next_local_id,
                      requests, run, commands, history>>

\* Fault: an expired deadline is armed anew.
OnRecvTimeoutRearms ==
    /\ reports = << >> /\ in_flight # NoTransition
    /\ deadline' = ~ deadline
    /\ UNCHANGED <<queue, generation, observed, in_flight, queued_latest,
                   queued_transition_origin, run, commands, history>>
    /\ UNCHANGED <<lineage, next_local_id, requests, reports>>

\* on_recv_timeout, when no event came: expire_and_redispatch arms the
\* deadline or, once it has passed, gives the jump in flight up.
OnRecvTimeout ==
    /\ reports = << >> /\ in_flight # NoTransition
    /\ \/ /\ ~ deadline
          /\ deadline' = TRUE
          /\ UNCHANGED <<queue, generation, observed, in_flight, queued_latest,
                         queued_transition_origin, run, commands, history>>
       \/ deadline /\ Promote(queue, observed)
    /\ UNCHANGED <<lineage, next_local_id, requests, reports>>

-----------------------------------------------------------------------------
(* The playback run.  Its loop takes every waiting command before it turns *)
(* to mpv's events.                                                        *)

\* A jump to a slot the run does not hold is rejected; a submission disarms
\* the jump, a removal does when it takes the target.  The identity of a
\* submission is read when it is taken.
Taken(c) ==
    CASE c.op = "jump"   -> IF c.jump.target \in run.held
                            THEN [run EXCEPT !.jump = c.jump] ELSE run
      [] c.op = "submit" -> [run EXCEPT !.held = c.ids, !.jump = NoTransition,
                                        !.identity = generation]
      [] c.op = "append" -> [run EXCEPT !.held = @ \cup c.ids]
      [] c.op = "remove" ->
            [run EXCEPT !.held = @ \ c.ids,
                        !.jump = IF @ # NoTransition /\ @.target \in c.ids
                                 THEN NoTransition ELSE @]

OwnerUnchanged == UNCHANGED <<queue, lineage, generation, observed, owner,
                              next_local_id, requests, history>>

Ready(waiting) == IF waiting = << >> THEN "playing" ELSE "draining"

\* The thread of a fresh run comes up.
RunStarts ==
    /\ run.alive /\ run.phase = "starting"
    /\ run' = [run EXCEPT !.identity = generation, !.phase = Ready(commands)]
    /\ OwnerUnchanged /\ UNCHANGED <<commands, reports>>

RunTakes ==
    /\ run.alive /\ run.phase # "starting" /\ commands # << >>
    /\ run' = [Taken(Head(commands)) EXCEPT !.phase = Ready(Tail(commands))]
    /\ commands' = Tail(commands)
    /\ OwnerUnchanged /\ UNCHANGED reports

Playing == run.alive /\ run.phase = "playing"

Event(op, slot, request) ==
    [op |-> op, slot |-> slot, request |-> request,
     identity |-> run.identity]

\* The track that ends and the one that starts.
Announce(slot, request) ==
    \E ended \in {<< >>} \cup {<<Event("completed", id, NoRequest)>> : id \in run.held} :
        /\ reports' = reports \o ended \o <<Event("changed", slot, request)>>
        /\ OwnerUnchanged /\ UNCHANGED commands

\* emit_track_changed with the armed jump's tag
RunSettlesJump ==
    /\ Playing /\ run.jump # NoTransition
    /\ Announce(run.jump.target, run.jump.request)
    /\ run' = [run EXCEPT !.jump = NoTransition]

\* The end of a track, or mpv navigating by itself, starts any held slot.
RunAdvances ==
    /\ Playing /\ run.jump = NoTransition
    /\ \E id \in run.held : Announce(id, NoRequest)
    /\ UNCHANGED run

\* The jump's load fails, or mpv refuses it: nothing is announced.
RunDropsJump ==
    /\ Playing /\ run.jump # NoTransition
    /\ run' = [run EXCEPT !.jump = NoTransition]
    /\ OwnerUnchanged /\ UNCHANGED <<commands, reports>>

\* The end of the queue, a stop, a failure or a crash of mpv: the commands
\* that were not taken are lost.
RunEnds ==
    /\ run.alive
    /\ run' = NoRun
    /\ commands' = << >>
    /\ \E last \in IF run.phase = "starting" THEN {<< >>} ELSE Stopped(run.identity) :
          reports' = reports \o last
    /\ OwnerUnchanged

-----------------------------------------------------------------------------
Next ==
    \/ ClientStep \/ TransportStep \/ PlaySlot
    \/ RemoveSlot \/ RemoveSlots \/ ReorderQueue \/ AppendItem \/ Stop
    \/ ClearQueue \/ ReplaceQueue \/ AdoptQueue \/ InstallResolved
    \/ HandleTrackChanged \/ HandleEnded \/ OnRecvTimeout
    \/ RunStarts \/ RunTakes \/ RunSettlesJump \/ RunAdvances \/ RunDropsJump \/ RunEnds

Spec == Init /\ [][Next]_vars

\* The owner's loop handles what is in its channel, and comes to an idle
\* moment (25 ms without an event) again and again.
FairSpec ==
    /\ Spec
    /\ WF_vars(HandleTrackChanged \/ HandleEnded)
    /\ SF_vars(OnRecvTimeout)

-----------------------------------------------------------------------------
(* Properties.                                                             *)

QueueType ==
    [slots : Seq(Slot), active : SlotId \cup {NoSlot}, revision : Nat, next : Nat]

\* Type correctness; with it, that every jump the owner accepts names a slot.
TypeOK ==
    /\ queue \in QueueType
    /\ lineage \in Nat /\ generation \in Nat
    /\ observed \in SlotId \cup {NoSlot}
    /\ in_flight \in Transition \cup {NoTransition}
    /\ queued_latest \in Transition \cup {NoTransition}
    /\ deadline \in BOOLEAN
    /\ queued_transition_origin \in
            [request : Nat, client : Clients] \cup {NoOrigin}
    /\ next_local_id \in Nat
    /\ requests \in [Clients -> Nat]
    /\ run \in Run
    /\ commands \in Seq(Command)
    /\ reports \in Seq(Report)

\* A transition waits only behind another one, and the origin the owner
\* tracks beside its transition state, in a variable that dispatch, settle,
\* expiry and every reset must update too, is the origin of that transition.
OriginTracksQueued ==
    /\ queued_latest # NoTransition => in_flight # NoTransition
    /\ queued_transition_origin =
            IF queued_latest = NoTransition THEN NoOrigin ELSE Origin(queued_latest)

\* Whenever a newer jump takes the place of a client's queued one, that
\* client is sent Superseded for it, whoever displaced it and whatever came
\* before (accept returns it "so the caller reports Superseded for it").
DisplacedIsTold ==
    [][(/\ queued_latest # NoTransition /\ queued_latest.sender # NoClient
        /\ queued_latest' # NoTransition /\ queued_latest' # queued_latest)
        => Identity(queued_latest) \in history'.superseded]_vars

Pending ==
    {in_flight, queued_latest, run.jump}
        \cup {commands[i].jump : i \in DOMAIN commands}

\* A jump its client was told is superseded is gone for good: no later
\* settle, expiry or restart brings it back in front of the run.
SupersededNeverPlays ==
    \A t \in Pending \ {NoTransition} : Identity(t) \notin history.superseded

\* A jump in flight has been sent to a run.  One that finds no run becomes a
\* cold start and leaves the owner with nothing to wait for, so that it
\* cannot hold up the jumps behind it (invariant 13, item 3).
InFlightWasSent ==
    in_flight # NoTransition => Identity(in_flight) = history.sent

OnItsWay == ({run.jump} \cup {commands[i].jump : i \in DOMAIN commands}) \ {NoTransition}
Identities(ts) == {Identity(t) : t \in ts}
Asked == (UNION {{<<c, FALSE, r>> : r \in 1..requests[c]} : c \in Clients})
         \cup ((Clients \cup {NoClient}) \X {TRUE} \X (1..next_local_id))

Jumps == INSTANCE LatestJump WITH
    Owned <- Clients \X BOOLEAN \X Nat,
    in_flight <- Identities({in_flight} \ {NoTransition}),
    waiting <- Identities({queued_latest} \ {NoTransition}),
    sent <- Identities(OnItsWay),
    told <- history.superseded,
    asked <- Asked

\* The owner, its channels and the run together keep the promise of one jump
\* at a time with the latest behind it (OwnerTransitionState), whatever edits,
\* expiries, rejections and restarts of the run come between.
ImplementsLatestJump == Jumps!Spec

\* No jump stays in flight for ever, whatever the run does with it: lost
\* commands, rejected targets and dead runs all end in a settle, an expiry or
\* a reset.
TransitionsResolve ==
    []<>(in_flight = NoTransition) \/ []<><<in_flight' # in_flight>>_vars
=============================================================================

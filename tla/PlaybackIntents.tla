-------------------------- MODULE PlaybackIntents --------------------------
(***************************************************************************)
(* The guarded playback intents of the daemon (PlaybackIntentState in      *)
(* crates/mbv-daemon/src/core.rs and the handlers that drive it): a client *)
(* asks for a play, a stop or a pause under a request id of its own; the   *)
(* owner keeps one current intent, looks the items of a play up in another *)
(* thread, and reports an outcome once the player confirms it.             *)
(*                                                                         *)
(* The output is the local run.  The slot jumps, which module              *)
(* OwnerTransitions describes with the outcomes reported on them, are      *)
(* reduced to their request ids and senders, and the run to what it tells  *)
(* the owner and to mpv's pause flag.  A request's generation equals its   *)
(* id and is left out; the pause that the pipe output holds until its      *)
(* first sample is left out too.                                           *)
(* `reported', `newest' and `installed' are history: the outcomes the      *)
(* owner reported, the intent it accepted last, the plays it installed.    *)
(***************************************************************************)
EXTENDS Integers, Sequences, FiniteSets

CONSTANTS
    Connections,   \* control connections
    NoConnection,  \* the sender of a transport step
    Items,         \* Emby item ids
    Plays,         \* the item lists and start positions clients play
    NoIntent,      \* no current intent
    NoTransition,  \* no slot jump in flight
    Pipe,          \* audio_pipe_enabled
    Delay          \* whether audio_pipe_playout_delay_ms is set

ASSUME ConnectionsAssumption == NoConnection \notin Connections
ASSUME PlaysAssumption ==
    \A p \in Plays : /\ p \in [items : Seq(Items), start : Nat \ {0}]
                     /\ p.items # << >>
ASSUME OutputAssumption == Pipe \in BOOLEAN /\ Delay \in BOOLEAN

VARIABLES
    registry,       \* per connection: known, dropped by a failed broadcast, gone
    requests,       \* per connection, the last request id it used
    current,        \* PlaybackIntentState::current
    lookups,        \* item lookups whose answer the owner has not handled
    in_flight,      \* the slot jump in flight
    queued_latest,  \* the one held back behind it
    next_local_id,  \* ids minted for jumps without a client request
    queue,          \* the items of the canonical queue
    status_paused,  \* PlayerStatus::paused
    run,            \* the playback run and mpv's own pause flag
    commands,       \* PlayerCommands the run has not taken yet
    events,         \* PlayerEvents the owner has not handled yet
    reported, newest, installed

jumps == <<in_flight, queued_latest>>
owner == <<registry, requests, current, lookups, jumps, next_local_id,
           queue, reported, newest, installed>>
engine == <<status_paused, run, commands>>
player == <<engine, events>>
vars == <<owner, player>>

Toggle == {"pause", "resume"}
NoPlay == [items |-> << >>, start |-> 1]
Action == [kind : {"play"}, play : Plays] \cup [kind : {"stop"} \cup Toggle, play : {NoPlay}]
Phase == {"accepted", "resolving", "opening", "buffering", "applied"}
Intent == [connection : Connections, request : Nat, action : Action, phase : Phase]
Outcome == {"accepted", "applied", "coalesced", "superseded", "rejected"}

\* The run: the slots it holds, the one it plays, mpv's pause flag and the
\* value of it that mpv reported last.
NoRun == [alive |-> FALSE, stopping |-> FALSE, len |-> 0, at |-> 0,
          paused |-> FALSE, seen |-> {}]
Command ==
    [op : {"toggle"}, paused : BOOLEAN]
        \cup {c \in [op : {"submit"}, len : Nat, at : Nat] : c.at <= c.len}
Event ==
    [op : {"changed"}, slot : Nat] \cup [op : {"paused"}, paused : BOOLEAN]
        \cup [op : {"started", "stopped"}]
Submission(play, at) == [op |-> "submit", len |-> Len(play.items), at |-> at]
TogglePause(desired) == [op |-> "toggle", paused |-> desired]

Init ==
    /\ registry = [c \in Connections |-> "up"]
    /\ requests = [c \in Connections |-> 0]
    /\ current = NoIntent /\ lookups = {}
    /\ in_flight = NoTransition /\ queued_latest = NoTransition
    /\ next_local_id = 0
    /\ queue = << >> /\ status_paused = FALSE /\ run = NoRun
    /\ commands = << >> /\ events = << >>
    /\ reported = {} /\ newest = << >> /\ installed = {}

-----------------------------------------------------------------------------
(* Accepting an intent.                                                    *)

Identity(i) == <<i.connection, i.request>>
Unresolved == current # NoIntent /\ current.phase # "applied"
Own(c) == Unresolved /\ current.connection = c
IsPlay(i) == i # NoIntent /\ i.action.kind = "play"

Coalesces(c, action) == Own(c) /\ current.action = action

\* What the intent displaces is told so only if it is the same connection's.
Superseded(c, action) ==
    IF Own(c) /\ (action.kind = "stop" \/ (IsPlay(current) /\ action.kind = "play"))
    THEN {<<current.connection, current.request, "superseded">>} ELSE {}

\* Fault: the intent of another connection stays current.
AcceptKeepsOthers(c, r, action, phase) ==
    /\ ~ Coalesces(c, action)
    /\ current' = IF Unresolved /\ ~ Own(c) THEN current
                  ELSE [connection |-> c, request |-> r, action |-> action, phase |-> phase]
    /\ newest' = <<c, r>>
    /\ reported' = reported \cup Superseded(c, action) \cup {<<c, r, "accepted">>}
                     \cup (IF phase = "applied" THEN {<<c, r, "applied">>} ELSE {})

\* PlaybackIntentState::accept, leaving the phase its handler ends in.
Accept(c, r, action, phase) ==
    /\ ~ Coalesces(c, action)
    /\ current' = [connection |-> c, request |-> r, action |-> action, phase |-> phase]
    /\ newest' = <<c, r>>
    /\ reported' = reported \cup Superseded(c, action) \cup {<<c, r, "accepted">>}
                     \cup (IF phase = "applied" THEN {<<c, r, "applied">>} ELSE {})

\* handle_playback_intent answers a coalesced intent and does nothing else.
Coalesce(c, r, action) ==
    /\ Coalesces(c, action)
    /\ reported' = reported \cup {<<c, r, "coalesced">>}
    /\ UNCHANGED <<current, newest, lookups, jumps, player>>

NewRequest(c) ==
    /\ registry[c] = "up"
    /\ requests' = [requests EXCEPT ![c] = @ + 1]
    /\ UNCHANGED <<registry, next_local_id, queue, installed>>

\* resolve_play_intent; without an Emby service nothing is looked up.
PlayIntent(c) ==
    \E play \in Plays :
        LET action == [kind |-> "play", play |-> play]
            r == requests[c] + 1
        IN /\ NewRequest(c)
           /\ \/ Coalesce(c, r, action)
              \/ /\ Accept(c, r, action, "resolving")
                 /\ lookups' = lookups \cup
                        {[connection |-> c, request |-> r, play |-> play]}
                 /\ UNCHANGED <<jumps, player>>
              \/ /\ Accept(c, r, action, "accepted")
                 /\ UNCHANGED <<lookups, jumps, player>>

\* reset_slot_jumps
ResetSlotJumps == in_flight' = NoTransition /\ queued_latest' = NoTransition

\* handle_stop
StopOutput ==
    /\ run' = [run EXCEPT !.stopping = run.alive]
    /\ ResetSlotJumps
    /\ UNCHANGED <<status_paused, commands, events>>

\* A stop settles in its handler.
StopIntent(c) ==
    /\ NewRequest(c)
    /\ Accept(c, requests[c] + 1, [kind |-> "stop", play |-> NoPlay], "applied")
    /\ StopOutput
    /\ UNCHANGED lookups

\* Player::send_command: without a run the command is dropped.
SendCommand(command) ==
    commands' = IF run.alive THEN Append(commands, command) ELSE commands

\* SetPaused on the local run: the player is toggled if its status differs
\* from the desired state.
SetPausedIntent(c) ==
    \E kind \in Toggle :
        LET action == [kind |-> kind, play |-> NoPlay]
            desired == kind = "pause"
            r == requests[c] + 1
        IN /\ NewRequest(c)
           /\ \/ Coalesce(c, r, action)
              \/ /\ Accept(c, r, action, "accepted")
                 /\ IF status_paused # desired THEN SendCommand(TogglePause(desired))
                    ELSE UNCHANGED commands
                 /\ UNCHANGED <<lookups, jumps, status_paused, run, events>>

-----------------------------------------------------------------------------
(* Slot jumps.                                                             *)

\* The run of a fresh submission
FreshRun(len, at) ==
    [alive |-> TRUE, stopping |-> FALSE, len |-> len, at |-> at, paused |-> FALSE, seen |-> {}]

\* cold_start_at_slot: the queue is submitted at the target, or refused.
RestartQueue ==
    \/ /\ \E at \in DOMAIN queue : run' = FreshRun(Len(queue), at)
       /\ commands' = << >> /\ status_paused' = FALSE
    \/ UNCHANGED engine

\* send_jump_or_cold_start
Deliver(t, behind) ==
    \/ /\ run.alive
       /\ in_flight' = t /\ queued_latest' = behind
       /\ UNCHANGED engine
    \/ ~ run.alive /\ ResetSlotJumps /\ RestartQueue

\* dispatch_slot_jump
DispatchSlotJump(t) ==
    \/ in_flight = NoTransition /\ Deliver(t, queued_latest)
    \/ /\ in_flight # NoTransition
       /\ queued_latest' = t
       /\ UNCHANGED <<in_flight, engine>>

\* The jump in flight is done: the queued one takes its place.
Promote ==
    \/ queued_latest # NoTransition /\ Deliver(queued_latest, NoTransition)
    \/ queued_latest = NoTransition /\ ResetSlotJumps /\ UNCHANGED engine

\* Next and Previous never become current.  They find no neighbor, join the
\* newest jump, or dispatch one under their request id.
StepIntent(c) ==
    LET r == requests[c] + 1
        accepted == reported \cup {<<c, r, "accepted">>}
    IN /\ NewRequest(c)
       /\ \/ /\ reported' = accepted
             /\ UNCHANGED <<jumps, engine>>
          \/ /\ in_flight # NoTransition
             /\ reported' = accepted \cup {<<c, r, "coalesced">>}
             /\ UNCHANGED <<jumps, engine>>
          \/ /\ queue # << >>
             /\ reported' = accepted
             /\ DispatchSlotJump([request |-> r, sender |-> c])
       /\ UNCHANGED <<current, newest, lookups, events>>

\* A transport step, or a client's jump to a slot, under a locally minted id.
LocalJump ==
    \E sender \in Connections \cup {NoConnection} :
        /\ queue # << >>
        /\ next_local_id' = next_local_id + 1
        /\ DispatchSlotJump([request |-> next_local_id + 1, sender |-> sender])
        /\ UNCHANGED <<registry, requests, current, lookups, queue, reported, newest,
                       installed, events>>

-----------------------------------------------------------------------------
(* Without an intent.                                                      *)

\* CtrlCmd::Stop and the stop of a transport.
PlainStop ==
    /\ StopOutput
    /\ UNCHANGED <<registry, requests, current, lookups, next_local_id, queue,
                   reported, newest, installed>>

\* broadcast_to_all forgets a client whose channel has failed.
BroadcastFails(c) ==
    /\ registry[c] = "up"
    /\ registry' = [registry EXCEPT ![c] = "dropped"]
    /\ UNCHANGED <<requests, current, lookups, jumps, next_local_id, queue,
                   reported, newest, installed, player>>

\* PlaybackIntentState::invalidate_connection
Invalidated(c) ==
    IF current # NoIntent /\ current.connection = c THEN NoIntent ELSE current

\* Fault: the intent of the closed connection stays current.
DisconnectKeepsIntent(c) ==
    /\ registry[c] # "gone"
    /\ registry' = [registry EXCEPT ![c] = "gone"]
    /\ UNCHANGED <<requests, current, lookups, jumps, next_local_id, queue,
                   reported, newest, installed, player>>

HandleCtrlDisconnected(c) ==
    /\ registry[c] # "gone"
    /\ registry' = [registry EXCEPT ![c] = "gone"]
    /\ current' = Invalidated(c)
    /\ UNCHANGED <<requests, lookups, jumps, next_local_id, queue, reported,
                   newest, installed, player>>

-----------------------------------------------------------------------------
(* The lookup comes back.                                                  *)

IsCurrent(l) == current # NoIntent /\ Identity(current) = Identity(l)

\* Fault: the start position is used as it came.
StartIndexUnclamped(play) == play.start

\* The start position, clamped to the fetched items.
StartIndex(play) ==
    IF play.start > Len(play.items) THEN Len(play.items) ELSE play.start

\* Player::submit_queue_slots, into the live run or a fresh one; the status is
\* seeded at once.
Submit(play) ==
    \/ /\ run.alive /\ ~ run.stopping
       /\ SendCommand(Submission(play, StartIndex(play)))
       /\ UNCHANGED run
    \/ /\ run' = FreshRun(Len(play.items), StartIndex(play))
       /\ commands' = << >>

\* Fault: a failed lookup is logged and forgotten.
RefuseSilently(l) == UNCHANGED <<current, reported, jumps, queue, installed, player>>

\* Fault: the refused intent stays current.
RefuseKeepsCurrent(l) ==
    /\ reported' = reported \cup {<<l.connection, l.request, "rejected">>}
    /\ UNCHANGED <<current, jumps, queue, installed, player>>

\* A failed, an empty and an audio-only refused lookup
Refuse(l) ==
    /\ current' = NoIntent
    /\ reported' = reported \cup {<<l.connection, l.request, "rejected">>}
    /\ UNCHANGED <<jumps, queue, installed, player>>

\* play_resolved_items on the local run
Install(l) ==
    /\ current' = [current EXCEPT !.phase = "opening"]
    /\ ResetSlotJumps
    /\ queue' = l.play.items
    /\ installed' = installed \cup {Identity(l)}
    /\ Submit(l.play) /\ status_paused' = FALSE
    /\ UNCHANGED <<reported, events>>

\* Fault: only the intent is compared, not the registry of clients.
ResolvedForAnyone(l) ==
    \/ ~ IsCurrent(l) /\ UNCHANGED <<current, reported, jumps, queue, installed, player>>
    \/ IsCurrent(l) /\ (Refuse(l) \/ Install(l))

Resolved(l) ==
    \/ /\ registry[l.connection] # "up"
       /\ current' = Invalidated(l.connection)
       /\ UNCHANGED <<reported, jumps, queue, installed, player>>
    \/ /\ registry[l.connection] = "up" /\ ~ IsCurrent(l)
       /\ UNCHANGED <<current, reported, jumps, queue, installed, player>>
    \/ /\ registry[l.connection] = "up" /\ IsCurrent(l)
       /\ (Refuse(l) \/ Install(l))

HandlePlaybackResolved ==
    \E l \in lookups :
        /\ lookups' = lookups \ {l}
        /\ Resolved(l)
        /\ UNCHANGED <<registry, requests, next_local_id, newest>>

-----------------------------------------------------------------------------
(* The player reports.                                                     *)

\* applied_if_current
Applied ==
    /\ current' = [current EXCEPT !.phase = "applied"]
    /\ reported' = reported \cup {<<current.connection, current.request, "applied">>}

Waiting(op) ==
    /\ events # << >> /\ Head(events).op = op
    /\ events' = Tail(events)
    /\ UNCHANGED <<registry, requests, lookups, next_local_id, queue, newest, installed>>

\* handle_track_changed: any track of the queue that the play names confirms
\* it.  The jump in flight may settle and hand over to the queued one.
HandleTrackChanged ==
    LET slot == Head(events).slot IN
    /\ Waiting("changed")
    /\ \/ slot \notin DOMAIN queue /\ UNCHANGED <<jumps, engine, current, reported>>
       \/ /\ slot \in DOMAIN queue
          /\ \/ in_flight # NoTransition /\ Promote
             \/ UNCHANGED <<jumps, engine>>
          /\ IF IsPlay(current) /\ \E i \in DOMAIN current.action.play.items :
                                      current.action.play.items[i] = queue[slot]
             THEN Applied ELSE UNCHANGED <<current, reported>>

\* settle_player_event_intent
HandlePausedChanged ==
    LET kind == IF Head(events).paused THEN "pause" ELSE "resume" IN
    /\ Waiting("paused")
    /\ IF current # NoIntent /\ current.action.kind = kind
       THEN Applied ELSE UNCHANGED <<current, reported>>
    /\ UNCHANGED <<jumps, engine>>

HandleStopped ==
    /\ Waiting("stopped")
    /\ IF current # NoIntent /\ current.action.kind = "stop"
       THEN Applied ELSE UNCHANGED <<current, reported>>
    /\ UNCHANGED <<jumps, engine>>

\* handle_output_started, with output_started_if_current: only a play on the
\* pipe waits for its samples.
HandleOutputStarted ==
    /\ Waiting("started")
    /\ \/ /\ Pipe /\ IsPlay(current) /\ Delay
          /\ current' = [current EXCEPT !.phase = "buffering"]
          /\ UNCHANGED reported
       \/ Pipe /\ IsPlay(current) /\ ~ Delay /\ Applied
       \/ ~ (Pipe /\ IsPlay(current)) /\ UNCHANGED <<current, reported>>
    /\ UNCHANGED <<jumps, engine>>

HandlePlayerEvent ==
    HandleTrackChanged \/ HandlePausedChanged \/ HandleStopped \/ HandleOutputStarted

\* settle_buffering_if_due, in on_recv_timeout
Buffered ==
    IF registry[current.connection] = "up"
    THEN [current EXCEPT !.phase = "applied"] ELSE NoIntent

\* on_recv_timeout, when no event came: a playout delay may have passed, and
\* then a jump in flight may have expired.  The intent whose request id is
\* the expired jump's is rejected.
OnRecvTimeout ==
    \E due, expired \in BOOLEAN :
        LET settled == IF due THEN Buffered ELSE current
            hit == expired /\ settled # NoIntent /\ settled.request = in_flight.request
        IN /\ events = << >> /\ (due \/ expired)
           /\ due => current # NoIntent /\ current.phase = "buffering"
           /\ expired => in_flight # NoTransition
           /\ current' = IF hit THEN NoIntent ELSE settled
           /\ reported' = reported
                \cup (IF due /\ settled # NoIntent
                      THEN {<<settled.connection, settled.request, "applied">>} ELSE {})
                \cup (IF hit THEN {<<settled.connection, settled.request, "rejected">>}
                      ELSE {})
           /\ IF expired THEN Promote ELSE UNCHANGED <<jumps, engine>>
           /\ UNCHANGED <<registry, requests, lookups, next_local_id, queue, newest,
                          installed, events>>

-----------------------------------------------------------------------------
(* The playback run.                                                       *)

\* A toggle negates the pause status the run last saw from mpv; a submission
\* starts unpaused.
Taken(c) ==
    IF c.op = "toggle" THEN [run EXCEPT !.paused = ~ status_paused]
    ELSE [run EXCEPT !.len = c.len, !.at = c.at, !.paused = FALSE]

RunTakes ==
    /\ run.alive /\ commands # << >>
    /\ run' = Taken(Head(commands))
    /\ commands' = Tail(commands)
    /\ UNCHANGED <<owner, status_paused, events>>

\* mpv's pause property reaches the run, and through it the owner.
RunObservesPause ==
    /\ run.alive /\ run.seen # {run.paused}
    /\ run' = [run EXCEPT !.seen = {run.paused}]
    /\ status_paused' = run.paused
    /\ events' = Append(events, [op |-> "paused", paused |-> run.paused])
    /\ UNCHANGED <<owner, commands>>

\* The user of the mpv window pauses or resumes.
MpvTogglesPause ==
    /\ run.alive
    /\ run' = [run EXCEPT !.paused = ~ @]
    /\ UNCHANGED <<owner, status_paused, commands, events>>

\* PlaybackRestart: a file or a seek starts.
RunOutputStarts ==
    /\ run.alive
    /\ events' = Append(events, [op |-> "started"])
    /\ UNCHANGED <<owner, status_paused, run, commands>>

\* The run moves to another slot.  The first track of a submission is not a
\* move and is not reported.
RunMoves ==
    \E slot \in 1..run.len :
        /\ run.alive /\ slot # run.at
        /\ run' = [run EXCEPT !.at = slot]
        /\ events' = Append(events, [op |-> "changed", slot |-> slot])
        /\ UNCHANGED <<owner, status_paused, commands>>

RunEnds ==
    /\ run.alive
    /\ run' = NoRun
    /\ commands' = << >>
    /\ events' = Append(events, [op |-> "stopped"])
    /\ UNCHANGED <<owner, status_paused>>

-----------------------------------------------------------------------------
ClientActs(c) ==
    PlayIntent(c) \/ StopIntent(c) \/ SetPausedIntent(c) \/ StepIntent(c)

Next ==
    \/ \E c \in Connections :
          ClientActs(c) \/ BroadcastFails(c) \/ HandleCtrlDisconnected(c)
    \/ LocalJump \/ PlainStop
    \/ HandlePlaybackResolved \/ HandlePlayerEvent \/ OnRecvTimeout
    \/ RunTakes \/ RunObservesPause \/ MpvTogglesPause
    \/ RunOutputStarts \/ RunMoves \/ RunEnds

Spec == Init /\ [][Next]_vars

\* A lookup returns; the owner handles what is in its channel; the run takes
\* its commands, sees mpv's properties, and comes to the end of its tracks.
Fairness ==
    /\ WF_vars(HandlePlaybackResolved)
    /\ WF_vars(HandlePlayerEvent)
    /\ WF_vars(RunTakes)
    /\ WF_vars(RunObservesPause)
    /\ WF_vars(RunEnds)

FairSpec == Spec /\ Fairness

-----------------------------------------------------------------------------
(* Properties.                                                             *)

\* Type correctness; with it, that the run plays a slot it holds.
TypeOK ==
    /\ registry \in [Connections -> {"up", "dropped", "gone"}]
    /\ requests \in [Connections -> Nat]
    /\ current \in Intent \cup {NoIntent}
    /\ lookups \subseteq [connection : Connections, request : Nat, play : Plays]
    /\ {in_flight, queued_latest} \subseteq
            [request : Nat, sender : Connections \cup {NoConnection}] \cup {NoTransition}
    /\ next_local_id \in Nat
    /\ queue \in Seq(Items)
    /\ status_paused \in BOOLEAN
    /\ run \in [alive : BOOLEAN, stopping : BOOLEAN, len : Nat, at : Nat,
                paused : BOOLEAN, seen : SUBSET BOOLEAN]
    /\ run.at \in 0..run.len
    /\ commands \in Seq(Command) /\ events \in Seq(Event)
    /\ reported \subseteq Connections \X Nat \X Outcome
    /\ installed \subseteq Connections \X Nat

\* An answered lookup starts playback only for the intent accepted last, of
\* all connections, and only once: neither a play that a newer one replaced
\* nor one that a stop of any client followed can start any more, however
\* late its answer comes ("Latest Play intent wins", "Stop always wins").
LatestIntentWins ==
    [][\A i \in installed' \ installed : i = newest]_vars

\* A client that is no longer connected starts nothing, whichever of the
\* failed broadcast, the disconnect and the answer comes first.
GoneClientStartsNothing ==
    [][\A i \in installed' \ installed : registry[i[1]] = "up"]_vars

\* The current intent never belongs to a closed connection, whose client
\* could not displace it by asking again.
NoOrphanIntent == current # NoIntent => registry[current.connection] # "gone"

\* Superseded, rejected and coalesced are the last word of the intents on a
\* request: no late lookup, track change, pause or timeout reports on it
\* again.
LastWordIsLast ==
    [][\A o \in reported' \ reported :
        \A final \in {"superseded", "rejected", "coalesced"} :
            <<o[1], o[2], final>> \notin reported]_vars

Resolving(c, r) ==
    /\ current # NoIntent /\ Identity(current) = <<c, r>>
    /\ current.phase = "resolving"

\* A lookup that fails, returns nothing or comes back after its client left
\* never leaves the intent resolving, where it would swallow every equal
\* press of its client.
ResolvingEnds ==
    \A c \in Connections : \A r \in {1, 2} : Resolving(c, r) ~> ~ Resolving(c, r)
=============================================================================

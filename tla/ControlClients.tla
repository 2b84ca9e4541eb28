-------------------------- MODULE ControlClients --------------------------
(***************************************************************************)
(* The control connections of a Local owner: the registry and admission    *)
(* (crates/mbv-daemon/src/ctrl.rs, core_ctrl_spawn.rs), the Pin swap that  *)
(* replaces one client by another (event_loop/pin_swap.rs), the broadcasts *)
(* that keep clients in step, and the end of the owner once its last       *)
(* client is gone (event_loop.rs, event_loop/control_events.rs).           *)
(*                                                                         *)
(* Each connection has a reader thread of its own that classifies the      *)
(* Hello, reads the settings and the reconnect snapshot, and only then     *)
(* takes the registry's lock; the event loop is one thread.  A client is   *)
(* reduced to its kind, the queue it last heard of, and what it was told;  *)
(* a queue to the ordinal of the edit that made it; a launch to its        *)
(* ordinal, which is its one-shot token.  `launched', `was_alive' and the  *)
(* field `by' of a connection are history.                                 *)
(***************************************************************************)
EXTENDS FiniteSets, SequencesExt, KeptSequences

CONSTANTS
    Sessions,    \* connections ever accepted
    Kinds,       \* the kinds of peers that connect
    NoSession,   \* no Pin-swap target
    MaxLaunches, \* swaps and launches ever asked for
    MaxEdits,    \* queue edits
    MaxFaults    \* peers that stop reading, launches that fail, settings toggled

ASSUME BoundsAssumption == {MaxLaunches, MaxEdits, MaxFaults} \subseteq Nat

VARIABLES
    session,       \* per connection: where its thread is and what it negotiated
    connection,    \* the registry, oldest first
    held_client,   \* whether a client was ever registered
    shutting_down, \* set before the clients are told
    stay_alive,    \* the owner setting, read where it is used
    phase,         \* PinSwapState::phase
    pending,       \* PendingSwapToken: a token, or 0
    loop,          \* where the event loop is
    events,        \* DaemonEvents the loop has not handled
    queue,         \* the canonical queue
    shared,        \* SharedQueueState::queue, the reconnect snapshot
    running,       \* launches whose process has not ended
    launched, was_alive,
    requests, faults \* counted for their bounds

registry == <<connection, held_client, shutting_down>>
swap == <<phase, pending, running, launched>>
settings == <<stay_alive, was_alive>>
bounds == <<requests, faults>>
vars == <<session, registry, settings, swap, loop, events, queue, shared, bounds>>

\* Kinds of peers: the surface a terminal or pinned client advertises, a
\* client without one (the GUI), a TCP client, an administrative connection.
Kind == {"terminal", "pinned", "plain", "remote", "admin"}
ASSUME SessionsAssumption == NoSession \notin Sessions /\ Kinds \subseteq Kind
IsDriver(k) == k # "admin"
TokenKinds == {"terminal", "pinned"}

NoHello == [at |-> "off", kind |-> "admin", token |-> 0, stay |-> FALSE, view |-> 0,
            by |-> 0, broken |-> FALSE, told |-> {}]
Idle == [at |-> "idle", target |-> NoSession, token |-> 0]
Token == 0..MaxLaunches
Event ==
    [op : {"prepared", "left"}, session : Sessions] \cup [op : {"admitted", "failed"}, token : Token]
        \cup [op : {"last_gone"}]

Init ==
    /\ session = [s \in Sessions |-> NoHello] /\ connection = << >>
    /\ held_client = FALSE /\ shutting_down = FALSE
    /\ stay_alive \in BOOLEAN /\ was_alive = stay_alive
    /\ phase = Idle /\ pending = 0 /\ running = {} /\ launched = << >>
    /\ loop = "recv" /\ events = << >> /\ queue = 0 /\ shared = 0
    /\ requests = 0 /\ faults = 0

\* The threads of the owner run until its loop ends.
Alive == loop # "exited"
\* What the loop will still handle: a shutdown leaves the rest of its queue.
Handled(es) == IF loop \in {"recv", "publish"} THEN es ELSE << >>
Post(event) == events' = Handled(Append(events, event))
Fault == faults < MaxFaults /\ faults' = faults + 1 /\ UNCHANGED requests
Ask == requests < MaxLaunches /\ requests' = requests + 1 /\ UNCHANGED faults

Registered(s) == Contains(connection, s)
HasDriver == \E s \in Sessions : Registered(s) /\ IsDriver(session[s].kind)

\* newest_swap_client.
Newest(surface) ==
    LET candidates == Kept(connection, {s \in Sessions : session[s].kind = surface})
    IN  IF candidates = << >> THEN NoSession ELSE Last(candidates)

-----------------------------------------------------------------------------
(* The reader thread of a connection.                                      *)

\* Everything read before the registry's lock is taken.
Hello(s) ==
    /\ Alive /\ session[s].at = "off"
    /\ \E k \in Kinds, t \in 0..Len(launched) :
        /\ t # 0 => k \in TokenKinds
        /\ session' = [session EXCEPT ![s] =
               [NoHello EXCEPT !.at = "hello", !.kind = k, !.token = t,
                               !.stay = stay_alive, !.view = shared]]
    /\ UNCHANGED <<registry, settings, swap, loop, events, queue, shared, bounds>>

Refuse(s) ==
    /\ session' = [session EXCEPT ![s] = [NoHello EXCEPT !.at = "refused"]]
    /\ UNCHANGED <<registry, pending, events>>

\* connect_with_role.
Connect(s, token) ==
    /\ session' = [session EXCEPT ![s] = [NoHello EXCEPT !.at = "attached", !.kind = session[s].kind,
                                                       !.view = session[s].view, !.by = token]]
    /\ connection' = Append(connection, s)
    /\ held_client' = (held_client \/ IsDriver(session[s].kind))
    /\ UNCHANGED shutting_down

\* take_matching.
Matches(s) == session[s].token # 0 /\ session[s].token = pending

\* Fault: a second driver is let in.
AdmitAnyone(s) ==
    /\ Alive /\ session[s].at = "hello"
    /\ IF shutting_down THEN Refuse(s)
       ELSE IF Matches(s)
       THEN /\ pending' = 0 /\ Connect(s, session[s].token)
            /\ Post([op |-> "admitted", token |-> session[s].token])
       ELSE Connect(s, 0) /\ UNCHANGED <<pending, events>>
    /\ UNCHANGED <<settings, phase, running, launched, loop, queue, shared, bounds>>

\* Fault: a client is let in while the owner tells the others of its end.
AdmitLate(s) ==
    /\ Alive /\ session[s].at = "hello"
    /\ IF Matches(s)
       THEN /\ pending' = 0 /\ Connect(s, session[s].token)
            /\ Post([op |-> "admitted", token |-> session[s].token])
       ELSE IF ~ session[s].stay /\ HasDriver /\ IsDriver(session[s].kind) THEN Refuse(s)
       ELSE Connect(s, 0) /\ UNCHANGED <<pending, events>>
    /\ UNCHANGED <<settings, phase, running, launched, loop, queue, shared, bounds>>

\* send_admission_refusal and the registration, under the registry's lock.
Admit(s) ==
    /\ Alive /\ session[s].at = "hello"
    /\ IF shutting_down THEN Refuse(s)
       ELSE IF Matches(s)
       THEN /\ pending' = 0 /\ Connect(s, session[s].token)
            /\ Post([op |-> "admitted", token |-> session[s].token])
       ELSE IF ~ session[s].stay /\ HasDriver /\ IsDriver(session[s].kind) THEN Refuse(s)
       ELSE Connect(s, 0) /\ UNCHANGED <<pending, events>>
    /\ UNCHANGED <<settings, phase, running, launched, loop, queue, shared, bounds>>

\* The client saved its launch state and says so; an older one never does.
SwapPrepared(s) ==
    /\ Alive /\ session[s].at = "attached" /\ "prepare" \in session[s].told
    /\ session' = [session EXCEPT ![s].told = @ \ {"prepare"}]
    /\ Post([op |-> "prepared", session |-> s])
    /\ UNCHANGED <<registry, settings, swap, loop, queue, shared, bounds>>

\* The end of the stream, whoever closed it.
Leave(s) ==
    /\ Alive /\ session[s].at = "attached" /\ session' = [session EXCEPT ![s].at = "left"]
    /\ Post([op |-> "left", session |-> s])
    /\ UNCHANGED <<registry, settings, swap, loop, queue, shared, bounds>>

\* The peer stops reading: its writer thread gives up after a timeout.
WriterBreaks(s) ==
    /\ Alive /\ session[s].at = "attached" /\ ~ session[s].broken /\ Fault
    /\ session' = [session EXCEPT ![s].broken = TRUE]
    /\ UNCHANGED <<registry, settings, swap, loop, events, queue, shared>>

\* A local client saves the setting.
ToggleStayAlive(s) ==
    /\ Alive /\ session[s].at = "attached" /\ session[s].kind \in {"terminal", "pinned", "plain"}
    /\ stay_alive' = ~ stay_alive /\ was_alive' = TRUE /\ Fault
    /\ UNCHANGED <<session, registry, swap, loop, events, queue, shared>>

-----------------------------------------------------------------------------
(* The registry as the loop and the status thread use it.                  *)

\* retain_clients: `keep' stay; the loop hears of it when nobody is left.
Retain(keep, more) ==
    /\ connection' = Kept(connection, keep)
    /\ events' = Handled(more \o (IF connection # << >> /\ connection' = << >> /\ held_client
                                  THEN <<[op |-> "last_gone"]>> ELSE << >>))

Reachable == {s \in Sessions : session[s].at \in {"attached", "left"} /\ ~ session[s].broken}
Tell(told, what) ==
    [s \in Sessions |-> IF s \in told THEN [session[s] EXCEPT !.told = @ \cup {what}]
                                     ELSE session[s]]

\* Fault: clients found broken by a broadcast are dropped without the check
\* for the last one.
PruneSilently ==
    /\ Alive /\ HasDriver
    /\ connection' = Kept(connection, Reachable)
    /\ UNCHANGED <<session, held_client, shutting_down, settings, swap, loop, events, queue,
                   shared, bounds>>

\* spawn_status_broadcast: also what finds broken writers out in the end.
StatusBroadcast ==
    /\ Alive /\ HasDriver
    /\ Retain(Reachable, events)
    /\ UNCHANGED <<session, held_client, shutting_down, settings, swap, loop, queue, shared, bounds>>

\* An edit is broadcast first; the reconnect snapshot is updated afterwards.
Edit ==
    /\ loop = "recv" /\ loop' = "publish" /\ queue < MaxEdits /\ queue' = queue + 1
    /\ session' = [s \in Sessions |-> IF Registered(s) /\ s \in Reachable
                                      THEN [session[s] EXCEPT !.view = queue + 1] ELSE session[s]]
    /\ Retain(Reachable, events)
    /\ UNCHANGED <<held_client, shutting_down, settings, swap, shared, bounds>>

\* Fault: the snapshot runs ahead of the queue.
PublishAhead ==
    /\ loop = "publish" /\ loop' = "recv" /\ shared' = queue + 1
    /\ UNCHANGED <<session, registry, settings, swap, events, queue, bounds>>

Publish ==
    /\ loop = "publish" /\ loop' = "recv" /\ shared' = queue
    /\ UNCHANGED <<session, registry, settings, swap, events, queue, bounds>>

-----------------------------------------------------------------------------
(* The Pin swap.                                                           *)

Abandon == phase' = Idle /\ pending' = 0

\* spawn_replacement, or the abandon when nothing can be spawned.
Spawn(target) ==
    \/ LET t == Len(launched) + 1 IN
        /\ launched' = Append(launched, target) /\ running' = running \cup {t}
        /\ pending' = t /\ phase' = [at |-> "awaiting", target |-> target, token |-> t]
    \/ Abandon /\ UNCHANGED <<running, launched>>

SwapTarget == IF Newest("pinned") # NoSession THEN Newest("pinned") ELSE Newest("terminal")

\* start: from the tray or from an owner-action connection.
StartSwap ==
    /\ loop = "recv" /\ phase = Idle /\ Ask
    /\ IF SwapTarget = NoSession
       THEN Spawn(NoSession) /\ UNCHANGED session
       ELSE /\ phase' = [at |-> "preparing", target |-> SwapTarget, token |-> 0]
            /\ session' = Tell({SwapTarget}, "prepare") /\ UNCHANGED <<pending, running, launched>>
    /\ UNCHANGED <<registry, settings, loop, events, queue, shared>>

\* open: a launch without a target.
OpenTerminal ==
    /\ loop = "recv" /\ phase = Idle /\ Ask /\ Spawn(NoSession)
    /\ UNCHANGED <<session, registry, settings, loop, events, queue, shared>>

\* poll, in the tick before the next event is taken: the deadline has passed.
Deadline ==
    /\ loop = "recv" /\ phase # Idle /\ Abandon
    /\ UNCHANGED <<session, registry, settings, running, launched, loop, events, queue, shared, bounds>>

\* The waiter thread; an exit in good order changes nothing.
ChildFails(t) ==
    /\ Alive /\ t \in running /\ running' = running \ {t} /\ Fault
    /\ Post([op |-> "failed", token |-> t])
    /\ UNCHANGED <<session, registry, settings, phase, pending, launched, loop, queue, shared>>

-----------------------------------------------------------------------------
(* The event loop.                                                         *)

Takes(op) == loop = "recv" /\ events # << >> /\ Head(events).op = op
Rest == Tail(events)

\* Fault: the old client is told to quit when its replacement is spawned.
QuitAtSpawn ==
    /\ Takes("prepared") /\ events' = Rest
    /\ IF Registered(Head(events).session) /\ phase.at = "preparing"
          /\ phase.target = Head(events).session
       THEN Spawn(phase.target) /\ session' = Tell({phase.target}, "quit")
       ELSE UNCHANGED <<session, swap>>
    /\ UNCHANGED <<registry, settings, loop, queue, shared, bounds>>

OnSwapPrepared ==
    /\ Takes("prepared") /\ events' = Rest
    /\ IF Registered(Head(events).session) /\ phase.at = "preparing"
          /\ phase.target = Head(events).session
       THEN Spawn(phase.target)
       ELSE UNCHANGED swap
    /\ UNCHANGED <<session, registry, settings, loop, queue, shared, bounds>>

OnChildFailed ==
    /\ Takes("failed") /\ events' = Rest
    /\ IF phase.at = "awaiting" /\ phase.token = Head(events).token
       THEN Abandon /\ UNCHANGED <<running, launched>> ELSE UNCHANGED swap
    /\ UNCHANGED <<session, registry, settings, loop, queue, shared, bounds>>

OnSwapAdmitted ==
    /\ Takes("admitted") /\ events' = Rest
    /\ IF phase.at = "awaiting" /\ phase.token = Head(events).token
       THEN /\ Abandon
            /\ session' = Tell({s \in {phase.target} : s # NoSession /\ Registered(s)}, "quit")
       ELSE UNCHANGED <<session, phase, pending>>
    /\ UNCHANGED <<registry, settings, running, launched, loop, queue, shared, bounds>>

\* handle_ctrl_disconnected.
OnLeft ==
    /\ Takes("left")
    /\ IF phase.at = "preparing" /\ phase.target = Head(events).session
       THEN Abandon ELSE UNCHANGED <<phase, pending>>
    /\ Retain(Sessions \ {Head(events).session}, Rest)
    /\ UNCHANGED <<session, held_client, shutting_down, settings, running, launched, loop,
                   queue, shared, bounds>>

\* The registry is asked again: another client may have come since.
OnLastGone ==
    /\ Takes("last_gone")
    /\ IF ~ stay_alive /\ ~ HasDriver THEN loop' = "shutdown" /\ events' = << >>
                                       ELSE UNCHANGED loop /\ events' = Rest
    /\ UNCHANGED <<session, registry, settings, swap, queue, shared, bounds>>

\* SIGTERM, the tray's quit, a client's RequestShutdown.
ShutdownRequested ==
    /\ loop = "recv" /\ loop' = "shutdown" /\ events' = << >>
    /\ UNCHANGED <<session, registry, settings, swap, queue, shared, bounds>>

BeginShutdown ==
    /\ loop = "shutdown" /\ loop' = "notify" /\ shutting_down' = TRUE
    /\ UNCHANGED <<session, connection, held_client, settings, swap, events, queue, shared, bounds>>

\* The clients are told and the player is stopped before the process ends.
NotifyAll ==
    /\ loop = "notify" /\ loop' = "stopping"
    /\ session' = Tell({s \in Sessions : Registered(s)}, "shutdown")
    /\ UNCHANGED <<registry, settings, swap, events, queue, shared, bounds>>

Exit ==
    /\ loop = "stopping" /\ loop' = "exited"
    /\ UNCHANGED <<session, registry, settings, swap, events, queue, shared, bounds>>

LoopStep ==
    \/ Publish \/ OnSwapPrepared \/ OnChildFailed \/ OnSwapAdmitted \/ OnLeft \/ OnLastGone
    \/ BeginShutdown \/ NotifyAll \/ Exit

Request == Edit \/ StartSwap \/ OpenTerminal \/ Deadline \/ ShutdownRequested

Next ==
    \/ \E s \in Sessions :
        \/ Hello(s) \/ Admit(s) \/ SwapPrepared(s) \/ Leave(s) \/ WriterBreaks(s)
        \/ ToggleStayAlive(s)
    \/ \E t \in 1..MaxLaunches : ChildFails(t)
    \/ StatusBroadcast \/ LoopStep \/ Request

Spec == Init /\ [][Next]_vars

-----------------------------------------------------------------------------
(* Properties.                                                             *)

Session ==
    [at : {"off", "hello", "attached", "left", "refused"}, kind : Kind, token : Token,
     stay : BOOLEAN, view : 0..MaxEdits, by : Token, broken : BOOLEAN,
     told : SUBSET {"prepare", "quit", "shutdown"}]

\* Every variable has its type, and nobody is registered twice.
TypeOK ==
    /\ session \in [Sessions -> Session] /\ connection \in Seq(Sessions) /\ IsInjective(connection)
    /\ {held_client, shutting_down, stay_alive, was_alive} \subseteq BOOLEAN
    /\ phase \in [at : {"idle", "preparing", "awaiting"}, target : Sessions \cup {NoSession},
                  token : Token]
    /\ pending \in Token /\ running \subseteq Token
    /\ launched \in Seq(Sessions \cup {NoSession}) /\ Len(launched) <= MaxLaunches
    /\ loop \in {"recv", "publish", "shutdown", "notify", "stopping", "exited"}
    /\ \A i \in DOMAIN events : events[i] \in Event
    /\ queue \in 0..MaxEdits /\ shared \in 0..MaxEdits /\ requests \in 0..MaxLaunches
    /\ faults \in 0..MaxFaults

\* With Stay-alive off throughout, one client drives the owner: a second one
\* gets in only as the replacement the owner itself launched, one per launch,
\* however admissions, departures, deadlines and launches interleave
\* (send_admission_refusal, take_matching).
ExclusiveOwner ==
    LET drivers == {s \in Sessions : Registered(s) /\ IsDriver(session[s].kind)}
        replacements(t) == {s \in Sessions : session[s].by = t}
    IN  /\ ~ was_alive => Cardinality({s \in drivers : session[s].by = 0}) <= 1
        /\ \A t \in 1..MaxLaunches : Cardinality(replacements(t)) <= 1

\* A client is told to quit only when the replacement launched for it has
\* attached: an abandoned or failed swap, and the late admission of an earlier
\* launch, leave the old client alone (on_swap_admitted).
QuitMeansReplaced ==
    \A s \in Sessions : "quit" \in session[s].told =>
        \E r \in Sessions : session[r].by # 0 /\ launched[session[r].by] = s

\* No client the owner has registered loses it without a word: whoever is in
\* the registry when the owner ends was told of the shutdown, admissions that
\* race it included (begin_shutdown before notify_disconnected_all).
ToldBeforeExit ==
    loop = "exited" => \A s \in Sessions : Registered(s) => "shutdown" \in session[s].told

\* An owner that was never asked to stay does not live on without clients:
\* whenever its loop goes to sleep with nobody registered, nobody ever was,
\* whichever of a disconnect, a broken writer found by a broadcast and a
\* refused client came last (notify_last_client_gone, LastClientGone).
NoForgottenOwner ==
    (loop = "recv" /\ events = << >> /\ connection = << >>) => was_alive \/ ~ held_client

\* "Every connected client receives the same daemon state" (ADR 0014), once
\* the loop is idle and nobody is in the middle of connecting.
ClientsConverge ==
    (loop = "recv" /\ \A s \in Sessions : session[s].at # "hello") =>
        \A s \in Sessions : Registered(s) /\ s \in Reachable => session[s].view = queue
=============================================================================

# A TLA+ model of mbv's Player owner

mbv is a terminal media player.  A process called the *Player owner* (the
daemon, crate `mbv-daemon`) holds the queue, drives mpv through a *playback
run* (crate `mbv-player`) and serves any number of clients over the control
protocol (crate `mbv-ctrl`).  This directory models the owner's own logic: the
queue value, the slot jumps between owner and run, the guarded playback intents
of the clients, the run itself with mpv's playlist beside it, the clients'
connections with the pin swap, and the life of the owner process with its lock
and its saved queue.  TLC checks the models on small instances; TLAPS proves the types,
all safety invariants, the action properties and both refinements for every
instance.

## 1. Inventory

| Component | State | Operations | Talks to |
|---|---|---|---|
| Queue value (`mbv-queue`) | slots with ids, active marker, revision, next id | insert, append under a reserved id, replace, clear, truncate, remove, consume, reorder, move, progress, refresh | owned by the Player owner; clients hold copies |
| Slot jumps (`mbv-player/transition.rs`, `owner_state.rs`, `mbv-daemon/core/transition_dispatch.rs`) | the jump in flight, the one queued behind it, its origin, a deadline, the observed slot | dispatch, supersede, settle, expire, reset, relative step | `JumpTo` commands to the run, `TrackChanged` back, `Superseded` to clients |
| Queue commands (`mbv-daemon/control/`) | the canonical queue, its lineage | remove, move, shuffle, play slot, append, clear, replace, adopt | edits mirrored to the run as commands |
| Guarded intents (`mbv-daemon/core.rs`, `control/playback.rs`) | the current intent and its phase | Play, Stop, SetPaused, Next, Previous; settle, reject, invalidate | lookup threads, the run's events, outcomes to clients |
| Owner loop (`mbv-daemon/event_loop*`, `run.rs`) | the merged channel of events | one event at a time, a 25 ms idle timeout | everything |
| Controller and submission (`mbv-player/controller.rs`, `submit.rs`) | channel and stop signal of the run, the sequence generation | send, stop, submit into a live run, cold start | the run's thread |
| Playback run (`mbv-player/run/`) | its copy of the slots, the armed jump, load state, run identity, pause | take commands, follow mpv's events, end | mpv over IPC, events to the owner |
| Progress reporting (`report_worker.rs`, `reporting.rs`) | a FIFO of report jobs | start, progress, stopped, barrier | media servers |
| Control connections (`ctrl.rs`, `core_ctrl_spawn.rs`) | the registry of clients, roles, authority | connect, remove, broadcast | socket threads |
| Pin swap (`event_loop/pin_swap.rs`) | phase, token, deadline | start, prepared, admitted, child exit, poll | a child process, the registry |
| Persistence (`run.rs`, `event_loop.rs`, `mbv-config/state.rs`) | the saved queue | save, flush, restore | a worker thread, a file |
| Owner lock and launch (`owner_lock.rs`, `src/single_instance.rs`, `src/owner_link.rs`, `src/local_daemon.rs`) | a flock on the PID record | lock, probe, launch, attach, signal | other mbv processes |
| Remote outputs (`cast*`, `emby_session*`, `output/`) | the active output, generations, what the owner loaded | connect, load, advance, hand-off | devices and servers |
| Remote player client (`mbv-remote-player`) | connection, pending intents | connect, reconnect, commands | the owner |

Not part of the protocol logic, and not planned: HTTP, websocket and feed
clients, mpv IPC, the terminal interface, configuration, themes, logging,
images, desktop integration.  They are listed in `PROJECT.json` with reasons.

What is hard here: the owner, the run, lookup threads and socket threads run
concurrently and only exchange messages; a run can die with commands in its
channel; a report of a run can arrive after its queue was replaced; a jump can
be lost and is given up after five seconds; the owner can die between a write
and a rename while the next one starts; several clients start an owner at once;
clients come and go while the owner swaps or ends them; request ids come from several
independent counters; an intent that never settles silently swallows later
presses.  `PROJECT.json` lists these hazards at their lines with the properties
that cover them, and with a note where none does yet.

What makes each part correct: a slot id names one slot for the life of a queue
and a revision names one content (queue); every jump ends, a superseded one
never plays and its sender is told (jumps); only the newest intent of a present
client starts playback, and every intent settles (intents); the run follows the
owner's order and ends exactly once (run); nothing acknowledged is lost over a
restart (persistence); a late replacement cannot take over (pin swap).

## 2. Plan

Done: `QueueValues`, `PlaybackQueue`, `OwnerTransitions` with the abstract
`LatestJump`, `PlaybackIntents`, `RunQueue`, `PlaybackRun`, `ControlClients`,
`OwnerProcess` with the abstract `DurableQueue`, and the proofs of section 6.
Next, in this order:

1. `RemoteOutput`: hand-off between the local run, a cast device and an Emby
   session, the generations of a device connection and failed loads.
2. Correlated outcomes: owner-minted and client-minted request ids share their
   range, and an expiry is compared by id alone; a property that relates every
   reported outcome to the request it is about.
3. `ReportWorker`: the order of progress reports and the join budget.
4. Authority of the connections (Ctrl or Emby remote) in `ControlClients`.

## 3. Modules

`QueueValues` holds the queue as a value: a record of slots, active marker,
revision and next id, and one operator per method of `PlaybackQueue`.  It is
shared by the two modules that own a queue.

`KeptSequences` holds `Vec::retain`, as the registry of clients and the queue
edits use it: the elements of a sequence that are in a set, in their order.

`PlaybackQueue` is the state machine of one queue among others of its process:
one action per public method.  The revision mint is shared, so another queue of
the process may mint between any two steps (`OtherQueueMints`).  `reserved`
holds the ids handed out by `mint_slot_id`; `retired` is history: the ids that
named a slot once and no longer do.

`OwnerTransitions` is the owner and its run around slot jumps.  The owner's
handlers are atomic because one thread runs them one event at a time; the run
takes commands from `commands` and answers through `reports`.  `Deliver` is
`send_jump_or_cold_start`, `DispatchSlotJump` and `Promote` are the two callers
(with `accept`, and with `settle` or `expire`).  Every queue command, every
whole-queue install and the three ways a run can lose a jump (rejected target,
failed load, end of the run) are actions.  The run is reduced to the slots it
holds, its armed jump, its identity and whether it has drained its commands;
which held slot it plays next is a free choice.  The refusal of an
Audiobookshelf item after that service has gone is a free choice too.

`LatestJump` is what the owner promises of those jumps: one in flight, the
latest of the others behind it, one that is displaced told and never sent.  A
jump is identified by its client, by whether the owner minted its id, and by
the id.  `OwnerTransitions` implements it under the mapping at its end
(`ImplementsLatestJump`): the jumps on their way to the player are those in
`commands` and the one the run has armed.

`PlaybackIntents` is the owner around `PlaybackIntentState`: intents of several
connections, the lookup of a play's items in another thread, the two ways a
client leaves (a failed broadcast, a disconnect), the player's events and the
idle timeout.  `Accept` stands for `accept` together with the phase that the
handler leaves, because nothing can observe the phases in between.  The jumps
are reduced to their ids and senders; the outcomes reported on jumps are in
`OwnerTransitions`.  A play's items either come from the list `Plays` or the
lookup fails.

`RunQueue` composes three copies of one queue: the owner's (`queue`, `active`),
the run's (`run.slots`, `run.cur`, `run.idx`) and mpv's playlist (`run.list`,
`run.pos`).  Edits travel in `chan`, mpv's events in `evs`, the run's reports in
`out`.  A tick of the run (`tick`) takes all commands, then all events, as
`run_loop.rs` does, so each handler sees the state the previous one left and
mpv may move on between any two.  Removal, move, shuffle and append are the
owner's handlers; `CmdRemove`, `CmdMove`, `CmdReorder`, `CmdAppend` the run's;
`Consumed` is the owner's consume policy on a completed slot.

`PlaybackRun` is the life of one run after another: submission (`SubmitLive`,
`SubmitCold`), the thread that starts or fails to (`RunStarts`, `StartFails`),
commands, mpv's end-file, restart and playlist-pos events, the stop request and
the ways a run ends.  `run.proj` is the projection of the run (`lifecycle.rs`):
`playlist`, where mpv holds every entry, or `file`, where it holds the active
one; `Promote` goes from the first to the second when a book is appended.
`run.arm` is the armed jump, `run.drain` the swallowing of one end-file,
`run.ended` the identity closed last.  `run.told` and `run.dark` are history:
how many `Stopped` answered the submission, and whether it was played with the
status inactive.  Every file the code opens may fail to open or to install.

`ControlClients` composes the registry of connections with the pin swap.  A
connection says hello with its role and a token (`Hello`, which also reads the
setting and the snapshot, as the code does before it takes the lock), is
admitted or refused (`Admit`), loses its writer, or leaves.  The loop takes one
event at a time (`events`); a broadcast drops the clients it cannot reach
(`Retain`), and the last one to go posts `last_gone`.  The swap goes from
`idle` over `preparing` to `awaiting`; `pending` is the one-shot token,
`launched` remembers for which client each replacement was started.

`OwnerProcess` is several owner processes and clients around one lock file, one
state file and one temporary file: each step of taking the lock, truncating and
writing the PID, loading, the two steps of an atomic save, the persistence
worker, and the shutdown with its flush is an action, so a crash or a signal can
come between any two.  A client probes the lock, launches an owner, waits for
its readiness, attaches, or signals the PID in the record.

`DurableQueue` is what the owner promises about the queue: one queue while it
runs, a `durable` one behind it by some edits, equal to it after an orderly
stop and never moving back.  `OwnerProcess` implements it under
the mapping at its end (`ImplementsDurableQueue`), which is both model-checked
and proved.

`OwnerTransitionsProofs`, `PlaybackQueueProofs`, `PlaybackIntentsProofs`,
`RunQueueProofs`, `PlaybackRunProofs`, `ControlClientsProofs` and
`OwnerProcessProofs` hold the proofs about the module each is named for, and
`SequenceLemmas` what several of them need of sequences (section 6).

`MC*` modules give the constants their values and bound the counters; the
definitions of the specifications are used as they are.

## 4. Runs

| Run | Shows |
|---|---|
| `queue_methods` | types; `SlotIdentity`, `IdsNeverReused`, `RevisionFresh` under every method and two revision mints; a refresh never replaces the active slot or its local progress (`RefreshKeepsActive`) |
| `owner_jumps` | types, `OriginTracksQueued`, `SupersededNeverPlays`, `InFlightWasSent`, `DisplacedIsTold`, that the jumps implement `LatestJump`, and `TransitionsResolve` under the owner's fairness, with two requests, a local jump and every edit |
| `intents_late` | types, `NoOrphanIntent`, `LatestIntentWins`, `GoneClientStartsNothing`, `LastWordIsLast` with two connections on the pipe output with a playout delay |
| `intents_resolve` | `ResolvingEnds`, with jumps, promotions and expiries and no playout delay |
| `run_queue` | types; mpv's playlist is the run's sequence (`PlaylistMirrorsRun`), the run's coordinate settles on mpv's entry (`CoordinateSettles`), once the channel is drained the run has the owner's order, or under a consume policy at least the owner's slots (`RunKeepsUp`), and the owner's active slot plays (`ObservedSlotIsPlaying`) |
| `playback_run` | types; `StoppedExactlyOnce`, `NoArmInActiveFile`, `FileIsActiveSlot`, `RunFollowsMpv`, and `StopEndsRun` under fairness, with one fault of any kind |
| `control_clients` | types; `ExclusiveOwner`, `QuitMeansReplaced`, `ToldBeforeExit`, `NoForgottenOwner` |
| `owner_process` | types; `OneWriter`, `SomeLaunchAttaches`, and that owners, workers, crashes and restarts implement `DurableQueue` |

Runs that end in a counterexample, each for a sentence of the repository that
the code does not keep (section 5): `run_unanswered`, `run_shuffle`,
`control_converge`, `owner_stale_pid`.

**Bounds.**  Queue: two slots and an allocator up to three, so that removal,
reuse and permutations happen; the four theorems about the queue hold for every
bound.  Jumps: two slots and three ids, two client requests and one local one,
so that one jump is in flight, one is queued and a third displaces it; one
install, and three submissions to the player; jumps and submissions together at
most four (`MaxStarts`), which keeps the liveness check within memory; one
command and one report waiting, because the owner and the run each look only at
the head of a channel and a second message adds delays that the free choice of
scheduling already gives.  Intents: two requests over two connections, which is
what displacing, coalescing and superseding relate; two plays that share an
item, one with a start position past its end.  `run_queue`: three slots and a
fourth to append, two edits, one step in the mpv window, any number of track
ends, two events under way: an edit overtakes another and a track end comes
between any two.  `run_shuffle`: four slots, so that after one is consumed two
are left behind the active one to change places; one shuffle, and mpv goes on
only when what it and the run reported has been read, so that the shortest
counterexample is the plain one.  `playback_run`: two submissions (the second into a live, a
parked or an ending run), queues with and without books, one jump or append
after them and one fault; with two and two, 15 million states were explored
without a violation.  `control_clients`: two connections (the old client and the
replacement, or two rivals), two launches so that an earlier launch's token
comes late, one edit, two faults.  `owner_process`: two processes are
what a crash and a restart need, and two clients what a race needs; two edits,
two faults.  All bounds are constants `Max...`; those of the first four modules
stand in the MC modules.

**Deadlock** is checked in the runs of the queue, the jumps and the intents, where a bounded
instance never stops because the owner's or the run's own steps remain possible.
It is not checked in the others, whose systems really end: a run ends when its
queue does, an owner exits, a client leaves.

**Fairness.**  `OwnerTransitions`: weak fairness of handling a waiting report
(the loop blocks on its channel) and strong fairness of the idle timeout.  The
latter says that the loop finds its channel empty for 25 ms again and again: no
periodic event flows through the channel, and player and client events come at
human pace.  Nothing is assumed of the run.  `PlaybackIntents`: lookups return
(HTTP timeouts bound them), the owner handles its channel, the run takes its
commands and observes mpv's pause, and a run ends when its media end.
`PlaybackRun`: the run's thread is scheduled, its tick returns (events are
awaited with a timeout), a thread that was spawned starts, and mpv obeys a quit
or the fallback of `finalize_quit` ends the run.  Nothing is assumed of files
coming to their end.

**Symmetry** is used over the connections, the processes and clients, and the
slots, in runs that check no liveness.

## 5. Findings and observations

Each of the four findings is a run:

* `run_unanswered`: a failed promotion parks a run of the playlist projection
  with the status inactive.  The next queue is played in that run without
  activating it, and its first track end makes the loop return without a
  `Stopped` (`docs/invariants/24`, item 4).
* `run_shuffle`: with a consume policy the run keeps the slots the owner has
  consumed, so it discards a later shuffle as stale and plays on in the old
  order (`openspec/specs/queue-content-shuffle`).  In the trace the first of
  four slots completes and is consumed; the owner shuffles the other three, the
  active one in front; the run still holds four slots, finds the order no
  permutation of them and keeps its own, so that the slot behind the active one
  in mpv's playlist is not the one behind it in the owner's queue.
* `control_converge`: a client that connects while an edit is broadcast gets
  the snapshot from before the edit and misses the broadcast
  (`docs/adr/0014`).
* `owner_stale_pid`: the lock can be held for a moment by a probe, or by an
  owner that has not written its PID, while the record names a dead process,
  and `signal_owner` signals that PID (`docs/invariants/21`).

What else the models reproduce, without a run of its own:

* A shuffle can also be accepted too late: the owner orders the full queue and
  consumes two completed slots before the run reads the order.  The run still
  holds both and applies it, which may put a consumed slot behind the active
  one, to be played again (the same property, by a longer trace than that of
  `run_shuffle`).
* A `TrackChanged` of a replaced queue is accepted for the replacement: it
  carries no run identity, and slot ids start at 1 in every queue
  (`player_events.rs:32`, against `docs/invariants/13`).
* A run thread that comes up late, or takes a submission late, adopts the
  identity of the queue that replaced its own (`run/queue.rs:539`,
  `run/commands.rs:92`); its `Stopped` is then accepted.
* Installing a resolved play or an adopted queue keeps the observation of the
  previous queue, from which the next step counts (`control/playback.rs:68`).
* A client whose reader thread read Stay-alive before it was switched off is
  still admitted beside another one afterwards (`core_ctrl_spawn.rs:357`, against
  `docs/adr/0014`: "admits concurrent Clients only while Stay-alive is
  enabled").  `ExclusiveOwner` leaves such owners out: two clients that were
  attached when the setting went off look the same, and may stay.
* An event of the old run settles a Play that is still being looked up
  (`core.rs:281`).
* SetPaused travels as a toggle and inverts if the mpv window was used in
  between; SetPaused to the state the player already has, or without a run,
  never settles (`control/playback.rs:299`).
* The replacement of a parked run arms the swallowing of an end-file that idle
  mpv never sends, so the end of the replacement itself is swallowed and the run
  sits active until it is stopped (`run/state.rs:140`).
* A queue of one item is `Standalone` and stays so when items are appended: the
  run stops after the first (`queue_advance.rs:49`).  Two such submissions in
  quick succession swallow only one end-file.
* Removing an earlier slot moves mpv's playlist-pos, which looks like a step:
  the completion is reported for the slot behind (`playlist_drift.rs:20`).
  Removing the playing slot ends the run at the end of the list, and with a mpv
  step under way it can leave the coordinate one entry off.
* The owner clamps a `to_index` past the end, the run ignores such a move; after
  a consumption the owner's index is one lower than the run's.
* A restart of the outgoing file can take the resume position of a pending jump
  (`events/restart.rs`).

## 6. Proofs

Every proof rests on the named assumptions of the module it is about and of the
modules that one extends, and on nothing else.

`PlaybackQueueProofs` proves, for all item contents, all inputs and any number of
other queues in the process, from the assumptions on the constants in
`QueueValues` and `PlaybackQueue`:

* `TypeCorrect`: `Spec => []TypeOK`;
* `SlotIdentityHolds`: ids are unique and below the next id, the marker names a
  slot;
* `IdsAreNeverReused`: an id that left the queue names nothing else later;
* `RevisionNamesContent`: every visible change takes a revision nobody had;
* `RefreshAlwaysKeepsActive`: a refresh keeps the active slot and its progress.

The inductive invariant joins the type invariant with `SlotIdentity`, with "every
id in the queue or handed out is below `next`" and with "every revision in use is
below the mint"; without the last two, uniqueness says nothing about ids that
are no longer in the queue.  There is a lemma for each operator of `QueueValues`
and one step per action.  For the refresh, the positions of the slots that stay
are an injection of an interval into a finite set of the same size, so none of
them is left out, the active one included.

`OwnerTransitionsProofs` proves, for any contents, clients, jumps and edits, from
the assumptions of `QueueValues` and `OwnerTransitions`:

* `TypeCorrect`, `OriginAlwaysTracksQueued`, `InFlightAlwaysWasSent`;
* `DisplacedAlwaysTold`: the step that displaces a waiting jump tells its client;
* `OwnerImplementsLatestJump`: `Spec => ImplementsLatestJump`;
* `SupersededIsGone`: a jump reported as superseded is nowhere on its way.

The invariant is the type invariant with `OriginTracksQueued`, `InFlightWasSent`
and the shape of the history.  The refinement needs it: the owner tells a client
by the origin that it keeps beside the transition state, and only
`OriginTracksQueued` makes that the client of the jump displaced.  That told jumps
are gone is then a property of `LatestJump` and is proved there (`Apart`): all
jumps under way were asked for, one waits only behind another, and those told are
at none of the places from which a jump is sent.  The handlers share `Deliver`,
`DispatchSlotJump` and `Promote`; a lemma about each says which step of
`LatestJump` it takes, and one step per action applies them.

`PlaybackIntentsProofs` proves, for any number of connections, requests and plays
and both kinds of output:

* `IntentInvariant`, from which the others follow: the current intent is the one
  accepted last, its connection is not closed, only requests that were made are
  reported on, and nothing final was said about the current one.
  `NoOrphanIntent` and `LastWordIsLast` are not inductive without these parts:
  a rejection must know that no final word came before it, and a fresh request
  id that nobody was told anything about it;
* `NoOrphanIntentHolds`, `LatestIntentWinsHolds`, `GoneClientStartsNothingHolds`,
  `LastWordIsLastHolds`;
* `TypeCorrect`: `Spec => []TypeOK`, in two halves (owner and player) over that
  invariant.

`RunQueueProofs` proves, for any number of slots, edits and steps of mpv, from
`RunQueueAssumption`:

* `TypeCorrect`; `MirrorAlways`: mpv's playlist is the run's sequence;
* `AlwaysKeepsUp`: a run that has read every edit has the owner's order, or, once
  slots were consumed, at least the owner's slots;
* `MarkerAlwaysSettles`: with nothing left to read, the owner's active slot is the
  slot that plays, if the queue holds it;
* `AlwaysSettles`: with mpv's events read, the run's coordinate is mpv's entry,
  unless a step of the mpv window was joined by a removal.

`RunKeepsUp` speaks of a drained channel, and says nothing about how it gets
there.  The invariant is about the commands under way: applied one by one to the
run's sequence (`Path`) they lead through sequences of distinct minted slots,
and the last of these is the owner's order or holds its slots (`Holds`).  An edit
adds to the end of that path, a command the run handles is taken off its front.
It rests on what the views of one edit come to: `Vec::remove` and `insert` at the
owner, the commands at the run, and mpv's `playlist-move`, whose target counts
the entry that is moved.

The other two channels have an invariant each, over the same proof.  `Announced`
is about the run's events: the last unread one names the slot the run is on, and
with none unread the owner's marker is there.  `Follow` is about mpv's: the last
unread position is mpv's entry, with none unread the run's ordinal is, and each
end of a file has a position behind it.  For the run's slot, as opposed to its
ordinal, there are two reasons, and the property fails where neither holds.  A
run that has lost no slot is on the slot at its ordinal throughout; without steps
of the mpv window, the run is on mpv's slot until it reads what mpv did, and
settles when it does.

`PlaybackRunProofs` proves, for any queues, submissions, jumps and faults, from
`PlaybackRunAssumption` (queues have items, the appended item is a book):

* `Inductive`, from which the others follow (the last with more); `TypeCorrect`;
* `OneStoppedEach`: a submission is answered by one `Stopped`, unless it was
  played in a parked run with the status inactive (the first finding);
* `ActiveFileUnarmed` and `ActiveFileIsSlot`: in the file projection no jump is
  armed, and mpv's file is that of the slot the run names;
* `RunAlwaysFollows`: in the playlist projection, once everything is read, the slot
  the run names is the entry mpv plays (`RunFollowsMpv`).

A handler of the run is a long composition of operators on one record.  The
invariant is therefore in views of that record (the ledger of identities and
reports, the named slot and the armed jump, mpv's entry, the file of the active
slot), and the lemma about an operator says which views it keeps.  `Ledger` is
what makes `Stopped` unique: an inactive run that was not left so by a failed
promotion has reported for the identity it carries.

`RunAlwaysFollows` needs a second invariant, `FInv`, relative to `IInv`: mpv moves
on by itself while the run is still reading, so the two disagree most of the time,
and what holds is that the events in between will bring them together.  `Follows`
says so in parts:

* `Played`: what mpv can have sent.  A file starts before it ends, and between a
  start and a later failed load an end lies;
* `Listed`: mpv holds the run's slots, the last unread position is mpv's entry, and
  whenever mpv left an entry by itself a position follows, unless it was the last;
* `Drained`: the end-file that a submission causes to be swallowed is on its way and
  precedes any failed load, or the submission's first file has not started;
* `Active`: a run with no jump armed is at mpv's entry or will read a position
  (after the end-file it swallows); an armed one has its target at mpv's entry with
  the end-file that settles it still unread, or will be settled and read a later
  position; one that awaits the resume of a settled jump will see the restart first;
* `Inactive`: the same for a run that plays with its status left inactive, where the
  restart settles the jump.

`Doomed` runs, where the first file of a submission fails before any file began,
are exempt: `load_failed` ends them.  Commands are read only between two rounds of events
(`quiet`), and there an active run will come to mpv's entry even if a jump is armed
just now (`Adopts`); in the middle of a round this need not be so.
The events are a sequence of any length; that one kind lies before, behind or between
others (`Then`, `Preceded`, `Between`) is stated for a head and a tail and for an
append, so that reading and sending need no induction.  One lemma per kind of event
shows what its handler leaves of `Follows`, one per step of mpv and per command what
the new events add to it.

`ControlClientsProofs` proves, for any number of connections, launches, edits and
faults, from `BoundsAssumption` and `SessionsAssumption` of `ControlClients`:

* `TypeCorrect`;
* `OneOwnerClient`: without Stay-alive, one client drives, replacements aside;
* `QuitOnlyWhenReplaced`: whoever is told to quit by a swap has a replacement
  that was admitted with the token of a launch made for it;
* `AllToldBeforeExit`, `NoOwnerForgotten`.

The invariant adds to these that a token admits one connection and the pending
one has admitted none (`Tokens`), that a swap that awaits its replacement
launched it and an announced admission has happened (`Swapping`), and that an
emptied registry is followed by its event (`Waking`).

`OwnerProcessProofs` proves, for any number of processes, clients, edits and
faults, from `NamesAssumption` and `BoundsAssumption` of `OwnerProcess`:

* `Invariance`, from which the others follow: the lock is held by the one
  process between taking it and its end; the state file is never ahead of the
  edits; and for each owner, the backlog of its worker ascends, newer than the
  state file and no newer than the queue, and whoever is about to rename wrote
  what the temporary file holds.  "The saved queue
  never moves back" needs all of these: a rename must be known to carry a newer
  queue than the file, which is so only because no other owner can have written
  either file meanwhile and because the worker handles its channel in order;
* `TypeCorrect` and `OneWriterHolds`;
* `SomeLaunchAlwaysAttaches`: clients that start at once, undisturbed, do not all
  end without an owner.  Here also a client exists (`ClientsAssumption`), since
  only clients start owners.  The argument is that somebody always has hope
  (`HopeInv`): whoever finds the lock held, a client or a new owner, finds there
  either a client that probes and will go on, or an owner that a client waits
  for;
* `OwnerProcessRefinesDurableQueue`: `Spec => ImplementsDurableQueue`.  Each step
  of an owner is shown to be an edit, a save, an orderly stop, a loss or a start
  of `DurableQueue`, or to change nothing it shows; a client's step is a stutter,
  as its signal kills at once only a process that has not loaded its queue.

`SequenceLemmas` proves what `Kept`, `RemoveAt`, `InsertAt` and the like leave of a
sequence.  Library theorems on induction take an operator, which the provers
cannot instantiate; the lemmas use the least element of a set of numbers
(`LeastNatural`, `UpTo`) instead, and in this way show also that the recursive
function inside `Kept` computes what it says.

Only model-checked: the liveness properties (`TransitionsResolve`, `ResolvingEnds`,
`StopEndsRun`), which are out of the prover's reach; and the runs that end in a
counterexample.

## 7. What is left out, and why it is sound

A request's generation always equals its request id in this code and is left
out.  Titles, positions and durations matter to no property, except the local
progress a refresh must keep.  Logging, snapshots broadcast to clients and
notifications are left out of all but `ControlClients`: they carry state but
change none.  The first sample hold of the pipe output (`StartupPause`) is left
out; it only delays the pause reports that the models already delay.  In
`OwnerProcess` a queue is the ordinal of the edit that made it, and what else is
saved with it is left out.  In `ControlClients` the credential of a connection
is valid, and the queue is again an ordinal.  In `PlaybackRun` a queue starts at
its first item; mpv's playlist-count events and the `LoadNew` command, which
nothing in `src/` sends, are left out, and so is the refusal of a queue that
holds an item without a direct source, which changes nothing but the answer.

## 8. Not modelled

The models cover a small part of the repository's lines: most of them are the
terminal interface (`src/`, `mbv-components`, `mbv-render`, `mbv-ui-model`),
clients of media servers and feeds, configuration, themes, keybinds, images and
desktop integration.  They lay out and draw state, decode documents and do
input and output; what they do to the state of playback reaches the owner as the
commands, and the answers to lookups, that are inputs of these models.  A model
of the rest would restate it line by line and say nothing a test does not.

Of the protocol logic, not modelled are:

* the cast and Emby session outputs (`cast*`, `emby_session*`, `output/`): the
  models follow the branches of the local run;
* the remote player client (`mbv-remote-player`) with its reconnection;
* progress reports to the media servers (`report_worker.rs`);
* lineage and operation-id checks, enrichment and source updates of the queue
  commands, and playback authority of the connections;
* mpv and its IPC, of which the models assume what the code does: end-file,
  playback-restart and property changes come in the order they happen, and an
  entry that cannot be loaded ends with an error.

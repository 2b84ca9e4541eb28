---------------------------- MODULE PlaybackRun ----------------------------
(***************************************************************************)
(* The lifecycle of a playback run of mbv-player: the thread that drives   *)
(* one mpv process, from the submission that starts it to the one Stopped  *)
(* it owes for every submission it accepts (src/run/, submit.rs).          *)
(*                                                                         *)
(* The controller submits a queue into the live run or starts a new one,   *)
(* asks for jumps and stops.  The run drains its commands, then looks at   *)
(* the stop request, then drains mpv's events.  mpv fails to load, plays   *)
(* on to the next entry, is closed by the user or dies.                    *)
(*                                                                         *)
(* Two projections: "playlist", where mpv holds the whole queue, and       *)
(* "file", where it holds the active item alone, because a book cannot be  *)
(* given to mpv before its service session is open.  Opening may fail; a   *)
(* run whose replacement failed to open is parked: ended, mpv idle, alive. *)
(*                                                                         *)
(* A submission starts at its first item, and an entry left by a jump is   *)
(* not near its end.  Reports to media servers, the played and consume     *)
(* flags and positions are left out, edits of the queue other than the     *)
(* append of a book are modelled by RunQueue.                              *)
(***************************************************************************)
EXTENDS Integers, Sequences, FiniteSets, SequencesExt

CONSTANTS
  Queues,        \* the queues that are submitted: non-empty sequences of slots
  Books,         \* the slots that need the file projection
  Extra,         \* the book appended to a running queue
  Faults,        \* subset of {"prepare", "install", "load", "exit", "close", "start"}
  MaxSubmits,    \* bound: submissions
  MaxAsks,       \* bound: jumps and appends
  MaxFaults      \* bound: faults

ASSUME PlaybackRunAssumption ==
  /\ \A q \in Queues : q \in Seq(Range(q)) /\ Len(q) > 0
  /\ Extra \in Books
  /\ Faults \subseteq {"prepare", "install", "load", "exit", "close", "start"}
  /\ MaxSubmits \in Nat /\ MaxAsks \in Nat /\ MaxFaults \in Nat

VARIABLES
  gen,       \* status.sequence_generation
  stop_tx,   \* the controller still holds the stop sender of the run
  token,     \* a stop request the run has not read
  chan,      \* commands the run has not read
  joining,   \* the queue of a submission that waits for the old run to end
  tick,      \* where the run's loop is: "commands", "stop" or "events"
  cancel,    \* a submission was read in this tick
  run,       \* the run, the status it publishes, and its mpv
  asks, faults

control == <<gen, stop_tx, joining>>
bounds == <<asks, faults>>
vars == <<control, token, chan, tick, cancel, run, bounds>>

Nothing == <<>>
IdleArm == [at |-> "idle", to |-> 0, from_idle |-> FALSE, resume |-> FALSE]

\* RunLifecycle, ItemLifecycleState and the fields of PlaybackRun; `active` is
\* the published status and list, pos, file, up, quitting and evs are mpv's.
\* Two are history: `told` counts the Stopped sent since the last accepted
\* submission, `dark` is a submission played with the status left inactive.
NoRun ==
  [at |-> "none", identity |-> 0, ended |-> 0, began |-> FALSE, proj |-> "playlist",
   standalone |-> FALSE,
   slots |-> Nothing, idx |-> 1, arm |-> IdleArm, drain |-> FALSE, quit |-> FALSE,
   tracks |-> FALSE, active |-> FALSE, told |-> 0, dark |-> FALSE,
   list |-> Nothing, pos |-> 0, file |-> "none", up |-> FALSE, quitting |-> FALSE,
   evs |-> Nothing]

\* The origin of a submission; an append does not change it.
Standalone(q) == Len(q) = 1

HasBook(q) == Range(q) \cap Books # {}
IndexIn(slot, q) == IF slot \in Range(q) THEN CHOOSE i \in DOMAIN q : q[i] = slot ELSE 0

Fault(kind) == kind \in Faults /\ faults < MaxFaults /\ faults' = faults + 1 /\ UNCHANGED asks

-----------------------------------------------------------------------------
(* mpv (external): what its commands do to it, and what it reports.  An    *)
(* end-file is sent for every file that was loaded, and for nothing else.  *)

Ev(kind, at) == [e |-> kind, at |-> at]
PosOf(r, i) == IF r.pos = i THEN Nothing ELSE <<Ev("pos", i)>>
EndOf(r, reason) == IF r.file = "none" THEN Nothing ELSE <<Ev(reason, 0)>>

\* stop and playlist-clear.
MpvStop(r) ==
  IF ~r.up THEN r
  ELSE [r EXCEPT !.evs = @ \o EndOf(r, "stop"), !.list = Nothing, !.pos = 0, !.file = "none"]

\* loadfile replace, or a whole playlist and a start at its first entry.
MpvLoad(r, list) ==
  IF ~r.up THEN r
  ELSE [r EXCEPT !.evs = @ \o EndOf(r, "stop") \o PosOf(r, 1), !.list = list, !.pos = 1,
                 !.file = "loading"]

\* A write of playlist-pos.
MpvJump(r, i) ==
  [r EXCEPT !.evs = @ \o EndOf(r, "stop") \o PosOf(r, i), !.pos = i, !.file = "loading"]

\* mpv leaves its entry and goes on with the next one, if there is one.
MpvGoesOn(r, kind) ==
  IF r.pos < Len(r.list)
    THEN [r EXCEPT !.evs = @ \o <<Ev(kind, 0), Ev("pos", r.pos + 1)>>, !.pos = @ + 1, !.file = "loading"]
    ELSE [r EXCEPT !.evs = @ \o <<Ev(kind, 0)>>, !.pos = 0, !.file = "none"]

MpvDown(r, sent) ==
  [r EXCEPT !.evs = @ \o sent, !.up = FALSE, !.file = "none", !.list = Nothing, !.pos = 0,
            !.quitting = FALSE]

MpvStep(cond, next) ==
  /\ run.at = "running" /\ run.up /\ cond
  /\ run' = next
  /\ UNCHANGED <<control, token, chan, tick, cancel>>

MpvStarts ==
  /\ MpvStep(run.file = "loading", [run EXCEPT !.file = "playing", !.evs = Append(@, Ev("restart", 0))])
  /\ UNCHANGED bounds
MpvEof == MpvStep(run.file = "playing", MpvGoesOn(run, "eof")) /\ UNCHANGED bounds
MpvLoadFails == MpvStep(run.file = "loading", MpvGoesOn(run, "fail")) /\ Fault("load")
MpvDies == MpvStep(TRUE, MpvDown(run, <<Ev("exit", 0)>>)) /\ Fault("exit")
UserCloses == MpvStep(~run.quitting, [run EXCEPT !.quitting = TRUE]) /\ Fault("close")
MpvQuits ==
  /\ MpvStep(run.quitting, MpvDown(run, EndOf(run, "quit") \o <<Ev("shutdown", 0)>>))
  /\ UNCHANGED bounds

-----------------------------------------------------------------------------
(* The controller.                                                         *)

\* submit_queue_slots into the live run: no stop was asked and its loop has
\* not returned.
SubmitLive ==
  /\ joining = Nothing /\ gen < MaxSubmits
  /\ run.at \in {"starting", "running"} /\ stop_tx
  /\ \E q \in Queues : chan' = Append(chan, [c |-> "submit", q |-> q, slot |-> q[1], resume |-> FALSE])
  /\ gen' = gen + 1
  /\ UNCHANGED <<stop_tx, joining, token, tick, cancel, run, bounds>>

\* stop() takes the sender, so a second stop sends nothing.
StopRun ==
  /\ token' = (token \/ (stop_tx /\ run.at \in {"starting", "running"}))
  /\ stop_tx' = FALSE

\* The cold start: stop the old run, wait for its thread.
SubmitCold ==
  /\ joining = Nothing /\ gen < MaxSubmits
  /\ \E q \in Queues : joining' = q
  /\ gen' = gen + 1
  /\ StopRun
  /\ UNCHANGED <<chan, tick, cancel, run, bounds>>

ColdStart ==
  /\ joining # Nothing /\ run.at \in {"none", "exited"}
  /\ run' = [NoRun EXCEPT !.at = "starting", !.slots = joining, !.standalone = Standalone(joining),
                         !.active = TRUE]
  /\ stop_tx' = TRUE /\ token' = FALSE /\ chan' = Nothing /\ joining' = Nothing
  /\ tick' = "commands" /\ cancel' = FALSE
  /\ UNCHANGED <<gen, bounds>>

Stop ==
  /\ joining = Nothing /\ stop_tx
  /\ StopRun
  /\ UNCHANGED <<gen, joining, chan, tick, cancel, run, bounds>>

\* A jump to a slot of some queue, with or without a resume position, or the
\* append of a book.
Ask ==
  /\ asks < MaxAsks /\ joining = Nothing /\ run.at = "running"
  /\ \/ \E slot \in UNION {Range(q) : q \in Queues}, resume \in BOOLEAN :
          chan' = Append(chan, [c |-> "jump", q |-> Nothing, slot |-> slot, resume |-> resume])
     \/ /\ Extra \notin Range(run.slots)
        /\ chan' = Append(chan, [c |-> "append", q |-> Nothing, slot |-> Extra, resume |-> FALSE])
  /\ asks' = asks + 1
  /\ UNCHANGED <<control, token, tick, cancel, run, faults>>

-----------------------------------------------------------------------------
(* RunLifecycle.                                                           *)

\* Mutant: every end path reports.
CloseAgain(r) == TRUE

Close(r) == r.ended # r.identity

\* end_run: only the first close of an identity deactivates and reports.
EndRun(r) ==
  IF ~Close(r) THEN r
  ELSE [r EXCEPT !.ended = r.identity, !.active = FALSE, !.told = IF @ < 2 THEN @ + 1 ELSE @]

ExitRun(r) == [r EXCEPT !.at = "exited"]

SubmissionAccepted(r, identity) ==
  [r EXCEPT !.identity = identity, !.began = FALSE, !.arm = IdleArm, !.ended = 0, !.told = 0,
             !.dark = FALSE]

EnterActiveFile(r) == [r EXCEPT !.proj = "file", !.arm = IdleArm]

\* Mutant: a jump is armed in either projection.
ArmAnywhere(r, i, resume) ==
  [r EXCEPT !.arm = [at |-> "pending", to |-> i, from_idle |-> ~r.active, resume |-> resume]]

ArmJump(r, i, resume) ==
  IF r.proj = "file" THEN [r EXCEPT !.arm = IdleArm]
  ELSE [r EXCEPT !.arm = [at |-> "pending", to |-> i, from_idle |-> ~r.active, resume |-> resume]]

\* The arm after its target was settled: a resume still waits for the file.
ResumeArm(arm) == IF arm.resume THEN [arm EXCEPT !.at = "resume", !.from_idle = FALSE] ELSE IdleArm

\* begin_item_lifecycle: the end-file of the replaced file is to be swallowed.
BeginItem(r) == [r EXCEPT !.drain = TRUE, !.arm = IdleArm, !.tracks = FALSE]

\* park_for_failed_load and the Stopped that follows it.
ParkAndEnd(r) == EndRun(BeginItem(MpvStop(r)))

-----------------------------------------------------------------------------
(* The file projection.                                                    *)

\* What opening an item may come to; a dead mpv refuses the loadfile.
Opening(r, load) == IF load = "ok" /\ ~r.up THEN "install" ELSE load

\* install_active_projection of slot i: the loaded file replaces the old one.
Installed(r, i) == [MpvLoad(r, <<r.slots[i]>>) EXCEPT !.drain = TRUE]

\* A failed install has already deactivated the status.
NotInstalled(r, load) == IF load = "install" THEN [r EXCEPT !.active = FALSE] ELSE r

\* replace_with_queue_items.
ReplaceWith(r, q, load) ==
  LET held == [EnterActiveFile(r) EXCEPT !.slots = q, !.idx = 1, !.standalone = Standalone(q),
                                         !.quit = FALSE]
  IN IF Opening(r, load) = "ok"
     THEN [BeginItem(Installed(held, 1)) EXCEPT !.active = TRUE]
     ELSE ParkAndEnd(NotInstalled(held, Opening(r, load)))

\* Mutant: the new file is loaded and the run still names the old slot.
JumpKeepsIndex(r, i, load) ==
  IF Opening(r, load) = "ok" THEN [Installed(r, i) EXCEPT !.tracks = FALSE]
  ELSE ParkAndEnd(NotInstalled(r, Opening(r, load)))

\* cmd_jump_to_active_file.
JumpToFile(r, i, load) ==
  IF Opening(r, load) = "ok" THEN [Installed(r, i) EXCEPT !.idx = i, !.tracks = FALSE]
  ELSE ParkAndEnd(NotInstalled(r, Opening(r, load)))

\* promote_to_active_file: the item that plays is opened again as the file.
Promote(r, slot, load) ==
  LET opened == Opening(r, load)
  IN CASE opened = "ok"      -> EnterActiveFile([Installed(r, r.idx) EXCEPT !.slots = Append(@, slot)])
       [] opened = "prepare" -> r
       [] opened = "install" -> ParkAndEnd(NotInstalled(r, opened))

-----------------------------------------------------------------------------
(* Commands.                                                               *)

\* cmd_submit_queue in the playlist projection leaves the status as it is.
PlayQueue(r, q) ==
  BeginItem([MpvLoad(MpvStop(r), q) EXCEPT !.slots = q, !.idx = 1, !.standalone = Standalone(q),
                                           !.quit = FALSE, !.dark = ~r.active])

CmdSubmit(r, identity, q, load) ==
  LET fresh == SubmissionAccepted(r, identity)
  IN IF r.proj = "file" \/ HasBook(q) THEN ReplaceWith(fresh, q, load) ELSE PlayQueue(fresh, q)

\* cmd_jump_to; a write of playlist-pos that mpv refuses disarms the jump.
CmdJump(r, slot, resume, load) ==
  LET i == IndexIn(slot, r.slots)
      armed == [ArmJump(r, i, resume) EXCEPT !.tracks = @ /\ r.active]
  IN IF i = 0 THEN r
     ELSE IF r.proj = "file" THEN JumpToFile(ArmJump(r, i, resume), i, load)
     ELSE IF ~r.up \/ i \notin DOMAIN r.list THEN [armed EXCEPT !.arm = IdleArm]
     ELSE MpvJump(armed, i)

CmdAppend(r, slot, load) ==
  IF r.proj = "file" THEN [r EXCEPT !.slots = Append(@, slot)] ELSE Promote(r, slot, load)

\* The commands that open an item.
Opens(cmd) ==
  \/ cmd.c = "submit" /\ (run.proj = "file" \/ HasBook(cmd.q))
  \/ cmd.c = "jump" /\ run.proj = "file" /\ cmd.slot \in Range(run.slots)
  \/ cmd.c = "append" /\ run.proj = "playlist"

\* Opening works, or fails as far as faults go.
Opened(opens, load) ==
  \/ load = "ok" /\ UNCHANGED bounds
  \/ opens /\ load \in {"prepare", "install"} /\ Fault(load)

HandleCommand ==
  /\ run.at = "running" /\ tick = "commands" /\ chan # Nothing
  /\ \E load \in {"ok", "prepare", "install"} :
       LET cmd == Head(chan) IN
       /\ Opened(Opens(cmd), load)
       /\ run' = CASE cmd.c = "submit" -> CmdSubmit(run, gen, cmd.q, load)
                   [] cmd.c = "jump"   -> CmdJump(run, cmd.slot, cmd.resume, load)
                   [] cmd.c = "append" -> CmdAppend(run, cmd.slot, load)
       /\ cancel' = (cancel \/ cmd.c = "submit")
  /\ chan' = Tail(chan)
  /\ UNCHANGED <<control, token, tick>>

-----------------------------------------------------------------------------
(* The stop request.                                                       *)

\* Nobody reads what is left once the loop has returned; mpv is torn down.
Gone(r) == IF r.at = "exited" THEN MpvDown([r EXCEPT !.evs = Nothing], Nothing) ELSE r
Left(r, queued) == IF r.at = "exited" THEN Nothing ELSE queued

\* Mutant: a stop request read next to a submission is dropped for good.
CheckStopDropsRequest ==
  /\ run.at = "running" /\ tick = "commands" /\ chan = Nothing
  /\ token' = FALSE
  /\ run' = IF token /\ ~cancel /\ ~run.quit THEN [run EXCEPT !.quit = TRUE, !.quitting = run.up] ELSE run
  /\ tick' = "stop" /\ cancel' = FALSE
  /\ UNCHANGED <<control, chan, bounds>>

\* run_tick between the commands and the events: the stop request, unless a
\* submission was read in this tick or a quit is already under way.
CheckStop ==
  /\ run.at = "running" /\ tick = "commands" /\ chan = Nothing
  /\ LET asked == token /\ ~cancel /\ ~run.quit
     IN /\ token' = (token /\ ~asked)
        /\ run' = IF asked THEN [run EXCEPT !.quit = TRUE, !.quitting = run.up] ELSE run
  /\ tick' = "stop" /\ cancel' = FALSE
  /\ UNCHANGED <<control, chan, bounds>>

\* finalize_quit after 200 ms, or on to mpv's events.
CheckQuit ==
  /\ run.at = "running" /\ tick = "stop"
  /\ \/ run.quit /\ run' = Gone(ExitRun(EndRun(run)))
     \/ UNCHANGED run
  /\ tick' = "events"
  /\ chan' = Left(run', chan)
  /\ UNCHANGED <<control, token, cancel, bounds>>

-----------------------------------------------------------------------------
(* Events of mpv.                                                          *)

Diverges(r, p) == r.proj = "playlist" /\ p \in DOMAIN r.slots /\ p # r.idx
AdoptEntry(r, p) == [r EXCEPT !.idx = p, !.arm = IdleArm, !.tracks = FALSE]

\* Mutant: the end of the queue is not noticed.
AdvancePastEnd(r, load) ==
  [r EXCEPT !.idx = IF r.arm.at = "idle" THEN @ + 1 ELSE r.arm.to, !.arm = ResumeArm(@), !.tracks = FALSE]

\* advance_to_next_track and the ends of on_end_file_queue.
Advance(r, load) ==
  LET next == IF r.arm.at = "idle" THEN r.idx + 1 ELSE r.arm.to
      settled == [r EXCEPT !.arm = IF next <= Len(r.slots) /\ r.arm.at # "idle" THEN ResumeArm(r.arm) ELSE IdleArm]
  IN IF next > Len(r.slots) THEN EndRun(settled)
     ELSE IF r.proj = "playlist" THEN [settled EXCEPT !.idx = next, !.tracks = FALSE]
     ELSE IF Opening(r, load) = "ok"
          THEN [Installed(settled, next) EXCEPT !.idx = next, !.tracks = FALSE, !.drain = FALSE]
     ELSE EndRun(NotInstalled(settled, Opening(r, load)))

\* The loop returns after an end-file that was not passed over and left the
\* status inactive.
ReturnIfInactive(r) == IF r.active THEN r ELSE ExitRun(r)

Swallowed(r, reason) == r.quit \/ r.drain \/ (~r.standalone /\ reason = "quit")
Superseded(r, reason) == reason = "stop" /\ r.arm.at # "pending"

\* on_end_file.
OnEndFile(r, reason, load) ==
  IF Swallowed(r, reason) THEN [r EXCEPT !.drain = @ /\ r.quit]
  ELSE IF r.standalone THEN ReturnIfInactive(EndRun(r))
  ELSE IF Superseded(r, reason) THEN IF Diverges(r, r.pos) THEN AdoptEntry(r, r.pos) ELSE r
  ELSE ReturnIfInactive(Advance(r, load))

\* load_failed: the failed entry is the armed target, or the current one.
OnLoadFailed(r) ==
  LET failed == IF r.arm.at = "idle" THEN r.idx ELSE r.arm.to
      disarmed == [r EXCEPT !.arm = IdleArm]
  IN IF ~r.began \/ r.proj = "file" \/ failed >= Len(r.slots)
     THEN ExitRun(EndRun(disarmed)) ELSE disarmed

\* on_playback_restart: a jump from idle settles here, and the first restart
\* of a file serves the resume of the arm.
OnRestart(r) ==
  LET idle == r.arm.at = "pending" /\ r.arm.from_idle
      settled == IF idle THEN [r EXCEPT !.idx = r.arm.to, !.arm = ResumeArm(r.arm), !.active = TRUE] ELSE r
  IN [settled EXCEPT !.began = TRUE, !.tracks = TRUE,
                     !.arm = IF ~r.tracks /\ @.resume THEN IdleArm ELSE @]

\* Mutant: the entry mpv moved to by itself is not adopted.
IgnorePlaylistPos(r, p) == r

OnPlaylistPos(r, p) ==
  IF r.arm.at = "idle" /\ ~r.drain /\ Diverges(r, p) THEN AdoptEntry(r, p) ELSE r

\* The events whose handler opens the next item.
OpensNext(r, ev) ==
  /\ ev.e = "eof" /\ r.proj = "file"
  /\ ~Swallowed(r, ev.e) /\ ~r.standalone /\ r.idx < Len(r.slots)

HandleEvent ==
  /\ run.at = "running" /\ tick = "events" /\ run.evs # Nothing
  /\ \E load \in {"ok", "prepare", "install"} :
       LET ev == Head(run.evs)
           r  == [run EXCEPT !.evs = Tail(@)]
       IN /\ Opened(OpensNext(r, ev), load)
          /\ run' = Gone(CASE ev.e \in {"eof", "stop", "quit"} -> OnEndFile(r, ev.e, load)
                           [] ev.e = "fail"    -> OnLoadFailed(r)
                           [] ev.e = "restart" -> OnRestart(r)
                           [] ev.e = "pos"     -> OnPlaylistPos(r, ev.at)
                           [] ev.e \in {"exit", "shutdown"} -> ExitRun(EndRun(r)))
  /\ chan' = Left(run', chan)
  /\ UNCHANGED <<control, token, tick, cancel>>

EndTick ==
  /\ run.at = "running" /\ tick = "events" /\ run.evs = Nothing
  /\ tick' = "commands"
  /\ UNCHANGED <<control, token, chan, cancel, run, bounds>>

-----------------------------------------------------------------------------
(* The player thread before its loop.                                      *)

\* The identity is read from the status once mpv is up.
RunStarts ==
  /\ run.at = "starting"
  /\ run' = [MpvLoad([run EXCEPT !.up = TRUE],
                     IF HasBook(run.slots) THEN <<run.slots[1]>> ELSE run.slots)
             EXCEPT !.at = "running", !.identity = gen,
                    !.proj = IF HasBook(run.slots) THEN "file" ELSE "playlist"]
  /\ UNCHANGED <<control, token, chan, tick, cancel, bounds>>

\* init_mpv or the first load failed: a Stopped of its own, and no run.
StartFails ==
  /\ run.at = "starting" /\ Fault("start")
  /\ run' = [run EXCEPT !.at = "exited", !.active = FALSE, !.told = 1]
  /\ chan' = Nothing
  /\ UNCHANGED <<control, token, tick, cancel>>

-----------------------------------------------------------------------------
Init ==
  /\ gen = 0 /\ stop_tx = FALSE /\ token = FALSE /\ chan = Nothing /\ joining = Nothing
  /\ tick = "commands" /\ cancel = FALSE /\ run = NoRun /\ asks = 0 /\ faults = 0

RunStep == HandleCommand \/ CheckStop \/ CheckQuit \/ HandleEvent \/ EndTick \/ RunStarts
MpvActs == MpvStarts \/ MpvEof \/ MpvLoadFails \/ MpvDies \/ UserCloses \/ MpvQuits
Controller == SubmitLive \/ SubmitCold \/ ColdStart \/ Stop \/ Ask

Next == RunStep \/ StartFails \/ MpvActs \/ Controller

Spec == Init /\ [][Next]_vars

\* The run's thread is scheduled and its 200 ms timer fires; mpv obeys a quit.
Fairness ==
  /\ WF_vars(HandleCommand) /\ WF_vars(CheckStop) /\ WF_vars(HandleEvent) /\ WF_vars(EndTick)
  /\ WF_vars(CheckQuit) /\ WF_vars(RunStarts \/ StartFails) /\ WF_vars(MpvQuits)

FairSpec == Spec /\ Fairness

-----------------------------------------------------------------------------
(* Properties.                                                             *)

Slots == (UNION {Range(q) : q \in Queues}) \cup {Extra}

\* The types of the state, the armed target inside the run's queue, and mpv on
\* an entry exactly while it has a file (playback_run lifecycle.rs).
TypeOK ==
  /\ gen \in 0..MaxSubmits /\ asks \in 0..MaxAsks /\ faults \in 0..MaxFaults
  /\ {stop_tx, token, cancel} \subseteq BOOLEAN
  /\ joining \in Queues \cup {Nothing} /\ tick \in {"commands", "stop", "events"}
  /\ run.at \in {"none", "starting", "running", "exited"}
  /\ run.proj \in {"playlist", "file"} /\ run.arm.at \in {"idle", "pending", "resume"}
  /\ Range(run.slots) \subseteq Slots
  /\ run.slots # Nothing => run.idx \in DOMAIN run.slots
  /\ run.arm.at # "idle" => run.arm.to \in DOMAIN run.slots
  /\ run.file \in {"none", "loading", "playing"}
  /\ run.file # "none" <=> run.pos \in DOMAIN run.list
  /\ run.identity <= gen /\ run.ended <= run.identity

\* No submission is answered by two Stopped, whichever of the ten end paths
\* fires first, and the thread never ends without the one it owes, but for the
\* queue played by a run that was left inactive (state.rs end_run).
StoppedExactlyOnce ==
  /\ run.told <= 1
  /\ (run.at = "exited" /\ ~run.dark) => run.told = 1

\* Invariant 24, item 4: "Each run submission reports exactly one `Stopped`,
\* whichever end path fires."
EverySubmissionAnswered == run.at = "exited" => run.told = 1

\* No jump stays armed in the file projection, which never moves mpv with a
\* playlist-pos write, so no restart there can settle one (enter_active_file).
NoArmInActiveFile == run.proj = "file" => run.arm = IdleArm

\* In the file projection, once the run has read what mpv said, the file mpv
\* holds is the slot the run names, over failed openings, jumps and advances.
FileIsActiveSlot ==
  (run.at = "running" /\ run.proj = "file" /\ run.file # "none")
     => run.list[run.pos] = run.slots[run.idx]

\* Nothing more is on its way to the run, and nobody asked it to stop.
Settled ==
  /\ run.at = "running" /\ run.up /\ tick = "commands" /\ chan = Nothing /\ run.evs = Nothing
  /\ ~token /\ ~run.quit /\ ~run.quitting

\* The same in the playlist projection, where mpv goes on by itself: the
\* position events and the end-files bring the run to mpv's entry.
RunFollowsMpv ==
  (Settled /\ run.proj = "playlist" /\ run.file = "playing") => run.list[run.pos] = run.slots[run.idx]

\* A stop request ends the run's thread, even when a submission that was sent
\* before it is read afterwards and cancels the quit (handle_stop_request).
StopEndsRun == token ~> run.at # "running"
=============================================================================

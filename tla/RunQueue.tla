------------------------------ MODULE RunQueue ------------------------------
(***************************************************************************)
(* The three copies of the play order: the owner's canonical queue         *)
(* (mbv-queue, edited by mbv-daemon/src/control/queue_edit.rs), the        *)
(* ExecutionSequence of the playback run, and mpv's playlist.              *)
(*                                                                         *)
(* The owner edits its own queue at once and sends the run one command per *)
(* edit.  The run applies a command to its sequence and to mpv's playlist  *)
(* in one handler, and learns from mpv's end-file and playlist-pos events  *)
(* which entry plays.  What it learns goes back to the owner as            *)
(* TrackCompleted and TrackChanged; the consume policy of the owner may    *)
(* then take the completed slot out of the canonical queue, and only there.*)
(*                                                                         *)
(* The run is in the playlist projection with a queue origin and no jump   *)
(* armed; PlaybackRun models the rest of its lifecycle.  Indices are       *)
(* 1-based: current_idx, playlist-pos and to_index are one more than in    *)
(* the code, and 0 is no entry.                                            *)
(***************************************************************************)
EXTENDS FiniteSets, SequencesExt, KeptSequences

CONSTANTS
  Slots,        \* slot identities the owner can mint
  NoSlot,       \* the absent slot
  StartLen,     \* length of the queue the run was started with
  Policies,     \* consume policies: TRUE removes a slot that completed
  Edits,        \* the kinds of edit clients make
  MaxEdits,     \* bound: queue edits by clients
  MaxKeys,      \* bound: next or previous pressed in the mpv window
  MaxPending    \* bound: unread events beyond which mpv plays on

ASSUME RunQueueAssumption ==
  /\ NoSlot \notin Slots /\ IsFiniteSet(Slots)
  /\ StartLen \in 1..Cardinality(Slots)
  /\ Policies \subseteq BOOLEAN
  /\ Edits \subseteq {"remove", "move", "append", "shuffle"}
  /\ MaxEdits \in Nat /\ MaxKeys \in Nat /\ MaxPending \in Nat

VARIABLES
  queue,     \* the owner's canonical slots, in order
  active,    \* the owner's active slot
  consumes,  \* the consume policy
  minted,    \* slots ever minted
  chan,      \* commands sent to the run and not yet read
  tick,      \* what the run's loop drains: "commands" or "events"
  run,       \* the run and mpv: [alive, slots, cur, idx, list, pos]
  evs,       \* mpv events the run has not read
  out,       \* player events the owner has not read
  edits, keys

vars == <<queue, active, consumes, minted, chan, tick, run, evs, out, edits, keys>>

-----------------------------------------------------------------------------
(* Sequences of slots.                                                     *)

IndexOf(s, seq) == IF s \in Range(seq) THEN CHOOSE i \in DOMAIN seq : seq[i] = s ELSE 0

Without(seq, s) == RemoveAt(seq, IndexOf(s, seq))

\* Vec::remove followed by Vec::insert at an index clamped to the new length.
MoveSlot(seq, s, to) ==
  LET rest == RemoveAt(seq, IndexOf(s, seq))
  IN InsertAt(rest, IF to > Len(rest) THEN Len(rest) + 1 ELSE to, s)

SlotAt(seq, i) == IF i \in DOMAIN seq THEN seq[i] ELSE NoSlot

-----------------------------------------------------------------------------
(* mpv (external): its playlist and the entry it plays.                    *)

\* The property change mpv sends when an edit of the playlist shifts the
\* index of the entry it plays.
PosEvents(before, after) ==
  IF before # after /\ after > 0 THEN <<[e |-> "pos", at |-> after]>> ELSE <<>>

\* playlist-move: the entry at `from` ends up in front of the entry that was
\* at `to`, so an entry moved towards the end lands one before `to`.
PlaylistMove(list, from, to) ==
  InsertAt(RemoveAt(list, from), IF from < to THEN to - 1 ELSE to, list[from])

\* playlist-remove: the entry that plays is kept, and when it is the one that
\* is removed mpv ends it and goes on with the one that takes its place.
PlaylistRemove(r, i) ==
  LET list == RemoveAt(r.list, i)
      pos  == IF i < r.pos THEN r.pos - 1
              ELSE IF i = r.pos /\ i > Len(list) THEN 0 ELSE r.pos
  IN [list |-> list, pos |-> pos,
      sent |-> (IF i = r.pos THEN <<[e |-> "stop", at |-> 0]>> ELSE <<>>)
               \o PosEvents(r.pos, pos)]

\* mpv leaves its entry for entry `to`, or for none.
MpvLeaves(reason, to) ==
  /\ run.alive /\ run.pos > 0 /\ Len(evs) + Len(out) <= MaxPending
  /\ run' = [run EXCEPT !.pos = to]
  /\ evs' = evs \o <<[e |-> reason, at |-> 0]>> \o PosEvents(run.pos, to)
  /\ UNCHANGED <<queue, active, minted, chan, tick, out, edits>>

\* The entry plays to its end.
MpvEof == MpvLeaves("eof", IF run.pos < Len(run.list) THEN run.pos + 1 ELSE 0) /\ UNCHANGED keys

\* The user steps in the mpv window.
MpvKey ==
  /\ keys < MaxKeys
  /\ \E to \in {run.pos - 1, run.pos + 1} \cap DOMAIN run.list : MpvLeaves("stop", to)
  /\ keys' = keys + 1

-----------------------------------------------------------------------------
(* Queue edits of the owner.                                               *)

Edit(kind, newQueue, newActive, cmds) ==
  /\ kind \in Edits /\ edits < MaxEdits
  /\ queue' = newQueue /\ active' = newActive
  /\ chan' = chan \o cmds
  /\ edits' = edits + 1
  /\ UNCHANGED <<tick, run, evs, out, keys>>

\* A client removes a set of slots as one edit.  An edit that empties the
\* queue submits an empty queue and stops the run instead.
RemoveSlots ==
  \E gone \in {S \in SUBSET Range(queue) : Cardinality(S) \in 1..2} :
    LET left == Kept(queue, Slots \ gone)
        picked == Kept(queue, gone)
        cmds == [i \in 1..Cardinality(gone) |->
                   [c |-> "remove", slot |-> picked[i], to |-> 0, order |-> <<>>]]
    IN /\ Edit("remove", left, IF active \in gone THEN NoSlot ELSE active,
               IF left = <<>> THEN <<[c |-> "stop", slot |-> NoSlot, to |-> 0, order |-> <<>>]>> ELSE cmds)
       /\ UNCHANGED minted

MoveOneSlot ==
  \E s \in Range(queue), to \in DOMAIN queue :
    /\ Edit("move", MoveSlot(queue, s, to), active,
            <<[c |-> "move", slot |-> s, to |-> to, order |-> <<>>]>>)
    /\ UNCHANGED minted

\* Mutant: an insertion is forwarded as an append only.
AppendWithoutMove ==
  \E s \in Slots \ minted, at \in 1..(Len(queue) + 1) :
    /\ Edit("append", InsertAt(queue, at, s), active,
            <<[c |-> "append", slot |-> s, to |-> 0, order |-> <<>>]>>)
    /\ minted' = minted \cup {s}

\* The new slot is inserted in front of an anchor, or appended; the run
\* appends it and then moves it.
AppendSlot ==
  \E s \in Slots \ minted, at \in 1..(Len(queue) + 1) :
    /\ Edit("append", InsertAt(queue, at, s), active,
            <<[c |-> "append", slot |-> s, to |-> 0, order |-> <<>>]>>
            \o (IF at <= Len(queue) THEN <<[c |-> "move", slot |-> s, to |-> at, order |-> <<>>]>> ELSE <<>>))
    /\ minted' = minted \cup {s}

\* The active slot is pinned to the front while the output plays it.
ShuffleOrders ==
  LET pinned == IF run.alive /\ active \in Range(queue) THEN <<active>> ELSE <<>>
  IN {pinned \o o : o \in SetToSeqs(Range(queue) \ Range(pinned))}

Shuffle ==
  \E order \in ShuffleOrders \ {queue} :
    /\ Edit("shuffle", order, active, <<[c |-> "reorder", slot |-> NoSlot, to |-> 0, order |-> order]>>)
    /\ UNCHANGED minted

-----------------------------------------------------------------------------
(* The run reads a command.                                                *)

\* Mutant: the active marker survives the removal of its slot.
RemoveKeepsActive(r, s) ==
  IF IndexOf(s, r.slots) = 0 THEN [run |-> r, sent |-> <<>>]
  ELSE LET mpv == PlaylistRemove(r, IndexOf(s, r.slots))
       IN [run |-> [r EXCEPT !.slots = RemoveAt(r.slots, IndexOf(s, r.slots)),
                             !.list = mpv.list, !.pos = mpv.pos],
           sent |-> mpv.sent]

\* cmd_queue_remove: current_idx is left for playlist-pos to correct.
CmdRemove(r, s) ==
  IF IndexOf(s, r.slots) = 0 THEN [run |-> r, sent |-> <<>>]
  ELSE LET mpv == PlaylistRemove(r, IndexOf(s, r.slots))
       IN [run |-> [r EXCEPT !.slots = RemoveAt(r.slots, IndexOf(s, r.slots)),
                             !.cur = IF r.cur = s THEN NoSlot ELSE r.cur,
                             !.list = mpv.list, !.pos = mpv.pos],
           sent |-> mpv.sent]

\* Mutant: mpv is given the run's own target index.
MoveTargetAsGiven(from, to) == to

\* mpv names the entry the moved one should stand before, so a move towards
\* the end passes one more.
PlaylistMoveTarget(from, to) == IF from < to THEN to + 1 ELSE to

ShiftIndexForMove(i, from, to) ==
  IF i = from THEN to
  ELSE IF from < i /\ i <= to THEN i - 1
  ELSE IF to <= i /\ i < from THEN i + 1 ELSE i

\* cmd_queue_move on the run's sequence, its coordinate and mpv's playlist.
CmdMove(r, s, to) ==
  LET from == IndexOf(s, r.slots)
  IN IF from = 0 \/ to > Len(r.slots) \/ from = to THEN r
     ELSE LET list == PlaylistMove(r.list, from, PlaylistMoveTarget(from, to))
          IN [r EXCEPT !.slots = MoveSlot(r.slots, s, to),
                       !.idx = ShiftIndexForMove(r.idx, from, to),
                       !.list = list,
                       !.pos = IF r.pos = 0 THEN 0 ELSE IndexOf(r.list[r.pos], list)]

IsSlotPermutation(held, order) == Len(held) = Len(order) /\ Range(held) = Range(order)

\* cmd_queue_reorder: one move per position, from the front.
CmdReorder(r, order) ==
  IF ~IsSlotPermutation(r.slots, order) THEN r
  ELSE LET after[i \in 0..Len(order)] == IF i = 0 THEN r ELSE CmdMove(after[i - 1], order[i], i)
       IN after[Len(order)]

CmdAppend(r, s) == [r EXCEPT !.slots = Append(@, s), !.list = Append(@, s)]

HandleCommand ==
  /\ run.alive /\ tick = "commands" /\ chan # <<>>
  /\ LET cmd  == Head(chan)
         done == CASE cmd.c = "remove"  -> CmdRemove(run, cmd.slot)
                   [] cmd.c = "move"    -> [run |-> CmdMove(run, cmd.slot, cmd.to), sent |-> <<>>]
                   [] cmd.c = "reorder" -> [run |-> CmdReorder(run, cmd.order), sent |-> <<>>]
                   [] cmd.c = "append"  -> [run |-> CmdAppend(run, cmd.slot), sent |-> <<>>]
                   [] cmd.c = "stop"    -> [run |-> [run EXCEPT !.alive = FALSE], sent |-> <<>>]
     IN /\ run' = done.run
        /\ evs' = IF done.run.alive
                    THEN evs \o (IF cmd.c = "remove" THEN done.sent ELSE PosEvents(run.pos, done.run.pos))
                    ELSE <<>>
  /\ chan' = Tail(chan)
  /\ UNCHANGED <<queue, active, minted, tick, out, edits, keys>>

\* run_tick drains the commands, then mpv's events, then starts again.
RunTick ==
  /\ run.alive
  /\ \/ tick = "commands" /\ chan = <<>> /\ tick = "commands" /\ evs # <<>> /\ tick' = "events"
     \/ tick = "events" /\ evs = <<>> /\ tick' = "commands"
  /\ UNCHANGED <<queue, active, minted, chan, run, evs, out, edits, keys>>

-----------------------------------------------------------------------------
(* The run reads an mpv event.                                             *)

Completed(s, consume) == IF s = NoSlot THEN <<>> ELSE <<[e |-> "completed", slot |-> s, consume |-> consume]>>
Changed(s) == <<[e |-> "changed", slot |-> s, consume |-> FALSE]>>

\* mpv is on another entry than the run believes.
Diverges(p) == p \in DOMAIN run.slots /\ p # run.idx

\* Mutant: the adopted entry is not announced.
AdoptSilently(left, p) ==
  /\ run' = [run EXCEPT !.idx = p, !.cur = run.slots[p]]
  /\ out' = out \o Completed(left, FALSE)

\* report_stopped_and_adopt_mpv_entry.
Adopt(left, p) ==
  /\ run' = [run EXCEPT !.idx = p, !.cur = run.slots[p]]
  /\ out' = out \o Completed(left, FALSE) \o Changed(run.slots[p])

EndRun == run' = [run EXCEPT !.alive = FALSE] /\ UNCHANGED out

\* on_end_file_queue with no jump armed.
OnEndFile(reason) ==
  IF run.cur = NoSlot THEN EndRun            \* stop_for_missing_completed
  ELSE IF reason = "stop"                    \* handle_superseded_jump
       THEN IF Diverges(run.pos) THEN Adopt(run.cur, run.pos) ELSE UNCHANGED <<run, out>>
  ELSE IF run.idx + 1 > Len(run.slots) THEN EndRun   \* stop_at_queue_end
  ELSE /\ run' = [run EXCEPT !.idx = @ + 1, !.cur = run.slots[run.idx + 1]]
       /\ out' = out \o Completed(run.cur, TRUE) \o Changed(run.slots[run.idx + 1])

\* Mutant: the run follows end-file events only.
IgnorePlaylistPos(p) == UNCHANGED <<run, out>>

OnPlaylistPos(p) ==
  IF Diverges(p) THEN Adopt(SlotAt(run.slots, run.idx), p) ELSE UNCHANGED <<run, out>>

HandleEvent ==
  /\ run.alive /\ tick = "events" /\ evs # <<>>
  /\ IF Head(evs).e = "pos" THEN OnPlaylistPos(Head(evs).at) ELSE OnEndFile(Head(evs).e)
  /\ evs' = IF run'.alive THEN Tail(evs) ELSE <<>>
  /\ UNCHANGED <<queue, active, minted, chan, tick, edits, keys>>

-----------------------------------------------------------------------------
(* The owner reads a player event.                                         *)

Consumed(ev) == ev.e = "completed" /\ ev.consume /\ consumes /\ ev.slot \in Range(queue)

\* remove_existing_slot: the marker goes to the slot that took the place of
\* the consumed one, or to the last.
AfterConsume(s) ==
  LET left == Without(queue, s)
  IN IF left = <<>> THEN NoSlot ELSE left[Min({IndexOf(s, queue), Len(left)})]

\* TrackCompleted and TrackChanged; a track change to a slot the queue no
\* longer holds is discarded.
OwnerReads ==
  /\ out # <<>>
  /\ LET ev == Head(out)
     IN /\ queue' = IF Consumed(ev) THEN Without(queue, ev.slot) ELSE queue
        /\ active' = IF Consumed(ev) /\ active = ev.slot THEN AfterConsume(ev.slot)
                     ELSE IF ev.e = "changed" /\ ev.slot \in Range(queue) THEN ev.slot ELSE active
  /\ out' = Tail(out)
  /\ UNCHANGED <<minted, chan, tick, run, evs, edits, keys>>

-----------------------------------------------------------------------------
Init ==
  \E start \in {SubSeq(order, 1, StartLen) : order \in SetToSeqs(Slots)} :
    /\ consumes \in Policies
    /\ queue = start /\ active = start[1] /\ minted = Range(start)
    /\ run = [alive |-> TRUE, slots |-> start, cur |-> start[1], idx |-> 1, list |-> start, pos |-> 1]
    /\ chan = <<>> /\ tick = "commands" /\ evs = <<>> /\ out = <<>> /\ edits = 0 /\ keys = 0

Next ==
  /\ \/ MpvEof \/ MpvKey
     \/ RemoveSlots \/ MoveOneSlot \/ AppendSlot \/ Shuffle
     \/ HandleCommand \/ RunTick \/ HandleEvent \/ OwnerReads
  /\ UNCHANGED consumes

Spec == Init /\ [][Next]_vars

-----------------------------------------------------------------------------
(* Properties.                                                             *)

TypeOK ==
  /\ Range(queue) \cup Range(run.slots) \subseteq minted /\ minted \subseteq Slots
  /\ active \in Range(queue) \cup {NoSlot}
  /\ run.cur \in Range(run.slots) \cup {NoSlot}
  /\ run.pos \in 0..Len(run.list)
  /\ edits \in 0..MaxEdits /\ keys \in 0..MaxKeys

\* mpv's playlist is the run's sequence after every command, so an index of
\* mpv names a slot of the run: playlist-move counts its target in front of
\* the entry it moves, and the run's own move does not.
PlaylistMirrorsRun == run.alive => run.list = run.slots

OnOneEntry == (run.alive /\ evs = <<>> /\ run.pos > 0) => run.idx = run.pos /\ run.cur = run.list[run.pos]

\* Once mpv's events are read, the run's ordinal and its active slot are the
\* entry mpv plays, whatever edits ran between an end of file and its event.
\* cmd_queue_remove relies on it: it leaves current_idx for the next
\* playlist-pos to correct.  A slot removed while a step of the mpv window is
\* on its way is the exception: the run may then settle one entry off.
CoordinateSettles == (keys = 0 \/ minted \subseteq Range(run.slots)) => OnOneEntry

Quiet == run.alive /\ run.pos > 0 /\ chan = <<>> /\ tick = "commands" /\ evs = <<>> /\ out = <<>>

\* While nothing is consumed, the run plays the owner's order once it has
\* read every edit; with a consume policy it still holds every slot the owner
\* shows, so that each can be jumped to.
RunKeepsUp ==
  /\ Quiet /\ ~consumes => run.slots = queue
  /\ Quiet => Range(queue) \subseteq Range(run.slots)

\* The owner's active slot is the slot mpv plays, unless the owner has let
\* go of that slot: edits, consumption and steps in the mpv window included.
ObservedSlotIsPlaying ==
  (Quiet /\ OnOneEntry /\ run.list[run.pos] \in Range(queue)) => active = run.list[run.pos]

\* "After the reorder, a natural end, the Next command, the Previous command,
\* and the Next Up card SHALL all follow the new order": the entry mpv goes to
\* when the active slot ends is the slot behind it in the owner's queue.  The
\* code breaks it: a shuffle of what is left after a consumed slot is no
\* permutation of the run's slots, and cmd_queue_reorder discards it.
NaturalEndFollowsQueue ==
  (Quiet /\ active \in Range(queue)) =>
    SlotAt(run.list, run.pos + 1) = SlotAt(queue, IndexOf(active, queue) + 1)

=============================================================================

-------------------------- MODULE PlaybackRunProofs --------------------------
(***************************************************************************)
(* Proofs about PlaybackRun, for any queues, any number of submissions,    *)
(* jumps and faults: one Stopped for every submission; in the file         *)
(* projection the file of the slot the run names, with no jump armed; and  *)
(* in the playlist projection the slot of mpv's entry, once all is read.   *)
(*                                                                         *)
(* The run is one record.  What an operator does to it is stated in views: *)
(* the ledger of Stopped, the named slot, and mpv.  A lemma per operator   *)
(* says which views it keeps and what it makes of the others.              *)
(***************************************************************************)
EXTENDS PlaybackRun, SequenceTheorems, TLAPS

-----------------------------------------------------------------------------
(* The types of a run.                                                     *)

Fields ==
  {"at", "identity", "ended", "began", "proj", "standalone", "slots", "idx", "arm", "drain",
   "quit", "tracks", "active", "told", "dark", "list", "pos", "file", "up", "quitting", "evs"}

Arms == [at : {"idle", "pending", "resume"}, to : Nat, from_idle : BOOLEAN, resume : BOOLEAN]

Kinds == {"eof", "stop", "quit", "fail", "restart", "pos", "exit", "shutdown"}
Events == [e : Kinds, at : Nat]

Typed(r) ==
  /\ r = [f \in Fields |-> r[f]]
  /\ r.at \in {"none", "starting", "running", "exited"}
  /\ r.proj \in {"playlist", "file"} /\ r.file \in {"none", "loading", "playing"}
  /\ r.began \in BOOLEAN /\ r.standalone \in BOOLEAN /\ r.drain \in BOOLEAN /\ r.quit \in BOOLEAN
  /\ r.tracks \in BOOLEAN /\ r.active \in BOOLEAN /\ r.dark \in BOOLEAN /\ r.up \in BOOLEAN
  /\ r.quitting \in BOOLEAN
  /\ r.identity \in Nat /\ r.ended \in Nat /\ r.told \in {0, 1} /\ r.idx \in Nat /\ r.pos \in Nat
  /\ r.slots \in Seq(Slots) /\ r.list \in Seq(Slots) /\ r.evs \in Seq(Events) /\ r.arm \in Arms

\* What the ledger of Stopped reads, what says which slot is active, and mpv.
SameLedger(r, s) ==
  /\ s.at = r.at /\ s.identity = r.identity /\ s.ended = r.ended /\ s.told = r.told
  /\ s.active = r.active /\ s.dark = r.dark
SameSlot(r, s) == s.slots = r.slots /\ s.idx = r.idx /\ s.proj = r.proj
SameMpv(r, s) == s.list = r.list /\ s.pos = r.pos /\ s.file = r.file /\ s.up = r.up

\* The identity's close is the one Stopped it sends.
Booked(r, g) ==
  /\ r.identity \in 1..g /\ r.ended <= r.identity
  /\ r.told = IF r.ended = r.identity THEN 1 ELSE 0

\* An inactive run that was not left so by the playlist has reported.
Ledger(r, g) ==
  /\ r.at = "starting" => /\ r.identity = 0 /\ r.ended = 0 /\ r.told = 0
                          /\ r.active /\ ~r.dark /\ ~r.up
  /\ r.at = "running" => Booked(r, g) /\ (r.active \/ r.dark \/ r.told = 1)
  /\ r.at = "exited" => r.dark \/ r.told = 1
  /\ r.identity <= g /\ r.ended <= r.identity

\* The run names one of its slots, and an armed jump another.
Placed(r) ==
  /\ r.idx \in DOMAIN r.slots
  /\ r.arm.at # "idle" => r.arm.to \in DOMAIN r.slots
  /\ r.proj = "file" => r.arm = IdleArm

\* mpv is on an entry exactly while it has a file; none is left of a dead one.
Entry(r) ==
  /\ r.file # "none" <=> r.pos \in DOMAIN r.list
  /\ ~r.up => r.list = Nothing /\ r.pos = 0 /\ r.file = "none"

\* In the file projection mpv holds the active slot and nothing else.
Filed(r) == (r.proj = "file" /\ r.file # "none") => (r.list = <<r.slots[r.idx]>> /\ r.pos = 1)

RunInv(r, g) ==
  /\ Typed(r) /\ Ledger(r, g) /\ Entry(r) /\ Filed(r)
  /\ r.at = "none" => r.slots = Nothing /\ r.arm = IdleArm
  /\ r.at = "starting" => r.arm = IdleArm /\ r.idx = 1
  /\ r.at # "none" => Placed(r)

-----------------------------------------------------------------------------
(* mpv.                                                                    *)

\* The empty sequence is one of any elements.
LEMMA NothingIs == \A S : Nothing \in Seq(S)
BY EmptySeq DEF Nothing

\* What mpv sends are events (mpv_events.rs).
LEMMA EventsAre ==
  /\ \A kind \in Kinds, i \in Nat : Ev(kind, i) \in Events /\ <<Ev(kind, i)>> \in Seq(Events)
  /\ \A r : \A kind \in Kinds : EndOf(r, kind) \in Seq(Events)
  /\ \A r : \A i \in Nat : PosOf(r, i) \in Seq(Events)
  /\ {"stop", "pos"} \subseteq Kinds
<1>1. \A kind \in Kinds, i \in Nat : Ev(kind, i) \in Events
  BY DEF Ev, Events
<1>2. \A x \in Events : <<x>> \in Seq(Events)
  OBVIOUS
<1>3. 0 \in Nat /\ "pos" \in Kinds
  BY DEF Kinds
<1> QED BY <1>1, <1>2, <1>3, NothingIs DEF EndOf, PosOf, Kinds

\* stop and playlist-clear leave no file and no list (player.rs).
LEMMA MpvStopDoes ==
  ASSUME NEW r, Typed(r), Entry(r)
  PROVE  LET s == MpvStop(r) IN
         /\ Typed(s) /\ Entry(s) /\ SameLedger(r, s) /\ SameSlot(r, s)
         /\ s.arm = r.arm /\ s.file = "none" /\ s.up = r.up
<1> DEFINE s == [r EXCEPT !.evs = @ \o EndOf(r, "stop"), !.list = Nothing, !.pos = 0, !.file = "none"]
<1>1. r.evs \o EndOf(r, "stop") \in Seq(Events)
  <2>1. r.evs \in Seq(Events) /\ EndOf(r, "stop") \in Seq(Events)
    BY EventsAre DEF Typed
  <2> QED BY <2>1, ConcatProperties
<1>2. Typed(s)
  BY <1>1, NothingIs DEF Typed, Fields
<1>3. SameLedger(r, s) /\ SameSlot(r, s) /\ s.arm = r.arm /\ s.file = "none" /\ s.up = r.up
  BY DEF Typed, Fields, SameLedger, SameSlot
<1>4. s.pos = 0 /\ s.list = Nothing
  BY DEF Typed, Fields
<1>5. MpvStop(r) = IF ~r.up THEN r ELSE s
  BY DEF MpvStop
<1> HIDE DEF s
<1>6. Entry(s)
  BY <1>3, <1>4 DEF Entry, Nothing
<1>7. CASE r.up
  BY <1>2, <1>3, <1>5, <1>6, <1>7
<1>8. CASE ~r.up
  BY <1>5, <1>8 DEF SameLedger, SameSlot, Entry
<1> QED BY <1>7, <1>8

\* A load puts a live mpv on the first entry of what it was given.
LEMMA MpvLoadDoes ==
  ASSUME NEW r, Typed(r), Entry(r), NEW list \in Seq(Slots), list # Nothing
  PROVE  LET s == MpvLoad(r, list) IN
         /\ Typed(s) /\ Entry(s) /\ SameLedger(r, s) /\ SameSlot(r, s)
         /\ s.arm = r.arm /\ s.up = r.up
         /\ r.up => s.list = list /\ s.pos = 1
<1> DEFINE s == [r EXCEPT !.evs = @ \o EndOf(r, "stop") \o PosOf(r, 1), !.list = list, !.pos = 1,
                          !.file = "loading"]
<1>1. r.evs \o EndOf(r, "stop") \o PosOf(r, 1) \in Seq(Events)
  <2>1. r.evs \in Seq(Events) /\ EndOf(r, "stop") \in Seq(Events) /\ PosOf(r, 1) \in Seq(Events)
    BY EventsAre DEF Typed
  <2> QED BY <2>1, ConcatProperties
<1>2. Typed(s)
  BY <1>1 DEF Typed, Fields
<1>3. SameLedger(r, s) /\ SameSlot(r, s) /\ s.arm = r.arm /\ s.up = r.up
  BY DEF Typed, Fields, SameLedger, SameSlot
<1>4. s.pos = 1 /\ s.list = list /\ s.file = "loading"
  BY DEF Typed, Fields
<1>5. MpvLoad(r, list) = IF ~r.up THEN r ELSE s
  BY DEF MpvLoad
<1> HIDE DEF s
<1>6. r.up => Entry(s)
  <2>1. 1 \in DOMAIN list
    BY LenProperties, EmptySeq DEF Nothing
  <2> QED BY <1>3, <1>4, <2>1 DEF Entry
<1>7. CASE r.up
  BY <1>2, <1>3, <1>4, <1>5, <1>6, <1>7
<1>8. CASE ~r.up
  BY <1>5, <1>8 DEF SameLedger, SameSlot, Entry
<1> QED BY <1>7, <1>8

\* A write of playlist-pos moves mpv inside its list.
LEMMA MpvJumpDoes ==
  ASSUME NEW r, Typed(r), Entry(r), r.up, NEW i \in DOMAIN r.list
  PROVE  LET s == MpvJump(r, i) IN
         /\ Typed(s) /\ Entry(s) /\ SameLedger(r, s) /\ SameSlot(r, s)
         /\ s.arm = r.arm
<1> DEFINE s == [r EXCEPT !.evs = @ \o EndOf(r, "stop") \o PosOf(r, i), !.pos = i, !.file = "loading"]
<1>0. i \in Nat
  BY LenProperties DEF Typed
<1>1. r.evs \o EndOf(r, "stop") \o PosOf(r, i) \in Seq(Events)
  <2>1. r.evs \in Seq(Events) /\ EndOf(r, "stop") \in Seq(Events) /\ PosOf(r, i) \in Seq(Events)
    BY <1>0, EventsAre DEF Typed
  <2> QED BY <2>1, ConcatProperties
<1>2. Typed(s)
  BY <1>0, <1>1 DEF Typed, Fields
<1>3. SameLedger(r, s) /\ SameSlot(r, s) /\ s.arm = r.arm /\ s.up = r.up
  BY DEF Typed, Fields, SameLedger, SameSlot
<1>4. s.pos = i /\ s.list = r.list /\ s.file = "loading"
  BY DEF Typed, Fields
<1>5. MpvJump(r, i) = s
  BY DEF MpvJump
<1> HIDE DEF s
<1>6. Entry(s)
  BY <1>3, <1>4 DEF Entry
<1> QED BY <1>2, <1>3, <1>5, <1>6

\* mpv leaves its entry for the next one, which it has, or for none.
LEMMA MpvGoesOnDoes ==
  ASSUME NEW r, Typed(r), Entry(r), r.up, r.file # "none", NEW kind \in Kinds
  PROVE  LET s == MpvGoesOn(r, kind) IN
         /\ Typed(s) /\ Entry(s) /\ SameLedger(r, s) /\ SameSlot(r, s)
         /\ s.arm = r.arm
         /\ s.file # "none" => Len(r.list) > r.pos
<1> DEFINE next == r.pos + 1
           s == [r EXCEPT !.evs = @ \o <<Ev(kind, 0), Ev("pos", next)>>, !.pos = next, !.file = "loading"]
           t == [r EXCEPT !.evs = @ \o <<Ev(kind, 0)>>, !.pos = 0, !.file = "none"]
<1>0. /\ r.pos \in Nat /\ Len(r.list) \in Nat /\ DOMAIN r.list = 1..Len(r.list)
      /\ r.evs \in Seq(Events)
  BY LenProperties DEF Typed
<1>1. /\ r.evs \o <<Ev(kind, 0), Ev("pos", r.pos + 1)>> \in Seq(Events)
      /\ r.evs \o <<Ev(kind, 0)>> \in Seq(Events)
  <2>1. Ev(kind, 0) \in Events /\ Ev("pos", r.pos + 1) \in Events
    BY <1>0, EventsAre
  <2>2. <<Ev(kind, 0), Ev("pos", r.pos + 1)>> \in Seq(Events) /\ <<Ev(kind, 0)>> \in Seq(Events)
    BY <2>1
  <2> QED BY <1>0, <2>2, ConcatProperties
<1>2. Typed(s) /\ Typed(t)
  <2>0. next \in Nat /\ r.evs \o <<Ev(kind, 0), Ev("pos", next)>> \in Seq(Events)
    BY <1>0, <1>1
  <2> HIDE DEF next
  <2>1. Typed(s)
    BY <2>0 DEF Typed, Fields
  <2>2. Typed(t)
    BY <1>0, <1>1 DEF Typed, Fields
  <2> QED BY <2>1, <2>2
<1>3. SameLedger(r, s) /\ SameSlot(r, s) /\ s.arm = r.arm /\ s.up = r.up
  BY DEF Typed, Fields, SameLedger, SameSlot
<1>4. SameLedger(r, t) /\ SameSlot(r, t) /\ t.arm = r.arm /\ t.up = r.up
  BY DEF Typed, Fields, SameLedger, SameSlot
<1>5. s.pos = r.pos + 1 /\ s.list = r.list /\ s.file = "loading"
  BY DEF Typed, Fields
<1>6. t.pos = 0 /\ t.list = r.list /\ t.file = "none"
  BY DEF Typed, Fields
<1>7. MpvGoesOn(r, kind) = IF r.pos < Len(r.list) THEN s ELSE t
  BY DEF MpvGoesOn
<1> HIDE DEF s, t
<1>8. CASE r.pos < Len(r.list)
  <2>1. Entry(s)
    BY <1>0, <1>3, <1>5, <1>8 DEF Entry
  <2> QED BY <1>2, <1>3, <1>7, <1>8, <2>1, <1>0
<1>9. CASE ~(r.pos < Len(r.list))
  <2>1. Entry(t)
    BY <1>0, <1>4, <1>6 DEF Entry
  <2> QED BY <1>2, <1>4, <1>6, <1>7, <1>9, <2>1
<1> QED BY <1>8, <1>9

\* A dead mpv keeps no file and no list.
LEMMA MpvDownDoes ==
  ASSUME NEW r, Typed(r), NEW sent \in Seq(Events)
  PROVE  LET s == MpvDown(r, sent) IN
         /\ Typed(s) /\ Entry(s) /\ SameLedger(r, s) /\ SameSlot(r, s)
         /\ s.arm = r.arm /\ s.file = "none"
<1> DEFINE s == [r EXCEPT !.evs = @ \o sent, !.up = FALSE, !.file = "none", !.list = Nothing, !.pos = 0,
                          !.quitting = FALSE]
<1>1. r.evs \o sent \in Seq(Events)
  BY ConcatProperties DEF Typed
<1>2. Typed(s)
  BY <1>1, NothingIs DEF Typed, Fields
<1>3. SameLedger(r, s) /\ SameSlot(r, s) /\ s.arm = r.arm
  BY DEF Typed, Fields, SameLedger, SameSlot
<1>4. s.pos = 0 /\ s.list = Nothing /\ s.file = "none" /\ ~s.up
  BY DEF Typed, Fields
<1>5. MpvDown(r, sent) = s
  BY DEF MpvDown
<1> HIDE DEF s
<1>6. Entry(s)
  BY <1>4 DEF Entry, Nothing
<1> QED BY <1>2, <1>3, <1>4, <1>5, <1>6

\* A step that leaves the ledger, the slot and the arm alone.
LEMMA MpvKeeps ==
  ASSUME NEW g, NEW r, RunInv(r, g), r.at # "none", NEW s,
         Typed(s), Entry(s), SameLedger(r, s), SameSlot(r, s), s.arm = r.arm, Filed(s),
         r.at = "starting" => s.up = r.up
  PROVE  RunInv(s, g)
BY DEF RunInv, Ledger, Booked, Placed, SameLedger, SameSlot

-----------------------------------------------------------------------------
(* RunLifecycle.                                                           *)

\* end_run: after it the identity is closed and one Stopped was sent.
LEMMA EndRunDoes ==
  ASSUME NEW g, NEW r, Typed(r), Booked(r, g)
  PROVE  LET s == EndRun(r) IN
         /\ Typed(s) /\ Booked(s, g) /\ s.told = 1 /\ s.at = r.at
         /\ SameSlot(r, s) /\ SameMpv(r, s) /\ s.arm = r.arm
<1> DEFINE n == IF r.told < 2 THEN r.told + 1 ELSE r.told
           s == [r EXCEPT !.ended = r.identity, !.active = FALSE, !.told = n]
<1>1. EndRun(r) = IF Close(r) THEN s ELSE r
  BY DEF EndRun
<1>2. CASE Close(r)
  <2>1. n = 1
    BY <1>2 DEF Booked, Close
  <2> HIDE DEF n
  <2>2. Typed(s)
    BY <2>1 DEF Typed, Fields
  <2>3. /\ s.identity = r.identity /\ s.ended = r.identity /\ s.told = 1 /\ s.at = r.at
        /\ SameSlot(r, s) /\ SameMpv(r, s) /\ s.arm = r.arm
    BY <2>1 DEF Typed, Fields, SameSlot, SameMpv
  <2> HIDE DEF s
  <2>4. Booked(s, g)
    BY <2>3 DEF Booked, Typed
  <2> QED BY <1>1, <1>2, <2>2, <2>3, <2>4
<1>3. CASE ~Close(r)
  <2>1. r.told = 1
    BY <1>3 DEF Booked, Close
  <2> QED BY <1>1, <1>3, <2>1 DEF SameSlot, SameMpv
<1> QED BY <1>2, <1>3

\* The arm of no jump.
LEMMA IdleArmIs == IdleArm \in Arms /\ IdleArm.at = "idle" /\ IdleArm.resume = FALSE
BY DEF IdleArm, Arms

\* begin_item_lifecycle touches the arm and two flags alone.
LEMMA BeginItemDoes ==
  ASSUME NEW r, Typed(r)
  PROVE  LET s == BeginItem(r) IN
         /\ Typed(s) /\ SameLedger(r, s) /\ SameSlot(r, s) /\ SameMpv(r, s) /\ s.arm = IdleArm
<1> DEFINE s == [r EXCEPT !.drain = TRUE, !.arm = IdleArm, !.tracks = FALSE]
<1>1. Typed(s)
  BY IdleArmIs DEF Typed, Fields
<1>2. SameLedger(r, s) /\ SameSlot(r, s) /\ SameMpv(r, s) /\ s.arm = IdleArm
  BY DEF Typed, Fields, SameLedger, SameSlot, SameMpv
<1>3. BeginItem(r) = s
  BY DEF BeginItem
<1> HIDE DEF s
<1> QED BY <1>1, <1>2, <1>3

\* A failed install deactivates the status and books nothing.
LEMMA NotInstalledDoes ==
  ASSUME NEW g, NEW r, NEW load, Typed(r), Booked(r, g)
  PROVE  LET s == NotInstalled(r, load) IN
         /\ Typed(s) /\ Booked(s, g) /\ s.at = r.at
         /\ SameSlot(r, s) /\ SameMpv(r, s) /\ s.arm = r.arm
<1> DEFINE s == [r EXCEPT !.active = FALSE]
<1>1. Typed(s)
  BY DEF Typed, Fields
<1>2. /\ s.identity = r.identity /\ s.ended = r.ended /\ s.told = r.told /\ s.at = r.at
      /\ SameSlot(r, s) /\ SameMpv(r, s) /\ s.arm = r.arm
  BY DEF Typed, Fields, SameSlot, SameMpv
<1>3. NotInstalled(r, load) = IF load = "install" THEN s ELSE r
  BY DEF NotInstalled
<1> HIDE DEF s
<1>4. Booked(s, g)
  BY <1>2 DEF Booked
<1>5. CASE load = "install"
  BY <1>1, <1>2, <1>3, <1>4, <1>5
<1>6. CASE load # "install"
  BY <1>3, <1>6 DEF SameSlot, SameMpv
<1> QED BY <1>5, <1>6

\* An accepted submission opens a new account.
LEMMA AcceptedDoes ==
  ASSUME NEW g \in Nat \ {0}, NEW r, Typed(r)
  PROVE  LET s == SubmissionAccepted(r, g) IN
         /\ Typed(s) /\ Booked(s, g) /\ s.at = r.at /\ s.active = r.active /\ s.told = 0 /\ s.ended = 0
         /\ SameSlot(r, s) /\ SameMpv(r, s) /\ s.arm = IdleArm
<1> DEFINE s == [r EXCEPT !.identity = g, !.began = FALSE, !.arm = IdleArm, !.ended = 0, !.told = 0,
                          !.dark = FALSE]
<1>1. Typed(s)
  BY IdleArmIs DEF Typed, Fields
<1>2. /\ s.identity = g /\ s.ended = 0 /\ s.told = 0 /\ s.at = r.at /\ s.active = r.active
      /\ SameSlot(r, s) /\ SameMpv(r, s) /\ s.arm = IdleArm
  BY DEF Typed, Fields, SameSlot, SameMpv
<1>3. SubmissionAccepted(r, g) = s
  BY DEF SubmissionAccepted
<1> HIDE DEF s
<1>4. Booked(s, g)
  BY <1>2 DEF Booked
<1> QED BY <1>1, <1>2, <1>3, <1>4

\* enter_active_file disarms whatever jump was armed.
LEMMA EnterDoes ==
  ASSUME NEW r, Typed(r)
  PROVE  LET s == EnterActiveFile(r) IN
         /\ Typed(s) /\ SameLedger(r, s) /\ SameMpv(r, s)
         /\ s.slots = r.slots /\ s.idx = r.idx /\ s.proj = "file" /\ s.arm = IdleArm
<1> DEFINE s == [r EXCEPT !.proj = "file", !.arm = IdleArm]
<1>1. Typed(s)
  BY IdleArmIs DEF Typed, Fields
<1>2. /\ SameLedger(r, s) /\ SameMpv(r, s)
      /\ s.slots = r.slots /\ s.idx = r.idx /\ s.proj = "file" /\ s.arm = IdleArm
  BY DEF Typed, Fields, SameLedger, SameMpv
<1>3. EnterActiveFile(r) = s
  BY DEF EnterActiveFile
<1> HIDE DEF s
<1> QED BY <1>1, <1>2, <1>3

\* arm_jump arms a slot of the run, and in the file projection nothing.
LEMMA ArmJumpDoes ==
  ASSUME NEW r, Typed(r), NEW i \in DOMAIN r.slots, NEW resume \in BOOLEAN
  PROVE  LET s == ArmJump(r, i, resume) IN
         /\ Typed(s) /\ SameLedger(r, s) /\ SameSlot(r, s) /\ SameMpv(r, s)
         /\ s.arm.at # "idle" => s.arm.to \in DOMAIN r.slots
         /\ r.proj = "file" => s.arm = IdleArm
<1> DEFINE arm == [at |-> "pending", to |-> i, from_idle |-> ~r.active, resume |-> resume]
           s == [r EXCEPT !.arm = IdleArm]
           t == [r EXCEPT !.arm = arm]
<1>1. arm \in Arms /\ arm.to = i
  BY LenProperties DEF Typed, Arms
<1>2. ArmJump(r, i, resume) = IF r.proj = "file" THEN s ELSE t
  BY DEF ArmJump
<1> HIDE DEF arm
<1>3. /\ Typed(s) /\ SameLedger(r, s) /\ SameSlot(r, s) /\ SameMpv(r, s) /\ s.arm = IdleArm
  BY IdleArmIs DEF Typed, Fields, SameLedger, SameSlot, SameMpv
<1>4. /\ Typed(t) /\ SameLedger(r, t) /\ SameSlot(r, t) /\ SameMpv(r, t) /\ t.arm = arm
  BY <1>1 DEF Typed, Fields, SameLedger, SameSlot, SameMpv
<1> HIDE DEF s, t
<1>5. CASE r.proj = "file"
  BY <1>2, <1>3, <1>5, IdleArmIs
<1>6. CASE r.proj # "file"
  BY <1>1, <1>2, <1>4, <1>6
<1> QED BY <1>5, <1>6

\* An arm that waits for its file keeps its target.
LEMMA ResumeArmDoes ==
  ASSUME NEW slots, NEW arm \in Arms, arm.at # "idle", arm.to \in DOMAIN slots
  PROVE  /\ ResumeArm(arm) \in Arms
         /\ ResumeArm(arm).at # "idle" => ResumeArm(arm).to \in DOMAIN slots
<1> DEFINE a == [arm EXCEPT !.at = "resume", !.from_idle = FALSE]
<1>1. ResumeArm(arm) = IF arm.resume THEN a ELSE IdleArm
  BY DEF ResumeArm
<1>2. a \in Arms /\ a.to = arm.to /\ a.resume = arm.resume
  BY DEF Arms
<1> HIDE DEF a
<1>3. CASE arm.resume
  BY <1>1, <1>2, <1>3, IdleArmIs
<1>4. CASE ~arm.resume
  BY <1>1, <1>4, IdleArmIs
<1> QED BY <1>3, <1>4

\* ParkAndEnd leaves nothing in mpv and one Stopped sent.
LEMMA ParkAndEndDoes ==
  ASSUME NEW g, NEW r, Typed(r), Booked(r, g), Entry(r), r.at = "running", r.idx \in DOMAIN r.slots
  PROVE  RunInv(ParkAndEnd(r), g) /\ ParkAndEnd(r).at = "running"
<1> DEFINE a == MpvStop(r)
           b == BeginItem(a)
           c == EndRun(b)
<1>0. ParkAndEnd(r) = c
  BY DEF ParkAndEnd
<1>1. /\ Typed(a) /\ Entry(a) /\ SameLedger(r, a) /\ SameSlot(r, a) /\ a.file = "none"
  BY MpvStopDoes
<1> HIDE DEF a
<1>2. /\ Typed(b) /\ SameLedger(a, b) /\ SameSlot(a, b) /\ SameMpv(a, b) /\ b.arm = IdleArm
  BY <1>1, BeginItemDoes
<1> HIDE DEF b
<1>3. Booked(b, g) /\ b.at = "running"
  BY <1>1, <1>2 DEF Booked, SameLedger
<1>4. /\ Typed(c) /\ Booked(c, g) /\ c.told = 1 /\ c.at = b.at
      /\ SameSlot(b, c) /\ SameMpv(b, c) /\ c.arm = b.arm
  BY <1>2, <1>3, EndRunDoes
<1> HIDE DEF c
<1>5. Entry(c) /\ Filed(c)
  BY <1>1, <1>2, <1>4 DEF Entry, Filed, SameMpv
<1>6. Placed(c)
  BY <1>1, <1>2, <1>4, IdleArmIs DEF Placed, SameSlot
<1>7. Ledger(c, g)
  BY <1>3, <1>4 DEF Ledger, Booked
<1> QED BY <1>0, <1>3, <1>4, <1>5, <1>6, <1>7 DEF RunInv

\* A loaded file is that of the slot it was loaded for.
LEMMA InstalledDoes ==
  ASSUME NEW r, Typed(r), Entry(r), NEW i \in DOMAIN r.slots
  PROVE  LET s == Installed(r, i) IN
         /\ Typed(s) /\ Entry(s) /\ SameLedger(r, s) /\ SameSlot(r, s) /\ s.arm = r.arm
         /\ s.file # "none" => s.list = <<r.slots[i]>> /\ s.pos = 1
<1> DEFINE list == <<r.slots[i]>>
           a == MpvLoad(r, list)
           s == [a EXCEPT !.drain = TRUE]
<1>1. list \in Seq(Slots) /\ list # Nothing
  <2>1. r.slots[i] \in Slots
    BY ElementOfSeq, LenProperties DEF Typed
  <2> QED BY <2>1 DEF Nothing
<1>2. /\ Typed(a) /\ Entry(a) /\ SameLedger(r, a) /\ SameSlot(r, a) /\ a.arm = r.arm /\ a.up = r.up
      /\ r.up => a.list = list /\ a.pos = 1
  BY <1>1, MpvLoadDoes
<1>3. Installed(r, i) = s
  BY DEF Installed
<1> HIDE DEF a
<1>4. Typed(s) /\ SameLedger(a, s) /\ SameSlot(a, s) /\ SameMpv(a, s) /\ s.arm = a.arm
  BY <1>2 DEF Typed, Fields, SameLedger, SameSlot, SameMpv
<1> HIDE DEF s
<1>5. Entry(s)
  BY <1>2, <1>4 DEF Entry, SameMpv
<1>6. SameLedger(r, s) /\ SameSlot(r, s)
  BY <1>2, <1>4 DEF SameLedger, SameSlot
<1> QED BY <1>2, <1>3, <1>4, <1>5, <1>6 DEF SameMpv, Entry

\* An opening that failed, in whichever of its two steps.
LEMMA FailedOpening ==
  ASSUME NEW g, NEW r, NEW load, Typed(r), Booked(r, g), Entry(r), r.at = "running",
         r.idx \in DOMAIN r.slots
  PROVE  LET s == ParkAndEnd(NotInstalled(r, load)) IN RunInv(s, g) /\ s.at = "running"
<1> DEFINE a == NotInstalled(r, load)
<1>1. Typed(a) /\ Booked(a, g) /\ a.at = r.at /\ SameSlot(r, a) /\ SameMpv(r, a)
  BY NotInstalledDoes
<1> HIDE DEF a
<1>2. Entry(a) /\ a.idx \in DOMAIN a.slots
  BY <1>1 DEF Entry, SameSlot, SameMpv
<1>3. RunInv(ParkAndEnd(a), g) /\ ParkAndEnd(a).at = "running"
  BY <1>1, <1>2, ParkAndEndDoes
<1> QED BY <1>3 DEF a

-----------------------------------------------------------------------------
(* The commands.                                                           *)

\* The queues that are submitted name slots, at least one.
LEMMA QueuesAre ==
  ASSUME NEW q \in Queues
  PROVE  q \in Seq(Slots) /\ q # Nothing /\ 1 \in DOMAIN q /\ Standalone(q) \in BOOLEAN
<1>1. q \in Seq(Range(q)) /\ Len(q) > 0
  BY PlaybackRunAssumption
<1>2. Range(q) \subseteq Slots
  BY DEF Slots
<1>3. q \in Seq(Slots)
  BY <1>1, <1>2
<1>4. 1 \in DOMAIN q
  BY <1>1, LenProperties
<1> QED BY <1>1, <1>3, <1>4 DEF Nothing, Standalone

\* replace_with_queue_items, opened or not.
LEMMA ReplaceStep ==
  ASSUME NEW g, NEW r, Typed(r), Booked(r, g), Entry(r), r.at = "running", NEW q \in Queues, NEW load
  PROVE  LET s == ReplaceWith(r, q, load) IN RunInv(s, g) /\ s.at = "running"
<1> DEFINE e    == EnterActiveFile(r)
           held == [e EXCEPT !.slots = q, !.idx = 1, !.standalone = Standalone(q), !.quit = FALSE]
           a    == Installed(held, 1)
           b    == BeginItem(a)
           c    == [b EXCEPT !.active = TRUE]
           why  == Opening(r, load)
           lost == ParkAndEnd(NotInstalled(held, why))
<1>0. ReplaceWith(r, q, load) = IF why = "ok" THEN c ELSE lost
  BY DEF ReplaceWith
<1> HIDE DEF why
<1>1. /\ Typed(e) /\ SameLedger(r, e) /\ SameMpv(r, e)
      /\ e.slots = r.slots /\ e.idx = r.idx /\ e.proj = "file" /\ e.arm = IdleArm
  BY EnterDoes
<1> HIDE DEF e
<1>2. /\ Typed(held) /\ SameLedger(e, held) /\ SameMpv(e, held)
      /\ held.slots = q /\ held.idx = 1 /\ held.proj = "file" /\ held.arm = IdleArm
  BY <1>1, QueuesAre DEF Typed, Fields, SameLedger, SameMpv
<1> HIDE DEF held
<1>3. /\ Booked(held, g) /\ Entry(held) /\ held.at = "running" /\ held.idx \in DOMAIN held.slots
  BY <1>1, <1>2, QueuesAre DEF Booked, Entry, SameLedger, SameMpv
<1>4. CASE why # "ok"
  BY <1>0, <1>2, <1>3, <1>4, FailedOpening
<1>5. CASE why = "ok"
  <2>1. /\ Typed(a) /\ Entry(a) /\ SameLedger(held, a) /\ SameSlot(held, a)
        /\ a.file # "none" => a.list = <<held.slots[1]>> /\ a.pos = 1
    BY <1>2, <1>3, InstalledDoes
  <2> HIDE DEF a
  <2>2. /\ Typed(b) /\ SameLedger(a, b) /\ SameSlot(a, b) /\ SameMpv(a, b) /\ b.arm = IdleArm
    BY <2>1, BeginItemDoes
  <2> HIDE DEF b
  <2>3. /\ Typed(c) /\ SameSlot(b, c) /\ SameMpv(b, c) /\ c.arm = b.arm /\ c.at = b.at
        /\ c.active /\ c.identity = b.identity /\ c.ended = b.ended /\ c.told = b.told
    BY <2>2 DEF Typed, Fields, SameSlot, SameMpv
  <2> HIDE DEF c
  <2>4. Entry(c) /\ Filed(c)
    BY <1>2, <2>1, <2>2, <2>3 DEF Entry, Filed, SameSlot, SameMpv
  <2>5. Placed(c)
    BY <1>2, <1>3, <2>1, <2>2, <2>3, IdleArmIs DEF Placed, SameSlot
  <2>6. c.at = "running" /\ Booked(c, g)
    BY <1>3, <2>1, <2>2, <2>3 DEF Booked, SameLedger
  <2>7. Ledger(c, g)
    BY <2>3, <2>6 DEF Ledger, Booked
  <2>8. RunInv(c, g)
    BY <2>3, <2>4, <2>5, <2>6, <2>7 DEF RunInv
  <2> QED BY <1>0, <1>5, <2>6, <2>8
<1> QED BY <1>4, <1>5

\* cmd_submit_queue in the playlist projection.
LEMMA PlayStep ==
  ASSUME NEW g, NEW r, Typed(r), Booked(r, g), Entry(r), r.at = "running", r.proj = "playlist",
         r.ended = 0, NEW q \in Queues
  PROVE  LET s == PlayQueue(r, q) IN RunInv(s, g) /\ s.at = "running"
<1> DEFINE a == MpvStop(r)
           b == MpvLoad(a, q)
           c == [b EXCEPT !.slots = q, !.idx = 1, !.standalone = Standalone(q), !.quit = FALSE,
                          !.dark = ~r.active]
           d == BeginItem(c)
<1>0. PlayQueue(r, q) = d
  BY DEF PlayQueue
<1>1. Typed(a) /\ Entry(a) /\ SameLedger(r, a) /\ SameSlot(r, a)
  BY MpvStopDoes
<1> HIDE DEF a
<1>2. Typed(b) /\ Entry(b) /\ SameLedger(a, b) /\ SameSlot(a, b)
  BY <1>1, QueuesAre, MpvLoadDoes
<1> HIDE DEF b
<1>3. /\ Typed(c) /\ SameMpv(b, c) /\ c.slots = q /\ c.idx = 1 /\ c.proj = b.proj
      /\ c.at = b.at /\ c.identity = b.identity /\ c.ended = b.ended /\ c.told = b.told
      /\ c.active = b.active /\ (c.dark <=> ~r.active)
  BY <1>2, QueuesAre DEF Typed, Fields, SameMpv
<1> HIDE DEF c
<1>4. Typed(d) /\ SameLedger(c, d) /\ SameSlot(c, d) /\ SameMpv(c, d) /\ d.arm = IdleArm
  BY <1>3, BeginItemDoes
<1> HIDE DEF d
<1>5. Entry(d) /\ Filed(d)
  BY <1>1, <1>2, <1>3, <1>4 DEF Entry, Filed, SameSlot, SameMpv
<1>6. Placed(d)
  BY <1>3, <1>4, QueuesAre, IdleArmIs DEF Placed, SameSlot
<1>7. d.at = "running" /\ Booked(d, g) /\ (d.active \/ d.dark)
  BY <1>1, <1>2, <1>3, <1>4 DEF Booked, SameLedger
<1>8. Ledger(d, g)
  BY <1>7 DEF Ledger, Booked
<1> QED BY <1>0, <1>4, <1>5, <1>6, <1>7, <1>8 DEF RunInv

\* A submission, in either projection.
LEMMA SubmitStep ==
  ASSUME NEW g \in Nat \ {0}, NEW r, RunInv(r, g), r.at = "running", NEW q \in Queues, NEW load
  PROVE  LET s == CmdSubmit(r, g, q, load) IN RunInv(s, g) /\ s.at = "running"
<1> DEFINE f == SubmissionAccepted(r, g)
<1>1. /\ Typed(f) /\ Booked(f, g) /\ f.at = "running" /\ f.ended = 0
      /\ SameSlot(r, f) /\ SameMpv(r, f)
  BY AcceptedDoes DEF RunInv
<1>2. CmdSubmit(r, g, q, load) =
        IF r.proj = "file" \/ HasBook(q) THEN ReplaceWith(f, q, load) ELSE PlayQueue(f, q)
  BY DEF CmdSubmit
<1> HIDE DEF f
<1>3. Entry(f)
  BY <1>1 DEF RunInv, Entry, SameMpv
<1>4. CASE r.proj = "file" \/ HasBook(q)
  BY <1>1, <1>2, <1>3, <1>4, ReplaceStep
<1>5. CASE ~(r.proj = "file" \/ HasBook(q))
  <2>1. f.proj = "playlist"
    BY <1>1, <1>5 DEF RunInv, Typed, SameSlot
  <2> QED BY <1>1, <1>2, <1>3, <1>5, <2>1, PlayStep
<1> QED BY <1>4, <1>5

\* A step that only arms, disarms or sets flags.
LEMMA ArmKeeps ==
  ASSUME NEW g, NEW r, RunInv(r, g), r.at = "running", NEW s,
         Typed(s), SameLedger(r, s), SameSlot(r, s), SameMpv(r, s),
         s.arm.at # "idle" => s.arm.to \in DOMAIN r.slots,
         r.proj = "file" => s.arm = IdleArm
  PROVE  RunInv(s, g) /\ s.at = "running"
<1>1. Ledger(s, g) /\ s.at = "running"
  BY DEF RunInv, Ledger, Booked, SameLedger
<1>2. Entry(s) /\ Filed(s)
  BY DEF RunInv, Entry, Filed, SameSlot, SameMpv
<1>3. Placed(s)
  BY DEF RunInv, Placed, SameSlot
<1> QED BY <1>1, <1>2, <1>3 DEF RunInv

\* What the invariant says of a run in its loop.
LEMMA RunningIs ==
  ASSUME NEW g, NEW r, RunInv(r, g), r.at = "running"
  PROVE  /\ Typed(r) /\ Booked(r, g) /\ (r.active \/ r.dark \/ r.told = 1) /\ Entry(r) /\ Filed(r)
         /\ Placed(r) /\ r.idx \in DOMAIN r.slots
BY DEF RunInv, Ledger, Placed

\* cmd_jump_to_active_file: the file and the named slot move together.
LEMMA JumpToFileStep ==
  ASSUME NEW g, NEW r, RunInv(r, g), r.at = "running", r.proj = "file",
         NEW i \in DOMAIN r.slots, NEW load
  PROVE  LET s == JumpToFile(r, i, load) IN RunInv(s, g) /\ s.at = "running"
<1> DEFINE a    == Installed(r, i)
           b    == [a EXCEPT !.idx = i, !.tracks = FALSE]
           why  == Opening(r, load)
           lost == ParkAndEnd(NotInstalled(r, why))
<1>0. JumpToFile(r, i, load) = IF why = "ok" THEN b ELSE lost
  BY DEF JumpToFile
<1> HIDE DEF why
<1>1. CASE why # "ok"
  BY <1>0, <1>1, RunningIs, FailedOpening
<1>2. CASE why = "ok"
  <2>1. /\ Typed(a) /\ Entry(a) /\ SameLedger(r, a) /\ SameSlot(r, a) /\ a.arm = r.arm
        /\ a.file # "none" => a.list = <<r.slots[i]>> /\ a.pos = 1
    BY RunningIs, InstalledDoes
  <2>2. i \in Nat
    BY LenProperties DEF RunInv, Typed
  <2> HIDE DEF a
  <2>3. /\ Typed(b) /\ SameLedger(a, b) /\ SameMpv(a, b) /\ b.arm = a.arm
        /\ b.slots = a.slots /\ b.proj = a.proj /\ b.idx = i
    BY <2>1, <2>2 DEF Typed, Fields, SameLedger, SameMpv
  <2> HIDE DEF b
  <2>4. Entry(b) /\ Filed(b)
    BY <2>1, <2>3 DEF Entry, Filed, SameSlot, SameMpv
  <2>5. Placed(b)
    BY <2>1, <2>3 DEF RunInv, Placed, SameSlot
  <2>6. Ledger(b, g) /\ b.at = "running"
    BY <2>1, <2>3 DEF RunInv, Ledger, Booked, SameLedger
  <2>7. RunInv(b, g)
    BY <2>3, <2>4, <2>5, <2>6 DEF RunInv
  <2> QED BY <1>0, <1>2, <2>6, <2>7
<1> QED BY <1>1, <1>2

\* A slot that is found is one of the queue.
LEMMA IndexInIs ==
  ASSUME NEW slot, NEW q
  PROVE  IndexIn(slot, q) # 0 => IndexIn(slot, q) \in DOMAIN q
<1>1. CASE slot \in Range(q)
  <2>1. \E i \in DOMAIN q : q[i] = slot
    BY <1>1 DEF Range
  <2> QED BY <1>1, <2>1 DEF IndexIn
<1>2. CASE slot \notin Range(q)
  BY <1>2 DEF IndexIn
<1> QED BY <1>1, <1>2

\* cmd_jump_to, in either projection, found or not, refused or not.
LEMMA JumpStep ==
  ASSUME NEW g, NEW r, RunInv(r, g), r.at = "running", NEW slot, NEW resume \in BOOLEAN, NEW load
  PROVE  LET s == CmdJump(r, slot, resume, load) IN RunInv(s, g) /\ s.at = "running"
<1> DEFINE i == IndexIn(slot, r.slots)
           a == ArmJump(r, i, resume)
           b == [a EXCEPT !.tracks = @ /\ r.active]
           c == [b EXCEPT !.arm = IdleArm]
           file == JumpToFile(a, i, load)
           left == MpvJump(b, i)
<1>0. CmdJump(r, slot, resume, load) =
        IF i = 0 THEN r
        ELSE IF r.proj = "file" THEN file
        ELSE IF ~r.up \/ i \notin DOMAIN r.list THEN c ELSE left
  BY DEF CmdJump
<1>1. i # 0 => i \in DOMAIN r.slots
  BY IndexInIs
<1> HIDE DEF i
<1>2. CASE i = 0
  BY <1>0, <1>2
<1>3. CASE i # 0
  <2>1. /\ Typed(a) /\ SameLedger(r, a) /\ SameSlot(r, a) /\ SameMpv(r, a)
        /\ a.arm.at # "idle" => a.arm.to \in DOMAIN r.slots
        /\ r.proj = "file" => a.arm = IdleArm
    BY <1>1, <1>3, RunningIs, ArmJumpDoes
  <2> HIDE DEF a
  <2>2. RunInv(a, g) /\ a.at = "running"
    BY <2>1, ArmKeeps
  <2>3. CASE r.proj = "file"
    <3>1. RunInv(file, g) /\ file.at = "running"
      BY <1>1, <1>3, <2>1, <2>2, <2>3, JumpToFileStep DEF SameSlot
    <3> QED BY <1>0, <1>3, <2>3, <3>1
  <2>4. CASE r.proj # "file"
    <3>1. (a.tracks /\ r.active) \in BOOLEAN
      OBVIOUS
    <3>2. Typed(b) /\ SameLedger(a, b) /\ SameSlot(a, b) /\ SameMpv(a, b) /\ b.arm = a.arm
      BY <2>1, <3>1 DEF Typed, Fields, SameLedger, SameSlot, SameMpv
    <3> HIDE DEF b
    <3>3. RunInv(b, g) /\ b.at = "running"
      BY <2>1, <2>2, <3>2, ArmKeeps DEF SameSlot
    <3>4. Typed(c) /\ SameLedger(b, c) /\ SameSlot(b, c) /\ SameMpv(b, c) /\ c.arm = IdleArm
      BY <3>2, IdleArmIs DEF Typed, Fields, SameLedger, SameSlot, SameMpv
    <3> HIDE DEF c
    <3>5. RunInv(c, g) /\ c.at = "running"
      BY <3>3, <3>4, IdleArmIs, ArmKeeps
    <3>6. CASE ~r.up \/ i \notin DOMAIN r.list
      BY <1>0, <1>3, <2>4, <3>5, <3>6
    <3>7. CASE ~(~r.up \/ i \notin DOMAIN r.list)
      <4>1. b.up /\ i \in DOMAIN b.list /\ b.proj # "file"
        BY <2>1, <2>4, <3>2, <3>7 DEF SameMpv, SameSlot
      <4>2. /\ Typed(left) /\ Entry(left) /\ SameLedger(b, left) /\ SameSlot(b, left)
            /\ left.arm = b.arm
        BY <3>3, <4>1, RunningIs, MpvJumpDoes
      <4> HIDE DEF left
      <4>3. Filed(left)
        BY <4>1, <4>2 DEF Filed, SameSlot
      <4>4. RunInv(left, g)
        BY <3>3, <4>2, <4>3, MpvKeeps
      <4> QED BY <1>0, <1>3, <2>4, <3>3, <3>7, <4>2, <4>4 DEF SameLedger
    <3> QED BY <3>6, <3>7
  <2> QED BY <2>3, <2>4
<1> QED BY <1>2, <1>3

\* A longer queue names the same slot at every old place.
LEMMA AppendKeeps ==
  ASSUME NEW slots \in Seq(Slots), NEW slot \in Slots
  PROVE  /\ Append(slots, slot) \in Seq(Slots)
         /\ \A i \in DOMAIN slots : i \in DOMAIN Append(slots, slot) /\ Append(slots, slot)[i] = slots[i]
<1>1. /\ DOMAIN slots = 1..Len(slots) /\ Len(slots) \in Nat
      /\ DOMAIN Append(slots, slot) = 1..(Len(slots) + 1)
  BY LenProperties, AppendProperties
<1> QED BY <1>1, AppendProperties

\* The append of a book: promoted to the file projection, or added to it.
LEMMA AppendStep ==
  ASSUME NEW g, NEW r, RunInv(r, g), r.at = "running", NEW slot \in Slots,
         NEW load \in {"ok", "prepare", "install"}
  PROVE  LET s == CmdAppend(r, slot, load) IN RunInv(s, g) /\ s.at = "running"
<1> DEFINE why    == Opening(r, load)
           longer == Append(r.slots, slot)
           a      == [r EXCEPT !.slots = longer]
           b      == Installed(r, r.idx)
           c      == [b EXCEPT !.slots = Append(b.slots, slot)]
           d      == EnterActiveFile(c)
           lost   == ParkAndEnd(NotInstalled(r, why))
<1>0. CmdAppend(r, slot, load) =
        IF r.proj = "file" THEN a
        ELSE IF why = "ok" THEN d ELSE IF why = "prepare" THEN r ELSE lost
  BY DEF CmdAppend, Promote, Opening
<1>1. /\ Typed(r) /\ Booked(r, g) /\ (r.active \/ r.dark \/ r.told = 1) /\ Entry(r) /\ Filed(r)
      /\ Placed(r) /\ r.idx \in DOMAIN r.slots
  BY RunningIs
<1>2. /\ longer \in Seq(Slots)
      /\ \A i \in DOMAIN r.slots : i \in DOMAIN longer /\ longer[i] = r.slots[i]
  BY <1>1, AppendKeeps DEF Typed
<1> HIDE DEF why
<1>3. CASE r.proj = "file"
  <2> HIDE DEF longer
  <2>1. /\ Typed(a) /\ SameLedger(r, a) /\ SameMpv(r, a) /\ a.slots = longer /\ a.idx = r.idx
        /\ a.proj = r.proj /\ a.arm = r.arm
    BY <1>1, <1>2 DEF Typed, Fields, SameLedger, SameMpv
  <2> HIDE DEF a
  <2>2. Entry(a) /\ Filed(a)
    BY <1>1, <1>2, <2>1 DEF Entry, Filed, SameMpv
  <2>3. Placed(a)
    BY <1>1, <1>2, <2>1 DEF Placed
  <2>4. Ledger(a, g) /\ a.at = "running"
    BY <2>1 DEF RunInv, Ledger, Booked, SameLedger
  <2>5. RunInv(a, g)
    BY <2>1, <2>2, <2>3, <2>4 DEF RunInv
  <2> QED BY <1>0, <1>3, <2>4, <2>5
<1>4. CASE r.proj # "file" /\ why = "ok"
  <2>1. /\ Typed(b) /\ Entry(b) /\ SameLedger(r, b) /\ SameSlot(r, b) /\ b.arm = r.arm
        /\ b.file # "none" => b.list = <<r.slots[r.idx]>> /\ b.pos = 1
    BY <1>1, InstalledDoes
  <2>2. c = [b EXCEPT !.slots = longer]
    BY <2>1 DEF SameSlot
  <2> HIDE DEF b, longer
  <2>3. /\ Typed(c) /\ SameLedger(b, c) /\ SameMpv(b, c) /\ c.slots = longer /\ c.idx = b.idx
    <3> DEFINE e == [b EXCEPT !.slots = longer]
    <3>1. /\ Typed(e) /\ SameLedger(b, e) /\ SameMpv(b, e) /\ e.slots = longer /\ e.idx = b.idx
      BY <1>2, <2>1 DEF Typed, Fields, SameLedger, SameMpv
    <3> HIDE DEF c, e
    <3>2. c = e
      BY <2>2 DEF e
    <3> QED BY <3>1, <3>2
  <2> HIDE DEF c
  <2>4. /\ Typed(d) /\ SameLedger(c, d) /\ SameMpv(c, d)
        /\ d.slots = c.slots /\ d.idx = c.idx /\ d.proj = "file" /\ d.arm = IdleArm
    BY <2>3, EnterDoes
  <2> HIDE DEF d
  <2>5. Entry(d) /\ Filed(d)
    BY <1>1, <1>2, <2>1, <2>3, <2>4 DEF Entry, Filed, SameSlot, SameMpv
  <2>6. Placed(d)
    BY <1>1, <1>2, <2>1, <2>3, <2>4, IdleArmIs DEF Placed, SameSlot
  <2>7. Ledger(d, g) /\ d.at = "running"
    BY <2>1, <2>3, <2>4 DEF RunInv, Ledger, Booked, SameLedger
  <2>8. RunInv(d, g)
    BY <2>4, <2>5, <2>6, <2>7 DEF RunInv
  <2> QED BY <1>0, <1>4, <2>7, <2>8
<1>5. CASE r.proj # "file" /\ why # "ok"
  <2>1. RunInv(lost, g) /\ lost.at = "running"
    BY <1>1, FailedOpening
  <2> QED BY <1>0, <1>5, <2>1
<1> QED BY <1>3, <1>4, <1>5

-----------------------------------------------------------------------------
(* The ends of a run.                                                      *)

Handled(s, g) == RunInv(s, g) /\ s.at \in {"running", "exited"}

\* The loop may return once the run has reported or was left inactive.
LEMMA ExitDoes ==
  ASSUME NEW g, NEW r, Typed(r), Booked(r, g), Entry(r), Filed(r), Placed(r), r.dark \/ r.told = 1
  PROVE  Handled(ExitRun(r), g)
<1> DEFINE s == [r EXCEPT !.at = "exited"]
<1>1. /\ Typed(s) /\ SameSlot(r, s) /\ SameMpv(r, s) /\ s.arm = r.arm /\ s.at = "exited"
      /\ s.dark = r.dark /\ s.told = r.told /\ s.identity = r.identity /\ s.ended = r.ended
  BY DEF Typed, Fields, SameSlot, SameMpv
<1>2. ExitRun(r) = s
  BY DEF ExitRun
<1> HIDE DEF s
<1>3. Entry(s) /\ Filed(s)
  BY <1>1 DEF Entry, Filed, SameSlot, SameMpv
<1>4. Placed(s)
  BY <1>1 DEF Placed, SameSlot
<1>5. Ledger(s, g)
  <2>1. s.identity <= g /\ s.ended <= s.identity
    BY <1>1 DEF Booked, Typed
  <2> QED BY <1>1, <2>1 DEF Ledger
<1> QED BY <1>1, <1>2, <1>3, <1>4, <1>5 DEF Handled, RunInv

\* A run that ends stays sound, whether its loop returns or not.
LEMMA EndKeeps ==
  ASSUME NEW g, NEW r, Typed(r), Booked(r, g), Entry(r), Filed(r), Placed(r), r.at = "running"
  PROVE  LET s == EndRun(r) IN
         /\ RunInv(s, g) /\ s.at = "running" /\ Handled(s, g) /\ Handled(ExitRun(s), g)
<1> DEFINE s == EndRun(r)
<1>1. /\ Typed(s) /\ Booked(s, g) /\ s.told = 1 /\ s.at = r.at
      /\ SameSlot(r, s) /\ SameMpv(r, s) /\ s.arm = r.arm
  BY EndRunDoes
<1> HIDE DEF s
<1>2. Entry(s) /\ Filed(s)
  BY <1>1 DEF Entry, Filed, SameSlot, SameMpv
<1>3. Placed(s)
  BY <1>1 DEF Placed, SameSlot
<1>4. Ledger(s, g)
  BY <1>1 DEF Ledger, Booked
<1>5. RunInv(s, g) /\ s.at = "running"
  BY <1>1, <1>2, <1>3, <1>4 DEF RunInv
<1>6. Handled(ExitRun(s), g)
  BY <1>1, <1>2, <1>3, ExitDoes
<1> QED BY <1>5, <1>6 DEF Handled, s

\* The loop returns after an end-file that left the status inactive.
LEMMA ReturnDoes ==
  ASSUME NEW g, NEW r, RunInv(r, g), r.at = "running"
  PROVE  Handled(ReturnIfInactive(r), g)
<1>1. ReturnIfInactive(r) = IF r.active THEN r ELSE ExitRun(r)
  BY DEF ReturnIfInactive
<1>2. CASE r.active
  BY <1>1, <1>2 DEF Handled
<1>3. CASE ~r.active
  BY <1>1, <1>3, RunningIs, ExitDoes
<1> QED BY <1>2, <1>3

\* What is left of a run whose loop has returned.
LEMMA GoneKeeps ==
  ASSUME NEW g, NEW r, Handled(r, g)
  PROVE  Handled(Gone(r), g)
<1> DEFINE a == [r EXCEPT !.evs = Nothing]
           b == MpvDown(a, Nothing)
<1>1. Gone(r) = IF r.at = "exited" THEN b ELSE r
  BY DEF Gone
<1>2. Typed(a) /\ SameLedger(r, a) /\ SameSlot(r, a) /\ a.arm = r.arm
  BY NothingIs DEF Handled, RunInv, Typed, Fields, SameLedger, SameSlot
<1> HIDE DEF a
<1>3. /\ Typed(b) /\ Entry(b) /\ SameLedger(a, b) /\ SameSlot(a, b) /\ b.arm = a.arm /\ b.file = "none"
  BY <1>2, NothingIs, MpvDownDoes
<1> HIDE DEF b
<1>4. SameLedger(r, b) /\ SameSlot(r, b) /\ b.arm = r.arm /\ Filed(b)
  BY <1>2, <1>3 DEF SameLedger, SameSlot, Filed
<1>5. RunInv(b, g)
  BY <1>3, <1>4, MpvKeeps DEF Handled
<1> QED BY <1>1, <1>4, <1>5 DEF Handled, SameLedger

-----------------------------------------------------------------------------
(* The events.                                                             *)

\* The run comes to another of its slots in the playlist projection.
LEMMA SlotMoves ==
  ASSUME NEW g, NEW r, RunInv(r, g), r.at = "running", r.proj = "playlist", NEW s,
         Typed(s), SameMpv(r, s), s.slots = r.slots, s.proj = r.proj, s.idx \in DOMAIN r.slots,
         s.at = r.at, s.identity = r.identity, s.ended = r.ended, s.told = r.told, s.dark = r.dark,
         r.active => s.active, s.arm.at # "idle" => s.arm.to \in DOMAIN r.slots
  PROVE  RunInv(s, g) /\ s.at = "running"
<1>1. Ledger(s, g) /\ s.at = "running"
  BY DEF RunInv, Ledger, Booked
<1>2. Entry(s) /\ Filed(s)
  BY DEF RunInv, Entry, Filed, SameMpv
<1>3. Placed(s)
  BY DEF Placed
<1> QED BY <1>1, <1>2, <1>3 DEF RunInv

\* The run adopts mpv's entry.
LEMMA AdoptKeeps ==
  ASSUME NEW g, NEW r, RunInv(r, g), r.at = "running", NEW p, Diverges(r, p)
  PROVE  RunInv(AdoptEntry(r, p), g) /\ AdoptEntry(r, p).at = "running"
<1> DEFINE s == [r EXCEPT !.idx = p, !.arm = IdleArm, !.tracks = FALSE]
<1>1. p \in DOMAIN r.slots /\ p \in Nat /\ r.proj = "playlist"
  BY LenProperties DEF RunInv, Typed, Diverges
<1>2. /\ Typed(s) /\ SameMpv(r, s) /\ SameLedger(r, s)
      /\ s.slots = r.slots /\ s.proj = r.proj /\ s.idx = p /\ s.arm = IdleArm
  BY <1>1, IdleArmIs DEF RunInv, Typed, Fields, SameMpv, SameLedger
<1>3. AdoptEntry(r, p) = s
  BY DEF AdoptEntry
<1> HIDE DEF s
<1> QED BY <1>1, <1>2, <1>3, IdleArmIs, SlotMoves DEF SameLedger

\* The entry after the one that ended, or the armed one.
LEMMA AdvanceStep ==
  ASSUME NEW g, NEW r, RunInv(r, g), r.at = "running", NEW load
  PROVE  LET s == Advance(r, load) IN RunInv(s, g) /\ s.at = "running"
<1> DEFINE next    == IF r.arm.at = "idle" THEN r.idx + 1 ELSE r.arm.to
           arm     == IF next <= Len(r.slots) /\ r.arm.at # "idle" THEN ResumeArm(r.arm) ELSE IdleArm
           settled == [r EXCEPT !.arm = arm]
           a       == [settled EXCEPT !.idx = next, !.tracks = FALSE]
           b       == Installed(settled, next)
           c       == [b EXCEPT !.idx = next, !.tracks = FALSE, !.drain = FALSE]
           why     == Opening(r, load)
           d       == NotInstalled(settled, why)
<1>0. Advance(r, load) =
        IF next > Len(r.slots) THEN EndRun(settled)
        ELSE IF r.proj = "playlist" THEN a
        ELSE IF why = "ok" THEN c ELSE EndRun(d)
  BY DEF Advance
<1> HIDE DEF why
<1>1. /\ Typed(r) /\ Booked(r, g) /\ (r.active \/ r.dark \/ r.told = 1) /\ Entry(r) /\ Filed(r)
      /\ Placed(r) /\ r.idx \in DOMAIN r.slots
  BY RunningIs
<1>2. DOMAIN r.slots = 1..Len(r.slots) /\ Len(r.slots) \in Nat /\ r.arm \in Arms
  BY <1>1, LenProperties DEF Typed
<1>3. next \in Nat /\ next > 0
  BY <1>1, <1>2 DEF Placed
<1>4. /\ arm \in Arms
      /\ arm.at # "idle" => arm.to \in DOMAIN r.slots
      /\ r.proj = "file" => arm = IdleArm
  BY <1>1, <1>2, IdleArmIs, ResumeArmDoes DEF Placed
<1> HIDE DEF next, arm
<1>5. /\ Typed(settled) /\ SameLedger(r, settled) /\ SameSlot(r, settled) /\ SameMpv(r, settled)
      /\ settled.arm = arm
  BY <1>1, <1>4 DEF Typed, Fields, SameLedger, SameSlot, SameMpv
<1> HIDE DEF settled
<1>6. RunInv(settled, g) /\ settled.at = "running"
  BY <1>4, <1>5, ArmKeeps
<1>7. CASE next > Len(r.slots)
  BY <1>0, <1>6, <1>7, RunningIs, EndKeeps
<1>8. CASE ~(next > Len(r.slots)) /\ r.proj = "playlist"
  <2>1. next \in DOMAIN settled.slots
    BY <1>2, <1>3, <1>5, <1>8 DEF SameSlot
  <2>2. /\ Typed(a) /\ SameMpv(settled, a) /\ SameLedger(settled, a)
        /\ a.slots = settled.slots /\ a.proj = settled.proj /\ a.idx = next /\ a.arm = settled.arm
    BY <1>3, <1>5 DEF Typed, Fields, SameMpv, SameLedger
  <2> HIDE DEF a
  <2>3. settled.arm.at # "idle" => settled.arm.to \in DOMAIN settled.slots
    BY <1>4, <1>5 DEF SameSlot
  <2>4. RunInv(a, g) /\ a.at = "running"
    BY <1>5, <1>6, <1>8, <2>1, <2>2, <2>3, SlotMoves DEF SameLedger, SameSlot
  <2> QED BY <1>0, <1>8, <2>4
<1>9. CASE ~(next > Len(r.slots)) /\ r.proj # "playlist"
  <2>1. next \in DOMAIN settled.slots /\ settled.proj = "file"
    BY <1>1, <1>2, <1>3, <1>5, <1>9 DEF SameSlot, Typed
  <2>2. CASE why = "ok"
    <3>1. /\ Typed(b) /\ Entry(b) /\ SameLedger(settled, b) /\ SameSlot(settled, b) /\ b.arm = settled.arm
          /\ b.file # "none" => b.list = <<settled.slots[next]>> /\ b.pos = 1
      BY <1>6, <2>1, RunningIs, InstalledDoes
    <3> HIDE DEF b
    <3>2. /\ Typed(c) /\ SameLedger(b, c) /\ SameMpv(b, c) /\ c.arm = b.arm
          /\ c.slots = b.slots /\ c.proj = b.proj /\ c.idx = next
      BY <1>3, <3>1 DEF Typed, Fields, SameLedger, SameMpv
    <3> HIDE DEF c
    <3>3. Entry(c) /\ Filed(c)
      BY <3>1, <3>2 DEF Entry, Filed, SameSlot, SameMpv
    <3>4. Placed(c)
      BY <1>6, <2>1, <3>1, <3>2 DEF RunInv, Placed, SameSlot
    <3>5. Ledger(c, g) /\ c.at = "running"
      BY <1>6, <3>1, <3>2 DEF RunInv, Ledger, Booked, SameLedger
    <3>6. RunInv(c, g)
      BY <3>2, <3>3, <3>4, <3>5 DEF RunInv
    <3> QED BY <1>0, <1>9, <2>2, <3>5, <3>6
  <2>3. CASE why # "ok"
    <3>1. Typed(settled) /\ Booked(settled, g) /\ Entry(settled) /\ Filed(settled) /\ Placed(settled)
      BY <1>6, RunningIs
    <3>2. /\ Typed(d) /\ Booked(d, g) /\ d.at = settled.at
          /\ SameSlot(settled, d) /\ SameMpv(settled, d) /\ d.arm = settled.arm
      BY <3>1, NotInstalledDoes
    <3> HIDE DEF d
    <3>3. Entry(d) /\ Filed(d)
      BY <3>1, <3>2 DEF Entry, Filed, SameSlot, SameMpv
    <3>4. Placed(d)
      BY <3>1, <3>2 DEF Placed, SameSlot
    <3> QED BY <1>0, <1>6, <1>9, <2>3, <3>2, <3>3, <3>4, EndKeeps
  <2> QED BY <2>2, <2>3
<1> QED BY <1>7, <1>8, <1>9

\* on_end_file: swallowed, superseded, the end of the queue or the next entry.
LEMMA EndFileStep ==
  ASSUME NEW g, NEW r, RunInv(r, g), r.at = "running", NEW reason, NEW load
  PROVE  Handled(OnEndFile(r, reason, load), g)
<1> DEFINE drain == r.drain /\ r.quit
           a     == [r EXCEPT !.drain = drain]
<1>0. OnEndFile(r, reason, load) =
        IF Swallowed(r, reason) THEN a
        ELSE IF r.standalone THEN ReturnIfInactive(EndRun(r))
        ELSE IF Superseded(r, reason) THEN IF Diverges(r, r.pos) THEN AdoptEntry(r, r.pos) ELSE r
        ELSE ReturnIfInactive(Advance(r, load))
  BY DEF OnEndFile
<1>1. CASE Swallowed(r, reason)
  <2>1. drain \in BOOLEAN
    OBVIOUS
  <2> HIDE DEF drain
  <2>2. Typed(a) /\ SameLedger(r, a) /\ SameSlot(r, a) /\ SameMpv(r, a) /\ a.arm = r.arm
    BY <2>1 DEF RunInv, Typed, Fields, SameLedger, SameSlot, SameMpv
  <2> HIDE DEF a
  <2>3. RunInv(a, g) /\ a.at = "running"
    BY <2>2, RunningIs, ArmKeeps DEF Placed
  <2> QED BY <1>0, <1>1, <2>3 DEF Handled
<1>2. Handled(ReturnIfInactive(EndRun(r)), g)
  BY RunningIs, EndKeeps, ReturnDoes
<1>3. Diverges(r, r.pos) => Handled(AdoptEntry(r, r.pos), g)
  BY AdoptKeeps DEF Handled
<1>4. Handled(ReturnIfInactive(Advance(r, load)), g)
  BY AdvanceStep, ReturnDoes
<1> QED BY <1>0, <1>1, <1>2, <1>3, <1>4 DEF Handled

\* load_failed.
LEMMA LoadFailedStep ==
  ASSUME NEW g, NEW r, RunInv(r, g), r.at = "running"
  PROVE  Handled(OnLoadFailed(r), g)
<1> DEFINE a == [r EXCEPT !.arm = IdleArm]
<1>1. Typed(a) /\ SameLedger(r, a) /\ SameSlot(r, a) /\ SameMpv(r, a) /\ a.arm = IdleArm
  BY IdleArmIs DEF RunInv, Typed, Fields, SameLedger, SameSlot, SameMpv
<1>2. OnLoadFailed(r) = ExitRun(EndRun(a)) \/ OnLoadFailed(r) = a
  BY DEF OnLoadFailed
<1> HIDE DEF a
<1>3. RunInv(a, g) /\ a.at = "running"
  BY <1>1, IdleArmIs, ArmKeeps
<1>4. Handled(ExitRun(EndRun(a)), g)
  BY <1>3, RunningIs, EndKeeps
<1> QED BY <1>2, <1>3, <1>4 DEF Handled

\* on_playback_restart: a jump from idle comes to its target.
LEMMA RestartStep ==
  ASSUME NEW g, NEW r, RunInv(r, g), r.at = "running"
  PROVE  Handled(OnRestart(r), g)
<1> DEFINE idle == r.arm.at = "pending" /\ r.arm.from_idle
           back == ResumeArm(r.arm)
           a    == [r EXCEPT !.idx = r.arm.to, !.arm = back, !.active = TRUE]
           b    == IF idle THEN a ELSE r
           arm  == IF ~r.tracks /\ b.arm.resume THEN IdleArm ELSE b.arm
           c    == [b EXCEPT !.began = TRUE, !.tracks = TRUE, !.arm = arm]
<1>0. OnRestart(r) = c
  BY DEF OnRestart
<1>1. RunInv(b, g) /\ b.at = "running"
  <2>1. CASE idle
    <3>1. /\ r.arm \in Arms /\ r.arm.to \in DOMAIN r.slots /\ r.proj = "playlist" /\ r.arm.to \in Nat
      BY <2>1, IdleArmIs, LenProperties DEF RunInv, Placed, Typed
    <3>2. /\ back \in Arms
          /\ back.at # "idle" => back.to \in DOMAIN r.slots
      BY <2>1, <3>1, ResumeArmDoes
    <3> HIDE DEF back
    <3>3. /\ Typed(a) /\ SameMpv(r, a) /\ a.slots = r.slots /\ a.proj = r.proj /\ a.idx = r.arm.to
          /\ a.at = r.at /\ a.identity = r.identity /\ a.ended = r.ended /\ a.told = r.told
          /\ a.dark = r.dark /\ a.active /\ a.arm = back
      BY <3>1, <3>2 DEF RunInv, Typed, Fields, SameMpv
    <3> HIDE DEF a
    <3>4. RunInv(a, g) /\ a.at = "running"
      BY <3>1, <3>2, <3>3, SlotMoves
    <3> QED BY <2>1, <3>4
  <2>2. CASE ~idle
    BY <2>2
  <2> QED BY <2>1, <2>2
<1> HIDE DEF b
<1>2. Typed(b) /\ Placed(b)
  BY <1>1, RunningIs
<1>3. /\ arm \in Arms
      /\ arm.at # "idle" => arm.to \in DOMAIN b.slots
      /\ b.proj = "file" => arm = IdleArm
  BY <1>2, IdleArmIs DEF Typed, Placed
<1> HIDE DEF arm
<1>4. Typed(c) /\ SameLedger(b, c) /\ SameSlot(b, c) /\ SameMpv(b, c) /\ c.arm = arm
  BY <1>2, <1>3 DEF Typed, Fields, SameLedger, SameSlot, SameMpv
<1> HIDE DEF c
<1> QED BY <1>0, <1>1, <1>3, <1>4, ArmKeeps DEF Handled

\* A position event of mpv.
LEMMA PosStep ==
  ASSUME NEW g, NEW r, RunInv(r, g), r.at = "running", NEW p
  PROVE  Handled(OnPlaylistPos(r, p), g)
<1>1. \/ OnPlaylistPos(r, p) = AdoptEntry(r, p) /\ Diverges(r, p)
      \/ OnPlaylistPos(r, p) = r
  BY DEF OnPlaylistPos
<1> QED BY <1>1, AdoptKeeps DEF Handled

-----------------------------------------------------------------------------
(* The inductive invariant.                                                *)

Commands ==
  [c : {"submit"}, q : Queues, slot : Slots, resume : BOOLEAN]
    \cup [c : {"jump"}, q : {Nothing}, slot : Slots, resume : BOOLEAN]
    \cup [c : {"append"}, q : {Nothing}, slot : {Extra}, resume : BOOLEAN]

Around ==
  /\ gen \in 0..MaxSubmits /\ asks \in 0..MaxAsks /\ faults \in 0..MaxFaults
  /\ stop_tx \in BOOLEAN /\ token \in BOOLEAN /\ cancel \in BOOLEAN
  /\ joining \in Queues \cup {Nothing} /\ tick \in {"commands", "stop", "events"}
  /\ chan \in Seq(Commands)
  /\ (joining # Nothing \/ run.at # "none") => gen > 0

IInv == Around /\ RunInv(run, gen)

\* The fields of a run that is not there.
LEMMA NoRunIs ==
  /\ Typed(NoRun) /\ NoRun.at = "none" /\ NoRun.identity = 0 /\ NoRun.ended = 0 /\ NoRun.told = 0
  /\ NoRun.slots = Nothing /\ NoRun.arm = IdleArm /\ NoRun.idx = 1 /\ NoRun.proj = "playlist"
  /\ ~NoRun.dark /\ NoRun.list = Nothing /\ NoRun.pos = 0 /\ NoRun.file = "none" /\ ~NoRun.up
<1>1. Typed(NoRun)
  BY NothingIs, IdleArmIs DEF NoRun, Typed, Fields
<1>2. /\ NoRun.at = "none" /\ NoRun.identity = 0 /\ NoRun.ended = 0 /\ NoRun.told = 0
      /\ NoRun.slots = Nothing /\ NoRun.arm = IdleArm /\ NoRun.idx = 1 /\ NoRun.proj = "playlist"
      /\ ~NoRun.dark /\ NoRun.list = Nothing /\ NoRun.pos = 0 /\ NoRun.file = "none" /\ ~NoRun.up
  BY DEF NoRun
<1> QED BY <1>1, <1>2

\* It holds at first.
LEMMA InitHolds == Init => IInv
<1> SUFFICES ASSUME Init PROVE IInv
  OBVIOUS
<1>1. /\ gen = 0 /\ stop_tx = FALSE /\ token = FALSE /\ chan = Nothing /\ joining = Nothing
      /\ tick = "commands" /\ cancel = FALSE /\ run = NoRun /\ asks = 0 /\ faults = 0
  BY DEF Init
<1>2. Around
  <2>1. stop_tx \in BOOLEAN /\ token \in BOOLEAN /\ cancel \in BOOLEAN
    BY <1>1
  <2>2. /\ gen \in 0..MaxSubmits /\ asks \in 0..MaxAsks /\ faults \in 0..MaxFaults
        /\ tick \in {"commands", "stop", "events"}
    BY <1>1, PlaybackRunAssumption
  <2>3. run.at = "none"
    BY <1>1, NoRunIs
  <2>4. chan \in Seq(Commands)
    BY <1>1, NothingIs
  <2> QED BY <1>1, <2>1, <2>2, <2>3, <2>4 DEF Around
<1>3. RunInv(NoRun, 0)
  BY NoRunIs DEF RunInv, Ledger, Entry, Filed, Nothing
<1> QED BY <1>1, <1>2, <1>3 DEF IInv

\* Another submission does not disturb the run.
LEMMA LaterGen ==
  ASSUME NEW r, NEW g \in Nat, NEW h \in Nat, g <= h, RunInv(r, g)
  PROVE  RunInv(r, h)
BY DEF RunInv, Ledger, Booked, Typed

\* A fault, or none, inside its bound.
LEMMA OpenedKeeps ==
  ASSUME Around, NEW opens, NEW load, Opened(opens, load)
  PROVE  asks' \in 0..MaxAsks /\ faults' \in 0..MaxFaults
BY PlaybackRunAssumption DEF Around, Opened, Fault, bounds

\* The same of a fault.
LEMMA FaultKeeps ==
  ASSUME Around, NEW kind, Fault(kind)
  PROVE  asks' \in 0..MaxAsks /\ faults' \in 0..MaxFaults
BY PlaybackRunAssumption DEF Around, Fault

\* The head of what the run still has to read.
LEMMA HeadsAre ==
  ASSUME NEW S, NEW s \in Seq(S), s # Nothing
  PROVE  Head(s) \in S /\ Tail(s) \in Seq(S)
BY HeadTailProperties DEF Nothing

\* A returned loop leaves no commands.
LEMMA LeftIs ==
  ASSUME NEW r
  PROVE  Left(r, chan) = chan \/ Left(r, chan) = Nothing
BY DEF Left

-----------------------------------------------------------------------------
(* The steps of the run.                                                   *)

\* A command of the controller is handled.
LEMMA HandleCommandStep == ASSUME IInv, HandleCommand PROVE IInv'
<1>1. /\ run.at = "running" /\ chan # Nothing /\ chan' = Tail(chan)
      /\ UNCHANGED <<control, token, tick>>
      /\ cancel' = (cancel \/ Head(chan).c = "submit")
  BY DEF HandleCommand
<1>2. Head(chan) \in Commands /\ chan' \in Seq(Commands)
  BY <1>1, HeadsAre DEF IInv, Around
<1>3. PICK load \in {"ok", "prepare", "install"} :
        /\ Opened(Opens(Head(chan)), load)
        /\ run' = CASE Head(chan).c = "submit" -> CmdSubmit(run, gen, Head(chan).q, load)
                    [] Head(chan).c = "jump"   -> CmdJump(run, Head(chan).slot, Head(chan).resume, load)
                    [] Head(chan).c = "append" -> CmdAppend(run, Head(chan).slot, load)
  BY DEF HandleCommand
<1>4. RunInv(run, gen) /\ gen \in Nat \ {0}
  BY <1>1 DEF IInv, Around
<1>5. Extra \in Slots
  BY DEF Slots
<1>6. RunInv(run', gen) /\ run'.at = "running"
  <2>1. CASE Head(chan).c = "submit"
    <3>1. Head(chan).q \in Queues
      BY <1>2, <2>1 DEF Commands
    <3>2. run' = CmdSubmit(run, gen, Head(chan).q, load)
      BY <1>3, <2>1
    <3> QED BY <1>1, <1>4, <3>1, <3>2, SubmitStep
  <2>2. CASE Head(chan).c = "jump"
    <3>1. Head(chan).resume \in BOOLEAN
      BY <1>2 DEF Commands
    <3>2. run' = CmdJump(run, Head(chan).slot, Head(chan).resume, load)
      BY <1>3, <2>2
    <3> QED BY <1>1, <1>4, <3>1, <3>2, JumpStep
  <2>3. CASE Head(chan).c = "append"
    <3>1. Head(chan).slot \in Slots
      BY <1>2, <1>5, <2>3 DEF Commands
    <3>2. run' = CmdAppend(run, Head(chan).slot, load)
      BY <1>3, <2>3
    <3> QED BY <1>1, <1>4, <3>1, <3>2, AppendStep
  <2> QED BY <1>2, <2>1, <2>2, <2>3 DEF Commands
<1>7. Around'
  <2>1. asks' \in 0..MaxAsks /\ faults' \in 0..MaxFaults
    BY <1>3, OpenedKeeps DEF IInv
  <2>2. cancel' \in BOOLEAN
    BY <1>1
  <2> QED BY <1>1, <1>2, <1>4, <2>1, <2>2 DEF IInv, Around, control
<1> QED BY <1>1, <1>6, <1>7 DEF IInv, control

\* handle_stop_request.
LEMMA CheckStopStep == ASSUME IInv, CheckStop PROVE IInv'
<1> DEFINE asked == token /\ ~cancel /\ ~run.quit
           a == [run EXCEPT !.quit = TRUE, !.quitting = run.up]
<1>1. /\ run.at = "running" /\ tick' = "stop" /\ cancel' = FALSE
      /\ token' = (token /\ ~asked)
      /\ run' = IF asked THEN a ELSE run
      /\ UNCHANGED <<control, chan, bounds>>
  BY DEF CheckStop
<1>2. RunInv(run', gen) /\ run'.at = "running"
  <2>1. Typed(a) /\ SameLedger(run, a) /\ SameSlot(run, a) /\ SameMpv(run, a) /\ a.arm = run.arm
    BY DEF IInv, RunInv, Typed, Fields, SameLedger, SameSlot, SameMpv
  <2> HIDE DEF a
  <2>2. RunInv(a, gen) /\ a.at = "running"
    BY <1>1, <2>1, RunningIs, ArmKeeps DEF IInv, Placed
  <2> QED BY <1>1, <2>2 DEF IInv
<1>3. Around'
  BY <1>1 DEF IInv, Around, control, bounds
<1> QED BY <1>1, <1>2, <1>3 DEF IInv, control

\* finalize_quit.
LEMMA CheckQuitStep == ASSUME IInv, CheckQuit PROVE IInv'
<1>1. /\ run.at = "running" /\ tick' = "events" /\ chan' = Left(run', chan)
      /\ run' = Gone(ExitRun(EndRun(run))) \/ run' = run
      /\ UNCHANGED <<control, token, cancel, bounds>>
  BY DEF CheckQuit
<1>2. Handled(run', gen)
  BY <1>1, RunningIs, EndKeeps, GoneKeeps DEF IInv, Handled
<1>3. Around'
  BY <1>1, LeftIs, NothingIs DEF IInv, Around, control, bounds
<1> QED BY <1>1, <1>2, <1>3 DEF IInv, control, Handled

\* An event of mpv is handled, and the loop may return.
LEMMA EventHandled == ASSUME IInv, HandleEvent PROVE Handled(run', gen)
<1> DEFINE ev == Head(run.evs)
           r  == [run EXCEPT !.evs = Tail(@)]
<1>1. run.at = "running" /\ run.evs # Nothing
  BY DEF HandleEvent
<1>2. PICK load \in {"ok", "prepare", "install"} :
           run' = Gone(CASE ev.e \in {"eof", "stop", "quit"} -> OnEndFile(r, ev.e, load)
                         [] ev.e = "fail"    -> OnLoadFailed(r)
                         [] ev.e = "restart" -> OnRestart(r)
                         [] ev.e = "pos"     -> OnPlaylistPos(r, ev.at)
                         [] ev.e \in {"exit", "shutdown"} -> ExitRun(EndRun(r)))
  BY DEF HandleEvent
<1>3. ev \in Events /\ Tail(run.evs) \in Seq(Events)
  BY <1>1, HeadsAre DEF IInv, RunInv, Typed
<1>4. Typed(r) /\ SameLedger(run, r) /\ SameSlot(run, r) /\ SameMpv(run, r) /\ r.arm = run.arm
  BY <1>3 DEF IInv, RunInv, Typed, Fields, SameLedger, SameSlot, SameMpv
<1>5. ev.e \in Kinds
  BY <1>3 DEF Events
<1> HIDE DEF ev, r
<1>6. RunInv(r, gen) /\ r.at = "running"
  BY <1>1, <1>4, RunningIs, ArmKeeps DEF IInv, Placed
<1>7. PICK s : run' = Gone(s) /\ Handled(s, gen)
  <2>1. CASE ev.e \in {"eof", "stop", "quit"}
    <3>1. run' = Gone(OnEndFile(r, ev.e, load))
      BY <1>2, <2>1
    <3> QED BY <1>6, <3>1, EndFileStep
  <2>2. CASE ev.e = "fail"
    <3>1. run' = Gone(OnLoadFailed(r))
      BY <1>2, <2>2
    <3> QED BY <1>6, <3>1, LoadFailedStep
  <2>3. CASE ev.e = "restart"
    <3>1. run' = Gone(OnRestart(r))
      BY <1>2, <2>3
    <3> QED BY <1>6, <3>1, RestartStep
  <2>4. CASE ev.e = "pos"
    <3>1. run' = Gone(OnPlaylistPos(r, ev.at))
      BY <1>2, <2>4
    <3> QED BY <1>6, <3>1, PosStep
  <2>5. CASE ev.e \in {"exit", "shutdown"}
    <3>1. run' = Gone(ExitRun(EndRun(r)))
      BY <1>2, <2>5
    <3> QED BY <1>6, <3>1, RunningIs, EndKeeps
  <2> QED BY <1>5, <2>1, <2>2, <2>3, <2>4, <2>5 DEF Kinds
<1> QED BY <1>7, GoneKeeps

\* The event keeps the rest.
LEMMA HandleEventStep == ASSUME IInv, HandleEvent PROVE IInv'
<1>1. chan' = Left(run', chan) /\ UNCHANGED <<control, token, tick, cancel>>
  BY DEF HandleEvent
<1>2. PICK opens, load : Opened(opens, load)
  BY DEF HandleEvent
<1>3. Handled(run', gen)
  BY EventHandled
<1>4. run'.at # "none" => gen > 0
  BY DEF HandleEvent, IInv, Around
<1>5. Around'
  <2>1. asks' \in 0..MaxAsks /\ faults' \in 0..MaxFaults
    BY <1>2, OpenedKeeps DEF IInv
  <2> QED BY <1>1, <1>4, <2>1, LeftIs, NothingIs DEF IInv, Around, control
<1> QED BY <1>1, <1>3, <1>5 DEF IInv, control, Handled

\* The thread comes up and reads the identity of its submission.
LEMMA RunStartsStep == ASSUME IInv, RunStarts PROVE IInv'
<1> DEFINE a    == [run EXCEPT !.up = TRUE]
           proj == IF HasBook(run.slots) THEN "file" ELSE "playlist"
           list == IF HasBook(run.slots) THEN <<run.slots[1]>> ELSE run.slots
           b    == MpvLoad(a, list)
           c    == [b EXCEPT !.at = "running", !.identity = gen, !.proj = proj]
<1>1. /\ run.at = "starting" /\ run' = c
      /\ UNCHANGED <<control, token, chan, tick, cancel, bounds>>
  BY DEF RunStarts
<1>2. /\ Typed(run) /\ run.arm = IdleArm /\ run.idx = 1 /\ Placed(run) /\ Entry(run) /\ run.identity = 0
      /\ run.ended = 0 /\ run.told = 0 /\ run.active /\ ~run.dark /\ ~run.up /\ gen \in Nat \ {0}
  BY <1>1 DEF IInv, Around, RunInv, Ledger
<1>3. /\ Typed(a) /\ SameLedger(run, a) /\ SameSlot(run, a) /\ a.arm = run.arm /\ a.up
      /\ a.list = run.list /\ a.pos = run.pos /\ a.file = run.file
  BY <1>2 DEF Typed, Fields, SameLedger, SameSlot
<1> HIDE DEF a
<1>4. Entry(a)
  BY <1>2, <1>3 DEF Entry
<1>5. list \in Seq(Slots) /\ list # Nothing
  <2>1. /\ run.slots \in Seq(Slots) /\ 1 \in DOMAIN run.slots
    BY <1>2 DEF Typed, Placed
  <2>2. run.slots # Nothing
    BY <2>1 DEF Nothing
  <2>3. run.slots[1] \in Slots
    BY <2>1, LenProperties, ElementOfSeq
  <2>4. <<run.slots[1]>> \in Seq(Slots) /\ <<run.slots[1]>> # Nothing
    BY <2>3 DEF Nothing
  <2> QED BY <2>1, <2>2, <2>4
<1>6. list = <<run.slots[1]>> \/ proj = "playlist"
  OBVIOUS
<1>7. proj \in {"playlist", "file"}
  OBVIOUS
<1> HIDE DEF list, proj
<1>8. /\ Typed(b) /\ Entry(b) /\ SameLedger(a, b) /\ SameSlot(a, b) /\ b.arm = a.arm
      /\ b.list = list /\ b.pos = 1
  BY <1>3, <1>4, <1>5, MpvLoadDoes
<1> HIDE DEF b
<1>9. /\ Typed(c) /\ SameMpv(b, c) /\ c.at = "running" /\ c.identity = gen /\ c.proj = proj
      /\ c.slots = b.slots /\ c.idx = b.idx /\ c.arm = b.arm /\ c.ended = b.ended
      /\ c.told = b.told /\ c.active = b.active
  BY <1>2, <1>7, <1>8 DEF Typed, Fields, SameMpv
<1> HIDE DEF c
<1>10. Entry(c) /\ Filed(c)
  BY <1>2, <1>3, <1>6, <1>8, <1>9 DEF Entry, Filed, SameMpv, SameSlot
<1>11. Placed(c)
  BY <1>2, <1>3, <1>8, <1>9, IdleArmIs DEF Placed, SameSlot
<1>12. Ledger(c, gen)
  BY <1>2, <1>3, <1>8, <1>9 DEF Ledger, Booked, SameLedger
<1>13. RunInv(run', gen)
  BY <1>1, <1>9, <1>10, <1>11, <1>12 DEF RunInv
<1>14. Around'
  BY <1>1, <1>2 DEF IInv, Around, control, bounds
<1> QED BY <1>1, <1>13, <1>14 DEF IInv, control

\* The thread fails to come up and sends the Stopped of its own.
LEMMA StartFailsStep == ASSUME IInv, StartFails PROVE IInv'
<1> DEFINE a == [run EXCEPT !.at = "exited", !.active = FALSE, !.told = 1]
<1>1. /\ run.at = "starting" /\ run' = a /\ chan' = Nothing /\ Fault("start")
      /\ UNCHANGED <<control, token, tick, cancel>>
  BY DEF StartFails
<1>2. /\ Typed(run) /\ Placed(run) /\ Entry(run) /\ Filed(run) /\ run.identity = 0 /\ run.ended = 0
      /\ gen \in Nat \ {0}
  BY <1>1 DEF IInv, Around, RunInv, Ledger
<1>3. /\ Typed(a) /\ SameSlot(run, a) /\ SameMpv(run, a) /\ a.arm = run.arm /\ a.at = "exited"
      /\ a.told = 1 /\ a.identity = run.identity /\ a.ended = run.ended
  BY <1>2 DEF Typed, Fields, SameSlot, SameMpv
<1> HIDE DEF a
<1>4. Entry(a) /\ Filed(a) /\ Placed(a)
  BY <1>2, <1>3 DEF Entry, Filed, Placed, SameSlot, SameMpv
<1>5. RunInv(a, gen)
  BY <1>2, <1>3, <1>4 DEF RunInv, Ledger
<1>6. Around'
  <2>1. asks' \in 0..MaxAsks /\ faults' \in 0..MaxFaults
    BY <1>1, FaultKeeps DEF IInv
  <2> QED BY <1>1, <1>2, <2>1, NothingIs DEF IInv, Around, control
<1> QED BY <1>1, <1>5, <1>6 DEF IInv, control

-----------------------------------------------------------------------------
(* The steps of mpv.                                                       *)

\* mpv changes nothing but itself.
LEMMA MpvStepKeeps ==
  ASSUME IInv, NEW cond, NEW next, MpvStep(cond, next), NEW kind,
         UNCHANGED bounds \/ Fault(kind),
         Typed(next), Entry(next), SameLedger(run, next), SameSlot(run, next), next.arm = run.arm,
         Filed(next)
  PROVE  IInv'
<1>1. /\ run.at = "running" /\ run' = next
      /\ UNCHANGED <<control, token, chan, tick, cancel>>
  BY DEF MpvStep
<1>2. RunInv(next, gen)
  BY <1>1, MpvKeeps DEF IInv
<1>3. asks' \in 0..MaxAsks /\ faults' \in 0..MaxFaults
  BY FaultKeeps DEF IInv, Around, bounds
<1>4. Around'
  BY <1>1, <1>3 DEF IInv, Around, control
<1> QED BY <1>1, <1>2, <1>4 DEF IInv, control

\* mpv has loaded its file.
LEMMA MpvStartsStep == ASSUME IInv, MpvStarts PROVE IInv'
<1> DEFINE es == Append(run.evs, Ev("restart", 0))
           a  == [run EXCEPT !.file = "playing", !.evs = es]
<1>1. MpvStep(run.file = "loading", a) /\ UNCHANGED bounds
  BY DEF MpvStarts
<1>2. run.at = "running" /\ run.up /\ run.file = "loading"
  BY <1>1 DEF MpvStep
<1>3. Typed(run) /\ Entry(run) /\ Filed(run)
  BY DEF IInv, RunInv
<1>4. es \in Seq(Events)
  <2>1. Ev("restart", 0) \in Events /\ run.evs \in Seq(Events)
    BY <1>3, EventsAre DEF Typed, Kinds
  <2> QED BY <2>1, AppendProperties
<1> HIDE DEF es
<1>5. /\ Typed(a) /\ SameLedger(run, a) /\ SameSlot(run, a) /\ a.arm = run.arm
      /\ a.list = run.list /\ a.pos = run.pos /\ a.up = run.up /\ a.file = "playing"
  BY <1>3, <1>4 DEF Typed, Fields, SameLedger, SameSlot
<1> HIDE DEF a
<1>6. Entry(a) /\ Filed(a)
  BY <1>2, <1>3, <1>5 DEF Entry, Filed, SameSlot
<1> QED BY <1>1, <1>5, <1>6, MpvStepKeeps

\* mpv goes on by itself only where it has another entry.
LEMMA GoesOnStep ==
  ASSUME IInv, NEW kind \in Kinds, NEW cond, cond => run.file # "none",
         MpvStep(cond, MpvGoesOn(run, kind)), NEW fault, UNCHANGED bounds \/ Fault(fault)
  PROVE  IInv'
<1> DEFINE s == MpvGoesOn(run, kind)
<1>1. run.at = "running" /\ run.up /\ run.file # "none" /\ MpvStep(cond, s)
  BY DEF MpvStep
<1>2. Typed(run) /\ Entry(run) /\ Filed(run)
  BY DEF IInv, RunInv
<1>3. /\ Typed(s) /\ Entry(s) /\ SameLedger(run, s) /\ SameSlot(run, s) /\ s.arm = run.arm
      /\ s.file # "none" => Len(run.list) > run.pos
  BY <1>1, <1>2, MpvGoesOnDoes
<1> HIDE DEF s
<1>4. run.proj = "file" => s.file = "none"
  <2> SUFFICES ASSUME run.proj = "file", s.file # "none" PROVE FALSE
    OBVIOUS
  <2>1. run.list = <<run.slots[run.idx]>> /\ run.pos = 1
    BY <1>1, <1>2 DEF Filed
  <2>2. Len(run.list) = 1
    BY <2>1
  <2> QED BY <1>3, <2>1, <2>2
<1>5. Filed(s)
  BY <1>3, <1>4 DEF Filed, SameSlot
<1> QED BY <1>1, <1>3, <1>5, MpvStepKeeps

\* mpv dies or obeys a quit.
LEMMA DownStep ==
  ASSUME IInv, NEW cond, NEW sent \in Seq(Events), MpvStep(cond, MpvDown(run, sent)),
         NEW fault, UNCHANGED bounds \/ Fault(fault)
  PROVE  IInv'
<1> DEFINE s == MpvDown(run, sent)
<1>1. /\ Typed(s) /\ Entry(s) /\ SameLedger(run, s) /\ SameSlot(run, s) /\ s.arm = run.arm
      /\ s.file = "none"
  BY MpvDownDoes DEF IInv, RunInv
<1> HIDE DEF s
<1>2. Filed(s)
  BY <1>1 DEF Filed
<1> QED BY <1>1, <1>2, MpvStepKeeps DEF s

\* The user closes the window.
LEMMA UserClosesStep == ASSUME IInv, UserCloses PROVE IInv'
<1> DEFINE a == [run EXCEPT !.quitting = TRUE]
<1>1. MpvStep(~run.quitting, a) /\ Fault("close")
  BY DEF UserCloses
<1>2. Typed(run) /\ Entry(run) /\ Filed(run)
  BY DEF IInv, RunInv
<1>3. Typed(a) /\ SameLedger(run, a) /\ SameSlot(run, a) /\ SameMpv(run, a) /\ a.arm = run.arm
  BY <1>2 DEF Typed, Fields, SameLedger, SameSlot, SameMpv
<1> HIDE DEF a
<1>4. Entry(a) /\ Filed(a)
  BY <1>2, <1>3 DEF Entry, Filed, SameSlot, SameMpv
<1> QED BY <1>1, <1>3, <1>4, MpvStepKeeps

\* Every step of mpv.
LEMMA MpvActsStep == ASSUME IInv, MpvActs PROVE IInv'
<1>1. ASSUME MpvEof PROVE IInv'
  BY <1>1, GoesOnStep DEF MpvEof, Kinds
<1>2. ASSUME MpvLoadFails PROVE IInv'
  BY <1>2, GoesOnStep DEF MpvLoadFails, Kinds
<1>3. ASSUME MpvDies PROVE IInv'
  <2>1. <<Ev("exit", 0)>> \in Seq(Events)
    BY EventsAre DEF Kinds
  <2> QED BY <1>3, <2>1, DownStep DEF MpvDies
<1>4. ASSUME MpvQuits PROVE IInv'
  <2>1. EndOf(run, "quit") \in Seq(Events) /\ <<Ev("shutdown", 0)>> \in Seq(Events)
    BY EventsAre DEF Kinds
  <2>2. EndOf(run, "quit") \o <<Ev("shutdown", 0)>> \in Seq(Events)
    BY <2>1, ConcatProperties
  <2> QED BY <1>4, <2>2, DownStep DEF MpvQuits
<1> QED BY <1>1, <1>2, <1>3, <1>4, MpvStartsStep, UserClosesStep DEF MpvActs

-----------------------------------------------------------------------------
(* The steps of the controller.                                            *)

\* A submission into the live run.
LEMMA SubmitLiveStep == ASSUME IInv, SubmitLive PROVE IInv'
<1>1. /\ gen' = gen + 1 /\ gen < MaxSubmits
      /\ UNCHANGED <<stop_tx, joining, token, tick, cancel, run, bounds>>
  BY DEF SubmitLive
<1>2. PICK q \in Queues :
        chan' = Append(chan, [c |-> "submit", q |-> q, slot |-> q[1], resume |-> FALSE])
  BY DEF SubmitLive
<1>3. q[1] \in Slots
  BY QueuesAre, LenProperties, ElementOfSeq
<1>4. [c |-> "submit", q |-> q, slot |-> q[1], resume |-> FALSE] \in Commands
  BY <1>3 DEF Commands
<1>5. chan' \in Seq(Commands)
  BY <1>2, <1>4, AppendProperties DEF IInv, Around
<1>6. gen \in Nat /\ gen + 1 \in 0..MaxSubmits
  BY <1>1, PlaybackRunAssumption DEF IInv, Around
<1>7. RunInv(run, gen + 1)
  BY <1>6, LaterGen DEF IInv
<1>8. Around'
  BY <1>1, <1>5, <1>6 DEF IInv, Around, bounds
<1> QED BY <1>1, <1>7, <1>8 DEF IInv

\* A submission that waits for the old run to end.
LEMMA SubmitColdStep == ASSUME IInv, SubmitCold PROVE IInv'
<1>1. /\ gen' = gen + 1 /\ gen < MaxSubmits /\ joining' \in Queues
      /\ UNCHANGED <<chan, tick, cancel, run, bounds>>
      /\ stop_tx' \in BOOLEAN /\ token' \in BOOLEAN
  BY DEF SubmitCold, StopRun
<1>2. gen \in Nat /\ gen + 1 \in 0..MaxSubmits
  BY <1>1, PlaybackRunAssumption DEF IInv, Around
<1>3. RunInv(run, gen + 1)
  BY <1>2, LaterGen DEF IInv
<1>4. Around'
  BY <1>1, <1>2 DEF IInv, Around, bounds
<1> QED BY <1>1, <1>3, <1>4 DEF IInv

\* The cold start, once the old thread is gone.
LEMMA ColdStartStep == ASSUME IInv, ColdStart PROVE IInv'
<1> DEFINE a == [NoRun EXCEPT !.at = "starting", !.slots = joining, !.standalone = Standalone(joining),
                              !.active = TRUE]
<1>1. /\ joining # Nothing /\ run' = a /\ stop_tx' = TRUE /\ token' = FALSE /\ chan' = Nothing
      /\ joining' = Nothing /\ tick' = "commands" /\ cancel' = FALSE
      /\ UNCHANGED <<gen, bounds>>
  BY DEF ColdStart
<1>2. joining \in Queues /\ gen \in Nat \ {0}
  BY <1>1 DEF IInv, Around
<1>3. /\ Typed(a) /\ a.slots = joining /\ a.at = "starting" /\ a.active /\ SameMpv(NoRun, a)
      /\ a.identity = NoRun.identity /\ a.ended = NoRun.ended /\ a.told = NoRun.told
      /\ a.dark = NoRun.dark /\ a.arm = NoRun.arm /\ a.idx = NoRun.idx /\ a.proj = NoRun.proj
  BY <1>2, NoRunIs, QueuesAre DEF Typed, Fields, SameMpv
<1> HIDE DEF a
<1>5. Entry(a) /\ Filed(a)
  BY <1>3, NoRunIs DEF Entry, Filed, Nothing, SameMpv
<1>6. Placed(a)
  BY <1>2, <1>3, NoRunIs, IdleArmIs, QueuesAre DEF Placed
<1>7. RunInv(a, gen)
  BY <1>2, <1>3, <1>5, <1>6, NoRunIs DEF RunInv, Ledger, SameMpv
<1>8. Around'
  BY <1>1, <1>2, NothingIs DEF IInv, Around, bounds
<1> QED BY <1>1, <1>7, <1>8 DEF IInv

\* stop().
LEMMA StopStep == ASSUME IInv, Stop PROVE IInv'
<1>1. /\ UNCHANGED <<gen, joining, chan, tick, cancel, run, bounds>>
      /\ stop_tx' \in BOOLEAN /\ token' \in BOOLEAN
  BY DEF Stop, StopRun
<1>2. Around'
  BY <1>1 DEF IInv, Around, bounds
<1> QED BY <1>1, <1>2 DEF IInv

\* A jump or an append is sent.
LEMMA AskStep == ASSUME IInv, Ask PROVE IInv'
<1>1. /\ asks < MaxAsks /\ asks' = asks + 1
      /\ UNCHANGED <<control, token, tick, cancel, run, faults>>
  BY DEF Ask
<1>2. PICK cmd \in Commands : chan' = Append(chan, cmd)
  <2>1. CASE \E slot \in UNION {Range(q) : q \in Queues}, resume \in BOOLEAN :
               chan' = Append(chan, [c |-> "jump", q |-> Nothing, slot |-> slot, resume |-> resume])
    <3>1. PICK slot \in UNION {Range(q) : q \in Queues}, resume \in BOOLEAN :
               chan' = Append(chan, [c |-> "jump", q |-> Nothing, slot |-> slot, resume |-> resume])
      BY <2>1
    <3>2. slot \in Slots
      BY DEF Slots
    <3> QED BY <3>1, <3>2 DEF Commands
  <2>2. CASE chan' = Append(chan, [c |-> "append", q |-> Nothing, slot |-> Extra, resume |-> FALSE])
    BY <2>2 DEF Commands
  <2> QED BY <2>1, <2>2 DEF Ask
<1>3. chan' \in Seq(Commands)
  BY <1>2, AppendProperties DEF IInv, Around
<1>4. asks' \in 0..MaxAsks
  BY <1>1, PlaybackRunAssumption DEF IInv, Around
<1>5. Around'
  BY <1>1, <1>3, <1>4 DEF IInv, Around, control
<1> QED BY <1>1, <1>5 DEF IInv, control

\* The loop goes round.
LEMMA EndTickStep == ASSUME IInv, EndTick PROVE IInv'
<1>1. tick' = "commands" /\ UNCHANGED <<control, token, chan, cancel, run, bounds>>
  BY DEF EndTick
<1>2. Around'
  BY <1>1 DEF IInv, Around, control, bounds
<1> QED BY <1>1, <1>2 DEF IInv, control

\* Every step keeps it.
LEMMA StepHolds == IInv /\ [Next]_vars => IInv'
<1> SUFFICES ASSUME IInv, [Next]_vars PROVE IInv'
  OBVIOUS
<1>1. CASE RunStep
  BY <1>1, HandleCommandStep, CheckStopStep, CheckQuitStep, HandleEventStep, EndTickStep, RunStartsStep
     DEF RunStep
<1>2. CASE StartFails
  BY <1>2, StartFailsStep
<1>3. CASE MpvActs
  BY <1>3, MpvActsStep
<1>4. CASE Controller
  BY <1>4, SubmitLiveStep, SubmitColdStep, ColdStartStep, StopStep, AskStep DEF Controller
<1>5. CASE UNCHANGED vars
  BY <1>5 DEF IInv, Around, vars, control, bounds
<1> QED BY <1>1, <1>2, <1>3, <1>4, <1>5 DEF Next

\* The inductive invariant of a run and what surrounds it holds always.
THEOREM Inductive == Spec => []IInv
<1> QED BY InitHolds, StepHolds, PTL DEF Spec

\* The types, the active slot and the armed target inside the queue, mpv on an
\* entry exactly while it has a file, and identities in order, always (TypeOK).
THEOREM TypeCorrect == Spec => []TypeOK
<1>1. IInv => TypeOK
  <2> SUFFICES ASSUME IInv PROVE TypeOK
    OBVIOUS
  <2>1. Typed(run)
    BY DEF IInv, RunInv
  <2>2. Range(run.slots) \subseteq Slots
    BY <2>1, LenProperties, ElementOfSeq DEF Typed, Range
  <2>3. run.slots # Nothing => run.idx \in DOMAIN run.slots
    BY DEF IInv, RunInv, Placed
  <2>4. run.arm.at # "idle" => run.arm.to \in DOMAIN run.slots
    BY IdleArmIs DEF IInv, RunInv, Placed
  <2>5. (run.file # "none" <=> run.pos \in DOMAIN run.list) /\ run.identity <= gen /\ run.ended <= run.identity
    BY DEF IInv, RunInv, Entry, Ledger
  <2>6. run.arm.at \in {"idle", "pending", "resume"}
    BY <2>1 DEF Typed, Arms
  <2>7. /\ gen \in 0..MaxSubmits /\ asks \in 0..MaxAsks /\ faults \in 0..MaxFaults
        /\ {stop_tx, token, cancel} \subseteq BOOLEAN
        /\ joining \in Queues \cup {Nothing} /\ tick \in {"commands", "stop", "events"}
    BY DEF IInv, Around
  <2> QED BY <2>1, <2>2, <2>3, <2>4, <2>5, <2>6, <2>7 DEF TypeOK, Typed
<1> QED BY <1>1, Inductive, PTL

\* Whichever end path fires first, a submission is answered by at most one
\* Stopped, and the thread does not end owing one, but for the queue left
\* inactive (end_run, close_run of lifecycle.rs).
THEOREM OneStoppedEach == Spec => []StoppedExactlyOnce
<1>1. IInv => StoppedExactlyOnce
  BY DEF IInv, RunInv, Typed, Ledger, StoppedExactlyOnce
<1> QED BY <1>1, Inductive, PTL

\* No jump is ever armed in the file projection, over promotions, replacements
\* and failed openings (arm_jump, enter_active_file).
THEOREM ActiveFileUnarmed == Spec => []NoArmInActiveFile
<1>1. IInv => NoArmInActiveFile
  BY DEF IInv, RunInv, Placed, NoArmInActiveFile
<1> QED BY <1>1, Inductive, PTL

\* The file mpv holds in the file projection is the slot the run names, over
\* jumps, advances, promotions and failed openings (cmd_jump_to_active_file).
THEOREM ActiveFileIsSlot == Spec => []FileIsActiveSlot
<1>1. IInv => FileIsActiveSlot
  <2> SUFFICES ASSUME IInv, run.proj = "file", run.file # "none"
               PROVE  run.list[run.pos] = run.slots[run.idx]
    BY DEF FileIsActiveSlot
  <2>1. run.list = <<run.slots[run.idx]>> /\ run.pos = 1
    BY DEF IInv, RunInv, Filed
  <2> QED BY <2>1
<1> QED BY <1>1, Inductive, PTL

-----------------------------------------------------------------------------
(* What is said of unread events: which kinds are among them, in what      *)
(* order.  Each fact is given for a head and a tail, and for an append.    *)

Seen(es, S) == \E i \in 1..Len(es) : es[i].e \in S
Then(es, S, T) == \E i, j \in 1..Len(es) : i < j /\ es[i].e \in S /\ es[j].e \in T
Then3(es, S, T, U) ==
  \E i, j, k \in 1..Len(es) : i < j /\ j < k /\ es[i].e \in S /\ es[j].e \in T /\ es[k].e \in U
Then4(es, S, T, U, V) ==
  \E h, i, j, k \in 1..Len(es) : /\ h < i /\ i < j /\ j < k
                                 /\ es[h].e \in S /\ es[i].e \in T /\ es[j].e \in U /\ es[k].e \in V

\* Each of S has one of T behind it, the last event perhaps excepted; each of T
\* has one of S before it; one of M is between each of S and each later T.
Followed(es, S, T) == \A i \in 1..Len(es) : es[i].e \in S => \E j \in 1..Len(es) : i < j /\ es[j].e \in T
FollowedBut(es, S, T) ==
  \A i \in 1..Len(es) : i < Len(es) /\ es[i].e \in S => \E j \in 1..Len(es) : i < j /\ es[j].e \in T
Preceded(es, S, T) == \A j \in 1..Len(es) : es[j].e \in T => \E i \in 1..Len(es) : i < j /\ es[i].e \in S
Between(es, S, M, T) ==
  \A i, j \in 1..Len(es) : i < j /\ es[i].e \in S /\ es[j].e \in T
                             => \E k \in 1..Len(es) : i < k /\ k < j /\ es[k].e \in M

\* The last position is p; the last event is one of S; a file fails before any
\* started.
LastPos(es, p) ==
  \A i \in 1..Len(es) : (es[i].e = "pos" /\ \A j \in 1..Len(es) : i < j => es[j].e # "pos") => es[i].at = p
LastIs(es, S) == es # Nothing /\ es[Len(es)].e \in S
FailsFirst(es) ==
  \E i \in 1..Len(es) : es[i].e = "fail" /\ \A j \in 1..Len(es) : j < i => es[j].e # "restart"

\* The kinds of events: ends that the run handles as such, events with which mpv
\* leaves an entry, and those with which it does so by itself.
Ends    == {"eof", "stop"}
Leaves  == {"eof", "stop", "fail"}
Past    == {"eof", "fail"}
Settles == {"restart", "fail"}
Starts  == {"restart"}
Moves   == {"pos"}
Stops   == {"stop"}
Fails   == {"fail"}
Eofs    == {"eof"}
Outs    == {"quit", "exit", "shutdown"}

\* The places of a sequence, seen from its tail.
LEMMA PlacesOfTail ==
  ASSUME NEW es \in Seq(Events), es # Nothing
  PROVE  /\ Head(es) = es[1] /\ Tail(es) \in Seq(Events) /\ Head(es) \in Events
         /\ Len(es) \in Nat /\ Len(Tail(es)) \in Nat /\ Len(es) = Len(Tail(es)) + 1
         /\ 1 \in 1..Len(es)
         /\ \A i \in 1..Len(Tail(es)) : i + 1 \in 1..Len(es) /\ es[i + 1] = Tail(es)[i]
         /\ \A i \in 1..Len(es) : i # 1 => i - 1 \in 1..Len(Tail(es)) /\ Tail(es)[i - 1] = es[i]
<1>1. Len(es) \in Nat /\ Len(es) > 0
  BY LenProperties, EmptySeq DEF Nothing
<1>2. Head(es) = es[1] /\ Head(es) \in Events /\ Tail(es) \in Seq(Events) /\ Len(Tail(es)) = Len(es) - 1
      /\ \A i \in 1..Len(Tail(es)) : Tail(es)[i] = es[i + 1]
  BY HeadTailProperties DEF Nothing
<1> QED BY <1>1, <1>2

\* The places of a sequence with one more element.
LEMMA PlacesOfAppend ==
  ASSUME NEW es \in Seq(Events), NEW a \in Events
  PROVE  LET t == Append(es, a) IN
         /\ t \in Seq(Events) /\ t # Nothing
         /\ Len(es) \in Nat /\ Len(t) = Len(es) + 1 /\ t[Len(es) + 1] = a /\ Len(es) + 1 \in 1..Len(t)
         /\ \A i \in 1..Len(es) : i \in 1..Len(t) /\ t[i] = es[i] /\ i < Len(es) + 1
         /\ \A i \in 1..Len(t) : i = Len(es) + 1 \/ i \in 1..Len(es)
<1>1. Len(es) \in Nat
  BY LenProperties
<1>2. /\ Append(es, a) \in Seq(Events) /\ Len(Append(es, a)) = Len(es) + 1
      /\ Append(es, a)[Len(es) + 1] = a
      /\ \A i \in 1..Len(es) : Append(es, a)[i] = es[i]
  BY AppendProperties
<1>3. Append(es, a) # Nothing
  BY <1>1, <1>2, EmptySeq DEF Nothing
<1> QED BY <1>1, <1>2, <1>3

\* A kind is seen at the head or in the tail.
LEMMA SeenReads ==
  ASSUME NEW es \in Seq(Events), es # Nothing, NEW S
  PROVE  Seen(es, S) <=> Head(es).e \in S \/ Seen(Tail(es), S)
<1> DEFINE t == Tail(es)
<1>1. /\ Head(es) = es[1] /\ 1 \in 1..Len(es)
      /\ \A i \in 1..Len(t) : i + 1 \in 1..Len(es) /\ es[i + 1] = t[i]
      /\ \A i \in 1..Len(es) : i # 1 => i - 1 \in 1..Len(t) /\ t[i - 1] = es[i]
  BY PlacesOfTail
<1> HIDE DEF t
<1>2. Seen(es, S) => Head(es).e \in S \/ Seen(t, S)
  BY <1>1 DEF Seen
<1>3. Seen(t, S) => Seen(es, S)
  BY <1>1 DEF Seen
<1>4. Head(es).e \in S => Seen(es, S)
  BY <1>1 DEF Seen
<1> QED BY <1>2, <1>3, <1>4 DEF t

\* A pair of kinds starts at the head or lies in the tail.
LEMMA ThenReads ==
  ASSUME NEW es \in Seq(Events), es # Nothing, NEW S, NEW T
  PROVE  /\ Then(es, S, T) <=> (Head(es).e \in S /\ Seen(Tail(es), T)) \/ Then(Tail(es), S, T)
         /\ Then(es, S, T) => Seen(Tail(es), T)
<1> DEFINE t == Tail(es)
<1>1. /\ Head(es) = es[1] /\ 1 \in 1..Len(es) /\ Len(es) \in Nat /\ Len(t) \in Nat
      /\ \A i \in 1..Len(t) : i + 1 \in 1..Len(es) /\ es[i + 1] = t[i]
      /\ \A i \in 1..Len(es) : i # 1 => i - 1 \in 1..Len(t) /\ t[i - 1] = es[i]
  BY PlacesOfTail
<1> HIDE DEF t
<1>2. ASSUME Then(es, S, T)
      PROVE  /\ (Head(es).e \in S /\ Seen(t, T)) \/ Then(t, S, T)
             /\ Seen(t, T)
  <2>1. PICK i, j \in 1..Len(es) : i < j /\ es[i].e \in S /\ es[j].e \in T
    BY <1>2 DEF Then
  <2>2. j - 1 \in 1..Len(t) /\ t[j - 1].e \in T
    BY <1>1, <2>1
  <2>3. Seen(t, T)
    BY <2>2 DEF Seen
  <2>4. CASE i = 1
    BY <1>1, <2>1, <2>3, <2>4
  <2>5. CASE i # 1
    <3>1. i - 1 \in 1..Len(t) /\ t[i - 1].e \in S /\ i - 1 < j - 1
      BY <1>1, <2>1, <2>5
    <3>2. Then(t, S, T)
      BY <2>2, <3>1 DEF Then
    <3> QED BY <2>3, <3>2
  <2> QED BY <2>4, <2>5
<1>3. ASSUME Head(es).e \in S, Seen(t, T) PROVE Then(es, S, T)
  <2>1. PICK j \in 1..Len(t) : t[j].e \in T
    BY <1>3 DEF Seen
  <2>2. j + 1 \in 1..Len(es) /\ es[j + 1].e \in T /\ 1 < j + 1
    BY <1>1, <2>1
  <2> QED BY <1>1, <1>3, <2>2 DEF Then
<1>4. ASSUME Then(t, S, T) PROVE Then(es, S, T)
  <2>1. PICK i, j \in 1..Len(t) : i < j /\ t[i].e \in S /\ t[j].e \in T
    BY <1>4 DEF Then
  <2>2. i + 1 \in 1..Len(es) /\ j + 1 \in 1..Len(es) /\ i + 1 < j + 1
        /\ es[i + 1].e \in S /\ es[j + 1].e \in T
    BY <1>1, <2>1
  <2> QED BY <2>2 DEF Then
<1> QED BY <1>2, <1>3, <1>4 DEF t

\* Three kinds in order, the same.
LEMMA Then3Reads ==
  ASSUME NEW es \in Seq(Events), es # Nothing, NEW S, NEW T, NEW U
  PROVE  Then3(es, S, T, U) <=> (Head(es).e \in S /\ Then(Tail(es), T, U)) \/ Then3(Tail(es), S, T, U)
<1> DEFINE t == Tail(es)
<1>1. /\ Head(es) = es[1] /\ 1 \in 1..Len(es) /\ Len(es) \in Nat /\ Len(t) \in Nat
      /\ \A i \in 1..Len(t) : i + 1 \in 1..Len(es) /\ es[i + 1] = t[i]
      /\ \A i \in 1..Len(es) : i # 1 => i - 1 \in 1..Len(t) /\ t[i - 1] = es[i]
  BY PlacesOfTail
<1> HIDE DEF t
<1>2. ASSUME Then3(es, S, T, U) PROVE (Head(es).e \in S /\ Then(t, T, U)) \/ Then3(t, S, T, U)
  <2>1. PICK i, j, k \in 1..Len(es) : i < j /\ j < k /\ es[i].e \in S /\ es[j].e \in T /\ es[k].e \in U
    BY <1>2 DEF Then3
  <2>2. j # 1 /\ k # 1
    BY <2>1
  <2>3. /\ j - 1 \in 1..Len(t) /\ t[j - 1].e \in T
        /\ k - 1 \in 1..Len(t) /\ t[k - 1].e \in U /\ j - 1 < k - 1
    BY <1>1, <2>1, <2>2
  <2>4. CASE i = 1
    <3>1. Then(t, T, U)
      BY <2>3 DEF Then
    <3> QED BY <1>1, <2>1, <2>4, <3>1
  <2>5. CASE i # 1
    <3>1. i - 1 \in 1..Len(t) /\ t[i - 1].e \in S /\ i - 1 < j - 1
      BY <1>1, <2>1, <2>5
    <3>2. Then3(t, S, T, U)
      BY <2>3, <3>1 DEF Then3
    <3> QED BY <3>2
  <2> QED BY <2>4, <2>5
<1>3. ASSUME Head(es).e \in S, Then(t, T, U) PROVE Then3(es, S, T, U)
  <2>1. PICK j, k \in 1..Len(t) : j < k /\ t[j].e \in T /\ t[k].e \in U
    BY <1>3 DEF Then
  <2>2. /\ j + 1 \in 1..Len(es) /\ es[j + 1].e \in T /\ k + 1 \in 1..Len(es) /\ es[k + 1].e \in U
        /\ 1 < j + 1 /\ j + 1 < k + 1
    BY <1>1, <2>1
  <2> QED BY <1>1, <1>3, <2>2 DEF Then3
<1>4. ASSUME Then3(t, S, T, U) PROVE Then3(es, S, T, U)
  <2>1. PICK i, j, k \in 1..Len(t) : i < j /\ j < k /\ t[i].e \in S /\ t[j].e \in T /\ t[k].e \in U
    BY <1>4 DEF Then3
  <2>2. i + 1 < j + 1 /\ j + 1 < k + 1
    BY <2>1
  <2>3. /\ i + 1 \in 1..Len(es) /\ es[i + 1].e \in S
        /\ j + 1 \in 1..Len(es) /\ es[j + 1].e \in T
        /\ k + 1 \in 1..Len(es) /\ es[k + 1].e \in U
    BY <1>1, <2>1
  <2> QED BY <2>2, <2>3 DEF Then3
<1> QED BY <1>2, <1>3, <1>4 DEF t

\* Four kinds in order, the same.
LEMMA Then4Reads ==
  ASSUME NEW es \in Seq(Events), es # Nothing, NEW S, NEW T, NEW U, NEW V
  PROVE  Then4(es, S, T, U, V) <=>
           (Head(es).e \in S /\ Then3(Tail(es), T, U, V)) \/ Then4(Tail(es), S, T, U, V)
<1> DEFINE t == Tail(es)
<1>1. /\ Head(es) = es[1] /\ 1 \in 1..Len(es) /\ Len(es) \in Nat /\ Len(t) \in Nat
      /\ \A i \in 1..Len(t) : i + 1 \in 1..Len(es) /\ es[i + 1] = t[i]
      /\ \A i \in 1..Len(es) : i # 1 => i - 1 \in 1..Len(t) /\ t[i - 1] = es[i]
  BY PlacesOfTail
<1> HIDE DEF t
<1>2. ASSUME Then4(es, S, T, U, V) PROVE (Head(es).e \in S /\ Then3(t, T, U, V)) \/ Then4(t, S, T, U, V)
  <2>1. PICK h, i, j, k \in 1..Len(es) :
          /\ h < i /\ i < j /\ j < k
          /\ es[h].e \in S /\ es[i].e \in T /\ es[j].e \in U /\ es[k].e \in V
    BY <1>2 DEF Then4
  <2>2. i # 1 /\ j # 1 /\ k # 1
    BY <2>1
  <2>3. /\ i - 1 \in 1..Len(t) /\ t[i - 1].e \in T /\ i - 1 < j - 1
        /\ j - 1 \in 1..Len(t) /\ t[j - 1].e \in U
        /\ k - 1 \in 1..Len(t) /\ t[k - 1].e \in V /\ j - 1 < k - 1
    BY <1>1, <2>1, <2>2
  <2>4. CASE h = 1
    <3>1. Then3(t, T, U, V)
      BY <2>3 DEF Then3
    <3> QED BY <1>1, <2>1, <2>4, <3>1
  <2>5. CASE h # 1
    <3>1. h - 1 \in 1..Len(t) /\ t[h - 1].e \in S /\ h - 1 < i - 1
      BY <1>1, <2>1, <2>5
    <3>2. Then4(t, S, T, U, V)
      BY <2>3, <3>1 DEF Then4
    <3> QED BY <3>2
  <2> QED BY <2>4, <2>5
<1>3. ASSUME Head(es).e \in S, Then3(t, T, U, V) PROVE Then4(es, S, T, U, V)
  <2>1. PICK i, j, k \in 1..Len(t) : i < j /\ j < k /\ t[i].e \in T /\ t[j].e \in U /\ t[k].e \in V
    BY <1>3 DEF Then3
  <2>2. /\ i + 1 \in 1..Len(es) /\ j + 1 \in 1..Len(es) /\ k + 1 \in 1..Len(es)
        /\ 1 < i + 1 /\ i + 1 < j + 1 /\ j + 1 < k + 1
        /\ es[i + 1].e \in T /\ es[j + 1].e \in U /\ es[k + 1].e \in V
    BY <1>1, <2>1
  <2> QED BY <1>1, <1>3, <2>2 DEF Then4
<1>4. ASSUME Then4(t, S, T, U, V) PROVE Then4(es, S, T, U, V)
  <2>1. PICK h, i, j, k \in 1..Len(t) :
          /\ h < i /\ i < j /\ j < k
          /\ t[h].e \in S /\ t[i].e \in T /\ t[j].e \in U /\ t[k].e \in V
    BY <1>4 DEF Then4
  <2>2. h + 1 < i + 1 /\ i + 1 < j + 1 /\ j + 1 < k + 1
    BY <2>1
  <2>3. /\ h + 1 \in 1..Len(es) /\ es[h + 1].e \in S
        /\ i + 1 \in 1..Len(es) /\ es[i + 1].e \in T
    BY <1>1, <2>1
  <2>4. /\ j + 1 \in 1..Len(es) /\ es[j + 1].e \in U
        /\ k + 1 \in 1..Len(es) /\ es[k + 1].e \in V
    BY <1>1, <2>1
  <2> QED BY <2>2, <2>3, <2>4 DEF Then4
<1> QED BY <1>2, <1>3, <1>4 DEF t

\* The rules for what follows, precedes or lies between, for a head and a tail.
LEMMA RulesRead ==
  ASSUME NEW es \in Seq(Events), es # Nothing, NEW S, NEW T, NEW M
  PROVE  LET k == Head(es).e
             t == Tail(es)
         IN /\ Followed(es, S, T) <=> (k \in S => Seen(t, T)) /\ Followed(t, S, T)
            /\ FollowedBut(es, S, T) <=> (k \in S /\ t # Nothing => Seen(t, T)) /\ FollowedBut(t, S, T)
            /\ Preceded(es, S, T) <=> k \notin T /\ (k \in S \/ Preceded(t, S, T))
            /\ Between(es, S, M, T) <=> (k \in S => Preceded(t, M, T)) /\ Between(t, S, M, T)
<1> DEFINE k == Head(es).e
           t == Tail(es)
<1>1. /\ Head(es) = es[1] /\ 1 \in 1..Len(es) /\ Len(es) \in Nat /\ Len(t) \in Nat /\ Len(es) = Len(t) + 1
      /\ \A i \in 1..Len(t) : i + 1 \in 1..Len(es) /\ es[i + 1] = t[i]
      /\ \A i \in 1..Len(es) : i # 1 => i - 1 \in 1..Len(t) /\ t[i - 1] = es[i]
  BY PlacesOfTail
<1>0. t # Nothing <=> Len(t) > 0
  <2>1. t \in Seq(Events)
    BY PlacesOfTail
  <2> HIDE DEF t
  <2>2. (t = << >>) <=> (Len(t) = 0)
    BY <2>1, EmptySeq
  <2> QED BY <1>1, <2>2 DEF Nothing
<1> HIDE DEF t
<1>2. Followed(es, S, T) <=> (k \in S => Seen(t, T)) /\ Followed(t, S, T)
  <2>1. ASSUME Followed(es, S, T), k \in S PROVE Seen(t, T)
    <3>1. PICK j \in 1..Len(es) : 1 < j /\ es[j].e \in T
      BY <1>1, <2>1 DEF Followed
    <3>2. j - 1 \in 1..Len(t) /\ t[j - 1].e \in T
      BY <1>1, <3>1
    <3> QED BY <3>2 DEF Seen
  <2>2. ASSUME Followed(es, S, T), NEW i \in 1..Len(t), t[i].e \in S
        PROVE  \E j \in 1..Len(t) : i < j /\ t[j].e \in T
    <3>1. i + 1 \in 1..Len(es) /\ es[i + 1].e \in S
      BY <1>1, <2>2
    <3>2. PICK j \in 1..Len(es) : i + 1 < j /\ es[j].e \in T
      BY <2>2, <3>1 DEF Followed
    <3>3. j - 1 \in 1..Len(t) /\ t[j - 1].e \in T /\ i < j - 1
      BY <1>1, <3>2
    <3> QED BY <3>3
  <2>3. ASSUME k \in S => Seen(t, T), Followed(t, S, T), NEW i \in 1..Len(es), es[i].e \in S
        PROVE  \E j \in 1..Len(es) : i < j /\ es[j].e \in T
    <3>1. CASE i = 1
      <4>1. PICK j \in 1..Len(t) : t[j].e \in T
        BY <1>1, <2>3, <3>1 DEF Seen
      <4>2. j + 1 \in 1..Len(es) /\ es[j + 1].e \in T /\ 1 < j + 1
        BY <1>1, <4>1
      <4> QED BY <3>1, <4>2
    <3>2. CASE i # 1
      <4>1. i - 1 \in 1..Len(t) /\ t[i - 1].e \in S
        BY <1>1, <2>3, <3>2
      <4>2. PICK j \in 1..Len(t) : i - 1 < j /\ t[j].e \in T
        BY <2>3, <4>1 DEF Followed
      <4>3. j + 1 \in 1..Len(es) /\ es[j + 1].e \in T /\ i < j + 1
        BY <1>1, <4>2
      <4> QED BY <4>3
    <3> QED BY <3>1, <3>2
  <2> QED BY <2>1, <2>2, <2>3 DEF Followed
<1>3. FollowedBut(es, S, T) <=> (k \in S /\ t # Nothing => Seen(t, T)) /\ FollowedBut(t, S, T)
  <2>1. ASSUME FollowedBut(es, S, T), k \in S, t # Nothing PROVE Seen(t, T)
    <3>1. PICK j \in 1..Len(es) : 1 < j /\ es[j].e \in T
      BY <1>0, <1>1, <2>1 DEF FollowedBut
    <3>2. j - 1 \in 1..Len(t) /\ t[j - 1].e \in T
      BY <1>1, <3>1
    <3> QED BY <3>2 DEF Seen
  <2>2. ASSUME FollowedBut(es, S, T), NEW i \in 1..Len(t), i < Len(t), t[i].e \in S
        PROVE  \E j \in 1..Len(t) : i < j /\ t[j].e \in T
    <3>1. i + 1 \in 1..Len(es) /\ es[i + 1].e \in S /\ i + 1 < Len(es)
      BY <1>1, <2>2
    <3>2. PICK j \in 1..Len(es) : i + 1 < j /\ es[j].e \in T
      BY <2>2, <3>1 DEF FollowedBut
    <3>3. j - 1 \in 1..Len(t) /\ t[j - 1].e \in T /\ i < j - 1
      BY <1>1, <3>2
    <3> QED BY <3>3
  <2>3. ASSUME k \in S /\ t # Nothing => Seen(t, T), FollowedBut(t, S, T),
               NEW i \in 1..Len(es), i < Len(es), es[i].e \in S
        PROVE  \E j \in 1..Len(es) : i < j /\ es[j].e \in T
    <3>1. CASE i = 1
      <4>0. t # Nothing
        BY <1>0, <1>1, <2>3, <3>1
      <4>1. PICK j \in 1..Len(t) : t[j].e \in T
        BY <1>1, <2>3, <3>1, <4>0 DEF Seen
      <4>2. j + 1 \in 1..Len(es) /\ es[j + 1].e \in T /\ 1 < j + 1
        BY <1>1, <4>1
      <4> QED BY <3>1, <4>2
    <3>2. CASE i # 1
      <4>1. i - 1 \in 1..Len(t) /\ t[i - 1].e \in S /\ i - 1 < Len(t)
        BY <1>1, <2>3, <3>2
      <4>2. PICK j \in 1..Len(t) : i - 1 < j /\ t[j].e \in T
        BY <2>3, <4>1 DEF FollowedBut
      <4>3. j + 1 \in 1..Len(es) /\ es[j + 1].e \in T /\ i < j + 1
        BY <1>1, <4>2
      <4> QED BY <4>3
    <3> QED BY <3>1, <3>2
  <2> QED BY <2>1, <2>2, <2>3 DEF FollowedBut
<1>4. ASSUME NEW A, NEW B PROVE Preceded(es, A, B) <=> k \notin B /\ (k \in A \/ Preceded(t, A, B))
  <2>1. ASSUME Preceded(es, A, B), k \in B PROVE FALSE
    BY <1>1, <2>1 DEF Preceded
  <2>2. ASSUME Preceded(es, A, B), k \notin A, NEW j \in 1..Len(t), t[j].e \in B
        PROVE  \E i \in 1..Len(t) : i < j /\ t[i].e \in A
    <3>1. j + 1 \in 1..Len(es) /\ es[j + 1].e \in B
      BY <1>1, <2>2
    <3>2. PICK i \in 1..Len(es) : i < j + 1 /\ es[i].e \in A
      BY <2>2, <3>1 DEF Preceded
    <3>3. i # 1
      BY <1>1, <2>2, <3>2
    <3>4. i - 1 \in 1..Len(t) /\ t[i - 1].e \in A /\ i - 1 < j
      BY <1>1, <3>2, <3>3
    <3> QED BY <3>4
  <2>3. ASSUME k \notin B, k \in A \/ Preceded(t, A, B), NEW j \in 1..Len(es), es[j].e \in B
        PROVE  \E i \in 1..Len(es) : i < j /\ es[i].e \in A
    <3>1. j # 1
      BY <1>1, <2>3
    <3>2. j - 1 \in 1..Len(t) /\ t[j - 1].e \in B /\ 1 < j
      BY <1>1, <2>3, <3>1
    <3>3. CASE k \in A
      BY <1>1, <3>2, <3>3
    <3>4. CASE Preceded(t, A, B)
      <4>1. PICK i \in 1..Len(t) : i < j - 1 /\ t[i].e \in A
        BY <3>2, <3>4 DEF Preceded
      <4>2. i + 1 \in 1..Len(es) /\ es[i + 1].e \in A /\ i + 1 < j
        BY <1>1, <4>1
      <4> QED BY <4>2
    <3> QED BY <2>3, <3>3, <3>4
  <2> QED BY <2>1, <2>2, <2>3 DEF Preceded
<1>5. Between(es, S, M, T) <=> (k \in S => Preceded(t, M, T)) /\ Between(t, S, M, T)
  <2>1. ASSUME Between(es, S, M, T), k \in S, NEW j \in 1..Len(t), t[j].e \in T
        PROVE  \E i \in 1..Len(t) : i < j /\ t[i].e \in M
    <3>1. j + 1 \in 1..Len(es) /\ es[j + 1].e \in T /\ 1 < j + 1 /\ es[1].e \in S
      BY <1>1, <2>1
    <3>2. PICK i \in 1..Len(es) : 1 < i /\ i < j + 1 /\ es[i].e \in M
      BY <1>1, <2>1, <3>1 DEF Between
    <3>3. i - 1 \in 1..Len(t) /\ t[i - 1].e \in M /\ i - 1 < j
      BY <1>1, <3>2
    <3> QED BY <3>3
  <2>2. ASSUME Between(es, S, M, T), NEW i \in 1..Len(t), NEW j \in 1..Len(t), i < j,
               t[i].e \in S, t[j].e \in T
        PROVE  \E m \in 1..Len(t) : i < m /\ m < j /\ t[m].e \in M
    <3>1. i + 1 \in 1..Len(es) /\ j + 1 \in 1..Len(es) /\ i + 1 < j + 1 /\ es[i + 1].e \in S /\ es[j + 1].e \in T
      BY <1>1, <2>2
    <3>2. PICK m \in 1..Len(es) : i + 1 < m /\ m < j + 1 /\ es[m].e \in M
      BY <2>2, <3>1 DEF Between
    <3>3. m - 1 \in 1..Len(t) /\ t[m - 1].e \in M /\ i < m - 1 /\ m - 1 < j
      BY <1>1, <3>2
    <3> QED BY <3>3
  <2>3. ASSUME k \in S => Preceded(t, M, T), Between(t, S, M, T),
               NEW i \in 1..Len(es), NEW j \in 1..Len(es), i < j, es[i].e \in S, es[j].e \in T
        PROVE  \E m \in 1..Len(es) : i < m /\ m < j /\ es[m].e \in M
    <3>0. j - 1 \in 1..Len(t) /\ t[j - 1].e \in T
      BY <1>1, <2>3
    <3>1. CASE i = 1
      <4>1. PICK m \in 1..Len(t) : m < j - 1 /\ t[m].e \in M
        BY <1>1, <2>3, <3>0, <3>1 DEF Preceded
      <4>2. m + 1 \in 1..Len(es) /\ es[m + 1].e \in M /\ i < m + 1 /\ m + 1 < j
        BY <1>1, <3>1, <4>1
      <4> QED BY <4>2
    <3>2. CASE i # 1
      <4>1. i - 1 \in 1..Len(t) /\ t[i - 1].e \in S /\ i - 1 < j - 1
        BY <1>1, <2>3, <3>2
      <4>2. PICK m \in 1..Len(t) : i - 1 < m /\ m < j - 1 /\ t[m].e \in M
        BY <2>3, <3>0, <4>1 DEF Between
      <4>3. m + 1 \in 1..Len(es) /\ es[m + 1].e \in M /\ i < m + 1 /\ m + 1 < j
        BY <1>1, <4>2
      <4> QED BY <4>3
    <3> QED BY <3>1, <3>2
  <2> QED BY <2>1, <2>2, <2>3 DEF Between, Preceded
<1> QED BY <1>2, <1>3, <1>4, <1>5 DEF t, k

\* The rules for the last position, the last event and the first failure.
LEMMA EndsRead ==
  ASSUME NEW es \in Seq(Events), es # Nothing, NEW S, NEW p
  PROVE  LET k == Head(es).e
             t == Tail(es)
         IN /\ LastPos(es, p) <=> /\ k = "pos" /\ ~Seen(t, {"pos"}) => Head(es).at = p
                                  /\ LastPos(t, p)
            /\ LastIs(es, S) <=> IF t = Nothing THEN k \in S ELSE LastIs(t, S)
            /\ FailsFirst(es) <=> k = "fail" \/ (k # "restart" /\ FailsFirst(t))
<1> DEFINE k == Head(es).e
           t == Tail(es)
<1>1. /\ Head(es) = es[1] /\ 1 \in 1..Len(es) /\ Len(es) \in Nat /\ Len(t) \in Nat /\ Len(es) = Len(t) + 1
      /\ \A i \in 1..Len(t) : i + 1 \in 1..Len(es) /\ es[i + 1] = t[i]
      /\ \A i \in 1..Len(es) : i # 1 => i - 1 \in 1..Len(t) /\ t[i - 1] = es[i]
  BY PlacesOfTail
<1>0. t # Nothing <=> Len(t) > 0
  <2>1. t \in Seq(Events)
    BY PlacesOfTail
  <2> HIDE DEF t
  <2>2. (t = << >>) <=> (Len(t) = 0)
    BY <2>1, EmptySeq
  <2> QED BY <1>1, <2>2 DEF Nothing
<1> HIDE DEF t
<1>2. LastPos(es, p) <=> (k = "pos" /\ ~Seen(t, {"pos"}) => Head(es).at = p) /\ LastPos(t, p)
  <2>1. ASSUME LastPos(es, p), k = "pos", ~Seen(t, {"pos"}) PROVE Head(es).at = p
    <3>1. \A j \in 1..Len(es) : 1 < j => es[j].e # "pos"
      <4> SUFFICES ASSUME NEW j \in 1..Len(es), 1 < j, es[j].e = "pos" PROVE FALSE
        OBVIOUS
      <4>1. j - 1 \in 1..Len(t) /\ t[j - 1].e \in {"pos"}
        BY <1>1
      <4> QED BY <2>1, <4>1 DEF Seen
    <3> QED BY <1>1, <2>1, <3>1 DEF LastPos
  <2>2. ASSUME LastPos(es, p), NEW i \in 1..Len(t), t[i].e = "pos", \A j \in 1..Len(t) : i < j => t[j].e # "pos"
        PROVE  t[i].at = p
    <3>1. i + 1 \in 1..Len(es) /\ es[i + 1] = t[i]
      BY <1>1
    <3>2. ASSUME NEW j \in 1..Len(es), i + 1 < j, es[j].e = "pos" PROVE FALSE
      <4>1. j - 1 \in 1..Len(t) /\ t[j - 1].e = "pos" /\ i < j - 1
        BY <1>1, <3>2
      <4> QED BY <2>2, <4>1
    <3> QED BY <2>2, <3>1, <3>2 DEF LastPos
  <2>3. ASSUME k = "pos" /\ ~Seen(t, {"pos"}) => Head(es).at = p, LastPos(t, p),
               NEW i \in 1..Len(es), es[i].e = "pos", \A j \in 1..Len(es) : i < j => es[j].e # "pos"
        PROVE  es[i].at = p
    <3>1. CASE i = 1
      <4>1. ASSUME NEW j \in 1..Len(t), t[j].e = "pos" PROVE FALSE
        <5>1. j + 1 \in 1..Len(es) /\ es[j + 1].e = "pos" /\ i < j + 1
          BY <1>1, <3>1, <4>1
        <5> QED BY <2>3, <5>1
      <4>2. ~Seen(t, {"pos"})
        BY <4>1 DEF Seen
      <4> QED BY <1>1, <2>3, <3>1, <4>2
    <3>2. CASE i # 1
      <4>1. i - 1 \in 1..Len(t) /\ t[i - 1] = es[i]
        BY <1>1, <3>2
      <4>2. ASSUME NEW j \in 1..Len(t), i - 1 < j, t[j].e = "pos" PROVE FALSE
        <5>1. j + 1 \in 1..Len(es) /\ es[j + 1].e = "pos" /\ i < j + 1
          BY <1>1, <4>2
        <5> QED BY <2>3, <5>1
      <4> QED BY <2>3, <4>1, <4>2 DEF LastPos
    <3> QED BY <3>1, <3>2
  <2> QED BY <2>1, <2>2, <2>3 DEF LastPos
<1>3. LastIs(es, S) <=> IF t = Nothing THEN k \in S ELSE LastIs(t, S)
  <2>1. CASE t = Nothing
    <3>1. Len(es) = 1
      BY <1>0, <1>1, <2>1
    <3> QED BY <1>1, <2>1, <3>1 DEF LastIs
  <2>2. CASE t # Nothing
    <3>1. Len(t) \in 1..Len(t) /\ es[Len(es)] = t[Len(t)]
      BY <1>0, <1>1, <2>2
    <3> QED BY <2>2, <3>1 DEF LastIs
  <2> QED BY <2>1, <2>2
<1>4. FailsFirst(es) <=> k = "fail" \/ (k # "restart" /\ FailsFirst(t))
  <2>1. ASSUME k = "fail" PROVE FailsFirst(es)
    <3>1. \A j \in 1..Len(es) : ~(j < 1)
      BY <1>1
    <3> QED BY <1>1, <2>1, <3>1 DEF FailsFirst
  <2>2. ASSUME FailsFirst(es), k # "fail" PROVE k # "restart" /\ FailsFirst(t)
    <3>1. PICK i \in 1..Len(es) : es[i].e = "fail" /\ \A j \in 1..Len(es) : j < i => es[j].e # "restart"
      BY <2>2 DEF FailsFirst
    <3>2. i - 1 \in 1..Len(t) /\ t[i - 1].e = "fail" /\ 1 < i
      BY <1>1, <2>2, <3>1
    <3>3. k # "restart"
      BY <1>1, <3>1, <3>2
    <3>4. ASSUME NEW j \in 1..Len(t), j < i - 1 PROVE t[j].e # "restart"
      <4>1. j + 1 \in 1..Len(es) /\ es[j + 1] = t[j] /\ j + 1 < i
        BY <1>1, <3>4
      <4> QED BY <3>1, <4>1
    <3> QED BY <3>2, <3>3, <3>4 DEF FailsFirst
  <2>3. ASSUME k # "restart", FailsFirst(t) PROVE FailsFirst(es)
    <3>1. PICK i \in 1..Len(t) : t[i].e = "fail" /\ \A j \in 1..Len(t) : j < i => t[j].e # "restart"
      BY <2>3 DEF FailsFirst
    <3>2. i + 1 \in 1..Len(es) /\ es[i + 1].e = "fail"
      BY <1>1, <3>1
    <3>3. ASSUME NEW j \in 1..Len(es), j < i + 1 PROVE es[j].e # "restart"
      <4>1. CASE j = 1
        BY <1>1, <2>3, <4>1
      <4>2. CASE j # 1
        <5>1. j - 1 \in 1..Len(t) /\ t[j - 1] = es[j] /\ j - 1 < i
          BY <1>1, <3>3, <4>2
        <5> QED BY <3>1, <5>1
      <4> QED BY <4>1, <4>2
    <3> QED BY <3>2, <3>3 DEF FailsFirst
  <2> QED BY <2>1, <2>2, <2>3
<1> QED BY <1>2, <1>3, <1>4 DEF t, k

\* Nothing is said of no events.
LEMMA NothingRules ==
  ASSUME NEW S, NEW T, NEW U, NEW V, NEW p
  PROVE  /\ ~Seen(Nothing, S) /\ ~Then(Nothing, S, T) /\ ~Then3(Nothing, S, T, U)
         /\ ~Then4(Nothing, S, T, U, V)
         /\ Followed(Nothing, S, T) /\ FollowedBut(Nothing, S, T) /\ Preceded(Nothing, S, T)
         /\ Between(Nothing, S, T, U)
         /\ LastPos(Nothing, p) /\ ~LastIs(Nothing, S) /\ ~FailsFirst(Nothing)
<1>1. Len(Nothing) = 0
  BY DEF Nothing
<1>2. 1..Len(Nothing) = {}
  BY <1>1
<1>3. Nothing = Nothing
  OBVIOUS
<1> HIDE DEF Nothing
<1>4. ~Seen(Nothing, S) /\ ~Then(Nothing, S, T) /\ ~Then3(Nothing, S, T, U) /\ ~Then4(Nothing, S, T, U, V)
  BY <1>2 DEF Seen, Then, Then3, Then4
<1>5. /\ Followed(Nothing, S, T) /\ FollowedBut(Nothing, S, T) /\ Preceded(Nothing, S, T)
      /\ Between(Nothing, S, T, U)
  BY <1>2 DEF Followed, FollowedBut, Preceded, Between
<1>6. LastPos(Nothing, p) /\ ~LastIs(Nothing, S) /\ ~FailsFirst(Nothing)
  BY <1>2 DEF LastPos, LastIs, FailsFirst
<1> QED BY <1>4, <1>5, <1>6

\* What is seen, in order, of events with one more behind them.
LEMMA SeenAppends ==
  ASSUME NEW es \in Seq(Events), NEW a \in Events, NEW S, NEW T, NEW U, NEW V
  PROVE  LET t == Append(es, a)
             k == a.e
         IN /\ Seen(t, S) <=> Seen(es, S) \/ k \in S
            /\ Then(t, S, T) <=> Then(es, S, T) \/ (Seen(es, S) /\ k \in T)
            /\ Then3(t, S, T, U) <=> Then3(es, S, T, U) \/ (Then(es, S, T) /\ k \in U)
            /\ Then4(t, S, T, U, V) <=> Then4(es, S, T, U, V) \/ (Then3(es, S, T, U) /\ k \in V)
<1> DEFINE t == Append(es, a)
           n == Len(es) + 1
           k == a.e
<1>1. /\ Len(es) \in Nat /\ Len(t) = n /\ t[n] = a /\ n \in 1..Len(t)
      /\ \A i \in 1..Len(es) : i \in 1..Len(t) /\ t[i] = es[i] /\ i < n
      /\ \A i \in 1..Len(t) : i = n \/ i \in 1..Len(es)
  BY PlacesOfAppend
<1>2. \A i, j \in 1..Len(t) : i < j => i \in 1..Len(es)
  BY <1>1
<1> HIDE DEF t, n
<1>3. Seen(t, S) <=> Seen(es, S) \/ k \in S
  BY <1>1 DEF Seen
<1>4. Then(t, S, T) <=> Then(es, S, T) \/ (Seen(es, S) /\ k \in T)
  <2>1. ASSUME Then(t, S, T) PROVE Then(es, S, T) \/ (Seen(es, S) /\ k \in T)
    <3>1. PICK i, j \in 1..Len(t) : i < j /\ t[i].e \in S /\ t[j].e \in T
      BY <2>1 DEF Then
    <3>2. i \in 1..Len(es) /\ es[i].e \in S
      BY <1>1, <1>2, <3>1
    <3> QED BY <1>1, <3>1, <3>2 DEF Then, Seen
  <2>2. ASSUME Then(es, S, T) PROVE Then(t, S, T)
    BY <1>1, <2>2 DEF Then
  <2>3. ASSUME Seen(es, S), k \in T PROVE Then(t, S, T)
    BY <1>1, <2>3 DEF Then, Seen
  <2> QED BY <2>1, <2>2, <2>3
<1>5. Then3(t, S, T, U) <=> Then3(es, S, T, U) \/ (Then(es, S, T) /\ k \in U)
  <2>1. ASSUME Then3(t, S, T, U) PROVE Then3(es, S, T, U) \/ (Then(es, S, T) /\ k \in U)
    <3>1. PICK h, i, j \in 1..Len(t) : h < i /\ i < j /\ t[h].e \in S /\ t[i].e \in T /\ t[j].e \in U
      BY <2>1 DEF Then3
    <3>2. h \in 1..Len(es) /\ es[h].e \in S /\ i \in 1..Len(es) /\ es[i].e \in T
      BY <1>1, <1>2, <3>1
    <3> QED BY <1>1, <3>1, <3>2 DEF Then, Then3
  <2>2. ASSUME Then3(es, S, T, U) PROVE Then3(t, S, T, U)
    BY <1>1, <2>2 DEF Then3
  <2>3. ASSUME Then(es, S, T), k \in U PROVE Then3(t, S, T, U)
    <3>1. PICK h, i \in 1..Len(es) : h < i /\ es[h].e \in S /\ es[i].e \in T
      BY <2>3 DEF Then
    <3>2. h \in 1..Len(t) /\ t[h].e \in S /\ i \in 1..Len(t) /\ t[i].e \in T /\ i < n
      BY <1>1, <3>1
    <3> QED BY <1>1, <2>3, <3>1, <3>2 DEF Then3
  <2> QED BY <2>1, <2>2, <2>3
<1>6. Then4(t, S, T, U, V) <=> Then4(es, S, T, U, V) \/ (Then3(es, S, T, U) /\ k \in V)
  <2>1. ASSUME Then4(t, S, T, U, V) PROVE Then4(es, S, T, U, V) \/ (Then3(es, S, T, U) /\ k \in V)
    <3>1. PICK g, h, i, j \in 1..Len(t) :
            g < h /\ h < i /\ i < j /\ t[g].e \in S /\ t[h].e \in T /\ t[i].e \in U /\ t[j].e \in V
      BY <2>1 DEF Then4
    <3>2. /\ g \in 1..Len(es) /\ es[g].e \in S
          /\ h \in 1..Len(es) /\ es[h].e \in T
          /\ i \in 1..Len(es) /\ es[i].e \in U
      BY <1>1, <1>2, <3>1
    <3> QED BY <1>1, <3>1, <3>2 DEF Then3, Then4
  <2>2. ASSUME Then4(es, S, T, U, V) PROVE Then4(t, S, T, U, V)
    <3>1. PICK g, h, i, j \in 1..Len(es) :
            g < h /\ h < i /\ i < j /\ es[g].e \in S /\ es[h].e \in T /\ es[i].e \in U /\ es[j].e \in V
      BY <2>2 DEF Then4
    <3> QED BY <1>1, <3>1 DEF Then4
  <2>3. ASSUME Then3(es, S, T, U), k \in V PROVE Then4(t, S, T, U, V)
    <3>1. PICK g, h, i \in 1..Len(es) : g < h /\ h < i /\ es[g].e \in S /\ es[h].e \in T /\ es[i].e \in U
      BY <2>3 DEF Then3
    <3>2. /\ g \in 1..Len(t) /\ t[g].e \in S /\ h \in 1..Len(t) /\ t[h].e \in T
          /\ i \in 1..Len(t) /\ t[i].e \in U /\ i < n
      BY <1>1, <3>1
    <3> QED BY <1>1, <2>3, <3>1, <3>2 DEF Then4
  <2> QED BY <2>1, <2>2, <2>3
<1> QED BY <1>3, <1>4, <1>5, <1>6 DEF t, k

\* The rules, with one more event behind.
LEMMA RulesAppend ==
  ASSUME NEW es \in Seq(Events), NEW a \in Events, NEW S, NEW T, NEW M, NEW p
  PROVE  LET t == Append(es, a)
             k == a.e
         IN /\ Followed(t, S, T) <=> k \notin S /\ (k \in T \/ Followed(es, S, T))
            /\ FollowedBut(t, S, T) <=> k \in T \/ Followed(es, S, T)
            /\ Preceded(t, S, T) <=> Preceded(es, S, T) /\ (k \in T => Seen(es, S))
            /\ Between(t, S, M, T) <=> Between(es, S, M, T) /\ (k \in T => Followed(es, S, M))
            /\ LastPos(t, p) <=> IF k = "pos" THEN a.at = p ELSE LastPos(es, p)
            /\ LastIs(t, S) <=> k \in S
            /\ FailsFirst(t) <=> FailsFirst(es) \/ (k = "fail" /\ ~Seen(es, {"restart"}))
<1> DEFINE t == Append(es, a)
           n == Len(es) + 1
           k == a.e
<1>1. /\ Len(es) \in Nat /\ Len(t) = n /\ t[n] = a /\ n \in 1..Len(t)
      /\ \A i \in 1..Len(es) : i \in 1..Len(t) /\ t[i] = es[i] /\ i < n
      /\ \A i \in 1..Len(t) : i = n \/ i \in 1..Len(es)
  BY PlacesOfAppend
<1>2. \A i, j \in 1..Len(t) : i < j => i \in 1..Len(es)
  BY <1>1
<1>0. t # Nothing
  BY PlacesOfAppend
<1> HIDE DEF t, n
<1>3. Followed(t, S, T) <=> k \notin S /\ (k \in T \/ Followed(es, S, T))
  <2>1. ASSUME Followed(t, S, T), k \in S PROVE FALSE
    <3>1. PICK j \in 1..Len(t) : n < j
      BY <1>1, <2>1 DEF Followed
    <3> QED BY <1>1, <1>2, <3>1
  <2>2. ASSUME Followed(t, S, T), k \notin T PROVE Followed(es, S, T)
    <3> SUFFICES ASSUME NEW i \in 1..Len(es), es[i].e \in S PROVE \E j \in 1..Len(es) : i < j /\ es[j].e \in T
      BY DEF Followed
    <3>1. PICK j \in 1..Len(t) : i < j /\ t[j].e \in T
      BY <1>1, <2>2 DEF Followed
    <3>2. j # n
      BY <1>1, <2>2, <3>1
    <3> QED BY <1>1, <3>1, <3>2
  <2>3. ASSUME k \notin S, k \in T PROVE Followed(t, S, T)
    BY <1>1, <2>3 DEF Followed
  <2>4. ASSUME k \notin S, Followed(es, S, T) PROVE Followed(t, S, T)
    <3> SUFFICES ASSUME NEW i \in 1..Len(t), t[i].e \in S PROVE \E j \in 1..Len(t) : i < j /\ t[j].e \in T
      BY DEF Followed
    <3>1. i \in 1..Len(es) /\ es[i].e \in S
      BY <1>1, <2>4
    <3>2. PICK j \in 1..Len(es) : i < j /\ es[j].e \in T
      BY <2>4, <3>1 DEF Followed
    <3> QED BY <1>1, <3>2
  <2> QED BY <2>1, <2>2, <2>3, <2>4
<1>4. FollowedBut(t, S, T) <=> k \in T \/ Followed(es, S, T)
  <2>1. ASSUME FollowedBut(t, S, T), k \notin T PROVE Followed(es, S, T)
    <3> SUFFICES ASSUME NEW i \in 1..Len(es), es[i].e \in S PROVE \E j \in 1..Len(es) : i < j /\ es[j].e \in T
      BY DEF Followed
    <3>1. i \in 1..Len(t) /\ i < Len(t) /\ t[i].e \in S
      BY <1>1
    <3>2. PICK j \in 1..Len(t) : i < j /\ t[j].e \in T
      BY <2>1, <3>1 DEF FollowedBut
    <3>3. j # n
      BY <1>1, <2>1, <3>2
    <3> QED BY <1>1, <3>2, <3>3
  <2>2. ASSUME k \in T PROVE FollowedBut(t, S, T)
    <3> SUFFICES ASSUME NEW i \in 1..Len(t), i < Len(t) PROVE \E j \in 1..Len(t) : i < j /\ t[j].e \in T
      BY DEF FollowedBut
    <3> QED BY <1>1, <2>2
  <2>3. ASSUME Followed(es, S, T) PROVE FollowedBut(t, S, T)
    <3> SUFFICES ASSUME NEW i \in 1..Len(t), i < Len(t), t[i].e \in S PROVE \E j \in 1..Len(t) : i < j /\ t[j].e \in T
      BY DEF FollowedBut
    <3>1. i \in 1..Len(es) /\ es[i].e \in S
      BY <1>1
    <3>2. PICK j \in 1..Len(es) : i < j /\ es[j].e \in T
      BY <2>3, <3>1 DEF Followed
    <3> QED BY <1>1, <3>2
  <2> QED BY <2>1, <2>2, <2>3
<1>5. Preceded(t, S, T) <=> Preceded(es, S, T) /\ (k \in T => Seen(es, S))
  <2>1. ASSUME Preceded(t, S, T), NEW j \in 1..Len(es), es[j].e \in T
        PROVE  \E i \in 1..Len(es) : i < j /\ es[i].e \in S
    <3>1. PICK i \in 1..Len(t) : i < j /\ t[i].e \in S
      BY <1>1, <2>1 DEF Preceded
    <3> QED BY <1>1, <1>2, <3>1
  <2>2. ASSUME Preceded(t, S, T), k \in T PROVE Seen(es, S)
    <3>1. PICK i \in 1..Len(t) : i < n /\ t[i].e \in S
      BY <1>1, <2>2 DEF Preceded
    <3> QED BY <1>1, <1>2, <3>1 DEF Seen
  <2>3. ASSUME Preceded(es, S, T), k \in T => Seen(es, S), NEW j \in 1..Len(t), t[j].e \in T
        PROVE  \E i \in 1..Len(t) : i < j /\ t[i].e \in S
    <3>1. CASE j = n
      BY <1>1, <2>3, <3>1 DEF Seen
    <3>2. CASE j # n
      <4>1. j \in 1..Len(es) /\ es[j].e \in T
        BY <1>1, <2>3, <3>2
      <4> QED BY <1>1, <2>3, <4>1 DEF Preceded
    <3> QED BY <3>1, <3>2
  <2> QED BY <2>1, <2>2, <2>3 DEF Preceded
<1>6. Between(t, S, M, T) <=> Between(es, S, M, T) /\ (k \in T => Followed(es, S, M))
  <2>1. ASSUME Between(t, S, M, T), NEW i \in 1..Len(es), NEW j \in 1..Len(es), i < j, es[i].e \in S, es[j].e \in T
        PROVE  \E m \in 1..Len(es) : i < m /\ m < j /\ es[m].e \in M
    <3>1. PICK m \in 1..Len(t) : i < m /\ m < j /\ t[m].e \in M
      BY <1>1, <2>1 DEF Between
    <3> QED BY <1>1, <1>2, <3>1
  <2>2. ASSUME Between(t, S, M, T), k \in T, NEW i \in 1..Len(es), es[i].e \in S
        PROVE  \E m \in 1..Len(es) : i < m /\ es[m].e \in M
    <3>1. PICK m \in 1..Len(t) : i < m /\ m < n /\ t[m].e \in M
      BY <1>1, <2>2 DEF Between
    <3> QED BY <1>1, <1>2, <3>1
  <2>3. ASSUME Between(es, S, M, T), k \in T => Followed(es, S, M),
               NEW i \in 1..Len(t), NEW j \in 1..Len(t), i < j, t[i].e \in S, t[j].e \in T
        PROVE  \E m \in 1..Len(t) : i < m /\ m < j /\ t[m].e \in M
    <3>0. i \in 1..Len(es) /\ es[i].e \in S
      BY <1>1, <1>2, <2>3
    <3>1. CASE j = n
      <4>1. PICK m \in 1..Len(es) : i < m /\ es[m].e \in M
        BY <1>1, <2>3, <3>0, <3>1 DEF Followed
      <4> QED BY <1>1, <3>1, <4>1
    <3>2. CASE j # n
      <4>1. j \in 1..Len(es) /\ es[j].e \in T
        BY <1>1, <2>3, <3>2
      <4>2. PICK m \in 1..Len(es) : i < m /\ m < j /\ es[m].e \in M
        BY <2>3, <3>0, <4>1 DEF Between
      <4> QED BY <1>1, <4>2
    <3> QED BY <3>1, <3>2
  <2> QED BY <2>1, <2>2, <2>3 DEF Between, Followed
<1>7. LastPos(t, p) <=> IF k = "pos" THEN a.at = p ELSE LastPos(es, p)
  <2>1. CASE k = "pos"
    <3>1. \A j \in 1..Len(t) : ~(n < j)
      BY <1>1
    <3>2. LastPos(t, p) => a.at = p
      BY <1>1, <2>1, <3>1 DEF LastPos
    <3>3. \A i \in 1..Len(t) : (\A j \in 1..Len(t) : i < j => t[j].e # "pos") => i = n
      BY <1>1, <2>1
    <3>4. a.at = p => LastPos(t, p)
      BY <1>1, <3>3 DEF LastPos
    <3> QED BY <2>1, <3>2, <3>4
  <2>2. CASE k # "pos"
    <3>1. ASSUME LastPos(t, p), NEW i \in 1..Len(es), es[i].e = "pos",
                 \A j \in 1..Len(es) : i < j => es[j].e # "pos"
          PROVE  es[i].at = p
      <4>1. \A j \in 1..Len(t) : i < j => t[j].e # "pos"
        BY <1>1, <2>2, <3>1
      <4> QED BY <1>1, <3>1, <4>1 DEF LastPos
    <3>2. ASSUME LastPos(es, p), NEW i \in 1..Len(t), t[i].e = "pos",
                 \A j \in 1..Len(t) : i < j => t[j].e # "pos"
          PROVE  t[i].at = p
      <4>1. i \in 1..Len(es) /\ es[i] = t[i]
        BY <1>1, <2>2, <3>2
      <4>2. \A j \in 1..Len(es) : i < j => es[j].e # "pos"
        BY <1>1, <3>2
      <4> QED BY <3>2, <4>1, <4>2 DEF LastPos
    <3> QED BY <2>2, <3>1, <3>2 DEF LastPos
  <2> QED BY <2>1, <2>2
<1>8. LastIs(t, S) <=> k \in S
  BY <1>0, <1>1 DEF LastIs
<1>9. FailsFirst(t) <=> FailsFirst(es) \/ (k = "fail" /\ ~Seen(es, {"restart"}))
  <2>1. ASSUME FailsFirst(t) PROVE FailsFirst(es) \/ (k = "fail" /\ ~Seen(es, {"restart"}))
    <3>1. PICK i \in 1..Len(t) : t[i].e = "fail" /\ \A j \in 1..Len(t) : j < i => t[j].e # "restart"
      BY <2>1 DEF FailsFirst
    <3>2. CASE i = n
      BY <1>1, <3>1, <3>2 DEF Seen
    <3>3. CASE i # n
      <4>1. i \in 1..Len(es) /\ es[i].e = "fail"
        BY <1>1, <3>1, <3>3
      <4>2. \A j \in 1..Len(es) : j < i => es[j].e # "restart"
        BY <1>1, <3>1
      <4> QED BY <4>1, <4>2 DEF FailsFirst
    <3> QED BY <3>2, <3>3
  <2>2. ASSUME FailsFirst(es) PROVE FailsFirst(t)
    <3>1. PICK i \in 1..Len(es) : es[i].e = "fail" /\ \A j \in 1..Len(es) : j < i => es[j].e # "restart"
      BY <2>2 DEF FailsFirst
    <3>2. i \in 1..Len(t) /\ t[i].e = "fail"
      BY <1>1, <3>1
    <3>3. ASSUME NEW j \in 1..Len(t), j < i PROVE t[j].e # "restart"
      <4>1. j \in 1..Len(es) /\ t[j] = es[j]
        BY <1>1, <1>2, <3>2, <3>3
      <4> QED BY <3>1, <3>3, <4>1
    <3> QED BY <3>2, <3>3 DEF FailsFirst
  <2>3. ASSUME k = "fail", ~Seen(es, {"restart"}) PROVE FailsFirst(t)
    <3>1. ASSUME NEW j \in 1..Len(t), j < n PROVE t[j].e # "restart"
      <4>1. j \in 1..Len(es) /\ t[j] = es[j]
        BY <1>1, <1>2, <3>1
      <4> QED BY <2>3, <4>1 DEF Seen
    <3> QED BY <1>1, <2>3, <3>1 DEF FailsFirst
  <2> QED BY <2>1, <2>2, <2>3
<1> QED BY <1>3, <1>4, <1>5, <1>6, <1>7, <1>8, <1>9 DEF t, k

\* Which kinds are which.
LEMMA KindsAre ==
  ASSUME NEW k
  PROVE  /\ k \in Ends <=> k = "eof" \/ k = "stop"
         /\ k \in Leaves <=> k = "eof" \/ k = "stop" \/ k = "fail"
         /\ k \in Past <=> k = "eof" \/ k = "fail"
         /\ k \in Settles <=> k = "restart" \/ k = "fail"
         /\ k \in Starts <=> k = "restart"
         /\ k \in Moves <=> k = "pos"
         /\ k \in Stops <=> k = "stop"
         /\ k \in Fails <=> k = "fail"
         /\ k \in Eofs <=> k = "eof"
         /\ k \in Outs <=> k = "quit" \/ k = "exit" \/ k = "shutdown"
BY DEF Ends, Leaves, Past, Settles, Starts, Moves, Stops, Fails, Eofs, Outs

\* What unread events say once the first is read.
LEMMA EventRead ==
  ASSUME NEW es \in Seq(Events), es # Nothing
  PROVE  LET k == Head(es).e
             t == Tail(es)
         IN
         /\ Seen(es, Starts) <=> k \in Starts \/ Seen(t, Starts)
         /\ Seen(es, Moves) <=> k \in Moves \/ Seen(t, Moves)
         /\ Seen(es, Stops) <=> k \in Stops \/ Seen(t, Stops)
         /\ Seen(es, Ends) <=> k \in Ends \/ Seen(t, Ends)
         /\ Seen(es, Past) <=> k \in Past \/ Seen(t, Past)
         /\ Seen(es, Leaves) <=> k \in Leaves \/ Seen(t, Leaves)
         /\ Seen(es, Outs) <=> k \in Outs \/ Seen(t, Outs)
         /\ Seen(es, Settles) <=> k \in Settles \/ Seen(t, Settles)
         /\ Then(es, Ends, Moves) <=> (k \in Ends /\ Seen(t, Moves)) \/ Then(t, Ends, Moves)
         /\ Then(es, Leaves, Moves) <=> (k \in Leaves /\ Seen(t, Moves)) \/ Then(t, Leaves, Moves)
         /\ Then(es, Ends, Stops) <=> (k \in Ends /\ Seen(t, Stops)) \/ Then(t, Ends, Stops)
         /\ Then(es, Past, Moves) <=> (k \in Past /\ Seen(t, Moves)) \/ Then(t, Past, Moves)
         /\ Then(es, Settles, Moves) <=> (k \in Settles /\ Seen(t, Moves)) \/ Then(t, Settles, Moves)
         /\ Then(es, Ends, Past) <=> (k \in Ends /\ Seen(t, Past)) \/ Then(t, Ends, Past)
         /\ Then(es, Ends, Leaves) <=> (k \in Ends /\ Seen(t, Leaves)) \/ Then(t, Ends, Leaves)
         /\ Then(es, Leaves, Past) <=> (k \in Leaves /\ Seen(t, Past)) \/ Then(t, Leaves, Past)
         /\ Then3(es, Ends, Leaves, Moves) <=>
              (k \in Ends /\ Then(t, Leaves, Moves)) \/ Then3(t, Ends, Leaves, Moves)
         /\ Then3(es, Ends, Past, Moves) <=>
              (k \in Ends /\ Then(t, Past, Moves)) \/ Then3(t, Ends, Past, Moves)
         /\ Then3(es, Leaves, Past, Moves) <=>
              (k \in Leaves /\ Then(t, Past, Moves)) \/ Then3(t, Leaves, Past, Moves)
         /\ Then3(es, Ends, Leaves, Past) <=>
              (k \in Ends /\ Then(t, Leaves, Past)) \/ Then3(t, Ends, Leaves, Past)
         /\ Then4(es, Ends, Leaves, Past, Moves) <=>
              (k \in Ends /\ Then3(t, Leaves, Past, Moves)) \/ Then4(t, Ends, Leaves, Past, Moves)
         /\ Followed(es, Starts, Ends) <=> (k \in Starts => Seen(t, Ends)) /\ Followed(t, Starts, Ends)
         /\ Followed(es, Leaves, Starts) <=> (k \in Leaves => Seen(t, Starts)) /\ Followed(t, Leaves, Starts)
         /\ Followed(es, Past, Moves) <=> (k \in Past => Seen(t, Moves)) /\ Followed(t, Past, Moves)
         /\ FollowedBut(es, Past, Moves) <=>
              (k \in Past /\ t # Nothing => Seen(t, Moves)) /\ FollowedBut(t, Past, Moves)
         /\ Preceded(es, Ends, Fails) <=> k \notin Fails /\ (k \in Ends \/ Preceded(t, Ends, Fails))
         /\ Preceded(es, Starts, Eofs) <=> k \notin Eofs /\ (k \in Starts \/ Preceded(t, Starts, Eofs))
         /\ Between(es, Starts, Ends, Fails) <=>
              (k \in Starts => Preceded(t, Ends, Fails)) /\ Between(t, Starts, Ends, Fails)
         /\ Between(es, Leaves, Starts, Eofs) <=>
              (k \in Leaves => Preceded(t, Starts, Eofs)) /\ Between(t, Leaves, Starts, Eofs)
         /\ \A p : LastPos(es, p) <=> (k = "pos" /\ ~Seen(t, Moves) => Head(es).at = p) /\ LastPos(t, p)
         /\ LastIs(es, Past) <=> IF t = Nothing THEN k \in Past ELSE LastIs(t, Past)
         /\ FailsFirst(es) <=> k = "fail" \/ (k # "restart" /\ FailsFirst(t))
<1> DEFINE k == Head(es).e
           t == Tail(es)
<1> HIDE DEF k, t
<1>1. /\ Seen(es, Starts) <=> k \in Starts \/ Seen(t, Starts)
      /\ Seen(es, Moves) <=> k \in Moves \/ Seen(t, Moves)
      /\ Seen(es, Stops) <=> k \in Stops \/ Seen(t, Stops)
      /\ Seen(es, Ends) <=> k \in Ends \/ Seen(t, Ends)
      /\ Seen(es, Past) <=> k \in Past \/ Seen(t, Past)
      /\ Seen(es, Leaves) <=> k \in Leaves \/ Seen(t, Leaves)
      /\ Seen(es, Outs) <=> k \in Outs \/ Seen(t, Outs)
      /\ Seen(es, Settles) <=> k \in Settles \/ Seen(t, Settles)
  BY SeenReads DEF k, t
<1>2. /\ Then(es, Ends, Moves) <=> (k \in Ends /\ Seen(t, Moves)) \/ Then(t, Ends, Moves)
      /\ Then(es, Leaves, Moves) <=> (k \in Leaves /\ Seen(t, Moves)) \/ Then(t, Leaves, Moves)
      /\ Then(es, Ends, Stops) <=> (k \in Ends /\ Seen(t, Stops)) \/ Then(t, Ends, Stops)
      /\ Then(es, Past, Moves) <=> (k \in Past /\ Seen(t, Moves)) \/ Then(t, Past, Moves)
      /\ Then(es, Settles, Moves) <=> (k \in Settles /\ Seen(t, Moves)) \/ Then(t, Settles, Moves)
      /\ Then(es, Ends, Past) <=> (k \in Ends /\ Seen(t, Past)) \/ Then(t, Ends, Past)
      /\ Then(es, Ends, Leaves) <=> (k \in Ends /\ Seen(t, Leaves)) \/ Then(t, Ends, Leaves)
      /\ Then(es, Leaves, Past) <=> (k \in Leaves /\ Seen(t, Past)) \/ Then(t, Leaves, Past)
  BY ThenReads DEF k, t
<1>3. /\ Then3(es, Ends, Leaves, Moves) <=>
           (k \in Ends /\ Then(t, Leaves, Moves)) \/ Then3(t, Ends, Leaves, Moves)
      /\ Then3(es, Ends, Past, Moves) <=> (k \in Ends /\ Then(t, Past, Moves)) \/ Then3(t, Ends, Past, Moves)
      /\ Then3(es, Leaves, Past, Moves) <=>
           (k \in Leaves /\ Then(t, Past, Moves)) \/ Then3(t, Leaves, Past, Moves)
      /\ Then3(es, Ends, Leaves, Past) <=>
           (k \in Ends /\ Then(t, Leaves, Past)) \/ Then3(t, Ends, Leaves, Past)
  BY Then3Reads DEF k, t
<1>4. /\ Then4(es, Ends, Leaves, Past, Moves) <=>
           (k \in Ends /\ Then3(t, Leaves, Past, Moves)) \/ Then4(t, Ends, Leaves, Past, Moves)
  BY Then4Reads DEF k, t
<1>5. /\ Followed(es, Starts, Ends) <=> (k \in Starts => Seen(t, Ends)) /\ Followed(t, Starts, Ends)
      /\ Followed(es, Leaves, Starts) <=> (k \in Leaves => Seen(t, Starts)) /\ Followed(t, Leaves, Starts)
      /\ Followed(es, Past, Moves) <=> (k \in Past => Seen(t, Moves)) /\ Followed(t, Past, Moves)
  BY RulesRead DEF k, t
<1>6. /\ FollowedBut(es, Past, Moves) <=>
           (k \in Past /\ t # Nothing => Seen(t, Moves)) /\ FollowedBut(t, Past, Moves)
  BY RulesRead DEF k, t
<1>7. /\ Preceded(es, Ends, Fails) <=> k \notin Fails /\ (k \in Ends \/ Preceded(t, Ends, Fails))
      /\ Preceded(es, Starts, Eofs) <=> k \notin Eofs /\ (k \in Starts \/ Preceded(t, Starts, Eofs))
  BY RulesRead DEF k, t
<1>8. /\ Between(es, Starts, Ends, Fails) <=>
           (k \in Starts => Preceded(t, Ends, Fails)) /\ Between(t, Starts, Ends, Fails)
      /\ Between(es, Leaves, Starts, Eofs) <=>
           (k \in Leaves => Preceded(t, Starts, Eofs)) /\ Between(t, Leaves, Starts, Eofs)
  BY RulesRead DEF k, t
<1>9. /\ \A p : LastPos(es, p) <=> (k = "pos" /\ ~Seen(t, Moves) => Head(es).at = p) /\ LastPos(t, p)
      /\ LastIs(es, Past) <=> IF t = Nothing THEN k \in Past ELSE LastIs(t, Past)
      /\ FailsFirst(es) <=> k = "fail" \/ (k # "restart" /\ FailsFirst(t))
  BY EndsRead DEF k, t, Moves
<1> QED BY <1>1, <1>2, <1>3, <1>4, <1>5, <1>6, <1>7, <1>8, <1>9 DEF k, t

\* What unread events say once there is one more.
LEMMA EventSent ==
  ASSUME NEW es \in Seq(Events), NEW a \in Events
  PROVE  LET k == a.e
             t == Append(es, a)
         IN
         /\ Seen(t, Starts) <=> Seen(es, Starts) \/ k \in Starts
         /\ Seen(t, Moves) <=> Seen(es, Moves) \/ k \in Moves
         /\ Seen(t, Stops) <=> Seen(es, Stops) \/ k \in Stops
         /\ Seen(t, Ends) <=> Seen(es, Ends) \/ k \in Ends
         /\ Seen(t, Past) <=> Seen(es, Past) \/ k \in Past
         /\ Seen(t, Leaves) <=> Seen(es, Leaves) \/ k \in Leaves
         /\ Seen(t, Outs) <=> Seen(es, Outs) \/ k \in Outs
         /\ Seen(t, Settles) <=> Seen(es, Settles) \/ k \in Settles
         /\ Then(t, Ends, Moves) <=> Then(es, Ends, Moves) \/ (Seen(es, Ends) /\ k \in Moves)
         /\ Then(t, Leaves, Moves) <=> Then(es, Leaves, Moves) \/ (Seen(es, Leaves) /\ k \in Moves)
         /\ Then(t, Ends, Stops) <=> Then(es, Ends, Stops) \/ (Seen(es, Ends) /\ k \in Stops)
         /\ Then(t, Past, Moves) <=> Then(es, Past, Moves) \/ (Seen(es, Past) /\ k \in Moves)
         /\ Then(t, Settles, Moves) <=> Then(es, Settles, Moves) \/ (Seen(es, Settles) /\ k \in Moves)
         /\ Then(t, Ends, Past) <=> Then(es, Ends, Past) \/ (Seen(es, Ends) /\ k \in Past)
         /\ Then(t, Ends, Leaves) <=> Then(es, Ends, Leaves) \/ (Seen(es, Ends) /\ k \in Leaves)
         /\ Then(t, Leaves, Past) <=> Then(es, Leaves, Past) \/ (Seen(es, Leaves) /\ k \in Past)
         /\ Then3(t, Ends, Leaves, Moves) <=>
              Then3(es, Ends, Leaves, Moves) \/ (Then(es, Ends, Leaves) /\ k \in Moves)
         /\ Then3(t, Ends, Past, Moves) <=>
              Then3(es, Ends, Past, Moves) \/ (Then(es, Ends, Past) /\ k \in Moves)
         /\ Then3(t, Leaves, Past, Moves) <=>
              Then3(es, Leaves, Past, Moves) \/ (Then(es, Leaves, Past) /\ k \in Moves)
         /\ Then3(t, Ends, Leaves, Past) <=>
              Then3(es, Ends, Leaves, Past) \/ (Then(es, Ends, Leaves) /\ k \in Past)
         /\ Then4(t, Ends, Leaves, Past, Moves) <=>
              Then4(es, Ends, Leaves, Past, Moves) \/ (Then3(es, Ends, Leaves, Past) /\ k \in Moves)
         /\ Followed(t, Starts, Ends) <=> k \notin Starts /\ (k \in Ends \/ Followed(es, Starts, Ends))
         /\ Followed(t, Leaves, Starts) <=> k \notin Leaves /\ (k \in Starts \/ Followed(es, Leaves, Starts))
         /\ Followed(t, Past, Moves) <=> k \notin Past /\ (k \in Moves \/ Followed(es, Past, Moves))
         /\ FollowedBut(t, Past, Moves) <=> k \in Moves \/ Followed(es, Past, Moves)
         /\ Preceded(t, Ends, Fails) <=> Preceded(es, Ends, Fails) /\ (k \in Fails => Seen(es, Ends))
         /\ Preceded(t, Starts, Eofs) <=> Preceded(es, Starts, Eofs) /\ (k \in Eofs => Seen(es, Starts))
         /\ Between(t, Starts, Ends, Fails) <=>
              Between(es, Starts, Ends, Fails) /\ (k \in Fails => Followed(es, Starts, Ends))
         /\ Between(t, Leaves, Starts, Eofs) <=>
              Between(es, Leaves, Starts, Eofs) /\ (k \in Eofs => Followed(es, Leaves, Starts))
         /\ \A p : LastPos(t, p) <=> IF k = "pos" THEN a.at = p ELSE LastPos(es, p)
         /\ LastIs(t, Past) <=> k \in Past
         /\ FailsFirst(t) <=> FailsFirst(es) \/ (k = "fail" /\ ~Seen(es, Starts))
         /\ t # Nothing /\ t \in Seq(Events)
<1> DEFINE k == a.e
           t == Append(es, a)
<1> HIDE DEF k, t
<1>1. /\ Seen(t, Starts) <=> Seen(es, Starts) \/ k \in Starts
      /\ Seen(t, Moves) <=> Seen(es, Moves) \/ k \in Moves
      /\ Seen(t, Stops) <=> Seen(es, Stops) \/ k \in Stops
      /\ Seen(t, Ends) <=> Seen(es, Ends) \/ k \in Ends
      /\ Seen(t, Past) <=> Seen(es, Past) \/ k \in Past
      /\ Seen(t, Leaves) <=> Seen(es, Leaves) \/ k \in Leaves
      /\ Seen(t, Outs) <=> Seen(es, Outs) \/ k \in Outs
      /\ Seen(t, Settles) <=> Seen(es, Settles) \/ k \in Settles
  BY SeenAppends DEF k, t
<1>2. /\ Then(t, Ends, Moves) <=> Then(es, Ends, Moves) \/ (Seen(es, Ends) /\ k \in Moves)
      /\ Then(t, Leaves, Moves) <=> Then(es, Leaves, Moves) \/ (Seen(es, Leaves) /\ k \in Moves)
      /\ Then(t, Ends, Stops) <=> Then(es, Ends, Stops) \/ (Seen(es, Ends) /\ k \in Stops)
      /\ Then(t, Past, Moves) <=> Then(es, Past, Moves) \/ (Seen(es, Past) /\ k \in Moves)
      /\ Then(t, Settles, Moves) <=> Then(es, Settles, Moves) \/ (Seen(es, Settles) /\ k \in Moves)
      /\ Then(t, Ends, Past) <=> Then(es, Ends, Past) \/ (Seen(es, Ends) /\ k \in Past)
      /\ Then(t, Ends, Leaves) <=> Then(es, Ends, Leaves) \/ (Seen(es, Ends) /\ k \in Leaves)
      /\ Then(t, Leaves, Past) <=> Then(es, Leaves, Past) \/ (Seen(es, Leaves) /\ k \in Past)
  BY SeenAppends DEF k, t
<1>3. /\ Then3(t, Ends, Leaves, Moves) <=>
           Then3(es, Ends, Leaves, Moves) \/ (Then(es, Ends, Leaves) /\ k \in Moves)
      /\ Then3(t, Ends, Past, Moves) <=> Then3(es, Ends, Past, Moves) \/ (Then(es, Ends, Past) /\ k \in Moves)
      /\ Then3(t, Leaves, Past, Moves) <=>
           Then3(es, Leaves, Past, Moves) \/ (Then(es, Leaves, Past) /\ k \in Moves)
      /\ Then3(t, Ends, Leaves, Past) <=>
           Then3(es, Ends, Leaves, Past) \/ (Then(es, Ends, Leaves) /\ k \in Past)
  BY SeenAppends DEF k, t
<1>4. /\ Then4(t, Ends, Leaves, Past, Moves) <=>
           Then4(es, Ends, Leaves, Past, Moves) \/ (Then3(es, Ends, Leaves, Past) /\ k \in Moves)
  BY SeenAppends DEF k, t
<1>5. /\ Followed(t, Starts, Ends) <=> k \notin Starts /\ (k \in Ends \/ Followed(es, Starts, Ends))
      /\ Followed(t, Leaves, Starts) <=> k \notin Leaves /\ (k \in Starts \/ Followed(es, Leaves, Starts))
      /\ Followed(t, Past, Moves) <=> k \notin Past /\ (k \in Moves \/ Followed(es, Past, Moves))
  BY RulesAppend DEF k, t
<1>6. /\ FollowedBut(t, Past, Moves) <=> k \in Moves \/ Followed(es, Past, Moves)
  BY RulesAppend DEF k, t
<1>7. /\ Preceded(t, Ends, Fails) <=> Preceded(es, Ends, Fails) /\ (k \in Fails => Seen(es, Ends))
      /\ Preceded(t, Starts, Eofs) <=> Preceded(es, Starts, Eofs) /\ (k \in Eofs => Seen(es, Starts))
  BY RulesAppend DEF k, t
<1>8. /\ Between(t, Starts, Ends, Fails) <=>
           Between(es, Starts, Ends, Fails) /\ (k \in Fails => Followed(es, Starts, Ends))
      /\ Between(t, Leaves, Starts, Eofs) <=>
           Between(es, Leaves, Starts, Eofs) /\ (k \in Eofs => Followed(es, Leaves, Starts))
  BY RulesAppend DEF k, t
<1>9. /\ \A p : LastPos(t, p) <=> IF k = "pos" THEN a.at = p ELSE LastPos(es, p)
      /\ LastIs(t, Past) <=> k \in Past
      /\ FailsFirst(t) <=> FailsFirst(es) \/ (k = "fail" /\ ~Seen(es, Starts))
  BY RulesAppend DEF k, t, Starts
<1>10. t # Nothing /\ t \in Seq(Events)
  BY PlacesOfAppend DEF t
<1> QED BY <1>1, <1>2, <1>3, <1>4, <1>5, <1>6, <1>7, <1>8, <1>9, <1>10 DEF k, t

\* A longer order holds the shorter ones, and an order of kinds one of more kinds.
LEMMA OrdersHold ==
  ASSUME NEW es \in Seq(Events)
  PROVE  /\ Then4(es, Ends, Leaves, Past, Moves) => /\ Then3(es, Leaves, Past, Moves)
                                                    /\ Then3(es, Ends, Past, Moves)
                                                    /\ Then3(es, Ends, Leaves, Moves)
         /\ Then3(es, Ends, Leaves, Moves) => Then(es, Ends, Moves) /\ Then(es, Leaves, Moves)
         /\ Then3(es, Ends, Past, Moves) => /\ Then3(es, Ends, Leaves, Moves) /\ Then(es, Past, Moves)
                                            /\ Then3(es, Leaves, Past, Moves) /\ Then(es, Ends, Past)
         /\ Then3(es, Leaves, Past, Moves) => Then(es, Leaves, Moves) /\ Then(es, Past, Moves)
         /\ Then(es, Ends, Moves) => Seen(es, Ends) /\ Seen(es, Moves) /\ Then(es, Leaves, Moves)
         /\ Then(es, Past, Moves) => Seen(es, Past) /\ Seen(es, Moves) /\ Then(es, Leaves, Moves)
         /\ Then(es, Leaves, Moves) => Seen(es, Leaves) /\ Seen(es, Moves)
         /\ Then(es, Settles, Moves) => Seen(es, Settles) /\ Seen(es, Moves)
         /\ Then(es, Ends, Stops) => Seen(es, Ends) /\ Seen(es, Stops)
         /\ Then(es, Ends, Past) => Seen(es, Ends) /\ Seen(es, Past)
         /\ Seen(es, Stops) => Seen(es, Ends)
         /\ Seen(es, Ends) \/ Seen(es, Past) => Seen(es, Leaves)
<1>1. Ends \subseteq Leaves /\ Past \subseteq Leaves /\ Stops \subseteq Ends
  BY DEF Ends, Leaves, Past, Stops
<1>2. ASSUME NEW A, NEW B, NEW C, Then3(es, A, B, C)
      PROVE  /\ Then(es, A, B) /\ Then(es, A, C) /\ Then(es, B, C)
             /\ \A D : A \subseteq D => Then3(es, D, B, C)
             /\ \A D : B \subseteq D => Then3(es, A, D, C)
  <2>1. PICK i, j, k \in 1..Len(es) : i < j /\ j < k /\ es[i].e \in A /\ es[j].e \in B /\ es[k].e \in C
    BY <1>2 DEF Then3
  <2>2. i < k
    BY <2>1, LenProperties
  <2>3. Then(es, A, B) /\ Then(es, A, C) /\ Then(es, B, C)
    BY <2>1, <2>2 DEF Then
  <2>4. \A D : A \subseteq D => Then3(es, D, B, C)
    BY <2>1 DEF Then3
  <2>5. \A D : B \subseteq D => Then3(es, A, D, C)
    BY <2>1 DEF Then3
  <2> QED BY <2>3, <2>4, <2>5
<1>3. ASSUME NEW A, NEW B, Then(es, A, B)
      PROVE  Seen(es, A) /\ Seen(es, B) /\ \A D : A \subseteq D => Then(es, D, B)
  BY <1>3 DEF Then, Seen
<1>4. ASSUME Then4(es, Ends, Leaves, Past, Moves)
      PROVE  /\ Then3(es, Leaves, Past, Moves) /\ Then3(es, Ends, Past, Moves)
             /\ Then3(es, Ends, Leaves, Moves)
  <2>1. PICK h, i, j, k \in 1..Len(es) :
          /\ h < i /\ i < j /\ j < k
          /\ es[h].e \in Ends /\ es[i].e \in Leaves /\ es[j].e \in Past /\ es[k].e \in Moves
    BY <1>4 DEF Then4
  <2>2. h < j /\ i < k
    BY <2>1, LenProperties
  <2> QED BY <2>1, <2>2 DEF Then3
<1>5. ASSUME NEW A, NEW D, A \subseteq D, Seen(es, A) PROVE Seen(es, D)
  BY <1>5 DEF Seen
<1>6. Then3(es, Ends, Leaves, Moves) => Then(es, Ends, Moves) /\ Then(es, Leaves, Moves)
  BY <1>2
<1>7. Then3(es, Ends, Past, Moves) => /\ Then3(es, Ends, Leaves, Moves) /\ Then(es, Past, Moves)
                                      /\ Then3(es, Leaves, Past, Moves) /\ Then(es, Ends, Past)
  BY <1>1, <1>2
<1>8. Then3(es, Leaves, Past, Moves) => Then(es, Leaves, Moves) /\ Then(es, Past, Moves)
  BY <1>2
<1>9. /\ Then(es, Ends, Moves) => Seen(es, Ends) /\ Seen(es, Moves) /\ Then(es, Leaves, Moves)
      /\ Then(es, Past, Moves) => Seen(es, Past) /\ Seen(es, Moves) /\ Then(es, Leaves, Moves)
      /\ Then(es, Leaves, Moves) => Seen(es, Leaves) /\ Seen(es, Moves)
      /\ Then(es, Settles, Moves) => Seen(es, Settles) /\ Seen(es, Moves)
      /\ Then(es, Ends, Stops) => Seen(es, Ends) /\ Seen(es, Stops)
      /\ Then(es, Ends, Past) => Seen(es, Ends) /\ Seen(es, Past)
  BY <1>1, <1>3
<1>10. /\ Seen(es, Stops) => Seen(es, Ends)
       /\ Seen(es, Ends) \/ Seen(es, Past) => Seen(es, Leaves)
  BY <1>1, <1>5
<1> QED BY <1>4, <1>6, <1>7, <1>8, <1>9, <1>10

\* A rule makes an order of what is seen.
LEMMA RulesOrder ==
  ASSUME NEW es \in Seq(Events)
  PROVE  /\ Then(es, Past, Moves) /\ Preceded(es, Starts, Eofs) => Then(es, Settles, Moves)
         /\ Between(es, Starts, Ends, Fails) /\ ~Preceded(es, Ends, Fails) => FailsFirst(es)
<1>0. Len(es) \in Nat
  BY LenProperties
<1>1. ASSUME Then(es, Past, Moves), Preceded(es, Starts, Eofs) PROVE Then(es, Settles, Moves)
  <2>1. PICK i, j \in 1..Len(es) : i < j /\ es[i].e \in Past /\ es[j].e \in Moves
    BY <1>1 DEF Then
  <2>2. CASE es[i].e = "fail"
    BY <2>1, <2>2 DEF Then, Settles
  <2>3. CASE es[i].e # "fail"
    <3>1. es[i].e \in Eofs
      BY <2>1, <2>3 DEF Past, Eofs
    <3>2. PICK k \in 1..Len(es) : k < i /\ es[k].e \in Starts
      BY <1>1, <3>1 DEF Preceded
    <3>3. k < j /\ es[k].e \in Settles
      BY <1>0, <2>1, <3>2 DEF Starts, Settles
    <3> QED BY <2>1, <3>3 DEF Then
  <2> QED BY <2>2, <2>3
<1>2. ASSUME Between(es, Starts, Ends, Fails), ~Preceded(es, Ends, Fails) PROVE FailsFirst(es)
  <2>1. PICK j \in 1..Len(es) : es[j].e \in Fails /\ \A i \in 1..Len(es) : i < j => es[i].e \notin Ends
    BY <1>2 DEF Preceded
  <2>2. ASSUME NEW i \in 1..Len(es), i < j, es[i].e \in Starts PROVE FALSE
    <3>1. PICK k \in 1..Len(es) : i < k /\ k < j /\ es[k].e \in Ends
      BY <1>2, <2>1, <2>2 DEF Between
    <3> QED BY <2>1, <3>1
  <2> QED BY <2>1, <2>2 DEF FailsFirst, Fails, Starts
<1> QED BY <1>1, <1>2

-----------------------------------------------------------------------------
(* A run of the playlist projection and the events it has not read.        *)

Live(r) == r.at = "running" /\ r.proj = "playlist" /\ r.up /\ ~r.quitting

\* Where the run is to come: mpv's entry, or the last slot once mpv is idle.
MpvAt(r) == IF r.file = "none" THEN Len(r.slots) ELSE r.pos

\* What mpv can have sent: a file starts before it ends, and fails before the
\* next one starts.
Played(r) ==
  /\ ~r.quit
  /\ ~Seen(r.evs, Outs)
  /\ Between(r.evs, Starts, Ends, Fails)
  /\ Between(r.evs, Leaves, Starts, Eofs)
  /\ r.file # "playing" => Followed(r.evs, Starts, Ends)
  /\ r.file = "playing" => Followed(r.evs, Leaves, Starts)

\* mpv holds the run's queue, and says so whenever it moves in it.
Listed(r) ==
  /\ r.list = r.slots
  /\ LastPos(r.evs, MpvAt(r))
  /\ FollowedBut(r.evs, Past, Moves)
  /\ r.file # "none" => Followed(r.evs, Past, Moves)
  /\ Close(r)

\* The file of the submission fails before it began: the run ends there.
Doomed(r) == ~r.began /\ FailsFirst(r.evs)

\* The end-file that is to be swallowed is on its way, or mpv still loads the
\* first file.
Drained(r) ==
  r.drain => /\ Preceded(r.evs, Ends, Fails)
             /\ r.file = "none" => Seen(r.evs, Ends)
             /\ ~Seen(r.evs, Ends) /\ r.file # "playing" => ~r.began /\ ~Seen(r.evs, Starts)

\* The run is at mpv's entry, or an event will bring it there: with no jump
\* armed, with any jump that an end-file may still settle, from idle.
Idle(r) ==
  \/ r.idx = MpvAt(r)
  \/ IF r.drain THEN Then(r.evs, Ends, Moves) ELSE Seen(r.evs, Moves)
Adopts(r) ==
  \/ r.idx = MpvAt(r)
  \/ IF r.drain THEN Then3(r.evs, Ends, Leaves, Moves) ELSE Then(r.evs, Leaves, Moves)
Arrives(r) ==
  \/ r.arm.to = MpvAt(r)
  \/ Then(r.evs, Settles, Moves) /\ (r.drain => Then(r.evs, Ends, Moves))

\* An armed jump of an active run is settled by the end-file of the entry it
\* left, and a later entry of mpv's is adopted after it.
Pending(r) ==
  /\ Adopts(r)
  /\ \/ /\ r.arm.to = MpvAt(r)
        /\ IF r.drain THEN Then(r.evs, Ends, Stops) \/ Then3(r.evs, Ends, Past, Moves)
           ELSE Seen(r.evs, Stops) \/ Then(r.evs, Past, Moves)
     \/ IF r.drain THEN Then4(r.evs, Ends, Leaves, Past, Moves) ELSE Then3(r.evs, Leaves, Past, Moves)

\* A settled jump that waits for its file to start.
Resume(r) ==
  /\ ~r.drain /\ ~r.tracks /\ r.arm.to = r.idx /\ r.arm.resume
  /\ Preceded(r.evs, Starts, Eofs)
  /\ r.file = "playing" => Seen(r.evs, Starts)
  /\ r.idx = MpvAt(r) \/ Then(r.evs, Settles, Moves)

\* The end of the queue ends an active run.
Running(r) ==
  /\ r.file = "none" => LastIs(r.evs, Past)
  /\ r.drain => IF r.file = "none" THEN Then(r.evs, Ends, Past) ELSE Seen(r.evs, Ends)

Active(r, quiet) ==
  /\ Running(r)
  /\ r.arm.at = "idle" => Idle(r)
  /\ r.arm.at = "pending" => ~r.arm.from_idle /\ Pending(r)
  /\ r.arm.at = "resume" => Resume(r)
  /\ quiet => Adopts(r)

\* A run that plays with its status left inactive; a jump revives it.
Inactive(r) ==
  /\ r.arm.at # "resume"
  /\ r.arm.at = "idle" => Idle(r)
  /\ r.arm.at = "pending" => /\ r.arm.from_idle /\ ~r.tracks
                             /\ r.file = "playing" => Seen(r.evs, Starts)
                             /\ Running(r) /\ Arrives(r)

Driven(r, quiet) == Drained(r) /\ IF r.active THEN Active(r, quiet) ELSE Inactive(r)

\* quiet: the run is not between two events, mpv having sent others meanwhile.
Follows(r, quiet) ==
  /\ Played(r)
  /\ r.list = Nothing => ~r.active /\ r.arm = IdleArm
  /\ r.list # Nothing => Listed(r)
  /\ (r.list # Nothing /\ ~Doomed(r)) => Driven(r, quiet)

\* A handler of the run leaves alone what mpv, the queue and the end are.
Handles(r, s) ==
  /\ SameMpv(r, s)
  /\ s.evs = Tail(r.evs) /\ s.slots = r.slots /\ s.standalone = r.standalone /\ s.quit = r.quit
  /\ s.quitting = r.quitting /\ s.identity = r.identity /\ s.ended = r.ended

\* What is left to read is as played, as listed and as doomed.
LEMMA HandlesKeeps ==
  ASSUME NEW r, NEW s, Typed(r), r.evs # Nothing, Handles(r, s), Played(r), r.list # Nothing => Listed(r)
  PROVE  /\ Played(s) /\ MpvAt(s) = MpvAt(r) /\ s.list = r.list
         /\ r.list # Nothing => Listed(s)
         /\ (r.list # Nothing /\ Head(r.evs).e \in Past) => ((r.file # "none" \/ s.evs # Nothing) => Seen(s.evs, Moves))
         /\ (r.list # Nothing /\ Head(r.evs).e = "pos" /\ ~Seen(s.evs, Moves)) => Head(r.evs).at = MpvAt(r)
         /\ Head(r.evs).e \in Leaves => /\ Preceded(s.evs, Starts, Eofs)
                                        /\ r.file = "playing" => Seen(s.evs, Starts)
         /\ Head(r.evs).e \notin Outs
<1>1. r.evs \in Seq(Events) /\ s.evs = Tail(r.evs) /\ SameMpv(r, s) /\ s.slots = r.slots
      /\ s.quit = r.quit /\ s.identity = r.identity /\ s.ended = r.ended
  BY DEF Typed, Handles
<1>2. MpvAt(s) = MpvAt(r) /\ s.file = r.file /\ s.list = r.list
  BY <1>1 DEF MpvAt, SameMpv
<1>3. /\ Played(s)
      /\ Head(r.evs).e \in Leaves => /\ Preceded(s.evs, Starts, Eofs)
                                     /\ r.file = "playing" => Seen(s.evs, Starts)
      /\ Head(r.evs).e \notin Outs
  BY <1>1, <1>2, EventRead, KindsAre DEF Played
<1>4. ASSUME r.list # Nothing
      PROVE  /\ Listed(s)
             /\ Head(r.evs).e \in Past => ((r.file # "none" \/ s.evs # Nothing) => Seen(s.evs, Moves))
             /\ (Head(r.evs).e = "pos" /\ ~Seen(s.evs, Moves)) => Head(r.evs).at = MpvAt(r)
  BY <1>1, <1>2, <1>4, EventRead, KindsAre DEF Listed, Close
<1> QED BY <1>2, <1>3, <1>4

\* A position event: an idle run that is not draining adopts the entry.
LEMMA PosReads ==
  ASSUME NEW r, Typed(r), Placed(r), Entry(r), Live(r), r.evs # Nothing, Head(r.evs).e = "pos", Follows(r, FALSE),
         NEW u, u = [r EXCEPT !.evs = Tail(r.evs)], NEW s, s = OnPlaylistPos(u, Head(r.evs).at)
  PROVE  Follows(s, FALSE)
<1> DEFINE p == Head(r.evs).at
           a == [u EXCEPT !.idx = p, !.arm = IdleArm, !.tracks = FALSE]
<1>0. r.evs \in Seq(Events) /\ Tail(r.evs) \in Seq(Events)
  BY HeadsAre DEF Typed
<1>1. /\ Handles(r, u) /\ u.proj = r.proj
      /\ u.idx = r.idx /\ u.arm = r.arm /\ u.drain = r.drain /\ u.tracks = r.tracks
      /\ u.active = r.active /\ u.began = r.began
  BY <1>0 DEF Typed, Fields, Handles, SameMpv
<1>2. Typed(u)
  BY <1>0 DEF Typed, Fields
<1>3. /\ Handles(r, a)
      /\ a.idx = p /\ a.arm = IdleArm /\ a.drain = r.drain /\ a.tracks = FALSE
      /\ a.active = r.active /\ a.began = r.began
  BY <1>1, <1>2 DEF Typed, Fields, Handles, SameMpv
<1>4. s = IF r.arm.at = "idle" /\ ~r.drain /\ Diverges(u, p) THEN a ELSE u
  BY <1>1 DEF OnPlaylistPos, AdoptEntry
<1>5. Diverges(u, p) <=> p \in DOMAIN r.slots /\ p # r.idx
  BY <1>1 DEF Diverges, Live, Handles
<1> HIDE DEF a, p
<1>6. Handles(r, s) /\ s.drain = r.drain /\ s.active = r.active /\ s.began = r.began
  BY <1>1, <1>3, <1>4
<1>7. /\ Played(s) /\ MpvAt(s) = MpvAt(r) /\ s.list = r.list /\ s.file = r.file
      /\ r.list # Nothing => Listed(s)
      /\ (r.list # Nothing /\ ~Seen(s.evs, Moves)) => p = MpvAt(r)
  BY <1>6, HandlesKeeps DEF Follows, Handles, SameMpv, p
<1>8. r.list = Nothing => ~s.active /\ s.arm = IdleArm
  BY <1>1, <1>3, <1>4 DEF Follows
<1>9. ASSUME r.list # Nothing, ~Doomed(s) PROVE Driven(s, FALSE)
  <2>1. ~Doomed(r) /\ Driven(r, FALSE)
    <3>1. FailsFirst(r.evs) <=> FailsFirst(s.evs)
      BY <1>0, <1>6, EventRead DEF Handles
    <3> QED BY <1>6, <1>9, <3>1 DEF Doomed, Follows
  <2>2. Drained(s)
    BY <1>0, <1>6, <1>7, <2>1, EventRead, KindsAre DEF Drained, Driven, Handles
  <2>3. r.arm.at = "idle" => s.arm.at = "idle" /\ Idle(s)
    <3> SUFFICES ASSUME r.arm.at = "idle" PROVE s.arm.at = "idle" /\ Idle(s)
      OBVIOUS
    <3>1. Idle(r) /\ s.arm.at = "idle"
      BY <1>1, <1>3, <1>4, <2>1, IdleArmIs DEF Driven, Active, Inactive
    <3>2. CASE r.drain
      <4>1. Then(r.evs, Ends, Moves) <=> Then(s.evs, Ends, Moves)
        BY <1>0, <1>6, EventRead, KindsAre DEF Handles
      <4>2. s.idx = r.idx
        BY <1>1, <1>4, <3>2
      <4> QED BY <1>6, <1>7, <3>1, <3>2, <4>1, <4>2 DEF Idle
    <3>3. CASE ~r.drain
      <4>1. CASE Seen(s.evs, Moves)
        BY <1>6, <3>1, <3>3, <4>1 DEF Idle
      <4>2. CASE ~Seen(s.evs, Moves)
        <5>1. p = MpvAt(r) /\ p \in DOMAIN r.slots
          <6>1. p = MpvAt(r)
            BY <1>7, <1>9, <4>2
          <6>2. r.list = r.slots
            BY <1>9 DEF Follows, Listed
          <6>3. r.idx \in 1..Len(r.slots) /\ DOMAIN r.slots = 1..Len(r.slots) /\ Len(r.slots) \in Nat
            BY LenProperties DEF Placed, Typed
          <6> QED BY <6>1, <6>2, <6>3 DEF MpvAt, Entry
        <5>2. s.idx = p
          BY <1>1, <1>3, <1>4, <1>5, <3>3, <5>1
        <5> QED BY <1>7, <3>1, <5>1, <5>2 DEF Idle
      <4> QED BY <4>1, <4>2
    <3> QED BY <3>2, <3>3
  <2>4. r.arm.at # "idle" => s.arm = r.arm /\ s.idx = r.idx /\ s.tracks = r.tracks
    BY <1>1, <1>4
  <2>5. Running(r) => Running(s)
    BY <1>0, <1>6, <1>7, EventRead, KindsAre DEF Running, Handles
  <2>6. ASSUME r.active, r.arm.at = "pending" PROVE Pending(s) /\ ~s.arm.from_idle
    BY <1>0, <1>6, <1>7, <2>1, <2>4, <2>6, EventRead, KindsAre DEF Driven, Active, Pending, Adopts, Handles
  <2>7. ASSUME r.active, r.arm.at = "resume" PROVE Resume(s)
    BY <1>0, <1>6, <1>7, <2>1, <2>4, <2>7, EventRead, KindsAre DEF Driven, Active, Resume, Handles
  <2>8. ASSUME ~r.active, r.arm.at = "pending"
        PROVE  /\ s.arm.from_idle /\ ~s.tracks
               /\ s.file = "playing" => Seen(s.evs, Starts)
               /\ Running(s) /\ Arrives(s)
    BY <1>0, <1>6, <1>7, <2>1, <2>4, <2>5, <2>8, EventRead, KindsAre DEF Driven, Inactive, Arrives, Handles
  <2>9. r.arm.at \in {"idle", "pending", "resume"}
    BY DEF Typed, Arms
  <2> QED BY <1>6, <2>1, <2>2, <2>3, <2>4, <2>5, <2>6, <2>7, <2>8, <2>9 DEF Driven, Active, Inactive
<1> QED BY <1>7, <1>8, <1>9 DEF Follows

\* A restart: a jump from idle settles, and a resume is served.
LEMMA RestartReads ==
  ASSUME NEW r, Typed(r), Placed(r), Live(r), r.evs # Nothing, Head(r.evs).e = "restart", Follows(r, FALSE),
         NEW u, u = [r EXCEPT !.evs = Tail(r.evs)], NEW s, s = OnRestart(u)
  PROVE  Follows(s, FALSE)
<1> DEFINE idle == r.arm.at = "pending" /\ r.arm.from_idle
           back == ResumeArm(r.arm)
           a    == [u EXCEPT !.idx = r.arm.to, !.arm = back, !.active = TRUE]
           b    == IF idle THEN a ELSE u
           arm  == IF ~r.tracks /\ b.arm.resume THEN IdleArm ELSE b.arm
           c    == [b EXCEPT !.began = TRUE, !.tracks = TRUE, !.arm = arm]
<1>0. r.evs \in Seq(Events) /\ Tail(r.evs) \in Seq(Events) /\ r.arm \in Arms
  BY HeadsAre DEF Typed
<1>1. /\ Handles(r, u) /\ u = [f \in Fields |-> u[f]]
      /\ u.idx = r.idx /\ u.arm = r.arm /\ u.drain = r.drain /\ u.tracks = r.tracks
      /\ u.active = r.active /\ u.began = r.began
  BY <1>0 DEF Typed, Fields, Handles, SameMpv
<1>2. s = c
  BY <1>1 DEF OnRestart
<1> HIDE DEF back
<1>3. /\ Handles(r, a) /\ a = [f \in Fields |-> a[f]]
      /\ a.idx = r.arm.to /\ a.arm = back /\ a.drain = r.drain /\ a.active = TRUE
  BY <1>1 DEF Fields, Handles, SameMpv
<1> HIDE DEF a
<1>4. /\ Handles(r, b) /\ b = [f \in Fields |-> b[f]] /\ b.drain = r.drain
      /\ b.idx = IF idle THEN r.arm.to ELSE r.idx
      /\ b.arm = IF idle THEN back ELSE r.arm
      /\ b.active = IF idle THEN TRUE ELSE r.active
  BY <1>1, <1>3
<1> HIDE DEF b, arm
<1>5. /\ Handles(r, c) /\ c.drain = r.drain /\ c.idx = b.idx /\ c.active = b.active
      /\ c.arm = arm /\ c.began = TRUE /\ c.tracks = TRUE
  BY <1>4 DEF Fields, Handles, SameMpv
<1> HIDE DEF c
<1>6. arm = IF ~r.tracks /\ b.arm.resume THEN IdleArm ELSE b.arm
  BY DEF arm
<1>7. /\ Played(s) /\ MpvAt(s) = MpvAt(r) /\ s.list = r.list /\ s.file = r.file
      /\ r.list # Nothing => Listed(s)
  BY <1>2, <1>5, HandlesKeeps DEF Follows, Handles, SameMpv
<1>8. r.list = Nothing => ~s.active /\ s.arm = IdleArm
  BY <1>2, <1>4, <1>5, <1>6, IdleArmIs DEF Follows
<1>9. ASSUME r.list # Nothing PROVE Driven(s, FALSE)
  <2>1. ~Doomed(r) /\ Driven(r, FALSE)
    <3>1. ~FailsFirst(r.evs)
      BY <1>0, EventRead
    <3> QED BY <1>9, <3>1 DEF Doomed, Follows
  <2>2. /\ Seen(r.evs, Starts) /\ (Seen(r.evs, Ends) <=> Seen(s.evs, Ends))
        /\ Preceded(r.evs, Ends, Fails) => Preceded(s.evs, Ends, Fails)
    BY <1>0, <1>2, <1>5, EventRead, KindsAre DEF Handles
  <2>3. Drained(s)
    BY <1>2, <1>5, <1>7, <2>1, <2>2 DEF Drained, Driven
  <2>4. Running(r) => Running(s)
    BY <1>0, <1>2, <1>5, <1>7, EventRead, KindsAre DEF Running, Handles
  <2>5. s.evs \in Seq(Events)
    BY <1>0, <1>2, <1>5 DEF Handles
  <2>6. CASE r.arm.at = "idle"
    <3>1. Idle(r) /\ s.arm.at = "idle" /\ s.idx = r.idx /\ s.active = r.active
      BY <1>2, <1>4, <1>5, <1>6, <2>1, <2>6, IdleArmIs DEF Driven, Active, Inactive
    <3>2. Idle(s)
      BY <1>0, <1>2, <1>5, <1>7, <3>1, EventRead, KindsAre DEF Idle, Handles
    <3> QED BY <2>1, <2>3, <2>4, <3>1, <3>2 DEF Driven, Active, Inactive
  <2>7. CASE r.arm.at = "resume"
    <3>1. r.active /\ Resume(r) /\ Running(r)
      BY <2>1, <2>7 DEF Driven, Active, Inactive
    <3>2. s.arm.at = "idle" /\ s.idx = r.idx /\ s.active
      BY <1>2, <1>4, <1>5, <1>6, <2>7, <3>1, IdleArmIs DEF Resume
    <3>3. Idle(s)
      <4>1. Then(r.evs, Settles, Moves) => Seen(s.evs, Moves)
        BY <1>0, <1>2, <1>5, <2>5, EventRead, OrdersHold DEF Handles
      <4> QED BY <1>2, <1>5, <1>7, <3>1, <3>2, <4>1 DEF Idle, Resume
    <3> QED BY <2>3, <2>4, <3>1, <3>2, <3>3 DEF Driven, Active
  <2>8. CASE r.arm.at = "pending" /\ r.active
    <3>1. Pending(r) /\ Running(r) /\ ~r.arm.from_idle
      BY <2>1, <2>8 DEF Driven, Active
    <3>2. s.idx = r.idx /\ s.active /\ (s.arm.at = "idle" \/ s.arm = r.arm)
      BY <1>2, <1>4, <1>5, <1>6, <2>8, <3>1, IdleArmIs
    <3>3. Pending(s)  \/ s.arm # r.arm
      BY <1>0, <1>2, <1>5, <1>7, <3>1, <3>2, EventRead, KindsAre DEF Pending, Adopts, Handles
    <3>4. Idle(s)
      <4>1. /\ Then3(r.evs, Ends, Leaves, Moves) => Then(s.evs, Ends, Moves)
            /\ Then(r.evs, Leaves, Moves) => Seen(s.evs, Moves)
        BY <1>0, <1>2, <1>5, <2>5, EventRead, KindsAre, OrdersHold DEF Handles
      <4> QED BY <1>2, <1>5, <1>7, <3>1, <3>2, <4>1 DEF Idle, Pending, Adopts
    <3> QED BY <2>3, <2>4, <2>8, <3>1, <3>2, <3>3, <3>4 DEF Driven, Active
  <2>9. CASE r.arm.at = "pending" /\ ~r.active
    <3>1. r.arm.from_idle /\ ~r.tracks /\ Running(r) /\ Arrives(r)
      BY <2>1, <2>9 DEF Driven, Inactive
    <3>2. s.idx = r.arm.to /\ s.active /\ s.arm.at = "idle"
      BY <1>0, <1>2, <1>4, <1>5, <1>6, <2>9, <3>1, IdleArmIs DEF back, ResumeArm, Arms
    <3>3. Idle(s)
      <4>1. /\ Then(r.evs, Settles, Moves) => Seen(s.evs, Moves)
            /\ Then(r.evs, Ends, Moves) => Then(s.evs, Ends, Moves)
        BY <1>0, <1>2, <1>5, <2>5, EventRead, KindsAre, OrdersHold DEF Handles
      <4> QED BY <1>2, <1>5, <1>7, <3>1, <3>2, <4>1 DEF Idle, Arrives
    <3> QED BY <2>3, <2>4, <3>1, <3>2, <3>3 DEF Driven, Active
  <2>10. r.arm.at \in {"idle", "pending", "resume"} /\ r.active \in BOOLEAN
    BY DEF Typed, Arms
  <2> QED BY <2>6, <2>7, <2>8, <2>9, <2>10
<1> QED BY <1>7, <1>8, <1>9 DEF Follows

\* What is neither of the ledger, the slot, mpv, nor changed by an event alone.
SameRest(r, s) ==
  /\ s.standalone = r.standalone /\ s.quit = r.quit /\ s.quitting = r.quitting
  /\ s.began = r.began /\ s.tracks = r.tracks

\* A disarmed run.
LEMMA DisarmDoes ==
  ASSUME NEW r, Typed(r)
  PROVE  LET a == [r EXCEPT !.arm = IdleArm] IN
         /\ Typed(a) /\ SameLedger(r, a) /\ SameSlot(r, a) /\ SameMpv(r, a) /\ SameRest(r, a)
         /\ a.arm = IdleArm /\ a.drain = r.drain /\ a.evs = r.evs
<1>1. Typed([r EXCEPT !.arm = IdleArm])
  BY IdleArmIs DEF Typed, Fields
<1> QED BY <1>1 DEF Typed, Fields, SameLedger, SameSlot, SameMpv, SameRest

\* A run whose loop has returned is no longer live.
LEMMA ExitedIs ==
  ASSUME NEW r, Typed(r)
  PROVE  ~Live(ExitRun(r))
<1> DEFINE s == [r EXCEPT !.at = "exited"]
<1>1. s.at = "exited"
  BY DEF Typed, Fields
<1> QED BY <1>1 DEF ExitRun, Live

\* A failed load: the run ends there, or mpv has gone on to another entry.
LEMMA FailReads ==
  ASSUME NEW g, NEW r, RunInv(r, g), Live(r), r.evs # Nothing, Head(r.evs).e = "fail", Follows(r, FALSE),
         NEW u, u = [r EXCEPT !.evs = Tail(r.evs)], NEW s, s = OnLoadFailed(u), Live(s)
  PROVE  Follows(s, FALSE)
<1> DEFINE failed == IF r.arm.at = "idle" THEN r.idx ELSE r.arm.to
           a == [u EXCEPT !.arm = IdleArm]
<1>0. r.evs \in Seq(Events) /\ Tail(r.evs) \in Seq(Events) /\ Typed(r) /\ Placed(r) /\ r.at = "running"
  BY HeadsAre DEF RunInv, Typed, Live
<1>1. /\ Handles(r, u) /\ Typed(u) /\ SameLedger(r, u)
      /\ u.idx = r.idx /\ u.arm = r.arm /\ u.drain = r.drain /\ u.tracks = r.tracks
      /\ u.active = r.active /\ u.began = r.began /\ u.proj = r.proj /\ u.slots = r.slots
  BY <1>0 DEF Typed, Fields, Handles, SameMpv, SameLedger
<1>2. /\ Handles(r, a) /\ Typed(a) /\ SameLedger(r, a)
      /\ a.idx = r.idx /\ a.arm = IdleArm /\ a.drain = r.drain
      /\ a.active = r.active /\ a.began = r.began
  <2>1. /\ Typed(a) /\ SameLedger(u, a) /\ SameSlot(u, a) /\ SameMpv(u, a) /\ SameRest(u, a)
        /\ a.arm = IdleArm /\ a.drain = u.drain /\ a.evs = u.evs
    BY <1>1, DisarmDoes
  <2> HIDE DEF a
  <2> QED BY <1>1, <2>1 DEF Handles, SameMpv, SameLedger, SameSlot, SameRest
<1> HIDE DEF a
<1>3. /\ s = a /\ r.began /\ failed < Len(r.slots)
  <2>1. s = IF ~r.began \/ r.proj = "file" \/ failed >= Len(r.slots) THEN ExitRun(EndRun(a)) ELSE a
    BY <1>1 DEF OnLoadFailed, a
  <2>2. Booked(a, g)
    BY <1>0, <1>2 DEF RunInv, Ledger, Booked, SameLedger
  <2>3. ~Live(ExitRun(EndRun(a)))
    BY <1>2, <2>2, EndRunDoes, ExitedIs
  <2>4. r.idx \in Nat /\ r.arm.to \in Nat /\ Len(r.slots) \in Nat
    BY <1>0, LenProperties DEF Typed, Arms
  <2> QED BY <2>1, <2>3, <2>4
<1>4. /\ Played(s) /\ MpvAt(s) = MpvAt(r) /\ s.list = r.list /\ s.file = r.file
      /\ r.list # Nothing => Listed(s)
      /\ (r.list # Nothing /\ (r.file # "none" \/ s.evs # Nothing)) => Seen(s.evs, Moves)
  BY <1>0, <1>2, <1>3, HandlesKeeps, KindsAre DEF Follows, Handles, SameMpv
<1>5. r.list = Nothing => ~s.active /\ s.arm = IdleArm
  BY <1>2, <1>3 DEF Follows
<1>6. ASSUME r.list # Nothing PROVE Driven(s, FALSE)
  <2>1. Driven(r, FALSE)
    BY <1>3, <1>6 DEF Doomed, Follows
  <2>2. ~r.drain /\ ~s.drain
    BY <1>0, <1>2, <1>3, <2>1, EventRead, KindsAre DEF Driven, Drained
  <2>3. CASE r.file # "none" \/ s.evs # Nothing
    <3>1. Seen(s.evs, Moves)
      BY <1>4, <1>6, <2>3
    <3>2. r.active => Running(s)
      <4>1. s.evs # Nothing => (LastIs(r.evs, Past) => LastIs(s.evs, Past))
        <5>1. s.evs = Tail(r.evs)
          BY <1>2, <1>3 DEF Handles
        <5> QED BY <1>0, <5>1, EndsRead
      <4> QED BY <1>4, <2>1, <2>2, <2>3, <4>1 DEF Running, Driven, Active
    <3> QED BY <1>2, <1>3, <2>2, <3>1, <3>2, IdleArmIs DEF Driven, Drained, Active, Inactive, Idle
  <2>4. CASE r.file = "none" /\ s.evs = Nothing
    <3>1. MpvAt(r) = Len(r.slots) /\ s.evs = Tail(r.evs) /\ Len(r.slots) \in Nat
      BY <1>0, <1>2, <1>3, <2>4, LenProperties DEF MpvAt, Handles, Typed
    <3>2. /\ ~Seen(s.evs, Moves) /\ ~Then(s.evs, Leaves, Moves) /\ ~Then(s.evs, Past, Moves)
          /\ ~Then3(s.evs, Leaves, Past, Moves) /\ ~Then(s.evs, Settles, Moves) /\ ~Seen(s.evs, Stops)
      BY <2>4, NothingRules
    <3>3. /\ ~Seen(r.evs, Moves) /\ ~Then(r.evs, Leaves, Moves) /\ ~Then(r.evs, Past, Moves)
          /\ ~Then3(r.evs, Leaves, Past, Moves) /\ ~Then(r.evs, Settles, Moves) /\ ~Seen(r.evs, Stops)
      BY <1>0, <3>1, <3>2, EventRead, KindsAre
    <3>4. r.arm.at = "idle" => Idle(r)
      BY <2>1 DEF Driven, Active, Inactive
    <3>5. r.arm.at # "idle"
      BY <1>3, <2>2, <3>1, <3>3, <3>4 DEF Idle
    <3>6. r.arm.to # Len(r.slots) /\ Len(r.slots) # r.arm.to
      BY <1>0, <1>3, <3>1, <3>5 DEF Typed, Arms
    <3>7. CASE r.active
      <4>1. r.arm.at = "pending" \/ r.arm.at = "resume"
        BY <1>0, <3>5 DEF Typed, Arms
      <4>2. r.arm.at # "pending"
        BY <2>1, <2>2, <3>1, <3>3, <3>6, <3>7 DEF Driven, Active, Pending
      <4>3. r.arm.at # "resume"
        BY <2>1, <2>2, <3>1, <3>3, <3>6, <3>7 DEF Driven, Active, Resume
      <4> QED BY <4>1, <4>2, <4>3
    <3>8. CASE ~r.active
      <4>1. r.arm.at = "pending"
        BY <1>0, <2>1, <3>5, <3>8 DEF Driven, Inactive, Typed, Arms
      <4> QED BY <2>1, <3>1, <3>3, <3>6, <3>8, <4>1 DEF Driven, Inactive, Arrives
    <3> QED BY <3>7, <3>8
  <2> QED BY <2>3, <2>4
<1> QED BY <1>4, <1>5, <1>6 DEF Follows

\* The loop returns once the run has ended.
LEMMA EndedReturns ==
  ASSUME NEW r, Typed(r), Close(r) \/ ~r.active
  PROVE  ~Live(ReturnIfInactive(EndRun(r)))
<1> DEFINE n == IF r.told < 2 THEN r.told + 1 ELSE r.told
           s == [r EXCEPT !.ended = r.identity, !.active = FALSE, !.told = n]
           a == [r EXCEPT !.at = "exited"]
           b == [s EXCEPT !.at = "exited"]
<1>1. EndRun(r) = IF Close(r) THEN s ELSE r
  BY DEF EndRun
<1> HIDE DEF n
<1>2. s = [f \in Fields |-> s[f]] /\ s.active = FALSE
  BY DEF Typed, Fields
<1> HIDE DEF s
<1>3. a.at = "exited" /\ b.at = "exited"
  BY <1>2 DEF Typed, Fields
<1> HIDE DEF a, b
<1>4. ~Live(a) /\ ~Live(b)
  BY <1>3 DEF Live
<1> QED BY <1>1, <1>2, <1>4 DEF ReturnIfInactive, ExitRun, a, b

\* The last event is the last of the tail, if there is a tail.
LEMMA LastReads ==
  ASSUME NEW es \in Seq(Events), es # Nothing, NEW t, t = Tail(es), NEW S, LastIs(es, S)
  PROVE  /\ t # Nothing => LastIs(t, S)
         /\ t = Nothing => Head(es).e \in S
BY EndsRead

\* The end-file that is swallowed: the run drains no more.
LEMMA SwallowedReads ==
  ASSUME NEW r, NEW s, Typed(r), r.evs # Nothing, Head(r.evs).e \in Ends, Follows(r, FALSE), r.drain,
         Handles(r, s), s.idx = r.idx, s.arm = r.arm, s.tracks = r.tracks, s.active = r.active,
         s.began = r.began, s.drain = FALSE
  PROVE  Follows(s, FALSE)
<1>0. /\ r.evs \in Seq(Events) /\ s.evs \in Seq(Events) /\ s.evs = Tail(r.evs)
      /\ Head(r.evs).e \in Leaves /\ Head(r.evs).e # "fail" /\ Head(r.evs).e # "restart"
  BY HeadsAre, KindsAre DEF Typed, Handles
<1>1. /\ Played(s) /\ MpvAt(s) = MpvAt(r) /\ s.list = r.list /\ s.file = r.file
      /\ r.list # Nothing => Listed(s)
  BY HandlesKeeps DEF Follows, Handles, SameMpv
<1>2. r.list = Nothing => ~s.active /\ s.arm = IdleArm
  BY DEF Follows
<1>3. ASSUME r.list # Nothing, ~Doomed(s) PROVE Driven(s, FALSE)
  <2>1. Driven(r, FALSE)
    <3>1. FailsFirst(r.evs) <=> FailsFirst(s.evs)
      BY <1>0, EventRead
    <3> QED BY <1>3, <3>1 DEF Doomed, Follows
  <2>2. /\ Then(r.evs, Ends, Moves) => Seen(s.evs, Moves)
        /\ Then3(r.evs, Ends, Leaves, Moves) => Then(s.evs, Leaves, Moves)
        /\ Then(r.evs, Ends, Stops) => Seen(s.evs, Stops)
        /\ Then3(r.evs, Ends, Past, Moves) => Then(s.evs, Past, Moves)
        /\ Then4(r.evs, Ends, Leaves, Past, Moves) => Then3(s.evs, Leaves, Past, Moves)
    <3>1. /\ Then(s.evs, Ends, Moves) => Seen(s.evs, Moves)
          /\ Then3(s.evs, Ends, Leaves, Moves) => Then(s.evs, Leaves, Moves)
          /\ Then(s.evs, Ends, Stops) => Seen(s.evs, Stops)
          /\ Then3(s.evs, Ends, Past, Moves) => Then(s.evs, Past, Moves)
          /\ Then4(s.evs, Ends, Leaves, Past, Moves) => Then3(s.evs, Leaves, Past, Moves)
      BY <1>0, OrdersHold
    <3> QED BY <1>0, <3>1, EventRead
  <2>3. Then(r.evs, Settles, Moves) => Then(s.evs, Settles, Moves)
    BY <1>0, EventRead, KindsAre
  <2>4. Running(r) => Running(s)
    <3>1. Then(r.evs, Ends, Past) => Seen(s.evs, Past)
      BY <1>0, ThenReads
    <3>2. s.evs # Nothing => (LastIs(r.evs, Past) => LastIs(s.evs, Past))
      BY <1>0, LastReads
    <3>3. Seen(s.evs, Past) => s.evs # Nothing
      BY NothingRules
    <3> QED BY <1>1, <3>1, <3>2, <3>3 DEF Running
  <2>5. Idle(r) => Idle(s)
    BY <1>1, <2>2 DEF Idle
  <2>6. Pending(r) => Pending(s)
    BY <1>1, <2>2 DEF Pending, Adopts
  <2>7. ~Resume(r)
    BY DEF Resume
  <2>8. Arrives(r) => Arrives(s)
    BY <1>1, <2>3 DEF Arrives
  <2>9. r.file = "playing" => Seen(s.evs, Starts)
    BY HandlesKeeps, <1>0 DEF Follows
  <2> QED BY <1>1, <2>1, <2>4, <2>5, <2>6, <2>7, <2>8, <2>9 DEF Driven, Drained, Active, Inactive
<1> QED BY <1>1, <1>2, <1>3 DEF Follows

\* The end-file of a superseded file: the run adopts the entry mpv is on.
LEMMA SupersededReads ==
  ASSUME NEW r, NEW s, Typed(r), Entry(r), Placed(r), r.evs # Nothing, Head(r.evs).e = "stop", Follows(r, FALSE),
         ~r.drain, r.arm.at # "pending", Handles(r, s), s.drain = r.drain,
         s.active = r.active, s.began = r.began,
         IF r.pos \in DOMAIN r.slots /\ r.pos # r.idx
           THEN s.idx = r.pos /\ s.arm = IdleArm
           ELSE s.idx = r.idx /\ s.arm = r.arm /\ s.tracks = r.tracks
  PROVE  Follows(s, FALSE)
<1>0. /\ r.evs \in Seq(Events) /\ Tail(r.evs) \in Seq(Events) /\ s.evs = Tail(r.evs)
  BY HeadsAre DEF Typed, Handles
<1>1. /\ Played(s) /\ MpvAt(s) = MpvAt(r) /\ s.list = r.list /\ s.file = r.file
      /\ r.list # Nothing => Listed(s)
  BY HandlesKeeps DEF Follows, Handles, SameMpv
<1>2. r.list = Nothing => ~s.active /\ s.arm = IdleArm
  BY DEF Follows
<1>3. ASSUME r.list # Nothing, ~Doomed(s) PROVE Driven(s, FALSE)
  <2>1. Driven(r, FALSE)
    <3>1. FailsFirst(r.evs) <=> FailsFirst(s.evs)
      BY <1>0, EventRead
    <3> QED BY <1>3, <3>1 DEF Doomed, Follows
  <2>2. /\ Seen(r.evs, Moves) => Seen(s.evs, Moves)
        /\ Preceded(r.evs, Starts, Eofs) => Preceded(s.evs, Starts, Eofs)
        /\ Seen(r.evs, Starts) => Seen(s.evs, Starts)
        /\ Then(r.evs, Settles, Moves) => Then(s.evs, Settles, Moves)
    BY <1>0, EventRead, KindsAre
  <2>3. Running(r) => Running(s)
    <3>1. LastIs(r.evs, Past) => LastIs(s.evs, Past)
      BY <1>0, EventRead, KindsAre
    <3> QED BY <1>1, <3>1 DEF Running
  <2>4. \/ s.idx = r.idx /\ s.arm = r.arm /\ s.tracks = r.tracks
        \/ s.idx = MpvAt(r) /\ s.arm.at = "idle"
    <3>1. r.list = r.slots /\ (r.file # "none" <=> r.pos \in DOMAIN r.slots)
      BY <1>3 DEF Follows, Listed, Entry
    <3> QED BY <3>1, IdleArmIs DEF MpvAt
  <2>5. r.arm.at \in {"idle", "resume"}
    BY DEF Typed, Arms
  <2>6. r.arm.at = "idle" => s.arm.at = "idle" /\ Idle(s)
    BY <1>1, <2>1, <2>2, <2>4 DEF Driven, Active, Inactive, Idle
  <2>7. r.arm.at = "resume" => r.active /\ ((s.arm.at = "idle" /\ Idle(s)) \/ (s.arm.at = "resume" /\ Resume(s)))
    BY <1>1, <2>1, <2>2, <2>4 DEF Driven, Active, Inactive, Idle, Resume
  <2> QED BY <1>1, <2>1, <2>3, <2>5, <2>6, <2>7 DEF Driven, Drained, Active, Inactive
<1> QED BY <1>1, <1>2, <1>3 DEF Follows

\* The end-file of an active run: its next entry is mpv's, or will be adopted.
LEMMA AdvanceReads ==
  ASSUME NEW r, NEW s, Typed(r), Placed(r), r.evs # Nothing, Head(r.evs).e \in Ends, Follows(r, FALSE),
         ~r.drain, Head(r.evs).e = "stop" => r.arm.at = "pending", Handles(r, s), s.drain = r.drain,
         r.active, s.active, s.began = r.began, ~s.tracks,
         s.idx = IF r.arm.at = "idle" THEN r.idx + 1 ELSE r.arm.to, s.idx <= Len(r.slots),
         s.arm = IF r.arm.at = "idle" THEN IdleArm ELSE ResumeArm(r.arm)
  PROVE  Follows(s, FALSE)
<1>0. /\ r.evs \in Seq(Events) /\ s.evs \in Seq(Events) /\ s.evs = Tail(r.evs)
      /\ r.arm \in Arms /\ r.idx \in Nat /\ Len(r.slots) \in Nat
  BY HeadsAre, LenProperties DEF Typed, Handles
<1>1. /\ Head(r.evs).e \in Leaves /\ Head(r.evs).e # "fail" /\ Head(r.evs).e # "restart"
      /\ Head(r.evs).e = "stop" \/ Head(r.evs).e = "eof"
      /\ Head(r.evs).e = "eof" => Head(r.evs).e \in Past
  BY KindsAre
<1>2. r.list # Nothing
  BY DEF Follows
<1>3. /\ Played(s) /\ MpvAt(s) = MpvAt(r) /\ s.list = r.list /\ s.file = r.file /\ Listed(s)
      /\ Preceded(s.evs, Starts, Eofs)
      /\ r.file = "playing" => Seen(s.evs, Starts)
      /\ Head(r.evs).e = "eof" => ((r.file # "none" \/ s.evs # Nothing) => Seen(s.evs, Moves))
  <2>1. Played(r) /\ Listed(r) /\ s.file = r.file
    BY <1>2 DEF Follows, Handles, SameMpv
  <2>2. /\ Played(s) /\ MpvAt(s) = MpvAt(r) /\ s.list = r.list /\ Listed(s)
        /\ Preceded(s.evs, Starts, Eofs)
        /\ r.file = "playing" => Seen(s.evs, Starts)
    BY <1>1, <1>2, <2>1, HandlesKeeps
  <2>3. Head(r.evs).e \in Past => ((r.file # "none" \/ s.evs # Nothing) => Seen(s.evs, Moves))
    BY <1>2, <2>1, HandlesKeeps
  <2> QED BY <1>1, <2>1, <2>2, <2>3
<1>4. ASSUME ~Doomed(s) PROVE Driven(s, FALSE)
  <2>1. Driven(r, FALSE)
    <3>1. FailsFirst(r.evs) <=> FailsFirst(s.evs)
      BY <1>0, <1>1, EventRead
    <3> QED BY <1>2, <1>4, <3>1 DEF Doomed, Follows
  <2>2. Active(r, FALSE)
    BY <2>1 DEF Driven
  <2>3. r.file = "none" => (LastIs(r.evs, Past) /\ (s.evs # Nothing => LastIs(s.evs, Past)))
    <3>1. s.evs # Nothing => (LastIs(r.evs, Past) => LastIs(s.evs, Past))
      BY <1>0, LastReads
    <3> QED BY <2>2, <3>1 DEF Active, Running
  <2>4. CASE r.arm.at = "idle"
    <3>1. Head(r.evs).e = "eof" /\ s.arm.at = "idle" /\ s.idx = r.idx + 1
      BY <1>1, <2>4, IdleArmIs
    <3>2. s.evs # Nothing \/ r.file # "none"
      <4> SUFFICES ASSUME s.evs = Nothing, r.file = "none" PROVE FALSE
        OBVIOUS
      <4>1. ~Seen(s.evs, Moves)
        BY NothingRules
      <4>2. ~Seen(r.evs, Moves)
        BY <1>0, <3>1, <4>1, EventRead, KindsAre
      <4>3. r.idx = Len(r.slots)
        BY <2>2, <2>4, <4>2 DEF Active, Idle, MpvAt
      <4> QED BY <1>0, <3>1, <4>3
    <3>3. Idle(s)
      BY <1>3, <3>1, <3>2 DEF Idle
    <3> QED BY <1>3, <2>3, <3>1, <3>2, <3>3 DEF Driven, Drained, Active, Running
  <2>5. CASE r.arm.at = "pending"
    <3>1. s.idx = r.arm.to /\ Pending(r)
      BY <2>2, <2>5 DEF Active
    <3>2. \/ s.arm.at = "idle"
          \/ s.arm.at = "resume" /\ s.arm.to = s.idx /\ s.arm.resume
      BY <1>0, <2>5, <3>1, IdleArmIs DEF ResumeArm, Arms
    <3>3. Then3(r.evs, Leaves, Past, Moves) => Then(s.evs, Past, Moves)
      <4>1. Then3(s.evs, Leaves, Past, Moves) => Then(s.evs, Past, Moves)
        BY <1>0, OrdersHold
      <4> QED BY <1>0, <4>1, EventRead
    <3>4. Then(s.evs, Past, Moves) => Seen(s.evs, Moves) /\ Then(s.evs, Settles, Moves)
      BY <1>0, <1>3, OrdersHold, RulesOrder
    <3>5. s.idx = MpvAt(r) \/ (Seen(s.evs, Moves) /\ Then(s.evs, Settles, Moves))
      BY <3>1, <3>3, <3>4 DEF Pending
    <3>6. s.evs # Nothing \/ r.file # "none"
      <4> SUFFICES ASSUME s.evs = Nothing, r.file = "none" PROVE FALSE
        OBVIOUS
      <4>1. /\ ~Seen(s.evs, Stops) /\ ~Then(s.evs, Past, Moves) /\ ~Seen(s.evs, Moves)
            /\ ~Then3(s.evs, Leaves, Past, Moves)
        BY NothingRules
      <4>2. ~Then(r.evs, Past, Moves) /\ ~Then3(r.evs, Leaves, Past, Moves)
        BY <1>0, <4>1, EventRead
      <4>3. Seen(r.evs, Stops)
        BY <3>1, <4>2 DEF Pending
      <4>4. Head(r.evs).e = "stop"
        BY <1>0, <4>1, <4>3, EventRead, KindsAre
      <4>5. Head(r.evs).e \in Past
        BY <1>0, <2>3, EndsRead
      <4> QED BY <4>4, <4>5, KindsAre
    <3>7. Running(s)
      BY <1>3, <2>3, <3>6 DEF Running
    <3> QED BY <1>3, <3>2, <3>5, <3>7 DEF Driven, Drained, Active, Idle, Resume
  <2>6. CASE r.arm.at = "resume"
    <3>1. Head(r.evs).e = "eof" /\ Preceded(r.evs, Starts, Eofs)
      BY <1>1, <2>2, <2>6 DEF Active, Resume
    <3> QED BY <1>0, <3>1, EventRead, KindsAre
  <2> QED BY <1>0, <2>4, <2>5, <2>6 DEF Arms
<1> QED BY <1>2, <1>3, <1>4 DEF Follows

\* The run with its first event taken off.
LEMMA TakenIs ==
  ASSUME NEW r, Typed(r), r.evs # Nothing
  PROVE  LET u == [r EXCEPT !.evs = Tail(r.evs)] IN
         /\ Typed(u) /\ Handles(r, u) /\ SameLedger(r, u) /\ SameSlot(r, u)
         /\ u.arm = r.arm /\ u.drain = r.drain /\ u.tracks = r.tracks /\ u.began = r.began
<1>1. Tail(r.evs) \in Seq(Events)
  BY HeadsAre DEF Typed
<1>2. Typed([r EXCEPT !.evs = Tail(r.evs)])
  BY <1>1 DEF Typed, Fields
<1> QED BY <1>2 DEF Typed, Fields, Handles, SameMpv, SameLedger, SameSlot

\* The entry an active run of the playlist goes on with.
LEMMA AdvanceIs ==
  ASSUME NEW r, Typed(r), Placed(r), r.proj = "playlist", NEW load
  PROVE  LET next == IF r.arm.at = "idle" THEN r.idx + 1 ELSE r.arm.to
             s    == Advance(r, load)
         IN \/ /\ next <= Len(r.slots)
               /\ SameLedger(r, s) /\ SameMpv(r, s) /\ s.slots = r.slots /\ s.evs = r.evs
               /\ s.standalone = r.standalone /\ s.quit = r.quit /\ s.quitting = r.quitting
               /\ s.began = r.began /\ s.drain = r.drain /\ s.idx = next /\ s.tracks = FALSE
               /\ s.arm = IF r.arm.at = "idle" THEN IdleArm ELSE ResumeArm(r.arm)
            \/ \E t : Typed(t) /\ SameLedger(r, t) /\ s = EndRun(t)
<1> DEFINE next    == IF r.arm.at = "idle" THEN r.idx + 1 ELSE r.arm.to
           arm     == IF next <= Len(r.slots) /\ r.arm.at # "idle" THEN ResumeArm(r.arm) ELSE IdleArm
           settled == [r EXCEPT !.arm = arm]
           a       == [settled EXCEPT !.idx = next, !.tracks = FALSE]
<1>0. Advance(r, load) = IF next > Len(r.slots) THEN EndRun(settled) ELSE a
  BY DEF Advance
<1>1. next \in Nat /\ Len(r.slots) \in Nat /\ r.arm \in Arms
  BY LenProperties DEF Typed, Arms
<1>2. arm \in Arms
  BY <1>1, IdleArmIs, ResumeArmDoes DEF Placed
<1>3. next <= Len(r.slots) => arm = IF r.arm.at = "idle" THEN IdleArm ELSE ResumeArm(r.arm)
  OBVIOUS
<1> HIDE DEF next, arm
<1>4. Typed(settled)
  BY <1>2 DEF Typed, Fields
<1>5. /\ SameLedger(r, settled) /\ SameMpv(r, settled) /\ settled.slots = r.slots /\ settled.evs = r.evs
      /\ settled.standalone = r.standalone /\ settled.quit = r.quit /\ settled.quitting = r.quitting
      /\ settled.began = r.began /\ settled.drain = r.drain /\ settled.arm = arm
  BY DEF Typed, Fields, SameLedger, SameMpv
<1> HIDE DEF settled
<1>6. /\ SameLedger(settled, a) /\ SameMpv(settled, a) /\ a.slots = settled.slots /\ a.evs = settled.evs
      /\ a.standalone = settled.standalone /\ a.quit = settled.quit /\ a.quitting = settled.quitting
      /\ a.began = settled.began /\ a.drain = settled.drain /\ a.arm = settled.arm
      /\ a.idx = next /\ a.tracks = FALSE
  BY <1>4 DEF Typed, Fields, SameLedger, SameMpv
<1> HIDE DEF a
<1>7. CASE next > Len(r.slots)
  <2>1. Advance(r, load) = EndRun(settled)
    BY <1>0, <1>7
  <2> QED BY <1>4, <1>5, <2>1
<1>8. CASE ~(next > Len(r.slots))
  <2>1. next <= Len(r.slots) /\ Advance(r, load) = a
    BY <1>0, <1>1, <1>8
  <2>2. /\ SameLedger(r, a) /\ SameMpv(r, a)
        /\ a.arm = IF r.arm.at = "idle" THEN IdleArm ELSE ResumeArm(r.arm)
    BY <1>3, <1>5, <1>6, <2>1 DEF SameLedger, SameMpv
  <2>3. /\ a.slots = r.slots /\ a.evs = r.evs
        /\ a.standalone = r.standalone /\ a.quit = r.quit /\ a.quitting = r.quitting
        /\ a.began = r.began /\ a.drain = r.drain /\ a.idx = next /\ a.tracks = FALSE
    BY <1>5, <1>6
  <2> QED BY <2>1, <2>2, <2>3 DEF next
<1> QED BY <1>7, <1>8

\* An end-file.
LEMMA EndReads ==
  ASSUME NEW g, NEW r, RunInv(r, g), Live(r), r.evs # Nothing, Head(r.evs).e \in Ends, Follows(r, FALSE), NEW load,
         NEW u, Typed(u), Handles(r, u), SameLedger(r, u), SameSlot(r, u), u.arm = r.arm, u.drain = r.drain,
         u.tracks = r.tracks, u.began = r.began,
         NEW s, s = OnEndFile(u, Head(r.evs).e, load), Live(s)
  PROVE  Follows(s, FALSE)
<1> DEFINE k == Head(r.evs).e
           a == [u EXCEPT !.drain = FALSE]
           b == [u EXCEPT !.idx = u.pos, !.arm = IdleArm, !.tracks = FALSE]
<1>0. /\ Typed(r) /\ Entry(r) /\ Placed(r) /\ r.proj = "playlist" /\ u.proj = "playlist" /\ Placed(u)
      /\ u.idx = r.idx /\ u.slots = r.slots /\ u.pos = r.pos /\ u.active = r.active
  BY DEF RunInv, Live, SameSlot, Placed, Handles, SameMpv, SameLedger
<1>1. k \in {"eof", "stop"} /\ ~u.quit
  BY DEF Ends, Follows, Played, Handles
<1>2. Close(u) \/ ~u.active
  BY <1>0 DEF Follows, Listed, Close, Handles
<1>3. s = IF u.drain THEN a
          ELSE IF u.standalone THEN ReturnIfInactive(EndRun(u))
          ELSE IF k = "stop" /\ u.arm.at # "pending" THEN IF Diverges(u, u.pos) THEN b ELSE u
          ELSE ReturnIfInactive(Advance(u, load))
  <2>1. Swallowed(u, k) <=> u.drain
    BY <1>1 DEF Swallowed
  <2>2. Superseded(u, k) <=> k = "stop" /\ u.arm.at # "pending"
    BY DEF Superseded
  <2>3. [u EXCEPT !.drain = @ /\ u.quit] = a
    BY <1>1
  <2>4. AdoptEntry(u, u.pos) = b
    BY DEF AdoptEntry
  <2> QED BY <2>1, <2>2, <2>3, <2>4 DEF OnEndFile
<1> HIDE DEF k
<1>4. CASE u.drain
  <2>1. /\ SameMpv(u, a) /\ a.evs = u.evs /\ a.slots = u.slots /\ a.standalone = u.standalone
        /\ a.quit = u.quit /\ a.quitting = u.quitting /\ a.identity = u.identity /\ a.ended = u.ended
        /\ a.idx = u.idx /\ a.arm = u.arm /\ a.tracks = u.tracks /\ a.active = u.active
        /\ a.began = u.began /\ a.drain = FALSE
    BY DEF Typed, Fields, SameMpv
  <2>2. s = a
    BY <1>3, <1>4
  <2> HIDE DEF a
  <2>3. Handles(r, s)
    BY <2>1, <2>2 DEF Handles, SameMpv
  <2> QED BY <1>0, <1>4, <2>1, <2>2, <2>3, SwallowedReads
<1>5. CASE ~u.drain /\ u.standalone
  <2>1. s = ReturnIfInactive(EndRun(u))
    BY <1>3, <1>5
  <2> QED BY <1>2, <2>1, EndedReturns
<1>6. CASE ~u.drain /\ ~u.standalone /\ k = "stop" /\ u.arm.at # "pending"
  <2>1. s = IF Diverges(u, u.pos) THEN b ELSE u
    BY <1>3, <1>6
  <2>2. Diverges(u, u.pos) <=> r.pos \in DOMAIN r.slots /\ r.pos # r.idx
    BY <1>0 DEF Diverges
  <2>3. /\ SameMpv(u, b) /\ b.evs = u.evs /\ b.slots = u.slots /\ b.standalone = u.standalone
        /\ b.quit = u.quit /\ b.quitting = u.quitting /\ b.identity = u.identity /\ b.ended = u.ended
        /\ b.active = u.active /\ b.began = u.began /\ b.drain = u.drain
        /\ b.idx = r.pos /\ b.arm = IdleArm
    BY <1>0 DEF Typed, Fields, SameMpv
  <2> HIDE DEF b
  <2>4. Handles(r, b)
    BY <2>3 DEF Handles, SameMpv
  <2>5. Handles(r, s) /\ s.drain = r.drain /\ s.active = r.active /\ s.began = r.began
    BY <1>0, <2>1, <2>3, <2>4
  <2>6. IF r.pos \in DOMAIN r.slots /\ r.pos # r.idx
          THEN s.idx = r.pos /\ s.arm = IdleArm
          ELSE s.idx = r.idx /\ s.arm = r.arm /\ s.tracks = r.tracks
    BY <1>0, <2>1, <2>2, <2>3
  <2> QED BY <1>0, <1>6, <2>5, <2>6, SupersededReads DEF k
<1>7. CASE ~u.drain /\ ~u.standalone /\ ~(k = "stop" /\ u.arm.at # "pending")
  <2> DEFINE t == Advance(u, load)
             next == IF u.arm.at = "idle" THEN u.idx + 1 ELSE u.arm.to
  <2>1. s = ReturnIfInactive(t)
    BY <1>3, <1>7
  <2>2. CASE \E v : Typed(v) /\ SameLedger(u, v) /\ t = EndRun(v)
    <3>1. PICK v : Typed(v) /\ SameLedger(u, v) /\ t = EndRun(v)
      BY <2>2
    <3>2. Close(v) \/ ~v.active
      BY <1>2, <3>1 DEF Close, SameLedger
    <3> QED BY <2>1, <3>1, <3>2, EndedReturns
  <2>3. CASE /\ next <= Len(u.slots)
             /\ SameLedger(u, t) /\ SameMpv(u, t) /\ t.slots = u.slots /\ t.evs = u.evs
             /\ t.standalone = u.standalone /\ t.quit = u.quit /\ t.quitting = u.quitting
             /\ t.began = u.began /\ t.drain = u.drain /\ t.idx = next /\ t.tracks = FALSE
             /\ t.arm = IF u.arm.at = "idle" THEN IdleArm ELSE ResumeArm(u.arm)
    <3> HIDE DEF t, next
    <3>1. RunInv(u, g)
      BY <1>0, RunningIs, ArmKeeps DEF Handles, Placed, RunInv, Live
    <3>2. RunInv(t, g)
      BY <1>0, <3>1, AdvanceStep DEF t, Live, SameLedger
    <3>3. t.active
      <4> SUFFICES ASSUME ~t.active PROVE FALSE
        OBVIOUS
      <4>1. s = ExitRun(t)
        BY <2>1 DEF ReturnIfInactive
      <4> QED BY <3>2, <4>1, ExitedIs DEF RunInv
    <3>4. s = t
      BY <2>1, <3>3 DEF ReturnIfInactive
    <3>5. Handles(r, s) /\ s.drain = r.drain /\ s.active /\ r.active /\ s.began = r.began /\ ~s.tracks
      BY <1>0, <2>3, <3>3, <3>4 DEF Handles, SameMpv, SameLedger
    <3>6. s.idx <= Len(r.slots) /\ s.idx = (IF r.arm.at = "idle" THEN r.idx + 1 ELSE r.arm.to)
          /\ s.arm = (IF r.arm.at = "idle" THEN IdleArm ELSE ResumeArm(r.arm))
      BY <1>0, <2>3, <3>4 DEF next
    <3> QED BY <1>0, <1>7, <3>5, <3>6, AdvanceReads DEF k
  <2> QED BY <1>0, <2>2, <2>3, AdvanceIs
<1> QED BY <1>4, <1>5, <1>6, <1>7

-----------------------------------------------------------------------------
(* A run is not made live again: no operator takes it back to the playlist *)
(* projection, and none brings a dead mpv up or keeps a closing one.       *)

Shape(r) == r = [f \in Fields |-> r[f]]
Alike(r, s) == Shape(s) /\ s.proj = r.proj /\ s.up = r.up /\ s.quitting = r.quitting

\* mpv's commands and the lifecycle's small steps.
LEMMA PartsAlike ==
  ASSUME NEW r, Shape(r)
  PROVE  /\ Alike(r, MpvStop(r)) /\ Alike(r, EndRun(r)) /\ Alike(r, BeginItem(r)) /\ Alike(r, ExitRun(r))
         /\ \A list : Alike(r, MpvLoad(r, list))
         /\ \A i : Alike(r, MpvJump(r, i)) /\ Alike(r, AdoptEntry(r, i))
         /\ \A load : Alike(r, NotInstalled(r, load))
         /\ \A i, resume : Alike(r, ArmJump(r, i, resume))
         /\ Alike(r, ReturnIfInactive(r))
<1>1. Alike(r, MpvStop(r))
  BY DEF Shape, Alike, Fields, MpvStop
<1>2. Alike(r, EndRun(r))
  BY DEF Shape, Alike, Fields, EndRun
<1>3. Alike(r, BeginItem(r))
  BY DEF Shape, Alike, Fields, BeginItem
<1>4. Alike(r, ExitRun(r)) /\ Alike(r, ReturnIfInactive(r))
  BY DEF Shape, Alike, Fields, ExitRun, ReturnIfInactive
<1>5. ASSUME NEW list PROVE Alike(r, MpvLoad(r, list))
  BY DEF Shape, Alike, Fields, MpvLoad
<1>6. ASSUME NEW i PROVE Alike(r, MpvJump(r, i)) /\ Alike(r, AdoptEntry(r, i))
  BY DEF Shape, Alike, Fields, MpvJump, AdoptEntry
<1>7. ASSUME NEW load PROVE Alike(r, NotInstalled(r, load))
  BY DEF Shape, Alike, Fields, NotInstalled
<1>8. ASSUME NEW i, NEW resume PROVE Alike(r, ArmJump(r, i, resume))
  BY DEF Shape, Alike, Fields, ArmJump
<1> QED BY <1>1, <1>2, <1>3, <1>4, <1>5, <1>6, <1>7, <1>8

\* A file that was loaded, or could not be.
LEMMA FilesAlike ==
  ASSUME NEW r, Shape(r)
  PROVE  /\ \A i : Alike(r, Installed(r, i))
         /\ \A load : Alike(r, ParkAndEnd(NotInstalled(r, load)))
         /\ \A i, load : Alike(r, JumpToFile(r, i, load))
<1>1. ASSUME NEW i PROVE Alike(r, Installed(r, i))
  <2> DEFINE a == MpvLoad(r, <<r.slots[i]>>)
             b == [a EXCEPT !.drain = TRUE]
  <2>1. Alike(r, a)
    BY PartsAlike
  <2> HIDE DEF a
  <2>2. Alike(a, b)
    BY <2>1 DEF Shape, Alike, Fields
  <2> HIDE DEF b
  <2>3. Alike(r, b)
    BY <2>1, <2>2 DEF Alike
  <2> QED BY <2>3 DEF Installed, a, b
<1>2. ASSUME NEW load PROVE Alike(r, ParkAndEnd(NotInstalled(r, load)))
  <2> DEFINE a == NotInstalled(r, load)
             b == MpvStop(a)
             c == BeginItem(b)
             d == EndRun(c)
  <2>1. Alike(r, a)
    BY PartsAlike
  <2> HIDE DEF a
  <2>2. Alike(a, b)
    BY <2>1, PartsAlike DEF Alike
  <2> HIDE DEF b
  <2>3. Alike(b, c)
    BY <2>2, PartsAlike DEF Alike
  <2> HIDE DEF c
  <2>4. Alike(c, d)
    BY <2>3, PartsAlike DEF Alike
  <2> HIDE DEF d
  <2>5. Alike(r, d)
    BY <2>1, <2>2, <2>3, <2>4 DEF Alike
  <2> QED BY <2>5 DEF ParkAndEnd, a, b, c, d
<1>3. ASSUME NEW i, NEW load PROVE Alike(r, JumpToFile(r, i, load))
  <2> DEFINE a == Installed(r, i)
             b == [a EXCEPT !.idx = i, !.tracks = FALSE]
  <2>1. Alike(r, a)
    BY <1>1
  <2> HIDE DEF a
  <2>2. Alike(a, b)
    BY <2>1 DEF Shape, Alike, Fields
  <2> HIDE DEF b
  <2>3. Alike(r, b)
    BY <2>1, <2>2 DEF Alike
  <2> QED BY <1>2, <2>3 DEF JumpToFile, a, b
<1> QED BY <1>1, <1>2, <1>3

\* What the commands make of a run: of the file projection, or as it was.
LEMMA CommandsAlike ==
  ASSUME NEW r, Shape(r)
  PROVE  /\ \A q, load : ReplaceWith(r, q, load).proj = "file"
         /\ \A slot, resume, load : Alike(r, CmdJump(r, slot, resume, load))
         /\ \A slot : \A load \in {"ok", "prepare", "install"} :
              \/ CmdAppend(r, slot, load).proj = "file"
              \/ CmdAppend(r, slot, load) = r
              \/ Alike(r, CmdAppend(r, slot, load))
<1>1. ASSUME NEW q, NEW load PROVE ReplaceWith(r, q, load).proj = "file"
  <2> DEFINE e    == EnterActiveFile(r)
             held == [e EXCEPT !.slots = q, !.idx = 1, !.standalone = Standalone(q), !.quit = FALSE]
             a    == Installed(held, 1)
             b    == BeginItem(a)
             c    == [b EXCEPT !.active = TRUE]
             why  == Opening(r, load)
             lost == ParkAndEnd(NotInstalled(held, why))
  <2>0. ReplaceWith(r, q, load) = c \/ ReplaceWith(r, q, load) = lost
    BY DEF ReplaceWith
  <2> HIDE DEF why
  <2>1. Shape(e) /\ e.proj = "file"
    BY DEF EnterActiveFile, Shape, Fields
  <2> HIDE DEF e
  <2>2. Shape(held) /\ held.proj = "file"
    BY <2>1 DEF Shape, Fields
  <2> HIDE DEF held
  <2>3. Alike(held, a) /\ Alike(held, lost)
    BY <2>2, FilesAlike
  <2> HIDE DEF a, lost
  <2>4. Alike(a, b)
    BY <2>3, PartsAlike DEF Alike
  <2> HIDE DEF b
  <2>5. Alike(b, c)
    BY <2>4 DEF Shape, Alike, Fields
  <2> HIDE DEF c
  <2> QED BY <2>0, <2>2, <2>3, <2>4, <2>5 DEF Alike
<1>2. ASSUME NEW slot, NEW resume, NEW load PROVE Alike(r, CmdJump(r, slot, resume, load))
  <2> DEFINE i == IndexIn(slot, r.slots)
             a == ArmJump(r, i, resume)
             b == [a EXCEPT !.tracks = @ /\ r.active]
             c == [b EXCEPT !.arm = IdleArm]
             file == JumpToFile(a, i, load)
             left == MpvJump(b, i)
  <2>0. CmdJump(r, slot, resume, load) \in {r, file, c, left}
    BY DEF CmdJump
  <2> HIDE DEF i
  <2>1. Alike(r, a)
    BY PartsAlike
  <2> HIDE DEF a
  <2>2. Alike(a, b)
    BY <2>1 DEF Shape, Alike, Fields
  <2>3. Alike(a, file)
    BY <2>1, FilesAlike DEF Alike
  <2> HIDE DEF b, file
  <2>4. Alike(b, c)
    BY <2>2 DEF Shape, Alike, Fields
  <2>5. Alike(b, left)
    BY <2>2, PartsAlike DEF Alike
  <2> HIDE DEF c, left
  <2> QED BY <2>0, <2>1, <2>2, <2>3, <2>4, <2>5 DEF Alike
<1>3. ASSUME NEW slot, NEW load \in {"ok", "prepare", "install"}
      PROVE  \/ CmdAppend(r, slot, load).proj = "file"
             \/ CmdAppend(r, slot, load) = r
             \/ Alike(r, CmdAppend(r, slot, load))
  <2> DEFINE why    == Opening(r, load)
             a      == [r EXCEPT !.slots = Append(r.slots, slot)]
             b      == Installed(r, r.idx)
             c      == [b EXCEPT !.slots = Append(b.slots, slot)]
             d      == EnterActiveFile(c)
             lost   == ParkAndEnd(NotInstalled(r, why))
  <2>0. CmdAppend(r, slot, load) \in {a, d, r, lost}
    BY DEF CmdAppend, Promote, Opening
  <2> HIDE DEF why
  <2>1. Alike(r, a)
    BY DEF Shape, Alike, Fields
  <2>2. Alike(r, b) /\ Alike(r, lost)
    BY FilesAlike
  <2> HIDE DEF a, b, lost
  <2>3. Shape(c)
    BY <2>2 DEF Shape, Alike, Fields
  <2> HIDE DEF c
  <2>4. d.proj = "file"
    BY <2>3 DEF EnterActiveFile, Shape, Fields
  <2> QED BY <2>0, <2>1, <2>2, <2>4
<1> QED BY <1>1, <1>2, <1>3

\* What the handlers of events make of it.
LEMMA EventsAlike ==
  ASSUME NEW r, Shape(r)
  PROVE  /\ \A reason, load : Alike(r, OnEndFile(r, reason, load))
         /\ Alike(r, OnLoadFailed(r)) /\ Alike(r, OnRestart(r))
         /\ \A p : Alike(r, OnPlaylistPos(r, p))
         /\ Alike(r, ExitRun(EndRun(r)))
<1>0. ASSUME NEW s, Shape(s) PROVE Alike(s, s) /\ Alike(s, [s EXCEPT !.arm = IdleArm])
  BY <1>0 DEF Shape, Alike, Fields
<1>1. ASSUME NEW s, Alike(r, s), NEW t, Alike(s, t) PROVE Alike(r, t)
  BY <1>1 DEF Alike
<1>2. ASSUME NEW s, Alike(r, s)
      PROVE  /\ Alike(r, EndRun(s)) /\ Alike(r, ExitRun(s)) /\ Alike(r, ReturnIfInactive(s))
             /\ Alike(r, ReturnIfInactive(EndRun(s))) /\ Alike(r, ExitRun(EndRun(s)))
  <2>1. Alike(s, EndRun(s)) /\ Alike(s, ExitRun(s)) /\ Alike(s, ReturnIfInactive(s))
    BY <1>2, PartsAlike DEF Alike
  <2>2. /\ Alike(EndRun(s), ReturnIfInactive(EndRun(s)))
        /\ Alike(EndRun(s), ExitRun(EndRun(s)))
    BY <2>1, PartsAlike DEF Alike
  <2> QED BY <1>1, <1>2, <2>1, <2>2
<1>3. ASSUME NEW load PROVE Alike(r, Advance(r, load))
  <2> DEFINE next    == IF r.arm.at = "idle" THEN r.idx + 1 ELSE r.arm.to
             arm     == IF next <= Len(r.slots) /\ r.arm.at # "idle" THEN ResumeArm(r.arm) ELSE IdleArm
             settled == [r EXCEPT !.arm = arm]
             why     == Opening(r, load)
             a       == [settled EXCEPT !.idx = next, !.tracks = FALSE]
             b       == Installed(settled, next)
             c       == [b EXCEPT !.idx = next, !.tracks = FALSE, !.drain = FALSE]
             d       == NotInstalled(settled, why)
  <2>0. Advance(r, load) \in {EndRun(settled), a, c, EndRun(d)}
    BY DEF Advance
  <2> HIDE DEF next, arm, why
  <2>1. Alike(r, settled)
    BY DEF Shape, Alike, Fields
  <2> HIDE DEF settled
  <2>2. Alike(settled, a)
    BY <2>1 DEF Shape, Alike, Fields
  <2>3. Alike(settled, b) /\ Alike(settled, d)
    <3>1. Shape(settled)
      BY <2>1 DEF Alike
    <3> QED BY <3>1, FilesAlike, PartsAlike
  <2> HIDE DEF a, b, d
  <2>4. Alike(b, c)
    BY <2>3 DEF Shape, Alike, Fields
  <2> HIDE DEF c
  <2>5. Alike(r, a) /\ Alike(r, b) /\ Alike(r, d) /\ Alike(r, c)
    BY <1>1, <2>1, <2>2, <2>3, <2>4
  <2> QED BY <1>2, <2>0, <2>1, <2>5
<1>4. ASSUME NEW reason, NEW load PROVE Alike(r, OnEndFile(r, reason, load))
  <2> DEFINE a == [r EXCEPT !.drain = @ /\ r.quit]
  <2>0. OnEndFile(r, reason, load)
          \in {a, ReturnIfInactive(EndRun(r)), AdoptEntry(r, r.pos), r, ReturnIfInactive(Advance(r, load))}
    BY DEF OnEndFile
  <2>1. Alike(r, a)
    BY DEF Shape, Alike, Fields
  <2> HIDE DEF a
  <2>2. Alike(r, AdoptEntry(r, r.pos)) /\ Alike(r, r)
    BY <1>0, PartsAlike
  <2> QED BY <1>2, <1>3, <2>0, <2>1, <2>2
<1>5. Alike(r, OnLoadFailed(r))
  <2> DEFINE a == [r EXCEPT !.arm = IdleArm]
  <2>0. OnLoadFailed(r) \in {a, ExitRun(EndRun(a))}
    BY DEF OnLoadFailed
  <2>1. Alike(r, a)
    BY <1>0
  <2> HIDE DEF a
  <2> QED BY <1>2, <2>0, <2>1
<1>6. Alike(r, OnRestart(r))
  <2> DEFINE idle == r.arm.at = "pending" /\ r.arm.from_idle
             back == ResumeArm(r.arm)
             a    == [r EXCEPT !.idx = r.arm.to, !.arm = back, !.active = TRUE]
             b    == IF idle THEN a ELSE r
             arm  == IF ~r.tracks /\ b.arm.resume THEN IdleArm ELSE b.arm
             c    == [b EXCEPT !.began = TRUE, !.tracks = TRUE, !.arm = arm]
  <2>0. OnRestart(r) = c
    BY DEF OnRestart
  <2> HIDE DEF back
  <2>1. Alike(r, a)
    BY DEF Shape, Alike, Fields
  <2> HIDE DEF a
  <2>2. Alike(r, b)
    BY <1>0, <2>1
  <2> HIDE DEF b, arm
  <2>3. Alike(b, c)
    BY <2>2 DEF Shape, Alike, Fields
  <2> HIDE DEF c
  <2> QED BY <1>1, <2>0, <2>2, <2>3
<1>7. ASSUME NEW p PROVE Alike(r, OnPlaylistPos(r, p))
  <2>1. Alike(r, AdoptEntry(r, p)) /\ Alike(r, r)
    BY <1>0, PartsAlike
  <2> QED BY <2>1 DEF OnPlaylistPos
<1>8. Alike(r, ExitRun(EndRun(r)))
  BY <1>0, <1>2
<1> QED BY <1>4, <1>5, <1>6, <1>7, <1>8

\* A run whose loop has returned is torn down.
LEMMA GoneIs ==
  ASSUME NEW r, Shape(r), Live(Gone(r))
  PROVE  Gone(r) = r
<1> SUFFICES ASSUME r.at = "exited" PROVE FALSE
  BY DEF Gone
<1> DEFINE a == [r EXCEPT !.evs = Nothing]
           b == MpvDown(a, Nothing)
<1>1. Gone(r) = b
  BY DEF Gone
<1>2. Shape(a)
  BY DEF Shape, Fields
<1> HIDE DEF a
<1>3. b.up = FALSE
  BY <1>2 DEF MpvDown, Shape, Fields
<1> QED BY <1>1, <1>3 DEF Live

-----------------------------------------------------------------------------
(* The invariant: a live run follows mpv, and one that is to start has not  *)
(* heard of it.                                                            *)

FInv ==
  /\ run.at = "starting" => run.evs = Nothing /\ ~run.drain /\ ~run.quit /\ ~run.quitting
  /\ Live(run) => Follows(run, tick # "events")

\* An event of mpv is handled.
LEMMA HandleEventFollows == ASSUME IInv, FInv, HandleEvent PROVE FInv'
<1> DEFINE ev == Head(run.evs)
           u  == [run EXCEPT !.evs = Tail(@)]
<1>1. run.at = "running" /\ tick = "events" /\ tick' = tick /\ run.evs # Nothing
  BY DEF HandleEvent
<1>2. PICK load \in {"ok", "prepare", "install"} :
        run' = Gone(CASE ev.e \in {"eof", "stop", "quit"} -> OnEndFile(u, ev.e, load)
                      [] ev.e = "fail"    -> OnLoadFailed(u)
                      [] ev.e = "restart" -> OnRestart(u)
                      [] ev.e = "pos"     -> OnPlaylistPos(u, ev.at)
                      [] ev.e \in {"exit", "shutdown"} -> ExitRun(EndRun(u)))
  BY DEF HandleEvent
<1>3. RunInv(run, gen) /\ Typed(run) /\ Entry(run) /\ Placed(run) /\ ev.e \in Kinds
  <2>1. RunInv(run, gen) /\ Typed(run) /\ Entry(run) /\ Placed(run) /\ run.evs \in Seq(Events)
    BY <1>1 DEF IInv, RunInv, Typed
  <2>2. Head(run.evs) \in Events
    BY <1>1, <2>1, HeadsAre
  <2> QED BY <2>1, <2>2 DEF Events
<1>4. /\ Typed(u) /\ Handles(run, u) /\ SameLedger(run, u) /\ SameSlot(run, u)
      /\ u.arm = run.arm /\ u.drain = run.drain /\ u.tracks = run.tracks /\ u.began = run.began
  BY <1>1, <1>3, TakenIs
<1>5. Alike(run, u) /\ Shape(u)
  BY <1>4 DEF Alike, Shape, Typed, Handles, SameSlot, SameMpv
<1>6. u = [run EXCEPT !.evs = Tail(run.evs)]
  OBVIOUS
<1> HIDE DEF u
<1>7. run'.at # "starting"
  BY EventHandled DEF Handled
<1>8. ASSUME Live(run') PROVE Follows(run', FALSE)
  <2>1. PICK s : /\ run' = Gone(s) /\ Alike(u, s)
                 /\ ev.e \in {"eof", "stop", "quit"} => s = OnEndFile(u, ev.e, load)
                 /\ ev.e = "fail" => s = OnLoadFailed(u)
                 /\ ev.e = "restart" => s = OnRestart(u)
                 /\ ev.e = "pos" => s = OnPlaylistPos(u, ev.at)
    <3>1. CASE ev.e \in {"eof", "stop", "quit"}
      BY <1>2, <1>5, <3>1, EventsAlike
    <3>2. CASE ev.e = "fail"
      BY <1>2, <1>5, <3>2, EventsAlike
    <3>3. CASE ev.e = "restart"
      BY <1>2, <1>5, <3>3, EventsAlike
    <3>4. CASE ev.e = "pos"
      BY <1>2, <1>5, <3>4, EventsAlike
    <3>5. CASE ev.e \in {"exit", "shutdown"}
      BY <1>2, <1>5, <3>5, EventsAlike
    <3> QED BY <1>3, <3>1, <3>2, <3>3, <3>4, <3>5 DEF Kinds
  <2>2. run' = s /\ Live(s)
    BY <1>8, <2>1, GoneIs DEF Alike
  <2>3. Live(run) /\ Follows(run, FALSE)
    BY <1>1, <1>5, <2>1, <2>2 DEF Live, Alike, FInv
  <2>4. ev.e \notin Outs
    BY <1>1, <1>3, <1>4, <2>3, HandlesKeeps DEF Follows
  <2>5. CASE ev.e \in Ends
    <3>1. s = OnEndFile(u, ev.e, load)
      BY <2>1, <2>5 DEF Ends
    <3> HIDE DEF ev
    <3> QED BY <1>1, <1>3, <1>4, <2>2, <2>3, <2>5, <3>1, EndReads DEF ev
  <2>6. CASE ev.e = "fail"
    BY <1>1, <1>3, <1>6, <2>1, <2>2, <2>3, <2>6, FailReads
  <2>7. CASE ev.e = "restart"
    BY <1>1, <1>3, <1>6, <2>1, <2>2, <2>3, <2>7, RestartReads
  <2>8. CASE ev.e = "pos"
    BY <1>1, <1>3, <1>6, <2>1, <2>2, <2>3, <2>8, PosReads
  <2> QED BY <1>3, <2>2, <2>4, <2>5, <2>6, <2>7, <2>8 DEF Kinds, Outs, Ends
<1> QED BY <1>1, <1>7, <1>8 DEF FInv

-----------------------------------------------------------------------------
(* What mpv does meanwhile.                                                *)

\* mpv changes its entry, its file and what it has sent.
MpvOnly(r, s) ==
  /\ SameLedger(r, s) /\ SameSlot(r, s) /\ SameRest(r, s)
  /\ s.arm = r.arm /\ s.drain = r.drain /\ s.list = r.list /\ s.up = r.up

\* mpv has loaded its file.
LEMMA StartSends ==
  ASSUME NEW r, Typed(r), r.file = "loading", NEW quiet \in BOOLEAN, Follows(r, quiet),
         NEW s, MpvOnly(r, s), s.pos = r.pos, s.file = "playing", s.evs = Append(r.evs, Ev("restart", 0))
  PROVE  Follows(s, quiet)
<1> DEFINE a == Ev("restart", 0)
<1>1. r.evs \in Seq(Events) /\ a \in Events /\ a.e = "restart"
  BY EventsAre DEF Typed, Kinds, Ev
<1>2. s.evs = Append(r.evs, a)
  OBVIOUS
<1> HIDE DEF a
<1>3. /\ s.list = r.list /\ s.slots = r.slots /\ s.idx = r.idx /\ s.arm = r.arm /\ s.drain = r.drain
      /\ s.active = r.active /\ s.began = r.began /\ s.tracks = r.tracks /\ s.quit = r.quit
      /\ s.identity = r.identity /\ s.ended = r.ended /\ MpvAt(s) = MpvAt(r)
  BY DEF MpvOnly, SameLedger, SameSlot, SameRest, MpvAt
<1>4. Played(s)
  BY <1>1, <1>2, <1>3, EventSent, KindsAre DEF Follows, Played
<1>5. r.list # Nothing => Listed(s)
  BY <1>1, <1>2, <1>3, EventSent, KindsAre DEF Follows, Listed, Close
<1>6. ASSUME r.list # Nothing, ~Doomed(s) PROVE Driven(s, quiet)
  <2>1. Driven(r, quiet)
    <3>1. FailsFirst(s.evs) <=> FailsFirst(r.evs)
      BY <1>1, <1>2, EventSent
    <3> QED BY <1>3, <1>6, <3>1 DEF Follows, Doomed
  <2>2. Drained(s)
    BY <1>1, <1>2, <1>3, <2>1, EventSent, KindsAre DEF Driven, Drained
  <2>3. Running(r) => Running(s)
    BY <1>1, <1>2, <1>3, EventSent, KindsAre DEF Running
  <2>4. (Idle(r) => Idle(s)) /\ (Adopts(r) => Adopts(s)) /\ (Arrives(r) => Arrives(s))
    BY <1>1, <1>2, <1>3, EventSent, KindsAre DEF Idle, Adopts, Arrives
  <2>5. Pending(r) => Pending(s)
    BY <1>1, <1>2, <1>3, <2>4, EventSent, KindsAre DEF Pending
  <2>6. Resume(r) => Resume(s)
    BY <1>1, <1>2, <1>3, EventSent, KindsAre DEF Resume
  <2>7. Seen(s.evs, Starts)
    BY <1>1, <1>2, EventSent, KindsAre
  <2> QED BY <1>3, <2>1, <2>2, <2>3, <2>4, <2>5, <2>6, <2>7 DEF Driven, Active, Inactive
<1> QED BY <1>3, <1>4, <1>5, <1>6 DEF Follows

\* A position is sent.
LEMMA MoveSent ==
  ASSUME NEW es \in Seq(Events), NEW b \in Events, b.e = "pos", NEW t, t = Append(es, b)
  PROVE  /\ t \in Seq(Events) /\ t # Nothing /\ Seen(t, Moves)
         /\ Seen(t, Starts) <=> Seen(es, Starts)
         /\ Seen(t, Stops) <=> Seen(es, Stops)
         /\ Seen(t, Ends) <=> Seen(es, Ends)
         /\ Seen(t, Outs) <=> Seen(es, Outs)
         /\ Then(t, Ends, Moves) <=> Seen(es, Ends) \/ Then(es, Ends, Moves)
         /\ Then(t, Leaves, Moves) <=> Seen(es, Leaves) \/ Then(es, Leaves, Moves)
         /\ Then(t, Past, Moves) <=> Seen(es, Past) \/ Then(es, Past, Moves)
         /\ Then(t, Settles, Moves) <=> Seen(es, Settles) \/ Then(es, Settles, Moves)
         /\ Then(t, Ends, Stops) <=> Then(es, Ends, Stops)
         /\ Then(t, Ends, Past) <=> Then(es, Ends, Past)
         /\ Then3(t, Ends, Leaves, Moves) <=> Then(es, Ends, Leaves) \/ Then3(es, Ends, Leaves, Moves)
         /\ Then3(t, Ends, Past, Moves) <=> Then(es, Ends, Past) \/ Then3(es, Ends, Past, Moves)
         /\ Then3(t, Leaves, Past, Moves) <=> Then(es, Leaves, Past) \/ Then3(es, Leaves, Past, Moves)
         /\ Then4(t, Ends, Leaves, Past, Moves) <=>
              Then3(es, Ends, Leaves, Past) \/ Then4(es, Ends, Leaves, Past, Moves)
         /\ Followed(t, Starts, Ends) <=> Followed(es, Starts, Ends)
         /\ Followed(t, Leaves, Starts) <=> Followed(es, Leaves, Starts)
         /\ Followed(t, Past, Moves) /\ FollowedBut(t, Past, Moves)
         /\ Preceded(t, Ends, Fails) <=> Preceded(es, Ends, Fails)
         /\ Preceded(t, Starts, Eofs) <=> Preceded(es, Starts, Eofs)
         /\ Between(t, Starts, Ends, Fails) <=> Between(es, Starts, Ends, Fails)
         /\ Between(t, Leaves, Starts, Eofs) <=> Between(es, Leaves, Starts, Eofs)
         /\ LastPos(t, b.at)
         /\ FailsFirst(t) <=> FailsFirst(es)
<1> USE EventSent, KindsAre
<1>1. t \in Seq(Events) /\ t # Nothing
  OBVIOUS
<1>2. /\ Seen(t, Moves) /\ (Seen(t, Starts) <=> Seen(es, Starts)) /\ (Seen(t, Stops) <=> Seen(es, Stops))
      /\ (Seen(t, Ends) <=> Seen(es, Ends)) /\ (Seen(t, Outs) <=> Seen(es, Outs))
  OBVIOUS
<1>3. /\ Then(t, Ends, Moves) <=> Seen(es, Ends) \/ Then(es, Ends, Moves)
      /\ Then(t, Leaves, Moves) <=> Seen(es, Leaves) \/ Then(es, Leaves, Moves)
      /\ Then(t, Past, Moves) <=> Seen(es, Past) \/ Then(es, Past, Moves)
      /\ Then(t, Settles, Moves) <=> Seen(es, Settles) \/ Then(es, Settles, Moves)
      /\ Then(t, Ends, Stops) <=> Then(es, Ends, Stops)
      /\ Then(t, Ends, Past) <=> Then(es, Ends, Past)
  OBVIOUS
<1>4. /\ Then3(t, Ends, Leaves, Moves) <=> Then(es, Ends, Leaves) \/ Then3(es, Ends, Leaves, Moves)
      /\ Then3(t, Ends, Past, Moves) <=> Then(es, Ends, Past) \/ Then3(es, Ends, Past, Moves)
      /\ Then3(t, Leaves, Past, Moves) <=> Then(es, Leaves, Past) \/ Then3(es, Leaves, Past, Moves)
      /\ Then4(t, Ends, Leaves, Past, Moves) <=>
           Then3(es, Ends, Leaves, Past) \/ Then4(es, Ends, Leaves, Past, Moves)
  OBVIOUS
<1>5. /\ Followed(t, Starts, Ends) <=> Followed(es, Starts, Ends)
      /\ Followed(t, Leaves, Starts) <=> Followed(es, Leaves, Starts)
      /\ Followed(t, Past, Moves) /\ FollowedBut(t, Past, Moves)
  OBVIOUS
<1>6. /\ Preceded(t, Ends, Fails) <=> Preceded(es, Ends, Fails)
      /\ Preceded(t, Starts, Eofs) <=> Preceded(es, Starts, Eofs)
      /\ Between(t, Starts, Ends, Fails) <=> Between(es, Starts, Ends, Fails)
      /\ Between(t, Leaves, Starts, Eofs) <=> Between(es, Leaves, Starts, Eofs)
  OBVIOUS
<1>7. LastPos(t, b.at) /\ (FailsFirst(t) <=> FailsFirst(es))
  OBVIOUS
<1> QED BY ONLY <1>1, <1>2, <1>3, <1>4, <1>5, <1>6, <1>7

\* mpv leaves its entry by itself.
LEMMA PastSent ==
  ASSUME NEW es \in Seq(Events), NEW a \in Events, a.e \in Past
  PROVE  LET t == Append(es, a) IN
         /\ t \in Seq(Events) /\ Seen(t, Leaves) /\ Seen(t, Past) /\ LastIs(t, Past)
         /\ Seen(t, Starts) <=> Seen(es, Starts)
         /\ Seen(t, Moves) <=> Seen(es, Moves)
         /\ Seen(t, Stops) <=> Seen(es, Stops)
         /\ Seen(t, Outs) <=> Seen(es, Outs)
         /\ Seen(t, Ends) <=> Seen(es, Ends) \/ a.e = "eof"
         /\ Seen(t, Settles) <=> Seen(es, Settles) \/ a.e = "fail"
         /\ Then(t, Ends, Moves) <=> Then(es, Ends, Moves)
         /\ Then(t, Leaves, Moves) <=> Then(es, Leaves, Moves)
         /\ Then(t, Past, Moves) <=> Then(es, Past, Moves)
         /\ Then(t, Settles, Moves) <=> Then(es, Settles, Moves)
         /\ Then(t, Ends, Stops) <=> Then(es, Ends, Stops)
         /\ Then(t, Ends, Past) <=> Seen(es, Ends) \/ Then(es, Ends, Past)
         /\ Then(t, Ends, Leaves) <=> Seen(es, Ends) \/ Then(es, Ends, Leaves)
         /\ Then(t, Leaves, Past) <=> Seen(es, Leaves) \/ Then(es, Leaves, Past)
         /\ Then3(t, Ends, Leaves, Moves) <=> Then3(es, Ends, Leaves, Moves)
         /\ Then3(t, Ends, Past, Moves) <=> Then3(es, Ends, Past, Moves)
         /\ Then3(t, Leaves, Past, Moves) <=> Then3(es, Leaves, Past, Moves)
         /\ Then3(t, Ends, Leaves, Past) <=> Then(es, Ends, Leaves) \/ Then3(es, Ends, Leaves, Past)
         /\ Then4(t, Ends, Leaves, Past, Moves) <=> Then4(es, Ends, Leaves, Past, Moves)
         /\ Followed(t, Starts, Ends) <=> a.e = "eof" \/ Followed(es, Starts, Ends)
         /\ FollowedBut(t, Past, Moves) <=> Followed(es, Past, Moves)
         /\ Preceded(t, Ends, Fails) <=> Preceded(es, Ends, Fails) /\ (a.e = "fail" => Seen(es, Ends))
         /\ Preceded(t, Starts, Eofs) <=> Preceded(es, Starts, Eofs) /\ (a.e = "eof" => Seen(es, Starts))
         /\ Between(t, Starts, Ends, Fails) <=>
              Between(es, Starts, Ends, Fails) /\ (a.e = "fail" => Followed(es, Starts, Ends))
         /\ Between(t, Leaves, Starts, Eofs) <=>
              Between(es, Leaves, Starts, Eofs) /\ (a.e = "eof" => Followed(es, Leaves, Starts))
         /\ FailsFirst(t) <=> FailsFirst(es) \/ (a.e = "fail" /\ ~Seen(es, Starts))
<1> DEFINE t == Append(es, a)
<1> USE EventSent, KindsAre
<1>1. t \in Seq(Events) /\ Seen(t, Leaves) /\ Seen(t, Past) /\ LastIs(t, Past)
  OBVIOUS
<1>2. /\ (Seen(t, Starts) <=> Seen(es, Starts)) /\ (Seen(t, Moves) <=> Seen(es, Moves))
      /\ (Seen(t, Stops) <=> Seen(es, Stops)) /\ (Seen(t, Outs) <=> Seen(es, Outs))
      /\ Seen(t, Ends) <=> Seen(es, Ends) \/ a.e = "eof"
      /\ Seen(t, Settles) <=> Seen(es, Settles) \/ a.e = "fail"
  OBVIOUS
<1>3. /\ Then(t, Ends, Moves) <=> Then(es, Ends, Moves)
      /\ Then(t, Leaves, Moves) <=> Then(es, Leaves, Moves)
      /\ Then(t, Past, Moves) <=> Then(es, Past, Moves)
      /\ Then(t, Settles, Moves) <=> Then(es, Settles, Moves)
      /\ Then(t, Ends, Stops) <=> Then(es, Ends, Stops)
  OBVIOUS
<1>4. /\ Then(t, Ends, Past) <=> Seen(es, Ends) \/ Then(es, Ends, Past)
      /\ Then(t, Ends, Leaves) <=> Seen(es, Ends) \/ Then(es, Ends, Leaves)
      /\ Then(t, Leaves, Past) <=> Seen(es, Leaves) \/ Then(es, Leaves, Past)
      /\ Then3(t, Ends, Leaves, Past) <=> Then(es, Ends, Leaves) \/ Then3(es, Ends, Leaves, Past)
  OBVIOUS
<1>5. /\ Then3(t, Ends, Leaves, Moves) <=> Then3(es, Ends, Leaves, Moves)
      /\ Then3(t, Ends, Past, Moves) <=> Then3(es, Ends, Past, Moves)
      /\ Then3(t, Leaves, Past, Moves) <=> Then3(es, Leaves, Past, Moves)
      /\ Then4(t, Ends, Leaves, Past, Moves) <=> Then4(es, Ends, Leaves, Past, Moves)
  OBVIOUS
<1>6. /\ Followed(t, Starts, Ends) <=> a.e = "eof" \/ Followed(es, Starts, Ends)
      /\ FollowedBut(t, Past, Moves) <=> Followed(es, Past, Moves)
  OBVIOUS
<1>7. /\ Preceded(t, Ends, Fails) <=> Preceded(es, Ends, Fails) /\ (a.e = "fail" => Seen(es, Ends))
      /\ Preceded(t, Starts, Eofs) <=> Preceded(es, Starts, Eofs) /\ (a.e = "eof" => Seen(es, Starts))
  OBVIOUS
<1>8. /\ Between(t, Starts, Ends, Fails) <=>
           Between(es, Starts, Ends, Fails) /\ (a.e = "fail" => Followed(es, Starts, Ends))
      /\ Between(t, Leaves, Starts, Eofs) <=>
           Between(es, Leaves, Starts, Eofs) /\ (a.e = "eof" => Followed(es, Leaves, Starts))
  OBVIOUS
<1>9. FailsFirst(t) <=> FailsFirst(es) \/ (a.e = "fail" /\ ~Seen(es, Starts))
  OBVIOUS
<1> QED BY ONLY <1>1, <1>2, <1>3, <1>4, <1>5, <1>6, <1>7, <1>8, <1>9

\* The start of an order.
LEMMA OrdersStart ==
  ASSUME NEW es \in Seq(Events)
  PROVE  /\ Then(es, Ends, Stops) => Then(es, Ends, Leaves)
         /\ Then3(es, Ends, Leaves, Moves) => Then(es, Ends, Leaves)
         /\ Then3(es, Ends, Past, Moves) => Then(es, Ends, Leaves)
         /\ Seen(es, Starts) => Seen(es, Settles)
<1>1. Stops \subseteq Leaves /\ Past \subseteq Leaves /\ Starts \subseteq Settles
  BY DEF Stops, Leaves, Past, Starts, Settles
<1>2. Then(es, Ends, Stops) => Then(es, Ends, Leaves)
  BY <1>1 DEF Then
<1>3. /\ Then3(es, Ends, Leaves, Moves) => Then(es, Ends, Leaves)
      /\ Then3(es, Ends, Past, Moves) => Then(es, Ends, Leaves)
  BY <1>1 DEF Then, Then3
<1>4. Seen(es, Starts) => Seen(es, Settles)
  BY <1>1 DEF Seen
<1> QED BY <1>2, <1>3, <1>4

\* mpv leaves its entry by itself, and has another.
LEMMA NextSends ==
  ASSUME NEW r, Typed(r), NEW quiet \in BOOLEAN, Follows(r, quiet),
         NEW a \in Events, a.e \in Past, a.e = "eof" => r.file = "playing", a.e = "fail" => r.file = "loading",
         NEW b \in Events, b.e = "pos",
         NEW s, MpvOnly(r, s), b.at = s.pos, s.file = "loading",
         NEW es, es = Append(r.evs, a), s.evs = Append(es, b)
  PROVE  Follows(s, quiet)
<1>1. r.evs \in Seq(Events) /\ es \in Seq(Events) /\ (a.e = "eof" \/ a.e = "fail") /\ r.file # "none"
  BY PastSent, KindsAre DEF Typed
<1>2. /\ s.list = r.list /\ s.slots = r.slots /\ s.idx = r.idx /\ s.arm = r.arm /\ s.drain = r.drain
      /\ s.active = r.active /\ s.began = r.began /\ s.tracks = r.tracks /\ s.quit = r.quit
      /\ s.identity = r.identity /\ s.ended = r.ended /\ MpvAt(s) = b.at
  BY DEF MpvOnly, SameLedger, SameSlot, SameRest, MpvAt
<1>0. /\ Seen(es, Outs) <=> Seen(r.evs, Outs)
      /\ Seen(es, Starts) <=> Seen(r.evs, Starts)
      /\ Seen(es, Ends) <=> Seen(r.evs, Ends) \/ a.e = "eof"
      /\ Followed(es, Starts, Ends) <=> a.e = "eof" \/ Followed(r.evs, Starts, Ends)
      /\ Preceded(es, Ends, Fails) <=> Preceded(r.evs, Ends, Fails) /\ (a.e = "fail" => Seen(r.evs, Ends))
      /\ Between(es, Starts, Ends, Fails) <=>
           Between(r.evs, Starts, Ends, Fails) /\ (a.e = "fail" => Followed(r.evs, Starts, Ends))
      /\ Between(es, Leaves, Starts, Eofs) <=>
           Between(r.evs, Leaves, Starts, Eofs) /\ (a.e = "eof" => Followed(r.evs, Leaves, Starts))
      /\ FailsFirst(es) <=> FailsFirst(r.evs) \/ (a.e = "fail" /\ ~Seen(r.evs, Starts))
  BY <1>1, PastSent
<1>3. Played(s)
  <2>1. /\ ~Seen(es, Outs) /\ Between(es, Starts, Ends, Fails) /\ Between(es, Leaves, Starts, Eofs)
        /\ Followed(es, Starts, Ends)
    BY <1>0, <1>1 DEF Follows, Played
  <2> QED BY <1>1, <1>2, <2>1, MoveSent DEF Follows, Played
<1>4. r.list # Nothing => Listed(s)
  BY <1>1, <1>2, MoveSent DEF Follows, Listed, Close
<1>5. ASSUME r.list # Nothing, ~Doomed(s) PROVE Driven(s, quiet)
  <2>1. Driven(r, quiet) /\ (FailsFirst(es) => r.began)
    <3>1. FailsFirst(s.evs) <=> FailsFirst(es)
      BY <1>1, MoveSent
    <3>2. FailsFirst(r.evs) => FailsFirst(es)
      BY <1>1, PastSent
    <3> QED BY <1>2, <1>5, <3>1, <3>2 DEF Follows, Doomed
  <2>2. r.drain => Seen(es, Ends) /\ Preceded(es, Ends, Fails)
    BY <1>0, <1>1, <2>1 DEF Driven, Drained
  <2>3. Drained(s)
    BY <1>1, <1>2, <2>1, <2>2, MoveSent DEF Drained
  <2>4. Running(r) => Running(s)
    BY <1>1, <1>2, <2>2, MoveSent DEF Running
  <2>5. Idle(s)
    BY <1>1, <1>2, <2>2, MoveSent DEF Idle
  <2>6. /\ Seen(es, Leaves) /\ Seen(es, Past) /\ (a.e = "fail" => Seen(es, Settles))
        /\ Seen(r.evs, Settles) => Seen(es, Settles)
        /\ Then(es, Ends, Leaves) <=> Seen(r.evs, Ends) \/ Then(r.evs, Ends, Leaves)
        /\ Then(es, Ends, Past) <=> Seen(r.evs, Ends) \/ Then(r.evs, Ends, Past)
        /\ Then(es, Leaves, Past) <=> Seen(r.evs, Leaves) \/ Then(r.evs, Leaves, Past)
        /\ Then3(es, Ends, Leaves, Past) <=> Then(r.evs, Ends, Leaves) \/ Then3(r.evs, Ends, Leaves, Past)
        /\ Preceded(es, Starts, Eofs) <=>
             Preceded(r.evs, Starts, Eofs) /\ (a.e = "eof" => Seen(r.evs, Starts))
    BY <1>1, PastSent
  <2>7. r.drain => Seen(r.evs, Ends) \/ (a.e = "eof" /\ ~r.active)
    BY <1>0, <1>1, <2>1, <2>2 DEF Driven, Active, Running
  <2>8. Adopts(s) \/ ~r.active
    BY <1>1, <1>2, <2>6, <2>7, MoveSent DEF Adopts
  <2>9. r.active /\ Pending(r) => Pending(s)
    <3>1. /\ Then(r.evs, Past, Moves) \/ Seen(r.evs, Stops) \/ Then3(r.evs, Leaves, Past, Moves)
               => Seen(r.evs, Leaves)
          /\ Then(r.evs, Ends, Stops) \/ Then3(r.evs, Ends, Past, Moves) \/ Then4(r.evs, Ends, Leaves, Past, Moves)
               => Then(r.evs, Ends, Leaves)
      BY <1>1, OrdersHold, OrdersStart
    <3>2. Pending(r) => IF r.drain THEN Then3(es, Ends, Leaves, Past) ELSE Then(es, Leaves, Past)
      BY <2>6, <3>1 DEF Pending
    <3>3. /\ Then3(es, Ends, Leaves, Past) => Then4(s.evs, Ends, Leaves, Past, Moves)
          /\ Then(es, Leaves, Past) => Then3(s.evs, Leaves, Past, Moves)
      BY <1>1, MoveSent
    <3> QED BY <1>2, <2>8, <3>2, <3>3 DEF Pending
  <2>10. (r.file = "playing" => Seen(r.evs, Starts)) => Seen(es, Settles)
    BY <1>1, <2>6, OrdersStart
  <2>11. Resume(r) => Resume(s)
    BY <1>1, <1>2, <2>6, <2>10, MoveSent DEF Resume
  <2>12. (r.file = "playing" => Seen(r.evs, Starts)) => Arrives(s)
    BY <1>1, <1>2, <2>2, <2>6, <2>10, MoveSent DEF Arrives
  <2> QED BY <1>2, <2>1, <2>3, <2>4, <2>5, <2>8, <2>9, <2>11, <2>12 DEF Driven, Active, Inactive
<1> QED BY <1>2, <1>3, <1>4, <1>5 DEF Follows

\* mpv leaves its last entry.
LEMMA LastSends ==
  ASSUME NEW r, Typed(r), NEW quiet \in BOOLEAN, Follows(r, quiet), r.list # Nothing => r.pos = Len(r.slots),
         NEW a \in Events, a.e \in Past, a.e = "eof" => r.file = "playing", a.e = "fail" => r.file = "loading",
         NEW s, MpvOnly(r, s), s.file = "none", s.evs = Append(r.evs, a)
  PROVE  Follows(s, quiet)
<1>1. r.evs \in Seq(Events) /\ s.evs \in Seq(Events) /\ (a.e = "eof" \/ a.e = "fail") /\ r.file # "none"
  BY PastSent, KindsAre DEF Typed
<1>2. /\ s.list = r.list /\ s.slots = r.slots /\ s.idx = r.idx /\ s.arm = r.arm /\ s.drain = r.drain
      /\ s.active = r.active /\ s.began = r.began /\ s.tracks = r.tracks /\ s.quit = r.quit
      /\ s.identity = r.identity /\ s.ended = r.ended
      /\ r.list # Nothing => MpvAt(s) = MpvAt(r)
  BY <1>1 DEF MpvOnly, SameLedger, SameSlot, SameRest, MpvAt
<1>3. /\ Seen(s.evs, Outs) <=> Seen(r.evs, Outs)
      /\ Seen(s.evs, Ends) <=> Seen(r.evs, Ends) \/ a.e = "eof"
      /\ Followed(s.evs, Starts, Ends) <=> a.e = "eof" \/ Followed(r.evs, Starts, Ends)
      /\ FollowedBut(s.evs, Past, Moves) <=> Followed(r.evs, Past, Moves)
      /\ Preceded(s.evs, Ends, Fails) <=> Preceded(r.evs, Ends, Fails) /\ (a.e = "fail" => Seen(r.evs, Ends))
      /\ Between(s.evs, Starts, Ends, Fails) <=>
           Between(r.evs, Starts, Ends, Fails) /\ (a.e = "fail" => Followed(r.evs, Starts, Ends))
      /\ Between(s.evs, Leaves, Starts, Eofs) <=>
           Between(r.evs, Leaves, Starts, Eofs) /\ (a.e = "eof" => Followed(r.evs, Leaves, Starts))
      /\ FailsFirst(s.evs) <=> FailsFirst(r.evs) \/ (a.e = "fail" /\ ~Seen(r.evs, Starts))
  BY <1>1, PastSent
<1>4. Played(s)
  BY <1>1, <1>2, <1>3 DEF Follows, Played
<1>5. r.list # Nothing => Listed(s)
  <2> SUFFICES ASSUME r.list # Nothing PROVE Listed(s)
    OBVIOUS
  <2>1. Listed(r) /\ MpvAt(s) = MpvAt(r)
    BY <1>2 DEF Follows
  <2>2. a.e # "pos"
    BY <1>1
  <2>3. LastPos(s.evs, MpvAt(r))
    <3>1. LastPos(r.evs, MpvAt(r))
      BY <2>1 DEF Listed
    <3> QED BY <1>1, <2>2, <3>1, EventSent
  <2> QED BY <1>1, <1>2, <1>3, <2>1, <2>3 DEF Listed, Close
<1>6. ASSUME r.list # Nothing, ~Doomed(s) PROVE Driven(s, quiet)
  <2>1. Driven(r, quiet) /\ (FailsFirst(s.evs) => r.began) /\ MpvAt(s) = MpvAt(r)
    <3>1. MpvAt(s) = MpvAt(r) /\ s.began = r.began
      BY <1>2, <1>6
    <3>2. (FailsFirst(s.evs) => r.began) /\ (FailsFirst(r.evs) => FailsFirst(s.evs))
      BY <1>3, <1>6, <3>1 DEF Doomed
    <3>3. Driven(r, quiet)
      BY <1>6, <3>2 DEF Follows, Doomed
    <3> QED BY <3>1, <3>2, <3>3
  <2>2. r.drain => Seen(s.evs, Ends) /\ Preceded(s.evs, Ends, Fails)
    BY <1>1, <1>3, <2>1 DEF Driven, Drained
  <2>3. Drained(s)
    BY <1>2, <2>2 DEF Drained
  <2>4. /\ Seen(s.evs, Moves) <=> Seen(r.evs, Moves)
        /\ Seen(s.evs, Stops) <=> Seen(r.evs, Stops)
        /\ Then(s.evs, Ends, Moves) <=> Then(r.evs, Ends, Moves)
        /\ Then(s.evs, Leaves, Moves) <=> Then(r.evs, Leaves, Moves)
        /\ Then(s.evs, Past, Moves) <=> Then(r.evs, Past, Moves)
        /\ Then(s.evs, Settles, Moves) <=> Then(r.evs, Settles, Moves)
        /\ Then(s.evs, Ends, Stops) <=> Then(r.evs, Ends, Stops)
    BY <1>1, PastSent
  <2>5. /\ Seen(r.evs, Ends) => Then(s.evs, Ends, Past)
        /\ Then3(s.evs, Ends, Leaves, Moves) <=> Then3(r.evs, Ends, Leaves, Moves)
        /\ Then3(s.evs, Ends, Past, Moves) <=> Then3(r.evs, Ends, Past, Moves)
        /\ Then3(s.evs, Leaves, Past, Moves) <=> Then3(r.evs, Leaves, Past, Moves)
        /\ Then4(s.evs, Ends, Leaves, Past, Moves) <=> Then4(r.evs, Ends, Leaves, Past, Moves)
        /\ Preceded(s.evs, Starts, Eofs) <=>
             Preceded(r.evs, Starts, Eofs) /\ (a.e = "eof" => Seen(r.evs, Starts))
        /\ LastIs(s.evs, Past)
    BY <1>1, PastSent
  <2>6. Running(r) => Running(s)
    BY <1>1, <1>2, <2>5 DEF Running
  <2>7. (Idle(r) => Idle(s)) /\ (Adopts(r) => Adopts(s)) /\ (Arrives(r) => Arrives(s))
    BY <1>2, <2>1, <2>4, <2>5 DEF Idle, Adopts, Arrives
  <2>8. Pending(r) => Pending(s)
    BY <1>2, <2>1, <2>4, <2>5, <2>7 DEF Pending
  <2>9. Resume(r) => Resume(s)
    BY <1>2, <2>1, <2>4, <2>5 DEF Resume
  <2> QED BY <1>2, <2>1, <2>3, <2>6, <2>7, <2>8, <2>9 DEF Driven, Active, Inactive
<1> QED BY <1>2, <1>4, <1>5, <1>6 DEF Follows

\* Events sent together are sent one after the other.
LEMMA SentIs ==
  ASSUME NEW es \in Seq(Events)
  PROVE  /\ es \o Nothing = es
         /\ \A a \in Events : es \o <<a>> = Append(es, a)
         /\ \A a, b \in Events : es \o <<a, b>> = Append(Append(es, a), b)
<1>1. es \o Nothing = es
  BY ConcatEmptySeq DEF Nothing
<1>2. ASSUME NEW fs \in Seq(Events), NEW a \in Events PROVE fs \o <<a>> = Append(fs, a)
  BY AppendIsConcat
<1>3. ASSUME NEW a \in Events, NEW b \in Events PROVE es \o <<a, b>> = Append(Append(es, a), b)
  <2>1. <<a>> \in Seq(Events) /\ <<b>> \in Seq(Events) /\ es \o <<a>> \in Seq(Events)
    <3>1. <<a>> \in Seq(Events) /\ <<b>> \in Seq(Events)
      OBVIOUS
    <3> QED BY <3>1, ConcatProperties
  <2>2. <<a, b>> = <<a>> \o <<b>>
    <3>1. Append(<<a>>, b) = <<a>> \o <<b>>
      BY <1>2, <2>1
    <3>2. Append(<<a>>, b) = <<a, b>>
      <4> DEFINE s == Append(<<a>>, b)
                 t == <<a, b>>
      <4>1. Len(<<a>>) = 1 /\ <<a>>[1] = a
        OBVIOUS
      <4>2. s \in Seq(Events) /\ Len(s) = 2 /\ s[1] = a /\ s[2] = b
        BY <2>1, <4>1, AppendProperties
      <4>3. t \in Seq(Events) /\ Len(t) = 2 /\ t[1] = a /\ t[2] = b
        OBVIOUS
      <4> HIDE DEF s, t
      <4>4. \A i \in 1..Len(s) : s[i] = t[i]
        BY <4>2, <4>3
      <4>5. s = t
        BY <4>2, <4>3, <4>4, SeqEqual
      <4> QED BY <4>5 DEF s, t
    <3> QED BY <3>1, <3>2
  <2>3. (es \o <<a>>) \o <<b>> = es \o (<<a>> \o <<b>>)
    BY <2>1, ConcatAssociative
  <2> QED BY <1>2, <2>1, <2>2, <2>3
<1> QED BY <1>1, <1>2, <1>3

\* mpv goes on, over its last entry or not.
LEMMA GoesOnSends ==
  ASSUME NEW r, Typed(r), Entry(r), NEW quiet \in BOOLEAN, Follows(r, quiet),
         NEW kind, (kind = "eof" /\ r.file = "playing") \/ (kind = "fail" /\ r.file = "loading")
  PROVE  Follows(MpvGoesOn(r, kind), quiet)
<1> DEFINE a    == Ev(kind, 0)
           next == r.pos + 1
           b    == Ev("pos", next)
           es   == Append(r.evs, a)
           s    == [r EXCEPT !.evs = Append(es, b), !.pos = next, !.file = "loading"]
           t    == [r EXCEPT !.evs = es, !.pos = 0, !.file = "none"]
<1>1. /\ r.evs \in Seq(Events) /\ a \in Events /\ b \in Events /\ next \in Nat
      /\ a.e = kind /\ b.e = "pos" /\ b.at = next /\ kind \in Past
  BY EventsAre, KindsAre DEF Typed, Kinds, Ev
<1>2. MpvGoesOn(r, kind) = IF r.pos < Len(r.list) THEN s ELSE t
  BY <1>1, SentIs DEF MpvGoesOn
<1>3. r.list # Nothing /\ ~(r.pos < Len(r.list)) => r.pos = Len(r.slots)
  <2> SUFFICES ASSUME r.list # Nothing, ~(r.pos < Len(r.list)) PROVE r.pos = Len(r.slots)
    OBVIOUS
  <2>1. r.list = r.slots
    BY DEF Follows, Listed
  <2>2. r.pos \in 1..Len(r.list) /\ Len(r.list) \in Nat
    BY LenProperties DEF Entry, Typed
  <2> QED BY <2>1, <2>2
<1> HIDE DEF a, b, next, es
<1>4. MpvOnly(r, s) /\ s.pos = next /\ s.file = "loading" /\ s.evs = Append(es, b)
  BY DEF Typed, Fields, MpvOnly, SameLedger, SameSlot, SameRest
<1>5. MpvOnly(r, t) /\ t.file = "none" /\ t.evs = es
  BY DEF Typed, Fields, MpvOnly, SameLedger, SameSlot, SameRest
<1> HIDE DEF s, t
<1>6. es = Append(r.evs, a)
  BY DEF es
<1>7. Follows(s, quiet)
  BY <1>1, <1>4, <1>6, NextSends
<1>8. ~(r.pos < Len(r.list)) => Follows(t, quiet)
  BY <1>1, <1>3, <1>5, <1>6, LastSends
<1> QED BY <1>2, <1>7, <1>8

\* Every step of mpv.
LEMMA MpvActsFollow == ASSUME IInv, FInv, MpvActs PROVE FInv'
<1>1. /\ run.at = "running" /\ run.up /\ tick' = tick /\ Typed(run) /\ Entry(run)
      /\ (tick # "events") \in BOOLEAN
  BY DEF MpvActs, MpvStarts, MpvEof, MpvLoadFails, MpvDies, UserCloses, MpvQuits, MpvStep, IInv, RunInv
<1>2. ASSUME NEW kind, (kind = "eof" /\ run.file = "playing") \/ (kind = "fail" /\ run.file = "loading"),
             run' = MpvGoesOn(run, kind)
      PROVE  FInv'
  <2>1. /\ run'.at = run.at /\ run'.proj = run.proj /\ run'.up = run.up /\ run'.quitting = run.quitting
    BY <1>1, <1>2 DEF MpvGoesOn, Typed, Fields
  <2>2. Live(run') => Follows(run', tick # "events")
    BY <1>1, <1>2, <2>1, GoesOnSends DEF FInv, Live
  <2> QED BY <1>1, <2>1, <2>2 DEF FInv
<1>3. CASE MpvStarts
  <2> DEFINE es == Append(run.evs, Ev("restart", 0))
             s  == [run EXCEPT !.file = "playing", !.evs = es]
  <2>1. run.file = "loading" /\ run' = s
    BY <1>3 DEF MpvStarts, MpvStep
  <2> HIDE DEF es
  <2>2. MpvOnly(run, s) /\ s.pos = run.pos /\ s.file = "playing" /\ s.evs = es
    BY <1>1 DEF Typed, Fields, MpvOnly, SameLedger, SameSlot, SameRest
  <2> HIDE DEF s
  <2>3. Live(s) => Live(run) /\ s.at = run.at
    BY <2>2 DEF MpvOnly, SameLedger, SameSlot, SameRest, Live
  <2>4. Live(s) => Follows(s, tick # "events")
    BY <1>1, <2>1, <2>2, <2>3, StartSends DEF FInv, es
  <2>5. s.at = run.at
    BY <2>2 DEF MpvOnly, SameLedger
  <2> QED BY <1>1, <2>1, <2>4, <2>5 DEF FInv
<1>4. CASE MpvEof
  BY <1>2, <1>4 DEF MpvEof, MpvStep
<1>5. CASE MpvLoadFails
  BY <1>2, <1>5 DEF MpvLoadFails, MpvStep
<1>6. ASSUME NEW sent, run' = MpvDown(run, sent) PROVE FInv'
  <2>1. run'.at = run.at /\ run'.up = FALSE
    BY <1>1, <1>6 DEF MpvDown, Typed, Fields
  <2> QED BY <1>1, <2>1 DEF FInv, Live
<1>7. CASE MpvDies \/ MpvQuits
  BY <1>6, <1>7 DEF MpvDies, MpvQuits, MpvStep
<1>8. CASE UserCloses
  <2>1. run'.at = run.at /\ run'.quitting = TRUE
    BY <1>1, <1>8 DEF UserCloses, MpvStep, Typed, Fields
  <2> QED BY <1>1, <2>1 DEF FInv, Live
<1> QED BY <1>3, <1>4, <1>5, <1>7, <1>8 DEF MpvActs

-----------------------------------------------------------------------------
(* Commands.                                                               *)

\* mpv leaves its entry on a command.
LEMMA StopSent ==
  ASSUME NEW es \in Seq(Events), NEW a \in Events, a.e = "stop"
  PROVE  LET t == Append(es, a) IN
         /\ t \in Seq(Events) /\ Seen(t, Ends) /\ Seen(t, Stops) /\ Seen(t, Leaves)
         /\ Seen(t, Outs) <=> Seen(es, Outs)
         /\ Then(t, Leaves, Moves) <=> Then(es, Leaves, Moves)
         /\ Then(t, Ends, Stops) <=> Seen(es, Ends) \/ Then(es, Ends, Stops)
         /\ Then(t, Ends, Leaves) <=> Seen(es, Ends) \/ Then(es, Ends, Leaves)
         /\ Then3(t, Ends, Leaves, Moves) <=> Then3(es, Ends, Leaves, Moves)
         /\ Followed(t, Starts, Ends)
         /\ Followed(t, Past, Moves) <=> Followed(es, Past, Moves)
         /\ Preceded(t, Ends, Fails) <=> Preceded(es, Ends, Fails)
         /\ Between(t, Starts, Ends, Fails) <=> Between(es, Starts, Ends, Fails)
         /\ Between(t, Leaves, Starts, Eofs) <=> Between(es, Leaves, Starts, Eofs)
         /\ FailsFirst(t) <=> FailsFirst(es)
<1> DEFINE t == Append(es, a)
<1> USE EventSent, KindsAre
<1>1. t \in Seq(Events) /\ Seen(t, Ends) /\ Seen(t, Stops) /\ Seen(t, Leaves)
  OBVIOUS
<1>2. (Seen(t, Outs) <=> Seen(es, Outs)) /\ (Then(t, Leaves, Moves) <=> Then(es, Leaves, Moves))
  OBVIOUS
<1>3. /\ Then(t, Ends, Stops) <=> Seen(es, Ends) \/ Then(es, Ends, Stops)
      /\ Then(t, Ends, Leaves) <=> Seen(es, Ends) \/ Then(es, Ends, Leaves)
      /\ Then3(t, Ends, Leaves, Moves) <=> Then3(es, Ends, Leaves, Moves)
  OBVIOUS
<1>4. /\ Followed(t, Starts, Ends) /\ (Followed(t, Past, Moves) <=> Followed(es, Past, Moves))
      /\ Preceded(t, Ends, Fails) <=> Preceded(es, Ends, Fails)
  OBVIOUS
<1>5. /\ Between(t, Starts, Ends, Fails) <=> Between(es, Starts, Ends, Fails)
      /\ Between(t, Leaves, Starts, Eofs) <=> Between(es, Leaves, Starts, Eofs)
      /\ FailsFirst(t) <=> FailsFirst(es)
  OBVIOUS
<1> QED BY ONLY <1>1, <1>2, <1>3, <1>4, <1>5

\* Where nothing of T is seen, what must be followed by it is not either.
LEMMA NoneFollowed ==
  ASSUME NEW es, NEW S, NEW T, Followed(es, S, T), ~Seen(es, T)
  PROVE  ~Seen(es, S)
BY DEF Followed, Seen

\* The last position is not moved by other events.
LEMMA LastPosStays ==
  ASSUME NEW es \in Seq(Events), NEW a \in Events, a.e # "pos", NEW p, LastPos(es, p)
  PROVE  LastPos(Append(es, a), p)
<1>1. LastPos(Append(es, a), p) <=> IF a.e = "pos" THEN a.at = p ELSE LastPos(es, p)
  BY RulesAppend
<1> QED BY <1>1

\* What is unread once mpv was made to leave its entry, if it is on one.
LEMMA LeftSent ==
  ASSUME NEW r, Typed(r), Played(r), NEW es, es = r.evs \o EndOf(r, "stop")
  PROVE  /\ es \in Seq(Events) /\ ~Seen(es, Outs)
         /\ Between(es, Starts, Ends, Fails) /\ Between(es, Leaves, Starts, Eofs) /\ Followed(es, Starts, Ends)
         /\ FailsFirst(es) <=> FailsFirst(r.evs)
         /\ Preceded(es, Ends, Fails) <=> Preceded(r.evs, Ends, Fails)
         /\ Followed(es, Past, Moves) <=> Followed(r.evs, Past, Moves)
         /\ LastPos(r.evs, r.pos) => LastPos(es, r.pos)
         /\ Then(r.evs, Leaves, Moves) => Then(es, Leaves, Moves)
         /\ Then3(r.evs, Ends, Leaves, Moves) => Then3(es, Ends, Leaves, Moves)
         /\ r.file = "none" => es = r.evs
         /\ r.file # "none" => /\ Seen(es, Ends) /\ Seen(es, Stops) /\ Seen(es, Leaves)
                               /\ Seen(r.evs, Ends) => Then(es, Ends, Stops) /\ Then(es, Ends, Leaves)
<1> DEFINE a == Ev("stop", 0)
<1>1. r.evs \in Seq(Events) /\ a \in Events /\ a.e = "stop"
  BY EventsAre DEF Typed, Kinds, Ev
<1>2. es = IF r.file = "none" THEN r.evs ELSE Append(r.evs, a)
  BY <1>1, SentIs DEF EndOf
<1> HIDE DEF a
<1>3. CASE r.file = "none"
  BY <1>1, <1>2, <1>3 DEF Played
<1>4. CASE r.file # "none"
  <2>1. es = Append(r.evs, a)
    BY <1>2, <1>4
  <2>2. ASSUME NEW p, LastPos(r.evs, p) PROVE LastPos(es, p)
    <3>1. a.e # "pos"
      BY <1>1
    <3> QED BY <1>1, <2>1, <2>2, <3>1, LastPosStays
  <2>3. /\ es \in Seq(Events) /\ Seen(es, Ends) /\ Seen(es, Stops) /\ Seen(es, Leaves)
        /\ Seen(es, Outs) <=> Seen(r.evs, Outs)
        /\ Then(es, Leaves, Moves) <=> Then(r.evs, Leaves, Moves)
        /\ Then(es, Ends, Stops) <=> Seen(r.evs, Ends) \/ Then(r.evs, Ends, Stops)
        /\ Then(es, Ends, Leaves) <=> Seen(r.evs, Ends) \/ Then(r.evs, Ends, Leaves)
        /\ Then3(es, Ends, Leaves, Moves) <=> Then3(r.evs, Ends, Leaves, Moves)
        /\ Followed(es, Starts, Ends)
        /\ Followed(es, Past, Moves) <=> Followed(r.evs, Past, Moves)
        /\ Preceded(es, Ends, Fails) <=> Preceded(r.evs, Ends, Fails)
        /\ Between(es, Starts, Ends, Fails) <=> Between(r.evs, Starts, Ends, Fails)
        /\ Between(es, Leaves, Starts, Eofs) <=> Between(r.evs, Leaves, Starts, Eofs)
        /\ FailsFirst(es) <=> FailsFirst(r.evs)
    BY <1>1, <2>1, StopSent
  <2> QED BY <1>4, <2>2, <2>3 DEF Played
<1> QED BY <1>3, <1>4

\* What is followed at every place is so but for the last.
LEMMA FollowedIs ==
  ASSUME NEW es, NEW S, NEW T, Followed(es, S, T)
  PROVE  FollowedBut(es, S, T)
BY DEF Followed, FollowedBut

\* What ends with one of a kind holds one of it.
LEMMA LastSeen ==
  ASSUME NEW es \in Seq(Events), NEW S, LastIs(es, S)
  PROVE  Seen(es, S)
<1>1. Len(es) \in 1..Len(es)
  BY LenProperties, EmptySeq DEF LastIs, Nothing
<1> QED BY <1>1 DEF LastIs, Seen

\* What is unread once mpv was made to go to an entry of its list.
Went(r, i, t) ==
  /\ t \in Seq(Events) /\ ~Seen(t, Outs)
  /\ Between(t, Starts, Ends, Fails) /\ Between(t, Leaves, Starts, Eofs) /\ Followed(t, Starts, Ends)
  /\ Followed(t, Past, Moves) /\ LastPos(t, i)
  /\ FailsFirst(t) <=> FailsFirst(r.evs)
  /\ Preceded(t, Ends, Fails) <=> Preceded(r.evs, Ends, Fails)
  /\ Then(r.evs, Leaves, Moves) => Then(t, Leaves, Moves)
  /\ Then3(r.evs, Ends, Leaves, Moves) => Then3(t, Ends, Leaves, Moves)
  /\ r.file # "none" => /\ Seen(t, Ends) /\ Seen(t, Stops)
                        /\ Seen(r.evs, Ends) => Then(t, Ends, Stops)
                        /\ r.pos # i => /\ Then(t, Leaves, Moves)
                                        /\ Seen(r.evs, Ends) => Then3(t, Ends, Leaves, Moves)
  /\ r.file = "none" => /\ r.pos # i
                        /\ Seen(r.evs, Ends) => Seen(t, Ends)
                        /\ Seen(r.evs, Past) => Then(t, Past, Moves)
                        /\ Then(r.evs, Ends, Past) => Then3(t, Ends, Past, Moves)

\* It is so by what mpv sends.
LEMMA WentSent ==
  ASSUME NEW r, Typed(r), Entry(r), Played(r), Listed(r), NEW i \in DOMAIN r.list,
         NEW es, es = r.evs \o EndOf(r, "stop"),
         NEW b \in Events, b.e = "pos", b.at = i, NEW t, t = IF r.pos = i THEN es ELSE Append(es, b)
  PROVE  Went(r, i, t)
<1>0. r.evs \in Seq(Events)
  BY DEF Typed
<1>1. /\ es \in Seq(Events) /\ ~Seen(es, Outs)
      /\ Between(es, Starts, Ends, Fails) /\ Between(es, Leaves, Starts, Eofs) /\ Followed(es, Starts, Ends)
      /\ FailsFirst(es) <=> FailsFirst(r.evs)
      /\ Preceded(es, Ends, Fails) <=> Preceded(r.evs, Ends, Fails)
      /\ Followed(es, Past, Moves) <=> Followed(r.evs, Past, Moves)
      /\ LastPos(r.evs, r.pos) => LastPos(es, r.pos)
      /\ Then(r.evs, Leaves, Moves) => Then(es, Leaves, Moves)
      /\ Then3(r.evs, Ends, Leaves, Moves) => Then3(es, Ends, Leaves, Moves)
      /\ r.file = "none" => es = r.evs
      /\ r.file # "none" => /\ Seen(es, Ends) /\ Seen(es, Stops) /\ Seen(es, Leaves)
                            /\ Seen(r.evs, Ends) => Then(es, Ends, Stops) /\ Then(es, Ends, Leaves)
  BY LeftSent
<1>2. r.file = "none" => r.pos # i
  BY DEF Entry
<1>3. CASE r.pos = i
  <2>1. r.file # "none" /\ MpvAt(r) = i /\ t = es
    BY <1>2, <1>3 DEF MpvAt
  <2>2. LastPos(r.evs, i) /\ Followed(r.evs, Past, Moves)
    BY <2>1 DEF Listed
  <2> QED BY <1>1, <1>3, <2>1, <2>2 DEF Went
<1>4. CASE r.pos # i
  <2>1. t = Append(es, b)
    BY <1>4
  <2>2. /\ t \in Seq(Events) /\ Seen(t, Moves)
        /\ Seen(t, Stops) <=> Seen(es, Stops)
        /\ Seen(t, Ends) <=> Seen(es, Ends)
        /\ Seen(t, Outs) <=> Seen(es, Outs)
        /\ Then(t, Leaves, Moves) <=> Seen(es, Leaves) \/ Then(es, Leaves, Moves)
        /\ Then(t, Past, Moves) <=> Seen(es, Past) \/ Then(es, Past, Moves)
        /\ Then(t, Ends, Stops) <=> Then(es, Ends, Stops)
        /\ Then3(t, Ends, Leaves, Moves) <=> Then(es, Ends, Leaves) \/ Then3(es, Ends, Leaves, Moves)
        /\ Then3(t, Ends, Past, Moves) <=> Then(es, Ends, Past) \/ Then3(es, Ends, Past, Moves)
        /\ Followed(t, Starts, Ends) <=> Followed(es, Starts, Ends)
        /\ Followed(t, Past, Moves)
        /\ Preceded(t, Ends, Fails) <=> Preceded(es, Ends, Fails)
        /\ Between(t, Starts, Ends, Fails) <=> Between(es, Starts, Ends, Fails)
        /\ Between(t, Leaves, Starts, Eofs) <=> Between(es, Leaves, Starts, Eofs)
        /\ LastPos(t, b.at)
        /\ FailsFirst(t) <=> FailsFirst(es)
    BY <1>1, <2>1, MoveSent
  <2>3. LastPos(t, i)
    BY <2>2
  <2>4. r.file = "none" => /\ Seen(r.evs, Ends) => Seen(t, Ends)
                           /\ Seen(r.evs, Past) => Then(t, Past, Moves)
                           /\ Then(r.evs, Ends, Past) => Then3(t, Ends, Past, Moves)
    BY <1>1, <2>2
  <2>5. r.file # "none" => /\ Seen(t, Ends) /\ Seen(t, Stops)
                           /\ Seen(r.evs, Ends) => Then(t, Ends, Stops)
                           /\ r.pos # i => /\ Then(t, Leaves, Moves)
                                           /\ Seen(r.evs, Ends) => Then3(t, Ends, Leaves, Moves)
    BY <1>1, <2>2
  <2> QED BY <1>1, <1>4, <2>2, <2>3, <2>4, <2>5 DEF Went
<1> QED BY <1>3, <1>4

\* A jump: mpv is at the armed entry and says so.
LEMMA JumpSends ==
  ASSUME NEW r, Typed(r), Entry(r), Follows(r, TRUE), r.list # Nothing,
         NEW i \in DOMAIN r.list, NEW es, es = r.evs \o EndOf(r, "stop"),
         NEW s, SameLedger(r, s), SameSlot(r, s), s.list = r.list, s.began = r.began, s.quit = r.quit,
         s.drain = r.drain, s.tracks = (r.tracks /\ r.active),
         s.arm.at = "pending", s.arm.to = i, s.arm.from_idle = ~r.active,
         s.pos = i, s.file = "loading", NEW b \in Events, b.e = "pos", b.at = i,
         NEW t, t = IF r.pos = i THEN es ELSE Append(es, b), s.evs = t
  PROVE  Follows(s, TRUE)
<1>0. Played(r) /\ Listed(r)
  BY DEF Follows
<1>1. /\ s.evs \in Seq(Events) /\ ~Seen(s.evs, Outs)
      /\ Between(s.evs, Starts, Ends, Fails) /\ Between(s.evs, Leaves, Starts, Eofs)
      /\ Followed(s.evs, Starts, Ends) /\ Followed(s.evs, Past, Moves) /\ LastPos(s.evs, i)
      /\ FailsFirst(s.evs) <=> FailsFirst(r.evs)
      /\ Preceded(s.evs, Ends, Fails) <=> Preceded(r.evs, Ends, Fails)
      /\ Then(r.evs, Leaves, Moves) => Then(s.evs, Leaves, Moves)
      /\ Then3(r.evs, Ends, Leaves, Moves) => Then3(s.evs, Ends, Leaves, Moves)
      /\ r.file # "none" => /\ Seen(s.evs, Ends) /\ Seen(s.evs, Stops)
                            /\ Seen(r.evs, Ends) => Then(s.evs, Ends, Stops)
                            /\ r.pos # i => /\ Then(s.evs, Leaves, Moves)
                                            /\ Seen(r.evs, Ends) => Then3(s.evs, Ends, Leaves, Moves)
      /\ r.file = "none" => /\ r.pos # i
                            /\ Seen(r.evs, Ends) => Seen(s.evs, Ends)
                            /\ Seen(r.evs, Past) => Then(s.evs, Past, Moves)
                            /\ Then(r.evs, Ends, Past) => Then3(s.evs, Ends, Past, Moves)
  <2>1. Went(r, i, t)
    BY <1>0, WentSent
  <2> QED BY <2>1 DEF Went
<1>2. /\ s.slots = r.slots /\ s.idx = r.idx /\ s.active = r.active
      /\ s.identity = r.identity /\ s.ended = r.ended /\ MpvAt(s) = i
      /\ r.file # "none" => MpvAt(r) = r.pos
      /\ s.file = "loading"
  BY DEF SameLedger, SameSlot, MpvAt
<1>3. Played(s)
  BY <1>0, <1>1, <1>2 DEF Played
<1>4. Listed(s)
  <2>1. FollowedBut(s.evs, Past, Moves)
    BY <1>1, FollowedIs
  <2> QED BY <1>0, <1>1, <1>2, <2>1 DEF Listed, Close
<1>5. ASSUME ~Doomed(s) PROVE Driven(s, TRUE)
  <2>1. Driven(r, TRUE)
    BY <1>1, <1>5 DEF Follows, Doomed
  <2>2. r.drain => Seen(s.evs, Ends)
    BY <1>1, <2>1 DEF Driven, Drained
  <2>3. Drained(s)
    BY <1>1, <1>2, <2>1, <2>2 DEF Driven, Drained
  <2>4. Running(s)
    BY <1>2, <2>2 DEF Running
  <2>5. ASSUME r.active PROVE Pending(s)
    <3>1. Running(r) /\ Adopts(r)
      BY <2>1, <2>5 DEF Driven, Active
    <3>2. r.file = "none" => Seen(r.evs, Past)
      BY <3>1, LastSeen DEF Running, Typed
    <3>3. /\ Then3(s.evs, Ends, Past, Moves) => Then3(s.evs, Ends, Leaves, Moves)
          /\ Then(s.evs, Past, Moves) => Then(s.evs, Leaves, Moves)
      BY <1>1, OrdersHold
    <3>4. r.drain => IF r.file = "none" THEN Then(r.evs, Ends, Past) ELSE Seen(r.evs, Ends)
      BY <3>1 DEF Running
    <3>5. IF r.drain THEN Then(s.evs, Ends, Stops) \/ Then3(s.evs, Ends, Past, Moves)
          ELSE Seen(s.evs, Stops) \/ Then(s.evs, Past, Moves)
      BY <1>1, <3>2, <3>4
    <3>6. Adopts(s)
      <4>1. CASE r.file = "none"
        BY <1>1, <1>2, <3>2, <3>3, <3>4, <4>1 DEF Adopts
      <4>2. CASE r.file # "none"
        BY <1>1, <1>2, <3>1, <3>4, <4>2 DEF Adopts
      <4> QED BY <4>1, <4>2
    <3> QED BY <1>2, <3>5, <3>6 DEF Pending
  <2>6. ASSUME r.active PROVE Active(s, TRUE)
    BY <2>4, <2>5, <2>6 DEF Active, Pending
  <2>7. ASSUME ~r.active PROVE Inactive(s)
    BY <1>2, <2>4, <2>7 DEF Inactive, Arrives
  <2> QED BY <1>2, <2>3, <2>6, <2>7 DEF Driven
<1> QED BY <1>2, <1>3, <1>4, <1>5 DEF Follows

\* What mpv has sent once it was told to leave its entry for another.
LEMMA MovedSent ==
  ASSUME NEW r, Typed(r), NEW i \in Nat
  PROVE  LET es == r.evs \o EndOf(r, "stop") IN
         /\ es \in Seq(Events)
         /\ es \o PosOf(r, i) = IF r.pos = i THEN es ELSE Append(es, Ev("pos", i))
         /\ Ev("pos", i) \in Events /\ Ev("pos", i).e = "pos" /\ Ev("pos", i).at = i
<1> DEFINE es == r.evs \o EndOf(r, "stop")
<1>1. es \in Seq(Events)
  <2>1. r.evs \in Seq(Events) /\ EndOf(r, "stop") \in Seq(Events)
    BY EventsAre DEF Typed
  <2> QED BY <2>1, ConcatProperties
<1> HIDE DEF es
<1>2. Ev("pos", i) \in Events /\ Ev("pos", i).e = "pos" /\ Ev("pos", i).at = i
  BY EventsAre DEF Ev
<1>3. es \o PosOf(r, i) = IF r.pos = i THEN es ELSE Append(es, Ev("pos", i))
  <2>1. es \o Nothing = es /\ es \o <<Ev("pos", i)>> = Append(es, Ev("pos", i))
    BY <1>1, <1>2, SentIs
  <2> QED BY <2>1 DEF PosOf
<1> QED BY <1>1, <1>2, <1>3 DEF es

\* A jump, to a slot that is found or not, into a list that mpv has or not.
LEMMA JumpFollows ==
  ASSUME NEW r, Typed(r), Entry(r), Live(r), Follows(r, TRUE),
         NEW slot, NEW resume \in BOOLEAN, NEW load
  PROVE  Follows(CmdJump(r, slot, resume, load), TRUE)
<1> DEFINE i    == IndexIn(slot, r.slots)
           arm  == [at |-> "pending", to |-> i, from_idle |-> ~r.active, resume |-> resume]
           a    == [r EXCEPT !.arm = arm]
           b    == [a EXCEPT !.tracks = @ /\ r.active]
           c    == [b EXCEPT !.arm = IdleArm]
           es   == r.evs \o EndOf(r, "stop")
           left == MpvJump(b, i)
<1>0. CmdJump(r, slot, resume, load) = IF i = 0 THEN r ELSE IF i \notin DOMAIN r.list THEN c ELSE left
  BY DEF CmdJump, ArmJump, Live
<1>1. i # 0 => i \in DOMAIN r.slots
  BY IndexInIs
<1> HIDE DEF i
<1>2. CASE i = 0
  BY <1>0, <1>2
<1>3. ASSUME i # 0
      PROVE  /\ Typed(b) /\ SameLedger(r, b) /\ SameSlot(r, b) /\ SameMpv(r, b)
             /\ b.arm = arm /\ b.evs = r.evs /\ b.drain = r.drain /\ b.quit = r.quit /\ b.began = r.began
             /\ b.tracks = (r.tracks /\ r.active)
  <2>1. arm \in Arms
    BY <1>1, <1>3, LenProperties DEF Typed, Arms
  <2> HIDE DEF arm
  <2>2. /\ Typed(a) /\ SameLedger(r, a) /\ SameSlot(r, a) /\ SameMpv(r, a) /\ a.arm = arm /\ a.evs = r.evs
        /\ a.drain = r.drain /\ a.quit = r.quit /\ a.began = r.began /\ a.tracks = r.tracks
    BY <2>1 DEF Typed, Fields, SameLedger, SameSlot, SameMpv
  <2> HIDE DEF a
  <2>3. (a.tracks /\ r.active) \in BOOLEAN
    OBVIOUS
  <2>4. /\ Typed(b) /\ SameLedger(a, b) /\ SameSlot(a, b) /\ SameMpv(a, b) /\ b.arm = a.arm /\ b.evs = a.evs
        /\ b.drain = a.drain /\ b.quit = a.quit /\ b.began = a.began /\ b.tracks = (a.tracks /\ r.active)
    BY <2>2, <2>3 DEF Typed, Fields, SameLedger, SameSlot, SameMpv
  <2> HIDE DEF b
  <2> QED BY <2>2, <2>4 DEF SameLedger, SameSlot, SameMpv
<1> HIDE DEF b
<1>4. CASE i # 0 /\ i \notin DOMAIN r.list
  <2>1. r.list = Nothing
    BY <1>1, <1>4 DEF Follows, Listed
  <2>2. /\ c.evs = b.evs /\ c.list = b.list /\ c.file = b.file /\ c.quit = b.quit /\ c.active = b.active
        /\ c.arm = IdleArm
    BY <1>3, <1>4 DEF Typed, Fields
  <2> HIDE DEF c
  <2>3. /\ c.evs = r.evs /\ c.list = r.list /\ c.file = r.file /\ c.quit = r.quit /\ c.active = r.active
        /\ c.arm = IdleArm
    BY <1>3, <1>4, <2>2 DEF SameLedger, SameMpv
  <2>4. Follows(c, TRUE)
    BY <2>1, <2>3 DEF Follows, Played
  <2> QED BY <1>0, <1>4, <2>4
<1>5. CASE i # 0 /\ i \in DOMAIN r.list
  <2>0. i \in Nat /\ r.list # Nothing
    BY <1>5, LenProperties DEF Typed, Nothing
  <2>1. /\ left.evs = b.evs \o EndOf(b, "stop") \o PosOf(b, i)
        /\ left.pos = i /\ left.file = "loading" /\ left.list = b.list /\ left.arm = b.arm
        /\ left.drain = b.drain /\ left.quit = b.quit /\ left.began = b.began /\ left.tracks = b.tracks
        /\ SameLedger(b, left) /\ SameSlot(b, left)
    BY <1>3, <1>5 DEF MpvJump, Typed, Fields, SameLedger, SameSlot
  <2>2. b.evs \o EndOf(b, "stop") \o PosOf(b, i) = es \o PosOf(r, i)
    BY <1>3, <1>5 DEF EndOf, PosOf, SameMpv
  <2> HIDE DEF left
  <2>3. /\ left.evs = IF r.pos = i THEN es ELSE Append(es, Ev("pos", i))
        /\ Ev("pos", i) \in Events /\ Ev("pos", i).e = "pos" /\ Ev("pos", i).at = i
    BY <2>0, <2>1, <2>2, MovedSent
  <2>4. /\ left.list = r.list /\ left.began = r.began /\ left.quit = r.quit /\ left.drain = r.drain
        /\ left.tracks = (r.tracks /\ r.active)
        /\ left.arm.at = "pending" /\ left.arm.to = i /\ left.arm.from_idle = ~r.active
    BY <1>3, <1>5, <2>1 DEF SameMpv
  <2>5. SameLedger(r, left) /\ SameSlot(r, left)
    BY <1>3, <1>5, <2>1 DEF SameLedger, SameSlot
  <2> DEFINE m == Ev("pos", i)
             t == IF r.pos = i THEN es ELSE Append(es, m)
  <2>6. m \in Events /\ m.e = "pos" /\ m.at = i /\ left.evs = t
    BY <2>3
  <2> HIDE DEF m, es
  <2>7. Follows(left, TRUE)
    BY <1>5, <2>0, <2>1, <2>4, <2>5, <2>6, JumpSends DEF es
  <2> QED BY <1>0, <1>5, <2>7
<1> QED BY <1>2, <1>4, <1>5

\* What is seen of two kinds is seen of one of them.
LEMMA PastSeen ==
  ASSUME NEW es \in Seq(Events), Seen(es, Past), Preceded(es, Ends, Fails)
  PROVE  Seen(es, Ends)
<1>1. PICK i \in 1..Len(es) : es[i].e \in Past
  BY DEF Seen
<1>2. es[i].e = "eof" \/ es[i].e = "fail"
  BY <1>1, KindsAre
<1>3. CASE es[i].e = "eof"
  BY <1>3, KindsAre DEF Seen
<1>4. CASE es[i].e = "fail"
  <2>1. PICK j \in 1..Len(es) : es[j].e \in Ends
    BY <1>4, KindsAre DEF Preceded
  <2> QED BY <2>1 DEF Seen
<1> QED BY <1>2, <1>3, <1>4

\* A submission that is played: the end-file of what it replaces is awaited.
LEMMA PlaySends ==
  ASSUME NEW r, Typed(r), Follows(r, TRUE), NEW es, es = r.evs \o EndOf(r, "stop"),
         NEW b \in Events, b.e = "pos", b.at = 1, NEW t, t = Append(es, b),
         NEW s, s.evs = t, s.list = s.slots, s.pos = 1, s.file = "loading", s.idx = 1, s.drain, ~s.quit,
         ~s.began, s.arm = IdleArm, s.active = r.active, Close(s), s.list # Nothing
  PROVE  Follows(s, TRUE)
<1>0. Played(r) /\ r.evs \in Seq(Events) /\ MpvAt(s) = 1 /\ s.arm.at = "idle"
  BY IdleArmIs DEF Follows, Typed, MpvAt
<1>1. /\ es \in Seq(Events) /\ ~Seen(es, Outs)
      /\ Between(es, Starts, Ends, Fails) /\ Between(es, Leaves, Starts, Eofs) /\ Followed(es, Starts, Ends)
      /\ FailsFirst(es) <=> FailsFirst(r.evs)
      /\ r.file = "none" => es = r.evs
      /\ r.file # "none" => Seen(es, Ends)
  BY <1>0, LeftSent
<1>2. /\ t \in Seq(Events)
      /\ Seen(t, Starts) <=> Seen(es, Starts)
      /\ Seen(t, Ends) <=> Seen(es, Ends)
      /\ Seen(t, Outs) <=> Seen(es, Outs)
      /\ Followed(t, Starts, Ends) <=> Followed(es, Starts, Ends)
      /\ Followed(t, Past, Moves) /\ FollowedBut(t, Past, Moves)
      /\ Preceded(t, Ends, Fails) <=> Preceded(es, Ends, Fails)
      /\ Between(t, Starts, Ends, Fails) <=> Between(es, Starts, Ends, Fails)
      /\ Between(t, Leaves, Starts, Eofs) <=> Between(es, Leaves, Starts, Eofs)
      /\ LastPos(t, b.at)
      /\ FailsFirst(t) <=> FailsFirst(es)
  BY <1>1, MoveSent
<1>3. Played(s)
  BY <1>1, <1>2 DEF Played
<1>4. Listed(s)
  BY <1>0, <1>2 DEF Listed
<1>5. ASSUME ~Doomed(s) PROVE Driven(s, TRUE)
  <2>1. ~FailsFirst(es)
    BY <1>2, <1>5 DEF Doomed
  <2>2. Preceded(es, Ends, Fails)
    BY <1>1, <2>1, RulesOrder
  <2>3. Drained(s)
    <3>1. ~Seen(t, Ends) => ~Seen(t, Starts)
      BY <1>1, <1>2, NoneFollowed
    <3> QED BY <1>2, <2>2, <3>1 DEF Drained
  <2>4. Idle(s) /\ Adopts(s)
    BY <1>0 DEF Idle, Adopts
  <2>5. ASSUME r.active PROVE Running(s)
    <3>1. CASE r.file = "none"
      <4>1. ~Doomed(r) /\ r.list # Nothing
        BY <1>1, <2>1, <2>5 DEF Doomed, Follows
      <4>2. LastIs(r.evs, Past)
        BY <2>5, <3>1, <4>1 DEF Follows, Driven, Active, Running
      <4>3. Seen(es, Ends)
        BY <1>0, <1>1, <2>2, <3>1, <4>2, LastSeen, PastSeen
      <4> QED BY <1>2, <4>3 DEF Running
    <3>2. CASE r.file # "none"
      BY <1>1, <1>2, <3>2 DEF Running
    <3> QED BY <3>1, <3>2
  <2>6. Active(s, TRUE) \/ ~r.active
    BY <1>0, <2>4, <2>5 DEF Active
  <2>7. Inactive(s) \/ r.active
    BY <1>0, <2>4 DEF Inactive
  <2> QED BY <2>3, <2>6, <2>7 DEF Driven
<1> QED BY <1>3, <1>4, <1>5 DEF Follows

\* A submission in the playlist projection.
LEMMA PlayFollows ==
  ASSUME NEW g \in Nat \ {0}, NEW r, Typed(r), Entry(r), Live(r), Follows(r, TRUE), NEW q \in Queues
  PROVE  Follows(PlayQueue(SubmissionAccepted(r, g), q), TRUE)
<1> DEFINE es == r.evs \o EndOf(r, "stop")
           m  == Ev("pos", 1)
           f  == SubmissionAccepted(r, g)
           a  == MpvStop(f)
           b  == MpvLoad(a, q)
           c  == [b EXCEPT !.slots = q, !.idx = 1, !.standalone = Standalone(q), !.quit = FALSE,
                           !.dark = ~f.active]
           d  == BeginItem(c)
<1>0. PlayQueue(f, q) = d
  BY DEF PlayQueue
<1>1. /\ Typed(f) /\ SameMpv(r, f)
      /\ f.evs = r.evs /\ f.active = r.active /\ f.identity = g /\ f.ended = 0 /\ ~f.began
  <2>1. Typed(f)
    BY IdleArmIs DEF SubmissionAccepted, Typed, Fields
  <2> QED BY <2>1 DEF SubmissionAccepted, Typed, Fields, SameMpv
<1> HIDE DEF f
<1>2. EndOf(f, "stop") = EndOf(r, "stop") /\ f.up
  BY <1>1 DEF EndOf, SameMpv, Live
<1>3. es \in Seq(Events) /\ m \in Events /\ m.e = "pos" /\ m.at = 1
      /\ es \o Nothing = es /\ es \o <<m>> = Append(es, m)
  <2>1. es \in Seq(Events) /\ m \in Events /\ m.e = "pos" /\ m.at = 1
    BY MovedSent
  <2> HIDE DEF es, m
  <2> QED BY <2>1, SentIs
<1>4. /\ Typed(a) /\ a.evs = es /\ a.list = Nothing /\ a.pos = 0 /\ a.file = "none" /\ a.up
      /\ a.active = r.active /\ a.identity = g /\ a.ended = 0 /\ ~a.began
  <2> HIDE DEF es, m
  <2> DEFINE x == [f EXCEPT !.evs = es, !.list = Nothing, !.pos = 0, !.file = "none"]
  <2>1. a = x
    BY <1>1, <1>2 DEF MpvStop, es
  <2>2. Typed(x)
    BY <1>1, <1>3, NothingIs DEF Typed, Fields
  <2>3. /\ x.evs = es /\ x.list = Nothing /\ x.pos = 0 /\ x.file = "none" /\ x.up
        /\ x.active = r.active /\ x.identity = g /\ x.ended = 0 /\ ~x.began
    BY <1>1, <1>2 DEF Typed, Fields
  <2> QED BY <2>1, <2>2, <2>3
<1> HIDE DEF a
<1>5. EndOf(a, "stop") = Nothing /\ PosOf(a, 1) = <<m>>
  BY <1>4 DEF EndOf, PosOf
<1> HIDE DEF es, m
<1>6. /\ Typed(b) /\ b.evs = Append(es, m) /\ b.list = q /\ b.pos = 1 /\ b.file = "loading"
      /\ b.active = r.active /\ b.identity = g /\ b.ended = 0 /\ ~b.began
  <2> DEFINE t == Append(es, m)
             x == [a EXCEPT !.evs = t, !.list = q, !.pos = 1, !.file = "loading"]
  <2>1. b = x
    BY <1>3, <1>4, <1>5 DEF MpvLoad
  <2>2. t \in Seq(Events)
    BY <1>3
  <2> HIDE DEF t
  <2>3. Typed(x)
    BY <1>4, <2>2, QueuesAre DEF Typed, Fields
  <2>4. /\ x.evs = t /\ x.list = q /\ x.pos = 1 /\ x.file = "loading"
        /\ x.active = r.active /\ x.identity = g /\ x.ended = 0 /\ ~x.began
    BY <1>4 DEF Typed, Fields
  <2> QED BY <2>1, <2>3, <2>4 DEF t
<1> HIDE DEF b
<1>7. /\ Typed(c) /\ c.evs = b.evs /\ c.list = q /\ c.pos = 1 /\ c.file = "loading" /\ c.slots = q /\ c.idx = 1
      /\ ~c.quit /\ c.active = r.active /\ c.identity = g /\ c.ended = 0 /\ ~c.began
  BY <1>6, QueuesAre DEF Typed, Fields
<1> HIDE DEF c
<1>8. /\ d.evs = b.evs /\ d.list = q /\ d.pos = 1 /\ d.file = "loading" /\ d.slots = q /\ d.idx = 1
      /\ ~d.quit /\ d.active = r.active /\ d.identity = g /\ d.ended = 0 /\ ~d.began
      /\ d.drain /\ d.arm = IdleArm
  BY <1>7 DEF BeginItem, Typed, Fields
<1> HIDE DEF d
<1>9. Close(d) /\ q # Nothing
  BY <1>8, QueuesAre DEF Close
<1>10. Follows(d, TRUE)
  BY <1>3, <1>6, <1>8, <1>9, PlaySends DEF es
<1> QED BY <1>0, <1>10 DEF f

\* A book that could not be loaded: the run is parked, inactive, mpv idle.
LEMMA AppendFollows ==
  ASSUME NEW r, Typed(r), Live(r), Follows(r, TRUE), NEW slot, NEW load \in {"ok", "prepare", "install"},
         Live(CmdAppend(r, slot, load))
  PROVE  Follows(CmdAppend(r, slot, load), TRUE)
<1> DEFINE why  == Opening(r, load)
           a    == NotInstalled(r, why)
           b    == MpvStop(a)
           c    == BeginItem(b)
           lost == EndRun(c)
           up   == Installed(r, r.idx)
           more == [up EXCEPT !.slots = Append(up.slots, slot)]
           book == EnterActiveFile(more)
           es   == r.evs \o EndOf(r, "stop")
<1>0. why \in {"ok", "prepare", "install"} /\ r.proj = "playlist"
  BY DEF Opening, Live
<1>1. /\ why = "ok" => CmdAppend(r, slot, load) = book
      /\ why = "prepare" => CmdAppend(r, slot, load) = r
      /\ why = "install" => CmdAppend(r, slot, load) = lost
  BY <1>0 DEF CmdAppend, Promote, ParkAndEnd
<1> HIDE DEF why
<1>2. book.proj = "file"
  <2>1. Shape(r)
    BY DEF Shape, Typed
  <2>2. Shape(up)
    BY <2>1, FilesAlike DEF Alike
  <2> HIDE DEF up
  <2>3. Shape(more)
    BY <2>2 DEF Shape, Fields
  <2> HIDE DEF more
  <2> QED BY <2>3 DEF EnterActiveFile, Shape, Fields
<1>3. why = "ok" => ~Live(CmdAppend(r, slot, load))
  BY <1>1, <1>2 DEF Live
<1>4. why = "prepare" => Follows(CmdAppend(r, slot, load), TRUE)
  BY <1>1
<1>5. CASE why = "install"
  <2>0. es \in Seq(Events)
    BY MovedSent
  <2>1. /\ Typed(a) /\ a.evs = r.evs /\ a.file = r.file /\ a.up /\ a.quit = r.quit /\ ~a.active
    BY <1>5 DEF NotInstalled, Typed, Fields, Live
  <2> HIDE DEF a
  <2>2. EndOf(a, "stop") = EndOf(r, "stop")
    BY <2>1 DEF EndOf
  <2>3. Typed(b) /\ b.evs = es /\ b.file = "none" /\ b.list = Nothing /\ b.quit = r.quit /\ ~b.active
    <3> HIDE DEF es
    <3> DEFINE x == [a EXCEPT !.evs = es, !.list = Nothing, !.pos = 0, !.file = "none"]
    <3>1. b = x
      BY <2>1, <2>2 DEF MpvStop, es
    <3>2. Typed(x) /\ x.evs = es /\ x.file = "none" /\ x.list = Nothing /\ x.quit = r.quit /\ ~x.active
      BY <2>0, <2>1, NothingIs DEF Typed, Fields
    <3> QED BY <3>1, <3>2
  <2> HIDE DEF b
  <2>4. /\ Typed(c) /\ c.evs = es /\ c.file = "none" /\ c.list = Nothing /\ c.quit = r.quit /\ ~c.active
        /\ c.arm = IdleArm
    BY <2>3, IdleArmIs DEF BeginItem, Typed, Fields
  <2> HIDE DEF c
  <2>5. /\ lost.evs = es /\ lost.file = "none" /\ lost.list = Nothing /\ lost.quit = r.quit /\ ~lost.active
        /\ lost.arm = IdleArm
    BY <2>4 DEF EndRun, Typed, Fields
  <2> HIDE DEF lost
  <2>6. Played(r)
    BY DEF Follows
  <2>7. /\ ~Seen(es, Outs) /\ Between(es, Starts, Ends, Fails) /\ Between(es, Leaves, Starts, Eofs)
        /\ Followed(es, Starts, Ends)
    BY <2>6, LeftSent
  <2>8. Follows(lost, TRUE)
    BY <2>5, <2>6, <2>7 DEF Follows, Played
  <2> QED BY <1>1, <1>5, <2>8
<1> QED BY <1>0, <1>3, <1>4, <1>5

\* A command is handled.
LEMMA HandleCommandFollows == ASSUME IInv, FInv, HandleCommand PROVE FInv'
<1> DEFINE cmd == Head(chan)
<1>1. /\ run.at = "running" /\ tick = "commands" /\ tick' = tick /\ chan # Nothing
  BY DEF HandleCommand
<1>2. PICK load \in {"ok", "prepare", "install"} :
        run' = CASE cmd.c = "submit" -> CmdSubmit(run, gen, cmd.q, load)
                 [] cmd.c = "jump"   -> CmdJump(run, cmd.slot, cmd.resume, load)
                 [] cmd.c = "append" -> CmdAppend(run, cmd.slot, load)
  BY DEF HandleCommand
<1>3. /\ RunInv(run, gen) /\ Typed(run) /\ Entry(run) /\ gen \in Nat \ {0}
      /\ Shape(run)
  BY <1>1 DEF IInv, Around, RunInv, Ledger, Booked, Typed, Shape
<1>4. /\ cmd.c \in {"submit", "jump", "append"} /\ cmd.resume \in BOOLEAN
      /\ cmd.c = "submit" => cmd.q \in Queues
      /\ cmd.c = "append" => cmd.slot \in Slots
  <2>1. cmd \in Commands
    BY <1>1, HeadsAre DEF IInv, Around
  <2>2. Extra \in Slots
    BY DEF Slots
  <2> HIDE DEF cmd
  <2> QED BY <2>1, <2>2 DEF Commands
<1> HIDE DEF cmd
<1>5. Live(run) => Follows(run, TRUE)
  BY <1>1 DEF FInv
<1>6. CASE cmd.c = "submit"
  <2> DEFINE f == SubmissionAccepted(run, gen)
  <2>1. run' = IF run.proj = "file" \/ HasBook(cmd.q) THEN ReplaceWith(f, cmd.q, load) ELSE PlayQueue(f, cmd.q)
    BY <1>2, <1>6 DEF CmdSubmit
  <2>2. run'.at = "running"
    BY <1>1, <1>2, <1>3, <1>4, <1>6, SubmitStep
  <2>3. Alike(run, f)
    BY <1>3 DEF SubmissionAccepted, Alike, Shape, Fields
  <2> HIDE DEF f
  <2>4. CASE run.proj = "file" \/ HasBook(cmd.q)
    <3>1. run'.proj = "file"
      BY <2>1, <2>3, <2>4, CommandsAlike DEF Alike
    <3> QED BY <2>2, <3>1 DEF FInv, Live
  <2>5. CASE ~(run.proj = "file" \/ HasBook(cmd.q))
    <3>1. run' = PlayQueue(f, cmd.q)
      BY <2>1, <2>5
    <3>2. Alike(run, PlayQueue(f, cmd.q))
      <4> DEFINE a == MpvStop(f)
                 b == MpvLoad(a, cmd.q)
                 c == [b EXCEPT !.slots = cmd.q, !.idx = 1, !.standalone = Standalone(cmd.q), !.quit = FALSE,
                                !.dark = ~f.active]
                 d == BeginItem(c)
      <4>1. Alike(f, a)
        BY <2>3, PartsAlike DEF Alike
      <4> HIDE DEF a
      <4>2. Alike(a, b)
        BY <4>1, PartsAlike DEF Alike
      <4> HIDE DEF b
      <4>3. Alike(b, c)
        BY <4>2 DEF Alike, Shape, Fields
      <4> HIDE DEF c
      <4>4. Alike(c, d)
        BY <4>3, PartsAlike DEF Alike
      <4> HIDE DEF d
      <4>5. Alike(run, d)
        BY <2>3, <4>1, <4>2, <4>3, <4>4 DEF Alike
      <4> QED BY <4>5 DEF PlayQueue, a, b, c, d
    <3>3. Live(run') => Live(run)
      BY <1>1, <3>1, <3>2 DEF Live, Alike
    <3>4. Live(run) => Follows(run', TRUE)
      BY <1>3, <1>4, <1>5, <1>6, <3>1, PlayFollows DEF f
    <3> QED BY <1>1, <2>2, <3>3, <3>4 DEF FInv
  <2> QED BY <2>4, <2>5
<1>7. CASE cmd.c = "jump"
  <2>1. run' = CmdJump(run, cmd.slot, cmd.resume, load)
    BY <1>2, <1>7
  <2>2. run'.at = "running"
    BY <1>1, <1>3, <1>4, <2>1, JumpStep
  <2>3. Live(run') => Live(run)
    <3>1. Alike(run, run')
      BY <1>3, <2>1, CommandsAlike
    <3> QED BY <1>1, <3>1 DEF Live, Alike
  <2>4. Live(run) => Follows(run', TRUE)
    BY <1>3, <1>4, <1>5, <2>1, JumpFollows
  <2> QED BY <1>1, <2>2, <2>3, <2>4 DEF FInv
<1>8. CASE cmd.c = "append"
  <2>1. run' = CmdAppend(run, cmd.slot, load)
    BY <1>2, <1>8
  <2>2. run'.at = "running"
    BY <1>1, <1>3, <1>4, <1>8, <2>1, AppendStep
  <2>3. Live(run') => Live(run)
    <3>0. \/ CmdAppend(run, cmd.slot, load).proj = "file"
          \/ CmdAppend(run, cmd.slot, load) = run
          \/ Alike(run, CmdAppend(run, cmd.slot, load))
      BY <1>3, CommandsAlike
    <3>1. run'.proj = "file" \/ run' = run \/ Alike(run, run')
      BY <2>1, <3>0
    <3> QED BY <1>1, <3>1 DEF Live, Alike
  <2>4. Live(run') => Follows(run', TRUE)
    BY <1>3, <1>5, <2>1, <2>3, AppendFollows
  <2> QED BY <1>1, <2>2, <2>4 DEF FInv
<1> QED BY <1>4, <1>6, <1>7, <1>8

-----------------------------------------------------------------------------
(* The loop and the start.                                                 *)

\* With nothing unread a run that is to come to mpv's entry is there.
LEMMA QuietHolds ==
  ASSUME NEW r, Typed(r), r.evs = Nothing, Follows(r, FALSE)
  PROVE  Follows(r, TRUE)
<1> SUFFICES ASSUME r.list # Nothing, ~Doomed(r), r.active PROVE Adopts(r)
  BY DEF Follows, Driven, Active
<1>1. Active(r, FALSE)
  BY DEF Follows, Driven
<1>2. /\ ~Then(r.evs, Ends, Moves) /\ ~Seen(r.evs, Moves) /\ ~Then(r.evs, Settles, Moves)
  BY NothingRules
<1>3. CASE r.arm.at = "idle"
  BY <1>1, <1>2, <1>3 DEF Active, Idle, Adopts
<1>4. CASE r.arm.at = "pending"
  BY <1>1, <1>4 DEF Active, Pending
<1>5. CASE r.arm.at = "resume"
  BY <1>1, <1>2, <1>5 DEF Active, Resume, Adopts
<1>6. r.arm.at \in {"idle", "pending", "resume"}
  BY DEF Typed, Arms
<1> QED BY <1>3, <1>4, <1>5, <1>6

\* The loop's own steps leave the run alone, or quit it.
LEMMA TicksFollow == ASSUME IInv, FInv, CheckStop \/ CheckQuit \/ EndTick PROVE FInv'
<1>1. run.at = "running" /\ Typed(run)
  BY DEF CheckStop, CheckQuit, EndTick, IInv, RunInv
<1>2. CASE CheckStop
  <2> DEFINE a == [run EXCEPT !.quit = TRUE, !.quitting = run.up]
  <2>1. tick = "commands" /\ tick' = "stop" /\ (run' = a \/ run' = run)
    BY <1>2 DEF CheckStop
  <2>2. a.at = run.at /\ ~Live(a)
    <3>1. a.at = run.at /\ a.up = run.up /\ a.quitting = run.up
      BY <1>1 DEF Typed, Fields
    <3> QED BY <3>1 DEF Live
  <2> QED BY <1>1, <2>1, <2>2 DEF FInv
<1>3. CASE CheckQuit
  <2> DEFINE a == EndRun(run)
             b == ExitRun(a)
  <2>1. tick = "stop" /\ tick' = "events" /\ (run' = Gone(b) \/ run' = run)
    BY <1>3 DEF CheckQuit
  <2>2. Follows(run, TRUE) => Follows(run, FALSE)
    BY DEF Follows, Driven, Active
  <2>3. Shape(run)
    BY <1>1 DEF Typed, Shape
  <2>4. Shape(a)
    BY <2>3, PartsAlike DEF Alike
  <2> HIDE DEF a
  <2>5. Shape(b) /\ b.at = "exited"
    BY <2>4 DEF ExitRun, Shape, Fields
  <2> HIDE DEF b
  <2>6. ~Live(Gone(b))
    BY <2>5, GoneIs DEF Live
  <2>7. Gone(b).at = "exited"
    <3> DEFINE c == [b EXCEPT !.evs = Nothing]
               d == MpvDown(c, Nothing)
    <3>1. Gone(b) = d
      BY <2>5 DEF Gone
    <3>2. Shape(c) /\ c.at = "exited"
      BY <2>5 DEF Shape, Fields
    <3> HIDE DEF c
    <3>3. d.at = "exited"
      BY <3>2 DEF MpvDown, Shape, Fields
    <3> QED BY <3>1, <3>3
  <2> QED BY <1>1, <2>1, <2>2, <2>6, <2>7 DEF FInv
<1>4. CASE EndTick
  BY <1>1, <1>4, QuietHolds DEF EndTick, FInv
<1> QED BY <1>2, <1>3, <1>4

\* mpv comes up on the first entry of the queue, and says so.
LEMMA StartFollows ==
  ASSUME NEW s, s.list = s.slots, s.list # Nothing, s.pos = 1, s.file = "loading", s.idx = 1, ~s.drain, ~s.quit,
         s.arm = IdleArm, Close(s), NEW b \in Events, b.e = "pos", b.at = 1, s.evs = Append(Nothing, b)
  PROVE  Follows(s, TRUE)
<1> DEFINE t == Append(Nothing, b)
<1>0. Nothing \in Seq(Events) /\ MpvAt(s) = 1 /\ s.arm.at = "idle"
  BY NothingIs, IdleArmIs DEF MpvAt
<1>1. /\ ~Seen(Nothing, Outs) /\ Between(Nothing, Starts, Ends, Fails) /\ Between(Nothing, Leaves, Starts, Eofs)
      /\ Followed(Nothing, Starts, Ends)
  BY NothingRules
<1>2. s.evs = t /\ \A es : es = Nothing => t = Append(es, b)
  OBVIOUS
<1> HIDE DEF t
<1>3. /\ Seen(t, Outs) <=> Seen(Nothing, Outs)
      /\ Followed(t, Starts, Ends) <=> Followed(Nothing, Starts, Ends)
      /\ Followed(t, Past, Moves) /\ FollowedBut(t, Past, Moves)
      /\ Between(t, Starts, Ends, Fails) <=> Between(Nothing, Starts, Ends, Fails)
      /\ Between(t, Leaves, Starts, Eofs) <=> Between(Nothing, Leaves, Starts, Eofs)
      /\ LastPos(t, b.at)
  <2>1. t = Append(Nothing, b)
    BY <1>2
  <2> HIDE DEF Nothing
  <2> QED BY <1>0, <2>1, MoveSent
<1>4. Played(s)
  BY <1>1, <1>2, <1>3 DEF Played
<1>5. Listed(s)
  BY <1>0, <1>2, <1>3 DEF Listed
<1>6. Driven(s, TRUE)
  BY <1>0 DEF Driven, Drained, Active, Inactive, Running, Idle, Adopts
<1> QED BY <1>4, <1>5, <1>6 DEF Follows

\* The thread enters its loop.
LEMMA RunStartsFollows == ASSUME IInv, FInv, RunStarts PROVE FInv'
<1> DEFINE a    == [run EXCEPT !.up = TRUE]
           proj == IF HasBook(run.slots) THEN "file" ELSE "playlist"
           list == IF HasBook(run.slots) THEN <<run.slots[1]>> ELSE run.slots
           b    == MpvLoad(a, list)
           c    == [b EXCEPT !.at = "running", !.identity = gen, !.proj = proj]
           m    == Ev("pos", 1)
           t    == Append(Nothing, m)
<1>1. run.at = "starting" /\ run' = c
  BY DEF RunStarts
<1>2. /\ Typed(run) /\ run.arm = IdleArm /\ run.idx = 1 /\ Placed(run) /\ Entry(run) /\ run.ended = 0
      /\ ~run.up /\ gen \in Nat \ {0}
  BY <1>1 DEF IInv, Around, RunInv, Ledger
<1>3. run.evs = Nothing /\ ~run.drain /\ ~run.quit /\ ~run.quitting
  BY <1>1 DEF FInv
<1>4. run.file = "none" /\ run.pos = 0
  BY <1>2 DEF Entry
<1>5. /\ Typed(a) /\ a.evs = Nothing /\ a.file = "none" /\ a.pos = 0 /\ a.up /\ a.slots = run.slots
      /\ a.idx = 1 /\ ~a.drain /\ ~a.quit /\ a.arm = IdleArm /\ a.ended = 0
  BY <1>2, <1>3, <1>4 DEF Typed, Fields
<1> HIDE DEF a
<1>6. m \in Events /\ m.e = "pos" /\ m.at = 1
  BY EventsAre DEF Ev, Kinds
<1>7. a.evs \o EndOf(a, "stop") \o PosOf(a, 1) = t /\ t \in Seq(Events)
  <2>1. EndOf(a, "stop") = Nothing /\ PosOf(a, 1) = <<m>>
    BY <1>5 DEF EndOf, PosOf
  <2>2. Nothing \in Seq(Events)
    BY NothingIs
  <2> HIDE DEF Nothing, m
  <2>3. Nothing \o Nothing = Nothing /\ Nothing \o <<m>> = t /\ t \in Seq(Events)
    BY <1>6, <2>2, SentIs
  <2> QED BY <1>5, <2>1, <2>3
<1> HIDE DEF m, t, list, proj
<1>8. /\ b = [a EXCEPT !.evs = t, !.list = list, !.pos = 1, !.file = "loading"]
  BY <1>5, <1>7 DEF MpvLoad
<1>9. /\ Shape(b) /\ b.evs = t /\ b.list = list /\ b.pos = 1 /\ b.file = "loading" /\ b.slots = run.slots
      /\ b.idx = 1 /\ ~b.drain /\ ~b.quit /\ b.arm = IdleArm /\ b.ended = 0
  BY <1>5, <1>8 DEF Typed, Fields, Shape
<1> HIDE DEF b
<1>10. /\ c.evs = t /\ c.list = list /\ c.pos = 1 /\ c.file = "loading" /\ c.slots = run.slots
       /\ c.idx = 1 /\ ~c.drain /\ ~c.quit /\ c.arm = IdleArm /\ c.ended = 0
       /\ c.identity = gen /\ c.at = "running" /\ c.proj = proj
  BY <1>9 DEF Shape, Fields
<1> HIDE DEF c
<1>11. ASSUME proj = "playlist" PROVE Follows(c, TRUE)
  <2>1. list = run.slots /\ run.slots # Nothing
    BY <1>2, <1>11 DEF list, proj, Placed, Nothing
  <2>2. Close(c)
    BY <1>2, <1>10 DEF Close
  <2> QED BY <1>6, <1>10, <2>1, <2>2, StartFollows DEF t
<1>12. Follows(c, TRUE) => Follows(c, FALSE)
  BY DEF Follows, Driven, Active
<1> QED BY <1>1, <1>10, <1>11, <1>12 DEF FInv, Live

\* A run that is to start has heard nothing, at first and after a cold start.
LEMMA NoRunFollows ==
  /\ Init => FInv
  /\ IInv /\ ColdStart => FInv'
<1>1. /\ Shape(NoRun) /\ NoRun.at = "none" /\ NoRun.evs = Nothing /\ ~NoRun.drain /\ ~NoRun.quit
      /\ ~NoRun.quitting
  BY NoRunIs DEF NoRun, Typed, Shape
<1>2. Init => FInv
  BY <1>1 DEF Init, FInv, Live
<1>3. ASSUME ColdStart PROVE FInv'
  <2> DEFINE a == [NoRun EXCEPT !.at = "starting", !.slots = joining, !.standalone = Standalone(joining),
                                !.active = TRUE]
  <2>1. run' = a
    BY <1>3 DEF ColdStart
  <2>2. a.at = "starting" /\ a.evs = Nothing /\ ~a.drain /\ ~a.quit /\ ~a.quitting
    BY <1>1 DEF Shape, Fields
  <2> HIDE DEF a
  <2> QED BY <2>1, <2>2 DEF FInv, Live
<1> QED BY <1>2, <1>3

\* Every step keeps it.
LEMMA FollowsHolds == IInv /\ FInv /\ [Next]_vars => FInv'
<1> SUFFICES ASSUME IInv, FInv, [Next]_vars PROVE FInv'
  OBVIOUS
<1>1. CASE RunStep
  BY <1>1, HandleCommandFollows, HandleEventFollows, TicksFollow, RunStartsFollows DEF RunStep
<1>2. CASE MpvActs
  BY <1>2, MpvActsFollow
<1>3. CASE StartFails
  <2>1. run'.at = "exited"
    BY <1>3 DEF StartFails, IInv, RunInv, Typed, Fields
  <2> QED BY <2>1 DEF FInv, Live
<1>4. CASE ColdStart
  BY <1>4, NoRunFollows
<1>5. CASE SubmitLive \/ SubmitCold \/ Stop \/ Ask \/ UNCHANGED vars
  <2>1. UNCHANGED <<run, tick>>
    BY <1>5 DEF SubmitLive, SubmitCold, Stop, Ask, vars, control
  <2> QED BY <2>1 DEF FInv
<1> QED BY <1>1, <1>2, <1>3, <1>4, <1>5 DEF Next, Controller

\* Once the run has read everything, the slot it names is the entry mpv plays,
\* whatever mpv went on to, failed on or was jumped away from while the events
\* of it were unread (on_playlist_pos, on_end_file, arm_jump).
THEOREM RunAlwaysFollows == Spec => []RunFollowsMpv
<1>1. IInv /\ FInv => RunFollowsMpv
  <2> SUFFICES ASSUME IInv, FInv, Settled, run.proj = "playlist", run.file = "playing"
               PROVE  run.list[run.pos] = run.slots[run.idx]
    BY DEF RunFollowsMpv
  <2>1. run.evs = Nothing /\ Typed(run) /\ Entry(run) /\ Follows(run, TRUE)
    BY DEF Settled, FInv, Live, IInv, RunInv
  <2>2. run.list # Nothing
    BY <2>1 DEF Entry, Nothing
  <2>3. run.list = run.slots /\ MpvAt(run) = run.pos
    BY <2>1, <2>2 DEF Follows, Listed, MpvAt
  <2>4. /\ ~Doomed(run) /\ ~Seen(run.evs, Starts) /\ ~Seen(run.evs, Moves)
        /\ ~Then(run.evs, Ends, Moves) /\ ~Then(run.evs, Leaves, Moves)
        /\ ~Then3(run.evs, Ends, Leaves, Moves)
    BY <2>1, NothingRules DEF Doomed
  <2>5. Driven(run, TRUE)
    BY <2>1, <2>2, <2>4 DEF Follows
  <2>6. run.idx = MpvAt(run)
    <3>1. CASE run.active
      BY <2>4, <2>5, <3>1 DEF Driven, Active, Adopts
    <3>2. CASE ~run.active
      <4>1. run.arm.at = "idle"
        BY <2>1, <2>4, <2>5, <3>2 DEF Driven, Inactive, Typed, Arms
      <4> QED BY <2>4, <2>5, <3>2, <4>1 DEF Driven, Inactive, Idle
    <3> QED BY <3>1, <3>2
  <2> QED BY <2>3, <2>6
<1> QED BY <1>1, InitHolds, StepHolds, NoRunFollows, FollowsHolds, PTL DEF Spec
=============================================================================

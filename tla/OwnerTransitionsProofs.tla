----------------------- MODULE OwnerTransitionsProofs -----------------------
(***************************************************************************)
(* Proofs about OwnerTransitions, for any number of clients, slots, jumps  *)
(* and edits: types, the origin that is tracked beside the queued jump,    *)
(* and the promise of LatestJump.                                          *)
(***************************************************************************)
EXTENDS OwnerTransitions, SequenceLemmas, TLAPS

-----------------------------------------------------------------------------
(* Queue values keep their type.                                           *)

\* The ids of a slot list are slot ids.
LEMMA IdsType == ASSUME NEW s \in Seq(Slot) PROVE Ids(s) \subseteq Nat
<1>1. \A i \in DOMAIN s : s[i] \in Slot
  BY LenProperties
<1> QED BY <1>1 DEF Ids, Slot, SlotId

\* A live id has an index.
LEMMA SlotIndexLive ==
    ASSUME NEW s \in Seq(Slot), NEW id \in Ids(s)
    PROVE  SlotIndex(s, id) \in 1..Len(s) /\ SlotAt(s, id) \in Slot
<1>1. \E i \in DOMAIN s : s[i].id = id
  BY DEF Ids
<1>2. SlotIndex(s, id) \in DOMAIN s
  BY <1>1 DEF SlotIndex
<1> QED BY <1>2, LenProperties DEF SlotAt

\* set_active_slot and clear.
LEMMA SetActiveType ==
    ASSUME NEW q \in QueueType, NEW id \in SlotId
    PROVE  SetActive(q, id, 0) \in QueueType /\ Clear(q, 0) \in QueueType
BY EmptySeq DEF SetActive, Clear, QueueType, SlotId

\* The two removals.
LEMMA RemoveType ==
    ASSUME NEW q \in QueueType, NEW id
    PROVE  RemoveConfirmed(q, id, 0) \in QueueType /\ RemoveExisting(q, id, 0) \in QueueType
<1> DEFINE t == RemoveAt(q.slots, SlotIndex(q.slots, id))
<1>0. q.slots \in Seq(Slot) /\ q.active \in SlotId \cup {NoSlot}
  BY DEF QueueType
<1>1. CASE id \notin Ids(q.slots)
  BY <1>1 DEF RemoveConfirmed, RemoveExisting
<1>2. CASE id \in Ids(q.slots)
  <2>1. t \in Seq(Slot)
    BY <1>0, <1>2, SlotIndexLive, RemoveAtProperties
  <2> DEFINE a == IF q.active = id THEN NoSlot ELSE q.active
             heir == IF t = << >> THEN NoSlot
                     ELSE IF SlotIndex(q.slots, id) <= Len(t) THEN t[SlotIndex(q.slots, id)].id
                     ELSE t[Len(t)].id
             b == IF q.active = id THEN heir ELSE q.active
  <2>2. a \in SlotId \cup {NoSlot}
    BY <1>0
  <2>3. heir \in SlotId \cup {NoSlot}
    <3> DEFINE i == SlotIndex(q.slots, id)
    <3>1. i \in Nat \ {0}
      BY <1>0, <1>2, SlotIndexLive, LenProperties
    <3>2. \A k \in 1..Len(t) : t[k].id \in SlotId
      <4> HIDE DEF t
      <4>1. \A k \in 1..Len(t) : t[k] \in Slot
        BY <2>1, ElementOfSeq
      <4> QED BY <4>1 DEF Slot
    <3>3. t # << >> => Len(t) \in Nat \ {0}
      <4> HIDE DEF t
      <4> QED BY <2>1, EmptySeq
    <3> HIDE DEF i, t
    <3> QED BY <3>1, <3>2, <3>3 DEF i
  <2>4. b \in SlotId \cup {NoSlot}
    <3> HIDE DEF heir
    <3> QED BY <1>0, <2>3
  <2>5. RemoveConfirmed(q, id, 0) = [slots |-> t, active |-> a, revision |-> 0, next |-> q.next]
    BY <1>2 DEF RemoveConfirmed, QueueType
  <2>6. RemoveExisting(q, id, 0) = [slots |-> t, active |-> b, revision |-> 0, next |-> q.next]
    BY <1>2 DEF RemoveExisting, QueueType
  <2> HIDE DEF t, a, b
  <2> QED BY <2>1, <2>2, <2>4, <2>5, <2>6 DEF QueueType
<1> QED BY <1>1, <1>2

\* move_slot and reorder_slots.
LEMMA OrderType ==
    ASSUME NEW q \in QueueType, NEW id, NEW to \in Nat,
           NEW order \in [DOMAIN q.slots -> Ids(q.slots)]
    PROVE  Move(q, id, to, 0) \in QueueType /\ Reorder(q, order, 0) \in QueueType
<1>0. q.slots \in Seq(Slot) /\ Len(q.slots) \in Nat /\ DOMAIN q.slots = 1..Len(q.slots)
  BY LenProperties DEF QueueType
<1>1. Move(q, id, to, 0) \in QueueType
  <2>1. CASE id \notin Ids(q.slots)
    BY <2>1 DEF Move
  <2>2. CASE id \in Ids(q.slots)
    <3> DEFINE rest == RemoveAt(q.slots, SlotIndex(q.slots, id))
               at == IF to > Len(rest) THEN Len(rest) ELSE to
               t == InsertAt(rest, at + 1, SlotAt(q.slots, id))
    <3>1. rest \in Seq(Slot)
      BY <1>0, <2>2, SlotIndexLive, RemoveAtProperties
    <3>2. at + 1 \in 1..(Len(rest) + 1)
      <4> HIDE DEF rest
      <4> QED BY <3>1, LenProperties
    <3> HIDE DEF rest, at
    <3>3. t \in Seq(Slot)
      BY <1>0, <2>2, <3>1, <3>2, SlotIndexLive, InsertAtProperties
    <3>4. Move(q, id, to, 0) = [slots |-> t, active |-> q.active, revision |-> 0, next |-> q.next]
      BY <2>2 DEF Move, rest, at, QueueType
    <3> HIDE DEF t
    <3> QED BY <3>3, <3>4 DEF QueueType
  <2> QED BY <2>1, <2>2
<1>2. Reorder(q, order, 0) \in QueueType
  <2> DEFINE t == [i \in DOMAIN order |-> SlotAt(q.slots, order[i])]
  <2>1. t \in [1..Len(q.slots) -> Slot]
    BY <1>0, SlotIndexLive
  <2>2. t \in Seq(Slot)
    <3> HIDE DEF t
    <3> QED BY <1>0, <2>1, SeqDef
  <2>3. Reorder(q, order, 0) \in {q, [slots |-> t, active |-> q.active, revision |-> 0, next |-> q.next]}
    BY DEF Reorder, QueueType
  <2> HIDE DEF t
  <2> QED BY <2>2, <2>3 DEF QueueType
<1> QED BY <1>1, <1>2

\* insert
LEMMA InsertType ==
    ASSUME NEW q \in QueueType, NEW index \in Nat, NEW item \in Item
    PROVE  Insert(q, index, item, 0) \in QueueType
<1> DEFINE at == IF index > Len(q.slots) THEN Len(q.slots) ELSE index
           t == InsertAt(q.slots, at + 1, [id |-> q.next, item |-> item])
<1>0. q.slots \in Seq(Slot) /\ Len(q.slots) \in Nat /\ q.next \in Nat
  BY LenProperties DEF QueueType
<1>1. [id |-> q.next, item |-> item] \in Slot
  BY <1>0 DEF Slot, SlotId
<1>2. at + 1 \in 1..(Len(q.slots) + 1)
  BY <1>0
<1>3. t \in Seq(Slot)
  <2> HIDE DEF at
  <2> QED BY <1>0, <1>1, <1>2, InsertAtProperties
<1>4. Insert(q, index, item, 0) = [slots |-> t, active |-> q.active, revision |-> 0, next |-> q.next + 1]
  <2>1. Insert(q, index, item, 0) =
            [q EXCEPT !.slots = t, !.next = q.next + 1, !.revision = 0]
    BY DEF Insert
  <2> HIDE DEF t
  <2> QED BY <2>1 DEF QueueType
<1> HIDE DEF t
<1> QED BY <1>0, <1>3, <1>4 DEF QueueType

\* The queues that are installed whole.
LEMMA NewQueueType ==
    ASSUME NEW s \in Seq(Slot), NEW q \in NewQueues(s)
    PROVE  q \in QueueType
<1>1. PICK cursor \in DOMAIN s, n \in NextSlotIds(s) :
        q = [slots |-> s, active |-> s[cursor].id, revision |-> 0, next |-> n]
  BY DEF NewQueues
<1>2. Ids(s) \subseteq Nat /\ s[cursor].id \in Ids(s)
  BY IdsType DEF Ids
<1>3. n \in Nat
  BY <1>2 DEF NextSlotIds
<1> QED BY <1>1, <1>2, <1>3 DEF QueueType, SlotId

\* The slots of a client's or a server's item list.
LEMMA NumberedType ==
    ASSUME NEW items \in Playlists
    PROVE  Numbered(items) \in Seq(Slot)
<1>1. items \in Seq(Item)
  BY PlaylistsAssumption
<1>2. /\ DOMAIN items = 1..Len(items) /\ Len(items) \in Nat
      /\ \A i \in DOMAIN items : i \in Nat /\ items[i] \in Item
  BY <1>1, LenProperties
<1>3. Numbered(items) \in [1..Len(items) -> Slot]
  BY <1>2 DEF Numbered, Slot, SlotId
<1> QED BY <1>2, <1>3, SeqDef

-----------------------------------------------------------------------------
(* Types.                                                                  *)

OriginType == [request : Nat, client : Clients] \cup {NoOrigin}

\* What dispatching, editing and handling change, and what they leave alone.
HandledType ==
    /\ queue \in QueueType
    /\ generation \in Nat
    /\ observed \in SlotId \cup {NoSlot}
    /\ in_flight \in Transition \cup {NoTransition}
    /\ queued_latest \in Transition \cup {NoTransition}
    /\ deadline \in BOOLEAN
    /\ queued_transition_origin \in OriginType
    /\ run \in Run
    /\ commands \in Seq(Command)
RestType ==
    /\ lineage \in Nat
    /\ next_local_id \in Nat
    /\ requests \in [Clients -> Nat]
    /\ reports \in Seq(Report)

\* TypeOK in these two parts.
LEMMA TypeParts == TypeOK <=> HandledType /\ RestType
BY DEF TypeOK, HandledType, RestType, OriginType

\* The two parts after a step.
LEMMA TypePartsNext == HandledType' /\ RestType' => TypeOK'
BY DEF TypeOK, HandledType, RestType, OriginType

\* Player::send_command keeps the channel a sequence of commands.
LEMMA SendCommandType ==
    ASSUME commands \in Seq(Command), NEW c \in Command, SendCommand(c)
    PROVE  commands' \in Seq(Command)
BY AppendProperties DEF SendCommand

\* What is sent is a command.
LEMMA CommandType ==
    ASSUME NEW op \in {"submit", "append", "remove"}, NEW ids \in SUBSET SlotId,
           NEW t \in Transition
    PROVE  Edit(op, ids) \in Command /\ JumpTo(t) \in Command
BY DEF Edit, JumpTo, Command

\* The fresh run and no run.
LEMMA FreshRunType ==
    ASSUME NEW q \in QueueType
    PROVE  NoRun \in Run /\ [NoRun EXCEPT !.alive = TRUE, !.held = Ids(q.slots)] \in Run
<1>1. Ids(q.slots) \subseteq SlotId
  BY IdsType DEF QueueType, SlotId
<1> QED BY <1>1 DEF NoRun, Run

\* A submission starts a run.
LEMMA ColdStartType ==
    ASSUME HandledType, NEW q \in QueueType, ColdStart(q)
    PROVE  generation' \in Nat /\ run' \in Run /\ commands' \in Seq(Command)
<1>1. run' \in Run
  BY FreshRunType DEF ColdStart
<1>2. commands' \in Seq(Command)
  BY EmptySeq DEF ColdStart
<1> QED BY <1>1, <1>2 DEF ColdStart, HandledType

\* send_jump_or_cold_start.
LEMMA DeliverType ==
    ASSUME HandledType, NEW t \in Transition, NEW q \in QueueType,
           NEW obs \in SlotId \cup {NoSlot}, NEW behind \in Transition \cup {NoTransition},
           NEW origin \in OriginType, Deliver(t, q, obs, behind, origin)
    PROVE  HandledType'
<1>0. t.target \in SlotId /\ JumpTo(t) \in Command
  BY CommandType DEF Transition
<1>1. CASE run.alive
  <2>1. commands' \in Seq(Command)
    BY <1>0, <1>1, SendCommandType DEF Deliver, HandledType
  <2> QED BY <1>1, <2>1 DEF Deliver, HandledType
<1>2. CASE ~ run.alive
  <2>1. SetActive(q, t.target, 0) \in QueueType
    BY <1>0, SetActiveType
  <2>2. queue' \in QueueType /\ observed' \in SlotId \cup {NoSlot}
    BY <1>2, <2>1 DEF Deliver
  <2>3. generation' \in Nat /\ run' \in Run /\ commands' \in Seq(Command)
    <3>1. ColdStart(q) \/ RefuseQueueSlots
      BY <1>2 DEF Deliver
    <3> QED BY <3>1, ColdStartType DEF RefuseQueueSlots, HandledType
  <2> QED BY <1>2, <2>2, <2>3 DEF Deliver, ResetSlotJumps, HandledType, OriginType
<1> QED BY <1>1, <1>2

\* The origin of a transition.
LEMMA OriginOfType == ASSUME NEW t \in Transition PROVE Origin(t) \in OriginType
BY DEF Origin, OriginType, Transition

\* dispatch_slot_jump.
LEMMA DispatchType ==
    ASSUME HandledType, NEW t \in Transition, DispatchSlotJump(t)
    PROVE  HandledType'
<1>1. CASE in_flight = NoTransition
  <2>1. Deliver(t, queue, observed, queued_latest, queued_transition_origin)
    BY <1>1 DEF DispatchSlotJump
  <2> QED BY <2>1, DeliverType DEF HandledType
<1>2. CASE in_flight # NoTransition
  BY <1>2, OriginOfType DEF DispatchSlotJump, HandledType
<1> QED BY <1>1, <1>2

\* Settling or expiring the jump in flight.
LEMMA PromoteType ==
    ASSUME HandledType, NEW q \in QueueType, NEW obs \in SlotId \cup {NoSlot},
           Promote(q, obs)
    PROVE  HandledType'
<1>1. CASE queued_latest # NoTransition
  <2>1. Deliver(queued_latest, q, obs, NoTransition, NoOrigin)
    BY <1>1 DEF Promote
  <2>2. queued_latest \in Transition
    BY <1>1 DEF HandledType
  <2> QED BY <2>1, <2>2, DeliverType DEF OriginType
<1>2. CASE queued_latest = NoTransition
  BY <1>2 DEF Promote, ResetSlotJumps, HandledType, OriginType
<1> QED BY <1>1, <1>2

\* Player::stop leaves the run a run.
LEMMA StopRunType == ASSUME run \in Run, StopRun PROVE run' \in Run
<1>1. run' = [run EXCEPT !.stopping = run.alive] /\ run.alive \in BOOLEAN
  BY DEF StopRun, Run
<1> QED BY <1>1 DEF Run

\* A reset forgets the jumps.
LEMMA ResetType ==
    ASSUME ResetSlotJumps
    PROVE  /\ in_flight' \in Transition \cup {NoTransition}
           /\ queued_latest' \in Transition \cup {NoTransition}
           /\ deadline' \in BOOLEAN
           /\ queued_transition_origin' \in OriginType
BY DEF ResetSlotJumps, OriginType

\* The base of a step has neighbors among the live slots.
LEMMA NeighborsType ==
    ASSUME HandledType, NEW d \in Direction, NEW id \in StepTarget(d)
    PROVE  id \in SlotId
<1>1. id \in Ids(queue.slots)
  BY DEF StepTarget, Neighbors, Ids
<1> QED BY <1>1, IdsType DEF HandledType, QueueType, SlotId

\* The ids of the canonical queue.
LEMMA QueueIdsType == ASSUME HandledType PROVE Ids(queue.slots) \subseteq SlotId
BY IdsType DEF HandledType, QueueType, SlotId

\* A stopped run reports at most one event.
LEMMA StoppedType ==
    ASSUME HandledType, reports \in Seq(Report), NEW identity \in Nat,
           NEW last \in Stopped(identity), reports' = reports \o last
    PROVE  reports' \in Seq(Report)
<1>1. last \in Seq(Report)
  <2>1. CASE last = << >>
    BY <2>1, EmptySeq
  <2>2. CASE last # << >>
    <3>1. PICK id \in run.held : last = <<[op |-> "stopped", slot |-> id,
                                          request |-> NoRequest, identity |-> identity]>>
      BY <2>2 DEF Stopped
    <3>2. id \in SlotId
      BY DEF HandledType, Run
    <3>3. [op |-> "stopped", slot |-> id, request |-> NoRequest, identity |-> identity] \in Report
      BY <3>2 DEF Report
    <3> QED BY <3>1, <3>3
  <2> QED BY <2>1, <2>2
<1> QED BY <1>1, ConcatProperties

\* The submission of a new queue.
LEMMA SubmitType ==
    ASSUME HandledType, RestType, NEW q \in QueueType, Submit(q)
    PROVE  /\ generation' \in Nat /\ run' \in Run /\ commands' \in Seq(Command)
           /\ reports' \in Seq(Report)
<1>1. CASE SubmitIntoLiveRun(q) /\ UNCHANGED reports
  <2>1. Ids(q.slots) \subseteq SlotId
    BY IdsType DEF QueueType, SlotId
  <2>2. Edit("submit", Ids(q.slots)) \in Command
    BY <2>1 DEF Edit, Command
  <2>3. commands' \in Seq(Command)
    BY <1>1, <2>2, SendCommandType DEF SubmitIntoLiveRun, HandledType
  <2> QED BY <1>1, <2>3 DEF SubmitIntoLiveRun, HandledType, RestType
<1>2. CASE ~ (SubmitIntoLiveRun(q) /\ UNCHANGED reports)
  <2>1. PICK last \in Stopped(IF run.phase = "starting" THEN generation + 1 ELSE run.identity) :
          reports' = reports \o last
    BY <1>2 DEF Submit
  <2>2. (IF run.phase = "starting" THEN generation + 1 ELSE run.identity) \in Nat
    BY DEF HandledType, Run
  <2>3. reports' \in Seq(Report)
    <3> DEFINE n == IF run.phase = "starting" THEN generation + 1 ELSE run.identity
    <3>1. n \in Nat /\ last \in Stopped(n)
      BY <2>1, <2>2
    <3> HIDE DEF n
    <3> QED BY <2>1, <3>1, StoppedType DEF RestType
  <2>4. ColdStart(q)
    BY <1>2 DEF Submit
  <2> QED BY <2>3, <2>4, ColdStartType
<1> QED BY <1>1, <1>2

\* A command leaves a run a run.
LEMMA TakenType ==
    ASSUME HandledType, NEW c \in Command, NEW waiting
    PROVE  [Taken(c) EXCEPT !.phase = Ready(waiting)] \in Run
<1>1. Taken(c) \in Run
  <2> USE DEF HandledType, Run, Command, Taken
  <2>1. CASE c.op = "jump"
    BY <2>1
  <2>2. CASE c.op = "submit"
    BY <2>2
  <2>3. CASE c.op = "append"
    BY <2>3
  <2>4. CASE c.op = "remove"
    BY <2>4
  <2> QED BY <2>1, <2>2, <2>3, <2>4
<1> QED BY <1>1 DEF Run, Ready

\* The events around a new track.
LEMMA AnnounceType ==
    ASSUME HandledType, RestType, NEW slot \in SlotId,
           NEW request \in Nat \cup {NoRequest}, Announce(slot, request)
    PROVE  reports' \in Seq(Report)
<1>1. PICK ended \in {<< >>} \cup {<<Event("completed", id, NoRequest)>> : id \in run.held} :
        reports' = reports \o ended \o <<Event("changed", slot, request)>>
  BY DEF Announce
<1>2. \A op \in {"changed", "completed"}, id \in SlotId, r \in Nat \cup {NoRequest} :
        Event(op, id, r) \in Report
  BY DEF Event, Report, HandledType, Run
<1>3. ended \in Seq(Report)
  <2>1. CASE ended = << >>
    BY <2>1, EmptySeq
  <2>2. CASE ended # << >>
    <3>1. PICK id \in run.held : ended = <<Event("completed", id, NoRequest)>>
      BY <2>2
    <3>2. id \in SlotId
      BY DEF HandledType, Run
    <3>3. Event("completed", id, NoRequest) \in Report
      BY <1>2, <3>2
    <3> QED BY <3>1, <3>3
  <2> QED BY <2>1, <2>2
<1>4. <<Event("changed", slot, request)>> \in Seq(Report)
  BY <1>2
<1>5. reports \o ended \in Seq(Report)
  BY <1>3, ConcatProperties DEF RestType
<1> QED BY <1>1, <1>4, <1>5, ConcatProperties

\* The cold daemon is well typed.
LEMMA TypeInit == Init => TypeOK
<1> SUFFICES ASSUME Init PROVE TypeOK
  OBVIOUS
<1>1. queue \in QueueType
  BY EmptySeq DEF Init, EmptyQueue, QueueType
<1>2. run \in Run
  BY DEF Init, NoRun, Run
<1>3. commands \in Seq(Command) /\ reports \in Seq(Report)
  BY EmptySeq DEF Init
<1> QED BY <1>1, <1>2, <1>3 DEF Init, TypeOK

\* Every step keeps the types.
LEMMA TypeStep == TypeOK /\ [Next]_vars => TypeOK'
<1> SUFFICES ASSUME HandledType, RestType, [Next]_vars PROVE HandledType' /\ RestType'
  BY TypeParts, TypePartsNext
<1>0. Ids(queue.slots) \subseteq SlotId
  BY QueueIdsType
<1>1. CASE ClientStep
  <2>1. PICK c \in Clients, d \in Direction :
          /\ \E id \in StepTarget(d) :
                DispatchSlotJump([request |-> requests[c] + 1, target |-> id,
                                  cause |-> d, sender |-> c, local |-> FALSE])
          /\ requests' = [requests EXCEPT ![c] = @ + 1]
          /\ UNCHANGED <<lineage, next_local_id, reports>>
    BY <1>1 DEF ClientStep
  <2>2. PICK id \in StepTarget(d) :
          DispatchSlotJump([request |-> requests[c] + 1, target |-> id,
                            cause |-> d, sender |-> c, local |-> FALSE])
    BY <2>1
  <2>3. [request |-> requests[c] + 1, target |-> id,
         cause |-> d, sender |-> c, local |-> FALSE] \in Transition
    BY NeighborsType DEF Transition, RestType
  <2> QED BY <2>1, <2>2, <2>3, DispatchType DEF RestType
<1>2. CASE TransportStep
  <2>0. PICK d \in Direction : \E id \in StepTarget(d) :
          DispatchSlotJump([request |-> next_local_id + 1, target |-> id,
                            cause |-> d, sender |-> NoClient, local |-> TRUE])
    BY <1>2 DEF TransportStep
  <2>1. PICK id \in StepTarget(d) :
          DispatchSlotJump([request |-> next_local_id + 1, target |-> id,
                            cause |-> d, sender |-> NoClient, local |-> TRUE])
    BY <2>0
  <2>2. [request |-> next_local_id + 1, target |-> id,
         cause |-> d, sender |-> NoClient, local |-> TRUE] \in Transition
    BY NeighborsType DEF Transition, RestType
  <2> QED BY <1>2, <2>1, <2>2, DispatchType DEF RestType, TransportStep
<1>3. CASE PlaySlot
  <2>1. PICK c \in Clients, id \in Ids(queue.slots) :
          DispatchSlotJump([request |-> next_local_id + 1, target |-> id,
                            cause |-> "jump", sender |-> c, local |-> TRUE])
    BY <1>3 DEF PlaySlot
  <2>2. [request |-> next_local_id + 1, target |-> id,
         cause |-> "jump", sender |-> c, local |-> TRUE] \in Transition
    BY <1>0 DEF Transition, RestType
  <2> QED BY <1>3, <2>1, <2>2, DispatchType DEF RestType, PlaySlot
<1>4. CASE RemoveSlot
  <2>1. PICK id \in Ids(queue.slots) :
          /\ queue' = RemoveConfirmed(queue, id, 0)
          /\ \/ StopEmptied
             \/ /\ IF id = queue.active THEN ResetSlotJumps ELSE UNCHANGED owner
                /\ SendCommand(Edit("remove", {id}))
                /\ UNCHANGED <<generation, run>>
          /\ UNCHANGED <<lineage, observed, next_local_id, requests, reports, history>>
    BY <1>4 DEF RemoveSlot
  <2>2. queue' \in QueueType
    BY <2>1, RemoveType DEF HandledType
  <2>3. Edit("remove", {id}) \in Command
    BY <1>0 DEF Edit, Command
  <2>4. commands' \in Seq(Command)
    BY <2>1, <2>3, SendCommandType DEF HandledType, StopEmptied
  <2>5. run' \in Run /\ generation' \in Nat
    BY <2>1, StopRunType DEF StopEmptied, HandledType
  <2>6. /\ in_flight' \in Transition \cup {NoTransition}
        /\ queued_latest' \in Transition \cup {NoTransition}
        /\ deadline' \in BOOLEAN
        /\ queued_transition_origin' \in OriginType
    BY <2>1, ResetType DEF StopEmptied, HandledType, owner
  <2>7. UNCHANGED <<lineage, observed, next_local_id, requests, reports>>
    BY <2>1
  <2> QED BY <2>2, <2>4, <2>5, <2>6, <2>7 DEF HandledType, RestType
<1>5. CASE RemoveSlots
  <2>1. PICK gone \in SUBSET Ids(queue.slots) \ {{}} :
          /\ queue' = [queue EXCEPT
                !.slots = Kept(@, {slot \in Range(@) : slot.id \notin gone}),
                !.active = IF @ \in gone THEN NoSlot ELSE @]
          /\ \/ StopEmptied
             \/ /\ IF queue.active \in gone THEN ResetSlotJumps ELSE UNCHANGED owner
                /\ SendCommand(Edit("remove", gone))
                /\ UNCHANGED <<generation, run>>
          /\ UNCHANGED <<lineage, observed, next_local_id, requests, reports, history>>
    BY <1>5 DEF RemoveSlots
  <2>2. queue' \in QueueType
    <3> DEFINE t == Kept(queue.slots,
                         {slot \in Range(queue.slots) : slot.id \notin gone})
    <3>1. t \in Seq(Slot)
      BY KeptProperties DEF HandledType, QueueType
    <3>2. queue' = [queue EXCEPT !.slots = t,
                        !.active = IF queue.active \in gone THEN NoSlot ELSE queue.active]
      BY <2>1
    <3> HIDE DEF t
    <3> QED BY <3>1, <3>2 DEF HandledType, QueueType
  <2>3. Edit("remove", gone) \in Command
    BY <1>0 DEF Edit, Command
  <2>4. commands' \in Seq(Command)
    BY <2>1, <2>3, SendCommandType DEF HandledType, StopEmptied
  <2>5. run' \in Run /\ generation' \in Nat
    BY <2>1, StopRunType DEF StopEmptied, HandledType
  <2>6. /\ in_flight' \in Transition \cup {NoTransition}
        /\ queued_latest' \in Transition \cup {NoTransition}
        /\ deadline' \in BOOLEAN
        /\ queued_transition_origin' \in OriginType
    BY <2>1, ResetType DEF StopEmptied, HandledType, owner
  <2>7. UNCHANGED <<lineage, observed, next_local_id, requests, reports>>
    BY <2>1
  <2> QED BY <2>2, <2>4, <2>5, <2>6, <2>7 DEF HandledType, RestType
<1>6. CASE ReorderQueue
  <2>1. queue' \in QueueType
    <3>1. CASE \E id \in Ids(queue.slots), to \in 0..Len(queue.slots) :
                  queue' = Move(queue, id, to, 0)
      <4>1. \A to \in 0..Len(queue.slots) : to \in Nat
        BY LenProperties DEF HandledType, QueueType
      <4>2. PICK id \in Ids(queue.slots), to \in Nat : queue' = Move(queue, id, to, 0)
        BY <3>1, <4>1
      <4>3. DOMAIN queue.slots = 1..Len(queue.slots)
        BY LenProperties DEF HandledType, QueueType
      <4>4. [i \in DOMAIN queue.slots |-> id] \in [DOMAIN queue.slots -> Ids(queue.slots)]
        OBVIOUS
      <4> QED BY <4>2, <4>4, OrderType DEF HandledType
    <3>2. CASE \E order \in [DOMAIN queue.slots -> Ids(queue.slots)] :
                  queue' = Reorder(queue, order, 0)
      <4>1. 0 \in Nat
        OBVIOUS
      <4> QED BY <3>2, <4>1, OrderType DEF HandledType
    <3> QED BY <1>6, <3>1, <3>2 DEF ReorderQueue
  <2> QED BY <1>6, <2>1 DEF ReorderQueue, HandledType, RestType, owner
<1>7. CASE AppendItem
  <2>1. PICK index \in 0..Len(queue.slots), item \in Item :
          queue' = Insert(queue, index, item, 0) /\ SendCommand(Edit("append", {queue.next}))
    BY <1>7 DEF AppendItem
  <2>2. index \in Nat
    BY LenProperties DEF HandledType, QueueType
  <2>3. queue' \in QueueType
    BY <2>1, <2>2, InsertType DEF HandledType
  <2>4. Edit("append", {queue.next}) \in Command
    BY DEF Edit, Command, HandledType, QueueType, SlotId
  <2>5. commands' \in Seq(Command)
    BY <2>1, <2>4, SendCommandType DEF HandledType
  <2> QED BY <1>7, <2>3, <2>5 DEF AppendItem, HandledType, RestType, owner
<1>8. CASE Stop
  BY <1>8, StopRunType, ResetType DEF Stop, HandledType, RestType
<1>9. CASE ClearQueue
  <2>1. queue' \in QueueType
    <3>1. 0 \in SlotId
      BY DEF SlotId
    <3> QED BY <1>9, <3>1, SetActiveType DEF ClearQueue, Install, HandledType
  <2>2. run' \in Run /\ generation' \in Nat
    BY <1>9, StopRunType DEF ClearQueue, StopEmptied, HandledType
  <2>3. ResetSlotJumps
    BY <1>9 DEF ClearQueue, Install
  <2>4. /\ lineage' \in Nat
        /\ UNCHANGED <<observed, next_local_id, requests, reports, commands>>
    BY <1>9 DEF ClearQueue, Install, StopEmptied, RestType
  <2> QED BY <2>1, <2>2, <2>3, <2>4, ResetType DEF HandledType, RestType
<1>10. CASE ReplaceQueue
  <2>0. PICK slots \in Replacements : \E q \in NewQueues(slots) :
          Install(q) /\ Submit(q) /\ observed' = NoSlot
    BY <1>10 DEF ReplaceQueue
  <2>1. PICK q \in NewQueues(slots) :
          Install(q) /\ Submit(q) /\ observed' = NoSlot
    BY <2>0
  <2>2. q \in QueueType
    BY ReplacementsAssumption, NewQueueType
  <2>3. /\ generation' \in Nat /\ run' \in Run /\ commands' \in Seq(Command)
        /\ reports' \in Seq(Report)
    BY <2>1, <2>2, SubmitType
  <2>4. /\ queue' \in QueueType /\ lineage' \in Nat /\ ResetSlotJumps
        /\ observed' \in SlotId \cup {NoSlot} /\ UNCHANGED <<next_local_id, requests>>
    BY <2>1, <2>2 DEF Install, HandledType, RestType
  <2> QED BY <2>3, <2>4, ResetType DEF HandledType, RestType
<1>11. CASE AdoptQueue
  <2>0. PICK items \in Playlists : \E q \in NewQueues(Numbered(items)) :
          Install(q) /\ UNCHANGED <<generation, observed, run, commands, reports>>
    BY <1>11 DEF AdoptQueue
  <2>1. PICK q \in NewQueues(Numbered(items)) :
          Install(q) /\ UNCHANGED <<generation, observed, run, commands, reports>>
    BY <2>0
  <2>2. q \in QueueType
    BY NumberedType, NewQueueType
  <2>3. queue' \in QueueType /\ lineage' \in Nat /\ ResetSlotJumps
    BY <2>1, <2>2 DEF Install, RestType
  <2>4. UNCHANGED <<generation, observed, run, commands, reports, next_local_id, requests>>
    BY <2>1 DEF Install
  <2> QED BY <2>3, <2>4, ResetType DEF HandledType, RestType
<1>12. CASE InstallResolved
  <2>0. PICK items \in Playlists : \E q \in NewQueues(Numbered(items)) :
          Install(q) /\ Submit(q) /\ UNCHANGED observed
    BY <1>12 DEF InstallResolved
  <2>1. PICK q \in NewQueues(Numbered(items)) :
          Install(q) /\ Submit(q) /\ UNCHANGED observed
    BY <2>0
  <2>2. q \in QueueType
    BY NumberedType, NewQueueType
  <2>3. /\ generation' \in Nat /\ run' \in Run /\ commands' \in Seq(Command)
        /\ reports' \in Seq(Report)
    BY <2>1, <2>2, SubmitType
  <2>4. /\ queue' \in QueueType /\ lineage' \in Nat /\ ResetSlotJumps
        /\ observed' \in SlotId \cup {NoSlot} /\ UNCHANGED <<next_local_id, requests>>
    BY <2>1, <2>2 DEF Install, HandledType, RestType
  <2> QED BY <2>3, <2>4, ResetType DEF HandledType, RestType
<1>13. CASE HandleTrackChanged
  <2> DEFINE r == Head(reports)
             q == SetActive(queue, r.slot, 0)
  <2>1. r \in Report /\ reports' \in Seq(Report)
    BY <1>13, HeadTailProperties DEF HandleTrackChanged, RestType
  <2>2. r.slot \in SlotId
    BY <2>1 DEF Report
  <2>3. q \in QueueType
    BY <2>2, SetActiveType DEF HandledType
  <2>4. HandledType'
    <3> HIDE DEF r, q
    <3>1. CASE Promote(q, r.slot)
      BY <2>2, <2>3, <3>1, PromoteType
    <3>2. CASE ~ Promote(q, r.slot)
      BY <1>13, <2>2, <2>3, <3>2 DEF HandleTrackChanged, HandledType, owner, r, q
    <3> QED BY <3>1, <3>2
  <2> QED BY <1>13, <2>1, <2>4 DEF HandleTrackChanged, RestType
<1>14. CASE HandleEnded
  <2>1. reports' \in Seq(Report)
    BY <1>14, HeadTailProperties DEF HandleEnded, RestType
  <2>2. queue' \in {queue, RemoveExisting(queue, Head(reports).slot, 0)}
    BY <1>14 DEF HandleEnded
  <2>3. queue' \in QueueType
    BY <2>2, RemoveType DEF HandledType
  <2> QED BY <1>14, <2>1, <2>3 DEF HandleEnded, HandledType, RestType, owner
<1>15. CASE OnRecvTimeout
  <2>1. CASE Promote(queue, observed)
    BY <1>15, <2>1, PromoteType DEF OnRecvTimeout, HandledType, RestType
  <2>2. CASE ~ Promote(queue, observed)
    BY <1>15, <2>2 DEF OnRecvTimeout, HandledType, RestType
  <2> QED BY <2>1, <2>2
<1>16. CASE RunStarts
  BY <1>16 DEF RunStarts, Ready, Run, OwnerUnchanged, HandledType, RestType, owner
<1>17. CASE RunTakes
  <2>1. Head(commands) \in Command /\ commands' \in Seq(Command)
    BY <1>17, HeadTailProperties DEF RunTakes, HandledType
  <2>2. run' \in Run
    BY <1>17, <2>1, TakenType DEF RunTakes
  <2> QED BY <1>17, <2>1, <2>2 DEF RunTakes, OwnerUnchanged, HandledType, RestType, owner
<1>18. CASE RunSettlesJump
  <2>1. run.jump \in Transition
    BY <1>18 DEF RunSettlesJump, HandledType, Run
  <2>2. run.jump.target \in SlotId /\ run.jump.request \in Nat \cup {NoRequest}
    BY <2>1 DEF Transition
  <2>3. reports' \in Seq(Report)
    BY <1>18, <2>2, AnnounceType DEF RunSettlesJump
  <2>4. run' \in Run
    BY <1>18 DEF RunSettlesJump, Run, HandledType
  <2> QED BY <1>18, <2>3, <2>4
        DEF RunSettlesJump, Announce, OwnerUnchanged, HandledType, RestType, owner
<1>19. CASE RunAdvances
  <2>1. PICK id \in run.held : Announce(id, NoRequest)
    BY <1>19 DEF RunAdvances
  <2>2. id \in SlotId
    BY DEF HandledType, Run
  <2>3. reports' \in Seq(Report)
    BY <2>1, <2>2, AnnounceType
  <2> QED BY <1>19, <2>1, <2>3
        DEF RunAdvances, Announce, OwnerUnchanged, HandledType, RestType, owner
<1>20. CASE RunDropsJump
  BY <1>20 DEF RunDropsJump, Run, OwnerUnchanged, HandledType, RestType, owner
<1>21. CASE RunEnds
  <2>1. PICK last \in IF run.phase = "starting" THEN {<< >>} ELSE Stopped(run.identity) :
          reports' = reports \o last
    BY <1>21 DEF RunEnds
  <2>2. last \in Stopped(run.identity) /\ run.identity \in Nat
    BY <2>1 DEF Stopped, HandledType, Run
  <2>3. reports' \in Seq(Report)
    BY <2>1, <2>2, StoppedType DEF RestType
  <2>4. run' \in Run /\ commands' \in Seq(Command)
    BY <1>21, EmptySeq DEF RunEnds, NoRun, Run
  <2> QED BY <1>21, <2>3, <2>4 DEF RunEnds, OwnerUnchanged, HandledType, RestType, owner
<1>22. CASE UNCHANGED vars
  BY <1>22 DEF vars, owner, HandledType, RestType
<1> QED BY <1>1, <1>2, <1>3, <1>4, <1>5, <1>6, <1>7, <1>8, <1>9, <1>10, <1>11, <1>12,
        <1>13, <1>14, <1>15, <1>16, <1>17, <1>18, <1>19, <1>20, <1>21, <1>22 DEF Next

\* The owner, its channels and the run stay well typed through every jump,
\* edit, install, report and restart: every jump it accepts names a slot id
\* and every transition it holds is one it was asked for.
THEOREM TypeCorrect == Spec => []TypeOK
<1>1. Init => TypeOK
  BY TypeInit
<1>2. TypeOK /\ [Next]_vars => TypeOK'
  BY TypeStep
<1> QED BY <1>1, <1>2, PTL DEF Spec

-----------------------------------------------------------------------------
(* What a step does to the jumps.                                          *)

\* The jumps in a list of commands.
JumpsIn(cs) == {cs[i].jump : i \in DOMAIN cs}

\* Sending adds a jump, taking a command removes one at most.
LEMMA JumpsInProperties ==
    ASSUME NEW cs \in Seq(Command), NEW c \in Command
    PROVE  /\ JumpsIn(Append(cs, c)) = JumpsIn(cs) \cup {c.jump}
           /\ JumpsIn(<< >>) = {}
           /\ cs # << >> => /\ JumpsIn(Tail(cs)) \subseteq JumpsIn(cs)
                            /\ Head(cs).jump \in JumpsIn(cs)
<1>0. Len(cs) \in Nat /\ DOMAIN cs = 1..Len(cs)
  BY LenProperties
<1>1. JumpsIn(Append(cs, c)) = JumpsIn(cs) \cup {c.jump}
  <2> DEFINE t == Append(cs, c)
  <2>1. /\ DOMAIN t = 1..(Len(cs) + 1) /\ t[Len(cs) + 1] = c
        /\ \A i \in 1..Len(cs) : t[i] = cs[i]
    BY AppendProperties, LenProperties
  <2> HIDE DEF t
  <2> QED BY <1>0, <2>1 DEF JumpsIn, t
<1>2. JumpsIn(<< >>) = {}
  BY DEF JumpsIn
<1>3. ASSUME cs # << >>
      PROVE  JumpsIn(Tail(cs)) \subseteq JumpsIn(cs) /\ Head(cs).jump \in JumpsIn(cs)
  <2>1. /\ Head(cs) = cs[1] /\ 1 \in DOMAIN cs
        /\ DOMAIN Tail(cs) = 1..(Len(cs) - 1)
        /\ \A i \in 1..(Len(cs) - 1) : Tail(cs)[i] = cs[i + 1]
    <3>1. Tail(cs) \in Seq(Command) /\ Len(Tail(cs)) = Len(cs) - 1
      BY <1>3, HeadTailProperties
    <3> QED BY <1>0, <1>3, <3>1, HeadTailProperties, LenProperties, EmptySeq
  <2>2. \A i \in 1..(Len(cs) - 1) : i + 1 \in DOMAIN cs
    BY <1>0
  <2> QED BY <2>1, <2>2 DEF JumpsIn
<1> QED BY <1>1, <1>2, <1>3

\* What is on its way, in these terms.
LEMMA OnItsWayParts ==
    /\ OnItsWay = ({run.jump} \cup JumpsIn(commands)) \ {NoTransition}
    /\ OnItsWay' = ({run'.jump} \cup JumpsIn(commands')) \ {NoTransition}
BY DEF OnItsWay, JumpsIn

\* An edit that is sent to the run puts no jump on its way.
LEMMA EditOnItsWay ==
    ASSUME HandledType, NEW op \in {"submit", "append", "remove"},
           NEW ids \in SUBSET SlotId, SendCommand(Edit(op, ids)), run'.jump = run.jump
    PROVE  OnItsWay' = OnItsWay
<1>1. Edit(op, ids) \in Command /\ Edit(op, ids).jump = NoTransition
  BY DEF Edit, Command
<1>2. JumpsIn(commands') \subseteq JumpsIn(commands) \cup {NoTransition}
  BY <1>1, JumpsInProperties DEF SendCommand, HandledType
<1>3. JumpsIn(commands) \subseteq JumpsIn(commands')
  BY <1>1, JumpsInProperties DEF SendCommand, HandledType
<1> QED BY <1>2, <1>3, OnItsWayParts

\* A fresh run knows of no jump.
LEMMA ColdStartOnItsWay == ASSUME NEW q, ColdStart(q) PROVE OnItsWay' = {}
<1>1. run'.jump = NoTransition
  BY DEF ColdStart, NoRun
<1>2. JumpsIn(commands') = {}
  BY DEF ColdStart, JumpsIn
<1> QED BY <1>1, <1>2, OnItsWayParts

\* A stop leaves the jumps of the run to it.
LEMMA StopRunJump ==
    ASSUME HandledType, StopRun, UNCHANGED commands
    PROVE  OnItsWay' = OnItsWay
<1>1. run'.jump = run.jump
  BY DEF StopRun, HandledType, Run
<1> QED BY <1>1, OnItsWayParts

\* Submitting a queue puts no jump on its way.
LEMMA SubmitOnItsWay ==
    ASSUME HandledType, NEW q \in QueueType, Submit(q)
    PROVE  OnItsWay' \subseteq OnItsWay
<1>1. CASE SubmitIntoLiveRun(q)
  <2>1. Ids(q.slots) \in SUBSET SlotId
    BY IdsType DEF QueueType, SlotId
  <2>2. SendCommand(Edit("submit", Ids(q.slots))) /\ run'.jump = run.jump
    BY <1>1 DEF SubmitIntoLiveRun
  <2> QED BY <2>1, <2>2, EditOnItsWay
<1>2. CASE ColdStart(q)
  BY <1>2, ColdStartOnItsWay
<1> QED BY <1>1, <1>2 DEF Submit

\* What the owner tracks beside the jumps.
Tracked == <<in_flight, queued_latest, queued_transition_origin, history>>
Counted == <<requests, next_local_id>>

\* The four kinds of steps: a jump is accepted, the jump in flight is done
\* or given up, both jumps are forgotten, or they are left alone.
Accepting ==
    \E t \in Transition :
        /\ DispatchSlotJump(t)
        /\ Asked \subseteq Asked' /\ Identity(t) \in Asked' \ Asked
Promoting == (\E q \in QueueType, obs \in SlotId \cup {NoSlot} : Promote(q, obs)) /\ UNCHANGED Counted
Forgetting == ResetSlotJumps /\ OnItsWay' \subseteq OnItsWay /\ UNCHANGED <<history, Counted>>
Keeping == OnItsWay' \subseteq OnItsWay /\ UNCHANGED <<Tracked, Counted>>

\* Asked, of any counters.
AskedOf(rq, n) ==
    (UNION {{<<c, FALSE, r>> : r \in 1..rq[c]} : c \in Clients})
        \cup ((Clients \cup {NoClient}) \X {TRUE} \X (1..n))

\* Both before and after a step.
LEMMA AskedIs ==
    /\ Asked = AskedOf(requests, next_local_id)
    /\ Asked' = AskedOf(requests', next_local_id')
BY DEF Asked, AskedOf

\* A client's next request was not asked before, and the rest still was.
LEMMA RequestAsked ==
    ASSUME RestType, NEW c \in Clients,
           requests' = [requests EXCEPT ![c] = @ + 1], UNCHANGED next_local_id
    PROVE  Asked \subseteq Asked' /\ <<c, FALSE, requests[c] + 1>> \in Asked' \ Asked
<1> DEFINE rq == requests'
           Of(d) == {<<d, FALSE, r>> : r \in 1..requests[d]}
           New(d) == {<<d, FALSE, r>> : r \in 1..rq[d]}
           minted == (Clients \cup {NoClient}) \X {TRUE} \X (1..next_local_id)
           e == <<c, FALSE, requests[c] + 1>>
<1>1. /\ \A d \in Clients : requests[d] \in Nat /\ rq[d] \in Nat /\ requests[d] <= rq[d]
      /\ rq[c] = requests[c] + 1
  BY DEF RestType
<1>2. Asked = (UNION {Of(d) : d \in Clients}) \cup minted
  BY AskedIs DEF AskedOf
<1>3. Asked' = (UNION {New(d) : d \in Clients}) \cup minted
  BY AskedIs DEF AskedOf
<1> HIDE DEF rq
<1>4. \A d \in Clients : Of(d) \subseteq New(d)
  <2> TAKE d \in Clients
  <2>1. 1..requests[d] \subseteq 1..rq[d]
    BY <1>1
  <2> QED BY <2>1
<1>5. Asked \subseteq Asked'
  <2> HIDE DEF Of, New, minted
  <2> QED BY <1>2, <1>3, <1>4
<1>6. e \in New(c)
  <2>1. requests[c] + 1 \in 1..rq[c]
    BY <1>1
  <2> QED BY <2>1
<1>7. \A d \in Clients : e \notin Of(d)
  <2> SUFFICES ASSUME NEW d \in Clients, NEW r \in 1..requests[d], e = <<d, FALSE, r>>
               PROVE  FALSE
    OBVIOUS
  <2> QED BY <1>1
<1>8. e \notin minted
  OBVIOUS
<1>9. e \in Asked' \ Asked
  <2> HIDE DEF Of, New, minted, e
  <2> QED BY <1>2, <1>3, <1>6, <1>7, <1>8
<1> QED BY <1>5, <1>9

\* Nor was what the owner numbers itself.
LEMMA MintedAsked ==
    ASSUME RestType, NEW c \in Clients \cup {NoClient},
           next_local_id' = next_local_id + 1, UNCHANGED requests
    PROVE  Asked \subseteq Asked' /\ <<c, TRUE, next_local_id + 1>> \in Asked' \ Asked
<1> DEFINE n == next_local_id
           requested == UNION {{<<d, FALSE, r>> : r \in 1..requests[d]} : d \in Clients}
           Minted(k) == (Clients \cup {NoClient}) \X {TRUE} \X (1..k)
           e == <<c, TRUE, n + 1>>
<1>0. n \in Nat
  BY DEF RestType
<1>1. Asked = requested \cup Minted(n)
  BY AskedIs DEF AskedOf
<1>2. Asked' = requested \cup Minted(n + 1)
  BY AskedIs DEF AskedOf
<1> HIDE DEF n
<1>3. 1..n \subseteq 1..(n + 1) /\ n + 1 \in 1..(n + 1) /\ n + 1 \notin 1..n
  BY <1>0
<1>4. Minted(n) \subseteq Minted(n + 1)
  BY <1>3
<1>5. e \in Minted(n + 1) /\ e \notin Minted(n)
  BY <1>3
<1>6. e \notin requested
  OBVIOUS
<1> HIDE DEF requested, Minted, e
<1> QED BY <1>1, <1>2, <1>4, <1>5, <1>6 DEF e, n

\* Every step is of one of the four kinds.
LEMMA StepKinds ==
    ASSUME HandledType, RestType, [Next]_vars
    PROVE  Accepting \/ Promoting \/ Forgetting \/ Keeping
<1>0. Ids(queue.slots) \subseteq SlotId
  BY QueueIdsType
<1>1. CASE ClientStep
  <2>1. PICK c \in Clients, d \in Direction :
          /\ \E id \in StepTarget(d) :
                DispatchSlotJump([request |-> requests[c] + 1, target |-> id,
                                  cause |-> d, sender |-> c, local |-> FALSE])
          /\ requests' = [requests EXCEPT ![c] = @ + 1]
          /\ UNCHANGED next_local_id
    BY <1>1 DEF ClientStep
  <2>2. PICK id \in StepTarget(d) :
          DispatchSlotJump([request |-> requests[c] + 1, target |-> id,
                            cause |-> d, sender |-> c, local |-> FALSE])
    BY <2>1
  <2> DEFINE t == [request |-> requests[c] + 1, target |-> id,
                   cause |-> d, sender |-> c, local |-> FALSE]
  <2>3. t \in Transition /\ Identity(t) = <<c, FALSE, requests[c] + 1>>
    BY NeighborsType DEF Transition, RestType, Identity
  <2>4. Asked \subseteq Asked' /\ <<c, FALSE, requests[c] + 1>> \in Asked' \ Asked
    BY <2>1, RequestAsked
  <2> HIDE DEF t
  <2> QED BY <2>2, <2>3, <2>4 DEF Accepting, t
<1>2. CASE TransportStep
  <2>0. PICK d \in Direction : \E id \in StepTarget(d) :
          DispatchSlotJump([request |-> next_local_id + 1, target |-> id,
                            cause |-> d, sender |-> NoClient, local |-> TRUE])
    BY <1>2 DEF TransportStep
  <2>1. PICK id \in StepTarget(d) :
          DispatchSlotJump([request |-> next_local_id + 1, target |-> id,
                            cause |-> d, sender |-> NoClient, local |-> TRUE])
    BY <2>0
  <2> DEFINE t == [request |-> next_local_id + 1, target |-> id,
                   cause |-> d, sender |-> NoClient, local |-> TRUE]
  <2>2. t \in Transition /\ Identity(t) = <<NoClient, TRUE, next_local_id + 1>>
    BY NeighborsType DEF Transition, RestType, Identity
  <2>3. Asked \subseteq Asked' /\ <<NoClient, TRUE, next_local_id + 1>> \in Asked' \ Asked
    BY <1>2, MintedAsked DEF TransportStep
  <2> HIDE DEF t
  <2> QED BY <2>1, <2>2, <2>3 DEF Accepting, t
<1>3. CASE PlaySlot
  <2>1. PICK c \in Clients, id \in Ids(queue.slots) :
          DispatchSlotJump([request |-> next_local_id + 1, target |-> id,
                            cause |-> "jump", sender |-> c, local |-> TRUE])
    BY <1>3 DEF PlaySlot
  <2> DEFINE t == [request |-> next_local_id + 1, target |-> id,
                   cause |-> "jump", sender |-> c, local |-> TRUE]
  <2>2. t \in Transition /\ Identity(t) = <<c, TRUE, next_local_id + 1>>
    BY <1>0 DEF Transition, RestType, Identity
  <2>3. Asked \subseteq Asked' /\ <<c, TRUE, next_local_id + 1>> \in Asked' \ Asked
    BY <1>3, MintedAsked DEF PlaySlot
  <2> HIDE DEF t
  <2> QED BY <2>1, <2>2, <2>3 DEF Accepting, t
<1>4. CASE RemoveSlot
  <2>1. PICK id \in Ids(queue.slots) :
          \/ StopEmptied
          \/ /\ IF id = queue.active THEN ResetSlotJumps ELSE UNCHANGED owner
             /\ SendCommand(Edit("remove", {id}))
             /\ UNCHANGED <<generation, run>>
    BY <1>4 DEF RemoveSlot
  <2>2. {id} \in SUBSET SlotId
    BY <1>0
  <2>3. OnItsWay' = OnItsWay
    BY <2>1, <2>2, EditOnItsWay, StopRunJump DEF StopEmptied
  <2> QED BY <1>4, <2>1, <2>3
        DEF RemoveSlot, StopEmptied, Forgetting, Keeping, owner, Tracked, Counted
<1>5. CASE RemoveSlots
  <2>1. PICK gone \in SUBSET Ids(queue.slots) \ {{}} :
          \/ StopEmptied
          \/ /\ IF queue.active \in gone THEN ResetSlotJumps ELSE UNCHANGED owner
             /\ SendCommand(Edit("remove", gone))
             /\ UNCHANGED <<generation, run>>
    BY <1>5 DEF RemoveSlots
  <2>2. gone \in SUBSET SlotId
    BY <1>0
  <2>3. OnItsWay' = OnItsWay
    BY <2>1, <2>2, EditOnItsWay, StopRunJump DEF StopEmptied
  <2> QED BY <1>5, <2>1, <2>3
        DEF RemoveSlots, StopEmptied, Forgetting, Keeping, owner, Tracked, Counted
<1>6. CASE ReorderQueue
  <2>1. OnItsWay' = OnItsWay
    BY <1>6, OnItsWayParts DEF ReorderQueue
  <2> QED BY <1>6, <2>1 DEF ReorderQueue, Keeping, owner, Tracked, Counted
<1>7. CASE AppendItem
  <2>1. SendCommand(Edit("append", {queue.next})) /\ UNCHANGED run
    BY <1>7 DEF AppendItem
  <2>2. {queue.next} \in SUBSET SlotId
    BY DEF HandledType, QueueType, SlotId
  <2>3. OnItsWay' = OnItsWay
    BY <2>1, <2>2, EditOnItsWay
  <2> QED BY <1>7, <2>3 DEF AppendItem, Keeping, owner, Tracked, Counted
<1>8. CASE Stop
  <2>1. OnItsWay' = OnItsWay
    BY <1>8, StopRunJump DEF Stop
  <2> QED BY <1>8, <2>1 DEF Stop, Forgetting, Counted
<1>9. CASE ClearQueue
  <2>1. OnItsWay' = OnItsWay
    BY <1>9, StopRunJump DEF ClearQueue, StopEmptied
  <2> QED BY <1>9, <2>1 DEF ClearQueue, Install, Forgetting, Counted
<1>10. CASE ReplaceQueue
  <2>0. PICK slots \in Replacements : \E q \in NewQueues(slots) : Install(q) /\ Submit(q)
    BY <1>10 DEF ReplaceQueue
  <2>1. PICK q \in NewQueues(slots) : Install(q) /\ Submit(q)
    BY <2>0
  <2>2. q \in QueueType
    BY ReplacementsAssumption, NewQueueType
  <2>3. OnItsWay' \subseteq OnItsWay
    BY <2>1, <2>2, SubmitOnItsWay
  <2> QED BY <2>1, <2>3 DEF Install, Forgetting, Counted
<1>11. CASE AdoptQueue
  <2>1. OnItsWay' = OnItsWay
    BY <1>11, OnItsWayParts DEF AdoptQueue
  <2> QED BY <1>11, <2>1 DEF AdoptQueue, Install, Forgetting, Counted
<1>12. CASE InstallResolved
  <2>0. PICK items \in Playlists : \E q \in NewQueues(Numbered(items)) : Install(q) /\ Submit(q)
    BY <1>12 DEF InstallResolved
  <2>1. PICK q \in NewQueues(Numbered(items)) : Install(q) /\ Submit(q)
    BY <2>0
  <2>2. q \in QueueType
    BY NumberedType, NewQueueType
  <2>3. OnItsWay' \subseteq OnItsWay
    BY <2>1, <2>2, SubmitOnItsWay
  <2> QED BY <2>1, <2>3 DEF Install, Forgetting, Counted
<1>13. CASE HandleTrackChanged
  <2> DEFINE r == Head(reports)
             q == SetActive(queue, r.slot, 0)
  <2>1. r.slot \in SlotId
    <3>1. r \in Report
      BY <1>13, HeadTailProperties DEF HandleTrackChanged, RestType
    <3> QED BY <3>1 DEF Report
  <2>2. q \in QueueType
    BY <2>1, SetActiveType DEF HandledType
  <2> HIDE DEF q, r
  <2>3. CASE Promote(q, r.slot)
    BY <1>13, <2>1, <2>2, <2>3 DEF HandleTrackChanged, Promoting, Counted
  <2>4. CASE ~ Promote(q, r.slot)
    <3>1. UNCHANGED <<owner, run, commands, history, Counted>>
      BY <1>13, <2>4 DEF HandleTrackChanged, Counted, q, r
    <3>2. OnItsWay' = OnItsWay
      BY <3>1, OnItsWayParts
    <3> QED BY <3>1, <3>2 DEF Keeping, owner, Tracked
  <2> QED BY <2>3, <2>4
<1>14. CASE HandleEnded
  <2>1. OnItsWay' = OnItsWay
    BY <1>14, OnItsWayParts DEF HandleEnded
  <2> QED BY <1>14, <2>1 DEF HandleEnded, Keeping, owner, Tracked, Counted
<1>15. CASE OnRecvTimeout
  <2>1. CASE Promote(queue, observed)
    BY <1>15, <2>1 DEF OnRecvTimeout, Promoting, Counted, HandledType
  <2>2. CASE ~ Promote(queue, observed)
    <3>1. UNCHANGED <<Tracked, run, commands, Counted>>
      BY <1>15, <2>2 DEF OnRecvTimeout, Tracked, Counted
    <3>2. OnItsWay' = OnItsWay
      BY <3>1, OnItsWayParts
    <3> QED BY <3>1, <3>2 DEF Keeping
  <2> QED BY <2>1, <2>2
<1>16. ASSUME OwnerUnchanged, OnItsWay' \subseteq OnItsWay PROVE Keeping
  BY <1>16 DEF OwnerUnchanged, owner, Keeping, Tracked, Counted
<1>17. CASE RunStarts
  <2>1. run'.jump = run.jump
    BY <1>17 DEF RunStarts, HandledType, Run
  <2>2. OnItsWay' = OnItsWay
    BY <1>17, <2>1, OnItsWayParts DEF RunStarts
  <2> QED BY <1>16, <1>17, <2>2 DEF RunStarts
<1>18. CASE RunTakes
  <2> DEFINE c == Head(commands)
  <2>1. /\ c \in Command /\ commands' = Tail(commands)
        /\ JumpsIn(commands') \subseteq JumpsIn(commands) /\ c.jump \in JumpsIn(commands)
    BY <1>18, HeadTailProperties, JumpsInProperties DEF RunTakes, HandledType
  <2> HIDE DEF c
  <2>2. run'.jump \in {run.jump, c.jump, NoTransition}
    <3>1. Taken(c) \in Run /\ Taken(c).jump \in {run.jump, c.jump, NoTransition}
      <4> USE <2>1 DEF HandledType, Run, Command, Taken
      <4>1. CASE c.op = "jump"
        BY <4>1
      <4>2. CASE c.op = "submit"
        BY <4>2
      <4>3. CASE c.op = "append"
        BY <4>3
      <4>4. CASE c.op = "remove"
        BY <4>4
      <4> QED BY <4>1, <4>2, <4>3, <4>4
    <3>2. run' = [Taken(c) EXCEPT !.phase = Ready(Tail(commands))]
      BY <1>18 DEF RunTakes, c
    <3> QED BY <3>1, <3>2 DEF Run
  <2>3. OnItsWay' \subseteq OnItsWay
    BY <2>1, <2>2, OnItsWayParts
  <2> QED BY <1>16, <1>18, <2>3 DEF RunTakes
<1>19. CASE RunSettlesJump
  <2>1. run'.jump = NoTransition
    BY <1>19 DEF RunSettlesJump, HandledType, Run
  <2>2. OnItsWay' \subseteq OnItsWay
    BY <1>19, <2>1, OnItsWayParts DEF RunSettlesJump, Announce
  <2> QED BY <1>16, <1>19, <2>2 DEF RunSettlesJump, Announce
<1>20. CASE RunAdvances
  <2>1. OnItsWay' = OnItsWay
    BY <1>20, OnItsWayParts DEF RunAdvances, Announce
  <2> QED BY <1>16, <1>20, <2>1 DEF RunAdvances, Announce
<1>21. CASE RunDropsJump
  <2>1. run'.jump = NoTransition
    BY <1>21 DEF RunDropsJump, HandledType, Run
  <2>2. OnItsWay' \subseteq OnItsWay
    BY <1>21, <2>1, OnItsWayParts DEF RunDropsJump
  <2> QED BY <1>16, <1>21, <2>2 DEF RunDropsJump
<1>22. CASE RunEnds
  <2>1. run'.jump = NoTransition
    BY <1>22 DEF RunEnds, NoRun
  <2>2. JumpsIn(commands') = {}
    BY <1>22 DEF RunEnds, JumpsIn
  <2>3. OnItsWay' \subseteq OnItsWay
    BY <2>1, <2>2, OnItsWayParts
  <2> QED BY <1>16, <1>22, <2>3 DEF RunEnds
<1>23. CASE UNCHANGED vars
  <2>1. OnItsWay' = OnItsWay
    BY <1>23, OnItsWayParts DEF vars
  <2> QED BY <1>23, <2>1 DEF vars, owner, Keeping, Tracked, Counted
<1> QED BY <1>1, <1>2, <1>3, <1>4, <1>5, <1>6, <1>7, <1>8, <1>9, <1>10, <1>11, <1>12, <1>13,
        <1>14, <1>15, <1>17, <1>18, <1>19, <1>20, <1>21, <1>22, <1>23 DEF Next

-----------------------------------------------------------------------------
(* The origin beside the queued jump, and the jump in flight.              *)

\* The history keeps its two fields.
HistoryShape == history = [sent |-> history.sent, superseded |-> history.superseded]

\* The inductive invariant: the origin is looked up and replaced correctly
\* only because it is that of the queued jump in every state before.
IInv == TypeOK /\ HistoryShape /\ OriginTracksQueued /\ InFlightWasSent

\* What a dispatched jump leaves: it is sent and in flight, with nothing
\* behind it, or there was no run and both places are free.
LEMMA Delivered ==
    ASSUME HandledType, HistoryShape, NEW t \in Transition, NEW q \in QueueType,
           NEW obs, Deliver(t, q, obs, NoTransition, NoOrigin)
    PROVE  \/ /\ in_flight' = t /\ queued_latest' = NoTransition
              /\ queued_transition_origin' = NoOrigin
              /\ history' = [sent |-> Identity(t), superseded |-> history.superseded]
              /\ OnItsWay' = OnItsWay \cup {t}
           \/ ResetSlotJumps /\ OnItsWay' \subseteq OnItsWay /\ UNCHANGED history
<1>1. CASE run.alive
  <2>1. JumpTo(t) \in Command /\ JumpTo(t).jump = t
    BY DEF JumpTo, Command
  <2>2. commands' = Append(commands, JumpTo(t)) /\ UNCHANGED run
    BY <1>1 DEF Deliver, SendCommand
  <2>3. JumpsIn(commands') = JumpsIn(commands) \cup {t}
    BY <2>1, <2>2, JumpsInProperties DEF HandledType
  <2>4. t # NoTransition
    BY NoTransitionAssumption
  <2>5. OnItsWay' = OnItsWay \cup {t}
    BY <2>2, <2>3, <2>4, OnItsWayParts
  <2>6. history' = [sent |-> Identity(t), superseded |-> history.superseded]
    <3>1. history' = [history EXCEPT !.sent = Identity(t)]
      BY <1>1 DEF Deliver
    <3> QED BY <3>1 DEF HistoryShape
  <2> QED BY <1>1, <2>5, <2>6 DEF Deliver
<1>2. CASE ~ run.alive
  <2>1. ResetSlotJumps /\ UNCHANGED history /\ (ColdStart(q) \/ RefuseQueueSlots)
    BY <1>2 DEF Deliver
  <2>2. OnItsWay' \subseteq OnItsWay
    BY <2>1, ColdStartOnItsWay, OnItsWayParts DEF RefuseQueueSlots
  <2> QED BY <2>1, <2>2
<1> QED BY <1>1, <1>2

\* What a displaced jump leaves in the history.
LEMMA Displaced ==
    ASSUME HandledType, HistoryShape, OriginTracksQueued, Supersede(queued_latest)
    PROVE  history' = [sent |-> history.sent,
                       superseded |-> history.superseded \cup
                            {Identity(t) : t \in {u \in {queued_latest} :
                                u # NoTransition /\ u.sender \in Clients}}]
<1> DEFINE more == {Identity(t) : t \in {u \in {queued_latest} :
                                u # NoTransition /\ u.sender \in Clients}}
           o == queued_transition_origin
<1>1. CASE queued_latest = NoTransition
  <2>1. more = {}
    BY <1>1
  <2>2. history' = history /\ history.superseded \cup more = history.superseded
    BY <1>1, <2>1 DEF Supersede
  <2> HIDE DEF more
  <2>3. history' = [sent |-> history.sent, superseded |-> history.superseded \cup more]
    BY <2>2 DEF HistoryShape
  <2> QED BY <2>3 DEF more
<1>2. CASE queued_latest # NoTransition /\ queued_latest.sender = NoClient
  <2>1. more = {}
    BY <1>2, ClientsAssumption
  <2>2. o = NoOrigin
    BY <1>2 DEF OriginTracksQueued, Origin
  <2>3. history' = history /\ history.superseded \cup more = history.superseded
    BY <2>1, <2>2 DEF Supersede
  <2> HIDE DEF more
  <2>4. history' = [sent |-> history.sent, superseded |-> history.superseded \cup more]
    BY <2>3 DEF HistoryShape
  <2> QED BY <2>4 DEF more
<1>3. CASE queued_latest # NoTransition /\ queued_latest.sender # NoClient
  <2>1. queued_latest \in Transition /\ queued_latest.sender \in Clients
    BY <1>3 DEF HandledType, Transition
  <2>2. more = {Identity(queued_latest)}
    BY <1>3, <2>1
  <2>3. o = [request |-> queued_latest.request, client |-> queued_latest.sender]
    BY <1>3 DEF OriginTracksQueued, Origin
  <2>4. o # NoOrigin
    BY <2>1, <2>3, NoOriginAssumption DEF Transition
  <2>5. history' = [history EXCEPT !.superseded = @ \cup
            {<<o.client, queued_latest.local, queued_latest.request>>}]
    BY <1>3, <2>3, <2>4 DEF Supersede
  <2>6. <<o.client, queued_latest.local, queued_latest.request>> = Identity(queued_latest)
    BY <2>3 DEF Identity
  <2> HIDE DEF more
  <2>7. history' = [sent |-> history.sent, superseded |-> history.superseded \cup more]
    BY <2>2, <2>5, <2>6 DEF HistoryShape
  <2> QED BY <2>7 DEF more
<1> QED BY <1>1, <1>2, <1>3

\* Nothing is queued and no origin is tracked while nothing is in flight.
LEMMA IdleOwner ==
    ASSUME OriginTracksQueued, queued_latest = NoTransition \/ in_flight = NoTransition
    PROVE  queued_latest = NoTransition /\ queued_transition_origin = NoOrigin
BY DEF OriginTracksQueued

\* What the four kinds of steps leave.
LEMMA KindsLeave ==
    ASSUME IInv, [Next]_vars
    PROVE  \/ \E t \in Transition :
                /\ in_flight = NoTransition
                /\ in_flight' = t /\ queued_latest' = NoTransition
                /\ queued_transition_origin' = NoOrigin
                /\ history' = [sent |-> Identity(t), superseded |-> history.superseded]
                /\ OnItsWay' = OnItsWay \cup {t}
                /\ Asked \subseteq Asked' /\ Identity(t) \in Asked' \ Asked
           \/ \E t \in Transition :
                /\ in_flight # NoTransition
                /\ queued_latest' = t /\ queued_transition_origin' = Origin(t)
                /\ Supersede(queued_latest)
                /\ UNCHANGED <<in_flight, OnItsWay>>
                /\ Asked \subseteq Asked' /\ Identity(t) \in Asked' \ Asked
           \/ /\ queued_latest # NoTransition
              /\ in_flight' = queued_latest /\ queued_latest' = NoTransition
              /\ queued_transition_origin' = NoOrigin
              /\ history' = [sent |-> Identity(queued_latest), superseded |-> history.superseded]
              /\ OnItsWay' = OnItsWay \cup {queued_latest}
              /\ UNCHANGED Asked
           \/ /\ ResetSlotJumps /\ OnItsWay' \subseteq OnItsWay
              /\ UNCHANGED history /\ Asked \subseteq Asked'
           \/ /\ OnItsWay' \subseteq OnItsWay
              /\ UNCHANGED Tracked /\ UNCHANGED Asked
<1>0. HandledType /\ RestType /\ HistoryShape /\ OriginTracksQueued
  BY TypeParts DEF IInv
<1>1. Counted' = Counted => Asked' = Asked
  BY AskedIs DEF Counted
<1>2. CASE Accepting
  <2>1. PICK t \in Transition :
          DispatchSlotJump(t) /\ Asked \subseteq Asked' /\ Identity(t) \in Asked' \ Asked
    BY <1>2 DEF Accepting
  <2>2. CASE in_flight = NoTransition
    <3>1. Deliver(t, queue, observed, NoTransition, NoOrigin)
      BY <1>0, <2>1, <2>2, IdleOwner DEF DispatchSlotJump
    <3>2. queue \in QueueType
      BY <1>0 DEF HandledType
    <3> QED BY <1>0, <2>1, <2>2, <3>1, <3>2, Delivered
  <2>3. CASE in_flight # NoTransition
    <3>1. OnItsWay' = OnItsWay
      BY <2>1, <2>3, OnItsWayParts DEF DispatchSlotJump
    <3> QED BY <2>1, <2>3, <3>1 DEF DispatchSlotJump
  <2> QED BY <2>2, <2>3
<1>3. CASE Promoting
  <2>1. PICK q \in QueueType, obs \in SlotId \cup {NoSlot} : Promote(q, obs)
    BY <1>3 DEF Promoting
  <2>2. UNCHANGED Asked
    BY <1>1, <1>3 DEF Promoting
  <2>3. CASE queued_latest # NoTransition
    <3>1. Deliver(queued_latest, q, obs, NoTransition, NoOrigin) /\ queued_latest \in Transition
      BY <1>0, <2>1, <2>3 DEF Promote, HandledType
    <3> QED BY <1>0, <2>2, <2>3, <3>1, Delivered
  <2>4. CASE queued_latest = NoTransition
    <3>1. ResetSlotJumps /\ UNCHANGED <<run, commands, history>>
      BY <2>1, <2>4 DEF Promote
    <3>2. OnItsWay' = OnItsWay
      BY <3>1, OnItsWayParts
    <3> QED BY <2>2, <3>1, <3>2
  <2> QED BY <2>3, <2>4
<1>4. CASE Forgetting
  BY <1>1, <1>4 DEF Forgetting
<1>5. CASE Keeping
  BY <1>1, <1>5 DEF Keeping
<1> QED BY <1>0, <1>2, <1>3, <1>4, <1>5, StepKinds

\* The cold daemon.
LEMMA InitInv == Init => IInv
BY TypeInit DEF Init, IInv, HistoryShape, OriginTracksQueued, InFlightWasSent

\* Every step keeps the invariant.
LEMMA InvStep == IInv /\ [Next]_vars => IInv'
<1> SUFFICES ASSUME IInv, [Next]_vars PROVE IInv'
  OBVIOUS
<1>0. HandledType /\ HistoryShape /\ OriginTracksQueued /\ InFlightWasSent
  BY TypeParts DEF IInv
<1>1. TypeOK'
  BY TypeStep DEF IInv
<1>2. \A t \in Transition : t # NoTransition
  BY NoTransitionAssumption
<1> SUFFICES HistoryShape' /\ OriginTracksQueued' /\ InFlightWasSent'
  BY <1>1 DEF IInv
<1> USE DEF HistoryShape, OriginTracksQueued, InFlightWasSent
<1>3. CASE \E t \in Transition :
                /\ in_flight' = t /\ queued_latest' = NoTransition
                /\ queued_transition_origin' = NoOrigin
                /\ history' = [sent |-> Identity(t), superseded |-> history.superseded]
  BY <1>3
<1>4. CASE \E t \in Transition :
                /\ in_flight # NoTransition
                /\ queued_latest' = t /\ queued_transition_origin' = Origin(t)
                /\ Supersede(queued_latest)
                /\ UNCHANGED in_flight
  <2>1. history'.sent = history.sent /\ HistoryShape'
    BY <1>0, <1>4, Displaced
  <2> QED BY <1>0, <1>2, <1>4, <2>1
<1>5. CASE /\ queued_latest # NoTransition
           /\ in_flight' = queued_latest /\ queued_latest' = NoTransition
           /\ queued_transition_origin' = NoOrigin
           /\ history' = [sent |-> Identity(queued_latest), superseded |-> history.superseded]
  BY <1>5
<1>6. CASE ResetSlotJumps /\ UNCHANGED history
  BY <1>0, <1>6 DEF ResetSlotJumps
<1>7. CASE UNCHANGED Tracked
  BY <1>0, <1>7 DEF Tracked
<1> HIDE DEF HistoryShape, OriginTracksQueued, InFlightWasSent
<1> QED BY <1>3, <1>4, <1>5, <1>6, <1>7, KindsLeave

\* The inductive invariant holds.
LEMMA Inductive == Spec => []IInv
<1>1. Init => IInv
  BY InitInv
<1>2. IInv /\ [Next]_vars => IInv'
  BY InvStep
<1> QED BY <1>1, <1>2, PTL DEF Spec

\* A transition waits only behind another one, and the origin the owner keeps
\* in a variable of its own is that of the waiting one, after every dispatch,
\* settle, expiry and reset.
THEOREM OriginAlwaysTracksQueued == Spec => []OriginTracksQueued
<1>1. IInv => OriginTracksQueued
  BY DEF IInv
<1> QED BY <1>1, Inductive, PTL

\* A jump in flight is one that was sent to a run, the last one.
THEOREM InFlightAlwaysWasSent == Spec => []InFlightWasSent
<1>1. IInv => InFlightWasSent
  BY DEF IInv
<1> QED BY <1>1, Inductive, PTL

\* Whoever displaces a client's waiting jump, that client is sent Superseded
\* for it.
THEOREM DisplacedAlwaysTold == Spec => DisplacedIsTold
<1>1. ASSUME IInv, [Next]_vars
      PROVE  [(/\ queued_latest # NoTransition /\ queued_latest.sender # NoClient
               /\ queued_latest' # NoTransition /\ queued_latest' # queued_latest)
                => Identity(queued_latest) \in history'.superseded]_vars
  <2> SUFFICES ASSUME queued_latest # NoTransition, queued_latest.sender # NoClient,
                      queued_latest' # NoTransition, queued_latest' # queued_latest
               PROVE  Identity(queued_latest) \in history'.superseded
    OBVIOUS
  <2>1. HandledType /\ HistoryShape /\ OriginTracksQueued
    BY <1>1, TypeParts DEF IInv
  <2>2. Supersede(queued_latest)
    BY <1>1, KindsLeave DEF ResetSlotJumps, Tracked
  <2>3. queued_latest \in Transition /\ queued_latest.sender \in Clients
    BY <2>1 DEF HandledType, Transition
  <2>4. Identity(queued_latest) \in {Identity(t) : t \in {u \in {queued_latest} :
                                u # NoTransition /\ u.sender \in Clients}}
    BY <2>3
  <2>5. history'.superseded = history.superseded \cup
                            {Identity(t) : t \in {u \in {queued_latest} :
                                u # NoTransition /\ u.sender \in Clients}}
    BY <2>1, <2>2, Displaced
  <2> QED BY <2>4, <2>5
<1> QED BY <1>1, Inductive, PTL DEF Spec, DisplacedIsTold

-----------------------------------------------------------------------------
(* The promise of LatestJump.                                              *)

\* The owner and the run, as LatestJump sees them.
Flying == Identities({in_flight} \ {NoTransition})
Waiting == Identities({queued_latest} \ {NoTransition})
Underway == Identities(OnItsWay)

\* Identities of one set and of two.
LEMMA IdentitiesProperties ==
    /\ \A t : Identities({t}) = {Identity(t)}
    /\ Identities({}) = {}
    /\ \A a, b : Identities(a \cup b) = Identities(a) \cup Identities(b)
    /\ \A a, b : a \subseteq b => Identities(a) \subseteq Identities(b)
BY DEF Identities

\* One jump, or none.
LEMMA OneIdentity ==
    /\ \A t \in Transition : Identities({t} \ {NoTransition}) = {Identity(t)}
    /\ Identities({NoTransition} \ {NoTransition}) = {}
<1>1. \A t \in Transition : {t} \ {NoTransition} = {t}
  BY NoTransitionAssumption
<1>2. {NoTransition} \ {NoTransition} = {}
  OBVIOUS
<1> QED BY <1>1, <1>2, IdentitiesProperties

\* The clients that are told are those a waiting jump has.
LEMMA OwnedWaiting ==
    ASSUME HandledType
    PROVE  {Identity(t) : t \in {u \in {queued_latest} :
                u # NoTransition /\ u.sender \in Clients}}
             = Waiting \cap (Clients \X BOOLEAN \X Nat)
<1>1. CASE queued_latest = NoTransition
  <2>1. Waiting = {}
    BY <1>1, OneIdentity DEF Waiting
  <2> QED BY <1>1, <2>1
<1>2. CASE queued_latest # NoTransition
  <2>1. queued_latest \in Transition /\ Waiting = {Identity(queued_latest)}
    BY <1>2, OneIdentity DEF Waiting, HandledType
  <2>2. Identity(queued_latest) \in Clients \X BOOLEAN \X Nat <=> queued_latest.sender \in Clients
    BY <2>1 DEF Identity, Transition
  <2> QED BY <1>2, <2>1, <2>2
<1> QED BY <1>1, <1>2

\* The cold daemon has nothing in flight.
LEMMA JumpInit == Init => Jumps!Init
<1> SUFFICES ASSUME Init PROVE Jumps!Init
  OBVIOUS
<1>1. OnItsWay = {}
  BY OnItsWayParts DEF Init, NoRun, JumpsIn
<1>2. Asked = {}
  <2>1. \A r \in Nat : r \notin 1..0
    OBVIOUS
  <2> QED BY <2>1 DEF Init, Asked
<1>3. Flying = {} /\ Waiting = {} /\ Underway = {}
  BY <1>1, OneIdentity, IdentitiesProperties DEF Init, Flying, Waiting, Underway
<1> QED BY <1>2, <1>3 DEF Jumps!Init, Init, Flying, Waiting, Underway

\* Every step of the owner and of the run is one of LatestJump.
LEMMA JumpStep == IInv /\ [Next]_vars => [Jumps!Next]_(Jumps!vars)
<1> SUFFICES ASSUME IInv, [Next]_vars PROVE [Jumps!Next]_(Jumps!vars)
  OBVIOUS
<1>0. /\ HandledType /\ HistoryShape /\ OriginTracksQueued
      /\ in_flight \in Transition \cup {NoTransition}
      /\ queued_latest \in Transition \cup {NoTransition}
  BY TypeParts DEF IInv, HandledType
<1>1. \A t \in Transition : t # NoTransition
  BY NoTransitionAssumption
<1>2. CASE \E t \in Transition :
                /\ in_flight = NoTransition
                /\ in_flight' = t /\ queued_latest' = NoTransition
                /\ history' = [sent |-> Identity(t), superseded |-> history.superseded]
                /\ OnItsWay' = OnItsWay \cup {t}
                /\ Asked \subseteq Asked' /\ Identity(t) \in Asked' \ Asked
  <2>1. PICK t \in Transition :
                /\ in_flight = NoTransition
                /\ in_flight' = t /\ queued_latest' = NoTransition
                /\ history'.superseded = history.superseded
                /\ OnItsWay' = OnItsWay \cup {t}
                /\ Asked \subseteq Asked' /\ Identity(t) \in Asked' \ Asked
    BY <1>2
  <2>2. queued_latest = NoTransition
    BY <1>0, <2>1, IdleOwner
  <2>3. /\ Flying = {} /\ Flying' = {Identity(t)} /\ Waiting' = Waiting
        /\ Underway' = Underway \cup {Identity(t)}
    BY <2>1, <2>2, OneIdentity, IdentitiesProperties DEF Flying, Waiting, Underway
  <2>4. Jumps!Send
    BY <2>1, <2>3 DEF Jumps!Send, Flying, Waiting, Underway
  <2> QED BY <2>4 DEF Jumps!Next
<1>3. CASE \E t \in Transition :
                /\ in_flight # NoTransition
                /\ queued_latest' = t
                /\ Supersede(queued_latest)
                /\ UNCHANGED <<in_flight, OnItsWay>>
                /\ Asked \subseteq Asked' /\ Identity(t) \in Asked' \ Asked
  <2>1. PICK t \in Transition :
                /\ in_flight # NoTransition
                /\ queued_latest' = t
                /\ Supersede(queued_latest)
                /\ UNCHANGED <<in_flight, OnItsWay>>
                /\ Asked \subseteq Asked' /\ Identity(t) \in Asked' \ Asked
    BY <1>3
  <2>2. /\ Flying # {} /\ Flying' = Flying /\ Underway' = Underway
        /\ Waiting' = {Identity(t)}
    BY <1>0, <2>1, OneIdentity DEF Flying, Waiting, Underway
  <2>3. history'.superseded = history.superseded \cup (Waiting \cap (Clients \X BOOLEAN \X Nat))
    BY <1>0, <2>1, Displaced, OwnedWaiting
  <2>4. Jumps!Hold
    BY <2>1, <2>2, <2>3 DEF Jumps!Hold, Flying, Waiting, Underway
  <2> QED BY <2>4 DEF Jumps!Next
<1>4. CASE /\ queued_latest # NoTransition
           /\ in_flight' = queued_latest /\ queued_latest' = NoTransition
           /\ history' = [sent |-> Identity(queued_latest), superseded |-> history.superseded]
           /\ OnItsWay' = OnItsWay \cup {queued_latest}
           /\ UNCHANGED Asked
  <2>1. /\ Waiting # {} /\ Waiting' = {} /\ Flying' = Waiting
        /\ Underway' = Underway \cup Waiting
    BY <1>0, <1>4, OneIdentity, IdentitiesProperties DEF Flying, Waiting, Underway
  <2>2. Jumps!Promote
    BY <1>4, <2>1 DEF Jumps!Promote, Flying, Waiting, Underway
  <2> QED BY <2>2 DEF Jumps!Next
<1>5. CASE /\ ResetSlotJumps /\ OnItsWay' \subseteq OnItsWay
           /\ UNCHANGED history /\ Asked \subseteq Asked'
  <2>1. Flying' = {} /\ Waiting' = {} /\ Underway' \subseteq Underway
    BY <1>5, OneIdentity, IdentitiesProperties DEF Flying, Waiting, Underway, ResetSlotJumps
  <2>2. Jumps!Drop
    BY <1>5, <2>1 DEF Jumps!Drop, Flying, Waiting, Underway
  <2> QED BY <2>2 DEF Jumps!Next
<1>6. CASE OnItsWay' \subseteq OnItsWay /\ UNCHANGED Tracked /\ UNCHANGED Asked
  <2>1. Flying' = Flying /\ Waiting' = Waiting /\ Underway' \subseteq Underway
    BY <1>6, IdentitiesProperties DEF Flying, Waiting, Underway, Tracked
  <2>2. Jumps!Lose
    BY <1>6, <2>1 DEF Jumps!Lose, Flying, Waiting, Underway, Tracked
  <2> QED BY <2>2 DEF Jumps!Next
<1> QED BY <1>2, <1>3, <1>4, <1>5, <1>6, KindsLeave

\* The owner, its channels and the run implement LatestJump: one jump at a
\* time, the latest behind it, and every displaced one reported.
THEOREM OwnerImplementsLatestJump == Spec => ImplementsLatestJump
<1>1. Init => Jumps!Init
  BY JumpInit
<1>2. IInv /\ [Next]_vars => [Jumps!Next]_(Jumps!vars)
  BY JumpStep
<1> QED BY <1>1, <1>2, Inductive, PTL DEF Spec, ImplementsLatestJump, Jumps!Spec

\* What LatestJump keeps: every jump was asked for, and a told one is at none
\* of the places from which a jump is played.
Apart ==
    /\ Waiting # {} => Flying # {}
    /\ Flying \cup Waiting \cup Underway \cup history.superseded \subseteq Asked
    /\ Waiting \cap (Flying \cup Underway \cup history.superseded) = {}
    /\ history.superseded \cap (Flying \cup Underway) = {}

\* A step of LatestJump keeps it.
LEMMA ApartStep == Apart /\ [Jumps!Next]_(Jumps!vars) => Apart'
<1> SUFFICES ASSUME Apart, [Jumps!Next]_(Jumps!vars) PROVE Apart'
  OBVIOUS
<1> DEFINE told == history.superseded
           told1 == history'.superseded
<1>1. CASE Jumps!Send
  <2>1. /\ Flying = {} /\ Waiting' = Waiting /\ told1 = told /\ Asked \subseteq Asked'
        /\ \E j \in Asked' \ Asked : Flying' = {j} /\ Underway' = Underway \cup {j}
    BY <1>1 DEF Jumps!Send, Flying, Waiting, Underway
  <2> QED BY <2>1 DEF Apart
<1>2. CASE Jumps!Hold
  <2>1. /\ Flying # {} /\ Flying' = Flying /\ Underway' = Underway /\ Asked \subseteq Asked'
        /\ \E j \in Asked' \ Asked : Waiting' = {j}
        /\ told1 = told \cup (Waiting \cap (Clients \X BOOLEAN \X Nat))
    BY <1>2 DEF Jumps!Hold, Flying, Waiting, Underway
  <2> QED BY <2>1 DEF Apart
<1>3. CASE Jumps!Promote
  <2>1. /\ Flying' = Waiting /\ Waiting' = {} /\ Underway' = Underway \cup Waiting
        /\ told1 = told /\ Asked' = Asked
    BY <1>3 DEF Jumps!Promote, Flying, Waiting, Underway
  <2> QED BY <2>1 DEF Apart
<1>4. CASE Jumps!Drop
  <2>1. /\ Flying' = {} /\ Waiting' = {} /\ Underway' \subseteq Underway
        /\ told1 = told /\ Asked \subseteq Asked'
    BY <1>4 DEF Jumps!Drop, Flying, Waiting, Underway
  <2> QED BY <2>1 DEF Apart
<1>5. CASE Jumps!Lose
  <2>1. /\ Flying' = Flying /\ Waiting' = Waiting /\ Underway' \subseteq Underway
        /\ told1 = told /\ Asked' = Asked
    BY <1>5 DEF Jumps!Lose, Flying, Waiting, Underway
  <2> QED BY <2>1 DEF Apart
<1>6. CASE UNCHANGED Jumps!vars
  <2>1. /\ Flying' = Flying /\ Waiting' = Waiting /\ Underway' = Underway
        /\ told1 = told /\ Asked' = Asked
    BY <1>6 DEF Jumps!vars, Flying, Waiting, Underway
  <2> QED BY <2>1 DEF Apart
<1> QED BY <1>1, <1>2, <1>3, <1>4, <1>5, <1>6 DEF Jumps!Next

\* A jump whose client was told that it is superseded is nowhere on the way
\* to the run again, through any later settle, expiry or restart.
THEOREM SupersededIsGone == Spec => []SupersededNeverPlays
<1>1. Jumps!Init => Apart
  BY DEF Jumps!Init, Apart, Flying, Waiting, Underway
<1>2. IInv /\ [Next]_vars => [Jumps!Next]_(Jumps!vars)
  BY JumpStep
<1>3. Apart => SupersededNeverPlays
  <2> SUFFICES ASSUME Apart, NEW t \in Pending \ {NoTransition}
               PROVE  Identity(t) \notin history.superseded
    BY DEF SupersededNeverPlays
  <2>1. t \in ({in_flight} \ {NoTransition}) \cup ({queued_latest} \ {NoTransition}) \cup OnItsWay
    BY DEF Pending, OnItsWay
  <2>2. Identity(t) \in Flying \cup Waiting \cup Underway
    BY <2>1 DEF Flying, Waiting, Underway, Identities
  <2> QED BY <2>2 DEF Apart
<1> QED BY <1>1, <1>2, <1>3, JumpInit, ApartStep, Inductive, PTL DEF Spec
=============================================================================

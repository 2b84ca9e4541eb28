----------------------- MODULE PlaybackIntentsProofs -----------------------
(***************************************************************************)
(* Proofs about PlaybackIntents, for every number of connections and       *)
(* requests.                                                               *)
(***************************************************************************)
EXTENDS PlaybackIntents, TLAPS

Final == {"superseded", "rejected", "coalesced"}

\* The part of the type invariant that the proofs below rest on.
Typed ==
    /\ registry \in [Connections -> {"up", "dropped", "gone"}]
    /\ requests \in [Connections -> Nat]
    /\ current \in Intent \cup {NoIntent}
    /\ lookups \subseteq [connection : Connections, request : Nat, play : Plays]

\* The current intent is the one accepted last.
CurrentIsNewest == current # NoIntent => Identity(current) = newest

\* Only requests that were made are reported on or current.
OutcomesKnown ==
    /\ \A c \in Connections, r \in Nat, o \in Outcome :
          <<c, r, o>> \in reported => r <= requests[c]
    /\ current # NoIntent => current.request <= requests[current.connection]

\* Nothing final was said about the current intent.
CurrentIsOpen ==
    current # NoIntent =>
        \A f \in Final : <<current.connection, current.request, f>> \notin reported

ReportedTyped == reported \subseteq Connections \X Nat \X Outcome

IInv == Typed /\ ReportedTyped /\ CurrentIsNewest /\ NoOrphanIntent
            /\ OutcomesKnown /\ CurrentIsOpen

\* The invariant holds when the daemon starts: no intent, nothing reported.
LEMMA InitInv == Init => IInv
  BY DEF Init, IInv, Typed, ReportedTyped, CurrentIsNewest, NoOrphanIntent,
         OutcomesKnown, CurrentIsOpen

\* Steps that leave the owner's book of intents alone.
Book == <<registry, requests, current, reported, newest>>

\* A step that touches neither the intent nor the reports keeps the invariant.
LEMMA QuietStep ==
    ASSUME IInv, UNCHANGED Book, lookups' \subseteq lookups
    PROVE  IInv'
  BY DEF IInv, Typed, ReportedTyped, CurrentIsNewest, NoOrphanIntent,
         OutcomesKnown, CurrentIsOpen, Book, Identity

\* Accepting an intent under a fresh request id.
LEMMA AcceptStep ==
    ASSUME IInv, NEW c \in Connections, NEW action \in Action, NEW phase \in Phase,
           registry[c] = "up", registry' = registry,
           requests' = [requests EXCEPT ![c] = @ + 1],
           Accept(c, requests[c] + 1, action, phase),
           lookups' \subseteq [connection : Connections, request : Nat, play : Plays]
    PROVE  IInv'
  <1> DEFINE r == requests[c] + 1
  <1>1. r \in Nat /\ r = requests'[c] /\ requests[c] \in Nat /\ r > requests[c]
    BY DEF IInv, Typed
  <1>2. \A d \in Connections : requests[d] \in Nat /\ requests'[d] \in Nat
                                /\ requests[d] <= requests'[d]
    BY DEF IInv, Typed
  <1>3. current' = [connection |-> c, request |-> r, action |-> action, phase |-> phase]
    BY DEF Accept
  <1>4. current' \in Intent /\ current'.connection = c /\ current'.request = r
    BY <1>1, <1>3 DEF Intent
  <1>5. Superseded(c, action) \subseteq Connections \X Nat \X Outcome
        /\ \A d \in Connections, s \in Nat, o \in Outcome :
             <<d, s, o>> \in Superseded(c, action) =>
                d = current.connection /\ s = current.request /\ current # NoIntent
    BY DEF Superseded, Own, Unresolved, IInv, Typed, Intent, Outcome
  <1>6. reported' \subseteq reported \cup Superseded(c, action)
                              \cup {<<c, r, "accepted">>, <<c, r, "applied">>}
    BY DEF Accept
  <1>7. Typed'
    BY <1>4, <1>1 DEF IInv, Typed
  <1>8. ReportedTyped'
    BY <1>1, <1>5, <1>6 DEF IInv, ReportedTyped, Outcome
  <1>9. CurrentIsNewest'
    BY <1>3 DEF Accept, CurrentIsNewest, Identity
  <1>10. NoOrphanIntent'
    BY <1>4 DEF NoOrphanIntent
  <1>11. ASSUME NEW d \in Connections, NEW s \in Nat, NEW o \in Outcome,
                <<d, s, o>> \in reported'
         PROVE  s <= requests'[d] /\ (o \in Final => ~ (d = c /\ s = r))
    <2>1. CASE <<d, s, o>> \in reported
      <3>1. s <= requests[d]
        BY <2>1 DEF IInv, OutcomesKnown
      <3> QED  BY <3>1, <1>1, <1>2
    <2>2. CASE <<d, s, o>> \in Superseded(c, action)
      <3>1. d = current.connection /\ s = current.request /\ current # NoIntent
        BY <2>2, <1>5
      <3>2. s <= requests[d]
        BY <3>1 DEF IInv, OutcomesKnown
      <3> QED  BY <3>2, <1>1, <1>2
    <2>3. CASE d = c /\ s = r /\ o \in {"accepted", "applied"}
      BY <2>3, <1>1 DEF Final
    <2> QED  BY <1>6, <1>11, <2>1, <2>2, <2>3
  <1>12. OutcomesKnown'
    BY <1>1, <1>4, <1>11 DEF OutcomesKnown
  <1>13. CurrentIsOpen'
    <2>1. \A f \in Final : f \in Outcome
      BY DEF Final, Outcome
    <2> QED  BY <2>1, <1>1, <1>4, <1>11 DEF CurrentIsOpen
  <1> QED  BY <1>7, <1>8, <1>9, <1>10, <1>12, <1>13 DEF IInv

\* Answering a fresh request and leaving the current intent as it is.
LEMMA AnswerStep ==
    ASSUME IInv, NEW c \in Connections,
           registry' = registry, requests' = [requests EXCEPT ![c] = @ + 1],
           \A x \in reported' : \/ x \in reported
                                \/ \E o \in Outcome : x = <<c, requests[c] + 1, o>>,
           UNCHANGED <<current, newest, lookups>>
    PROVE  IInv'
  <1>1. requests[c] + 1 \in Nat /\ requests'[c] = requests[c] + 1
    BY DEF IInv, Typed
  <1>2. \A d \in Connections : requests[d] \in Nat /\ requests'[d] \in Nat
                                /\ requests[d] <= requests'[d]
    BY DEF IInv, Typed
  <1>3. Typed' /\ ReportedTyped' /\ CurrentIsNewest' /\ NoOrphanIntent'
    BY <1>1 DEF IInv, Typed, ReportedTyped, CurrentIsNewest, NoOrphanIntent, Identity
  <1>4. current # NoIntent => /\ current.connection \in Connections
                              /\ current.request \in Nat
                              /\ current.request <= requests[current.connection]
    BY DEF IInv, Typed, Intent, OutcomesKnown
  <1>5. OutcomesKnown'
    <2>1. ASSUME NEW d \in Connections, NEW r \in Nat, NEW p \in Outcome,
                 <<d, r, p>> \in reported'
          PROVE  r <= requests'[d]
      <3>1. CASE <<d, r, p>> \in reported
        <4>1. r <= requests[d]
          BY <3>1 DEF IInv, OutcomesKnown
        <4> QED  BY <4>1, <1>2
      <3>2. CASE d = c /\ r = requests[c] + 1
        BY <3>2, <1>1
      <3> QED  BY <2>1, <3>1, <3>2
    <2>2. current' # NoIntent => current'.request <= requests'[current'.connection]
      BY <1>2, <1>4
    <2> QED  BY <2>1, <2>2 DEF OutcomesKnown
  <1>6. CurrentIsOpen'
    <2>1. current # NoIntent =>
            ~ (current.connection = c /\ current.request = requests[c] + 1)
      BY <1>1, <1>2, <1>4
    <2> QED  BY <2>1 DEF IInv, CurrentIsOpen
  <1> QED  BY <1>3, <1>5, <1>6 DEF IInv

\* Coalescing a request into the current intent.
LEMMA CoalesceStep ==
    ASSUME IInv, NEW c \in Connections, NEW action \in Action,
           registry' = registry, requests' = [requests EXCEPT ![c] = @ + 1],
           Coalesce(c, requests[c] + 1, action)
    PROVE  IInv'
  <1>1. reported' = reported \cup {<<c, requests[c] + 1, "coalesced">>}
        /\ UNCHANGED <<current, newest, lookups>>
    BY DEF Coalesce
  <1>2. \A x \in reported' : \/ x \in reported
                             \/ \E o \in Outcome : x = <<c, requests[c] + 1, o>>
    BY <1>1 DEF Outcome
  <1> QED  BY <1>1, <1>2, AnswerStep

\* The current intent changes its phase, and may be reported applied.
LEMMA PhaseStep ==
    ASSUME IInv, current # NoIntent, NEW phase \in Phase,
           current' = [current EXCEPT !.phase = phase],
           UNCHANGED <<registry, requests, newest>>, lookups' \subseteq lookups,
           reported' \subseteq reported \cup
                {<<current.connection, current.request, "applied">>}
    PROVE  IInv'
  <1>1. /\ current' \in Intent /\ current'.connection = current.connection
        /\ current'.request = current.request
        /\ current.connection \in Connections /\ current.request \in Nat
    BY DEF IInv, Typed, Intent
  <1>2. Typed' /\ ReportedTyped' /\ CurrentIsNewest' /\ NoOrphanIntent'
    BY <1>1 DEF IInv, Typed, ReportedTyped, CurrentIsNewest, NoOrphanIntent, Identity,
                Outcome
  <1>3. OutcomesKnown' /\ CurrentIsOpen'
    BY <1>1 DEF IInv, OutcomesKnown, CurrentIsOpen, Final, Outcome
  <1> QED  BY <1>2, <1>3 DEF IInv

\* The owner forgets the current intent, and may report on it once more.
LEMMA ForgetStep ==
    ASSUME IInv, current' = NoIntent, UNCHANGED <<requests, newest>>,
           registry' \in [Connections -> {"up", "dropped", "gone"}],
           lookups' \subseteq lookups,
           \/ reported' = reported
           \/ /\ current # NoIntent
              /\ reported' \subseteq reported \cup
                    {<<current.connection, current.request, "rejected">>,
                     <<current.connection, current.request, "applied">>}
    PROVE  IInv'
  <1>1. current # NoIntent => current.connection \in Connections /\ current.request \in Nat
    BY DEF IInv, Typed, Intent
  <1>2. Typed' /\ ReportedTyped'
    BY <1>1 DEF IInv, Typed, ReportedTyped, Outcome
  <1>3. CurrentIsNewest' /\ NoOrphanIntent' /\ CurrentIsOpen'
    BY DEF CurrentIsNewest, NoOrphanIntent, CurrentIsOpen
  <1>4. OutcomesKnown'
    BY <1>1 DEF IInv, OutcomesKnown
  <1> QED  BY <1>2, <1>3, <1>4 DEF IInv

\* Every request of a client keeps the invariant.
LEMMA IntentsStep ==
    ASSUME IInv, NEW c \in Connections, ClientActs(c)
    PROVE  IInv'
  <1>1. CASE PlayIntent(c)
    <2>1. PICK play \in Plays :
            /\ NewRequest(c)
            /\ \/ Coalesce(c, requests[c] + 1, [kind |-> "play", play |-> play])
               \/ /\ Accept(c, requests[c] + 1, [kind |-> "play", play |-> play], "resolving")
                  /\ lookups' = lookups \cup
                        {[connection |-> c, request |-> requests[c] + 1, play |-> play]}
               \/ /\ Accept(c, requests[c] + 1, [kind |-> "play", play |-> play], "accepted")
                  /\ UNCHANGED lookups
      BY <1>1 DEF PlayIntent
    <2>2. [kind |-> "play", play |-> play] \in Action
          /\ "resolving" \in Phase /\ "accepted" \in Phase /\ "coalesced" \in Outcome
      BY DEF Action, Phase, Outcome
    <2>3. CASE Coalesce(c, requests[c] + 1, [kind |-> "play", play |-> play])
      BY <2>1, <2>2, <2>3, CoalesceStep DEF NewRequest
    <2>4. requests[c] + 1 \in Nat
      BY DEF IInv, Typed
    <2>5. CASE ~ Coalesce(c, requests[c] + 1, [kind |-> "play", play |-> play])
      <3>1. lookups' \subseteq [connection : Connections, request : Nat, play : Plays]
        BY <2>1, <2>4, <2>5 DEF IInv, Typed
      <3> QED  BY <2>1, <2>2, <2>5, <3>1, AcceptStep DEF NewRequest
    <2> QED  BY <2>3, <2>5
  <1>2. CASE StopIntent(c)
    <2>1. [kind |-> "stop", play |-> NoPlay] \in Action /\ "applied" \in Phase
      BY DEF Action, Phase
    <2>2. lookups' \subseteq [connection : Connections, request : Nat, play : Plays]
      BY <1>2 DEF StopIntent, IInv, Typed
    <2> QED  BY <1>2, <2>1, <2>2, AcceptStep DEF StopIntent, NewRequest
  <1>3. CASE SetPausedIntent(c)
    <2>1. PICK kind \in Toggle :
            /\ NewRequest(c) /\ UNCHANGED lookups
            /\ \/ Coalesce(c, requests[c] + 1, [kind |-> kind, play |-> NoPlay])
               \/ Accept(c, requests[c] + 1, [kind |-> kind, play |-> NoPlay], "accepted")
      BY <1>3 DEF SetPausedIntent, Coalesce
    <2>2. [kind |-> kind, play |-> NoPlay] \in Action /\ "accepted" \in Phase
          /\ "coalesced" \in Outcome
      BY DEF Action, Phase, Outcome
    <2>3. CASE Coalesce(c, requests[c] + 1, [kind |-> kind, play |-> NoPlay])
      BY <2>1, <2>2, <2>3, CoalesceStep DEF NewRequest
    <2>4. CASE Accept(c, requests[c] + 1, [kind |-> kind, play |-> NoPlay], "accepted")
      <3>1. lookups' \subseteq [connection : Connections, request : Nat, play : Plays]
        BY <2>1 DEF IInv, Typed
      <3> QED  BY <2>1, <2>2, <2>4, <3>1, AcceptStep DEF NewRequest
    <2> QED  BY <2>1, <2>3, <2>4
  <1>4. CASE StepIntent(c)
    <2>1. reported' \subseteq reported \cup {<<c, requests[c] + 1, "accepted">>,
                                             <<c, requests[c] + 1, "coalesced">>}
          /\ registry' = registry /\ requests' = [requests EXCEPT ![c] = @ + 1]
          /\ UNCHANGED <<current, newest, lookups>>
      BY <1>4 DEF StepIntent, NewRequest
    <2>2. \A x \in reported' : \/ x \in reported
                               \/ \E o \in Outcome : x = <<c, requests[c] + 1, o>>
      BY <2>1 DEF Outcome
    <2> QED  BY <2>1, <2>2, AnswerStep
  <1> QED  BY <1>1, <1>2, <1>3, <1>4 DEF ClientActs

\* A failed broadcast and a disconnect keep the invariant.
LEMMA DisconnectStep ==
    ASSUME IInv, NEW c \in Connections, BroadcastFails(c) \/ HandleCtrlDisconnected(c)
    PROVE  IInv'
  <1>1. CASE BroadcastFails(c)
    BY <1>1 DEF BroadcastFails, IInv, Typed, ReportedTyped, CurrentIsNewest,
                NoOrphanIntent, OutcomesKnown, CurrentIsOpen, Identity, Intent
  <1>2. CASE HandleCtrlDisconnected(c)
    <2>1. registry' \in [Connections -> {"up", "dropped", "gone"}]
      BY <1>2 DEF HandleCtrlDisconnected, IInv, Typed
    <2>2. CASE current' = NoIntent
      BY <1>2, <2>1, <2>2, ForgetStep DEF HandleCtrlDisconnected
    <2>3. CASE current' = current /\ current # NoIntent /\ current.connection # c
      BY <1>2, <2>1, <2>3
         DEF HandleCtrlDisconnected, IInv, Typed, ReportedTyped, CurrentIsNewest,
             NoOrphanIntent, OutcomesKnown, CurrentIsOpen, Identity, Intent
    <2> QED  BY <1>2, <2>2, <2>3 DEF HandleCtrlDisconnected, Invalidated
  <1> QED  BY <1>1, <1>2

\* The answer of a lookup keeps the invariant.
LEMMA ResolvedStep ==
    ASSUME IInv, HandlePlaybackResolved
    PROVE  IInv'
  <1>1. PICK l \in lookups : /\ lookups' = lookups \ {l} /\ Resolved(l)
                             /\ UNCHANGED <<registry, requests, newest>>
    BY DEF HandlePlaybackResolved
  <1>2. registry' \in [Connections -> {"up", "dropped", "gone"}] /\ lookups' \subseteq lookups
    BY <1>1 DEF IInv, Typed
  <1>3. CASE current' = current /\ reported' = reported
    BY <1>1, <1>2, <1>3, QuietStep DEF Book
  <1>4. CASE current' = NoIntent /\ reported' = reported
    BY <1>1, <1>2, <1>4, ForgetStep
  <1>5. CASE IsCurrent(l) /\ Refuse(l)
    BY <1>1, <1>2, <1>5, ForgetStep DEF IsCurrent, Refuse, Identity
  <1>6. CASE IsCurrent(l) /\ Install(l)
    <2>1. "opening" \in Phase
      BY DEF Phase
    <2> QED  BY <1>1, <1>2, <1>6, <2>1, PhaseStep DEF IsCurrent, Install
  <1> QED  BY <1>1, <1>3, <1>4, <1>5, <1>6 DEF Resolved, Invalidated

\* Every event of the player keeps the invariant.
LEMMA PlayerEventStep ==
    ASSUME IInv, HandlePlayerEvent
    PROVE  IInv'
  <1>1. UNCHANGED <<registry, requests, newest, lookups>> /\ lookups' \subseteq lookups
    BY DEF HandlePlayerEvent, HandleTrackChanged, HandlePausedChanged, HandleStopped,
           HandleOutputStarted, Waiting
  <1>2. CASE current' = current /\ reported' = reported
    BY <1>1, <1>2, QuietStep DEF Book
  <1>3. CASE current # NoIntent /\ Applied
    <2>1. "applied" \in Phase
      BY DEF Phase
    <2> QED  BY <1>1, <1>3, <2>1, PhaseStep DEF Applied
  <1>4. CASE current # NoIntent /\ reported' = reported
             /\ current' = [current EXCEPT !.phase = "buffering"]
    <2>1. "buffering" \in Phase
      BY DEF Phase
    <2> QED  BY <1>1, <1>4, <2>1, PhaseStep
  <1>5. \/ UNCHANGED <<current, reported>>
        \/ current # NoIntent /\ Applied
        \/ /\ current # NoIntent /\ reported' = reported
           /\ current' = [current EXCEPT !.phase = "buffering"]
    BY DEF HandlePlayerEvent, HandleTrackChanged, HandlePausedChanged, HandleStopped,
           HandleOutputStarted, IsPlay
  <1> QED  BY <1>2, <1>3, <1>4, <1>5

\* An idle tick of the owner, with what is due in it, keeps the invariant.
LEMMA TimeoutStep ==
    ASSUME IInv, OnRecvTimeout
    PROVE  IInv'
  <1>1. PICK due, expired \in BOOLEAN :
          LET settled == IF due THEN Buffered ELSE current
              hit == expired /\ settled # NoIntent /\ settled.request = in_flight.request
          IN /\ due => current # NoIntent /\ current.phase = "buffering"
             /\ current' = IF hit THEN NoIntent ELSE settled
             /\ reported' = reported
                  \cup (IF due /\ settled # NoIntent
                        THEN {<<settled.connection, settled.request, "applied">>} ELSE {})
                  \cup (IF hit THEN {<<settled.connection, settled.request, "rejected">>}
                        ELSE {})
    BY DEF OnRecvTimeout
  <1>2. UNCHANGED <<registry, requests, newest, lookups>> /\ lookups' \subseteq lookups
    BY DEF OnRecvTimeout
  <1>3. registry' \in [Connections -> {"up", "dropped", "gone"}]
    BY <1>2 DEF IInv, Typed
  <1>4. CASE ~ due
    <2>1. CASE current' = NoIntent
      BY <1>1, <1>2, <1>3, <1>4, <2>1, ForgetStep
    <2>2. CASE current' # NoIntent
      <3>1. current' = current /\ reported' = reported
        BY <1>1, <1>4, <2>2
      <3> QED  BY <1>2, <3>1, QuietStep DEF Book
    <2> QED  BY <2>1, <2>2
  <1>5. CASE due
    <2>1. current # NoIntent /\ current \in Intent
      BY <1>1, <1>5 DEF IInv, Typed
    <2>2. Buffered = NoIntent \/ Buffered = [current EXCEPT !.phase = "applied"]
      BY DEF Buffered
    <2>3. Buffered # NoIntent => Buffered = [current EXCEPT !.phase = "applied"]
                              /\ Buffered.connection = current.connection
                              /\ Buffered.request = current.request
      BY <2>1, <2>2 DEF Intent
    <2>4. reported' \subseteq reported \cup
              {<<current.connection, current.request, "rejected">>,
               <<current.connection, current.request, "applied">>}
      BY <1>1, <1>5, <2>3
    <2>5. CASE current' = NoIntent
      BY <1>2, <1>3, <2>1, <2>4, <2>5, ForgetStep
    <2>6. CASE current' # NoIntent
      <3>1. current' = [current EXCEPT !.phase = "applied"]
        BY <1>1, <1>5, <2>3, <2>6
      <3>2. reported' \subseteq reported \cup
              {<<current.connection, current.request, "applied">>}
        BY <1>1, <1>5, <2>3, <2>6
      <3>3. "applied" \in Phase
        BY DEF Phase
      <3> QED  BY <1>2, <2>1, <3>1, <3>2, <3>3, PhaseStep
    <2> QED  BY <2>5, <2>6
  <1> QED  BY <1>4, <1>5

\* The inductive step.
LEMMA NextInv == IInv /\ [Next]_vars => IInv'
  <1> SUFFICES ASSUME IInv, [Next]_vars PROVE IInv'
    OBVIOUS
  <1>1. ASSUME NEW c \in Connections,
               ClientActs(c) \/ BroadcastFails(c) \/ HandleCtrlDisconnected(c)
        PROVE  IInv'
    BY <1>1, IntentsStep, DisconnectStep
  <1>2. CASE LocalJump \/ PlainStop
    BY <1>2, QuietStep DEF LocalJump, PlainStop, Book
  <1>3. CASE HandlePlaybackResolved \/ HandlePlayerEvent \/ OnRecvTimeout
    BY <1>3, ResolvedStep, PlayerEventStep, TimeoutStep
  <1>4. CASE RunTakes \/ RunObservesPause \/ MpvTogglesPause
              \/ RunOutputStarts \/ RunMoves \/ RunEnds
    BY <1>4, QuietStep DEF RunTakes, RunObservesPause, MpvTogglesPause,
         RunOutputStarts, RunMoves, RunEnds, owner, Book
  <1>5. CASE UNCHANGED vars
    BY <1>5, QuietStep DEF vars, owner, Book
  <1> QED  BY <1>1, <1>2, <1>3, <1>4, <1>5 DEF Next

\* The current intent is always the one accepted last, belongs to a
\* connection that is not closed, and has had no final word: by induction
\* over every handler of the owner.
THEOREM IntentInvariant == Spec => []IInv
  BY InitInv, NextInv, PTL DEF Spec

\* No intent of a closed connection stays current, for any number of
\* connections and requests.
THEOREM NoOrphanIntentHolds == Spec => []NoOrphanIntent
  <1>1. IInv => NoOrphanIntent
    BY DEF IInv
  <1> QED  BY <1>1, IntentInvariant, PTL

\* Only the answer to a lookup installs a play: its own, still current and
\* still connected.
LEMMA InstallIsCurrent ==
    ASSUME IInv, [Next]_vars, NEW i \in installed' \ installed
    PROVE  i = newest /\ registry[i[1]] = "up"
  <1>1. CASE HandlePlaybackResolved
    <2>1. PICK l \in lookups : Resolved(l)
      BY <1>1 DEF HandlePlaybackResolved
    <2>2. Install(l) /\ IsCurrent(l) /\ registry[l.connection] = "up"
      BY <2>1 DEF Resolved, Refuse
    <2>3. i = Identity(l)
      BY <2>2 DEF Install
    <2>4. i = newest
      BY <2>2, <2>3 DEF IsCurrent, IInv, CurrentIsNewest
    <2>5. i[1] = l.connection
      BY <2>3 DEF Identity
    <2> QED  BY <2>2, <2>4, <2>5
  <1>2. CASE ~ HandlePlaybackResolved
    <2>1. installed' = installed
      BY <1>2 DEF Next, vars, owner, ClientActs, PlayIntent, StopIntent, SetPausedIntent,
           StepIntent, NewRequest, BroadcastFails, HandleCtrlDisconnected, LocalJump,
           PlainStop, HandlePlayerEvent, HandleTrackChanged, HandlePausedChanged,
           HandleStopped, HandleOutputStarted, Waiting, OnRecvTimeout, RunTakes,
           RunObservesPause, MpvTogglesPause, RunOutputStarts, RunMoves, RunEnds
    <2> QED  BY <2>1
  <1> QED  BY <1>1, <1>2

\* An answered lookup starts playback only for the intent accepted last, so
\* neither a newer play nor a stop of any client can be undone by a late
\* answer.
THEOREM LatestIntentWinsHolds == Spec => LatestIntentWins
  <1>1. IInv /\ [Next]_vars => [\A i \in installed' \ installed : i = newest]_vars
    BY InstallIsCurrent
  <1> QED  BY <1>1, IntentInvariant, PTL DEF Spec, LatestIntentWins

\* A client that is no longer connected starts nothing.
THEOREM GoneClientStartsNothingHolds == Spec => GoneClientStartsNothing
  <1>1. IInv /\ [Next]_vars
            => [\A i \in installed' \ installed : registry[i[1]] = "up"]_vars
    BY InstallIsCurrent
  <1> QED  BY <1>1, IntentInvariant, PTL DEF Spec, GoneClientStartsNothing

\* A step reports on a request that is new, or on the current intent.
LEMMA NewReports ==
    ASSUME IInv, [Next]_vars, NEW o \in reported' \ reported
    PROVE  \/ \E c \in Connections : o[1] = c /\ o[2] = requests[c] + 1
           \/ current # NoIntent /\ o[1] = current.connection /\ o[2] = current.request
  <1>1. ASSUME NEW c \in Connections, NEW action, NEW phase,
               Accept(c, requests[c] + 1, action, phase)
        PROVE  \/ o[1] = c /\ o[2] = requests[c] + 1
               \/ current # NoIntent /\ o[1] = current.connection /\ o[2] = current.request
    BY <1>1 DEF Accept, Superseded, Own, Unresolved
  <1>2. ASSUME NEW c \in Connections, NEW action, Coalesce(c, requests[c] + 1, action)
        PROVE  o[1] = c /\ o[2] = requests[c] + 1
    BY <1>2 DEF Coalesce
  <1>3. ASSUME NEW c \in Connections, ClientActs(c)
        PROVE  \/ o[1] = c /\ o[2] = requests[c] + 1
               \/ current # NoIntent /\ o[1] = current.connection /\ o[2] = current.request
    <2>1. CASE PlayIntent(c)
      BY <2>1, <1>1, <1>2 DEF PlayIntent
    <2>2. CASE StopIntent(c)
      BY <2>2, <1>1 DEF StopIntent
    <2>3. CASE SetPausedIntent(c)
      BY <2>3, <1>1, <1>2 DEF SetPausedIntent
    <2>4. CASE StepIntent(c)
      BY <2>4 DEF StepIntent
    <2> QED  BY <1>3, <2>1, <2>2, <2>3, <2>4 DEF ClientActs
  <1>4. CASE HandlePlaybackResolved
    <2>1. PICK l \in lookups : Resolved(l)
      BY <1>4 DEF HandlePlaybackResolved
    <2>2. Refuse(l) /\ IsCurrent(l)
      BY <2>1 DEF Resolved, Install
    <2> QED  BY <2>2 DEF Refuse, IsCurrent, Identity
  <1>5. CASE HandlePlayerEvent
    BY <1>5 DEF HandlePlayerEvent, HandleTrackChanged, HandlePausedChanged, HandleStopped,
                HandleOutputStarted, Applied, IsPlay
  <1>6. CASE OnRecvTimeout
    <2>1. current \in Intent \cup {NoIntent}
      BY DEF IInv, Typed
    <2>2. ASSUME current # NoIntent, Buffered # NoIntent
          PROVE  Buffered.connection = current.connection /\ Buffered.request = current.request
      BY <2>1, <2>2 DEF Buffered, Intent
    <2> QED  BY <1>6, <2>2 DEF OnRecvTimeout
  <1>7. CASE UNCHANGED reported
    BY <1>7
  <1>8. \/ \E c \in Connections : ClientActs(c)
        \/ HandlePlaybackResolved \/ HandlePlayerEvent \/ OnRecvTimeout
        \/ UNCHANGED reported
    BY DEF Next, vars, owner, BroadcastFails, HandleCtrlDisconnected, LocalJump, PlainStop,
           RunTakes, RunObservesPause, MpvTogglesPause, RunOutputStarts, RunMoves, RunEnds
  <1> QED  BY <1>3, <1>4, <1>5, <1>6, <1>7, <1>8

\* Superseded, rejected and coalesced are the last word on a request.
THEOREM LastWordIsLastHolds == Spec => LastWordIsLast
  <1>1. ASSUME IInv, [Next]_vars, NEW o \in reported' \ reported, NEW f \in Final
        PROVE  <<o[1], o[2], f>> \notin reported
    <2>1. f \in Outcome
      BY DEF Final, Outcome
    <2>2. CASE current # NoIntent /\ o[1] = current.connection /\ o[2] = current.request
      BY <1>1, <2>2 DEF IInv, CurrentIsOpen
    <2>3. ASSUME NEW c \in Connections, o[1] = c, o[2] = requests[c] + 1
          PROVE  <<o[1], o[2], f>> \notin reported
      <3>1. requests[c] \in Nat /\ requests[c] + 1 \in Nat
            /\ ~ (requests[c] + 1 <= requests[c])
        BY <1>1 DEF IInv, Typed
      <3> QED  BY <1>1, <2>1, <2>3, <3>1 DEF IInv, OutcomesKnown
    <2> QED  BY <1>1, <2>2, <2>3, NewReports
  <1>2. IInv /\ [Next]_vars
            => [\A o \in reported' \ reported :
                    \A final \in {"superseded", "rejected", "coalesced"} :
                        <<o[1], o[2], final>> \notin reported]_vars
    BY <1>1 DEF Final
  <1> QED  BY <1>2, IntentInvariant, PTL DEF Spec, LastWordIsLast

-----------------------------------------------------------------------------
(* The rest of the type invariant.                                         *)

Transition == [request : Nat, sender : Connections \cup {NoConnection}]
RunType == [alive : BOOLEAN, stopping : BOOLEAN, len : Nat, at : Nat,
            paused : BOOLEAN, seen : SUBSET BOOLEAN]

PlayerTyped ==
    /\ status_paused \in BOOLEAN
    /\ run \in RunType /\ run.at \in 0..run.len
    /\ commands \in Seq(Command) /\ events \in Seq(Event)

OwnerTyped ==
    /\ in_flight \in Transition \cup {NoTransition}
    /\ queued_latest \in Transition \cup {NoTransition}
    /\ next_local_id \in Nat
    /\ queue \in Seq(Items)
    /\ installed \subseteq Connections \X Nat

\* Sending a command keeps the channel typed.
LEMMA SendTyped ==
    ASSUME commands \in Seq(Command), NEW c \in Command, SendCommand(c)
    PROVE  commands' \in Seq(Command)
  BY DEF SendCommand

\* Delivering a jump keeps the jumps typed.
LEMMA DeliverJumps ==
    ASSUME NEW t \in Transition, NEW behind \in Transition \cup {NoTransition},
           Deliver(t, behind)
    PROVE  /\ in_flight' \in Transition \cup {NoTransition}
           /\ queued_latest' \in Transition \cup {NoTransition}
  BY DEF Deliver, ResetSlotJumps

\* So does dispatching one.
LEMMA DispatchJumps ==
    ASSUME OwnerTyped, NEW t \in Transition, DispatchSlotJump(t)
    PROVE  /\ in_flight' \in Transition \cup {NoTransition}
           /\ queued_latest' \in Transition \cup {NoTransition}
  BY DeliverJumps DEF OwnerTyped, DispatchSlotJump

\* And letting the queued one take the place of the one in flight.
LEMMA PromoteJumps ==
    ASSUME OwnerTyped, Promote
    PROVE  /\ in_flight' \in Transition \cup {NoTransition}
           /\ queued_latest' \in Transition \cup {NoTransition}
  BY DeliverJumps DEF OwnerTyped, Promote, ResetSlotJumps

\* The jumps, the queue and the installed plays keep their types.
LEMMA OwnerTypedStep ==
    ASSUME IInv, OwnerTyped, [Next]_vars
    PROVE  OwnerTyped'
  <1> DEFINE JumpsTyped == /\ in_flight' \in Transition \cup {NoTransition}
                           /\ queued_latest' \in Transition \cup {NoTransition}
  <1>0. ASSUME UNCHANGED jumps PROVE JumpsTyped
    BY <1>0 DEF jumps, OwnerTyped
  <1>1. ASSUME NEW c \in Connections, ClientActs(c)
        PROVE  OwnerTyped'
    <2>1. [request |-> requests[c] + 1, sender |-> c] \in Transition
      BY DEF IInv, Typed, Transition
    <2>2. JumpsTyped
      <3>1. CASE StepIntent(c)
        <4>1. UNCHANGED jumps \/ DispatchSlotJump([request |-> requests[c] + 1, sender |-> c])
          BY <3>1 DEF StepIntent
        <4> QED  BY <1>0, <2>1, <4>1, DispatchJumps
      <3>2. CASE StopIntent(c)
        BY <3>2 DEF StopIntent, StopOutput, ResetSlotJumps
      <3>3. CASE PlayIntent(c) \/ SetPausedIntent(c)
        <4>1. UNCHANGED jumps
          BY <3>3 DEF PlayIntent, SetPausedIntent, Coalesce
        <4> QED  BY <1>0, <4>1
      <3> QED  BY <1>1, <3>1, <3>2, <3>3 DEF ClientActs
    <2>3. UNCHANGED <<next_local_id, queue, installed>>
      BY <1>1 DEF ClientActs, PlayIntent, StopIntent, SetPausedIntent, StepIntent, NewRequest
    <2> QED  BY <2>2, <2>3 DEF OwnerTyped
  <1>2. CASE LocalJump
    <2>1. PICK sender \in Connections \cup {NoConnection} :
               DispatchSlotJump([request |-> next_local_id + 1, sender |-> sender])
      BY <1>2 DEF LocalJump
    <2>2. [request |-> next_local_id + 1, sender |-> sender] \in Transition
          /\ next_local_id + 1 \in Nat
      BY DEF OwnerTyped, Transition
    <2>3. JumpsTyped
      BY <2>1, <2>2, DispatchJumps
    <2>4. next_local_id' = next_local_id + 1 /\ UNCHANGED <<queue, installed>>
      BY <1>2 DEF LocalJump
    <2> QED  BY <2>2, <2>3, <2>4 DEF OwnerTyped
  <1>3. CASE HandlePlaybackResolved
    <2>1. PICK l \in lookups : Resolved(l) /\ next_local_id' = next_local_id
      BY <1>3 DEF HandlePlaybackResolved
    <2>2. l.connection \in Connections /\ l.request \in Nat /\ l.play \in Plays
      BY DEF IInv, Typed
    <2>3. l.play.items \in Seq(Items)
      BY <2>2, PlaysAssumption
    <2>4. CASE Install(l)
      <3>1. JumpsTyped /\ queue' = l.play.items
            /\ installed' = installed \cup {<<l.connection, l.request>>}
        BY <2>4 DEF Install, ResetSlotJumps, Identity
      <3>2. installed' \subseteq Connections \X Nat
        BY <2>2, <3>1 DEF OwnerTyped
      <3> QED  BY <2>1, <2>3, <3>1, <3>2 DEF OwnerTyped
    <2>5. CASE UNCHANGED <<jumps, queue, installed>>
      BY <1>0, <2>1, <2>5 DEF OwnerTyped
    <2> QED  BY <2>1, <2>4, <2>5 DEF Resolved, Refuse
  <1>4. CASE HandlePlayerEvent \/ OnRecvTimeout \/ PlainStop
    <2>1. Promote \/ ResetSlotJumps \/ UNCHANGED jumps
      BY <1>4 DEF HandlePlayerEvent, HandleTrackChanged, HandlePausedChanged, HandleStopped,
                  HandleOutputStarted, OnRecvTimeout, PlainStop, StopOutput
    <2>2. JumpsTyped
      BY <1>0, <2>1, PromoteJumps DEF ResetSlotJumps
    <2>3. UNCHANGED <<next_local_id, queue, installed>>
      BY <1>4 DEF HandlePlayerEvent, HandleTrackChanged, HandlePausedChanged, HandleStopped,
                  HandleOutputStarted, Waiting, OnRecvTimeout, PlainStop
    <2> QED  BY <2>2, <2>3 DEF OwnerTyped
  <1>5. CASE UNCHANGED <<jumps, next_local_id, queue, installed>>
    BY <1>0, <1>5 DEF OwnerTyped
  <1>6. \/ \E c \in Connections : ClientActs(c)
        \/ LocalJump \/ HandlePlaybackResolved
        \/ HandlePlayerEvent \/ OnRecvTimeout \/ PlainStop
        \/ UNCHANGED <<jumps, next_local_id, queue, installed>>
    BY DEF Next, vars, owner, BroadcastFails, HandleCtrlDisconnected,
           RunTakes, RunObservesPause, MpvTogglesPause, RunOutputStarts, RunMoves, RunEnds
  <1> QED  BY <1>1, <1>2, <1>3, <1>4, <1>5, <1>6

\* The start position handed to the player is one of the play's items.
LEMMA StartIndexTyped ==
    ASSUME NEW play \in Plays
    PROVE  /\ StartIndex(play) \in Nat /\ Len(play.items) \in Nat
           /\ StartIndex(play) <= Len(play.items)
  BY PlaysAssumption DEF StartIndex

\* A fresh run plays a slot it holds.
LEMMA FreshRunTyped ==
    ASSUME NEW len \in Nat, NEW at \in Nat, at <= len
    PROVE  /\ FreshRun(len, at) \in RunType
           /\ FreshRun(len, at).at \in 0..FreshRun(len, at).len
  BY DEF FreshRun, RunType

\* Handing a play to the player keeps the player's state typed.
LEMMA InstallTyped ==
    ASSUME PlayerTyped, NEW play \in Plays, Submit(play), status_paused' = FALSE,
           UNCHANGED events
    PROVE  PlayerTyped'
  <1>1. Submission(play, StartIndex(play)) \in Command
    BY StartIndexTyped DEF Submission, Command
  <1>2. CASE SendCommand(Submission(play, StartIndex(play))) /\ UNCHANGED run
    <2>1. commands' \in Seq(Command)
      BY <1>1, <1>2, SendTyped DEF PlayerTyped
    <2> QED  BY <1>2, <2>1 DEF PlayerTyped
  <1>3. CASE run' = FreshRun(Len(play.items), StartIndex(play)) /\ commands' = << >>
    <2>1. run' \in RunType /\ run'.at \in 0..run'.len
      BY <1>3, StartIndexTyped, FreshRunTyped
    <2>2. commands' \in Seq(Command)
      BY <1>3
    <2> QED  BY <2>1, <2>2 DEF PlayerTyped
  <1> QED  BY <1>2, <1>3 DEF Submit

\* The player but for the events it has sent.
EngineTyped ==
    /\ status_paused \in BOOLEAN
    /\ run \in RunType /\ run.at \in 0..run.len
    /\ commands \in Seq(Command)

\* A jump that finds no run restarts the queue at one of its slots.
LEMMA RestartTyped ==
    ASSUME OwnerTyped, EngineTyped, RestartQueue \/ UNCHANGED engine
    PROVE  EngineTyped'
  <1>1. CASE UNCHANGED engine
    BY <1>1 DEF engine, EngineTyped
  <1>2. CASE /\ \E at \in DOMAIN queue : run' = FreshRun(Len(queue), at)
             /\ commands' = << >> /\ status_paused' = FALSE
    <2>1. PICK at \in DOMAIN queue : run' = FreshRun(Len(queue), at)
      BY <1>2
    <2>2. at \in Nat /\ Len(queue) \in Nat /\ at <= Len(queue)
      BY <2>1 DEF OwnerTyped
    <2>3. run' \in RunType /\ run'.at \in 0..run'.len
      BY <2>1, <2>2, FreshRunTyped
    <2>4. commands' \in Seq(Command)
      BY <1>2
    <2> QED  BY <1>2, <2>3, <2>4 DEF EngineTyped
  <1> QED  BY <1>1, <1>2 DEF RestartQueue

\* An event is sent to the owner.
LEMMA EventTyped ==
    ASSUME events \in Seq(Event), NEW e \in Event, events' = Append(events, e)
    PROVE  events' \in Seq(Event)
  BY DEF Event

\* Taking a command keeps the run typed: a submission starts at a slot it holds.
LEMMA RunTakesTyped ==
    ASSUME PlayerTyped, RunTakes
    PROVE  PlayerTyped'
  <1> DEFINE c == Head(commands)
  <1>1. commands \in Seq(Command) /\ commands # << >>
    BY DEF PlayerTyped, RunTakes
  <1>2. c \in Command /\ commands' \in Seq(Command)
    BY <1>1 DEF RunTakes
  <1>3. run' = Taken(c) /\ UNCHANGED <<status_paused, events>>
    BY DEF RunTakes
  <1>4. run \in RunType /\ run.at \in 0..run.len /\ status_paused \in BOOLEAN
    BY DEF PlayerTyped
  <1> HIDE DEF c
  <1>5. run' \in RunType /\ run'.at \in 0..run'.len
    <2>1. CASE c.op = "toggle"
      <3>1. run' = [run EXCEPT !.paused = ~ status_paused]
        BY <1>3, <2>1 DEF Taken
      <3>2. (~ status_paused) \in BOOLEAN
        OBVIOUS
      <3> QED  BY <1>4, <3>1, <3>2 DEF RunType
    <2>2. CASE c.op # "toggle"
      <3>1. run' = [run EXCEPT !.len = c.len, !.at = c.at, !.paused = FALSE]
        BY <1>3, <2>2 DEF Taken
      <3>2. c.len \in Nat /\ c.at \in Nat /\ c.at <= c.len
        BY <1>2, <2>2 DEF Command
      <3>3. run' = [alive |-> run.alive, stopping |-> run.stopping, len |-> c.len,
                    at |-> c.at, paused |-> FALSE, seen |-> run.seen]
        BY <1>4, <3>1 DEF RunType
      <3>4. run.alive \in BOOLEAN /\ run.stopping \in BOOLEAN /\ run.seen \in SUBSET BOOLEAN
        BY <1>4 DEF RunType
      <3> QED  BY <3>2, <3>3, <3>4 DEF RunType
    <2> QED  BY <2>1, <2>2
  <1> QED  BY <1>2, <1>3, <1>4, <1>5 DEF PlayerTyped

\* What the run does on its own keeps the player's state typed.
LEMMA RunTyped ==
    ASSUME PlayerTyped,
           RunObservesPause \/ MpvTogglesPause \/ RunOutputStarts \/ RunMoves \/ RunEnds
    PROVE  PlayerTyped'
  <1>1. run \in RunType /\ run.at \in 0..run.len /\ status_paused \in BOOLEAN
        /\ commands \in Seq(Command) /\ events \in Seq(Event)
    BY DEF PlayerTyped
  <1>2. run.paused \in BOOLEAN /\ run.len \in Nat
    BY <1>1 DEF RunType
  <1>3. CASE RunObservesPause
    <2>1. run' = [run EXCEPT !.seen = {run.paused}] /\ status_paused' = run.paused
          /\ events' = Append(events, [op |-> "paused", paused |-> run.paused])
          /\ commands' = commands
      BY <1>3 DEF RunObservesPause
    <2>2. run' \in RunType /\ run'.at \in 0..run'.len
      <3>1. {run.paused} \in SUBSET BOOLEAN
        BY <1>2
      <3> QED  BY <1>1, <2>1, <3>1 DEF RunType
    <2>3. [op |-> "paused", paused |-> run.paused] \in Event
      BY <1>2 DEF Event
    <2>4. events' \in Seq(Event)
      BY <1>1, <2>1, <2>3, EventTyped
    <2> QED  BY <1>1, <1>2, <2>1, <2>2, <2>4 DEF PlayerTyped
  <1>4. CASE MpvTogglesPause
    <2>1. run' = [run EXCEPT !.paused = ~ run.paused]
          /\ UNCHANGED <<status_paused, commands, events>>
      BY <1>4 DEF MpvTogglesPause
    <2>2. (~ run.paused) \in BOOLEAN
      OBVIOUS
    <2>3. run' \in RunType /\ run'.at \in 0..run'.len
      BY <1>1, <2>1, <2>2 DEF RunType
    <2> QED  BY <1>1, <2>1, <2>3 DEF PlayerTyped
  <1>5. CASE RunOutputStarts
    <2>1. [op |-> "started"] \in Event
      BY DEF Event
    <2>2. events' = Append(events, [op |-> "started"])
          /\ UNCHANGED <<status_paused, run, commands>>
      BY <1>5 DEF RunOutputStarts
    <2>3. events' \in Seq(Event)
      BY <1>1, <2>1, <2>2, EventTyped
    <2> QED  BY <1>1, <2>2, <2>3 DEF PlayerTyped
  <1>6. CASE RunMoves
    <2>1. PICK slot \in 1..run.len :
               /\ run' = [run EXCEPT !.at = slot]
               /\ events' = Append(events, [op |-> "changed", slot |-> slot])
               /\ UNCHANGED <<status_paused, commands>>
      BY <1>6 DEF RunMoves
    <2>2. slot \in Nat /\ slot <= run.len
      BY <1>2
    <2>3. run' \in RunType /\ run'.at \in 0..run'.len
      <3>1. run' = [alive |-> run.alive, stopping |-> run.stopping, len |-> run.len,
                    at |-> slot, paused |-> run.paused, seen |-> run.seen]
        BY <1>1, <2>1 DEF RunType
      <3>2. run.alive \in BOOLEAN /\ run.stopping \in BOOLEAN /\ run.seen \in SUBSET BOOLEAN
        BY <1>1 DEF RunType
      <3> QED  BY <1>2, <2>2, <3>1, <3>2 DEF RunType
    <2>4. [op |-> "changed", slot |-> slot] \in Event
      BY <2>2 DEF Event
    <2>5. events' \in Seq(Event)
      BY <1>1, <2>1, <2>4, EventTyped
    <2> QED  BY <1>1, <2>1, <2>3, <2>5 DEF PlayerTyped
  <1>7. CASE RunEnds
    <2>1. run' = [alive |-> FALSE, stopping |-> FALSE, len |-> 0, at |-> 0,
                  paused |-> FALSE, seen |-> {}]
          /\ commands' = << >> /\ events' = Append(events, [op |-> "stopped"])
          /\ status_paused' = status_paused
      BY <1>7 DEF RunEnds, NoRun
    <2>2. run' \in RunType /\ run'.at \in 0..run'.len
      BY <2>1 DEF RunType
    <2>3. [op |-> "stopped"] \in Event
      BY DEF Event
    <2>4. events' \in Seq(Event)
      BY <1>1, <2>1, <2>3, EventTyped
    <2>5. commands' \in Seq(Command)
      BY <2>1
    <2> QED  BY <1>1, <2>1, <2>2, <2>4, <2>5 DEF PlayerTyped
  <1> QED  BY <1>3, <1>4, <1>5, <1>6, <1>7

\* Stopping the output keeps the player's state typed.
LEMMA StopTyped ==
    ASSUME PlayerTyped, StopOutput
    PROVE  PlayerTyped'
  <1>1. run \in RunType /\ run.at \in 0..run.len
    BY DEF PlayerTyped
  <1>2. run' = [run EXCEPT !.stopping = run.alive]
        /\ UNCHANGED <<status_paused, commands, events>>
    BY DEF StopOutput
  <1>3. run.alive \in BOOLEAN
    BY <1>1 DEF RunType
  <1>4. run' \in RunType /\ run'.at \in 0..run'.len
    BY <1>1, <1>2, <1>3 DEF RunType
  <1> QED  BY <1>2, <1>4 DEF PlayerTyped

\* A pause or resume keeps the player's state typed.
LEMMA SetPausedTyped ==
    ASSUME PlayerTyped, NEW c \in Connections, SetPausedIntent(c)
    PROVE  PlayerTyped'
  <1>1. CASE UNCHANGED player
    BY <1>1 DEF player, engine, PlayerTyped
  <1>2. CASE ~ UNCHANGED player
    <2>1. PICK kind \in Toggle :
               /\ IF status_paused # (kind = "pause")
                  THEN SendCommand(TogglePause(kind = "pause")) ELSE UNCHANGED commands
               /\ UNCHANGED <<status_paused, run, events>>
      BY <1>2 DEF SetPausedIntent, Coalesce
    <2>2. (kind = "pause") \in BOOLEAN
      OBVIOUS
    <2>3. TogglePause(kind = "pause") \in Command
      BY <2>2 DEF TogglePause, Command
    <2>4. commands' \in Seq(Command)
      BY <2>1, <2>3, SendTyped DEF PlayerTyped
    <2> QED  BY <2>1, <2>4 DEF PlayerTyped
  <1> QED  BY <1>1, <1>2

\* Every step keeps the player's state typed.
LEMMA PlayerTypedStep ==
    ASSUME IInv, OwnerTyped, PlayerTyped, [Next]_vars
    PROVE  PlayerTyped'
  <1>0. ASSUME UNCHANGED player PROVE PlayerTyped'
    BY <1>0 DEF player, engine, PlayerTyped
  <1>1. ASSUME RestartQueue \/ UNCHANGED engine, events' \in Seq(Event)
        PROVE  PlayerTyped'
    BY <1>1, RestartTyped DEF PlayerTyped, EngineTyped
  <1>2. ASSUME NEW t, DispatchSlotJump(t) PROVE RestartQueue \/ UNCHANGED engine
    BY <1>2 DEF DispatchSlotJump, Deliver
  <1>3. ASSUME Promote PROVE RestartQueue \/ UNCHANGED engine
    BY <1>3 DEF Promote, Deliver
  <1>4. events \in Seq(Event)
    BY DEF PlayerTyped
  <1>5. ASSUME NEW c \in Connections, ClientActs(c)
        PROVE  PlayerTyped'
    <2>1. CASE StopIntent(c)
      BY <2>1, StopTyped DEF StopIntent
    <2>2. CASE SetPausedIntent(c)
      BY <2>2, SetPausedTyped
    <2>3. CASE PlayIntent(c)
      BY <1>0, <2>3 DEF PlayIntent, Coalesce
    <2>4. CASE StepIntent(c)
      <3>1. (UNCHANGED engine \/ DispatchSlotJump([request |-> requests[c] + 1, sender |-> c]))
            /\ events' = events
        BY <2>4 DEF StepIntent
      <3> QED  BY <1>1, <1>2, <1>4, <3>1
    <2> QED  BY <1>5, <2>1, <2>2, <2>3, <2>4 DEF ClientActs
  <1>6. CASE LocalJump
    <2>1. PICK sender \in Connections \cup {NoConnection} :
               DispatchSlotJump([request |-> next_local_id + 1, sender |-> sender])
      BY <1>6 DEF LocalJump
    <2>2. events' = events
      BY <1>6 DEF LocalJump
    <2> QED  BY <1>1, <1>2, <1>4, <2>1, <2>2
  <1>7. CASE HandlePlaybackResolved
    <2>1. PICK l \in lookups : Resolved(l)
      BY <1>7 DEF HandlePlaybackResolved
    <2>2. l.play \in Plays
      BY DEF IInv, Typed
    <2>3. CASE Install(l)
      BY <2>2, <2>3, InstallTyped DEF Install
    <2>4. CASE UNCHANGED player
      BY <1>0, <2>4
    <2> QED  BY <2>1, <2>3, <2>4 DEF Resolved, Refuse
  <1>8. CASE HandlePlayerEvent
    <2>1. events # << >> /\ events' = Tail(events)
      BY <1>8 DEF HandlePlayerEvent, HandleTrackChanged, HandlePausedChanged, HandleStopped,
                  HandleOutputStarted, Waiting
    <2>2. Promote \/ UNCHANGED engine
      BY <1>8 DEF HandlePlayerEvent, HandleTrackChanged, HandlePausedChanged, HandleStopped,
                  HandleOutputStarted
    <2>3. events' \in Seq(Event)
      BY <1>4, <2>1
    <2> QED  BY <1>1, <1>3, <2>2, <2>3
  <1>9. CASE OnRecvTimeout
    <2>1. (Promote \/ UNCHANGED engine) /\ events' = events
      BY <1>9 DEF OnRecvTimeout
    <2> QED  BY <1>1, <1>3, <1>4, <2>1
  <1>10. CASE PlainStop
    BY <1>10, StopTyped DEF PlainStop
  <1>11. CASE RunTakes
    BY <1>11, RunTakesTyped
  <1>12. CASE RunObservesPause \/ MpvTogglesPause \/ RunOutputStarts \/ RunMoves \/ RunEnds
    BY <1>12, RunTyped
  <1>13. \/ \E c \in Connections : ClientActs(c)
         \/ LocalJump \/ HandlePlaybackResolved \/ HandlePlayerEvent \/ OnRecvTimeout
         \/ PlainStop \/ RunTakes
         \/ RunObservesPause \/ MpvTogglesPause \/ RunOutputStarts \/ RunMoves \/ RunEnds
         \/ UNCHANGED player
    BY DEF Next, vars, BroadcastFails, HandleCtrlDisconnected
  <1> QED  BY <1>0, <1>5, <1>6, <1>7, <1>8, <1>9, <1>10, <1>11, <1>12, <1>13

\* The player and the queue are typed when the daemon starts.
LEMMA InitTyped == Init => OwnerTyped /\ PlayerTyped
  <1> SUFFICES ASSUME Init PROVE OwnerTyped /\ PlayerTyped
    OBVIOUS
  <1>1. run = [alive |-> FALSE, stopping |-> FALSE, len |-> 0, at |-> 0,
               paused |-> FALSE, seen |-> {}]
    BY DEF Init, NoRun
  <1>2. run \in RunType /\ run.at \in 0..run.len
    BY <1>1 DEF RunType
  <1>3. commands \in Seq(Command) /\ events \in Seq(Event) /\ queue \in Seq(Items)
    BY DEF Init
  <1>4. status_paused = FALSE /\ next_local_id = 0 /\ installed = {}
        /\ in_flight = NoTransition /\ queued_latest = NoTransition
    BY DEF Init
  <1>5. OwnerTyped
    BY <1>3, <1>4 DEF OwnerTyped
  <1>6. PlayerTyped
    BY <1>2, <1>3, <1>4 DEF PlayerTyped
  <1> QED  BY <1>5, <1>6

\* Type correctness of the intents, for every number of connections, every
\* play and both kinds of output; the run plays a slot it holds.
THEOREM TypeCorrect == Spec => []TypeOK
  <1>1. IInv /\ OwnerTyped /\ PlayerTyped /\ [Next]_vars => (OwnerTyped /\ PlayerTyped)'
    BY OwnerTypedStep, PlayerTypedStep
  <1>2. IInv /\ OwnerTyped /\ PlayerTyped => TypeOK
    BY DEF IInv, Typed, ReportedTyped, OwnerTyped, PlayerTyped, Transition, RunType, TypeOK
  <1> QED  BY <1>1, <1>2, InitTyped, IntentInvariant, PTL DEF Spec
=============================================================================

------------------------ MODULE ControlClientsProofs ------------------------
(***************************************************************************)
(* Proofs about ControlClients, for any number of connections, launches,   *)
(* edits and faults: one driver, replacements that attach before anyone    *)
(* quits, and an owner that neither ends unannounced nor lives on alone.   *)
(***************************************************************************)
EXTENDS ControlClients, SequenceLemmas, FiniteSetTheorems, TLAPS

-----------------------------------------------------------------------------
(* What the handlers share.                                                *)

\* Being in the registry.
LEMMA RegisteredInRange ==
    ASSUME connection \in Seq(Sessions)
    PROVE  \A s : Registered(s) <=> s \in Range(connection)
<1>1. DOMAIN connection = 1..Len(connection)
  BY LenProperties
<1> QED BY <1>1 DEF Registered, Contains, Range

\* The same after a step.
LEMMA RegisteredInRangeNext ==
    ASSUME connection' \in Seq(Sessions)
    PROVE  \A s : Registered(s)' <=> s \in Range(connection')
<1>1. DOMAIN connection' = 1..Len(connection')
  BY LenProperties
<1> QED BY <1>1 DEF Registered, Contains, Range

\* newest_swap_client names a client or nobody.
LEMMA NewestType ==
    ASSUME connection \in Seq(Sessions)
    PROVE  SwapTarget \in Sessions \cup {NoSession}
<1>1. ASSUME NEW surface PROVE Newest(surface) \in Sessions \cup {NoSession}
  <2> DEFINE c == Kept(connection, {s \in Sessions : session[s].kind = surface})
  <2>1. c \in Seq(Sessions)
    BY KeptProperties
  <2>2. Newest(surface) = IF c = << >> THEN NoSession ELSE Last(c)
    BY DEF Newest
  <2> HIDE DEF c
  <2>3. c # << >> => c[Len(c)] \in Sessions
    BY <2>1, EmptySeq, LenProperties, ElementOfSeq
  <2> QED BY <2>2, <2>3 DEF Last
<1> QED BY <1>1 DEF SwapTarget

\* The events are a list of events.
LEMMA EventsAre == ASSUME events \in Seq(Event) PROVE \A i \in DOMAIN events : events[i] \in Event
BY LenProperties

\* Posting an event, and what the loop will still handle of it.
LEMMA PostType ==
    ASSUME events \in Seq(Event), NEW e \in Event, Post(e)
    PROVE  /\ events' \in Seq(Event)
           /\ \A f \in Range(events') : f = e \/ f \in Range(events)
           /\ loop \in {"recv", "publish"} => Range(events) \subseteq Range(events')
<1>1. CASE loop \in {"recv", "publish"}
  <2> DEFINE es == Append(events, e)
             n == Len(events)
  <2>1. /\ es \in Seq(Event) /\ n \in Nat /\ DOMAIN events = 1..n /\ Len(es) = n + 1
        /\ \A i \in 1..n : es[i] = events[i]
        /\ es[n + 1] = e
    BY AppendProperties, LenProperties
  <2>2. DOMAIN es = 1..(n + 1)
    BY <2>1, LenProperties
  <2>3. events' = es
    BY <1>1 DEF Post, Handled
  <2> HIDE DEF es, n
  <2> QED BY <2>1, <2>2, <2>3 DEF Range
<1>2. CASE loop \notin {"recv", "publish"}
  <2>1. events' = << >>
    BY <1>2 DEF Post, Handled
  <2> QED BY <1>2, <2>1, EmptySeq DEF Range
<1> QED BY <1>1, <1>2

\* Taking an event off the queue.
LEMMA RestType ==
    ASSUME events \in Seq(Event), events # << >>
    PROVE  /\ Rest \in Seq(Event) /\ Head(events) \in Event /\ Head(events) \in Range(events)
           /\ Range(Rest) \subseteq Range(events)
           /\ Range(events) \subseteq Range(Rest) \cup {Head(events)}
<1>0. Len(events) \in Nat /\ DOMAIN events = 1..Len(events) /\ events # << >>
  BY LenProperties
<1>1. /\ Tail(events) \in Seq(Event) /\ Head(events) \in Event
      /\ Head(events) = events[1] /\ Len(Tail(events)) = Len(events) - 1
      /\ \A i \in 1..(Len(events) - 1) : Tail(events)[i] = events[i + 1]
  BY HeadTailProperties, LenProperties
<1>2. DOMAIN Tail(events) = 1..(Len(events) - 1) /\ 1 \in DOMAIN events
  BY <1>0, <1>1, LenProperties, EmptySeq
<1>3. ASSUME NEW i \in DOMAIN Tail(events) PROVE Tail(events)[i] \in Range(events)
  <2>1. i + 1 \in DOMAIN events /\ Tail(events)[i] = events[i + 1]
    BY <1>0, <1>1, <1>2
  <2> QED BY <2>1 DEF Range
<1>4. ASSUME NEW i \in DOMAIN events PROVE events[i] \in Range(Tail(events)) \cup {Head(events)}
  <2>1. CASE i = 1
    BY <1>1, <2>1
  <2>2. CASE i # 1
    <3> DEFINE j == i - 1
    <3>1. j \in DOMAIN Tail(events) /\ j + 1 = i
      BY <1>0, <1>2, <2>2
    <3> HIDE DEF j
    <3>2. Tail(events)[j] = events[i]
      BY <1>1, <1>2, <3>1
    <3> QED BY <3>1, <3>2 DEF Range
  <2> QED BY <2>1, <2>2
<1>5. events[1] \in Range(events)
  BY <1>2 DEF Range
<1> QED BY <1>1, <1>3, <1>4, <1>5 DEF Rest, Range

LastGone == [op |-> "last_gone"]

\* retain_clients keeps who it should, and the loop hears of an empty registry.
LEMMA RetainType ==
    ASSUME connection \in Seq(Sessions), IsInjective(connection), held_client \in BOOLEAN,
           NEW keep, NEW more \in Seq(Event), Retain(keep, more)
    PROVE  /\ connection' \in Seq(Sessions) /\ IsInjective(connection')
           /\ Range(connection') = Range(connection) \cap keep
           /\ events' \in Seq(Event)
           /\ \A f \in Range(events') : f = LastGone \/ f \in Range(more)
           /\ loop \in {"recv", "publish"} =>
                /\ Range(more) \subseteq Range(events')
                /\ connection # << >> /\ connection' = << >> /\ held_client
                    => LastGone \in Range(events')
<1> DEFINE last == IF connection # << >> /\ connection' = << >> /\ held_client
                   THEN <<LastGone>> ELSE << >>
           es == more \o last
<1>1. /\ connection' = Kept(connection, keep)
      /\ events' = IF loop \in {"recv", "publish"} THEN es ELSE << >>
  BY DEF Retain, Handled, LastGone
<1>2. /\ connection' \in Seq(Sessions) /\ IsInjective(connection')
      /\ Range(connection') = Range(connection) \cap keep
  BY <1>1, KeptProperties
<1>3. LastGone \in Event
  BY DEF LastGone, Event
<1>4. last \in Seq(Event)
  BY <1>3, EmptySeq
<1>5. Range(last) = IF connection # << >> /\ connection' = << >> /\ held_client
                    THEN {LastGone} ELSE {}
  <2>1. Range(<<LastGone>>) = {LastGone} /\ Range(<< >>) = {}
    BY DEF Range
  <2> QED BY <2>1
<1> HIDE DEF last
<1>6. /\ es \in Seq(Event) /\ Len(es) = Len(more) + Len(last) /\ Len(more) \in Nat /\ Len(last) \in Nat
      /\ \A i \in 1..(Len(more) + Len(last)) :
            es[i] = IF i <= Len(more) THEN more[i] ELSE last[i - Len(more)]
  BY <1>4, ConcatProperties, LenProperties
<1>7. DOMAIN es = 1..(Len(more) + Len(last)) /\ DOMAIN more = 1..Len(more) /\ DOMAIN last = 1..Len(last)
  BY <1>4, <1>6, LenProperties
<1> HIDE DEF es
<1>8. Range(es) = Range(more) \cup Range(last)
  <2>1. ASSUME NEW i \in DOMAIN es PROVE es[i] \in Range(more) \cup Range(last)
    <3>1. CASE i <= Len(more)
      BY <1>6, <1>7, <3>1 DEF Range
    <3>2. CASE ~ (i <= Len(more))
      <4>1. i - Len(more) \in DOMAIN last
        BY <1>6, <1>7, <3>2
      <4> QED BY <1>6, <1>7, <3>2, <4>1 DEF Range
    <3> QED BY <3>1, <3>2
  <2>2. ASSUME NEW i \in DOMAIN more PROVE more[i] \in Range(es)
    <3>1. i \in DOMAIN es /\ es[i] = more[i]
      BY <1>6, <1>7
    <3> QED BY <3>1 DEF Range
  <2>3. ASSUME NEW i \in DOMAIN last PROVE last[i] \in Range(es)
    <3> DEFINE j == i + Len(more)
    <3>1. j \in DOMAIN es /\ ~ (j <= Len(more)) /\ j - Len(more) = i
      BY <1>6, <1>7
    <3> HIDE DEF j
    <3>2. es[j] = last[i]
      BY <1>6, <1>7, <3>1
    <3> QED BY <3>1, <3>2 DEF Range
  <2> QED BY <2>1, <2>2, <2>3 DEF Range
<1>9. Range(<< >>) = {} /\ << >> \in Seq(Event)
  BY EmptySeq DEF Range
<1> QED BY <1>1, <1>2, <1>5, <1>6, <1>8, <1>9

-----------------------------------------------------------------------------
(* Types.                                                                  *)

Phase == [at : {"idle", "preparing", "awaiting"}, target : Sessions \cup {NoSession},
          token : Token]

\* The types in parts; a launch that is being prepared has been asked for, so
\* that tokens stay within MaxLaunches.
SessionType == session \in [Sessions -> Session]
RegistryType ==
    /\ connection \in Seq(Sessions) /\ IsInjective(connection)
    /\ held_client \in BOOLEAN /\ shutting_down \in BOOLEAN
SettingsType == stay_alive \in BOOLEAN /\ was_alive \in BOOLEAN
Preparing == IF phase.at = "preparing" THEN 1 ELSE 0
SwapType ==
    /\ phase \in Phase /\ pending \in Token /\ running \subseteq Token
    /\ launched \in Seq(Sessions \cup {NoSession})
    /\ Len(launched) + Preparing <= requests
    /\ requests \in 0..MaxLaunches
LoopType ==
    /\ loop \in {"recv", "publish", "shutdown", "notify", "stopping", "exited"}
    /\ events \in Seq(Event)
    /\ queue \in 0..MaxEdits /\ shared \in 0..MaxEdits /\ faults \in 0..MaxFaults

Types == SessionType /\ RegistryType /\ SettingsType /\ SwapType /\ LoopType

\* Together they are TypeOK.
LEMMA TypesAreTypeOK == Types => TypeOK
<1> SUFFICES ASSUME Types PROVE TypeOK
  OBVIOUS
<1>1. \A i \in DOMAIN events : events[i] \in Event
  BY EventsAre DEF Types, LoopType
<1>2. Len(launched) <= MaxLaunches
  <2>1. Len(launched) \in Nat
    BY LenProperties DEF Types, SwapType
  <2> QED BY <2>1, BoundsAssumption DEF Types, SwapType, Preparing
<1> QED BY <1>1, <1>2
        DEF TypeOK, Types, SessionType, RegistryType, SettingsType, SwapType, LoopType, Phase

\* At first.
LEMMA TypeInit == Init => Types
<1> SUFFICES ASSUME Init PROVE Types
  OBVIOUS
<1>1. NoHello \in Session
  BY BoundsAssumption DEF NoHello, Session, Token, Kind
<1>2. SessionType
  BY <1>1 DEF Init, SessionType
<1>3. << >> \in Seq(Sessions) /\ << >> \in Seq(Sessions \cup {NoSession}) /\ << >> \in Seq(Event)
      /\ Len(<< >>) = 0 /\ IsInjective(<< >>)
  BY EmptySeq DEF IsInjective
<1>4. RegistryType /\ SettingsType /\ LoopType
  <2>1. connection \in Seq(Sessions) /\ IsInjective(connection)
    BY <1>3 DEF Init
  <2>2. events \in Seq(Event)
    BY <1>3 DEF Init
  <2>3. RegistryType
    BY <2>1 DEF Init, RegistryType
  <2>4. SettingsType
    BY Zenon DEF Init, SettingsType
  <2>5. LoopType
    BY <2>2, BoundsAssumption DEF Init, LoopType
  <2> QED BY <2>3, <2>4, <2>5
<1>5. SwapType
  <2>1. phase \in Phase /\ phase.at = "idle"
    BY BoundsAssumption DEF Init, Idle, Phase, Token
  <2> QED BY <1>3, <2>1, BoundsAssumption DEF Init, SwapType, Token, Preparing
<1> QED BY <1>2, <1>4, <1>5 DEF Types

\* Abandoning a swap, or leaving it be.
LEMMA AbandonType ==
    ASSUME SwapType, Abandon \/ UNCHANGED <<phase, pending>>, UNCHANGED <<launched, requests>>,
           running' \subseteq Token
    PROVE  SwapType'
<1>0. Len(launched) \in Nat
  BY LenProperties DEF SwapType
<1>1. CASE Abandon
  <2>1. phase' \in Phase /\ phase'.at = "idle" /\ pending' \in Token
    BY <1>1, BoundsAssumption DEF Abandon, Idle, Phase, Token
  <2> QED BY <1>0, <2>1 DEF SwapType, Preparing
<1>2. CASE UNCHANGED <<phase, pending>>
  BY <1>2 DEF SwapType, Preparing
<1> QED BY <1>1, <1>2

\* Spawning a replacement that was asked for.
LEMMA SpawnType ==
    ASSUME SwapType, NEW target \in Sessions \cup {NoSession}, Spawn(target),
           Len(launched) + 1 <= requests', requests' \in 0..MaxLaunches
    PROVE  SwapType'
<1>0. Len(launched) \in Nat /\ MaxLaunches \in Nat
  BY LenProperties, BoundsAssumption DEF SwapType
<1> DEFINE t == Len(launched) + 1
<1>1. CASE /\ launched' = Append(launched, target) /\ running' = running \cup {t}
           /\ pending' = t /\ phase' = [at |-> "awaiting", target |-> target, token |-> t]
  <2>1. launched' \in Seq(Sessions \cup {NoSession}) /\ Len(launched') = t
    BY <1>1, AppendProperties DEF SwapType
  <2>2. t \in Token
    BY <1>0 DEF Token
  <2> HIDE DEF t
  <2>3. phase' \in Phase /\ phase'.at = "awaiting"
    BY <1>1, <2>2 DEF Phase
  <2>4. Len(launched') + Preparing' <= requests'
    BY <1>0, <2>1, <2>3 DEF Preparing, t
  <2> QED BY <1>1, <2>1, <2>2, <2>3, <2>4 DEF SwapType
<1>2. CASE Abandon /\ UNCHANGED <<running, launched>>
  <2>1. phase' \in Phase /\ phase'.at = "idle" /\ pending' \in Token
    BY <1>2, BoundsAssumption DEF Abandon, Idle, Phase, Token
  <2> QED BY <1>0, <1>2, <2>1 DEF SwapType, Preparing
<1> QED BY <1>1, <1>2 DEF Spawn

\* Telling clients something.
LEMMA TellType ==
    ASSUME SessionType, NEW whom, NEW what \in {"prepare", "quit", "shutdown"},
           session' = Tell(whom, what)
    PROVE  /\ SessionType'
           /\ \A s \in Sessions :
                session'[s] = [session[s] EXCEPT
                                 !.told = IF s \in whom THEN @ \cup {what} ELSE @]
<1>1. ASSUME NEW s \in Sessions
      PROVE  session'[s] = [session[s] EXCEPT !.told = IF s \in whom THEN @ \cup {what} ELSE @]
  BY DEF Tell, SessionType, Session
<1>2. \A s \in Sessions : session'[s] \in Session
  BY DEF Tell, SessionType, Session
<1> QED BY <1>1, <1>2 DEF Tell, SessionType

\* connect_with_role and the refusal before it.
LEMMA AdmitType ==
    ASSUME Types, NEW s \in Sessions, s \notin Range(connection), Admit(s)
    PROVE  Types'
<1>0. /\ session \in [Sessions -> Session] /\ session[s] \in Session /\ RegistryType
      /\ SettingsType /\ SwapType /\ LoopType
  BY DEF Types, SessionType
<1>1. NoHello \in Session /\ 0 \in Token
  BY BoundsAssumption DEF NoHello, Session, Token, Kind
<1>2. SettingsType' /\ UNCHANGED <<phase, running, launched, loop, queue, shared, requests, faults>>
  BY <1>0 DEF Admit, settings, SettingsType, bounds
<1>3. /\ session' \in [Sessions -> Session]
      /\ pending' \in Token
  <2>1. CASE Refuse(s)
    BY <1>0, <1>1, <2>1 DEF Refuse, Session, SwapType
  <2>2. ASSUME NEW token \in Token, Connect(s, token) PROVE session' \in [Sessions -> Session]
    <3>1. [NoHello EXCEPT !.at = "attached", !.kind = session[s].kind,
                          !.view = session[s].view, !.by = token] \in Session
      BY <1>0, <1>1 DEF Session
    <3> QED BY <1>0, <2>2, <3>1 DEF Connect
  <2>3. session[s].token \in Token
    BY <1>0 DEF Session
  <2> QED BY <1>0, <1>1, <2>1, <2>2, <2>3 DEF Admit, SwapType
<1>4. RegistryType'
  <2>1. CASE UNCHANGED registry
    BY <1>0, <2>1 DEF registry, RegistryType
  <2>2. CASE connection' = Append(connection, s)
    <3>0. connection \in Seq(Sessions) /\ IsInjective(connection) /\ held_client \in BOOLEAN
      BY <1>0 DEF RegistryType
    <3> DEFINE c == Append(connection, s)
               n == Len(connection)
    <3>1. /\ c \in Seq(Sessions) /\ Len(c) = n + 1 /\ c[n + 1] = s
          /\ \A i \in 1..n : c[i] = connection[i]
      BY <3>0, AppendProperties
    <3>2. DOMAIN c = 1..(n + 1) /\ DOMAIN connection = 1..n /\ n \in Nat
      BY <3>0, <3>1, LenProperties
    <3> HIDE DEF c, n
    <3>3. \A i \in 1..n : connection[i] # s
      BY <3>2 DEF Range
    <3>4. IsInjective(c)
      BY <3>0, <3>1, <3>2, <3>3 DEF IsInjective
    <3>5. connection' = c
      BY <2>2 DEF c
    <3>6. held_client' \in BOOLEAN /\ shutting_down' \in BOOLEAN
      BY <1>0, <2>2 DEF Admit, Connect, Refuse, registry, RegistryType
    <3> QED BY <3>1, <3>4, <3>5, <3>6 DEF RegistryType
  <2> QED BY <2>1, <2>2 DEF Admit, Refuse, Connect
<1>5. events' \in Seq(Event)
  <2>1. [op |-> "admitted", token |-> session[s].token] \in Event
    BY <1>0 DEF Event, Session
  <2>2. Post([op |-> "admitted", token |-> session[s].token]) \/ UNCHANGED events
    BY DEF Admit, Refuse
  <2> QED BY <1>0, <2>1, <2>2, PostType DEF LoopType
<1>6. SwapType'
  BY <1>0, <1>2, <1>3 DEF SwapType, Preparing
<1>7. LoopType'
  BY <1>0, <1>2, <1>5 DEF LoopType
<1> QED BY <1>2, <1>3, <1>4, <1>6, <1>7 DEF Types, SessionType

\* Whoever is in the registry has been attached, and may have left.
Enrolled == \A s \in Range(connection) : session[s].at \in {"attached", "left"}

\* An event that the loop takes.
LEMMA TakesType ==
    ASSUME LoopType, NEW op, Takes(op)
    PROVE  /\ Head(events) \in Event /\ Head(events).op = op /\ Head(events) \in Range(events)
           /\ Rest \in Seq(Event) /\ Range(Rest) \subseteq Range(events)
           /\ Range(events) \subseteq Range(Rest) \cup {Head(events)}
           /\ op \in {"prepared", "left"} => Head(events).session \in Sessions
           /\ op \in {"admitted", "failed"} => Head(events).token \in Token
<1>1. events # << >> /\ Head(events).op = op /\ events \in Seq(Event)
  BY DEF Takes, LoopType
<1>2. /\ Head(events) \in Event /\ Head(events) \in Range(events)
      /\ Rest \in Seq(Event) /\ Range(Rest) \subseteq Range(events)
      /\ Range(events) \subseteq Range(Rest) \cup {Head(events)}
  BY <1>1, RestType
<1>3. \A e \in Event : /\ e.op \in {"prepared", "left"} => e.session \in Sessions
                       /\ e.op \in {"admitted", "failed"} => e.token \in Token
  BY DEF Event
<1> QED BY <1>1, <1>2, <1>3

\* The steps of a connection's threads keep the types.
LEMMA ClientTypeStep ==
    ASSUME Types, Enrolled, NEW s \in Sessions,
           Hello(s) \/ Admit(s) \/ SwapPrepared(s) \/ Leave(s) \/ WriterBreaks(s) \/ ToggleStayAlive(s)
    PROVE  Types'
<1>0. /\ session \in [Sessions -> Session] /\ session[s] \in Session
      /\ RegistryType /\ SettingsType /\ SwapType /\ LoopType
  BY DEF Types, SessionType
<1>1. CASE Hello(s)
  <2>1. PICK k \in Kinds, t \in 0..Len(launched) :
          session' = [session EXCEPT ![s] =
             [NoHello EXCEPT !.at = "hello", !.kind = k, !.token = t,
                             !.stay = stay_alive, !.view = shared]]
    BY <1>1 DEF Hello
  <2>2. t \in Token
    <3>1. Len(launched) \in Nat /\ Len(launched) <= MaxLaunches
      BY TypesAreTypeOK, LenProperties DEF TypeOK
    <3> QED BY <3>1, BoundsAssumption DEF Token
  <2>3. NoHello \in Session
    BY BoundsAssumption DEF NoHello, Session, Token, Kind
  <2>4. [NoHello EXCEPT !.at = "hello", !.kind = k, !.token = t,
                        !.stay = stay_alive, !.view = shared] \in Session
    BY <1>0, <2>2, <2>3, SessionsAssumption DEF Session, SettingsType, LoopType
  <2>5. SessionType'
    BY <1>0, <2>1, <2>4 DEF SessionType
  <2> QED BY <1>0, <1>1, <2>5
          DEF Types, Hello, registry, settings, swap, bounds, RegistryType, SettingsType,
              SwapType, LoopType, Preparing
<1>2. CASE Admit(s)
  <2>1. s \notin Range(connection)
    BY <1>2 DEF Admit, Enrolled
  <2> QED BY <1>2, <2>1, AdmitType
<1>3. CASE SwapPrepared(s) \/ Leave(s)
  <2>1. SessionType'
    BY <1>0, <1>3 DEF SwapPrepared, Leave, SessionType, Session
  <2>2. PICK e \in Event : Post(e)
    <3>1. [op |-> "prepared", session |-> s] \in Event /\ [op |-> "left", session |-> s] \in Event
      BY DEF Event
    <3> QED BY <1>3, <3>1 DEF SwapPrepared, Leave
  <2>3. events' \in Seq(Event)
    BY <1>0, <2>2, PostType DEF LoopType
  <2> QED BY <1>0, <1>3, <2>1, <2>3
          DEF Types, SwapPrepared, Leave, registry, settings, swap, bounds, RegistryType,
              SettingsType, SwapType, LoopType, Preparing
<1>4. CASE WriterBreaks(s)
  <2>1. SessionType'
    BY <1>0, <1>4 DEF WriterBreaks, SessionType, Session
  <2>2. faults' \in 0..MaxFaults /\ UNCHANGED requests
    BY <1>0, <1>4, BoundsAssumption DEF WriterBreaks, Fault, LoopType
  <2> QED BY <1>0, <1>4, <2>1, <2>2
          DEF Types, WriterBreaks, registry, settings, swap, RegistryType,
              SettingsType, SwapType, LoopType, Preparing
<1>5. CASE ToggleStayAlive(s)
  <2>1. SettingsType'
    BY <1>0, <1>5 DEF ToggleStayAlive, SettingsType
  <2>2. faults' \in 0..MaxFaults /\ UNCHANGED requests
    BY <1>0, <1>5, BoundsAssumption DEF ToggleStayAlive, Fault, LoopType
  <2> QED BY <1>0, <1>5, <2>1, <2>2
          DEF Types, SessionType, ToggleStayAlive, registry, settings, swap, RegistryType,
              SwapType, LoopType, Preparing
<1> QED BY <1>1, <1>2, <1>3, <1>4, <1>5

\* So do the broadcasts, the edits and the requests.
LEMMA RequestTypeStep ==
    ASSUME Types, Request \/ StatusBroadcast \/ \E t \in 1..MaxLaunches : ChildFails(t)
    PROVE  Types'
<1>0. /\ session \in [Sessions -> Session] /\ RegistryType /\ SettingsType /\ SwapType /\ LoopType
      /\ Len(launched) \in Nat /\ MaxLaunches \in Nat
  BY BoundsAssumption, LenProperties DEF Types, SessionType, SwapType
<1>1. CASE StatusBroadcast
  <2>1. connection' \in Seq(Sessions) /\ IsInjective(connection') /\ events' \in Seq(Event)
    BY <1>0, <1>1, RetainType DEF StatusBroadcast, RegistryType, LoopType
  <2> QED BY <1>0, <1>1, <2>1
          DEF Types, StatusBroadcast, SessionType, settings, swap, bounds, RegistryType,
              SettingsType, SwapType, LoopType, Preparing
<1>2. CASE Edit
  <2>1. connection' \in Seq(Sessions) /\ IsInjective(connection') /\ events' \in Seq(Event)
    BY <1>0, <1>2, RetainType DEF Edit, RegistryType, LoopType
  <2>2. queue + 1 \in 0..MaxEdits /\ loop' = "publish"
    BY <1>0, <1>2, BoundsAssumption DEF Edit, LoopType
  <2>3. SessionType'
    <3>1. \A s \in Sessions : session[s] \in Session /\ [session[s] EXCEPT !.view = queue + 1] \in Session
      BY <1>0, <2>2 DEF Session
    <3> QED BY <1>2, <3>1 DEF Edit, SessionType
  <2> QED BY <1>0, <1>2, <2>1, <2>2, <2>3
          DEF Types, Edit, settings, swap, bounds, RegistryType,
              SettingsType, SwapType, LoopType, Preparing
<1>3. CASE StartSwap
  <2>0. /\ requests' = requests + 1 /\ requests' \in 0..MaxLaunches
        /\ phase = Idle /\ Preparing = 0 /\ Len(launched) + 1 <= requests'
    BY <1>0, <1>3 DEF StartSwap, Ask, SwapType, Preparing, Idle
  <2>1. SwapTarget \in Sessions \cup {NoSession}
    BY <1>0, NewestType DEF RegistryType
  <2>2. CASE SwapTarget = NoSession
    <3>1. SwapType'
      BY <1>0, <1>3, <2>0, <2>2, SpawnType DEF StartSwap
    <3> QED BY <1>0, <1>3, <2>2, <3>1
            DEF Types, SessionType, StartSwap, Ask, registry, settings, RegistryType, SettingsType, LoopType
  <2>3. CASE SwapTarget # NoSession
    <3>1. /\ phase' = [at |-> "preparing", target |-> SwapTarget, token |-> 0]
          /\ UNCHANGED <<pending, running, launched>>
      BY <1>3, <2>3 DEF StartSwap
    <3>2. phase' \in Phase /\ Preparing' = 1
      BY <2>1, <3>1, BoundsAssumption DEF Phase, Preparing, Token
    <3>3. SwapType'
      BY <1>0, <2>0, <3>1, <3>2 DEF SwapType
    <3>4. SessionType'
      BY <1>0, <1>3, <2>3, TellType DEF StartSwap, SessionType
    <3> QED BY <1>0, <1>3, <3>3, <3>4
            DEF Types, StartSwap, Ask, registry, settings, RegistryType, SettingsType, LoopType
  <2> QED BY <2>2, <2>3
<1>4. CASE OpenTerminal
  <2>0. /\ requests' = requests + 1 /\ requests' \in 0..MaxLaunches
        /\ Len(launched) + 1 <= requests'
    BY <1>0, <1>4 DEF OpenTerminal, Ask, SwapType, Preparing, Idle
  <2>1. SwapType'
    BY <1>0, <1>4, <2>0, SpawnType DEF OpenTerminal
  <2> QED BY <1>0, <1>4, <2>1
          DEF Types, SessionType, OpenTerminal, Ask, registry, settings, RegistryType, SettingsType, LoopType
<1>5. CASE Deadline
  <2>1. SwapType'
    BY <1>0, <1>5, AbandonType DEF Deadline, bounds, SwapType
  <2> QED BY <1>0, <1>5, <2>1
          DEF Types, SessionType, Deadline, bounds, registry, settings, RegistryType, SettingsType, LoopType
<1>6. CASE ShutdownRequested
  <2>1. << >> \in Seq(Event)
    BY EmptySeq
  <2> QED BY <1>0, <1>6, <2>1
          DEF Types, SessionType, ShutdownRequested, bounds, registry, settings, swap, RegistryType,
              SettingsType, SwapType, LoopType, Preparing
<1>7. CASE \E t \in 1..MaxLaunches : ChildFails(t)
  <2>1. PICK t \in 1..MaxLaunches : ChildFails(t)
    BY <1>7
  <2>2. [op |-> "failed", token |-> t] \in Event
    BY <1>0 DEF Event, Token
  <2>3. events' \in Seq(Event)
    BY <1>0, <2>1, <2>2, PostType DEF ChildFails, LoopType
  <2>4. running' \subseteq Token /\ faults' \in 0..MaxFaults /\ UNCHANGED requests
    BY <1>0, <2>1, BoundsAssumption DEF ChildFails, Fault, SwapType, LoopType
  <2> QED BY <1>0, <2>1, <2>3, <2>4
          DEF Types, SessionType, ChildFails, registry, settings, RegistryType,
              SettingsType, SwapType, LoopType, Preparing
<1> QED BY <1>1, <1>2, <1>3, <1>4, <1>5, <1>6, <1>7 DEF Request

\* So does the event loop.
LEMMA LoopTypeStep == ASSUME Types, LoopStep PROVE Types'
<1>0. /\ session \in [Sessions -> Session] /\ SessionType
      /\ RegistryType /\ SettingsType /\ SwapType /\ LoopType
      /\ Len(launched) \in Nat /\ MaxLaunches \in Nat
  BY BoundsAssumption, LenProperties DEF Types, SessionType, SwapType
<1>1. CASE Publish
  BY <1>0, <1>1
     DEF Types, SessionType, Publish, bounds, registry, settings, swap, RegistryType,
         SettingsType, SwapType, LoopType, Preparing
<1>2. CASE OnSwapPrepared
  <2>1. Rest \in Seq(Event)
    BY <1>0, <1>2, TakesType DEF OnSwapPrepared
  <2>2. SwapType'
    <3>1. CASE phase.at = "preparing" /\ Spawn(phase.target)
      <4>1. Preparing = 1 /\ phase.target \in Sessions \cup {NoSession}
        BY <1>0, <3>1 DEF Preparing, SwapType, Phase
      <4>2. requests' = requests /\ requests \in 0..MaxLaunches /\ Len(launched) + 1 <= requests
        BY <1>0, <1>2, <4>1 DEF OnSwapPrepared, bounds, SwapType
      <4> QED BY <1>0, <3>1, <4>1, <4>2, SpawnType
    <3>2. CASE UNCHANGED swap
      BY <1>0, <1>2, <3>2 DEF OnSwapPrepared, bounds, swap, SwapType, Preparing
    <3> QED BY <1>2, <3>1, <3>2 DEF OnSwapPrepared
  <2> QED BY <1>0, <1>2, <2>1, <2>2
          DEF Types, SessionType, OnSwapPrepared, bounds, registry, settings, RegistryType,
              SettingsType, LoopType
<1>3. CASE OnChildFailed
  <2>1. Rest \in Seq(Event)
    BY <1>0, <1>3, TakesType DEF OnChildFailed
  <2>2. SwapType'
    BY <1>0, <1>3, AbandonType DEF OnChildFailed, bounds, swap, SwapType
  <2> QED BY <1>0, <1>3, <2>1, <2>2
          DEF Types, SessionType, OnChildFailed, bounds, registry, settings, RegistryType,
              SettingsType, LoopType
<1>4. CASE OnSwapAdmitted
  <2>1. Rest \in Seq(Event)
    BY <1>0, <1>4, TakesType DEF OnSwapAdmitted
  <2>2. SwapType'
    BY <1>0, <1>4, AbandonType DEF OnSwapAdmitted, bounds, SwapType
  <2>3. SessionType'
    <3>1. CASE UNCHANGED session
      BY <1>0, <3>1 DEF SessionType
    <3>2. CASE ~ UNCHANGED session
      <4> DEFINE whom == {s \in {phase.target} : s # NoSession /\ Registered(s)}
      <4>1. session' = Tell(whom, "quit")
        BY <1>4, <3>2 DEF OnSwapAdmitted
      <4> HIDE DEF whom
      <4> QED BY <1>0, <4>1, TellType
    <3> QED BY <3>1, <3>2
  <2> QED BY <1>0, <1>4, <2>1, <2>2, <2>3
          DEF Types, OnSwapAdmitted, bounds, registry, settings, RegistryType,
              SettingsType, LoopType
<1>5. CASE OnLeft
  <2>1. Rest \in Seq(Event)
    BY <1>0, <1>5, TakesType DEF OnLeft
  <2>2. SwapType'
    BY <1>0, <1>5, AbandonType DEF OnLeft, bounds, SwapType
  <2>3. connection' \in Seq(Sessions) /\ IsInjective(connection') /\ events' \in Seq(Event)
    BY <1>0, <1>5, <2>1, RetainType DEF OnLeft, RegistryType
  <2> QED BY <1>0, <1>5, <2>2, <2>3
          DEF Types, SessionType, OnLeft, bounds, settings, RegistryType, SettingsType, LoopType
<1>6. CASE OnLastGone
  <2>1. Rest \in Seq(Event) /\ << >> \in Seq(Event)
    BY <1>0, <1>6, TakesType, EmptySeq DEF OnLastGone
  <2>2. events' \in Seq(Event) /\ loop' \in {loop, "shutdown"}
    BY <1>6, <2>1 DEF OnLastGone
  <2> QED BY <1>0, <1>6, <2>2
          DEF Types, SessionType, OnLastGone, bounds, registry, settings, swap, RegistryType,
              SettingsType, SwapType, LoopType, Preparing
<1>7. CASE BeginShutdown
  BY <1>0, <1>7
     DEF Types, SessionType, BeginShutdown, bounds, settings, swap, RegistryType,
         SettingsType, SwapType, LoopType, Preparing
<1>8. CASE NotifyAll
  <2>1. SessionType'
    <3> DEFINE whom == {s \in Sessions : Registered(s)}
    <3>1. session' = Tell(whom, "shutdown")
      BY <1>8 DEF NotifyAll
    <3> HIDE DEF whom
    <3> QED BY <1>0, <3>1, TellType
  <2> QED BY <1>0, <1>8, <2>1
          DEF Types, NotifyAll, bounds, registry, settings, swap, RegistryType,
              SettingsType, SwapType, LoopType, Preparing
<1>9. CASE Exit
  BY <1>0, <1>9
     DEF Types, SessionType, Exit, bounds, registry, settings, swap, RegistryType,
         SettingsType, SwapType, LoopType, Preparing
<1> QED BY <1>1, <1>2, <1>3, <1>4, <1>5, <1>6, <1>7, <1>8, <1>9 DEF LoopStep

-----------------------------------------------------------------------------
(* What a step does that lets nobody in.                                   *)

\* The replacement of s has been admitted and is about to be noticed.
Due(s) ==
    /\ phase.at = "awaiting" /\ phase.target = s
    /\ \E e \in Range(events) : e.op = "admitted" /\ e.token = phase.token

\* Clients keep what they negotiated and what they were told.
SeatEffect ==
    \A r \in Sessions :
        /\ \/ session'[r].at = session[r].at
           \/ session[r].at = "attached" /\ session'[r].at = "left"
        /\ session'[r].by = session[r].by /\ session'[r].kind = session[r].kind
        /\ session'[r].stay = session[r].stay
        /\ "shutdown" \in session[r].told => "shutdown" \in session'[r].told
        /\ "quit" \in session'[r].told => "quit" \in session[r].told \/ Due(r)

\* Nobody joins the registry.
RegistryEffect ==
    /\ Range(connection') \subseteq Range(connection) /\ held_client' = held_client
    /\ was_alive' \/ UNCHANGED settings

\* A token is dropped, or a fresh one is minted for a launch.
SwapEffect ==
    \/ /\ pending' \in {pending, 0} /\ launched' = launched
       /\ phase' = phase \/ phase'.at # "awaiting"
    \/ \E target \in Sessions \cup {NoSession} :
        /\ launched' = Append(launched, target) /\ pending' = Len(launched) + 1
        /\ phase' = [at |-> "awaiting", target |-> target, token |-> Len(launched) + 1]

\* No admission is announced, and a registry that empties is noticed.
EventEffect ==
    /\ \A e \in Range(events') : e.op = "admitted" => e \in Range(events)
    /\ loop' \in {"recv", "publish"} /\ connection' = << >> /\ held_client =>
        /\ loop \in {"recv", "publish"}
        /\ \/ LastGone \in Range(events') \/ stay_alive
           \/ connection = << >> /\ LastGone \notin Range(events)

\* The end of the owner takes its steps in order.
EndEffect ==
    \/ loop' \in {"recv", "publish", "shutdown"}
    \/ UNCHANGED <<loop, shutting_down>>
    \/ loop' = "notify" /\ shutting_down'
    \/ /\ loop = "notify" /\ loop' = "stopping" /\ UNCHANGED <<shutting_down, connection>>
       /\ \A r \in Range(connection) : "shutdown" \in session'[r].told
    \/ loop = "stopping" /\ loop' = "exited" /\ UNCHANGED <<shutting_down, connection>>

Quiet == SeatEffect /\ RegistryEffect /\ SwapEffect /\ EventEffect /\ EndEffect

\* Unchanged sessions, registries, tokens and events are quiet.
LEMMA SameIsQuiet ==
    /\ UNCHANGED session => SeatEffect
    /\ UNCHANGED connection /\ UNCHANGED held_client /\ UNCHANGED settings => RegistryEffect
    /\ UNCHANGED swap => SwapEffect
    /\ UNCHANGED <<loop, shutting_down>> => EndEffect
    /\ UNCHANGED <<loop, connection, events>> => EventEffect
BY DEF SeatEffect, RegistryEffect, SwapEffect, EndEffect, EventEffect, swap, settings

\* Posting anything but an admission is quiet.
LEMMA PostIsQuiet ==
    ASSUME events \in Seq(Event), NEW e \in Event, e.op # "admitted", Post(e),
           UNCHANGED <<loop, connection>>
    PROVE  EventEffect
BY PostType DEF EventEffect

\* So is dropping connections with retain_clients, before the loop goes on.
LEMMA RetainIsQuiet ==
    ASSUME RegistryType, NEW more \in Seq(Event), NEW keep, Retain(keep, more),
           Range(more) \subseteq Range(events),
           LastGone \in Range(events) => LastGone \in Range(more),
           loop' \in {"recv", "publish"} => loop \in {"recv", "publish"}
    PROVE  EventEffect /\ Range(connection') \subseteq Range(connection)
<1>1. /\ Range(connection') \subseteq Range(connection)
      /\ \A f \in Range(events') : f = LastGone \/ f \in Range(more)
      /\ loop \in {"recv", "publish"} =>
            /\ Range(more) \subseteq Range(events')
            /\ connection # << >> /\ connection' = << >> /\ held_client
                    => LastGone \in Range(events')
  BY RetainType DEF RegistryType
<1>2. LastGone.op # "admitted"
  BY DEF LastGone
<1> QED BY <1>1, <1>2 DEF EventEffect

\* And taking an event off the queue, unless it is that of the last client.
LEMMA TakeIsQuiet ==
    ASSUME LoopType, NEW op \in {"prepared", "left", "admitted", "failed"}, Takes(op)
    PROVE  /\ Rest \in Seq(Event) /\ Range(Rest) \subseteq Range(events)
           /\ LastGone \in Range(events) => LastGone \in Range(Rest)
           /\ events' = Rest /\ UNCHANGED <<loop, connection>> => EventEffect
<1>1. /\ Rest \in Seq(Event) /\ Range(Rest) \subseteq Range(events)
      /\ Range(events) \subseteq Range(Rest) \cup {Head(events)}
      /\ Head(events).op = op
  BY TakesType
<1>2. Head(events) # LastGone
  BY <1>1 DEF LastGone
<1> QED BY <1>1, <1>2 DEF EventEffect

\* Launching and abandoning.
LEMMA SpawnIsQuiet ==
    /\ \A target \in Sessions \cup {NoSession} : Spawn(target) => SwapEffect
    /\ Abandon /\ UNCHANGED launched => SwapEffect
BY DEF Spawn, SwapEffect, Abandon, Idle

\* Telling the clients anything but to quit.
LEMMA TellIsQuiet ==
    ASSUME SessionType, NEW whom, NEW what \in {"prepare", "quit", "shutdown"},
           session' = Tell(whom, what),
           what = "quit" => \A r \in whom : Due(r)
    PROVE  SeatEffect /\ \A r \in whom \cap Sessions : what \in session'[r].told
<1>1. \A r \in Sessions :
        session'[r] = [session[r] EXCEPT !.told = IF r \in whom THEN @ \cup {what} ELSE @]
  BY TellType
<1>2. ASSUME NEW r \in Sessions
      PROVE  /\ session'[r].at = session[r].at /\ session'[r].by = session[r].by
             /\ session'[r].kind = session[r].kind /\ session'[r].stay = session[r].stay
             /\ session'[r].told = IF r \in whom THEN session[r].told \cup {what} ELSE session[r].told
  <2>1. session[r] \in Session
    BY DEF SessionType
  <2> QED BY <1>1, <2>1 DEF Session
<1> QED BY <1>2 DEF SeatEffect

\* The steps of a connection's threads but Hello and Admit.
LEMMA ClientIsQuiet ==
    ASSUME Types, NEW s \in Sessions,
           SwapPrepared(s) \/ Leave(s) \/ WriterBreaks(s) \/ ToggleStayAlive(s)
    PROVE  Quiet
<1>0. /\ SessionType /\ session[s] \in Session /\ LoopType
  BY DEF Types, SessionType
<1>1. CASE SwapPrepared(s) \/ Leave(s)
  <2>1. SeatEffect
    BY <1>0, <1>1 DEF SwapPrepared, Leave, SeatEffect, SessionType, Session
  <2>2. PICK e \in Event : e.op # "admitted" /\ Post(e)
    <3>1. [op |-> "prepared", session |-> s] \in Event /\ [op |-> "left", session |-> s] \in Event
      BY DEF Event
    <3> QED BY <1>1, <3>1 DEF SwapPrepared, Leave
  <2>3. EventEffect
    BY <1>0, <1>1, <2>2, PostIsQuiet DEF LoopType, SwapPrepared, Leave, registry
  <2> QED BY <1>1, <2>1, <2>3, SameIsQuiet DEF Quiet, SwapPrepared, Leave, registry
<1>2. CASE WriterBreaks(s)
  <2>1. SeatEffect
    BY <1>0, <1>2 DEF WriterBreaks, SeatEffect, SessionType, Session
  <2> QED BY <1>2, <2>1, SameIsQuiet DEF Quiet, WriterBreaks, registry
<1>3. CASE ToggleStayAlive(s)
  <2>1. RegistryEffect
    BY <1>3 DEF ToggleStayAlive, RegistryEffect, registry
  <2> QED BY <1>3, <2>1, SameIsQuiet DEF Quiet, ToggleStayAlive, registry
<1> QED BY <1>1, <1>2, <1>3

\* Broadcasts, edits and requests.
LEMMA RequestIsQuiet ==
    ASSUME Types, Request \/ StatusBroadcast \/ \E t \in 1..MaxLaunches : ChildFails(t)
    PROVE  Quiet
<1>0. SessionType /\ RegistryType /\ SwapType /\ LoopType /\ events \in Seq(Event)
  BY DEF Types, LoopType
<1>1. CASE StatusBroadcast
  <2>1. EventEffect /\ Range(connection') \subseteq Range(connection)
    BY <1>0, <1>1, RetainIsQuiet DEF StatusBroadcast
  <2>2. RegistryEffect
    BY <1>1, <2>1 DEF StatusBroadcast, RegistryEffect
  <2> QED BY <1>1, <2>1, <2>2, SameIsQuiet DEF Quiet, StatusBroadcast
<1>2. CASE Edit
  <2>1. EventEffect /\ Range(connection') \subseteq Range(connection)
    BY <1>0, <1>2, RetainIsQuiet DEF Edit
  <2>2. RegistryEffect
    BY <1>2, <2>1 DEF Edit, RegistryEffect
  <2>3. SeatEffect
    <3>1. \A r \in Sessions : /\ session[r] \in Session
                              /\ session'[r] \in {session[r], [session[r] EXCEPT !.view = queue + 1]}
      BY <1>0, <1>2 DEF Edit, SessionType
    <3> QED BY <3>1 DEF SeatEffect, Session
  <2>4. EndEffect
    BY <1>2 DEF Edit, EndEffect
  <2> QED BY <1>2, <2>1, <2>2, <2>3, <2>4, SameIsQuiet DEF Quiet, Edit
<1>3. CASE StartSwap
  <2>1. EventEffect /\ RegistryEffect /\ EndEffect
    BY <1>3, SameIsQuiet DEF StartSwap, registry
  <2>2. CASE SwapTarget = NoSession
    BY <1>3, <2>1, <2>2, SameIsQuiet, SpawnIsQuiet DEF StartSwap, Quiet
  <2>3. CASE SwapTarget # NoSession
    <3>1. SwapEffect
      BY <1>3, <2>3 DEF StartSwap, SwapEffect
    <3>2. SeatEffect
      BY <1>0, <1>3, <2>3, TellIsQuiet DEF StartSwap
    <3> QED BY <2>1, <3>1, <3>2 DEF Quiet
  <2> QED BY <2>2, <2>3
<1>4. CASE OpenTerminal
  BY <1>4, SameIsQuiet, SpawnIsQuiet DEF OpenTerminal, Quiet, registry
<1>5. CASE Deadline
  BY <1>5, SameIsQuiet, SpawnIsQuiet DEF Deadline, Quiet, registry
<1>6. CASE ShutdownRequested
  <2>1. EventEffect
    <3>1. Range(events') = {}
      BY <1>6 DEF ShutdownRequested, Range
    <3> QED BY <1>6, <3>1 DEF ShutdownRequested, EventEffect
  <2>2. EndEffect
    BY <1>6 DEF ShutdownRequested, EndEffect
  <2> QED BY <1>6, <2>1, <2>2, SameIsQuiet DEF ShutdownRequested, Quiet, registry
<1>7. CASE \E t \in 1..MaxLaunches : ChildFails(t)
  <2>1. PICK t \in 1..MaxLaunches : ChildFails(t)
    BY <1>7
  <2>2. [op |-> "failed", token |-> t] \in Event
    BY BoundsAssumption DEF Event, Token
  <2> DEFINE e == [op |-> "failed", token |-> t]
  <2>3. e \in Event /\ e.op # "admitted" /\ Post(e)
    BY <2>1, <2>2 DEF ChildFails
  <2> HIDE DEF e
  <2>4. EventEffect
    BY <1>0, <2>1, <2>3, PostIsQuiet DEF ChildFails, registry
  <2>5. SwapEffect
    BY <2>1 DEF ChildFails, SwapEffect
  <2> QED BY <2>1, <2>4, <2>5, SameIsQuiet DEF ChildFails, Quiet, registry
<1> QED BY <1>1, <1>2, <1>3, <1>4, <1>5, <1>6, <1>7 DEF Request

\* The event loop.
LEMMA LoopIsQuiet == ASSUME Types, LoopStep PROVE Quiet
<1>0. SessionType /\ RegistryType /\ SwapType /\ LoopType /\ events \in Seq(Event)
  BY DEF Types, LoopType
<1>1. CASE Publish
  <2>1. EventEffect /\ EndEffect
    BY <1>1 DEF Publish, EventEffect, EndEffect, registry
  <2> QED BY <1>1, <2>1, SameIsQuiet DEF Publish, Quiet, registry
<1>2. CASE OnSwapPrepared
  <2>1. EventEffect
    BY <1>0, <1>2, TakeIsQuiet DEF OnSwapPrepared, registry
  <2>2. SwapEffect
    <3>1. phase.target \in Sessions \cup {NoSession}
      BY <1>0 DEF SwapType, Phase
    <3> QED BY <1>2, <3>1, SameIsQuiet, SpawnIsQuiet DEF OnSwapPrepared
  <2> QED BY <1>2, <2>1, <2>2, SameIsQuiet DEF OnSwapPrepared, Quiet, registry
<1>3. CASE OnChildFailed
  <2>1. EventEffect
    BY <1>0, <1>3, TakeIsQuiet DEF OnChildFailed, registry
  <2>2. SwapEffect
    BY <1>3, SameIsQuiet, SpawnIsQuiet DEF OnChildFailed
  <2> QED BY <1>3, <2>1, <2>2, SameIsQuiet DEF OnChildFailed, Quiet, registry
<1>4. CASE OnSwapAdmitted
  <2>1. EventEffect
    BY <1>0, <1>4, TakeIsQuiet DEF OnSwapAdmitted, registry
  <2>2. SwapEffect
    BY <1>4, SpawnIsQuiet DEF OnSwapAdmitted, SwapEffect
  <2>3. SeatEffect
    <3>1. CASE UNCHANGED session
      BY <3>1, SameIsQuiet
    <3>2. CASE ~ UNCHANGED session
      <4> DEFINE whom == {s \in {phase.target} : s # NoSession /\ Registered(s)}
      <4>1. /\ session' = Tell(whom, "quit")
            /\ phase.at = "awaiting" /\ phase.token = Head(events).token
        BY <1>4, <3>2 DEF OnSwapAdmitted
      <4>2. Head(events) \in Range(events) /\ Head(events).op = "admitted"
        BY <1>0, <1>4, TakesType DEF OnSwapAdmitted
      <4>3. \A r \in whom : Due(r)
        BY <4>1, <4>2 DEF Due
      <4> HIDE DEF whom
      <4> QED BY <1>0, <4>1, <4>3, TellIsQuiet
    <3> QED BY <3>1, <3>2
  <2> QED BY <1>4, <2>1, <2>2, <2>3, SameIsQuiet DEF OnSwapAdmitted, Quiet, registry
<1>5. CASE OnLeft
  <2>1. /\ Rest \in Seq(Event) /\ Range(Rest) \subseteq Range(events)
        /\ LastGone \in Range(events) => LastGone \in Range(Rest)
    BY <1>0, <1>5, TakeIsQuiet DEF OnLeft
  <2>2. EventEffect /\ Range(connection') \subseteq Range(connection)
    BY <1>0, <1>5, <2>1, RetainIsQuiet DEF OnLeft
  <2>3. RegistryEffect
    BY <1>5, <2>2 DEF OnLeft, RegistryEffect
  <2>4. SwapEffect
    BY <1>5, SpawnIsQuiet DEF OnLeft, SwapEffect
  <2> QED BY <1>5, <2>2, <2>3, <2>4, SameIsQuiet DEF OnLeft, Quiet
<1>6. CASE OnLastGone
  <2>1. EventEffect
    <3>1. CASE ~ stay_alive /\ ~ HasDriver
      <4>1. Range(events') = {} /\ loop' = "shutdown"
        BY <1>6, <3>1 DEF OnLastGone, Range
      <4> QED BY <4>1 DEF EventEffect
    <3>2. CASE stay_alive \/ HasDriver
      <4>1. events' = Rest /\ UNCHANGED <<loop, connection>>
        BY <1>6, <3>2 DEF OnLastGone, registry
      <4>2. Range(Rest) \subseteq Range(events)
        BY <1>0, <1>6, TakesType DEF OnLastGone
      <4>3. HasDriver => connection # << >>
        <5>1. SUFFICES ASSUME connection = << >> PROVE ~ HasDriver
          OBVIOUS
        <5>2. Range(connection) = {}
          BY <5>1 DEF Range
        <5> QED BY <1>0, <5>2, RegisteredInRange DEF HasDriver, RegistryType
      <4> QED BY <3>2, <4>1, <4>2, <4>3 DEF EventEffect
    <3> QED BY <3>1, <3>2
  <2>2. EndEffect
    BY <1>6 DEF OnLastGone, EndEffect, registry
  <2> QED BY <1>6, <2>1, <2>2, SameIsQuiet DEF OnLastGone, Quiet, registry
<1>7. CASE BeginShutdown
  <2>1. EventEffect /\ EndEffect
    BY <1>7 DEF BeginShutdown, EventEffect, EndEffect
  <2> QED BY <1>7, <2>1, SameIsQuiet DEF BeginShutdown, Quiet
<1>8. CASE NotifyAll
  <2> DEFINE whom == {s \in Sessions : Registered(s)}
  <2>1. session' = Tell(whom, "shutdown")
    BY <1>8 DEF NotifyAll
  <2>2. Range(connection) \subseteq whom \cap Sessions
    <3>1. connection \in Seq(Sessions)
      BY <1>0 DEF RegistryType
    <3>2. Range(connection) \subseteq Sessions
      BY <3>1, LenProperties DEF Range
    <3> QED BY <3>1, <3>2, RegisteredInRange
  <2> HIDE DEF whom
  <2>3. SeatEffect /\ \A r \in whom \cap Sessions : "shutdown" \in session'[r].told
    BY <1>0, <2>1, TellIsQuiet
  <2>4. EventEffect /\ EndEffect
    BY <1>8, <2>2, <2>3 DEF NotifyAll, EventEffect, EndEffect, registry
  <2> QED BY <1>8, <2>3, <2>4, SameIsQuiet DEF NotifyAll, Quiet, registry
<1>9. CASE Exit
  <2>1. EventEffect /\ EndEffect
    BY <1>9 DEF Exit, EventEffect, EndEffect, registry
  <2> QED BY <1>9, <2>1, SameIsQuiet DEF Exit, Quiet, registry
<1> QED BY <1>1, <1>2, <1>3, <1>4, <1>5, <1>6, <1>7, <1>8, <1>9 DEF LoopStep

-----------------------------------------------------------------------------
(* The inductive invariant.                                                *)

Driver(s) == s \in Range(connection) /\ IsDriver(session[s].kind)

\* Only an attached connection is a replacement.
Seats ==
    /\ Enrolled
    /\ \A s \in Sessions : session[s].at \notin {"attached", "left"} => session[s].by = 0

\* A token admits one connection, and the one that can still be taken none.
Tokens ==
    /\ pending <= Len(launched)
    /\ \A s \in Sessions : session[s].by <= Len(launched)
                           /\ (pending # 0 => session[s].by # pending)
    /\ \A r, s \in Sessions : session[r].by = session[s].by /\ session[s].by # 0 => r = s

\* A swap that awaits its replacement launched it, and an admission that is
\* announced has happened.
Swapping ==
    /\ phase.at = "awaiting" =>
        phase.token \in 1..Len(launched) /\ launched[phase.token] = phase.target
    /\ \A e \in Range(events) : e.op = "admitted" =>
        e.token # 0 /\ \E r \in Sessions : session[r].by = e.token
    /\ QuitMeansReplaced

\* With Stay-alive off throughout, nobody negotiated it, and one client drives.
Unstaying == ~ stay_alive /\ \A s \in Sessions : ~ session[s].stay
OneDriver ==
    \A r, s \in Sessions :
        Driver(r) /\ session[r].by = 0 /\ Driver(s) /\ session[s].by = 0 => r = s
Alone == ~ was_alive => Unstaying /\ OneDriver

\* The clients are told once nobody can join any more.
Ending ==
    /\ loop \in {"notify", "stopping", "exited"} => shutting_down
    /\ loop \in {"stopping", "exited"} =>
            \A s \in Range(connection) : "shutdown" \in session[s].told

\* A running loop is going to look at an emptied registry.
Waking ==
    loop \in {"recv", "publish"} /\ connection = << >> /\ held_client =>
        was_alive \/ LastGone \in Range(events)

IInv == Types /\ Seats /\ Tokens /\ Swapping /\ Alone /\ Ending /\ Waking

\* At first.
LEMMA InvInit == Init => IInv
<1> SUFFICES ASSUME Init PROVE IInv
  OBVIOUS
<1>0. Types
  BY TypeInit
<1>1. /\ Range(connection) = {} /\ Range(events) = {} /\ Len(launched) = 0
      /\ \A s \in Sessions : session[s] = NoHello
  BY EmptySeq DEF Init, Range
<1>2. NoHello.at = "off" /\ NoHello.by = 0 /\ NoHello.told = {} /\ NoHello.stay = FALSE
  BY DEF NoHello
<1>3. Seats /\ Ending /\ Waking
  BY <1>1, <1>2 DEF Init, Seats, Enrolled, Ending, Waking
<1>4. Tokens
  <2>1. pending = 0 /\ Len(launched) = 0 /\ \A s \in Sessions : session[s].by = 0
    BY <1>1, <1>2 DEF Init
  <2> QED BY <2>1 DEF Tokens
<1>5. Swapping
  <2>1. phase.at = "idle"
    BY DEF Init, Idle
  <2> QED BY <1>1, <1>2, <2>1 DEF Swapping, QuitMeansReplaced
<1>6. Alone
  <2>1. ~ was_alive => ~ stay_alive
    BY Zenon DEF Init
  <2>2. \A s \in Sessions : ~ session[s].stay /\ ~ Driver(s)
    BY <1>1, <1>2 DEF Driver
  <2>3. ~ was_alive => Unstaying
    BY <2>1, <2>2 DEF Unstaying
  <2>4. OneDriver
    BY <2>2 DEF OneDriver
  <2> QED BY <2>3, <2>4 DEF Alone
<1> QED BY <1>0, <1>3, <1>4, <1>5, <1>6 DEF IInv

\* What the types say of the registry and of tokens.
LEMMA Ranges ==
    ASSUME Types
    PROVE  /\ Range(connection) \subseteq Sessions
           /\ Len(launched) \in Nat /\ pending \in Nat
           /\ \A s \in Sessions : session[s] \in Session /\ session[s].by \in Nat
<1>1. connection \in Seq(Sessions) /\ launched \in Seq(Sessions \cup {NoSession}) /\ pending \in Token
  BY DEF Types, RegistryType, SwapType
<1>2. Range(connection) \subseteq Sessions
  BY <1>1, LenProperties DEF Range
<1>3. \A s \in Sessions : session[s] \in Session
  BY DEF Types, SessionType
<1> QED BY <1>1, <1>2, <1>3, LenProperties, BoundsAssumption DEF Session, Token

\* The rest of the invariant survives a step that lets nobody in.
LEMMA QuietStep ==
    ASSUME IInv, Quiet
    PROVE  Seats' /\ Tokens' /\ Swapping' /\ Alone' /\ Ending' /\ Waking'
<1>0. /\ SeatEffect /\ RegistryEffect /\ SwapEffect /\ EventEffect /\ EndEffect
      /\ Seats /\ Tokens /\ Swapping /\ Alone /\ Ending /\ Waking
  BY DEF IInv, Quiet
<1>1. /\ Range(connection) \subseteq Sessions
      /\ Len(launched) \in Nat /\ pending \in Nat
      /\ \A s \in Sessions : session[s].by \in Nat
  BY Ranges DEF IInv
<1>2. \A r \in Sessions :
        /\ session'[r].by = session[r].by /\ session'[r].kind = session[r].kind
        /\ session'[r].stay = session[r].stay
        /\ session[r].at \in {"attached", "left"} <=> session'[r].at \in {"attached", "left"}
  BY <1>0 DEF SeatEffect
<1>3. Range(connection') \subseteq Range(connection) /\ held_client' = held_client
  BY <1>0 DEF RegistryEffect
<1>4. Seats'
  BY <1>0, <1>1, <1>2, <1>3 DEF Seats, Enrolled
<1>5. /\ Len(launched') \in Nat /\ Len(launched) <= Len(launched')
      /\ \A i \in 1..Len(launched) : i \in 1..Len(launched') /\ launched'[i] = launched[i]
  <2>1. launched \in Seq(Sessions \cup {NoSession})
    BY DEF IInv, Types, SwapType
  <2> QED BY <1>0, <1>1, <2>1, AppendProperties DEF SwapEffect
<1>6. Tokens'
  <2>1. CASE pending' \in {pending, 0} /\ launched' = launched
    BY <1>0, <1>1, <1>2, <2>1 DEF Tokens
  <2>2. CASE \E target \in Sessions \cup {NoSession} :
               launched' = Append(launched, target) /\ pending' = Len(launched) + 1
    <3>1. Len(launched') = Len(launched) + 1
      BY <2>2, AppendProperties DEF IInv, Types, SwapType
    <3>2. \A s \in Sessions : session'[s].by <= Len(launched) /\ session'[s].by \in Nat
      BY <1>0, <1>1, <1>2 DEF Tokens
    <3>3. \A r, s \in Sessions : session'[r].by = session'[s].by /\ session'[s].by # 0 => r = s
      BY <1>0, <1>2 DEF Tokens
    <3> QED BY <1>1, <2>2, <3>1, <3>2, <3>3 DEF Tokens
  <2> QED BY <1>0, <2>1, <2>2 DEF SwapEffect
<1>7. Swapping'
  <2>1. phase'.at = "awaiting" =>
          phase'.token \in 1..Len(launched') /\ launched'[phase'.token] = phase'.target
    <3>1. CASE launched' = launched /\ (phase' = phase \/ phase'.at # "awaiting")
      BY <1>0, <3>1 DEF Swapping
    <3>2. CASE \E target \in Sessions \cup {NoSession} :
            /\ launched' = Append(launched, target)
            /\ phase' = [at |-> "awaiting", target |-> target, token |-> Len(launched) + 1]
      <4>1. PICK target \in Sessions \cup {NoSession} :
            /\ launched' = Append(launched, target)
            /\ phase' = [at |-> "awaiting", target |-> target, token |-> Len(launched) + 1]
        BY <3>2
      <4>2. Len(launched') = Len(launched) + 1 /\ launched'[Len(launched) + 1] = target
        BY <4>1, AppendProperties DEF IInv, Types, SwapType
      <4> QED BY <1>1, <4>1, <4>2
    <3> QED BY <1>0, <3>1, <3>2 DEF SwapEffect
  <2>2. \A e \in Range(events') : e.op = "admitted" =>
          e.token # 0 /\ \E r \in Sessions : session'[r].by = e.token
    BY <1>0, <1>2 DEF EventEffect, Swapping
  <2>3. ASSUME NEW s \in Sessions, "quit" \in session'[s].told
        PROVE  \E r \in Sessions : session'[r].by # 0 /\ launched'[session'[r].by] = s
    <3>1. CASE "quit" \in session[s].told
      <4>1. PICK r \in Sessions : session[r].by # 0 /\ launched[session[r].by] = s
        BY <1>0, <3>1 DEF Swapping, QuitMeansReplaced
      <4>2. session[r].by \in 1..Len(launched)
        BY <1>0, <1>1, <4>1 DEF Tokens
      <4> QED BY <1>2, <1>5, <4>1, <4>2
    <3>2. CASE Due(s)
      <4>1. PICK e \in Range(events) : e.op = "admitted" /\ e.token = phase.token
        BY <3>2 DEF Due
      <4>2. PICK r \in Sessions : session[r].by = e.token /\ e.token # 0
        BY <1>0, <4>1 DEF Swapping
      <4>3. phase.token \in 1..Len(launched) /\ launched[phase.token] = s
        BY <1>0, <3>2 DEF Swapping, Due
      <4> QED BY <1>2, <1>5, <4>1, <4>2, <4>3
    <3> QED BY <1>0, <2>3, <3>1, <3>2 DEF SeatEffect
  <2> QED BY <2>1, <2>2, <2>3 DEF Swapping, QuitMeansReplaced
<1>8. Alone'
  <2>1. ~ was_alive' => ~ was_alive /\ (stay_alive' <=> stay_alive)
    BY <1>0 DEF RegistryEffect, settings
  <2>2. \A s \in Sessions : Driver(s)' => Driver(s)
    BY <1>1, <1>2, <1>3 DEF Driver
  <2>3. \A s \in Sessions : session'[s].by = session[s].by /\ session'[s].stay = session[s].stay
    BY <1>2
  <2>4. Unstaying /\ ~ stay_alive' => Unstaying'
    BY <2>3 DEF Unstaying
  <2>5. OneDriver => OneDriver'
    BY <2>2, <2>3 DEF OneDriver
  <2>6. Unstaying => ~ stay_alive
    BY DEF Unstaying
  <2> QED BY <1>0, <2>1, <2>4, <2>5, <2>6 DEF Alone
<1>9. Ending'
  <2>1. \A s \in Range(connection) : "shutdown" \in session[s].told => "shutdown" \in session'[s].told
    BY <1>0, <1>1 DEF SeatEffect
  <2> QED BY <1>0, <1>3, <2>1 DEF Ending, EndEffect
<1>10. Waking'
  BY <1>0, <1>3 DEF Waking, Alone, Unstaying, EventEffect, RegistryEffect, settings
<1> QED BY <1>4, <1>6, <1>7, <1>8, <1>9, <1>10

\* A connection that says Hello.
LEMMA HelloStep ==
    ASSUME IInv, NEW s \in Sessions, Hello(s)
    PROVE  Seats' /\ Tokens' /\ Swapping' /\ Alone' /\ Ending' /\ Waking'
<1>0. /\ Seats /\ Tokens /\ Swapping /\ Alone /\ Ending /\ Waking /\ SessionType
      /\ session[s].at = "off" /\ s \notin Range(connection) /\ session[s].by = 0
      /\ UNCHANGED <<connection, held_client, shutting_down, stay_alive, was_alive, phase,
                     pending, running, launched, loop, events>>
  BY DEF IInv, Types, Seats, Enrolled, Hello, registry, settings, swap
<1>1. /\ Range(connection) \subseteq Sessions /\ Range(connection') = Range(connection)
      /\ Range(events') = Range(events)
  BY <1>0, Ranges DEF IInv
<1>2. \A r \in Sessions : r # s => session'[r] = session[r]
  BY <1>0 DEF Hello, SessionType
<1>3. /\ session'[s].at = "hello" /\ session'[s].by = 0 /\ session'[s].told = {}
      /\ session'[s].stay = stay_alive
  <2>1. PICK k \in Kinds, t \in 0..Len(launched) :
          session' = [session EXCEPT ![s] =
             [NoHello EXCEPT !.at = "hello", !.kind = k, !.token = t,
                             !.stay = stay_alive, !.view = shared]]
    BY DEF Hello
  <2>2. session'[s] = [NoHello EXCEPT !.at = "hello", !.kind = k, !.token = t,
                                      !.stay = stay_alive, !.view = shared]
    BY <1>0, <2>1 DEF SessionType
  <2> QED BY <2>2 DEF NoHello
<1>4. \A r \in Sessions : session'[r].by = session[r].by
  BY <1>0, <1>2, <1>3
<1>5. Seats'
  BY <1>0, <1>1, <1>2, <1>3 DEF Seats, Enrolled
<1>6. Tokens'
  BY <1>0, <1>4 DEF Tokens
<1>7. Swapping'
  <2>1. QuitMeansReplaced'
    BY <1>0, <1>2, <1>3, <1>4 DEF Swapping, QuitMeansReplaced
  <2> QED BY <1>0, <1>1, <1>4, <2>1 DEF Swapping
<1>8. Alone'
  <2>1. \A r \in Sessions : Driver(r)' => Driver(r)
    BY <1>0, <1>1, <1>2 DEF Driver
  <2>2. OneDriver => OneDriver'
    BY <1>4, <2>1 DEF OneDriver
  <2>3. Unstaying => Unstaying'
    <3>1. Unstaying => \A r \in Sessions : ~ session'[r].stay
      <4> SUFFICES ASSUME Unstaying, NEW r \in Sessions PROVE ~ session'[r].stay
        OBVIOUS
      <4>1. CASE r = s
        BY <1>3, <4>1 DEF Unstaying
      <4>2. CASE r # s
        BY <1>2, <4>2 DEF Unstaying
      <4> QED BY <4>1, <4>2
    <3>2. Unstaying => ~ stay_alive'
      BY <1>0, Zenon DEF Unstaying
    <3> QED BY <3>1, <3>2 DEF Unstaying
  <2> QED BY <1>0, <2>2, <2>3 DEF Alone
<1>9. Ending'
  BY <1>0, <1>1, <1>2 DEF Ending
<1>10. Waking'
  BY <1>0, <1>1 DEF Waking
<1> QED BY <1>5, <1>6, <1>7, <1>8, <1>9, <1>10

\* A connection that is admitted or refused.
LEMMA AdmitStep ==
    ASSUME IInv, NEW s \in Sessions, Admit(s)
    PROVE  Seats' /\ Tokens' /\ Swapping' /\ Alone' /\ Ending' /\ Waking'
<1>0. /\ Types /\ Seats /\ Tokens /\ Swapping /\ Alone /\ Ending /\ Waking /\ SessionType
      /\ RegistryType /\ SwapType /\ LoopType
      /\ session[s].at = "hello" /\ s \notin Range(connection) /\ session[s].by = 0
      /\ UNCHANGED <<shutting_down, stay_alive, was_alive, phase, launched, loop>>
  BY DEF IInv, Types, Seats, Enrolled, Admit, settings, Refuse, Connect, registry
<1>1. /\ Range(connection) \subseteq Sessions /\ Len(launched) \in Nat /\ pending \in Nat
      /\ \A r \in Sessions : session[r] \in Session /\ session[r].by \in Nat
  BY Ranges DEF IInv
<1>2. \A r \in Sessions : r # s => session'[r] = session[r]
  BY <1>0 DEF Admit, Refuse, Connect, SessionType
<1>3. CASE Refuse(s)
  <2>1. /\ session'[s].at = "refused" /\ session'[s].by = 0 /\ session'[s].told = {}
        /\ ~ session'[s].stay
    <3>1. session'[s] = [NoHello EXCEPT !.at = "refused"]
      BY <1>0, <1>3 DEF Refuse, SessionType
    <3> QED BY <3>1 DEF NoHello
  <2>2. UNCHANGED <<connection, held_client, pending, events>>
    BY <1>3 DEF Refuse, registry
  <2>3. \A r \in Sessions : session'[r].by = session[r].by
    BY <1>0, <1>2, <2>1
  <2>4. Range(connection') = Range(connection) /\ Range(events') = Range(events)
    BY <2>2
  <2>5. Seats'
    BY <1>0, <1>1, <1>2, <2>1, <2>4 DEF Seats, Enrolled
  <2>6. Tokens'
    BY <1>0, <2>2, <2>3 DEF Tokens
  <2>7. Swapping'
    <3>1. QuitMeansReplaced'
      BY <1>0, <1>2, <2>1, <2>3 DEF Swapping, QuitMeansReplaced
    <3> QED BY <1>0, <2>3, <2>4, <3>1 DEF Swapping
  <2>8. Alone'
    <3>1. \A r \in Sessions : Driver(r)' => Driver(r)
      BY <1>0, <1>2, <2>4 DEF Driver
    <3>2. OneDriver => OneDriver'
      BY <2>3, <3>1 DEF OneDriver
    <3>3. Unstaying => \A r \in Sessions : ~ session'[r].stay
      <4> SUFFICES ASSUME Unstaying, NEW r \in Sessions PROVE ~ session'[r].stay
        OBVIOUS
      <4>1. CASE r = s
        BY <2>1, <4>1
      <4>2. CASE r # s
        BY <1>2, <4>2 DEF Unstaying
      <4> QED BY <4>1, <4>2
    <3>4. Unstaying => ~ stay_alive'
      BY <1>0, Zenon DEF Unstaying
    <3>5. Unstaying => Unstaying'
      BY <3>3, <3>4 DEF Unstaying
    <3> QED BY <1>0, <3>2, <3>5 DEF Alone
  <2>9. Ending'
    BY <1>0, <1>1, <1>2, <2>4 DEF Ending
  <2>10. Waking'
    BY <1>0, <2>2 DEF Waking
  <2> QED BY <2>5, <2>6, <2>7, <2>8, <2>9, <2>10
<1>4. CASE ~ shutting_down /\ Connect(s, session'[s].by)
  <2>1. /\ session'[s].at = "attached" /\ session'[s].kind = session[s].kind
        /\ session'[s].told = {} /\ ~ session'[s].stay
    <3>1. session'[s] = [NoHello EXCEPT !.at = "attached", !.kind = session[s].kind,
                                        !.view = session[s].view, !.by = session'[s].by]
      BY <1>0, <1>4 DEF Connect, SessionType
    <3> DEFINE new == [NoHello EXCEPT !.at = "attached", !.kind = session[s].kind,
                                      !.view = session[s].view, !.by = session'[s].by]
    <3>2. new.at = "attached" /\ new.kind = session[s].kind /\ new.told = {} /\ ~ new.stay
      BY DEF NoHello
    <3> HIDE DEF new
    <3> QED BY <3>1, <3>2 DEF new
  <2>2. connection' \in Seq(Sessions) /\ Range(connection') = Range(connection) \cup {s} /\ connection' # << >>
    <3> DEFINE c == Append(connection, s)
               n == Len(connection)
    <3>0. connection \in Seq(Sessions)
      BY <1>0 DEF RegistryType
    <3>1. /\ c \in Seq(Sessions) /\ Len(c) = n + 1 /\ c[n + 1] = s
          /\ \A i \in 1..n : c[i] = connection[i]
      BY <3>0, AppendProperties
    <3>2. DOMAIN c = 1..(n + 1) /\ DOMAIN connection = 1..n /\ n \in Nat
      BY <3>0, <3>1, LenProperties
    <3>3. connection' = c
      BY <1>4 DEF Connect
    <3> HIDE DEF c, n
    <3>4. c # << >>
      BY <3>1, <3>2, EmptySeq
    <3> QED BY <3>1, <3>2, <3>3, <3>4 DEF Range
  <2>3. \/ /\ session'[s].by = pending /\ pending # 0 /\ pending' = 0
           /\ Post([op |-> "admitted", token |-> pending])
        \/ /\ session'[s].by = 0 /\ UNCHANGED <<pending, events>>
           /\ session[s].stay \/ ~ HasDriver \/ ~ IsDriver(session[s].kind)
    <3>1. ASSUME NEW token, Connect(s, token) PROVE session'[s].by = token
      <4>1. session'[s] = [NoHello EXCEPT !.at = "attached", !.kind = session[s].kind,
                                          !.view = session[s].view, !.by = token]
        BY <1>0, <3>1 DEF Connect, SessionType
      <4> QED BY <4>1 DEF NoHello
    <3>2. ~ Refuse(s)
      BY <1>0, <2>2 DEF Refuse, registry, Range
    <3>3. CASE Matches(s)
      <4>1. /\ pending' = 0 /\ Connect(s, session[s].token)
            /\ Post([op |-> "admitted", token |-> session[s].token])
        BY <1>4, <3>2, <3>3 DEF Admit
      <4> QED BY <3>1, <3>3, <4>1 DEF Matches
    <3>4. CASE ~ Matches(s)
      <4>1. /\ Connect(s, 0) /\ UNCHANGED <<pending, events>>
            /\ session[s].stay \/ ~ HasDriver \/ ~ IsDriver(session[s].kind)
        BY <1>4, <3>2, <3>4 DEF Admit
      <4> QED BY <3>1, <4>1
    <3> QED BY <3>3, <3>4
  <2>4. \A r \in Sessions : r # s => session'[r].by = session[r].by
    BY <1>2
  <2>5. Seats'
    BY <1>0, <1>1, <1>2, <2>1, <2>2 DEF Seats, Enrolled
  <2>6. Tokens'
    <3>1. CASE session'[s].by = pending /\ pending # 0 /\ pending' = 0
      BY <1>0, <1>1, <2>4, <3>1 DEF Tokens
    <3>2. CASE session'[s].by = 0 /\ UNCHANGED pending
      <4>1. \A r \in Sessions : session'[r].by = session[r].by
        BY <1>0, <2>4, <3>2
      <4> QED BY <1>0, <3>2, <4>1 DEF Tokens
    <3> QED BY <2>3, <3>1, <3>2
  <2>7. Swapping'
    <3>1. \A e \in Range(events') : e.op = "admitted" =>
            e.token # 0 /\ \E r \in Sessions : session'[r].by = e.token
      <4>1. \A e \in Range(events) : e.op = "admitted" =>
              e.token # 0 /\ \E r \in Sessions : r # s /\ session'[r].by = e.token
        BY <1>0, <2>4 DEF Swapping
      <4>2. CASE /\ session'[s].by = pending /\ pending # 0
                 /\ Post([op |-> "admitted", token |-> pending])
        <5> DEFINE e == [op |-> "admitted", token |-> pending]
        <5>1. e \in Event /\ e.token = pending /\ Post(e)
          BY <1>0, <4>2 DEF Event, SwapType
        <5> HIDE DEF e
        <5>2. \A f \in Range(events') : f = e \/ f \in Range(events)
          BY <1>0, <5>1, PostType DEF LoopType
        <5> QED BY <4>1, <4>2, <5>1, <5>2
      <4>3. CASE UNCHANGED events
        BY <4>1, <4>3
      <4> QED BY <2>3, <4>2, <4>3
    <3>2. QuitMeansReplaced'
      <4> SUFFICES ASSUME NEW r \in Sessions, "quit" \in session'[r].told
                   PROVE  \E p \in Sessions : session'[p].by # 0 /\ launched'[session'[p].by] = r
        BY DEF QuitMeansReplaced
      <4>1. "quit" \in session[r].told
        BY <1>2, <2>1
      <4>2. PICK p \in Sessions : session[p].by # 0 /\ launched[session[p].by] = r
        BY <1>0, <4>1 DEF Swapping, QuitMeansReplaced
      <4> QED BY <1>0, <2>4, <4>2
    <3> QED BY <1>0, <3>1, <3>2 DEF Swapping
  <2>8. Alone'
    <3> SUFFICES ASSUME ~ was_alive PROVE Unstaying' /\ OneDriver'
      BY <1>0 DEF Alone
    <3>0. Unstaying /\ OneDriver
      BY <1>0 DEF Alone
    <3>1. \A r \in Sessions : ~ session'[r].stay
      <4> SUFFICES ASSUME NEW r \in Sessions PROVE ~ session'[r].stay
        OBVIOUS
      <4>1. CASE r = s
        BY <2>1, <4>1
      <4>2. CASE r # s
        BY <1>2, <3>0, <4>2 DEF Unstaying
      <4> QED BY <4>1, <4>2
    <3>2. ~ stay_alive'
      BY <1>0, <3>0, Zenon DEF Unstaying
    <3>3. Unstaying'
      BY <3>1, <3>2 DEF Unstaying
    <3>4. \A r \in Sessions : r # s /\ Driver(r)' => Driver(r)
      BY <1>2, <2>2 DEF Driver
    <3>5. ASSUME Driver(s)', session'[s].by = 0
          PROVE  \A r \in Sessions : r # s => ~ Driver(r)'
      <4>1. IsDriver(session[s].kind)
        BY <2>1, <3>5 DEF Driver
      <4>2. ~ session[s].stay
        BY <3>0 DEF Unstaying
      <4>3. ~ HasDriver
        BY <1>1, <2>3, <3>5, <4>1, <4>2
      <4>4. \A r \in Sessions : ~ Driver(r)
        BY <1>0, <4>3, RegisteredInRange DEF HasDriver, Driver, RegistryType
      <4> QED BY <3>4, <4>4
    <3>6. OneDriver'
      BY <2>4, <3>0, <3>4, <3>5 DEF OneDriver
    <3> QED BY <3>3, <3>6
  <2>9. Ending'
    BY <1>0, <1>4 DEF Ending
  <2>10. Waking'
    BY <2>2 DEF Waking
  <2> QED BY <2>5, <2>6, <2>7, <2>8, <2>9, <2>10
<1>5. ASSUME NEW token, ~ shutting_down, Connect(s, token)
      PROVE  Connect(s, session'[s].by)
  <2>1. session'[s] = [NoHello EXCEPT !.at = "attached", !.kind = session[s].kind,
                                      !.view = session[s].view, !.by = token]
    BY <1>0, <1>5 DEF Connect, SessionType
  <2>2. session'[s].by = token
    BY <2>1 DEF NoHello
  <2> QED BY <1>5, <2>2
<1> QED BY <1>3, <1>4, <1>5 DEF Admit

\* Every step keeps the invariant.
LEMMA InvStep == IInv /\ [Next]_vars => IInv'
<1> SUFFICES ASSUME IInv, [Next]_vars PROVE IInv'
  OBVIOUS
<1>0. Types /\ Enrolled
  BY DEF IInv, Seats
<1>1. CASE \E s \in Sessions : Hello(s)
  <2>1. Types'
    BY <1>0, <1>1, ClientTypeStep
  <2> QED BY <1>1, <2>1, HelloStep DEF IInv
<1>2. CASE \E s \in Sessions : Admit(s)
  <2>1. Types'
    BY <1>0, <1>2, ClientTypeStep
  <2> QED BY <1>2, <2>1, AdmitStep DEF IInv
<1>3. CASE \E s \in Sessions : SwapPrepared(s) \/ Leave(s) \/ WriterBreaks(s) \/ ToggleStayAlive(s)
  <2>1. Types' /\ Quiet
    BY <1>0, <1>3, ClientTypeStep, ClientIsQuiet
  <2> QED BY <2>1, QuietStep DEF IInv
<1>4. CASE Request \/ StatusBroadcast \/ \E t \in 1..MaxLaunches : ChildFails(t)
  <2>1. Types' /\ Quiet
    BY <1>0, <1>4, RequestTypeStep, RequestIsQuiet
  <2> QED BY <2>1, QuietStep DEF IInv
<1>5. CASE LoopStep
  <2>1. Types' /\ Quiet
    BY <1>0, <1>5, LoopTypeStep, LoopIsQuiet
  <2> QED BY <2>1, QuietStep DEF IInv
<1>6. CASE UNCHANGED vars
  <2>1. Types'
    BY <1>0, <1>6
       DEF vars, registry, settings, swap, bounds, Types, SessionType, RegistryType, SettingsType,
           SwapType, LoopType, Preparing
  <2>2. Quiet
    BY <1>6, SameIsQuiet DEF vars, registry, Quiet
  <2> QED BY <2>1, <2>2, QuietStep DEF IInv
<1> QED BY <1>1, <1>2, <1>3, <1>4, <1>5, <1>6 DEF Next

\* The inductive invariant holds.
LEMMA Inductive == Spec => []IInv
<1> QED BY InvInit, InvStep, PTL DEF Spec

-----------------------------------------------------------------------------
(* The theorems.                                                           *)

\* Every variable has its type, tokens stay within the launches asked for,
\* and nobody is in the registry twice.
THEOREM TypeCorrect == Spec => []TypeOK
<1>1. IInv => TypeOK
  BY TypesAreTypeOK DEF IInv
<1> QED BY <1>1, Inductive, PTL

\* A set whose elements are all equal has at most one.
LEMMA AtMostOne ==
    ASSUME NEW S, \A a, b \in S : a = b
    PROVE  Cardinality(S) <= 1
<1>1. CASE S = {}
  BY <1>1, FS_EmptySet
<1>2. CASE S # {}
  <2>1. PICK a : a \in S
    BY <1>2
  <2>2. S = {a}
    BY <2>1
  <2>3. Cardinality({a}) = 1
    BY FS_Singleton
  <2> QED BY <2>2, <2>3
<1> QED BY <1>1, <1>2

\* With Stay-alive off throughout one client drives the owner, and each
\* launch brings in one replacement at most, for any number of connections.
THEOREM OneOwnerClient == Spec => []ExclusiveOwner
<1>1. IInv => ExclusiveOwner
  <2> SUFFICES ASSUME IInv PROVE ExclusiveOwner
    OBVIOUS
  <2> DEFINE drivers == {s \in Sessions : Registered(s) /\ IsDriver(session[s].kind)}
             replacements(t) == {s \in Sessions : session[s].by = t}
             first == {s \in drivers : session[s].by = 0}
  <2>1. ASSUME ~ was_alive PROVE Cardinality(first) <= 1
    <3>1. \A s \in first : s \in Sessions /\ Driver(s) /\ session[s].by = 0
      BY RegisteredInRange DEF Driver, IInv, Types, RegistryType
    <3>2. OneDriver
      BY <2>1 DEF IInv, Alone
    <3> HIDE DEF first
    <3>3. \A r, s \in first : r = s
      BY <3>1, <3>2 DEF OneDriver
    <3> QED BY <3>3, AtMostOne
  <2>2. ASSUME NEW t \in 1..MaxLaunches PROVE Cardinality(replacements(t)) <= 1
    <3>1. \A r, s \in replacements(t) : r = s
      BY DEF IInv, Tokens
    <3> HIDE DEF replacements
    <3> QED BY <3>1, AtMostOne
  <2> QED BY <2>1, <2>2 DEF ExclusiveOwner
<1> QED BY <1>1, Inductive, PTL

\* A client is told to quit only once the replacement that was launched for
\* it has attached.
THEOREM QuitOnlyWhenReplaced == Spec => []QuitMeansReplaced
<1>1. IInv => QuitMeansReplaced
  BY DEF IInv, Swapping
<1> QED BY <1>1, Inductive, PTL

\* Whoever is registered when the owner ends was told so.
THEOREM AllToldBeforeExit == Spec => []ToldBeforeExit
<1>1. IInv => ToldBeforeExit
  BY RegisteredInRange DEF IInv, Ending, ToldBeforeExit, Types, RegistryType
<1> QED BY <1>1, Inductive, PTL

\* No owner that was never asked to stay sleeps with an emptied registry.
THEOREM NoOwnerForgotten == Spec => []NoForgottenOwner
<1>1. IInv => NoForgottenOwner
  <2> SUFFICES ASSUME IInv, loop = "recv", events = << >>, connection = << >>, held_client
               PROVE  was_alive
    BY DEF NoForgottenOwner
  <2>1. Range(events) = {}
    BY DEF Range
  <2> QED BY <2>1 DEF IInv, Waking
<1> QED BY <1>1, Inductive, PTL
=============================================================================

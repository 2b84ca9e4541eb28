------------------------ MODULE OwnerProcessProofs ------------------------
(***************************************************************************)
(* Proofs about OwnerProcess, for any number of owner processes, clients,  *)
(* edits and faults: one thread at a time writes the state file, the       *)
(* owners together implement DurableQueue, and of several launches that    *)
(* nothing disturbs one attaches.                                          *)
(***************************************************************************)
EXTENDS OwnerProcess, SequenceTheorems, FiniteSetTheorems, TLAPS

Holding == {"locked", "truncated", "recorded"} \cup Masked

\* The lock has the holder its users say it has.
LockHeld ==
    /\ \A p \in Processes : pc[p] \in Holding <=> lock = p
    /\ \A c \in Clients : client[c].at \in {"probing", "q_probing"} => lock = c

\* The first n requests are edits in order, newer than the state file and no
\* newer than the queue.
Ascending(r, n, low, high) ==
    /\ \A i \in 1..n : low < r[i] /\ r[i] <= high
    /\ \A i, j \in 1..n : i < j => r[i] < r[j]

\* What the worker of p still has to do.
Backlog(p) ==
    /\ pc[p] \notin {"serving", "flushing"} => requests[p] = << >>
    /\ pc[p] = "serving" => Ascending(requests[p], Len(requests[p]), disk, queue[p])
    /\ pc[p] = "flushing" =>
        /\ requests[p] # << >> /\ requests[p][Len(requests[p])] = Flush
        /\ Ascending(requests[p], Len(requests[p]) - 1, disk, queue[p])

\* Whoever is about to rename the temporary file wrote what it holds.
Written(p) ==
    /\ p \in writing =>
        /\ pc[p] \in {"serving", "flushing"} /\ requests[p] # << >>
        /\ Head(requests[p]) # Flush /\ tmp = Head(requests[p])
    /\ pc[p] \in {"init_written", "exit_written"} => tmp = queue[p]

\* The queue of p against the state file and the edits made.
Ahead(p) ==
    /\ queue[p] <= edits
    /\ pc[p] \in Masked => disk <= queue[p]
    /\ pc[p] \in {"loaded", "init_written", "ready"} => queue[p] = disk

IInv ==
    /\ TypeOK /\ LockHeld
    /\ disk <= edits
    /\ \A p \in Processes : Backlog(p) /\ Written(p) /\ Ahead(p)

-----------------------------------------------------------------------------
(* The backlog of a worker.                                                *)

\* A newer edit keeps the backlog in order.
LEMMA AppendAscending ==
    ASSUME NEW r \in Seq(0..MaxEdits), NEW new \in 0..MaxEdits,
           NEW low \in Nat, NEW high \in Nat,
           Ascending(r, Len(r), low, high), low < new, high < new
    PROVE  Ascending(Append(r, new), Len(Append(r, new)), low, new)
<1>1. /\ Len(r) \in Nat /\ Len(Append(r, new)) = Len(r) + 1
      /\ \A i \in 1..Len(r) : Append(r, new)[i] = r[i] /\ r[i] \in Nat
      /\ Append(r, new)[Len(r) + 1] = new /\ new \in Nat
  BY BoundsAssumption, AppendProperties, LenProperties, ElementOfSeq
<1> QED
  BY <1>1 DEF Ascending

\* The flush is put behind it.
LEMMA AppendFlush ==
    ASSUME NEW r \in Seq(0..MaxEdits), NEW low \in Nat, NEW high \in Nat,
           Ascending(r, Len(r), low, high)
    PROVE  LET s == Append(r, Flush) IN
           /\ s # << >> /\ s[Len(s)] = Flush
           /\ Ascending(s, Len(s) - 1, low, high)
<1>1. /\ Len(r) \in Nat /\ Len(Append(r, Flush)) = Len(r) + 1
      /\ \A i \in 1..Len(r) : Append(r, Flush)[i] = r[i]
      /\ Append(r, Flush)[Len(r) + 1] = Flush /\ Append(r, Flush) # << >>
  BY BoundsAssumption, AppendProperties, LenProperties DEF Flush
<1> QED
  BY <1>1 DEF Ascending

\* Once its head is handled the rest is newer than the head, too.
LEMMA TailAscending ==
    ASSUME NEW r \in Seq(0..MaxEdits), r # << >>, NEW n \in 1..Len(r),
           NEW low \in Nat, NEW high \in Nat, Ascending(r, n, low, high)
    PROVE  /\ low < Head(r) /\ Head(r) <= high
           /\ Ascending(Tail(r), n - 1, low, high)
           /\ Ascending(Tail(r), n - 1, Head(r), high)
<1>1. /\ Len(r) \in Nat /\ Len(Tail(r)) = Len(r) - 1 /\ Head(r) = r[1]
      /\ \A i \in 1..Len(Tail(r)) : Tail(r)[i] = r[i + 1]
      /\ \A i \in 1..Len(r) : r[i] \in Nat
  BY BoundsAssumption, HeadTailProperties, LenProperties, ElementOfSeq
<1>2. \A i \in 1..(n - 1) : Tail(r)[i] = r[i + 1] /\ i + 1 \in 1..n /\ r[i + 1] \in Nat
  BY <1>1
<1> QED
  BY <1>1, <1>2 DEF Ascending

-----------------------------------------------------------------------------
(* Types.                                                                  *)

\* A client that moves keeps its record.
LEMMA MovesTyped ==
    ASSUME TypeOK, NEW c \in Clients, NEW to \in ClientPlace, NEW p \in Processes \cup {None},
           \/ Moves(c, to)
           \/ client' = [client EXCEPT ![c].at = to, ![c].proc = p]
           \/ client' = [client EXCEPT ![c].at = to, ![c].restart = TRUE]
    PROVE  client' \in [Clients -> [at : ClientPlace, proc : Processes \cup {None},
                                    restart : BOOLEAN]]
<1> DEFINE Typed == [at : ClientPlace, proc : Processes \cup {None}, restart : BOOLEAN]
           r1 == [client[c] EXCEPT !.at = to]
           r2 == [client[c] EXCEPT !.at = to, !.proc = p]
           r3 == [client[c] EXCEPT !.at = to, !.restart = TRUE]
<1>1. client \in [Clients -> Typed] /\ client[c] \in Typed
  BY DEF TypeOK
<1>2. r1 \in Typed /\ r2 \in Typed /\ r3 \in Typed
  BY <1>1
<1>3. \E r \in {r1, r2, r3} : client' = [client EXCEPT ![c] = r]
  BY DEF Moves
<1> HIDE DEF Typed, r1, r2, r3
<1>4. client' \in [Clients -> Typed]
  BY <1>1, <1>2, <1>3
<1> QED
  BY <1>4 DEF Typed

\* Every step of a process or a client keeps the types.
LEMMA TypeStep == IInv /\ [Next]_vars => TypeOK'
<1> SUFFICES ASSUME IInv, [Next]_vars PROVE TypeOK'
  OBVIOUS
<1>0. TypeOK /\ \A p \in Processes : Written(p)
  BY DEF IInv
<1> USE BoundsAssumption, <1>0 DEF TypeOK, life, work, files
<1>1. CASE UNCHANGED vars
  BY <1>1 DEF vars
<1>2. ASSUME NEW p \in Processes, OwnerStep(p) PROVE TypeOK'
  <2>1. requests[p] \in Seq(0..MaxEdits) /\ << >> \in Seq(0..MaxEdits)
    BY EmptySeq
  <2>2. requests[p] # << >> => Request(p) \in 0..MaxEdits /\ Tail(requests[p]) \in Seq(0..MaxEdits)
    BY <2>1, HeadTailProperties DEF Request
  <2>3. \A x \in 0..MaxEdits : Append(requests[p], x) \in Seq(0..MaxEdits)
    BY <2>1, AppendProperties
  <2>4. p \in Processes \cup Clients \cup {None} /\ None \in Processes \cup {None}
    BY <1>2
  <2>5. CASE Resolve(p)
    BY <2>1, <2>4, <2>5 DEF Resolve, Go, Place, Masked
  <2>6. CASE Truncate(p)
    BY <2>1, <2>4, <2>6 DEF Truncate, Go, Place, Masked
  <2>7. CASE WritePid(p)
    BY <2>1, <2>4, <2>7 DEF WritePid, Go, Place, Masked
  <2>8. CASE PidWriteFails(p)
    <3>1. pc' = [pc EXCEPT ![p] = "recorded"]
      BY <2>8 DEF PidWriteFails, Go
    <3> QED
      BY <3>1, <2>8 DEF PidWriteFails, Place, Fault
  <2>9. CASE Load(p)
    BY <2>1, <2>9 DEF Load, Go, Place, Masked
  <2>10. CASE InitWrite(p)
    BY <2>1, <2>10 DEF InitWrite, Go, Place, Masked
  <2>11. CASE InitRename(p)
    BY <2>1, <2>11 DEF InitRename, Go, Place, Masked
  <2>12. CASE InitSaveFails(p)
    BY <2>1, <2>12 DEF InitSaveFails, Go, Place, Masked, Fault
  <2>13. CASE Bind(p)
    BY <2>1, <2>13 DEF Bind, Go, Place, Masked, Fault
  <2>14. CASE Edit(p)
    BY <2>3, <2>14 DEF Edit, Go, Place, Masked
  <2>15. CASE WorkerWrite(p)
    BY <2>1, <2>2, <2>15 DEF WorkerWrite, Go, Place, Masked
  <2>16. CASE WorkerRename(p)
    <3>1. requests[p] # << >>
      BY <2>16 DEF WorkerRename, Written
    <3> QED
      BY <3>1, <2>2, <2>16 DEF WorkerRename, Taken
  <2>17. CASE WorkerSaveFails(p)
    BY <2>1, <2>2, <2>17 DEF WorkerSaveFails, Go, Place, Masked, Fault, Taken
  <2>18. CASE BeginShutdown(p)
    BY <2>3, <2>18 DEF BeginShutdown, Go, Place, Masked, Flush
  <2>19. CASE Flushed(p)
    BY <2>1, <2>2, <2>19 DEF Flushed, Go, Place, Masked, Taken
  <2>20. CASE ExitWrite(p)
    BY <2>1, <2>20 DEF ExitWrite, Go, Place, Masked
  <2>21. CASE Exit(p)
    BY <2>1, <2>4, <2>21 DEF Exit, Go, Place, Masked, Gone, Release
  <2>22. CASE ExitSaveFails(p)
    BY <2>1, <2>4, <2>22 DEF ExitSaveFails, Go, Place, Masked, Fault, Gone, Release
  <2>23. CASE Crash(p)
    BY <2>1, <2>4, <2>23 DEF Crash, Go, Place, Masked, Fault, Gone, Release, Dies, Alive
  <2> QED
    BY <1>2, <2>5, <2>6, <2>7, <2>8, <2>9, <2>10, <2>11, <2>12, <2>13, <2>14, <2>15,
       <2>16, <2>17, <2>18, <2>19, <2>20, <2>21, <2>22, <2>23 DEF OwnerStep
<1>3. ASSUME NEW c \in Clients, ClientStep(c) PROVE TypeOK'
  <2> DEFINE Typed == [Clients -> [at : ClientPlace, proc : Processes \cup {None},
                                   restart : BOOLEAN]]
  <2>1. \A to \in ClientPlace :
          /\ Moves(c, to) => client' \in Typed
          /\ \A p \in Processes \cup {None} :
               client' = [client EXCEPT ![c].at = to, ![c].proc = p] => client' \in Typed
          /\ client' = [client EXCEPT ![c].at = to, ![c].restart = TRUE] => client' \in Typed
    BY <1>3, MovesTyped
  <2>2. << >> \in Seq(0..MaxEdits)
    BY EmptySeq
  <2>3. /\ ClientOnly /\ client' \in Typed /\ faults' \in 0..MaxFaults
        /\ lock' \in {lock, None, c}
        => TypeOK'
    BY <1>3 DEF ClientOnly
  <2> HIDE DEF Typed
  <2>4. CASE Probe(c)
    BY <2>1, <2>3, <2>4 DEF Probe, ClientPlace
  <2>5. CASE DropGuard(c)
    BY <2>1, <2>3, <2>5 DEF DropGuard, ClientPlace
  <2>6. CASE Connects(c)
    BY <2>1, <2>3, <2>6 DEF Connects, ClientPlace
  <2>7. CASE Spawn(c)
    <3>1. PICK p \in Processes : /\ pc' = [pc EXCEPT ![p] = "starting"]
                                 /\ client' = [client EXCEPT ![c].at = "waiting", ![c].proc = p]
      BY <2>7 DEF Spawn, Go
    <3>2. pc' \in [Processes -> Place]
      BY <3>1 DEF Place
    <3>3. client' \in Typed
      BY <2>1, <3>1 DEF ClientPlace
    <3> QED
      BY <2>7, <3>2, <3>3 DEF Spawn, Typed
  <2>8. CASE Ready(c)
    BY <2>1, <2>3, <2>8 DEF Ready, ClientPlace
  <2>9. CASE ChildEnded(c)
    BY <2>1, <2>3, <2>9 DEF ChildEnded, ClientPlace
  <2>10. CASE TimedOut(c)
    <3>1. Moves(c, "failed") /\ Fault /\ ClientOnly /\ UNCHANGED lock
      BY <2>10 DEF TimedOut
    <3>2. faults' \in 0..MaxFaults
      BY <3>1 DEF Fault
    <3> QED
      BY <2>1, <2>3, <3>1, <3>2 DEF ClientPlace
  <2>11. CASE Attach(c)
    <3>1. client' \in Typed
      BY <2>1, <2>11 DEF Attach, ClientPlace
    <3> QED
      BY <2>3, <3>1, <2>11 DEF Attach
  <2>12. CASE AsksToQuit(c)
    BY <2>1, <2>3, <2>12 DEF AsksToQuit, ClientPlace
  <2>13. CASE ProbePid(c)
    BY <2>1, <2>3, <2>13 DEF ProbePid, ClientPlace
  <2>14. CASE ReadPid(c)
    BY <2>1, <2>3, <2>14 DEF ReadPid, ClientPlace
  <2>15. CASE NoOwner(c)
    BY <2>1, <2>3, <2>15 DEF NoOwner, ClientPlace
  <2>16. CASE Kill(c)
    <3>1. client' \in Typed
      BY <2>1, <2>16 DEF Kill, ClientPlace
    <3>2. faults' = faults
      BY <2>16 DEF Kill
    <3>3. CASE UNCHANGED <<life, lock, record, work>>
      BY <3>1, <3>2, <3>3 DEF Typed
    <3>4. CASE Dies(client[c].proc)
      BY <2>2, <3>1, <3>2, <3>4 DEF Dies, Gone, Release, Place, Typed
    <3> QED
      BY <2>16, <3>3, <3>4 DEF Kill
  <2> QED
    BY <1>3, <2>4, <2>5, <2>6, <2>7, <2>8, <2>9, <2>10, <2>11, <2>12, <2>13, <2>14,
       <2>15, <2>16 DEF ClientStep
<1> QED
  BY <1>1, <1>2, <1>3 DEF Next

-----------------------------------------------------------------------------
(* The lock.                                                               *)

\* Only one process is between taking the lock and its end.
LEMMA Alone ==
    ASSUME LockHeld, NEW p \in Processes, NEW q \in Processes,
           pc[p] \in Holding, pc[q] \in Holding
    PROVE  p = q
  BY DEF LockHeld

\* Every step leaves the lock to the one process between taking it and its
\* end.
LEMMA LockStep == IInv /\ [Next]_vars => LockHeld'
<1> SUFFICES ASSUME IInv, [Next]_vars PROVE LockHeld'
  OBVIOUS
<1>0. TypeOK /\ LockHeld
  BY DEF IInv
<1> USE NamesAssumption, <1>0 DEF LockHeld, Holding, Masked, life
<1>1. CASE UNCHANGED vars
  BY <1>1 DEF vars
<1>2. ASSUME NEW p \in Processes, OwnerStep(p) PROVE LockHeld'
  <2>1. pc \in [Processes -> Place]
    BY DEF TypeOK
  <2>2. CASE Resolve(p)
    BY <2>1, <2>2 DEF Resolve, Go
  <2>3. CASE Truncate(p)
    BY <2>1, <2>3 DEF Truncate, Go
  <2>4. CASE WritePid(p)
    BY <2>1, <2>4 DEF WritePid, Go
  <2>5. CASE PidWriteFails(p)
    BY <2>1, <2>5 DEF PidWriteFails, Go
  <2>6. CASE Load(p)
    BY <2>1, <2>6 DEF Load, Go
  <2>7. CASE InitWrite(p)
    BY <2>1, <2>7 DEF InitWrite, Go
  <2>8. CASE InitRename(p)
    BY <2>1, <2>8 DEF InitRename, Go
  <2>9. CASE InitSaveFails(p)
    BY <2>1, <2>9 DEF InitSaveFails, Go
  <2>10. CASE Bind(p)
    BY <2>1, <2>10 DEF Bind, Go
  <2>11. CASE Edit(p)
    BY <2>1, <2>11 DEF Edit
  <2>12. CASE WorkerWrite(p)
    BY <2>1, <2>12 DEF WorkerWrite
  <2>13. CASE WorkerRename(p)
    BY <2>1, <2>13 DEF WorkerRename
  <2>14. CASE WorkerSaveFails(p)
    BY <2>1, <2>14 DEF WorkerSaveFails
  <2>15. CASE BeginShutdown(p)
    BY <2>1, <2>15 DEF BeginShutdown, Go
  <2>16. CASE Flushed(p)
    BY <2>1, <2>16 DEF Flushed, Go
  <2>17. CASE ExitWrite(p)
    BY <2>1, <2>17 DEF ExitWrite, Go
  <2>18. CASE Exit(p)
    BY <2>1, <2>18 DEF Exit, Go, Gone, Release
  <2>19. CASE ExitSaveFails(p)
    BY <2>1, <2>19 DEF ExitSaveFails, Go, Gone, Release
  <2>20. CASE Crash(p)
    BY <2>1, <2>20 DEF Crash, Dies, Alive, Gone, Release, Place
  <2> QED
    BY <1>2, <2>2, <2>3, <2>4, <2>5, <2>6, <2>7, <2>8, <2>9, <2>10, <2>11, <2>12,
       <2>13, <2>14, <2>15, <2>16, <2>17, <2>18, <2>19, <2>20 DEF OwnerStep
<1>3. ASSUME NEW c \in Clients, ClientStep(c) PROVE LockHeld'
  <2>1. /\ pc \in [Processes -> Place]
        /\ client \in [Clients -> [at : ClientPlace, proc : Processes \cup {None},
                                  restart : BOOLEAN]]
    BY DEF TypeOK
  <2>2. \A to \in ClientPlace :
          Moves(c, to) => /\ client'[c].at = to
                          /\ \A d \in Clients : d # c => client'[d] = client[d]
    BY <1>3, <2>1 DEF Moves
  <2>3. ASSUME NEW to \in ClientPlace \ {"probing", "q_probing"}, client'[c].at = to,
               \A d \in Clients : d # c => client'[d] = client[d],
               UNCHANGED <<pc, lock>>
        PROVE  LockHeld'
    BY <2>3
  <2>4. CASE Probe(c)
    BY <1>3, <2>1, <2>2, <2>4 DEF Probe, ClientOnly, ClientPlace, At
  <2>5. CASE DropGuard(c)
    BY <1>3, <2>1, <2>2, <2>5 DEF DropGuard, ClientOnly, ClientPlace, At
  <2>6. CASE Connects(c)
    BY <2>2, <2>3, <2>6 DEF Connects, ClientOnly, ClientPlace
  <2>7. CASE Spawn(c)
    <3>1. PICK p \in Processes : /\ pc[p] = "off" /\ pc' = [pc EXCEPT ![p] = "starting"]
                                 /\ client' = [client EXCEPT ![c].at = "waiting", ![c].proc = p]
      BY <2>7 DEF Spawn, Go
    <3>2. client'[c].at = "waiting" /\ \A d \in Clients : d # c => client'[d] = client[d]
      BY <1>3, <2>1, <3>1
    <3> QED
      BY <2>1, <2>7, <3>1, <3>2 DEF Spawn
  <2>8. CASE Ready(c)
    BY <2>2, <2>3, <2>8 DEF Ready, ClientOnly, ClientPlace
  <2>9. CASE ChildEnded(c)
    BY <2>2, <2>3, <2>9 DEF ChildEnded, ClientOnly, ClientPlace
  <2>10. CASE TimedOut(c)
    BY <2>2, <2>3, <2>10 DEF TimedOut, ClientOnly, ClientPlace
  <2>11. CASE Attach(c)
    <3>1. client'[c].at \in {"failed", "attached", "waitexit", "q_probe"}
      BY <1>3, <2>1, <2>2, <2>11 DEF Attach, ClientPlace
    <3>2. \A d \in Clients : d # c => client'[d] = client[d]
      BY <1>3, <2>1, <2>2, <2>11 DEF Attach, ClientPlace
    <3> QED
      BY <2>3, <2>11, <3>1, <3>2 DEF Attach, ClientOnly, ClientPlace
  <2>12. CASE AsksToQuit(c)
    BY <2>2, <2>3, <2>12 DEF AsksToQuit, ClientOnly, ClientPlace
  <2>13. CASE ProbePid(c)
    BY <1>3, <2>1, <2>2, <2>13 DEF ProbePid, ClientOnly, ClientPlace, At
  <2>14. CASE ReadPid(c)
    <3>1. \/ client'[c].at = "failed"
          \/ client'[c].at = "kill"
      BY <1>3, <2>1, <2>2, <2>14 DEF ReadPid, ClientPlace
    <3>2. \A d \in Clients : d # c => client'[d] = client[d]
      BY <1>3, <2>1, <2>2, <2>14 DEF ReadPid, ClientPlace
    <3> QED
      BY <2>3, <2>14, <3>1, <3>2 DEF ReadPid, ClientOnly, ClientPlace
  <2>15. CASE NoOwner(c)
    BY <1>3, <2>1, <2>2, <2>15 DEF NoOwner, ClientOnly, ClientPlace, At
  <2>16. CASE Kill(c)
    <3>1. PICK to \in ClientPlace \ {"probing", "q_probing"} : Moves(c, to)
      BY <2>16 DEF Kill, ClientPlace
    <3>2. CASE UNCHANGED <<life, lock, record, work>>
      BY <2>2, <2>3, <3>1, <3>2
    <3>3. CASE Alive(client[c].proc) /\ Dies(client[c].proc)
      <4>1. client[c].proc \in Processes \cup {None}
        BY <1>3, <2>1
      <4> DEFINE p == client[c].proc
      <4>2. \A q \in Processes : pc'[q] = IF q = p THEN "crashed" ELSE pc[q]
        BY <2>1, <3>3 DEF Dies
      <4>3. lock' = IF lock = p THEN None ELSE lock
        BY <3>3 DEF Dies, Gone, Release
      <4> HIDE DEF p
      <4> QED
        BY <1>3, <2>2, <3>1, <4>1, <4>2, <4>3 DEF p
    <3> QED
      BY <2>16, <3>2, <3>3 DEF Kill
  <2> QED
    BY <1>3, <2>4, <2>5, <2>6, <2>7, <2>8, <2>9, <2>10, <2>11, <2>12, <2>13, <2>14,
       <2>15, <2>16 DEF ClientStep
<1> QED
  BY <1>1, <1>2, <1>3 DEF Next

-----------------------------------------------------------------------------
(* The queue, its backlog and the files.                                   *)

\* What the worker of p leaves when it has handled an edit.
LEMMA WorkerDone ==
    ASSUME IInv, NEW p \in Processes, requests[p] # << >>, Head(requests[p]) # Flush
    PROVE  LET r == Tail(requests[p])
               n == IF pc[p] = "serving" THEN Len(r) ELSE Len(r) - 1 IN
           /\ pc[p] \in {"serving", "flushing"}
           /\ disk < Head(requests[p]) /\ Head(requests[p]) <= queue[p]
           /\ pc[p] = "flushing" => r # << >> /\ r[Len(r)] = Flush
           /\ Ascending(r, n, disk, queue[p]) /\ Ascending(r, n, Head(requests[p]), queue[p])
<1> DEFINE s == requests[p]
           r == Tail(s)
           m == IF pc[p] = "serving" THEN Len(s) ELSE Len(s) - 1
<1>1. /\ s \in Seq(0..MaxEdits) /\ s # << >> /\ queue[p] \in Nat /\ disk \in Nat
      /\ Backlog(p)
  BY BoundsAssumption DEF IInv, TypeOK
<1>2. pc[p] \in {"serving", "flushing"} /\ Ascending(s, m, disk, queue[p])
  BY <1>1 DEF Backlog
<1>3. /\ Len(s) \in Nat \ {0} /\ Len(r) = Len(s) - 1 /\ Head(s) = s[1]
      /\ \A i \in 1..Len(r) : r[i] = s[i + 1]
      /\ r \in Seq(0..MaxEdits)
  <2>1. Len(s) \in Nat \ {0}
    BY <1>1, EmptySeq
  <2> HIDE DEF s
  <2> QED
    BY <1>1, <2>1, HeadTailProperties
<1>4. pc[p] = "flushing" => s[Len(s)] = Flush /\ Len(s) # 1
  BY <1>1, <1>3 DEF Backlog
<1>5. m \in 1..Len(s)
  BY <1>2, <1>3, <1>4
<1>6. /\ disk < Head(s) /\ Head(s) <= queue[p]
      /\ Ascending(r, m - 1, disk, queue[p]) /\ Ascending(r, m - 1, Head(s), queue[p])
  <2> HIDE DEF m, s, r
  <2> QED
    BY <1>1, <1>2, <1>5, TailAscending DEF r
<1>7. pc[p] = "flushing" => r # << >> /\ r[Len(r)] = Flush
  <2>1. pc[p] = "flushing" => Len(r) \in 1..Len(r) /\ r[Len(r)] = s[Len(s)] /\ Len(r) # 0
    BY <1>3, <1>4
  <2> QED
    BY <2>1, <1>4, EmptySeq
<1> QED
  BY <1>2, <1>3, <1>6, <1>7

\* A process that does not act keeps its part of the invariant: a change of
\* the files is another owner's, and then it is no owner itself.
LEMMA Others ==
    ASSUME IInv, NEW p \in Processes, NEW q \in Processes, q # p,
           pc'[q] = pc[q], queue'[q] = queue[q], requests'[q] = requests[q],
           q \in writing' <=> q \in writing, edits' \in Nat, edits <= edits',
           pc[p] \in Holding \/ UNCHANGED files
    PROVE  Backlog(q)' /\ Written(q)' /\ Ahead(q)'
<1>1. /\ LockHeld /\ edits \in Nat /\ queue[q] \in Nat
      /\ Backlog(q) /\ Written(q) /\ Ahead(q)
  BY BoundsAssumption DEF IInv, TypeOK
<1>2. CASE UNCHANGED files
  BY <1>1, <1>2 DEF files, Backlog, Written, Ahead
<1>3. CASE pc[p] \in Holding
  <2>1. pc[q] \notin Holding
    BY <1>1, <1>3, Alone
  <2> QED
    BY <1>1, <2>1 DEF Holding, Masked, Backlog, Written, Ahead
<1> QED
  BY <1>2, <1>3

\* Whoever acts, every other process keeps its part of the invariant.
LEMMA OthersKept ==
    ASSUME IInv, NEW p \in Processes, OwnerStep(p), NEW q \in Processes, q # p
    PROVE  Backlog(q)' /\ Written(q)' /\ Ahead(q)'
<1>1. /\ pc \in [Processes -> Place] /\ queue \in [Processes -> 0..MaxEdits]
      /\ requests \in [Processes -> Seq(0..MaxEdits)] /\ edits \in Nat
  BY BoundsAssumption DEF IInv, TypeOK
<1>2. /\ pc'[q] = pc[q] /\ queue'[q] = queue[q] /\ requests'[q] = requests[q]
      /\ q \in writing' <=> q \in writing
      /\ edits' \in Nat /\ edits <= edits'
      /\ pc[p] \in Holding \/ UNCHANGED files
  <2>1. CASE Resolve(p)
    BY <1>1, <2>1 DEF Resolve, Go, life, work, Holding, Masked
  <2>2. CASE Truncate(p)
    BY <1>1, <2>2 DEF Truncate, Go, life, work, Holding, Masked
  <2>3. CASE WritePid(p)
    BY <1>1, <2>3 DEF WritePid, Go, life, work, Holding, Masked
  <2>4. CASE PidWriteFails(p)
    BY <1>1, <2>4 DEF PidWriteFails, Go, life, work, Holding, Masked
  <2>5. CASE Load(p)
    BY <1>1, <2>5 DEF Load, Go, life, work, Holding, Masked
  <2>6. CASE InitWrite(p)
    BY <1>1, <2>6 DEF InitWrite, Go, life, work, Holding, Masked
  <2>7. CASE InitRename(p)
    BY <1>1, <2>7 DEF InitRename, Go, life, work, Holding, Masked
  <2>8. CASE InitSaveFails(p)
    BY <1>1, <2>8 DEF InitSaveFails, Go, life, work, Holding, Masked
  <2>9. CASE Bind(p)
    BY <1>1, <2>9 DEF Bind, Go, life, work, Holding, Masked
  <2>10. CASE Edit(p)
    BY <1>1, <2>10 DEF Edit, Go, life, work, Holding, Masked
  <2>11. CASE WorkerWrite(p)
    BY <1>1, <2>11 DEF WorkerWrite, Go, life, work, Holding, Masked, HasWorker, Taken
  <2>12. CASE WorkerRename(p)
    BY <1>1, <2>12 DEF WorkerRename, Go, life, work, Holding, Masked, HasWorker, Taken
  <2>13. CASE WorkerSaveFails(p)
    BY <1>1, <2>13 DEF WorkerSaveFails, Go, life, work, Holding, Masked, HasWorker, Taken
  <2>14. CASE BeginShutdown(p)
    BY <1>1, <2>14 DEF BeginShutdown, Go, life, work, Holding, Masked
  <2>15. CASE Flushed(p)
    BY <1>1, <2>15 DEF Flushed, Go, life, work, Holding, Masked, Taken
  <2>16. CASE ExitWrite(p)
    BY <1>1, <2>16 DEF ExitWrite, Go, life, work, Holding, Masked
  <2>17. CASE Exit(p)
    BY <1>1, <2>17 DEF Exit, Go, life, work, Holding, Masked, Gone
  <2>18. CASE ExitSaveFails(p)
    BY <1>1, <2>18 DEF ExitSaveFails, Go, life, work, Holding, Masked, Gone
  <2>19. CASE Crash(p)
    BY <1>1, <2>19 DEF Crash, Go, life, work, Holding, Masked, Gone, Dies
  <2> QED
    BY <2>1, <2>2, <2>3, <2>4, <2>5, <2>6, <2>7, <2>8, <2>9, <2>10, <2>11, <2>12,
       <2>13, <2>14, <2>15, <2>16, <2>17, <2>18, <2>19 DEF OwnerStep
<1> QED
  BY <1>2, Others

\* The process that acts keeps its own part of the invariant.
LEMMA OwnKept ==
    ASSUME IInv, NEW p \in Processes, OwnerStep(p)
    PROVE  Backlog(p)' /\ Written(p)' /\ Ahead(p)' /\ (disk <= edits)'
<1> DEFINE r == requests[p]
<1>1. /\ pc \in [Processes -> Place] /\ queue \in [Processes -> 0..MaxEdits]
      /\ requests \in [Processes -> Seq(0..MaxEdits)] /\ r \in Seq(0..MaxEdits)
      /\ edits \in 0..MaxEdits /\ disk \in 0..MaxEdits /\ tmp \in 0..MaxEdits
      /\ queue[p] \in 0..MaxEdits /\ MaxEdits \in Nat
      /\ disk <= edits /\ Backlog(p) /\ Written(p) /\ Ahead(p)
  BY BoundsAssumption DEF IInv, TypeOK
<1>2. Len(<< >>) = 0
  OBVIOUS
<1>3. CASE Resolve(p)
  BY <1>1, <1>3 DEF Resolve, Masked, Go, work, files, Backlog, Written, Ahead
<1>4. CASE Truncate(p)
  BY <1>1, <1>4 DEF Truncate, Masked, Go, work, files, Backlog, Written, Ahead
<1>5. CASE WritePid(p)
  BY <1>1, <1>5 DEF WritePid, Masked, Go, work, files, Backlog, Written, Ahead
<1>6. CASE PidWriteFails(p)
  <2>1. pc[p] \in {"locked", "truncated"} /\ pc' = [pc EXCEPT ![p] = "recorded"]
    BY <1>6 DEF PidWriteFails, Go
  <2> QED
    BY <1>1, <1>6, <2>1 DEF PidWriteFails, work, files, Masked, Backlog, Written, Ahead
<1>7. CASE Load(p)
  BY <1>1, <1>7 DEF Load, Masked, Go, work, files, Backlog, Written, Ahead
<1>8. CASE InitWrite(p)
  BY <1>1, <1>8 DEF InitWrite, Masked, Go, work, files, Backlog, Written, Ahead
<1>9. CASE InitRename(p)
  BY <1>1, <1>9 DEF InitRename, Masked, Go, work, files, Backlog, Written, Ahead
<1>10. CASE InitSaveFails(p)
  BY <1>1, <1>2, <1>10 DEF InitSaveFails, Masked, Go, work, files, Ascending,
     Backlog, Written, Ahead
<1>11. CASE Bind(p)
  BY <1>1, <1>2, <1>11 DEF Bind, Masked, Go, work, files, Ascending, Backlog, Written, Ahead
<1>12. CASE Edit(p)
  <2> DEFINE new == edits + 1
  <2>1. /\ pc[p] = "serving" /\ pc'[p] = "serving" /\ edits' = new /\ queue'[p] = new
        /\ requests'[p] = Append(r, new) /\ UNCHANGED <<writing, tmp, disk>>
        /\ new \in 0..MaxEdits /\ disk < new /\ queue[p] < new
    BY <1>1, <1>12 DEF Edit, files, Ahead
  <2>2. Ascending(requests'[p], Len(requests'[p]), disk, new)
    BY <1>1, <2>1, AppendAscending DEF Backlog
  <2>3. r # << >> => requests'[p] # << >> /\ Head(requests'[p]) = Head(r)
    BY <1>1, <2>1, HeadTailAppend, AppendProperties
  <2> HIDE DEF new, r
  <2> QED
    BY <1>1, <2>1, <2>2, <2>3 DEF r, Masked, Backlog, Written, Ahead
<1>13. CASE WorkerWrite(p)
  BY <1>1, <1>13 DEF WorkerWrite, HasWorker, Request, life, Masked, Backlog, Written, Ahead
<1>14. CASE WorkerRename(p)
  <2>1. /\ r # << >> /\ Head(r) # Flush /\ UNCHANGED <<pc, queue, edits>>
        /\ requests'[p] = Tail(r) /\ p \notin writing'
        /\ disk' = Head(r)
    BY <1>1, <1>14 DEF WorkerRename, Taken, Written, life
  <2>2. LET s == Tail(r)
             n == IF pc[p] = "serving" THEN Len(s) ELSE Len(s) - 1 IN
         /\ pc[p] \in {"serving", "flushing"} /\ disk < Head(r) /\ Head(r) <= queue[p]
         /\ pc[p] = "flushing" => s # << >> /\ s[Len(s)] = Flush
         /\ Ascending(s, n, disk', queue[p])
    BY <2>1, WorkerDone
  <2>3. Head(r) \in Nat
    BY <1>1, <2>1, HeadTailProperties
  <2> HIDE DEF r
  <2>4. Backlog(p)'
    BY <2>1, <2>2 DEF Backlog
  <2>5. Written(p)'
    BY <2>1, <2>2 DEF Written
  <2>6. Ahead(p)' /\ (disk <= edits)'
    BY <1>1, <2>1, <2>2, <2>3 DEF Ahead
  <2> QED
    BY <2>4, <2>5, <2>6
<1>15. CASE WorkerSaveFails(p)
  <2>1. /\ r # << >> /\ Head(r) # Flush /\ UNCHANGED <<pc, queue, edits>>
        /\ requests'[p] = Tail(r) /\ p \notin writing'
        /\ disk' = disk
    BY <1>1, <1>15 DEF WorkerSaveFails, Taken, Request, life, files
  <2>2. LET s == Tail(r)
             n == IF pc[p] = "serving" THEN Len(s) ELSE Len(s) - 1 IN
         /\ pc[p] \in {"serving", "flushing"} /\ disk < Head(r) /\ Head(r) <= queue[p]
         /\ pc[p] = "flushing" => s # << >> /\ s[Len(s)] = Flush
         /\ Ascending(s, n, disk', queue[p])
    BY <2>1, WorkerDone
  <2>3. Head(r) \in Nat
    BY <1>1, <2>1, HeadTailProperties
  <2> HIDE DEF r
  <2>4. Backlog(p)'
    BY <2>1, <2>2 DEF Backlog
  <2>5. Written(p)'
    BY <2>1, <2>2 DEF Written
  <2>6. Ahead(p)' /\ (disk <= edits)'
    BY <1>1, <2>1, <2>2, <2>3 DEF Ahead
  <2> QED
    BY <2>4, <2>5, <2>6
<1>16. CASE BeginShutdown(p)
  <2>1. /\ pc[p] = "serving" /\ pc'[p] = "flushing" /\ requests'[p] = Append(r, Flush)
        /\ UNCHANGED <<queue, edits, writing, tmp, disk>>
    BY <1>1, <1>16 DEF BeginShutdown, Go, files
  <2>2. LET s == requests'[p] IN
        s # << >> /\ s[Len(s)] = Flush /\ Ascending(s, Len(s) - 1, disk, queue[p])
    BY <1>1, <2>1, AppendFlush DEF Backlog
  <2>3. r # << >> => Head(requests'[p]) = Head(r)
    BY <1>1, <2>1, HeadTailAppend
  <2> HIDE DEF r
  <2> QED
    BY <1>1, <2>1, <2>2, <2>3 DEF r, Masked, Backlog, Written, Ahead
<1>17. CASE Flushed(p)
  <2>1. /\ pc[p] = "flushing" /\ pc'[p] = "flushed" /\ requests'[p] = Tail(r)
        /\ r # << >> /\ Head(r) = Flush /\ p \notin writing
        /\ UNCHANGED <<queue, edits, writing, tmp, disk>>
    BY <1>1, <1>17 DEF Flushed, Go, Taken, Request, files
  <2>2. Len(r) \in Nat \ {0} /\ Head(r) = r[1] /\ Tail(r) \in Seq(0..MaxEdits)
        /\ Len(Tail(r)) = Len(r) - 1
    <3>1. Len(r) \in Nat \ {0}
      BY <1>1, <2>1, EmptySeq
    <3> HIDE DEF r
    <3> QED
      BY <1>1, <2>1, <3>1, HeadTailProperties
  <2>3. Len(r) = 1
    BY <1>1, <2>1, <2>2 DEF Backlog, Ascending, Flush
  <2> HIDE DEF r
  <2>4. Tail(r) = << >>
    <3>1. Len(Tail(r)) = 0
      BY <2>2, <2>3
    <3> QED
      BY <2>2, <3>1, EmptySeq
  <2> QED
    BY <1>1, <2>1, <2>4 DEF Masked, Backlog, Written, Ahead
<1>18. CASE ExitWrite(p)
  BY <1>1, <1>18 DEF ExitWrite, Masked, Go, work, files, Backlog, Written, Ahead
<1>19. CASE Exit(p)
  BY <1>1, <1>19 DEF Exit, Masked, Go, work, files, Gone, Backlog, Written, Ahead
<1>20. CASE ExitSaveFails(p)
  BY <1>1, <1>20 DEF ExitSaveFails, Masked, Go, work, files, Gone, Backlog, Written, Ahead
<1>21. CASE Crash(p)
  BY <1>1, <1>21 DEF Crash, Masked, Go, work, files, Gone, Dies, Backlog, Written, Ahead
<1> QED
  BY <1>3, <1>4, <1>5, <1>6, <1>7, <1>8, <1>9, <1>10, <1>11, <1>12, <1>13, <1>14,
     <1>15, <1>16, <1>17, <1>18, <1>19, <1>20, <1>21 DEF OwnerStep

\* A client only starts a process, or ends one that has not loaded its queue.
LEMMA ClientKeeps ==
    ASSUME IInv, NEW c \in Clients, ClientStep(c)
    PROVE  \/ UNCHANGED <<life, work>>
           \/ \E p \in Processes :
                /\ pc[p] \notin Masked
                /\ pc' \in {[pc EXCEPT ![p] = "starting"], [pc EXCEPT ![p] = "crashed"]}
                /\ requests' \in {requests, [requests EXCEPT ![p] = << >>]}
                /\ writing' \in {writing, writing \ {p}}
                /\ UNCHANGED <<queue, edits, ended, files>>
<1>1. CASE Spawn(c)
  BY <1>1 DEF Spawn, Go, Masked, work
<1>2. CASE Kill(c)
  <2>1. CASE UNCHANGED <<life, lock, record, work>>
    BY <2>1
  <2>2. CASE /\ pc[client[c].proc] \notin Masked /\ Dies(client[c].proc)
    <3> DEFINE p == client[c].proc
    <3>1. p \in Processes \cup {None}
      BY DEF IInv, TypeOK
    <3>2. /\ pc' = [pc EXCEPT ![p] = "crashed"] /\ pc[p] \notin Masked
          /\ requests' = [requests EXCEPT ![p] = << >>] /\ writing' = writing \ {p}
          /\ bound' = bound \ {p} /\ UNCHANGED <<queue, edits, ended, files>>
      BY <2>2 DEF Dies, Gone
    <3>3. CASE p \in Processes
      <4> HIDE DEF p
      <4> QED
        BY <3>2, <3>3
    <3>4. CASE p = None
      <4>1. p \notin Processes
        BY <3>4, NamesAssumption
      <4>2. /\ pc \in [Processes -> Place] /\ requests \in [Processes -> Seq(0..MaxEdits)]
            /\ bound \subseteq Processes /\ writing \subseteq Processes
        BY DEF IInv, TypeOK
      <4> HIDE DEF p
      <4>3. UNCHANGED <<pc, requests, bound, writing>>
        BY <3>2, <4>1, <4>2
      <4> QED
        BY <3>2, <4>3 DEF life, work
    <3> QED
      BY <3>1, <3>3, <3>4
  <2> QED
    BY <1>2, <2>1, <2>2 DEF Kill
<1> QED
  BY <1>1, <1>2 DEF ClientStep, Probe, DropGuard, Connects, Ready, ChildEnded,
     TimedOut, Attach,
                    AsksToQuit, ProbePid, ReadPid, NoOwner, ClientOnly

\* The inductive invariant holds in every state of the specification.
LEMMA Invariance == Spec => []IInv
<1>1. Init => IInv
  <2> SUFFICES ASSUME Init PROVE IInv
    OBVIOUS
  <2>1. << >> \in Seq(0..MaxEdits)
    BY EmptySeq
  <2>2. TypeOK
    <3>1. client \in [Clients -> [at : ClientPlace, proc : Processes \cup {None},
                                 restart : BOOLEAN]]
      BY DEF Init, ClientPlace
    <3> QED
      BY <2>1, <3>1, BoundsAssumption DEF Init, TypeOK, Place
  <2>3. LockHeld
    BY NamesAssumption DEF Init, LockHeld, Holding, Masked
  <2> QED
    BY <2>2, <2>3 DEF Init, IInv, Backlog, Written, Ahead, Masked
<1>2. IInv /\ [Next]_vars => IInv'
  <2> SUFFICES ASSUME IInv, [Next]_vars PROVE IInv'
    OBVIOUS
  <2>1. TypeOK' /\ LockHeld'
    BY TypeStep, LockStep
  <2> DEFINE Kept == /\ (disk <= edits)'
                     /\ \A q \in Processes : Backlog(q)' /\ Written(q)' /\ Ahead(q)'
  <2>2. Kept
    <3>1. ASSUME UNCHANGED <<life, work>> PROVE Kept
      BY <3>1 DEF IInv, Backlog, Written, Ahead, life, work, files
    <3>2. ASSUME NEW p \in Processes, OwnerStep(p) PROVE Kept
      BY <3>2, OwnKept, OthersKept
    <3>3. ASSUME NEW c \in Clients, ClientStep(c) PROVE Kept
      <4>1. CASE UNCHANGED <<life, work>>
        BY <3>1, <4>1
      <4>2. ASSUME NEW p \in Processes, pc[p] \notin Masked,
                   pc' \in {[pc EXCEPT ![p] = "starting"], [pc EXCEPT ![p] = "crashed"]},
                   requests' \in {requests, [requests EXCEPT ![p] = << >>]},
                   writing' \in {writing, writing \ {p}},
                   UNCHANGED <<queue, edits, ended, files>>
            PROVE  Kept
        <5>1. /\ pc \in [Processes -> Place] /\ requests \in [Processes -> Seq(0..MaxEdits)]
              /\ edits \in Nat /\ disk <= edits
          BY BoundsAssumption DEF IInv, TypeOK
        <5>2. ASSUME NEW q \in Processes, q # p PROVE Backlog(q)' /\ Written(q)' /\ Ahead(q)'
          BY <4>2, <5>1, <5>2, Others
        <5>3. Backlog(p) /\ Written(p) /\ Ahead(p)
          BY DEF IInv
        <5>4. Backlog(p)' /\ Written(p)' /\ Ahead(p)'
          <6>1. requests[p] = << >> /\ p \notin writing
            BY <4>2, <5>3 DEF Backlog, Written, Masked
          <6>2. pc'[p] \in {"starting", "crashed"} /\ requests'[p] = << >> /\ p \notin writing'
            BY <4>2, <5>1, <6>1
          <6> QED
            BY <4>2, <5>3, <6>2 DEF Backlog, Written, Ahead, Masked
        <5> QED
          BY <4>2, <5>1, <5>2, <5>4 DEF files
      <4> QED
        BY <3>3, <4>1, <4>2, ClientKeeps
    <3> QED
      BY <3>1, <3>2, <3>3 DEF Next, vars
  <2> QED
    BY <2>1, <2>2 DEF IInv
<1> QED
  BY <1>1, <1>2, PTL DEF Spec

-----------------------------------------------------------------------------
(* Results.                                                                *)

\* Every variable has its type, for every number of processes and clients:
\* what is saved and loaded is a queue some edit made.
THEOREM TypeCorrect == Spec => []TypeOK
<1>1. IInv => TypeOK
  BY DEF IInv
<1> QED
  BY <1>1, Invariance, PTL

\* No two threads are between writing the temporary file and renaming it
\* (save_json_atomic), whatever crashes and restarts come between.
THEOREM OneWriterHolds == Spec => []OneWriter
<1>1. IInv => OneWriter
  <2> SUFFICES ASSUME IInv PROVE OneWriter
    OBVIOUS
  <2> DEFINE W == {<<p, "worker">> : p \in writing}
                  \cup {<<p, "loop">> : p \in {q \in Processes : pc[q] \in {"init_written", "exit_written"}}}
  <2>1. writing \subseteq Processes /\ LockHeld /\ \A p \in Processes : Written(p)
    BY DEF IInv, TypeOK
  <2>2. ASSUME NEW a \in W, NEW b \in W PROVE a = b
    <3>1. /\ \A p \in writing : p \in Processes /\ pc[p] \in Holding
                               /\ pc[p] \notin {"init_written", "exit_written"}
          /\ \A p \in Processes : pc[p] \in {"init_written", "exit_written"} => pc[p] \in Holding
      BY <2>1 DEF Written, Holding, Masked
    <3> QED
      BY <2>1, <3>1, Alone
  <2>3. W = {} \/ \E a : W = {a}
    <3> HIDE DEF W
    <3> QED
      BY <2>2
  <2>4. Cardinality(W) <= 1
    <3> HIDE DEF W
    <3>1. CASE W = {}
      BY <3>1, FS_EmptySet
    <3>2. ASSUME NEW a, W = {a} PROVE Cardinality(W) <= 1
      <4>1. Cardinality({a}) = 1
        BY FS_Singleton
      <4> QED
        BY <3>2, <4>1
    <3> QED
      BY <2>3, <3>1, <3>2
  <2> QED
    BY <2>4 DEF OneWriter
<1> QED
  BY <1>1, Invariance, PTL

-----------------------------------------------------------------------------
(* The refinement of DurableQueue.                                         *)

Status == IF Owners # {} THEN "up" ELSE ended
Live == IF Owners # {} THEN queue[CHOOSE p \in Owners : TRUE] ELSE disk

\* With one owner up, its queue is the queue; without one, the state file is.
LEMMA MappedUp ==
    ASSUME IInv, NEW p \in Processes, pc[p] \in Masked
    PROVE  Status = "up" /\ Live = queue[p]
<1>1. \A q \in Processes : pc[q] \in Masked => q = p
  BY Alone DEF IInv, Holding
<1>2. Owners = {p}
  BY <1>1 DEF Owners
<1> QED
  BY <1>2 DEF Status, Live

\* Without an owner that is up, the state file is the queue.
LEMMA MappedDown ==
    ASSUME \A q \in Processes : pc[q] \notin Masked
    PROVE  Status = ended /\ Live = disk
<1>1. Owners = {}
  BY DEF Owners
<1> QED
  BY <1>1 DEF Status, Live

\* A process that is not an owner and does not become one shows nothing.
LEMMA MappedSame ==
    ASSUME NEW p \in Processes, pc \in [Processes -> Place], pc[p] \notin Masked,
           NEW to \in Place \ Masked, pc' = [pc EXCEPT ![p] = to],
           UNCHANGED <<queue, ended, disk>>
    PROVE  UNCHANGED <<Status, Live, disk>>
<1>1. Owners' = Owners
  BY DEF Owners
<1> QED
  BY <1>1 DEF Status, Live

\* The steps of DurableQueue under the refinement mapping.
DurableStep ==
    \/ UNCHANGED <<Status, Live, disk>>
    \/ Status # "up" /\ Status' = "up" /\ Live' = disk /\ disk' = disk
    \/ /\ Status = "up" /\ UNCHANGED <<Status, disk>>
       /\ Live' \in Nat /\ Live' > Live
    \/ /\ Status = "up" /\ UNCHANGED <<Status, Live>>
       /\ disk' \in Nat /\ disk < disk' /\ disk' <= Live
    \/ Status = "up" /\ Status' = "stopped" /\ disk' = Live /\ Live' = Live
    \/ Status = "up" /\ Status' = "lost" /\ disk' = disk /\ Live' = disk

\* The five kinds of step are steps of DurableQueue, or stutter.
LEMMA DurableStepIsNext == DurableStep => [Durable!Next]_Durable!vars
BY DEF DurableStep, Status, Live, Durable!Next, Durable!vars, Durable!Start, Durable!Edit,
       Durable!Persist, Durable!Stop, Durable!Lose

\* Each step of an owner is a step of DurableQueue.
LEMMA OwnerRefines ==
    ASSUME IInv, IInv', NEW p \in Processes, OwnerStep(p)
    PROVE  DurableStep
<1>1. /\ pc \in [Processes -> Place] /\ pc' \in [Processes -> Place]
      /\ queue \in [Processes -> 0..MaxEdits] /\ requests \in [Processes -> Seq(0..MaxEdits)]
      /\ edits \in 0..MaxEdits /\ edits' \in 0..MaxEdits
      /\ disk \in 0..MaxEdits /\ disk' \in 0..MaxEdits
      /\ queue[p] \in 0..MaxEdits /\ MaxEdits \in Nat
      /\ Written(p) /\ Ahead(p) /\ ended \in {"stopped", "lost"}
  BY BoundsAssumption DEF IInv, TypeOK
<1>2. pc[p] \in Holding => \A q \in Processes : q # p => pc[q] \notin Masked
  BY Alone DEF IInv, Holding
<1>3. pc[p] \in Masked => Status = "up" /\ Live = queue[p]
  BY MappedUp
<1>4. pc'[p] \in Masked => Status' = "up" /\ Live' = queue'[p]
  <2>1. ASSUME pc'[p] \in Masked PROVE Owners' = {p}
    <3>1. \A q \in Processes : pc'[q] \in Masked => q = p
      BY <2>1 DEF IInv, LockHeld, Holding
    <3> QED
      BY <2>1, <3>1 DEF Owners
  <2> QED
    BY <2>1 DEF Status, Live
<1>5. ASSUME pc[p] \in Masked,
             pc' = [pc EXCEPT ![p] = "exited"] \/ pc' = [pc EXCEPT ![p] = "crashed"]
      PROVE  Status' = ended' /\ Live' = disk'
  <2>1. \A q \in Processes : pc'[q] \notin Masked
    BY <1>1, <1>2, <1>5 DEF Holding, Masked
  <2>2. Owners' = {}
    BY <2>1 DEF Owners
  <2> QED
    BY <2>2 DEF Status, Live
<1>6. CASE Resolve(p)
  <2>1. pc[p] \notin Masked /\ \E to \in {"locked", "refused"} : pc' = [pc EXCEPT ![p] = to]
    BY <1>6 DEF Resolve, Go, Masked
  <2>2. UNCHANGED <<queue, ended, disk>>
    BY <1>6 DEF Resolve, work, files
  <2>3. {"locked", "refused"} \subseteq Place \ Masked
    BY DEF Place, Masked
  <2>4. UNCHANGED <<Status, Live, disk>>
    BY <1>1, <2>1, <2>2, <2>3, MappedSame
  <2> QED
    BY <2>4 DEF DurableStep
<1>7. CASE Truncate(p)
  <2>1. pc[p] \notin Masked /\ \E to \in {"truncated"} : pc' = [pc EXCEPT ![p] = to]
    BY <1>7 DEF Truncate, Go, Masked
  <2>2. UNCHANGED <<queue, ended, disk>>
    BY <1>7 DEF Truncate, work, files
  <2>3. {"truncated"} \subseteq Place \ Masked
    BY DEF Place, Masked
  <2>4. UNCHANGED <<Status, Live, disk>>
    BY <1>1, <2>1, <2>2, <2>3, MappedSame
  <2> QED
    BY <2>4 DEF DurableStep
<1>8. CASE WritePid(p)
  <2>1. pc[p] \notin Masked /\ \E to \in {"recorded"} : pc' = [pc EXCEPT ![p] = to]
    BY <1>8 DEF WritePid, Go, Masked
  <2>2. UNCHANGED <<queue, ended, disk>>
    BY <1>8 DEF WritePid, work, files
  <2>3. {"recorded"} \subseteq Place \ Masked
    BY DEF Place, Masked
  <2>4. UNCHANGED <<Status, Live, disk>>
    BY <1>1, <2>1, <2>2, <2>3, MappedSame
  <2> QED
    BY <2>4 DEF DurableStep
<1>9. CASE PidWriteFails(p)
  <2>1. pc[p] \notin Masked /\ \E to \in {"recorded"} : pc' = [pc EXCEPT ![p] = to]
    BY <1>9 DEF PidWriteFails, Go, Masked
  <2>2. UNCHANGED <<queue, ended, disk>>
    BY <1>9 DEF PidWriteFails, work, files
  <2>3. {"recorded"} \subseteq Place \ Masked
    BY DEF Place, Masked
  <2>4. UNCHANGED <<Status, Live, disk>>
    BY <1>1, <2>1, <2>2, <2>3, MappedSame
  <2> QED
    BY <2>4 DEF DurableStep
<1>10. CASE Load(p)
  <2>1. /\ pc[p] = "recorded" /\ pc'[p] = "loaded" /\ queue'[p] = disk /\ disk' = disk
    BY <1>1, <1>10 DEF Load, Go, work, files
  <2>2. Status = ended
    BY <1>2, <2>1, MappedDown DEF Holding, Masked
  <2> QED
    BY <1>1, <1>4, <2>1, <2>2 DEF DurableStep, Masked
<1>11. CASE InitWrite(p)
  <2>1. pc[p] \in Masked /\ pc'[p] \in Masked /\ queue'[p] = queue[p] /\ disk' = disk
    BY <1>1, <1>11 DEF InitWrite, Go, Masked, work, files, life
  <2> QED
    BY <1>3, <1>4, <2>1 DEF DurableStep
<1>12. CASE InitRename(p)
  <2>1. pc[p] \in Masked /\ pc'[p] \in Masked /\ queue'[p] = queue[p] /\ disk' = disk
    BY <1>1, <1>12 DEF InitRename, Go, Masked, work, files, life, Written, Ahead
  <2> QED
    BY <1>3, <1>4, <2>1 DEF DurableStep
<1>13. CASE InitSaveFails(p)
  <2>1. pc[p] \in Masked /\ pc'[p] \in Masked /\ queue'[p] = queue[p] /\ disk' = disk
    BY <1>1, <1>13 DEF InitSaveFails, Go, Masked, work, files, life
  <2> QED
    BY <1>3, <1>4, <2>1 DEF DurableStep
<1>14. CASE Bind(p)
  <2>1. pc[p] \in Masked /\ pc'[p] \in Masked /\ queue'[p] = queue[p] /\ disk' = disk
    BY <1>1, <1>14 DEF Bind, Go, Masked, work, files, life
  <2> QED
    BY <1>3, <1>4, <2>1 DEF DurableStep
<1>15. CASE Edit(p)
  <2>1. /\ pc[p] \in Masked /\ pc' = pc /\ queue'[p] = edits + 1 /\ disk' = disk
    BY <1>1, <1>15 DEF Edit, Masked, files
  <2>2. edits + 1 \in Nat /\ edits + 1 > queue[p]
    BY <1>1 DEF Ahead
  <2> QED
    BY <1>3, <1>4, <2>1, <2>2 DEF DurableStep
<1>16. CASE WorkerWrite(p)
  <2>1. pc[p] \in Masked /\ pc'[p] \in Masked /\ queue'[p] = queue[p] /\ disk' = disk
    BY <1>1, <1>16 DEF WorkerWrite, HasWorker, Masked, files, life
  <2> QED
    BY <1>3, <1>4, <2>1 DEF DurableStep
<1>17. CASE WorkerRename(p)
  <2>1. /\ requests[p] # << >> /\ Head(requests[p]) # Flush /\ disk' = Head(requests[p])
        /\ UNCHANGED <<pc, queue>>
    BY <1>1, <1>17 DEF WorkerRename, Written, life
  <2>2. pc[p] \in Masked /\ disk < disk' /\ disk' <= queue[p]
    BY <2>1, WorkerDone DEF Masked
  <2> QED
    BY <1>1, <1>3, <1>4, <2>1, <2>2 DEF DurableStep
<1>18. CASE WorkerSaveFails(p)
  <2>1. pc[p] \in Masked /\ pc'[p] \in Masked /\ queue'[p] = queue[p] /\ disk' = disk
    BY <1>1, <1>18 DEF WorkerSaveFails, HasWorker, Masked, files, life
  <2> QED
    BY <1>3, <1>4, <2>1 DEF DurableStep
<1>19. CASE BeginShutdown(p)
  <2>1. pc[p] \in Masked /\ pc'[p] \in Masked /\ queue'[p] = queue[p] /\ disk' = disk
    BY <1>1, <1>19 DEF BeginShutdown, Go, Masked, work, files, life
  <2> QED
    BY <1>3, <1>4, <2>1 DEF DurableStep
<1>20. CASE Flushed(p)
  <2>1. pc[p] \in Masked /\ pc'[p] \in Masked /\ queue'[p] = queue[p] /\ disk' = disk
    BY <1>1, <1>20 DEF Flushed, Go, Masked, work, files, life
  <2> QED
    BY <1>3, <1>4, <2>1 DEF DurableStep
<1>21. CASE ExitWrite(p)
  <2>1. pc[p] \in Masked /\ pc'[p] \in Masked /\ queue'[p] = queue[p] /\ disk' = disk
    BY <1>1, <1>21 DEF ExitWrite, Go, Masked, work, files, life
  <2> QED
    BY <1>3, <1>4, <2>1 DEF DurableStep
<1>22. CASE Exit(p)
  <2>1. /\ pc[p] \in Masked /\ pc' = [pc EXCEPT ![p] = "exited"] /\ ended' = "stopped"
        /\ disk' = queue[p]
    BY <1>1, <1>22 DEF Exit, Go, Masked, Written, files
  <2> QED
    BY <1>3, <1>5, <2>1 DEF DurableStep
<1>23. CASE ExitSaveFails(p)
  <2>1. /\ pc[p] \in Masked /\ pc' = [pc EXCEPT ![p] = "exited"] /\ ended' = "lost"
        /\ disk' = disk
    BY <1>1, <1>23 DEF ExitSaveFails, Go, Masked, Written, files
  <2> QED
    BY <1>3, <1>5, <2>1 DEF DurableStep
<1>24. CASE Crash(p)
  <2>1. pc' = [pc EXCEPT ![p] = "crashed"] /\ UNCHANGED <<queue, disk>>
        /\ ended' = IF pc[p] \in Masked THEN "lost" ELSE ended
    BY <1>24 DEF Crash, Dies, Gone, files
  <2>2. CASE pc[p] \in Masked
    BY <1>3, <1>5, <2>1, <2>2 DEF DurableStep
  <2>3. CASE pc[p] \notin Masked
    <3>1. "crashed" \in Place \ Masked
      BY DEF Place, Masked
    <3>2. UNCHANGED <<Status, Live, disk>>
      BY <1>1, <2>1, <2>3, <3>1, MappedSame
    <3> QED
      BY <3>2 DEF DurableStep
  <2> QED
    BY <2>2, <2>3
<1> QED
  BY <1>6, <1>7, <1>8, <1>9, <1>10, <1>11, <1>12, <1>13, <1>14, <1>15, <1>16, <1>17,
     <1>18, <1>19, <1>20, <1>21, <1>22, <1>23, <1>24 DEF OwnerStep

\* A client shows nothing of DurableQueue.
LEMMA ClientRefines ==
    ASSUME IInv, NEW c \in Clients, ClientStep(c)
    PROVE  DurableStep
<1>1. CASE UNCHANGED <<life, work>>
  BY <1>1 DEF DurableStep, Status, Live, Owners, life, work, files
<1>2. ASSUME NEW p \in Processes, pc[p] \notin Masked,
             pc' \in {[pc EXCEPT ![p] = "starting"], [pc EXCEPT ![p] = "crashed"]},
             UNCHANGED <<queue, ended, disk>>
      PROVE  DurableStep
  <2>1. pc \in [Processes -> Place] /\ {"starting", "crashed"} \subseteq Place \ Masked
    BY DEF IInv, TypeOK, Place, Masked
  <2>2. UNCHANGED <<Status, Live, disk>>
    BY <1>2, <2>1, MappedSame
  <2> QED
    BY <2>2 DEF DurableStep
<1> QED
  BY <1>1, <1>2, ClientKeeps DEF files

\* The owners, their workers, crashes and restarts implement one durable queue,
\* for any number of them: what was saved is never lost, a new owner starts
\* from it, and a shutdown in good order leaves every edit saved.
THEOREM OwnerProcessRefinesDurableQueue == Spec => ImplementsDurableQueue
<1>1. Init => Durable!Init
  <2> SUFFICES ASSUME Init PROVE Durable!Init
    OBVIOUS
  <2>1. Owners = {}
    BY DEF Init, Owners, Masked
  <2> QED
    BY <2>1 DEF Init, Durable!Init
<1>2. IInv /\ IInv' /\ [Next]_vars => [Durable!Next]_Durable!vars
  <2> SUFFICES ASSUME IInv, IInv', [Next]_vars PROVE DurableStep
    BY DurableStepIsNext
  <2>1. CASE UNCHANGED vars
    BY <2>1 DEF vars, DurableStep, Status, Live, Owners, life, work, files
  <2> QED
    BY <2>1, OwnerRefines, ClientRefines DEF Next
<1> QED
  BY <1>1, <1>2, Invariance, PTL DEF Spec, ImplementsDurableQueue, Durable!Spec

-----------------------------------------------------------------------------
(* Some launch attaches.                                                   *)

\* Where an owner is that stops or has ended.
Ending == {"flushing", "flushed", "exit_written", "exited", "crashed"}

\* The client asks an owner to end, or ended without starting one.
Quitting(c) ==
    \/ client[c].restart
    \/ client[c].at \in {"q_probe", "q_probing", "q_contended", "kill", "done"}
    \/ client[c].at = "failed" /\ client[c].proc = None

\* What SomeLaunchAttaches is about: nothing went wrong and no owner is
\* asked to end.  A disturbed system stays disturbed.
Undisturbed ==
    /\ faults = 0 /\ \A c \in Clients : ~ Quitting(c)
    /\ \A p \in Processes : pc[p] \notin Ending

\* The client will attach if it is left alone, or waits for an owner that
\* has not been turned away.
Hopeful(c) ==
    \/ client[c].at \in {"idle", "probing", "start", "attaching", "attached"}
    \/ client[c].at = "waiting" /\ client[c].proc \in Processes /\ Alive(client[c].proc)

Attends(c, p) ==
    client[c].proc = p /\ client[c].at \in {"waiting", "attaching", "attached"}

Calm ==
    /\ \A c \in Clients : client[c].at = "attaching" => bound # {}
    /\ \A p \in Processes : Alive(p) => \E c \in Clients : Attends(c, p)
    /\ \E c \in Clients : Hopeful(c)

\* A client that has not launched yet waits for nobody.
Unasked ==
    \A c \in Clients :
        client[c].at \in {"idle", "q_probe", "q_probing", "q_contended"}
            => client[c].restart \/ client[c].proc = None
\* A client holds the lock only while it probes.
ProbesHold == \A c \in Clients : lock = c => client[c].at \in {"probing", "q_probing"}
Listening == \A p \in bound : pc[p] = "serving" \/ pc[p] \in Ending

HopeInv == Unasked /\ ProbesHold /\ Listening /\ (Undisturbed => Calm)

\* A client that moves changes nothing else about itself or others.
LEMMA Moved ==
    ASSUME TypeOK, NEW c \in Clients, NEW to, NEW p
    PROVE  LET elsewhere == \A d \in Clients \ {c} : client'[d] = client[d] IN
           /\ Moves(c, to) =>
                /\ elsewhere /\ client'[c].at = to /\ client'[c].proc = client[c].proc
                /\ client'[c].restart = client[c].restart
           /\ client' = [client EXCEPT ![c].at = to, ![c].proc = p] =>
                /\ elsewhere /\ client'[c].at = to /\ client'[c].proc = p
                /\ client'[c].restart = client[c].restart
           /\ client' = [client EXCEPT ![c].at = to, ![c].restart = TRUE] =>
                elsewhere /\ client'[c].at = to /\ client'[c].restart
<1> DEFINE Typed == [at : ClientPlace, proc : Processes \cup {None}, restart : BOOLEAN]
           Elsewhere == \A d \in Clients \ {c} : client'[d] = client[d]
           r1 == [client[c] EXCEPT !.at = to]
           r2 == [client[c] EXCEPT !.at = to, !.proc = p]
           r3 == [client[c] EXCEPT !.at = to, !.restart = TRUE]
<1>1. client \in [Clients -> Typed] /\ client[c] \in Typed
  BY DEF TypeOK
<1>2. /\ r1.at = to /\ r1.proc = client[c].proc /\ r1.restart = client[c].restart
      /\ r2.at = to /\ r2.proc = p /\ r2.restart = client[c].restart
      /\ r3.at = to /\ r3.restart
  BY <1>1
<1> HIDE DEF Typed
<1>3. ASSUME Moves(c, to) PROVE client'[c] = r1 /\ Elsewhere
  <2>1. client' = [client EXCEPT ![c] = r1]
    BY <1>1, <1>3 DEF Moves
  <2> HIDE DEF r1
  <2> QED
    BY <1>1, <2>1
<1>4. ASSUME client' = [client EXCEPT ![c].at = to, ![c].proc = p]
      PROVE  client'[c] = r2 /\ Elsewhere
  <2>1. client' = [client EXCEPT ![c] = r2]
    BY <1>1, <1>4 DEF Moves
  <2> HIDE DEF r2
  <2> QED
    BY <1>1, <2>1
<1>5. ASSUME client' = [client EXCEPT ![c].at = to, ![c].restart = TRUE]
      PROVE  client'[c] = r3 /\ Elsewhere
  <2>1. client' = [client EXCEPT ![c] = r3]
    BY <1>1, <1>5 DEF Moves
  <2> HIDE DEF r3
  <2> QED
    BY <1>1, <2>1
<1> HIDE DEF r1, r2, r3
<1> QED
  BY <1>2, <1>3, <1>4, <1>5

\* What a step of an owner may do to the others, the lock and the sockets:
\* the owner comes to its end, is turned away by whoever holds the lock, or
\* lives on.
LEMMA OwnerMoves ==
    ASSUME TypeOK, Listening, NEW p \in Processes, OwnerStep(p)
    PROVE  /\ UNCHANGED client /\ faults <= faults' /\ lock' \in {lock, p, None}
           /\ \A q \in Processes \ {p} : pc'[q] = pc[q]
           /\ bound' \subseteq bound \cup {p} /\ (pc[p] \in Ending => pc'[p] \in Ending)
           /\ p \in bound' => pc'[p] = "serving" \/ pc'[p] \in Ending
           /\ \/ pc'[p] \in Ending
              \/ pc[p] = "starting" /\ pc'[p] = "refused" /\ lock # None /\ bound' = bound
              \/ Alive(p) /\ Alive(p)' /\ bound \subseteq bound'
<1>1. pc \in [Processes -> Place] /\ bound \subseteq Processes /\ faults \in Nat
  BY BoundsAssumption DEF TypeOK
<1>2. /\ p \in bound => pc[p] = "serving" \/ pc[p] \in Ending
      /\ "serving" \notin Ending
  BY DEF Listening, Ending
<1>3. CASE Resolve(p)
  BY <1>1, <1>2, <1>3 DEF Resolve, Go, Alive, Ending
<1>4. CASE Truncate(p) \/ WritePid(p) \/ PidWriteFails(p)
  BY <1>1, <1>2, <1>4 DEF Truncate, WritePid, PidWriteFails, Fault, Go, Alive, Ending
<1>5. CASE Load(p) \/ InitWrite(p) \/ InitRename(p) \/ InitSaveFails(p)
  BY <1>1, <1>2, <1>5 DEF Load, InitWrite, InitRename, InitSaveFails, Fault, Go, Alive, Ending
<1>6. CASE Bind(p)
  BY <1>1, <1>2, <1>6 DEF Bind, Fault, Go, Alive, Ending
<1>7. CASE Edit(p) \/ WorkerWrite(p) \/ WorkerRename(p) \/ WorkerSaveFails(p)
  BY <1>1, <1>2, <1>7 DEF Edit, WorkerWrite, WorkerRename, WorkerSaveFails, HasWorker,
     life, Fault, Alive, Ending
<1>8. CASE BeginShutdown(p) \/ Flushed(p) \/ ExitWrite(p)
  BY <1>1, <1>2, <1>8 DEF BeginShutdown, Flushed, ExitWrite, Go, Ending
<1>9. CASE Exit(p) \/ ExitSaveFails(p)
  BY <1>1, <1>2, <1>9 DEF Exit, ExitSaveFails, Gone, Release, Fault, Go, Ending
<1>10. CASE Crash(p)
  BY <1>1, <1>2, <1>10 DEF Crash, Dies, Gone, Release, Fault, Ending
<1> QED
  BY <1>3, <1>4, <1>5, <1>6, <1>7, <1>8, <1>9, <1>10 DEF OwnerStep

\* Whoever holds the lock in an undisturbed system gives hope: a client that
\* probes, or the owner that some client started.
LEMMA HolderGivesHope ==
    ASSUME TypeOK, LockHeld, ProbesHold, Undisturbed, Calm, lock # None
    PROVE  \/ \E c \in Clients : client[c].at = "probing"
           \/ \E c \in Clients, p \in Processes :
                Attends(c, p) /\ Alive(p) /\ pc[p] # "starting"
<1>1. CASE lock \in Clients
  BY <1>1 DEF ProbesHold, Undisturbed, Quitting
<1>2. CASE lock \in Processes
  <2>1. pc[lock] \in Holding
    BY <1>2 DEF LockHeld
  <2>2. Alive(lock) /\ pc[lock] # "starting"
    BY <2>1 DEF Holding, Masked, Alive
  <2> QED
    BY <1>2, <2>2 DEF Calm
<1> QED
  BY <1>1, <1>2 DEF TypeOK

\* Every step of an owner leaves hope.
LEMMA OwnerHope ==
    ASSUME IInv, HopeInv, NEW p \in Processes, OwnerStep(p)
    PROVE  HopeInv'
<1>1. TypeOK /\ LockHeld /\ Unasked /\ ProbesHold /\ Listening /\ faults \in Nat
  BY BoundsAssumption DEF IInv, HopeInv, TypeOK
<1>2. /\ UNCHANGED client /\ faults <= faults' /\ lock' \in {lock, p, None}
      /\ \A q \in Processes \ {p} : pc'[q] = pc[q]
      /\ bound' \subseteq bound \cup {p} /\ (pc[p] \in Ending => pc'[p] \in Ending)
      /\ p \in bound' => pc'[p] = "serving" \/ pc'[p] \in Ending
      /\ \/ pc'[p] \in Ending
         \/ pc[p] = "starting" /\ pc'[p] = "refused" /\ lock # None /\ bound' = bound
         \/ Alive(p) /\ Alive(p)' /\ bound \subseteq bound'
  BY <1>1, OwnerMoves
<1>3. Unasked'
  BY <1>1, <1>2 DEF Unasked
<1>4. ProbesHold'
  BY <1>1, <1>2, NamesAssumption DEF ProbesHold
<1>5. Listening'
  BY <1>1, <1>2 DEF Listening, TypeOK
<1>6. ASSUME Undisturbed' PROVE Calm'
  <2>1. Undisturbed
    <3>1. \A c \in Clients : ~ Quitting(c)
      BY <1>2, <1>6 DEF Undisturbed, Quitting
    <3>2. \A q \in Processes : pc[q] \notin Ending
      BY <1>2, <1>6 DEF Undisturbed
    <3>3. faults = 0
      BY <1>1, <1>2, <1>6 DEF Undisturbed
    <3> QED
      BY <3>1, <3>2, <3>3 DEF Undisturbed
  <2>2. Calm /\ pc'[p] \notin Ending
    BY <1>6, <2>1 DEF HopeInv, Undisturbed
  <2>3. \A c \in Clients, q \in Processes : Attends(c, q)' <=> Attends(c, q)
    BY <1>2 DEF Attends
  <2>4. \A q \in Processes : Alive(q)' => Alive(q)
    BY <1>2, <2>2 DEF Alive
  <2>5. \A c \in Clients : (client[c].at = "attaching" => bound # {})'
    BY <1>2, <2>2 DEF Calm
  <2>6. \E c \in Clients : Hopeful(c)'
    <3>1. CASE Alive(p) /\ Alive(p)'
      <4>1. \A q \in Processes : Alive(q)' <=> Alive(q)
        BY <1>2, <3>1 DEF Alive
      <4> QED
        BY <1>2, <2>2, <4>1 DEF Calm, Hopeful
    <3>2. CASE pc[p] = "starting" /\ lock # None
      <4>1. CASE \E c \in Clients : client[c].at = "probing"
        BY <1>2, <4>1 DEF Hopeful
      <4>2. ASSUME NEW c \in Clients, NEW q \in Processes,
                   Attends(c, q), Alive(q), pc[q] # "starting"
            PROVE  Hopeful(c)'
        <5>1. Alive(q)'
          BY <1>2, <3>2, <4>2 DEF Alive
        <5> QED
          BY <1>2, <4>2, <5>1 DEF Attends, Hopeful
      <4> QED
        BY <1>1, <2>1, <2>2, <3>2, <4>1, <4>2, HolderGivesHope
    <3> QED
      BY <1>2, <2>2, <3>1, <3>2
  <2> QED
    BY <2>2, <2>3, <2>4, <2>5, <2>6 DEF Calm
<1> QED
  BY <1>3, <1>4, <1>5, <1>6 DEF HopeInv

\* A step of one client that touches no owner and spoils no hope.
Harmless(c) ==
    /\ pc' = pc /\ bound' = bound /\ faults' \in {faults, faults + 1}
    /\ \A d \in Clients \ {c} : client'[d] = client[d]
    /\ lock' \in {lock, c, None}
    /\ lock' = c => client'[c].at \in {"probing", "q_probing"}
    /\ client'[c].at \in {"idle", "q_probe", "q_probing", "q_contended"}
            => client'[c].restart \/ client'[c].proc = None
    /\ faults' = faults /\ Quitting(c) => Quitting(c)'
    /\ Undisturbed /\ Undisturbed' /\ Calm =>
        /\ client'[c].at = "attaching" => bound # {}
        /\ \A p \in Processes : Attends(c, p) /\ Alive(p) => Attends(c, p)'
        /\ \/ Hopeful(c) => Hopeful(c)'
           \/ lock # None /\ client[c].at \in {"idle", "waitexit"}

\* Such a step leaves hope: a client that finds the lock held is not the one
\* that gives it.
LEMMA HarmlessKeepsHope ==
    ASSUME IInv, HopeInv, NEW c \in Clients, Harmless(c)
    PROVE  HopeInv'
<1>1. TypeOK /\ LockHeld /\ Unasked /\ ProbesHold /\ Listening /\ faults \in Nat
  BY BoundsAssumption DEF IInv, HopeInv, TypeOK
<1>2. Unasked'
  BY <1>1 DEF Unasked, Harmless
<1>3. ProbesHold'
  BY <1>1, NamesAssumption DEF ProbesHold, Harmless
<1>4. Listening'
  BY <1>1 DEF Listening, Harmless
<1>5. ASSUME Undisturbed' PROVE Calm'
  <2>1. faults' = faults /\ faults = 0
    BY <1>1, <1>5 DEF Undisturbed, Harmless
  <2>2. \A d \in Clients : Quitting(d) => Quitting(d)'
    BY <2>1 DEF Quitting, Harmless
  <2>3. Undisturbed
    BY <1>5, <2>1, <2>2 DEF Undisturbed, Harmless
  <2>4. Calm
    BY <2>3 DEF HopeInv
  <2>5. /\ client'[c].at = "attaching" => bound # {}
        /\ \A p \in Processes : Attends(c, p) /\ Alive(p) => Attends(c, p)'
        /\ \/ Hopeful(c) => Hopeful(c)'
           \/ lock # None /\ client[c].at \in {"idle", "waitexit"}
    BY <1>5, <2>3, <2>4 DEF Harmless
  <2>6. \A d \in Clients : (client[d].at = "attaching" => bound # {})'
    BY <2>4, <2>5 DEF Calm, Harmless
  <2>7. \A p \in Processes : Alive(p)' => \E d \in Clients : Attends(d, p)'
    <3>1. \A d \in Clients, p \in Processes : Attends(d, p) /\ Alive(p) => Attends(d, p)'
      BY <2>5 DEF Attends, Harmless
    <3> QED
      BY <2>4, <3>1 DEF Calm, Alive, Harmless
  <2>8. \E d \in Clients : Hopeful(d)'
    <3>1. \A d \in Clients \ {c} : Hopeful(d) => Hopeful(d)'
      BY DEF Hopeful, Alive, Harmless
    <3>2. CASE Hopeful(c) => Hopeful(c)'
      BY <2>4, <3>1, <3>2 DEF Calm
    <3>3. CASE lock # None /\ client[c].at \in {"idle", "waitexit"}
      <4>1. \A d \in Clients, p \in Processes :
                Attends(d, p) /\ Alive(p) => d # c /\ Hopeful(d)
        BY <3>3 DEF Attends, Hopeful
      <4>2. \E d \in Clients \ {c} : Hopeful(d)
        <5>1. CASE \E d \in Clients : client[d].at = "probing"
          BY <3>3, <5>1 DEF Hopeful
        <5>2. CASE \E d \in Clients, p \in Processes : Attends(d, p) /\ Alive(p)
          BY <4>1, <5>2
        <5> QED
          BY <1>1, <2>3, <2>4, <3>3, <5>1, <5>2, HolderGivesHope
      <4> QED
        BY <3>1, <4>2
    <3> QED
      BY <2>5, <3>2, <3>3
  <2> QED
    BY <2>6, <2>7, <2>8 DEF Calm
<1> QED
  BY <1>2, <1>3, <1>4, <1>5 DEF HopeInv

\* Every step of a client leaves hope.
LEMMA ClientHope ==
    ASSUME IInv, HopeInv, NEW c \in Clients, ClientStep(c)
    PROVE  HopeInv'
<1>1. TypeOK /\ Unasked /\ ProbesHold /\ Listening /\ faults \in Nat
  BY BoundsAssumption DEF IInv, HopeInv, TypeOK
<1> DEFINE Elsewhere == \A d \in Clients \ {c} : client'[d] = client[d]
           Only(to) == /\ Elsewhere /\ client'[c].at = to /\ client'[c].proc = client[c].proc
                       /\ client'[c].restart = client[c].restart
<1>2. \A to : Moves(c, to) => Only(to)
  BY <1>1, Moved
<1>3. lock = c => client[c].at \in {"probing", "q_probing"}
  BY <1>1 DEF ProbesHold
<1>4. c # None
  BY NamesAssumption
<1>5. ASSUME Undisturbed PROVE ~ Quitting(c)
  BY <1>5 DEF Undisturbed
<1>6. ASSUME Undisturbed' PROVE ~ Quitting(c)'
  BY <1>6 DEF Undisturbed
<1> HIDE DEF Elsewhere
<1>7. ASSUME Probe(c) PROVE Harmless(c)
  <2>1. /\ client[c].at \in {"idle", "waitexit"} /\ pc' = pc /\ bound' = bound
        /\ faults' = faults
    BY <1>7 DEF Probe, At, ClientOnly, life
  <2>2. CASE Only("probing") /\ lock' = c
    BY <1>4, <2>1, <2>2 DEF Harmless, Elsewhere, Quitting, Attends, Hopeful
  <2>3. CASE Only("contended") /\ lock # None /\ lock' = lock
    BY <1>3, <2>1, <2>3 DEF Harmless, Elsewhere, Quitting, Attends, Hopeful
  <2> QED
    BY <1>2, <1>7, <2>2, <2>3 DEF Probe
<1>8. ASSUME DropGuard(c) PROVE Harmless(c)
  BY <1>2, <1>4, <1>8
     DEF Harmless, Elsewhere, DropGuard, At, ClientOnly, life, Quitting, Attends, Hopeful
<1>9. ASSUME Connects(c) PROVE Harmless(c)
  <2>1. /\ client[c].at = "contended" /\ pc' = pc /\ bound' = bound /\ lock' = lock
        /\ faults' = faults
    BY <1>9 DEF Connects, At, ClientOnly, life
  <2>2. CASE Only("attaching") /\ bound # {}
    BY <1>3, <2>1, <2>2 DEF Harmless, Elsewhere, Quitting, Attends, Hopeful
  <2>3. CASE Only("refused")
    BY <1>3, <2>1, <2>3 DEF Harmless, Elsewhere, Quitting, Attends, Hopeful
  <2> QED
    BY <1>2, <1>9, <2>2, <2>3 DEF Connects, Connectable
<1>10. ASSUME Ready(c) PROVE Harmless(c)
  BY <1>2, <1>3, <1>10
     DEF Harmless, Elsewhere, Ready, At, ClientOnly, life, Connectable, Quitting, Attends, Hopeful
<1>11. ASSUME ChildEnded(c) PROVE Harmless(c)
  <2>1. /\ client[c].at = "waiting" /\ ~ Alive(client[c].proc) /\ Only("failed")
        /\ pc' = pc /\ bound' = bound /\ lock' = lock /\ faults' = faults
    BY <1>2, <1>11 DEF ChildEnded, At, ClientOnly, life
  <2> QED
    BY <1>3, <2>1 DEF Harmless, Elsewhere, Quitting, Attends, Hopeful
<1>12. ASSUME TimedOut(c) PROVE Harmless(c)
  <2>1. faults' = faults + 1 /\ Only("failed") /\ pc' = pc /\ bound' = bound /\ lock' = lock
        /\ client[c].at \in {"waiting", "waitexit"}
    BY <1>2, <1>12 DEF TimedOut, Fault, At, ClientOnly, life
  <2>2. faults' # faults /\ ~ Undisturbed'
    BY <1>1, <2>1 DEF Undisturbed
  <2> QED
    BY <1>3, <2>1, <2>2 DEF Harmless, Elsewhere
<1>13. ASSUME Attach(c) PROVE Harmless(c)
  <2>1. /\ client[c].at = "attaching" /\ pc' = pc /\ bound' = bound /\ lock' = lock
        /\ faults' = faults
    BY <1>13 DEF Attach, At, ClientOnly, life
  <2>2. ASSUME Undisturbed, Calm
        PROVE  bound # {} /\ \A p \in bound : pc[p] = "serving"
    BY <1>1, <2>1, <2>2 DEF Undisturbed, Calm, Listening, TypeOK
  <2>3. CASE Only("failed") /\ bound = {}
    BY <1>3, <2>1, <2>2, <2>3 DEF Harmless, Elsewhere, Quitting
  <2>4. CASE Only("attached")
    BY <1>3, <2>1, <2>4 DEF Harmless, Elsewhere, Quitting, Attends, Hopeful
  <2>5. CASE Only("waitexit") /\ \E p \in bound : pc[p] # "serving"
    BY <1>3, <2>1, <2>2, <2>5 DEF Harmless, Elsewhere, Quitting
  <2>6. CASE Only("waitexit") /\ client[c].restart
    BY <1>3, <1>5, <2>1, <2>6 DEF Harmless, Elsewhere, Quitting
  <2>7. CASE client' = [client EXCEPT ![c].at = "q_probe", ![c].restart = TRUE]
    <3>1. Elsewhere /\ client'[c].at = "q_probe" /\ client'[c].restart
      BY <1>1, <2>7, Moved DEF Elsewhere
    <3>2. Quitting(c)'
      BY <3>1 DEF Quitting
    <3> QED
      BY <1>3, <1>6, <2>1, <3>1, <3>2 DEF Harmless, Elsewhere
  <2> QED
    BY <1>2, <1>13, <2>3, <2>4, <2>5, <2>6, <2>7 DEF Attach, Connectable
<1>14. ASSUME AsksToQuit(c) PROVE Harmless(c)
  BY <1>1, <1>2, <1>3, <1>6, <1>14
     DEF Harmless, Elsewhere, AsksToQuit, At, ClientOnly, life, Quitting, Unasked
<1>15. ASSUME ProbePid(c) PROVE Harmless(c)
  <2>1. /\ client[c].at = "q_probe" /\ pc' = pc /\ bound' = bound /\ faults' = faults
        /\ client[c].restart \/ client[c].proc = None
    BY <1>1, <1>15 DEF ProbePid, At, ClientOnly, life, Unasked
  <2>2. \/ Only("q_probing") /\ lock' = c
        \/ (Only("q_contended") /\ lock' = lock)
    BY <1>2, <1>15 DEF ProbePid
  <2>3. Quitting(c)'
    BY <2>2 DEF Quitting
  <2> QED
    BY <1>3, <1>4, <1>6, <2>1, <2>2, <2>3 DEF Harmless, Elsewhere
<1>16. ASSUME ReadPid(c) PROVE Harmless(c)
  <2>1. /\ client[c].at = "q_contended" /\ pc' = pc /\ bound' = bound /\ lock' = lock
        /\ faults' = faults
    BY <1>16 DEF ReadPid, At, ClientOnly, life
  <2>2. /\ Elsewhere
        /\ \/ client'[c].at = "kill"
           \/ Only("failed") /\ (client[c].restart \/ client[c].proc = None)
    <3>1. CASE Moves(c, "failed")
      BY <1>1, <1>2, <2>1, <3>1 DEF Unasked
    <3>2. CASE client' = [client EXCEPT ![c].at = "kill", ![c].proc = record]
      BY <1>1, <3>2, Moved DEF Elsewhere
    <3> QED
      BY <1>16, <3>1, <3>2 DEF ReadPid
  <2>3. Quitting(c)'
    BY <2>2 DEF Quitting
  <2> QED
    BY <1>3, <1>6, <2>1, <2>2, <2>3 DEF Harmless, Elsewhere
<1>17. ASSUME NoOwner(c) PROVE Harmless(c)
  BY <1>1, <1>2, <1>4, <1>6, <1>17
     DEF Harmless, Elsewhere, NoOwner, At, ClientOnly, life, Quitting, Unasked
<1>18. CASE Spawn(c)
  <2>1. PICK p \in Processes :
            /\ pc[p] = "off" /\ pc' = [pc EXCEPT ![p] = "starting"]
            /\ client' = [client EXCEPT ![c].at = "waiting", ![c].proc = p]
    BY <1>18 DEF Spawn, Go
  <2>2. /\ client[c].at = "start" /\ UNCHANGED <<bound, lock, faults>>
    BY <1>18 DEF Spawn, At
  <2>3. /\ Elsewhere /\ client'[c].at = "waiting" /\ client'[c].proc = p
        /\ client'[c].restart = client[c].restart
    BY <1>1, <2>1, Moved DEF Elsewhere
  <2>4. pc'[p] = "starting" /\ \A q \in Processes \ {p} : pc'[q] = pc[q]
    BY <1>1, <2>1 DEF TypeOK
  <2>5. Unasked' /\ ProbesHold'
    BY <1>1, <1>3, <2>2, <2>3 DEF Unasked, ProbesHold, Elsewhere
  <2>6. Listening'
    BY <1>1, <2>1, <2>2, <2>4 DEF Listening, Ending, TypeOK
  <2>7. ASSUME Undisturbed' PROVE Calm'
    <3>1. \A d \in Clients : Quitting(d) => Quitting(d)'
      BY <2>2, <2>3 DEF Quitting, Elsewhere
    <3>2. Undisturbed
      BY <2>1, <2>2, <2>4, <2>7, <3>1 DEF Undisturbed, Ending
    <3>3. Calm
      BY <3>2 DEF HopeInv
    <3>4. Attends(c, p)' /\ Hopeful(c)'
      BY <2>3, <2>4 DEF Attends, Hopeful, Alive
    <3>5. \A d \in Clients, q \in Processes : Attends(d, q) => Attends(d, q)'
      BY <2>2, <2>3 DEF Attends, Elsewhere
    <3>6. \A q \in Processes \ {p} : Alive(q)' => Alive(q)
      BY <2>4 DEF Alive
    <3>7. \A d \in Clients : (client[d].at = "attaching" => bound # {})'
      BY <2>2, <2>3, <3>3 DEF Calm, Elsewhere
    <3> QED
      BY <3>3, <3>4, <3>5, <3>6, <3>7 DEF Calm
  <2> QED
    BY <2>5, <2>6, <2>7 DEF HopeInv
<1>19. CASE Kill(c)
  <2>1. PICK to \in {"waitexit", "done"} : Only(to) /\ (to = "waitexit" => client[c].restart)
    BY <1>2, <1>19 DEF Kill
  <2>2. ~ Undisturbed'
    BY <1>6, <2>1 DEF Quitting
  <2>3. CASE UNCHANGED <<life, lock, faults>>
    BY <1>1, <1>3, <1>19, <2>1, <2>2, <2>3
       DEF HopeInv, Unasked, ProbesHold, Listening, Elsewhere, Kill, At, life
  <2>4. CASE Dies(client[c].proc) /\ UNCHANGED faults
    <3> DEFINE p == client[c].proc
    <3>1. pc' = [pc EXCEPT ![p] = "crashed"] /\ bound' = bound \ {p} /\ lock' \in {lock, None}
      BY <2>4 DEF Dies, Gone, Release
    <3> HIDE DEF p
    <3>2. \A q \in bound' : q \in bound /\ pc'[q] = pc[q]
      BY <1>1, <3>1 DEF TypeOK
    <3> QED
      BY <1>1, <1>3, <1>4, <1>19, <2>1, <2>2, <3>1, <3>2, NamesAssumption
         DEF HopeInv, Unasked, ProbesHold, Listening, Elsewhere, Kill, At
  <2> QED
    BY <1>19, <2>3, <2>4 DEF Kill
<1> QED
  BY <1>7, <1>8, <1>9, <1>10, <1>11, <1>12, <1>13, <1>14, <1>15, <1>16, <1>17, <1>18, <1>19,
     HarmlessKeepsHope DEF ClientStep

\* When several `mbv' start at once and nothing goes wrong, they never all end
\* without an owner (find_owner, start_owner and OwnerLock::acquire), however
\* many clients and processes there are.
THEOREM SomeLaunchAlwaysAttaches == Spec => []SomeLaunchAttaches
<1>1. Init => HopeInv
  <2> SUFFICES ASSUME Init PROVE HopeInv
    OBVIOUS
  <2>1. \A c \in Clients : client[c].at = "idle" /\ client[c].proc = None /\ c # None
    BY NamesAssumption DEF Init
  <2>2. bound = {} /\ lock = None /\ \A p \in Processes : ~ Alive(p)
    BY DEF Init, Alive
  <2> QED
    BY <2>1, <2>2, ClientsAssumption
       DEF HopeInv, Unasked, ProbesHold, Listening, Calm, Hopeful
<1>2. IInv /\ HopeInv /\ [Next]_vars => HopeInv'
  <2> SUFFICES ASSUME IInv, HopeInv, [Next]_vars PROVE HopeInv'
    OBVIOUS
  <2>1. CASE UNCHANGED vars
    BY <2>1 DEF vars, life, HopeInv, Unasked, ProbesHold, Listening, Undisturbed, Quitting,
                Calm, Alive, Attends, Hopeful
  <2> QED
    BY <2>1, OwnerHope, ClientHope DEF Next
<1>3. HopeInv => SomeLaunchAttaches
  <2> SUFFICES ASSUME HopeInv, faults = 0,
                      \A c \in Clients : Launched(c) /\ ~ client[c].restart,
                      \A p \in Processes : pc[p] \notin Ending
               PROVE  \E c \in Clients : client[c].at = "attached"
    BY DEF SomeLaunchAttaches, Ending
  <2>1. \A c \in Clients : ~ Quitting(c)
    BY DEF Quitting, Launched
  <2>2. PICK c \in Clients : Hopeful(c)
    BY <2>1 DEF HopeInv, Undisturbed, Calm
  <2> QED
    BY <2>2 DEF Hopeful, Launched
<1> QED
  BY <1>1, <1>2, <1>3, Invariance, PTL DEF Spec
=============================================================================

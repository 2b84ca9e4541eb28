--------------------------- MODULE OwnerProcess ---------------------------
(***************************************************************************)
(* The life of the Local owner processes: the flock that makes one process *)
(* the owner and the PID record kept in the locked file                    *)
(* (crates/mbv-daemon/src/owner_lock.rs, src/single_instance.rs), the      *)
(* queue each owner loads, saves through a worker thread and saves once    *)
(* more when it stops (crates/mbv-daemon/src/run.rs, event_loop.rs), and   *)
(* the clients that probe the lock, start an owner, attach to it, or ask   *)
(* for its end (src/owner_link.rs, src/local_daemon.rs, src/startup.rs).   *)
(*                                                                         *)
(* A process is used once, so its name stands for its PID.  A queue is     *)
(* named by the ordinal of the edit that made it.  `faults' counts what    *)
(* the environment may do wrong (crashes, failed I/O, timeouts), `ended'   *)
(* is history: how the last owner ended.                                   *)
(***************************************************************************)
EXTENDS Integers, Sequences, FiniteSets

CONSTANTS
    Processes,   \* `mbv --__local-daemon' processes
    Clients,     \* `mbv' and `mbv -q' invocations
    None,        \* nobody holds the lock; no PID in the record
    MaxEdits,    \* edits of all owners
    MaxFaults    \* environment faults

ASSUME NamesAssumption == None \notin Processes \cup Clients /\ Processes \cap Clients = {}
\* An owner is only ever started by a client.
ASSUME ClientsAssumption == Clients # {}
ASSUME BoundsAssumption == MaxEdits \in Nat /\ MaxFaults \in Nat

VARIABLES
    pc,       \* where each process is
    lock,     \* who holds the flock on mbv.lock
    record,   \* the PID in mbv.lock
    bound,    \* processes whose control socket accepts connections
    queue,    \* per process, its canonical queue
    requests, \* per process, what its persistence worker has not handled
    writing,  \* processes whose worker has written the temporary file
    tmp,      \* the queue in the temporary file
    disk,     \* the queue in the state file
    edits,    \* edits so far
    client,   \* per client: where it is and the process it waits for or signals
    faults, ended

files == <<tmp, disk>>
life == <<pc, bound, queue, edits, ended>>
work == <<requests, writing, files>>
vars == <<life, lock, record, work, client, faults>>

Alive(p) == pc[p] \notin {"off", "refused", "exited", "crashed"}
Masked == {"loaded", "init_written", "ready", "serving", "flushing", "flushed", "exit_written"}
Place ==
    {"off", "starting", "locked", "truncated", "recorded"} \cup Masked
        \cup {"refused", "exited", "crashed"}
ClientPlace ==
    {"idle", "probing", "contended", "start", "waiting", "attaching", "waitexit",
     "q_probe", "q_probing", "q_contended", "kill", "attached", "refused", "failed", "done"}
\* A request to the worker: the edit to save, or the flush.
Flush == 0

Init ==
    /\ pc = [p \in Processes |-> "off"] /\ lock = None /\ record = None
    /\ bound = {} /\ queue = [p \in Processes |-> 0]
    /\ requests = [p \in Processes |-> << >>] /\ writing = {} /\ tmp = 0 /\ disk = 0
    /\ edits = 0 /\ faults = 0 /\ ended = "stopped"
    /\ client = [c \in Clients |-> [at |-> "idle", proc |-> None, restart |-> FALSE]]

Go(p, from, to) == pc[p] = from /\ pc' = [pc EXCEPT ![p] = to]
Fault == faults < MaxFaults /\ faults' = faults + 1

-----------------------------------------------------------------------------
(* Start-up of an owner process.                                           *)

\* resolve: the process goes on only if it takes the lock at once.
Resolve(p) ==
    /\ IF lock = None
       THEN Go(p, "starting", "locked") /\ lock' = p
       ELSE Go(p, "starting", "refused") /\ UNCHANGED lock
    /\ UNCHANGED <<bound, queue, edits, ended, record, work, client, faults>>

\* write_pid: set_len(0), then the write.
Truncate(p) ==
    /\ Go(p, "locked", "truncated") /\ record' = None
    /\ UNCHANGED <<bound, queue, edits, ended, lock, work, client, faults>>

WritePid(p) ==
    /\ Go(p, "truncated", "recorded") /\ record' = p
    /\ UNCHANGED <<bound, queue, edits, ended, lock, work, client, faults>>

\* A failed write is logged and start-up goes on.
PidWriteFails(p) ==
    /\ Fault
    /\ Go(p, "locked", "recorded") \/ Go(p, "truncated", "recorded")
    /\ UNCHANGED <<bound, queue, edits, ended, lock, record, work, client>>

\* Fault: the new owner starts with an empty queue.
LoadNothing(p) ==
    /\ Go(p, "recorded", "loaded") /\ queue' = [queue EXCEPT ![p] = 0]
    /\ UNCHANGED <<bound, edits, ended, lock, record, work, client, faults>>

\* SIGTERM is masked, then the saved queue is loaded.
Load(p) ==
    /\ Go(p, "recorded", "loaded") /\ queue' = [queue EXCEPT ![p] = disk]
    /\ UNCHANGED <<bound, edits, ended, lock, record, work, client, faults>>

\* The loaded queue is saved again before the loop starts.
InitWrite(p) ==
    /\ Go(p, "loaded", "init_written") /\ tmp' = queue[p]
    /\ UNCHANGED <<bound, queue, edits, ended, lock, record, requests, writing,
                   disk, client, faults>>

InitRename(p) ==
    /\ Go(p, "init_written", "ready") /\ disk' = tmp
    /\ UNCHANGED <<bound, queue, edits, ended, lock, record, requests, writing,
                   tmp, client, faults>>

InitSaveFails(p) ==
    /\ Fault /\ Go(p, "loaded", "ready")
    /\ UNCHANGED <<bound, queue, edits, ended, lock, record, work, client>>

\* The control socket is bound; an owner that cannot bind it runs without.
Bind(p) ==
    /\ Go(p, "ready", "serving")
    /\ \/ bound' = bound \cup {p} /\ UNCHANGED faults
       \/ Fault /\ UNCHANGED bound
    /\ UNCHANGED <<queue, edits, ended, lock, record, work, client>>

-----------------------------------------------------------------------------
(* The running owner and its persistence worker.                           *)

\* Fault: the worker is sent a queue the owner does not have yet.
EditSendsNext(p) ==
    /\ pc[p] = "serving" /\ edits < MaxEdits /\ edits' = edits + 1
    /\ queue' = [queue EXCEPT ![p] = edits + 1]
    /\ requests' = [requests EXCEPT ![p] = Append(@, edits + 2)]
    /\ UNCHANGED <<pc, bound, ended, lock, record, writing, files, client, faults>>

\* A handler that changes the queue leaves it dirty: one snapshot is sent.
Edit(p) ==
    /\ pc[p] = "serving" /\ edits < MaxEdits /\ edits' = edits + 1
    /\ queue' = [queue EXCEPT ![p] = edits + 1]
    /\ requests' = [requests EXCEPT ![p] = Append(@, edits + 1)]
    /\ UNCHANGED <<pc, bound, ended, lock, record, writing, files, client, faults>>

HasWorker(p) == pc[p] \in {"serving", "flushing", "flushed", "exit_written"}
Request(p) == Head(requests[p])
Taken(p) == requests' = [requests EXCEPT ![p] = Tail(@)]

\* save_json_atomic: the temporary file first, then the rename over the state.
WorkerWrite(p) ==
    /\ HasWorker(p) /\ requests[p] # << >> /\ Request(p) # Flush /\ p \notin writing
    /\ writing' = writing \cup {p} /\ tmp' = Request(p)
    /\ UNCHANGED <<life, lock, record, requests, disk, client, faults>>

WorkerRename(p) ==
    /\ HasWorker(p) /\ p \in writing /\ writing' = writing \ {p} /\ disk' = tmp /\ Taken(p)
    /\ UNCHANGED <<life, lock, record, tmp, client, faults>>

\* The failure is only logged by the event loop.
WorkerSaveFails(p) ==
    /\ Fault /\ HasWorker(p) /\ requests[p] # << >> /\ Request(p) # Flush
    /\ p \notin writing /\ Taken(p)
    /\ UNCHANGED <<life, lock, record, writing, files, client>>

\* Fault: the last save does not wait for the worker.
ShutdownWithoutFlush(p) ==
    /\ Go(p, "serving", "flushed")
    /\ UNCHANGED <<bound, queue, edits, ended, lock, record, work, client, faults>>

\* handle_shutdown: on SIGTERM, on the tray's quit, on the last client's end.
\* The tray may quit at any time, so a signal that waits for the loop needs
\* no state of its own.
BeginShutdown(p) ==
    /\ Go(p, "serving", "flushing") /\ requests' = [requests EXCEPT ![p] = Append(@, Flush)]
    /\ UNCHANGED <<bound, queue, edits, ended, lock, record, writing, files, client, faults>>

\* The worker answers the flush; the loop has waited for it.
Flushed(p) ==
    /\ requests[p] # << >> /\ Request(p) = Flush /\ p \notin writing
    /\ Go(p, "flushing", "flushed") /\ Taken(p)
    /\ UNCHANGED <<bound, queue, edits, ended, lock, record, writing, files, client, faults>>

ExitWrite(p) ==
    /\ Go(p, "flushed", "exit_written") /\ tmp' = queue[p]
    /\ UNCHANGED <<bound, queue, edits, ended, lock, record, requests, writing, disk,
                   client, faults>>

\* The kernel releases what a process held when it ends.
Release(p) == lock' = IF lock = p THEN None ELSE lock
Gone(p) ==
    /\ bound' = bound \ {p} /\ Release(p)
    /\ requests' = [requests EXCEPT ![p] = << >>] /\ writing' = writing \ {p}
    /\ UNCHANGED <<queue, edits, record>>

Exit(p) ==
    /\ Go(p, "exit_written", "exited") /\ disk' = tmp /\ ended' = "stopped" /\ Gone(p)
    /\ UNCHANGED <<tmp, client, faults>>

ExitSaveFails(p) ==
    /\ Fault /\ Go(p, "flushed", "exited") /\ ended' = "lost" /\ Gone(p)
    /\ UNCHANGED <<files, client>>

\* How an owner that never loaded the queue ends leaves `ended' alone.
Dies(p) ==
    /\ pc' = [pc EXCEPT ![p] = "crashed"] /\ Gone(p) /\ UNCHANGED files
    /\ ended' = IF pc[p] \in Masked THEN "lost" ELSE ended

Crash(p) == Fault /\ Alive(p) /\ Dies(p) /\ UNCHANGED client

OwnerStep(p) ==
    \/ Resolve(p) \/ Truncate(p) \/ WritePid(p) \/ PidWriteFails(p) \/ Load(p)
    \/ InitWrite(p) \/ InitRename(p) \/ InitSaveFails(p) \/ Bind(p) \/ Edit(p)
    \/ WorkerWrite(p) \/ WorkerRename(p) \/ WorkerSaveFails(p) \/ BeginShutdown(p)
    \/ Flushed(p) \/ ExitWrite(p) \/ Exit(p) \/ ExitSaveFails(p) \/ Crash(p)

-----------------------------------------------------------------------------
(* Clients.  A probe that finds the lock free holds it for a moment.       *)

At(c, from) == client[c].at = from
Moves(c, to) == client' = [client EXCEPT ![c].at = to]
ClientOnly == UNCHANGED <<life, record, work>>
Connectable == bound # {}

\* find_owner: the lock is tried; if it is held, the socket decides.
Probe(c) ==
    /\ At(c, "idle") \/ At(c, "waitexit")
    /\ IF lock = None THEN Moves(c, "probing") /\ lock' = c
                      ELSE Moves(c, "contended") /\ UNCHANGED lock
    /\ ClientOnly /\ UNCHANGED faults

\* Fault: the probe keeps the lock.
KeepGuard(c) ==
    /\ At(c, "probing") /\ Moves(c, "start")
    /\ ClientOnly /\ UNCHANGED <<lock, faults>>

DropGuard(c) ==
    /\ At(c, "probing") /\ Moves(c, "start") /\ lock' = None
    /\ ClientOnly /\ UNCHANGED faults

Connects(c) ==
    /\ At(c, "contended")
    /\ Moves(c, IF Connectable THEN "attaching" ELSE "refused")
    /\ ClientOnly /\ UNCHANGED <<lock, faults>>

\* start_owner: spawn_detached, then wait for the socket.
Spawn(c) ==
    /\ At(c, "start")
    /\ \E p \in Processes :
        /\ Go(p, "off", "starting")
        /\ client' = [client EXCEPT ![c].at = "waiting", ![c].proc = p]
    /\ UNCHANGED <<bound, queue, edits, ended, lock, record, work, faults>>

\* The socket is looked at before the child's exit; any owner's will do.
Ready(c) ==
    /\ At(c, "waiting") /\ Connectable /\ Moves(c, "attaching")
    /\ ClientOnly /\ UNCHANGED <<lock, faults>>

ChildEnded(c) ==
    /\ At(c, "waiting") /\ ~ Connectable /\ ~ Alive(client[c].proc) /\ Moves(c, "failed")
    /\ ClientOnly /\ UNCHANGED <<lock, faults>>

\* READY_TIMEOUT, or the ten seconds an ending owner is given.
TimedOut(c) ==
    /\ Fault /\ Moves(c, "failed")
    /\ At(c, "waiting") \/ At(c, "waitexit")
    /\ ClientOnly /\ UNCHANGED lock

\* attach_owner and follow_up: an owner that is stopping says so and is
\* waited for; one of another build is asked to end once, then waited for.
Attach(c) ==
    /\ At(c, "attaching")
    /\ \/ ~ Connectable /\ Moves(c, "failed")
       \/ \E p \in bound : pc[p] = "serving" /\ Moves(c, "attached")
       \/ \E p \in bound : pc[p] # "serving" /\ Moves(c, "waitexit")
       \/ /\ Connectable /\ client[c].restart /\ Moves(c, "waitexit")
       \/ /\ Connectable /\ ~ client[c].restart
          /\ client' = [client EXCEPT ![c].at = "q_probe", ![c].restart = TRUE]
    /\ ClientOnly /\ UNCHANGED <<lock, faults>>

\* `mbv -q'.
AsksToQuit(c) ==
    /\ At(c, "idle") /\ Moves(c, "q_probe")
    /\ ClientOnly /\ UNCHANGED <<lock, faults>>

\* signal_owner: locked_owner_pid reads the record only if the lock is held.
ProbePid(c) ==
    /\ At(c, "q_probe")
    /\ IF lock = None
       THEN Moves(c, "q_probing") /\ lock' = c
       ELSE Moves(c, "q_contended") /\ UNCHANGED lock
    /\ ClientOnly /\ UNCHANGED faults

ReadPid(c) ==
    /\ At(c, "q_contended")
    /\ IF record = None
       THEN Moves(c, "failed")
       ELSE client' = [client EXCEPT ![c].at = "kill", ![c].proc = record]
    /\ ClientOnly /\ UNCHANGED <<lock, faults>>

\* The freely acquired lock is dropped: there is no owner.
NoOwner(c) ==
    /\ At(c, "q_probing") /\ Moves(c, "failed") /\ lock' = None
    /\ ClientOnly /\ UNCHANGED faults

\* SIGTERM ends a process that has not masked it yet.
Kill(c) ==
    /\ At(c, "kill") /\ Moves(c, IF client[c].restart THEN "waitexit" ELSE "done")
    /\ LET p == client[c].proc IN
        IF Alive(p) /\ pc[p] \notin Masked
        THEN Dies(p) /\ UNCHANGED faults
        ELSE UNCHANGED <<life, lock, record, work, faults>>

ClientStep(c) ==
    \/ Probe(c) \/ DropGuard(c) \/ Connects(c) \/ Spawn(c) \/ Ready(c) \/ ChildEnded(c)
    \/ TimedOut(c) \/ Attach(c) \/ AsksToQuit(c) \/ ProbePid(c) \/ ReadPid(c) \/ NoOwner(c) \/ Kill(c)

Next ==
    \/ \E p \in Processes : OwnerStep(p)
    \/ \E c \in Clients : ClientStep(c)

Spec == Init /\ [][Next]_vars

-----------------------------------------------------------------------------
(* Properties.                                                             *)

\* The types of the variables.
TypeOK ==
    /\ pc \in [Processes -> Place] /\ lock \in Processes \cup Clients \cup {None}
    /\ record \in Processes \cup {None} /\ bound \subseteq Processes
    /\ queue \in [Processes -> 0..MaxEdits] /\ writing \subseteq Processes
    /\ requests \in [Processes -> Seq(0..MaxEdits)]
    /\ tmp \in 0..MaxEdits /\ disk \in 0..MaxEdits /\ edits \in 0..MaxEdits
    /\ client \in [Clients -> [at : ClientPlace, proc : Processes \cup {None},
                               restart : BOOLEAN]]
    /\ faults \in 0..MaxFaults /\ ended \in {"stopped", "lost"}

\* No two threads, of one owner or of two, are ever between writing the
\* shared temporary file and renaming it: the state file is never renamed
\* from a file another thread is writing (save_json_atomic, which the worker
\* and the event loop both call).
OneWriter ==
    Cardinality({<<p, "worker">> : p \in writing}
        \cup {<<p, "loop">> : p \in {q \in Processes : pc[q] \in {"init_written", "exit_written"}}})
        <= 1

Owners == {p \in Processes : pc[p] \in Masked}
Durable == INSTANCE DurableQueue WITH
    status <- IF Owners # {} THEN "up" ELSE ended,
    queue <- IF Owners # {} THEN queue[CHOOSE p \in Owners : TRUE] ELSE disk,
    durable <- disk

\* The owners, their workers, crashes and restarts implement one durable
\* queue: a new owner finds the queue saved last, the state file never goes
\* back, and a shutdown in good order leaves every edit saved.
ImplementsDurableQueue == Durable!Spec

Launched(c) ==
    \/ client[c].at \in {"attached", "refused"}
    \/ client[c].at = "failed" /\ client[c].proc # None
\* When several `mbv' start at once and nothing goes wrong, the probe of one
\* may turn away the owner another has started, but they never all end
\* without an owner (find_owner drops its probe lock before start_owner, and
\* the owner started must take that lock at once).
SomeLaunchAttaches ==
    (/\ faults = 0 /\ \A c \in Clients : Launched(c) /\ ~ client[c].restart
     /\ \A p \in Processes : pc[p] \notin {"flushing", "flushed", "exit_written", "exited", "crashed"})
    => \E c \in Clients : client[c].at = "attached"

\* Invariant 21: "A PID left in a file by a crashed, killed, or rebooted Owner
\* is never signalled" (docs/invariants/21-signal-only-a-held-owner-lock.md:6).
\* The PID signal_owner reads to signal it is that of a live process.
StalePidNeverSignalled ==
    [][\A c \in Clients :
        client[c].at = "q_contended" /\ client'[c].at = "kill" => Alive(client'[c].proc)]_vars
=============================================================================

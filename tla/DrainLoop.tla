----------------------------- MODULE DrainLoop -----------------------------
(***************************************************************************)
(* The drain loop of one repository (event_drain_loop, server.rs) over its *)
(* disk queue, with the orchestrator processes it spawns, crashes and      *)
(* restarts of the server, and disk operations that fail.                  *)
(*                                                                         *)
(* The loop reads the head of the queue, decides what it is, and only      *)
(* later, under another acquisition of the `queues` mutex, dequeues or     *)
(* reserves whatever is the head then.  The child's pid is written to the  *)
(* inflight file after the spawn, in a separate step.  `stop` and a crash  *)
(* end the server at any point; its children are not killed and keep       *)
(* running, and the next server decides from the inflight files what to do *)
(* with them.                                                              *)
(*                                                                         *)
(* The capacity check of the loop concerns several repositories and is not *)
(* part of this module.                                                    *)
(***************************************************************************)
EXTENDS DiskQueue

CONSTANTS
  Actionable,  \* the events is_actionable_event or bootstrap lets through
  NoEvent,     \* no event in memory
  Free,        \* no process has this pid
  Foreign,     \* the pid belongs to a process that is not ours
  MaxFaults    \* bound of the model: crashes and failed disk operations

ASSUME DrainAssumption ==
  /\ Actionable \subseteq Event
  /\ MaxFaults \in Nat
  /\ {Free, Foreign} \cap Event = {}
  /\ Free # Foreign

VARIABLES
  pc,         \* where the loop is
  cur,        \* `event`, then `reserved_event`
  handle,     \* the pid of the child the loop waits for
  child,      \* the processes of the host: child[p] is the event p works on
  paused,     \* rate_limiter.is_orchestrator_paused()
  faults,     \* faults so far
  \* history
  attempts,   \* attempts[e]: spawns of an orchestrator for e, failed ones too
  successes,  \* successes[e]: orchestrators of e that exited 0
  unrecorded  \* a child was left that inflight/ does not record

loop == <<pc, cur, handle>>
host == <<child, paused, attempts, successes>>
vars == <<queueVars, loop, host, faults, unrecorded>>

Init ==
  /\ QueueInit
  /\ pc = "down" /\ cur = NoEvent /\ handle = NoPid
  /\ child = [p \in Pid |-> Free]
  /\ paused = FALSE
  /\ faults = 0 /\ unrecorded = FALSE
  /\ attempts = [e \in Event |-> 0]
  /\ successes = [e \in Event |-> 0]

\* Mutation of Alive: only the child the loop waits for counts as alive.
AliveOwnChild == {handle} \cap Pid

Up == pc # "down"
Alive == {p \in Pid : child[p] # Free}                 \* is_process_alive
Runs == {p \in Pid : child[p] \in Event}               \* live orchestrators

Goto(label) == pc' = label
Fault == faults < MaxFaults /\ faults' = faults + 1
NoFault == UNCHANGED <<faults, unrecorded>>

-----------------------------------------------------------------------------
\* The webhook handler and bootstrap enqueue while the server is up.
Receive(id) ==
  /\ Up
  /\ Enqueue(id)
  /\ UNCHANGED <<loop, host>> /\ NoFault

\* Start of an iteration: one orphaned inflight event is released.
RecoverInflight ==
  /\ pc = "top"
  /\ \E f \in inflight : RecoverOrphan(f, Alive)
  /\ UNCHANGED <<loop, host>> /\ NoFault

FinishRelease ==
  /\ ReleaseRemove
  /\ UNCHANGED <<loop, host>> /\ NoFault

\* The head is read when nothing is inflight; otherwise the loop sleeps.
Peek ==
  /\ pc = "top" /\ Unlocked
  /\ inflight = {}
  /\ cur' \in First(queue)
  /\ Goto("peeked")
  /\ UNCHANGED <<queueVars, handle, host>> /\ NoFault

\* An event nobody acts on: the head is dequeued, unseen, and dropped.
SkipEvent ==
  /\ pc = "peeked" /\ cur.id \notin Actionable
  /\ \E f \in queue : Dequeue(f)
  /\ Goto("top") /\ cur' = NoEvent
  /\ UNCHANGED <<handle, host>> /\ NoFault

\* The rate limiter is paused: sleep, then start over.
WaitPaused ==
  /\ pc = "peeked" /\ cur.id \in Actionable
  /\ paused
  /\ Goto("top") /\ cur' = NoEvent
  /\ UNCHANGED <<queueVars, handle, host>> /\ NoFault

\* The queue cannot be changed or the registry has no entry: sleep, start over.
IterationFails ==
  /\ pc = "peeked"
  /\ Fault
  /\ Goto("top") /\ cur' = NoEvent
  /\ UNCHANGED <<queueVars, handle, host, unrecorded>>

Reserve ==
  /\ pc = "peeked" /\ cur.id \in Actionable
  /\ ~paused
  /\ \E f \in queue : ReserveNext(f) /\ cur' = f
  /\ Goto("reserved")
  /\ UNCHANGED <<handle, host>> /\ NoFault

\* The agent definition, the prompt or the command cannot be built: the loop
\* continues and leaves the reservation, with no pid, to the next iteration.
PreparationFails ==
  /\ pc = "reserved"
  /\ Fault
  /\ Goto("top") /\ cur' = NoEvent
  /\ UNCHANGED <<queueVars, handle, host, unrecorded>>

Spawn(p) ==
  /\ pc = "reserved" /\ child[p] = Free
  /\ child' = [child EXCEPT ![p] = cur.id]
  /\ attempts' = [attempts EXCEPT ![cur.id] = @ + 1]
  /\ handle' = p
  /\ Goto("spawned")
  /\ UNCHANGED <<queueVars, cur, paused, successes>> /\ NoFault

\* The program cannot be started: counted as a rate limit, and nacked.
SpawnFails ==
  /\ pc = "reserved"
  /\ attempts' = [attempts EXCEPT ![cur.id] = @ + 1]
  /\ paused' = TRUE
  /\ NackReserved(cur)
  /\ Goto("top") /\ cur' = NoEvent
  /\ UNCHANGED <<handle, child, successes>> /\ NoFault

Attach ==
  /\ pc = "spawned"
  /\ AttachPid(cur, handle)
  /\ Goto("waiting")
  /\ UNCHANGED <<cur, handle, host>> /\ NoFault

\* The write fails: a warning, and the loop goes on with no pid on disk.
AttachFails ==
  /\ pc = "spawned" /\ Unlocked
  /\ Fault
  /\ Goto("waiting")
  /\ UNCHANGED <<queueVars, cur, handle, host, unrecorded>>

\* wait_with_output returns; a non-zero exit is reported to the rate limiter.
ChildSucceeds ==
  /\ pc = "waiting"
  /\ child' = [child EXCEPT ![handle] = Free]
  /\ successes' = [successes EXCEPT ![cur.id] = @ + 1]
  /\ handle' = NoPid
  /\ Goto("succeeded")
  /\ UNCHANGED <<queueVars, cur, paused, attempts>> /\ NoFault

ChildFails ==
  /\ pc = "waiting"
  /\ child' = [child EXCEPT ![handle] = Free]
  /\ paused' = TRUE
  /\ handle' = NoPid
  /\ Goto("failed")
  /\ UNCHANGED <<queueVars, cur, attempts, successes>> /\ NoFault

\* wait_with_output fails: handled as a non-zero exit, though nothing says that
\* the child ended.
WaitFails ==
  /\ pc = "waiting"
  /\ Fault
  /\ paused' = TRUE
  /\ unrecorded' = TRUE
  /\ handle' = NoPid
  /\ Goto("failed")
  /\ UNCHANGED <<queueVars, cur, child, attempts, successes>>

\* Mutation of Ack: the loop continues without acknowledging.
AckForgotten ==
  /\ pc = "succeeded"
  /\ Goto("top") /\ cur' = NoEvent
  /\ UNCHANGED <<queueVars, handle, host>> /\ NoFault

Ack ==
  /\ pc = "succeeded"
  /\ AckReserved(cur)
  /\ Goto("top") /\ cur' = NoEvent
  /\ UNCHANGED <<handle, host>> /\ NoFault

Nack ==
  /\ pc = "failed"
  /\ NackReserved(cur)
  /\ Goto("top") /\ cur' = NoEvent
  /\ UNCHANGED <<handle, host>> /\ NoFault

\* ack_reserved or nack_reserved fails before any effect: logged, nothing else.
SettleFails ==
  /\ pc \in {"succeeded", "failed"} /\ Unlocked
  /\ Fault
  /\ Goto("top") /\ cur' = NoEvent
  /\ UNCHANGED <<queueVars, handle, host, unrecorded>>

\* The copy of a release is written but its inflight file cannot be removed.
RemoveFails ==
  /\ ~Unlocked
  /\ Fault
  /\ ReleaseAbort
  /\ UNCHANGED <<loop, host, unrecorded>>

\* The recovery probe succeeds (or there was nothing to recover from).
ProbeRecovers ==
  /\ Up /\ paused
  /\ paused' = FALSE
  /\ UNCHANGED <<queueVars, loop, child, attempts, successes>> /\ NoFault

-----------------------------------------------------------------------------
\* The server ends, between any two steps, and what it held in memory is gone.
Crash ==
  /\ Up
  /\ Fault
  /\ ReleaseAbort
  /\ Goto("down") /\ cur' = NoEvent /\ handle' = NoPid
  /\ paused' = FALSE
  /\ unrecorded' = (unrecorded \/ (handle # NoPid /\ \A f \in inflight : f.pid # handle))
  /\ UNCHANGED <<child, attempts, successes>>

\* serve: a new server with a new loop.
Start ==
  /\ pc = "down"
  /\ Goto("top")
  /\ UNCHANGED <<queueVars, cur, handle, host>> /\ NoFault

\* A child that outlived its server ends, with or without success.
OrphanExits(p) ==
  /\ p \in Runs /\ p # handle
  /\ child' = [child EXCEPT ![p] = Free]
  /\ \/ successes' = [successes EXCEPT ![child[p]] = @ + 1]
     \/ UNCHANGED successes
  /\ UNCHANGED <<queueVars, loop, paused, attempts>> /\ NoFault

\* The host gives a pid to another program, which ends some time later.
ForeignStarts(p) ==
  /\ child[p] = Free
  /\ Fault
  /\ child' = [child EXCEPT ![p] = Foreign]
  /\ UNCHANGED <<queueVars, loop, paused, attempts, successes, unrecorded>>

ForeignExits(p) ==
  /\ child[p] = Foreign
  /\ child' = [child EXCEPT ![p] = Free]
  /\ UNCHANGED <<queueVars, loop, paused, attempts, successes>> /\ NoFault

-----------------------------------------------------------------------------
LoopStep ==
  \/ RecoverInflight \/ FinishRelease \/ Peek \/ SkipEvent \/ WaitPaused \/ Reserve
  \/ \E p \in Pid : Spawn(p)
  \/ Attach \/ Ack \/ Nack

ProcessStep ==
  \/ ChildSucceeds \/ ChildFails
  \/ \E p \in Pid : OrphanExits(p) \/ ForeignExits(p)

FaultStep ==
  \/ IterationFails \/ PreparationFails \/ SpawnFails \/ AttachFails \/ WaitFails \/ SettleFails \/ RemoveFails
  \/ Crash
  \/ \E p \in Pid : ForeignStarts(p)

Next ==
  \/ \E id \in Event : Receive(id)
  \/ LoopStep \/ ProcessStep \/ FaultStep
  \/ ProbeRecovers \/ Start

Spec == Init /\ [][Next]_vars

(***************************************************************************)
(* The loop is a task that always runs again; a process ends, the probe    *)
(* succeeds and a stopped server is started again, eventually (assumptions *)
(* on the environment: the code kills no child that hangs).  Nothing says  *)
(* that a child succeeds, that events come, or that faults happen.         *)
(***************************************************************************)
Fairness ==
  /\ WF_vars(LoopStep)
  /\ WF_vars(ChildSucceeds \/ ChildFails)
  /\ \A p \in Pid : WF_vars(OrphanExits(p)) /\ WF_vars(ForeignExits(p))
  /\ WF_vars(ProbeRecovers)
  /\ WF_vars(Start)

FairSpec == Spec /\ Fairness

-----------------------------------------------------------------------------
(***************************************************************************)
(* Properties.                                                             *)
(***************************************************************************)

\* Type invariant: the loop's variables, beside those of the queue.
LoopTypeOK ==
  /\ TypeOK
  /\ pc \in {"down", "top", "peeked", "reserved", "spawned", "waiting", "succeeded", "failed"}
  /\ cur \in Entry \cup {NoEvent}
  /\ handle \in Pid \cup {NoPid}
  /\ child \in [Pid -> Event \cup {Free, Foreign}]
  /\ paused \in BOOLEAN /\ unrecorded \in BOOLEAN
  /\ faults \in 0 .. MaxFaults
  /\ attempts \in [Event -> Nat]
  /\ successes \in [Event -> Nat]

\* At most one event is reserved, whatever crashes and failed disk operations
\* left in inflight/ (the loop peeks only when nothing is inflight).
OneReservation == \A f, g \in inflight : f = g

\* A repository has at most one live orchestrator, across restarts of the
\* server, unless one was left unrecorded (a crash before its pid was on disk,
\* a wait that failed): a recorded one keeps its event inflight, and the loop
\* waits for it.
SerialOnceRecorded == ~unrecorded => \A p, q \in Runs : p = q

\* What leaves the queue after an event was judged is that event.
TakesJudged ==
  /\ pc = "peeked" /\ dropped' # dropped => dropped' = dropped \cup {cur.id}
  /\ pc = "peeked" /\ pc' = "reserved" => cur' = cur

\* The head that is dequeued or reserved under the second lock is the event
\* that was judged and described in the prompt under the first: no actionable
\* event is dropped in place of one that is not, and none is acknowledged for
\* the work done on another.
JudgedIsTaken == [][TakesJudged]_vars

\* The loop follows the interface of the queue: every step is a queue operation
\* or leaves the queue alone (DrainLoopProofs: LoopImplementsQueue), so the
\* properties of DiskQueue hold of the queue the server drives.

\* The loop, its queue, their crashes and restarts implement the channel the
\* server promises: an event the server acts on leaves the disk only after a
\* run of it succeeded or after more attempts than its retry budget, through
\* whatever crashes, failed writes, duplicates and reused pids.
Channel ==
  INSTANCE EventChannel WITH Wanted <- Actionable, pending <- Ids(queue \cup inflight)

ChannelSpec == Channel!Spec

\* An event is dead-lettered only after more attempts than its retry budget
\* allows: neither a restart before the pid is attached nor a copy left by an
\* interrupted release makes it spend budget it did not use.
BuriedAfterAttempts == \A e \in buried : attempts[e] > MaxRetry

\* An event is acknowledged only once an orchestrator run for it succeeded.
AckedAfterSuccess == \A e \in acked : successes[e] > 0

\* Events are run at least once, and every successful run beyond the first is
\* paid for by a crash or a failed disk operation.
ExtraSuccessNeedsFault == \A e \in Event : successes[e] <= 1 + faults

\* When events and faults stop coming, every event is settled and nothing is
\* left in queue/ or inflight/: a reservation whose owner is gone, a duplicate
\* or a failing event does not hold up the queue for ever.
EventuallyIdle == <>[](queue = {} /\ inflight = {})
=============================================================================

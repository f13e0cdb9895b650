------------------------------- MODULE Server -------------------------------
(***************************************************************************)
(* The drain loops of all repositories and what they share: the process    *)
(* table (process_manager.rs), its monitor, and the rate limiter.          *)
(*                                                                         *)
(* A loop is cut where other threads may run: at each lock of the table,   *)
(* at each await.  Its queue is a count of events here (DrainLoop has the  *)
(* queue), and time is left out: a running entry may be old enough.        *)
(* Orchestrators are the only children the server spawns.                  *)
(***************************************************************************)
EXTENDS Naturals, FiniteSets, RateLimiter

CONSTANTS
  Repo,              \* the repositories
  Pid,               \* the pids of the host
  NoPid,
  Limits,            \* the values of max_concurrent_orchestrators, 0 among them
  MaxPending         \* bound of the model: events queued for one repository

ASSUME ServerAssumption ==
  /\ NoPid \notin Pid
  /\ Limits \subseteq Nat
  /\ MaxPending \in Nat

VARIABLES
  loop,     \* where the drain loop of each repository is
  pending,  \* how many events its queue holds
  pid,      \* its child, while it has one
  ended,    \* how its last child, or attempt at one, ended
  alive,    \* the pids of the orchestrators that run on the host
  process,  \* `processes`: the state of the entry of each pid
  limit,    \* max_concurrent_orchestrators, as the server found it in its configuration
  \* history
  stale,    \* what each loop spawned since the last recovery while paused
  crowded   \* a loop was let past the limit while another was between there and the table

table == <<alive, process, limit>>
history == <<stale, crowded>>
vars == <<loop, pending, pid, ended, table, history, rateLimiter>>

LoopStates == {"polling", "unpaused", "admitted", "spawned", "waiting", "reaped", "exited"}
EntryStates == {"none", "running", "finished", "crashed", "timed_out"}

Init ==
  /\ RateInit
  /\ loop = [r \in Repo |-> "polling"]
  /\ pending = [r \in Repo |-> 0]
  /\ pid = [r \in Repo |-> NoPid]
  /\ ended = [r \in Repo |-> "ok"]
  /\ alive = {}
  /\ process = [p \in Pid |-> "none"] /\ limit \in Limits
  /\ stale = [r \in Repo |-> 0] /\ crowded = FALSE

GoTo(r, l) == loop' = [loop EXCEPT ![r] = l]

ActiveOrchestratorCount == Cardinality({p \in Pid : process[p] = "running"})

\* Mutation of HasCapacity: a full table has room for one more.
HasCapacityAtLimit == ActiveOrchestratorCount <= limit

HasCapacity == ActiveOrchestratorCount < limit

\* A loop that was let past the limit and is not in the table yet.
Unregistered(r) == loop[r] \in {"admitted", "spawned"}

-----------------------------------------------------------------------------
\* webhook_handler queues an event.
Receive(r) ==
  /\ pending[r] < MaxPending
  /\ pending' = [pending EXCEPT ![r] = @ + 1]
  /\ UNCHANGED <<loop, pid, ended, table, history, rateLimiter>>

\* Mutation of CheckPaused: the check is dropped.
CheckNothing(r) ==
  /\ loop[r] = "polling" /\ pending[r] > 0
  /\ GoTo(r, "unpaused")
  /\ UNCHANGED <<pending, pid, ended, table, history, rateLimiter>>

CheckPaused(r) ==
  /\ loop[r] = "polling" /\ pending[r] > 0
  /\ ~IsOrchestratorPaused
  /\ GoTo(r, "unpaused")
  /\ UNCHANGED <<pending, pid, ended, table, history, rateLimiter>>

\* A full table sends the loop back to sleep and poll again.
CheckCapacity(r) ==
  /\ loop[r] = "unpaused"
  /\ GoTo(r, IF HasCapacity THEN "admitted" ELSE "polling")
  /\ crowded' = (crowded \/ (HasCapacity /\ \E q \in Repo \ {r} : Unregistered(q)))
  /\ UNCHANGED <<pending, pid, ended, table, stale, rateLimiter>>

\* The registry, the queue, the prompt or the command fail.
PreparationFails(r) ==
  /\ loop[r] = "admitted"
  /\ GoTo(r, "polling")
  /\ UNCHANGED <<pending, pid, ended, table, history, rateLimiter>>

\* The host gives the child any pid that is free.
Spawn(r) ==
  /\ loop[r] = "admitted"
  /\ \E p \in Pid \ alive :
       pid' = [pid EXCEPT ![r] = p] /\ alive' = alive \cup {p}
  /\ GoTo(r, "spawned")
  /\ stale' = IF IsOrchestratorPaused THEN [stale EXCEPT ![r] = @ + 1] ELSE stale
  /\ UNCHANGED <<pending, ended, process, limit, crowded, rateLimiter>>

SpawnFails(r) ==
  /\ loop[r] = "admitted"
  /\ GoTo(r, "exited")
  /\ ended' = [ended EXCEPT ![r] = "failed"]
  /\ UNCHANGED <<pending, pid, table, history, rateLimiter>>

\* ProcessManager::register replaces the entry of an earlier process.
Register(r) ==
  /\ loop[r] = "spawned"
  /\ process' = [process EXCEPT ![pid[r]] = "running"]
  /\ GoTo(r, "waiting")
  /\ UNCHANGED <<pending, pid, ended, alive, limit, history, rateLimiter>>

\* wait_with_output returns: the child is gone and its pid is free.
Reap(r, how) ==
  /\ loop[r] = "waiting"
  /\ GoTo(r, "reaped")
  /\ ended' = [ended EXCEPT ![r] = how]
  /\ alive' = alive \ {pid[r]}
  /\ UNCHANGED <<pending, pid, process, limit, history, rateLimiter>>

\* Mutation of WaitFails: the exit is not reported to the table.
WaitFailsSilently(r) ==
  /\ loop[r] = "waiting"
  /\ GoTo(r, "exited")
  /\ ended' = [ended EXCEPT ![r] = "failed"]
  /\ pid' = [pid EXCEPT ![r] = NoPid]
  /\ UNCHANGED <<pending, table, history, rateLimiter>>

\* wait_with_output fails: the child runs on and nobody waits for it.
WaitFails(r) ==
  /\ loop[r] = "waiting"
  /\ GoTo(r, "reaped")
  /\ ended' = [ended EXCEPT ![r] = "failed"]
  /\ UNCHANGED <<pending, pid, table, history, rateLimiter>>

\* ProcessManager::report_exit, of whatever entry the pid has by now.
ReportExit(r) ==
  /\ loop[r] = "reaped"
  /\ process' = [process EXCEPT ![pid[r]] = IF ended[r] = "ok" THEN "finished" ELSE "crashed"]
  /\ pid' = [pid EXCEPT ![r] = NoPid]
  /\ GoTo(r, "exited")
  /\ UNCHANGED <<pending, ended, alive, limit, history, rateLimiter>>

\* The event is acknowledged; after a failure it is queued again or, its budget
\* exhausted, buried.
Settle(r) ==
  /\ loop[r] = "exited"
  /\ GoTo(r, "polling")
  /\ \/ /\ ended[r] = "ok"
        /\ pending' = [pending EXCEPT ![r] = @ - 1]
        /\ UNCHANGED rateLimiter
     \/ /\ ended[r] = "failed"
        /\ pending' = pending \/ pending' = [pending EXCEPT ![r] = @ - 1]
        /\ ReportRateLimit
  /\ UNCHANGED <<pid, ended, table, history>>

-----------------------------------------------------------------------------
\* A child nobody waits for ends.
OrphanEnds ==
  /\ \E p \in alive : (\A r \in Repo : pid[r] # p) /\ alive' = alive \ {p}
  /\ UNCHANGED <<loop, pending, pid, ended, process, limit, history, rateLimiter>>

\* The monitor marks an entry that is too old.  It kills nothing.
TimeOut ==
  /\ \E p \in Pid : process[p] = "running" /\ process' = [process EXCEPT ![p] = "timed_out"]
  /\ UNCHANGED <<loop, pending, pid, ended, alive, limit, history, rateLimiter>>

Recover ==
  /\ ProbeSucceeds
  /\ stale' = [r \in Repo |-> 0]
  /\ UNCHANGED <<loop, pending, pid, ended, table, crowded>>

Probe ==
  /\ ProbeStarts \/ ProbeFails
  /\ UNCHANGED <<loop, pending, pid, ended, table, history>>

\* What the loop does when nothing goes wrong around it.
Step(r) ==
  \/ CheckPaused(r) \/ CheckCapacity(r)
  \/ Spawn(r) \/ Register(r) \/ ReportExit(r) \/ Settle(r)
  \/ \E how \in {"ok", "failed"} : Reap(r, how)

Next ==
  \/ \E r \in Repo : Receive(r) \/ Step(r) \/ PreparationFails(r) \/ SpawnFails(r) \/ WaitFails(r)
  \/ OrphanEnds \/ TimeOut \/ Recover \/ Probe

Spec == Init /\ [][Next]_vars

(***************************************************************************)
(* The loops and the probe's timer go on, an orchestrator ends some day,   *)
(* and the API answers some probe.  Preparing a spawn does not fail for    *)
(* ever, and pids come free.                                               *)
(***************************************************************************)
Fairness ==
  /\ \A r \in Repo : WF_vars(Step(r)) /\ SF_vars(Spawn(r))
  /\ WF_vars(Probe) /\ SF_vars(Recover)
  /\ WF_vars(OrphanEnds)

FairSpec == Spec /\ Fairness

-----------------------------------------------------------------------------
(***************************************************************************)
(* Properties.                                                             *)
(***************************************************************************)

\* Type invariant.
TypeOK ==
  /\ loop \in [Repo -> LoopStates]
  /\ pending \in [Repo -> Nat]
  /\ pid \in [Repo -> Pid \cup {NoPid}]
  /\ \A r \in Repo : loop[r] \in {"spawned", "waiting", "reaped"} <=> pid[r] # NoPid
  /\ \A r \in Repo : loop[r] # "polling" => pending[r] > 0
  /\ ended \in [Repo -> {"ok", "failed"}]
  /\ alive \subseteq Pid
  /\ process \in [Pid -> EntryStates] /\ limit \in Nat
  /\ stale \in [Repo -> Nat] /\ crowded \in BOOLEAN
  /\ tier \in Tiers /\ flag \in BOOLEAN /\ probe \in {"idle", "probing"}

\* A slot of the table is held by nobody but a loop that will report its exit:
\* whatever fails, and whichever pids the host uses again, no slot is lost.
NoSlotLeaks ==
  \A p \in Pid : process[p] = "running" =>
    \E r \in Repo : pid[r] = p /\ loop[r] \in {"waiting", "reaped"}

\* "stop feeding events" (rate_limiter.rs): from a report to the next recovery, a
\* repository gets at most the one orchestrator its loop was about to spawn.
OneStaleSpawn == \A r \in Repo : stale[r] <= 1

\* "Separate concurrency limits for orchestrators and workers" (process_manager.rs): the
\* limit is kept as long as no two loops were between their check of it and the table at
\* once, whatever is reported late, marked or registered over.  With a limit of zero, which
\* the configuration may ask for, no loop ever gets to its queue.
LimitIsKept ==
  /\ ~crowded => ActiveOrchestratorCount <= limit
  /\ limit = 0 => \A r \in Repo : loop[r] \in {"polling", "unpaused"}

\* While events are queued anywhere and one may run, an attempt at one of them comes to its end.
SomeoneIsServed ==
  (limit > 0 /\ \E r \in Repo : pending[r] > 0) ~> (\E r \in Repo : loop[r] = "exited")
=============================================================================

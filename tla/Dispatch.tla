------------------------------ MODULE Dispatch ------------------------------
(***************************************************************************)
(* `githubclaw dispatch` (cmd_dispatch, cli.rs): it looks for a receipt,   *)
(* runs a worker agent, and leaves a receipt (dispatch_receipts.rs).  The  *)
(* calls run beside each other and beside the server's drain loop, and all *)
(* note in the snapshot of their issue what they do.  Any of them may be   *)
(* killed.                                                                 *)
(*                                                                         *)
(* A key stands for the event, agent, issue and prompt of a dispatch;      *)
(* dispatches made by hand, without an event, have no receipts and are not *)
(* modelled.  The server's loop is here what it does to the snapshot       *)
(* (DrainLoop has the rest).                                               *)
(***************************************************************************)
EXTENDS Naturals, Snapshot

CONSTANTS
  Worker,        \* the calls of dispatch
  Server,        \* the server
  Key,           \* dispatch_receipt_key
  WorkerAgent,   \* WorkerAgent[k]: the agent of the dispatch
  Orchestrator,  \* the server's agent
  NoKey,
  MaxFaults,     \* bound of the model: kills, crashes and failed writes
  MaxRounds      \* bound of the model: how often the server takes an event up

ASSUME DispatchAssumption ==
  /\ Proc = Worker \cup {Server} /\ Server \notin Worker
  /\ WorkerAgent \in [Key -> Agent]
  /\ Orchestrator \in Agent
  /\ NoKey \notin Key \cup Event
  /\ MaxFaults \in Nat /\ MaxRounds \in Nat

VARIABLES
  at,        \* what a process is about to do
  key,       \* the key of a dispatch; the event the server works on
  receipts,  \* the keys with a receipt on disk
  \* history
  successes,   \* successes[k]: runs of the worker that exited 0
  worked,      \* the agents that ever exited 0
  overlapped,  \* the keys of dispatches that ran beside each other
  unrecorded,  \* the keys of a success whose receipt was not written
  abandoned,   \* the agents whose process ended without a note
  faults,      \* faults so far
  rounds       \* events the server has taken up

history == <<successes, worked, overlapped, unrecorded, abandoned, faults, rounds>>
vars == <<snapshotVars, at, key, receipts, history>>

Init ==
  /\ SnapshotInit
  /\ at = [p \in Proc |-> "idle"]
  /\ key = [p \in Proc |-> NoKey]
  /\ receipts = {}
  /\ successes = [k \in Key |-> 0]
  /\ worked = {} /\ overlapped = {} /\ unrecorded = {} /\ abandoned = {}
  /\ faults = 0 /\ rounds = 0

AgentOf(p) == IF p = Server THEN Orchestrator ELSE WorkerAgent[key[p]]

GoTo(p, label) == at' = [at EXCEPT ![p] = label]
NoHistory == UNCHANGED history
Fault == faults < MaxFaults /\ faults' = faults + 1 /\ UNCHANGED rounds

\* Where an update of the snapshot is due.
Updating == {"judging", "fresh", "duplicate", "unspawned", "succeeded", "unsuccessful"}

\* Mutation of Changed: the exit code is not looked at.
ChangedAnyhow(p, s) ==
  CASE at[p] = "judging" -> Applied(s, key[p])
    [] at[p] = "fresh"   -> Noted(s, AgentOf(p), "running")
    [] OTHER             -> Noted(s, AgentOf(p), "completed")

\* What the update makes of s.
Changed(p, s) ==
  CASE at[p] = "judging"                        -> Applied(s, key[p])
    [] at[p] = "fresh"                          -> Noted(s, AgentOf(p), "running")
    [] at[p] \in {"duplicate", "succeeded"}     -> Noted(s, AgentOf(p), "completed")
    [] at[p] \in {"unspawned", "unsuccessful"}  -> Noted(s, AgentOf(p), "failed")

\* Where the process goes on when the update has been tried.
Onwards(p) ==
  CASE at[p] = "judging" -> "judged"
    [] at[p] = "fresh" -> "preparing"
    [] at[p] = "succeeded" /\ p # Server -> "recording"
    [] OTHER -> IF p = Server THEN "idle" ELSE "ended"

-----------------------------------------------------------------------------
(***************************************************************************)
(* Updates.                                                                *)
(***************************************************************************)
LoadSnapshot(p) ==
  /\ at[p] \in Updating
  /\ Load(p, Changed(p, Read))
  /\ UNCHANGED <<at, key, receipts>> /\ NoHistory

SaveSnapshot(p) ==
  /\ Open(p) \/ Write(p)
  /\ UNCHANGED <<at, key, receipts>> /\ NoHistory

UpdateEnds(p) ==
  /\ Rename(p, Changed(p, truth))
  /\ GoTo(p, Onwards(p))
  /\ UNCHANGED <<key, receipts>> /\ NoHistory

\* The save fails, and the caller goes on all the same.  (A rename that fails
\* leaves on disk what a kill before it leaves.)
UpdateFails(p) ==
  /\ step[p] \in {"loaded", "opened"}
  /\ Fault
  /\ Abandon(p)
  /\ GoTo(p, Onwards(p))
  /\ abandoned' = abandoned \cup {AgentOf(p)}
  /\ UNCHANGED <<key, receipts, successes, worked, overlapped, unrecorded>>

-----------------------------------------------------------------------------
(***************************************************************************)
(* The dispatch.                                                           *)
(***************************************************************************)
Called(k) == {w \in Worker : key[w] = k /\ at[w] \notin {"idle", "ended"}}

Call(w, k) ==
  /\ at[w] = "idle"
  /\ key' = [key EXCEPT ![w] = k]
  /\ GoTo(w, "called")
  /\ overlapped' = IF Called(k) = {} THEN overlapped ELSE overlapped \cup {k}
  /\ UNCHANGED <<snapshotVars, receipts, successes, worked, unrecorded, abandoned, faults, rounds>>

\* Mutation of CheckReceipt: the receipt is not looked for.
CheckNoReceipt(w) ==
  /\ at[w] = "called"
  /\ GoTo(w, "fresh")
  /\ UNCHANGED <<snapshotVars, key, receipts>> /\ NoHistory

\* has_receipt
CheckReceipt(w) ==
  /\ at[w] = "called"
  /\ GoTo(w, IF key[w] \in receipts THEN "duplicate" ELSE "fresh")
  /\ UNCHANGED <<snapshotVars, key, receipts>> /\ NoHistory

\* The agent's definition, its prompt or the command fail: exit, with no note.
PreparationFails(w) ==
  /\ at[w] = "preparing"
  /\ Fault
  /\ GoTo(w, "ended")
  /\ abandoned' = abandoned \cup {AgentOf(w)}
  /\ UNCHANGED <<snapshotVars, key, receipts, successes, worked, overlapped, unrecorded>>

\* Mutation of Spawn: a failed spawn is not noted.
SpawnSilently(p) ==
  /\ at[p] = "preparing"
  /\ GoTo(p, "running") \/ GoTo(p, IF p = Server THEN "idle" ELSE "ended")
  /\ UNCHANGED <<snapshotVars, key, receipts>> /\ NoHistory

Spawn(p) ==
  /\ at[p] = "preparing"
  /\ GoTo(p, "running") \/ GoTo(p, "unspawned")
  /\ UNCHANGED <<snapshotVars, key, receipts>> /\ NoHistory

\* History: the agent of p has exited 0.
Success(p) ==
  /\ worked' = worked \cup {AgentOf(p)}
  /\ successes' = IF p = Server THEN successes
                  ELSE [successes EXCEPT ![key[p]] = @ + 1]

\* Mutation of AgentEnds: every exit counts as a success.
AgentEndsAnyhow(p) ==
  /\ at[p] = "running"
  /\ GoTo(p, "succeeded")
  /\ Success(p) \/ UNCHANGED <<worked, successes>>
  /\ UNCHANGED <<snapshotVars, key, receipts, overlapped, unrecorded, abandoned, faults, rounds>>

AgentEnds(p) ==
  /\ at[p] = "running"
  /\ \/ GoTo(p, "succeeded") /\ Success(p)
     \/ GoTo(p, "unsuccessful") /\ UNCHANGED <<worked, successes>>
  /\ UNCHANGED <<snapshotVars, key, receipts, overlapped, unrecorded, abandoned, faults, rounds>>

\* record_success
Record(w) ==
  /\ at[w] = "recording"
  /\ GoTo(w, "ended")
  /\ receipts' = receipts \cup {key[w]}
  /\ UNCHANGED <<snapshotVars, key>> /\ NoHistory

RecordFails(w) ==
  /\ at[w] = "recording"
  /\ Fault
  /\ GoTo(w, "ended")
  /\ unrecorded' = unrecorded \cup {key[w]}
  /\ UNCHANGED <<snapshotVars, key, receipts, successes, worked, overlapped, abandoned>>

\* The call is killed.  Its agent may have finished, or finish its work.
Kill(w) ==
  /\ at[w] \notin {"idle", "ended"}
  /\ Fault
  /\ Abandon(w)
  /\ GoTo(w, "ended")
  /\ \/ /\ at[w] = "running" /\ Success(w)
        /\ unrecorded' = unrecorded \cup {key[w]}
     \/ /\ UNCHANGED <<successes, worked>>
        /\ unrecorded' = IF at[w] \in {"succeeded", "recording"}
                         THEN unrecorded \cup {key[w]} ELSE unrecorded
  /\ abandoned' = abandoned \cup {AgentOf(w)}
  /\ UNCHANGED <<key, receipts, overlapped>>

-----------------------------------------------------------------------------
(***************************************************************************)
(* The server.                                                             *)
(***************************************************************************)

\* The event at the head is applied to the snapshot of its issue, and again
\* whenever the loop, paused or out of slots, comes back to it.
Judge(e) ==
  /\ at[Server] = "idle"
  /\ GoTo(Server, "judging")
  /\ key' = [key EXCEPT ![Server] = e]
  /\ rounds < MaxRounds /\ rounds' = rounds + 1
  /\ UNCHANGED <<snapshotVars, receipts, successes, worked, overlapped, unrecorded,
                 abandoned, faults>>

StartsOver ==
  /\ at[Server] = "judged"
  /\ GoTo(Server, "idle")
  /\ UNCHANGED <<snapshotVars, key, receipts>> /\ NoHistory

Reserve ==
  /\ at[Server] = "judged"
  /\ GoTo(Server, "fresh")
  /\ UNCHANGED <<snapshotVars, key, receipts>> /\ NoHistory

Crash ==
  /\ at[Server] # "idle"
  /\ Fault
  /\ Abandon(Server)
  /\ GoTo(Server, "idle")
  /\ abandoned' = abandoned \cup {Orchestrator}
  /\ UNCHANGED <<key, receipts, successes, worked, overlapped, unrecorded>>

-----------------------------------------------------------------------------
Next ==
  \/ \E w \in Worker, k \in Key : Call(w, k)
  \/ \E w \in Worker : CheckReceipt(w) \/ Record(w)
  \/ \E w \in Worker : PreparationFails(w) \/ RecordFails(w) \/ Kill(w)
  \/ \E p \in Proc : LoadSnapshot(p) \/ SaveSnapshot(p) \/ UpdateEnds(p) \/ UpdateFails(p)
  \/ \E p \in Proc : Spawn(p) \/ AgentEnds(p)
  \/ \E e \in Event : Judge(e)
  \/ StartsOver \/ Reserve \/ Crash

Spec == Init /\ [][Next]_vars

-----------------------------------------------------------------------------
(***************************************************************************)
(* Properties.                                                             *)
(***************************************************************************)

\* Type invariant.
TypeOK ==
  /\ SnapshotTypeOK
  /\ at \in [Proc -> Updating \cup {"idle", "called", "judged", "preparing", "running",
                                    "recording", "ended"}]
  /\ \A w \in Worker : IF at[w] = "idle" THEN key[w] = NoKey ELSE key[w] \in Key
  /\ key[Server] \in Event \cup {NoKey} /\ DOMAIN key = Proc
  /\ \A p \in Proc : step[p] # "none" => at[p] \in Updating
  /\ receipts \subseteq Key
  /\ successes \in [Key -> Nat]
  /\ worked \subseteq Agent /\ abandoned \subseteq Agent
  /\ overlapped \subseteq Key /\ unrecorded \subseteq Key
  /\ faults \in 0 .. MaxFaults /\ rounds \in 0 .. MaxRounds

\* A dispatch is skipped only if its work was done: a receipt has a success
\* behind it.
ReceiptIsEarned == \A k \in receipts : successes[k] > 0

\* "detect that an identical dispatch has already succeeded and skip re-running
\* it" (dispatch_receipts.rs): a worker succeeds once for a key, unless two calls
\* overlapped or a success was left without a receipt.
RunOnce == \A k \in Key \ (overlapped \cup unrecorded) : successes[k] <= 1

\* An agent that is shown as completed has succeeded, however the updates of
\* several processes overlapped and whatever was killed; the analyst may be shown
\* so for a summary instead, which the same snapshot has taken in then.
CompletedIsTrue ==
  \A a \in Agent : Read.session[a] = "completed" =>
    a \in worked \/ (a = Analyst /\ Read.seen \cap Summaries # {})

\* An agent that is shown as running has a process that will note its end, unless
\* one was killed or gave up without a note, or updates overlapped.
RunningIsAlive ==
  \A a \in Agent \ abandoned :
    ~raced /\ Read.session[a] = "running" =>
      \E p \in Proc : at[p] \in {"preparing", "running"} \cup Updating /\ AgentOf(p) = a
=============================================================================

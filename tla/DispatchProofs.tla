--------------------------- MODULE DispatchProofs ---------------------------
(***************************************************************************)
(* The properties of Dispatch, for any workers, keys, agents and events.   *)
(***************************************************************************)
EXTENDS Dispatch, TLAPS

\* Where the server and the workers can be.
Places ==
  /\ \A w \in Worker : at[w] \notin {"judging", "judged"}
  /\ at[Server] \notin {"called", "duplicate", "recording", "ended"}
  /\ at[Server] # "idle" => key[Server] \in Event

Typed == TypeOK /\ Places

\* The agent of a process that is at work.
LEMMA AgentOfType ==
  ASSUME Typed, NEW p \in Proc, at[p] # "idle"
  PROVE  AgentOf(p) \in Agent
BY DispatchAssumption DEF Typed, TypeOK, AgentOf

\* A note changes one session.
LEMMA NotedIs ==
  ASSUME NEW s \in Snapshots, NEW a \in Agent, NEW st \in Status
  PROVE  /\ Noted(s, a, st) \in Snapshots
         /\ Noted(s, a, st).seen = s.seen
         /\ Noted(s, a, st).session[a] = st
         /\ \A b \in Agent : b # a => Noted(s, a, st).session[b] = s.session[b]
BY DEF Snapshots, Noted, Status

\* An event is remembered, and a summary completes the analyst and no other.
LEMMA AppliedIs ==
  ASSUME NEW s \in Snapshots, NEW e \in Event
  PROVE  /\ Applied(s, e) \in Snapshots
         /\ Applied(s, e).seen = s.seen \cup {e}
         /\ \A b \in Agent : Applied(s, e).session[b] =
              IF b = Analyst /\ e \in Summaries THEN "completed" ELSE s.session[b]
<1>1. CASE e \in Summaries
  BY <1>1, SnapshotAssumption DEF Snapshots, Applied, Status
<1>2. CASE e \notin Summaries
  BY <1>2 DEF Snapshots, Applied
<1> QED
  BY <1>1, <1>2

\* What the update of a process notes of its agent.
After(label) ==
  CASE label = "fresh"                         -> "running"
    [] label \in {"duplicate", "succeeded"}    -> "completed"
    [] label \in {"unspawned", "unsuccessful"} -> "failed"

\* A note changes the session of the agent of its process.
LEMMA ChangedIs ==
  ASSUME Typed, NEW p \in Proc, at[p] \in Updating, NEW s \in Snapshots
  PROVE  /\ Changed(p, s) \in Snapshots
         /\ at[p] = "judging" =>
              key[p] \in Event /\ Changed(p, s) = Applied(s, key[p])
         /\ at[p] # "judging" =>
              /\ Changed(p, s).seen = s.seen
              /\ Changed(p, s).session[AgentOf(p)] = After(at[p])
              /\ \A b \in Agent : b # AgentOf(p) => Changed(p, s).session[b] = s.session[b]
<1>1. AgentOf(p) \in Agent
  BY AgentOfType DEF Updating
<1>2. CASE at[p] = "judging"
  <2>1. key[p] \in Event
    BY <1>2, DispatchAssumption DEF Typed, Places
  <2> QED
    BY <1>2, <2>1, AppliedIs DEF Changed
<1>3. CASE at[p] = "fresh"
  BY <1>1, <1>3, NotedIs DEF Changed, After, Status
<1>4. CASE at[p] \in {"duplicate", "succeeded"}
  <2>1. Changed(p, s) = Noted(s, AgentOf(p), "completed")
    BY <1>4 DEF Changed
  <2>2. After(at[p]) = "completed"
    BY <1>4 DEF After
  <2>3. "completed" \in Status
    BY DEF Status
  <2> QED
    BY <1>1, <1>4, <2>1, <2>2, <2>3, NotedIs
<1>5. CASE at[p] \in {"unspawned", "unsuccessful"}
  <2>1. Changed(p, s) = Noted(s, AgentOf(p), "failed")
    BY <1>5 DEF Changed
  <2>2. After(at[p]) = "failed"
    BY <1>5 DEF After
  <2>3. "failed" \in Status
    BY DEF Status
  <2> QED
    BY <1>1, <1>5, <2>1, <2>2, <2>3, NotedIs
<1> QED
  BY <1>2, <1>3, <1>4, <1>5 DEF Updating

\* A new snapshot shows nothing.
LEMMA NewSnapshotIs ==
  NewSnapshot \in Snapshots /\ \A a \in Agent : NewSnapshot.session[a] = "none"
BY DEF NewSnapshot, Snapshots, Status

\* What is read is a snapshot.
LEMMA ReadType == SnapshotTypeOK => Read \in Snapshots
BY NewSnapshotIs DEF SnapshotTypeOK, Read, NoSnapshot

-----------------------------------------------------------------------------
(***************************************************************************)
(* Types.                                                                  *)
(***************************************************************************)

\* The steps of an update keep the types of the snapshot.
LEMMA UpdateTypes ==
  ASSUME SnapshotTypeOK, NEW p \in Proc, NEW s \in Snapshots,
         Load(p, s) \/ Open(p) \/ Write(p) \/ Rename(p, s) \/ Abandon(p)
  PROVE  SnapshotTypeOK'
<1> USE NewSnapshotIs DEF SnapshotTypeOK, disk
<1>1. CASE Load(p, s)
  BY <1>1 DEF Load
<1>2. CASE Open(p)
  BY <1>2 DEF Open, NoSnapshot
<1>3. CASE Write(p)
  BY <1>3 DEF Write, Written, NoSnapshot
<1>4. CASE Rename(p, s)
  <2>1. \A q \in Proc : Renamed(fd[q]) \in {"none", "tmp", "file", "gone"}
    BY DEF Renamed
  <2> QED
    BY <1>4, <2>1 DEF Rename, NoSnapshot
<1>5. CASE Abandon(p)
  BY <1>5 DEF Abandon
<1> QED
  BY <1>1, <1>2, <1>3, <1>4, <1>5

\* The initial state is typed.
LEMMA InitTyped == Init => Typed
<1> SUFFICES ASSUME Init PROVE Typed
  OBVIOUS
<1> USE DispatchAssumption
<1>1. SnapshotTypeOK
  BY NewSnapshotIs DEF Init, SnapshotInit, SnapshotTypeOK, NoSnapshot
<1>2. TypeOK
  BY <1>1 DEF Init, SnapshotInit, TypeOK
<1>3. Places
  BY DEF Init, Places
<1> QED
  BY <1>2, <1>3 DEF Typed

\* Where a process goes on is a place it can be at.
LEMMA OnwardsIs ==
  ASSUME NEW p \in Proc, at[p] \in Updating
  PROVE  /\ at[p] = "judging" => Onwards(p) = "judged"
         /\ at[p] = "fresh" => Onwards(p) = "preparing"
         /\ at[p] = "succeeded" /\ p # Server => Onwards(p) = "recording"
         /\ at[p] \notin {"judging", "fresh"} /\ ~(at[p] = "succeeded" /\ p # Server)
              => Onwards(p) = IF p = Server THEN "idle" ELSE "ended"
BY DEF Onwards, Updating

\* Updates keep the types.
LEMMA UpdatesKeepTypes ==
  ASSUME Typed, NEW p \in Proc,
         LoadSnapshot(p) \/ SaveSnapshot(p) \/ UpdateEnds(p) \/ UpdateFails(p)
  PROVE  Typed'
<1> USE DispatchAssumption DEF Typed, TypeOK, Places, history, NoHistory, GoTo
<1>1. SnapshotTypeOK /\ Read \in Snapshots /\ truth \in Snapshots
  BY ReadType DEF SnapshotTypeOK
<1>2. CASE LoadSnapshot(p)
  <2>1. Load(p, Changed(p, Read)) /\ at[p] \in Updating /\ Changed(p, Read) \in Snapshots
    BY <1>1, <1>2, ChangedIs DEF LoadSnapshot
  <2>2. SnapshotTypeOK'
    BY <1>1, <2>1, UpdateTypes
  <2> QED
    BY <1>2, <2>1, <2>2 DEF LoadSnapshot, Load
<1>3. CASE SaveSnapshot(p)
  <2>1. SnapshotTypeOK'
    BY <1>1, <1>3, UpdateTypes DEF SaveSnapshot
  <2>2. \A q \in Proc : step'[q] # "none" => step[q] # "none"
    BY <1>3 DEF SaveSnapshot, Open, Write, SnapshotTypeOK
  <2> QED
    BY <1>3, <2>1, <2>2 DEF SaveSnapshot
<1>4. CASE UpdateEnds(p)
  <2>1. at[p] \in Updating /\ Changed(p, truth) \in Snapshots /\ Rename(p, Changed(p, truth))
    BY <1>1, <1>4, ChangedIs DEF UpdateEnds, Rename
  <2>2. SnapshotTypeOK'
    BY <1>1, <2>1, UpdateTypes
  <2>3. step' = [step EXCEPT ![p] = "none"]
    BY <2>1 DEF Rename
  <2> QED
    BY <1>4, <2>1, <2>2, <2>3, OnwardsIs DEF UpdateEnds, Updating, SnapshotTypeOK
<1>5. CASE UpdateFails(p)
  <2>1. at[p] \in Updating /\ Abandon(p)
    BY <1>5 DEF UpdateFails
  <2>2. SnapshotTypeOK'
    BY <1>1, <2>1, UpdateTypes
  <2>3. step' = [step EXCEPT ![p] = "none"]
    BY <2>1 DEF Abandon
  <2>4. AgentOf(p) \in Agent
    BY <2>1, AgentOfType DEF Updating
  <2> QED
    BY <1>5, <2>1, <2>2, <2>3, <2>4, OnwardsIs DEF UpdateFails, Fault, Updating, SnapshotTypeOK
<1> QED
  BY <1>2, <1>3, <1>4, <1>5

\* So do the other steps.
LEMMA OtherStepsKeepTypes ==
  ASSUME Typed,
         \/ \E w \in Worker, k \in Key : Call(w, k)
         \/ \E w \in Worker : CheckReceipt(w) \/ Record(w)
         \/ \E w \in Worker : PreparationFails(w) \/ RecordFails(w) \/ Kill(w)
         \/ \E p \in Proc : Spawn(p) \/ AgentEnds(p)
         \/ \E e \in Event : Judge(e)
         \/ StartsOver \/ Reserve \/ Crash
  PROVE  Typed'
<1> USE DispatchAssumption
    DEF Typed, TypeOK, Places, history, NoHistory, GoTo, snapshotVars, disk, SnapshotTypeOK,
        Fault, Updating
<1>1. ASSUME NEW w \in Worker, NEW k \in Key, Call(w, k) PROVE Typed'
  BY <1>1 DEF Call
<1>2. ASSUME NEW w \in Worker, CheckReceipt(w) PROVE Typed'
  BY <1>2 DEF CheckReceipt
<1>3. ASSUME NEW w \in Worker, Record(w) PROVE Typed'
  BY <1>3 DEF Record
<1>4. ASSUME NEW w \in Worker, PreparationFails(w) PROVE Typed'
  BY <1>4, AgentOfType DEF PreparationFails
<1>5. ASSUME NEW w \in Worker, RecordFails(w) PROVE Typed'
  BY <1>5 DEF RecordFails
<1>6. ASSUME NEW w \in Worker, Kill(w) PROVE Typed'
  <2>1. AgentOf(w) \in Agent /\ key[w] \in Key
    BY <1>6, AgentOfType DEF Kill
  <2>2. SnapshotTypeOK'
    BY <1>6, NewSnapshotIs, UpdateTypes DEF Kill
  <2>3. /\ worked' \subseteq Agent /\ unrecorded' \subseteq Key
        /\ successes' \in [Key -> Nat]
    BY <1>6, <2>1 DEF Kill, Success
  <2>4. step' = [step EXCEPT ![w] = "none"]
    BY <1>6 DEF Kill, Abandon
  <2> QED
    BY <1>6, <2>1, <2>2, <2>3, <2>4 DEF Kill
<1>7. ASSUME NEW p \in Proc, Spawn(p) PROVE Typed'
  BY <1>7 DEF Spawn
<1>8. ASSUME NEW p \in Proc, AgentEnds(p) PROVE Typed'
  <2>1. AgentOf(p) \in Agent
    BY <1>8, AgentOfType DEF AgentEnds
  <2>2. p # Server => key[p] \in Key
    BY <1>8 DEF AgentEnds
  <2>3. worked' \subseteq Agent /\ successes' \in [Key -> Nat]
    BY <1>8, <2>1, <2>2 DEF AgentEnds, Success
  <2> QED
    BY <1>8, <2>3 DEF AgentEnds
<1>9. ASSUME NEW e \in Event, Judge(e) PROVE Typed'
  BY <1>9 DEF Judge
<1>10. CASE StartsOver
  BY <1>10 DEF StartsOver
<1>11. CASE Reserve
  BY <1>11 DEF Reserve
<1>12. CASE Crash
  <2>1. SnapshotTypeOK'
    BY <1>12, NewSnapshotIs, UpdateTypes DEF Crash
  <2>2. step' = [step EXCEPT ![Server] = "none"]
    BY <1>12 DEF Crash, Abandon
  <2> QED
    BY <1>12, <2>1, <2>2 DEF Crash
<1> QED
  BY <1>1, <1>2, <1>3, <1>4, <1>5, <1>6, <1>7, <1>8, <1>9, <1>10, <1>11, <1>12

\* Type correctness.
LEMMA StepsKeepTypes == Typed /\ [Next]_vars => Typed'
<1> SUFFICES ASSUME Typed, [Next]_vars PROVE Typed'
  OBVIOUS
<1>1. CASE UNCHANGED vars
  BY <1>1 DEF vars, snapshotVars, disk, history, Typed, TypeOK, Places, SnapshotTypeOK
<1>2. ASSUME NEW p \in Proc,
             LoadSnapshot(p) \/ SaveSnapshot(p) \/ UpdateEnds(p) \/ UpdateFails(p)
      PROVE  Typed'
  BY <1>2, UpdatesKeepTypes
<1> QED
  BY <1>1, <1>2, OtherStepsKeepTypes DEF Next

\* Every state is typed: what is on disk is a snapshot, nothing, or a file cut
\* short or mixed, and a process has a file open only within an update.
THEOREM TypeCorrectness == Spec => []TypeOK
<1>1. Typed => TypeOK
  BY DEF Typed
<1> QED
  BY <1>1, InitTyped, StepsKeepTypes, PTL DEF Spec

-----------------------------------------------------------------------------
(***************************************************************************)
(* Receipts and notes have a success behind them.                          *)
(***************************************************************************)

\* What a place says of successes and receipts.
Earned ==
  /\ ReceiptIsEarned
  /\ \A w \in Worker : at[w] = "duplicate" => key[w] \in receipts
  /\ \A w \in Worker : at[w] \in {"succeeded", "recording"} => successes[key[w]] > 0
  /\ \A k \in Key : successes[k] > 0 => WorkerAgent[k] \in worked
  /\ at[Server] = "succeeded" => Orchestrator \in worked

\* A snapshot shows agents as completed that have succeeded, and the analyst also
\* for a summary it has taken in.
Truthful(s) ==
  \A a \in Agent : s.session[a] = "completed" =>
    a \in worked \/ (a = Analyst /\ s.seen \cap Summaries # {})

\* So do all snapshots, on disk and in memory.
Shown ==
  /\ file \in Snapshots => Truthful(file)
  /\ tmp \in Snapshots => Truthful(tmp)
  /\ \A p \in Proc : Truthful(copy[p])

\* Steps that keep places, receipts and successes earned.
LEMMA EarnedInductive == Typed /\ Earned /\ [Next]_vars => Earned'
<1> SUFFICES ASSUME Typed, Earned, [Next]_vars PROVE Earned'
  OBVIOUS
<1> USE DispatchAssumption
    DEF Typed, TypeOK, Places, history, NoHistory, GoTo, Earned, ReceiptIsEarned, Fault
<1>1. ASSUME NEW w \in Worker, NEW k \in Key, Call(w, k) PROVE Earned'
  BY <1>1 DEF Call
<1>2. ASSUME NEW w \in Worker, CheckReceipt(w) PROVE Earned'
  BY <1>2 DEF CheckReceipt
<1>3. ASSUME NEW w \in Worker, Record(w) PROVE Earned'
  BY <1>3 DEF Record
<1>4. ASSUME NEW w \in Worker, PreparationFails(w) PROVE Earned'
  BY <1>4 DEF PreparationFails
<1>5. ASSUME NEW w \in Worker, RecordFails(w) PROVE Earned'
  BY <1>5 DEF RecordFails
<1>6. ASSUME NEW w \in Worker, Kill(w) PROVE Earned'
  BY <1>6 DEF Kill, Success, AgentOf
<1>7. ASSUME NEW p \in Proc, Spawn(p) PROVE Earned'
  BY <1>7 DEF Spawn
<1>8. ASSUME NEW p \in Proc, AgentEnds(p) PROVE Earned'
  BY <1>8 DEF AgentEnds, Success, AgentOf
<1>9. ASSUME NEW e \in Event, Judge(e) PROVE Earned'
  BY <1>9 DEF Judge
<1>10. CASE StartsOver \/ Reserve \/ Crash
  BY <1>10 DEF StartsOver, Reserve, Crash
<1>11. ASSUME NEW p \in Proc, LoadSnapshot(p) \/ SaveSnapshot(p) PROVE Earned'
  BY <1>11 DEF LoadSnapshot, SaveSnapshot
<1>12. ASSUME NEW p \in Proc, UpdateEnds(p) \/ UpdateFails(p) PROVE Earned'
  <2>1. at[p] \in Updating
    BY <1>12 DEF UpdateEnds, UpdateFails, Rename
  <2> QED
    BY <1>12, <2>1, OnwardsIs DEF UpdateEnds, UpdateFails
<1>13. CASE UNCHANGED vars
  BY <1>13 DEF vars
<1> QED
  BY <1>1, <1>2, <1>3, <1>4, <1>5, <1>6, <1>7, <1>8, <1>9, <1>10, <1>11, <1>12, <1>13
     DEF Next

\* An update notes what is earned.
LEMMA ChangedIsTruthful ==
  ASSUME Typed, Earned, NEW p \in Proc, at[p] \in Updating,
         NEW s \in Snapshots, Truthful(s)
  PROVE  Truthful(Changed(p, s))
<1>1. at[p] # "judging" /\ After(at[p]) = "completed" => at[p] \in {"duplicate", "succeeded"}
  <2>1. at[p] = "fresh" => After(at[p]) = "running"
    BY DEF After
  <2>2. at[p] \in {"unspawned", "unsuccessful"} => After(at[p]) = "failed"
    BY DEF After
  <2> QED
    BY <2>1, <2>2 DEF Updating
<1>2. at[p] \in {"duplicate", "succeeded"} => AgentOf(p) \in worked
  BY DispatchAssumption
     DEF Typed, TypeOK, Places, Earned, ReceiptIsEarned, AgentOf
<1>3. AgentOf(p) \in Agent
  BY AgentOfType DEF Updating
<1>4. CASE at[p] = "judging"
  <2>1. key[p] \in Event /\ Changed(p, s) = Applied(s, key[p])
    BY <1>4, ChangedIs
  <2>2. key[p] \in Summaries => Applied(s, key[p]).seen \cap Summaries # {}
    BY <2>1, AppliedIs
  <2>3. s.seen \cap Summaries # {} => Applied(s, key[p]).seen \cap Summaries # {}
    BY <2>1, AppliedIs
  <2> QED
    BY <2>1, <2>2, <2>3, AppliedIs DEF Truthful
<1>5. CASE at[p] # "judging"
  BY <1>1, <1>2, <1>3, <1>5, ChangedIs DEF Truthful
<1> QED
  BY <1>4, <1>5

\* The steps of an update keep what is shown.
LEMMA UpdateKeepsShown ==
  ASSUME SnapshotTypeOK, Shown, worked \subseteq worked', NEW p \in Proc, NEW s \in Snapshots,
         (Load(p, s) /\ Truthful(s)) \/ Open(p) \/ Write(p) \/ Rename(p, s) \/ Abandon(p)
  PROVE  Shown'
<1> USE NewSnapshotIs, SnapshotAssumption DEF SnapshotTypeOK, disk, Shown, Truthful, NoSnapshot
<1>1. CASE Load(p, s) /\ Truthful(s)
  BY <1>1 DEF Load
<1>2. CASE Open(p)
  BY <1>2 DEF Open
<1>3. CASE Write(p)
  BY <1>3 DEF Write, Written
<1>4. CASE Rename(p, s)
  BY <1>4 DEF Rename
<1>5. CASE Abandon(p)
  BY <1>5 DEF Abandon
<1> QED
  BY <1>1, <1>2, <1>3, <1>4, <1>5

\* Every step keeps what is shown.
LEMMA ShownInductive == Typed /\ Earned /\ Shown /\ [Next]_vars => Shown'
<1> SUFFICES ASSUME Typed, Earned, Shown, [Next]_vars PROVE Shown'
  OBVIOUS
<1>1. SnapshotTypeOK /\ Read \in Snapshots /\ truth \in Snapshots
  BY ReadType DEF Typed, TypeOK, SnapshotTypeOK
<1>2. worked \subseteq worked'
  BY DEF Next, vars, history, NoHistory, Call, CheckReceipt, Record, PreparationFails,
         RecordFails, Kill, Success, LoadSnapshot, SaveSnapshot, UpdateEnds, UpdateFails,
         Spawn, AgentEnds, Judge, StartsOver, Reserve, Crash
<1>3. ASSUME UNCHANGED snapshotVars PROVE Shown'
  BY <1>2, <1>3 DEF Shown, Truthful, snapshotVars, disk
<1>4. ASSUME NEW w \in Worker, Kill(w) PROVE Shown'
  BY <1>1, <1>2, <1>4, UpdateKeepsShown, DispatchAssumption DEF Kill
<1>5. CASE Crash
  BY <1>1, <1>2, <1>5, UpdateKeepsShown, DispatchAssumption DEF Crash
<1>6. ASSUME NEW p \in Proc, LoadSnapshot(p) PROVE Shown'
  <2>1. Truthful(Read)
    BY NewSnapshotIs DEF Read, Shown, Truthful, Typed, TypeOK, SnapshotTypeOK
  <2>2. /\ Changed(p, Read) \in Snapshots /\ Truthful(Changed(p, Read))
        /\ Load(p, Changed(p, Read))
    BY <1>1, <1>6, <2>1, ChangedIs, ChangedIsTruthful DEF LoadSnapshot
  <2> QED
    BY <1>1, <1>2, <2>2, UpdateKeepsShown
<1>7. ASSUME NEW p \in Proc, SaveSnapshot(p) \/ UpdateFails(p) PROVE Shown'
  BY <1>1, <1>2, <1>7, UpdateKeepsShown DEF SaveSnapshot, UpdateFails
<1>8. ASSUME NEW p \in Proc, UpdateEnds(p) PROVE Shown'
  <2>1. Changed(p, truth) \in Snapshots /\ Rename(p, Changed(p, truth))
    BY <1>1, <1>8, ChangedIs DEF UpdateEnds, Rename, Typed, TypeOK
  <2> QED
    BY <1>1, <1>2, <2>1, UpdateKeepsShown
<1> QED
  BY <1>3, <1>4, <1>5, <1>6, <1>7, <1>8
     DEF Next, vars, Call, CheckReceipt, Record, PreparationFails, RecordFails, Spawn,
         AgentEnds, Judge, StartsOver, Reserve

\* The initial state is earned and shows nothing.
LEMMA InitEarned == Init => Earned /\ Shown
<1> SUFFICES ASSUME Init PROVE Earned /\ Shown
  OBVIOUS
<1>1. Earned
  BY DispatchAssumption DEF Init, Earned, ReceiptIsEarned
<1>2. Missing \notin Snapshots
  BY SnapshotAssumption DEF NoSnapshot
<1>3. Shown
  BY <1>2, NewSnapshotIs DEF Init, SnapshotInit, Shown, Truthful
<1> QED
  BY <1>1, <1>3

\* A dispatch is skipped only if its work was done.
THEOREM ReceiptsAreEarned == Spec => []ReceiptIsEarned
<1>1. Earned => ReceiptIsEarned
  BY DEF Earned
<1> QED
  BY <1>1, InitTyped, InitEarned, StepsKeepTypes, EarnedInductive, PTL DEF Spec

\* An agent that is shown as completed has succeeded, whichever updates overlap
\* and whatever is killed, or it is the analyst and the snapshot that shows it so
\* has taken in a summary.
THEOREM CompletedAgentsSucceeded == Spec => []CompletedIsTrue
<1>1. Typed /\ Shown => CompletedIsTrue
  BY NewSnapshotIs DEF Typed, TypeOK, SnapshotTypeOK, Shown, Truthful, CompletedIsTrue, Read
<1> QED
  BY <1>1, InitTyped, InitEarned, StepsKeepTypes, EarnedInductive, ShownInductive, PTL DEF Spec

-----------------------------------------------------------------------------
(***************************************************************************)
(* One success for a key.                                                  *)
(***************************************************************************)

\* The calls of dispatches that never overlapped: at most one at a time, and a
\* success is followed by its receipt before another call asks for it.
Once ==
  /\ \A k \in Key \ overlapped : \A v, w \in Called(k) : v = w
  /\ \A k \in Key \ (overlapped \cup unrecorded) :
       /\ successes[k] <= 1
       /\ successes[k] > 0 =>
            k \in receipts \/ \E w \in Called(k) : at[w] \in {"succeeded", "recording"}
       /\ \A w \in Called(k) :
            at[w] \in {"fresh", "preparing", "running"} => successes[k] = 0

\* Every step keeps this.
LEMMA OnceInductive == Typed /\ Earned /\ Once /\ [Next]_vars => Once'
<1> SUFFICES ASSUME Typed, Earned, Once, [Next]_vars PROVE Once'
  OBVIOUS
<1> USE DispatchAssumption
    DEF Typed, TypeOK, Places, history, NoHistory, GoTo, Once, Called, Fault
<1>1. ASSUME NEW w \in Worker, NEW k \in Key, Call(w, k) PROVE Once'
  BY <1>1 DEF Call
<1>2. ASSUME NEW w \in Worker, CheckReceipt(w) PROVE Once'
  BY <1>2 DEF CheckReceipt
<1>3. ASSUME NEW w \in Worker, Record(w) PROVE Once'
  BY <1>3 DEF Record
<1>4. ASSUME NEW w \in Worker, PreparationFails(w) PROVE Once'
  BY <1>4 DEF PreparationFails
<1>5. ASSUME NEW w \in Worker, RecordFails(w) PROVE Once'
  BY <1>5 DEF RecordFails
<1>6. ASSUME NEW w \in Worker, Kill(w) PROVE Once'
  BY <1>6 DEF Kill, Success
<1>7. ASSUME NEW p \in Proc, Spawn(p) PROVE Once'
  BY <1>7 DEF Spawn
<1>8. ASSUME NEW p \in Proc, AgentEnds(p) PROVE Once'
  BY <1>8 DEF AgentEnds, Success
<1>9. ASSUME NEW e \in Event, Judge(e) PROVE Once'
  BY <1>9 DEF Judge
<1>10. CASE StartsOver \/ Reserve \/ Crash
  BY <1>10 DEF StartsOver, Reserve, Crash
<1>11. ASSUME NEW p \in Proc, LoadSnapshot(p) \/ SaveSnapshot(p) PROVE Once'
  BY <1>11 DEF LoadSnapshot, SaveSnapshot
<1>12. ASSUME NEW p \in Proc, UpdateEnds(p) \/ UpdateFails(p) PROVE Once'
  <2>1. at[p] \in Updating
    BY <1>12 DEF UpdateEnds, UpdateFails, Rename
  <2> QED
    BY <1>12, <2>1, OnwardsIs DEF UpdateEnds, UpdateFails, Updating
<1>13. CASE UNCHANGED vars
  BY <1>13 DEF vars
<1> QED
  BY <1>1, <1>2, <1>3, <1>4, <1>5, <1>6, <1>7, <1>8, <1>9, <1>10, <1>11, <1>12, <1>13
     DEF Next

\* A worker succeeds once for a key, unless two calls overlapped or a success was
\* left without a receipt.
THEOREM WorkersRunOnce == Spec => []RunOnce
<1>1. Init => Once
  BY DispatchAssumption DEF Init, Once, Called
<1>2. Once => RunOnce
  BY DEF Once, RunOnce
<1> QED
  BY <1>1, <1>2, InitTyped, InitEarned, StepsKeepTypes, EarnedInductive, OnceInductive, PTL
     DEF Spec

-----------------------------------------------------------------------------
(***************************************************************************)
(* Updates that do not overlap.                                            *)
(***************************************************************************)

\* As long as no updates overlap, one process updates at a time, and its copy and
\* the temporary file are what they should be at each of its steps.
Alone ==
  ~raced =>
    /\ \A p, q \in Proc : step[p] # "none" /\ step[q] # "none" => p = q
    /\ Read = truth
    /\ \A p \in Proc :
         /\ fd[p] = IF step[p] = "opened" THEN "tmp" ELSE "none"
         /\ step[p] # "none" => copy[p] = Changed(p, truth)
         /\ step[p] = "opened" => tmp = Empty
         /\ step[p] = "written" => tmp = copy[p]

\* Past the note that it has started, and before the note that it has ended.
Working == {"preparing", "running", "unspawned", "succeeded", "unsuccessful"}

\* What is shown as running has a process.
Alive ==
  ~raced =>
    \A a \in Agent \ abandoned :
      truth.session[a] = "running" => \E p \in Proc : at[p] \in Working /\ AgentOf(p) = a

\* Steps that leave the snapshot and the updates alone keep Alone.
LEMMA OthersLeaveAlone ==
  ASSUME Typed, Alone, UNCHANGED snapshotVars,
         \A p \in Proc : step[p] # "none" => at'[p] = at[p] /\ key'[p] = key[p]
  PROVE  Alone'
<1>1. \A p \in Proc : step[p] # "none" => Changed(p, truth)' = Changed(p, truth)
  BY DEF Changed, AgentOf, snapshotVars
<1> QED
  BY <1>1 DEF Alone, snapshotVars, disk, Read

\* The end of an update, whether or not it is saved.
LEMMA AbandonLeavesAlone ==
  ASSUME Typed, Alone, NEW p \in Proc, Abandon(p),
         \A q \in Proc : q # p => at'[q] = at[q] /\ key'[q] = key[q]
  PROVE  Alone'
<1>1. \A q \in Proc : q # p => Changed(q, truth)' = Changed(q, truth)
  BY DEF Changed, AgentOf, Abandon
<1>2. /\ step' = [step EXCEPT ![p] = "none"] /\ fd' = [fd EXCEPT ![p] = "none"]
      /\ \A q \in Proc : q # p => copy'[q] = copy[q]
      /\ UNCHANGED <<file, tmp, raced, truth>>
  BY DEF Abandon, disk, Typed, TypeOK, SnapshotTypeOK
<1> QED
  BY <1>1, <1>2 DEF Alone, Read, Typed, TypeOK, SnapshotTypeOK

\* Every step keeps Alone.
LEMMA AloneInductive == Typed /\ Alone /\ [Next]_vars => Alone'
<1> SUFFICES ASSUME Typed, Alone, [Next]_vars PROVE Alone'
  OBVIOUS
<1> USE DEF history, NoHistory, GoTo
<1>1. SnapshotTypeOK /\ Read \in Snapshots /\ truth \in Snapshots
  BY ReadType DEF Typed, TypeOK, SnapshotTypeOK
<1>2. \A p \in Proc : step[p] # "none" => at[p] \in Updating
  BY DEF Typed, TypeOK
<1>3. ASSUME NEW p \in Proc, LoadSnapshot(p) PROVE Alone'
  <2>1. Load(p, Changed(p, Read)) /\ UNCHANGED <<at, key>>
    BY <1>3 DEF LoadSnapshot
  <2>2. CASE raced'
    BY <2>2 DEF Alone
  <2>3. CASE ~raced'
    <3>1. ~raced /\ (\A q \in Proc : step[q] = "none") /\ truth' = truth
      BY <2>1, <2>3 DEF Load
    <3>2. Changed(p, truth)' = Changed(p, truth)
      BY <2>1, <3>1 DEF Changed, AgentOf
    <3> QED
      BY <1>1, <2>1, <3>1, <3>2 DEF Load, Alone, Read, disk, SnapshotTypeOK
  <2> QED
    BY <2>2, <2>3
<1>4. ASSUME NEW p \in Proc, SaveSnapshot(p) PROVE Alone'
  <2>1. \A q \in Proc : Changed(q, truth)' = Changed(q, truth)
    BY <1>4 DEF SaveSnapshot, Open, Write, Changed, AgentOf
  <2>2. CASE Open(p)
    BY <1>1, <2>1, <2>2 DEF Open, Alone, Read, SnapshotTypeOK
  <2>3. CASE Write(p)
    BY <1>1, <2>1, <2>3 DEF Write, Written, Alone, Read, SnapshotTypeOK
  <2> QED
    BY <1>4, <2>2, <2>3 DEF SaveSnapshot
<1>5. ASSUME NEW p \in Proc, UpdateEnds(p) PROVE Alone'
  <2>1. Rename(p, Changed(p, truth)) /\ at[p] \in Updating
    BY <1>2, <1>5 DEF UpdateEnds, Rename
  <2>2. CASE ~raced
    <3>1. /\ tmp = Changed(p, truth) /\ truth' = Changed(p, truth)
          /\ \A q \in Proc : step'[q] = "none" /\ fd[q] = "none"
      BY <1>1, <2>1, <2>2 DEF Rename, Alone, SnapshotTypeOK
    <3>2. Changed(p, truth) \in Snapshots
      BY <1>1, <2>1, ChangedIs
    <3>3. tmp # Missing /\ tmp \notin NoSnapshot
      BY <3>1, <3>2, SnapshotAssumption DEF NoSnapshot
    <3>4. file' = tmp /\ fd' = [q \in Proc |-> Renamed(fd[q])]
      BY <2>1, <3>3 DEF Rename
    <3>5. \A q \in Proc : fd'[q] = "none"
      BY <3>1, <3>4 DEF Renamed
    <3> QED
      BY <3>1, <3>3, <3>4, <3>5 DEF Alone, Read
  <2> QED
    BY <2>1, <2>2 DEF Rename, Alone
<1>6. ASSUME NEW p \in Proc, UpdateFails(p) PROVE Alone'
  BY <1>6, AbandonLeavesAlone DEF UpdateFails, Typed, TypeOK
<1>7. ASSUME NEW w \in Worker, Kill(w) PROVE Alone'
  BY <1>7, AbandonLeavesAlone, DispatchAssumption DEF Kill, Typed, TypeOK
<1>8. CASE Crash
  BY <1>8, AbandonLeavesAlone, DispatchAssumption DEF Crash, Typed, TypeOK
<1>9. ASSUME NEW w \in Worker, NEW k \in Key, Call(w, k) PROVE Alone'
  BY <1>2, <1>9, OthersLeaveAlone DEF Call, Updating, Typed, TypeOK
<1>10. ASSUME NEW w \in Worker,
              CheckReceipt(w) \/ Record(w) \/ PreparationFails(w) \/ RecordFails(w)
       PROVE  Alone'
  BY <1>2, <1>10, OthersLeaveAlone
     DEF CheckReceipt, Record, PreparationFails, RecordFails, Updating, Typed, TypeOK
<1>11. ASSUME NEW p \in Proc, Spawn(p) \/ AgentEnds(p) PROVE Alone'
  BY <1>2, <1>11, OthersLeaveAlone DEF Spawn, AgentEnds, Updating, Typed, TypeOK
<1>12. ASSUME NEW e \in Event, Judge(e) PROVE Alone'
  BY <1>2, <1>12, OthersLeaveAlone DEF Judge, Updating, Typed, TypeOK
<1>13. CASE StartsOver \/ Reserve
  BY <1>2, <1>13, OthersLeaveAlone DEF StartsOver, Reserve, Updating, Typed, TypeOK
<1>14. CASE UNCHANGED vars
  BY <1>14, OthersLeaveAlone DEF vars
<1> QED
  BY <1>3, <1>4, <1>5, <1>6, <1>7, <1>8, <1>9, <1>10, <1>11, <1>12, <1>13, <1>14 DEF Next

\* Updates that do not overlap lose nothing, whatever is killed and whichever
\* write fails.
THEOREM UpdatesAloneAreKept == Spec => []AloneNothingIsLost
<1>1. Init => Alone
  BY DEF Init, SnapshotInit, Alone, Read, NoSnapshot
<1>2. Alone => AloneNothingIsLost
  BY DEF Alone, AloneNothingIsLost
<1> QED
  BY <1>1, <1>2, InitTyped, StepsKeepTypes, AloneInductive, PTL DEF Spec

\* Only the start of an agent makes its session running.
LEMMA AfterIsRunning ==
  ASSUME NEW label \in Updating, label # "judging", After(label) = "running"
  PROVE  label = "fresh"
<1>1. label \in {"duplicate", "succeeded"} => After(label) = "completed"
  BY DEF After
<1>2. label \in {"unspawned", "unsuccessful"} => After(label) = "failed"
  BY DEF After
<1> QED
  BY <1>1, <1>2 DEF Updating

\* Every step keeps Alive.
LEMMA AliveInductive == Typed /\ Alone /\ Alive /\ [Next]_vars => Alive'
<1> SUFFICES ASSUME Typed, Alone, Alive, [Next]_vars PROVE Alive'
  OBVIOUS
<1> USE DispatchAssumption DEF Typed, TypeOK, Places, history, NoHistory, GoTo, Alive, Working, Fault
<1>1. ASSUME NEW p \in Proc, LoadSnapshot(p) \/ SaveSnapshot(p) PROVE Alive'
  <2>1. /\ at' = at /\ key' = key /\ abandoned' = abandoned
        /\ raced => raced'
        /\ ~raced' => truth' = truth
    BY <1>1 DEF LoadSnapshot, SaveSnapshot, Load, Open, Write, SnapshotTypeOK
  <2>2. \A q \in Proc : AgentOf(q)' = AgentOf(q)
    BY <2>1 DEF AgentOf
  <2> QED
    BY <2>1, <2>2
<1>2. ASSUME NEW p \in Proc, UpdateEnds(p) PROVE Alive'
  <2>1. /\ Rename(p, Changed(p, truth)) /\ at[p] \in Updating /\ AgentOf(p) \in Agent
        /\ truth \in Snapshots
    BY <1>2, AgentOfType DEF UpdateEnds, Rename, Updating, SnapshotTypeOK
  <2>2. SUFFICES ASSUME ~raced, NEW a \in Agent \ abandoned, truth'.session[a] = "running"
                 PROVE  \E q \in Proc : at'[q] \in Working /\ AgentOf(q)' = a
    BY <1>2, <2>1 DEF UpdateEnds, Rename
  <2>3. truth' = Changed(p, truth)
    BY <2>1, <2>2 DEF Rename
  <2>4. at' = [at EXCEPT ![p] = Onwards(p)] /\ \A q \in Proc : AgentOf(q)' = AgentOf(q)
    BY <1>2 DEF UpdateEnds, AgentOf
  <2>5. CASE at[p] = "fresh" /\ a = AgentOf(p)
    BY <2>1, <2>4, <2>5, OnwardsIs
  <2>6. CASE at[p] \in {"fresh", "judging"} /\ truth.session[a] = "running"
    BY <2>2, <2>4, <2>6
  <2>11. at[p] = "judging" => truth.session[a] = "running"
    <3>1. SUFFICES ASSUME at[p] = "judging" PROVE truth.session[a] = "running"
      OBVIOUS
    <3>2. truth' = Applied(truth, key[p]) /\ key[p] \in Event
      BY <2>1, <2>3, <3>1, ChangedIs
    <3> QED
      BY <2>1, <2>2, <3>2, AppliedIs
  <2>7. CASE at[p] \notin {"fresh", "judging"} /\ a # AgentOf(p) /\ truth.session[a] = "running"
    BY <2>2, <2>4, <2>7
  <2>8. at[p] # "judging" /\ a # AgentOf(p) => truth.session[a] = "running"
    BY <2>1, <2>2, <2>3, ChangedIs
  <2>9. at[p] # "judging" /\ a = AgentOf(p) => After(at[p]) = "running"
    BY <2>1, <2>2, <2>3, ChangedIs
  <2>10. at[p] # "judging" /\ a = AgentOf(p) => at[p] = "fresh"
    BY <2>1, <2>9, AfterIsRunning
  <2> QED
    BY <2>5, <2>6, <2>7, <2>8, <2>10, <2>11
<1>3. ASSUME NEW p \in Proc, UpdateFails(p) PROVE Alive'
  BY <1>3 DEF UpdateFails, Abandon, AgentOf
<1>4. ASSUME NEW w \in Worker, Kill(w) PROVE Alive'
  BY <1>4 DEF Kill, Abandon, AgentOf
<1>5. CASE Crash
  BY <1>5 DEF Crash, Abandon, AgentOf
<1>6. ASSUME NEW w \in Worker, NEW k \in Key, Call(w, k) PROVE Alive'
  BY <1>6 DEF Call, snapshotVars, AgentOf
<1>7. ASSUME NEW w \in Worker,
             CheckReceipt(w) \/ Record(w) \/ PreparationFails(w) \/ RecordFails(w)
      PROVE  Alive'
  BY <1>7 DEF CheckReceipt, Record, PreparationFails, RecordFails, snapshotVars, AgentOf
<1>8. ASSUME NEW p \in Proc, Spawn(p) \/ AgentEnds(p) PROVE Alive'
  BY <1>8 DEF Spawn, AgentEnds, snapshotVars, AgentOf
<1>9. ASSUME NEW e \in Event, Judge(e) PROVE Alive'
  BY <1>9 DEF Judge, snapshotVars, AgentOf
<1>10. CASE StartsOver \/ Reserve
  BY <1>10 DEF StartsOver, Reserve, snapshotVars, AgentOf
<1>11. CASE UNCHANGED vars
  BY <1>11 DEF vars, snapshotVars, AgentOf
<1> QED
  BY <1>1, <1>2, <1>3, <1>4, <1>5, <1>6, <1>7, <1>8, <1>9, <1>10, <1>11 DEF Next

\* An agent that is shown as running has a process that will note its end, unless
\* one was killed or gave up without a note, or updates overlapped.
THEOREM RunningAgentsAreAlive == Spec => []RunningIsAlive
<1>1. Init => Alone
  BY DEF Init, SnapshotInit, Alone, Read, NoSnapshot
<1>2. Init => Alive
  BY NewSnapshotIs DEF Init, SnapshotInit, Alive
<1>3. Alone /\ Alive => RunningIsAlive
  BY DEF Alone, Alive, RunningIsAlive, Working, Updating
<1> QED
  BY <1>1, <1>2, <1>3, InitTyped, StepsKeepTypes, AloneInductive, AliveInductive, PTL DEF Spec
=============================================================================

---------------------------- MODULE ServerProofs ----------------------------
(***************************************************************************)
(* The safety properties of Server, for any repositories, pids and limit.  *)
(***************************************************************************)
EXTENDS Server, TLAPS, FiniteSetTheorems

\* A loop that spawned while paused is not about to spawn again, and the history
\* is empty while events are fed.
StaleAgrees ==
  \A r \in Repo :
    /\ ~IsOrchestratorPaused => stale[r] = 0
    /\ stale[r] = 1 => loop[r] \notin {"unpaused", "admitted"}

\* The inductive invariant.
ServerInv == TypeOK /\ NoSlotLeaks /\ OneStaleSpawn /\ StaleAgrees

\* The initial state satisfies the invariant.
LEMMA ServerInvInit == Init => ServerInv
<1> SUFFICES ASSUME Init PROVE ServerInv
  OBVIOUS
<1>1. TypeOK
  BY ServerAssumption DEF Init, RateInit, TypeOK, LoopStates, EntryStates, Tiers
<1>2. NoSlotLeaks
  BY DEF Init, NoSlotLeaks
<1>3. OneStaleSpawn /\ StaleAgrees
  BY DEF Init, OneStaleSpawn, StaleAgrees
<1> QED
  BY <1>1, <1>2, <1>3 DEF ServerInv

\* What the steps of one loop keep of the invariant.
LEMMA LoopStepKeepsInv ==
  ASSUME ServerInv, NEW r \in Repo,
         Receive(r) \/ Step(r) \/ PreparationFails(r) \/ SpawnFails(r) \/ WaitFails(r)
  PROVE  ServerInv'
<1> USE ServerAssumption
    DEF ServerInv, TypeOK, NoSlotLeaks, OneStaleSpawn, StaleAgrees,
        IsOrchestratorPaused, LoopStates, EntryStates, Tiers, GoTo, table, history, rateLimiter
<1>1. CASE Receive(r)
  BY <1>1 DEF Receive
<1>2. CASE CheckPaused(r)
  BY <1>2 DEF CheckPaused
<1>3. CASE CheckCapacity(r)
  BY <1>3 DEF CheckCapacity
<1>4. CASE PreparationFails(r)
  BY <1>4 DEF PreparationFails
<1>5. CASE Spawn(r)
  BY <1>5 DEF Spawn
<1>6. CASE SpawnFails(r)
  BY <1>6 DEF SpawnFails
<1>7. CASE Register(r)
  BY <1>7 DEF Register
<1>8. CASE \E how \in {"ok", "failed"} : Reap(r, how)
  BY <1>8 DEF Reap
<1>9. CASE WaitFails(r)
  BY <1>9 DEF WaitFails
<1>10. CASE ReportExit(r)
  BY <1>10 DEF ReportExit
<1>11. CASE Settle(r)
  <2>1. pending' \in [Repo -> Nat] /\ \A q \in Repo : q # r => pending'[q] = pending[q]
    BY <1>11 DEF Settle
  <2>2. tier' \in Tiers /\ flag' \in BOOLEAN /\ probe' = probe
    BY <1>11 DEF Settle, ReportRateLimit
  <2>3. IsOrchestratorPaused => IsOrchestratorPaused'
    BY <1>11 DEF Settle, ReportRateLimit
  <2>4. /\ loop[r] = "exited" /\ loop' = [loop EXCEPT ![r] = "polling"]
        /\ UNCHANGED <<pid, ended, table, history>>
    BY <1>11 DEF Settle
  <2> QED
    BY <2>1, <2>2, <2>3, <2>4
<1> QED
  BY <1>1, <1>2, <1>3, <1>4, <1>5, <1>6, <1>7, <1>8, <1>9, <1>10, <1>11 DEF Step

\* What every step keeps of the invariant.
LEMMA ServerInvStep == ServerInv /\ [Next]_vars => ServerInv'
<1> SUFFICES ASSUME ServerInv, [Next]_vars
             PROVE  ServerInv'
  OBVIOUS
<1> USE ServerAssumption
    DEF ServerInv, TypeOK, NoSlotLeaks, OneStaleSpawn, StaleAgrees,
        IsOrchestratorPaused, LoopStates, EntryStates, Tiers, table, history, rateLimiter
<1>1. CASE \E r \in Repo : Receive(r) \/ Step(r) \/ PreparationFails(r)
                             \/ SpawnFails(r) \/ WaitFails(r)
  BY <1>1, LoopStepKeepsInv
<1>2. CASE OrphanEnds
  BY <1>2 DEF OrphanEnds
<1>3. CASE TimeOut
  BY <1>3 DEF TimeOut
<1>4. CASE Recover
  <2>1. stale' \in [Repo -> Nat] /\ \A r \in Repo : stale'[r] = 0
    BY <1>4 DEF Recover
  <2>2. tier' = "none" /\ flag' = FALSE /\ probe' = "idle"
    BY <1>4 DEF Recover, ProbeSucceeds
  <2>3. UNCHANGED <<loop, pending, pid, ended, table, crowded>>
    BY <1>4 DEF Recover
  <2>4. TypeOK'
    BY <2>1, <2>2, <2>3
  <2>5. NoSlotLeaks'
    BY <2>3
  <2>6. OneStaleSpawn' /\ StaleAgrees'
    BY <2>1
  <2> QED
    BY <2>4, <2>5, <2>6
<1>5. CASE Probe
  BY <1>5 DEF Probe, ProbeStarts, ProbeFails
<1>6. CASE UNCHANGED vars
  BY <1>6 DEF vars
<1> QED
  BY <1>1, <1>2, <1>3, <1>4, <1>5, <1>6 DEF Next

\* Every reachable state satisfies the invariant.
THEOREM ServerInvariant == Spec => []ServerInv
BY ServerInvInit, ServerInvStep, PTL DEF Spec

\* The types of the loops, the table and the limiter.
THEOREM TypeCorrectness == Spec => []TypeOK
<1>1. ServerInv => TypeOK
  BY DEF ServerInv
<1> QED
  BY <1>1, ServerInvariant, PTL

\* No slot of the process table is lost, whatever fails and whichever pids come
\* back.
THEOREM NoSlotIsLost == Spec => []NoSlotLeaks
<1>1. ServerInv => NoSlotLeaks
  BY DEF ServerInv
<1> QED
  BY <1>1, ServerInvariant, PTL

\* A pause lets each repository spawn once more at most.
THEOREM PausedLoopsSpawnOnce == Spec => []OneStaleSpawn
<1>1. ServerInv => OneStaleSpawn
  BY DEF ServerInv
<1> QED
  BY <1>1, ServerInvariant, PTL

-----------------------------------------------------------------------------
(* The limit.                                                              *)

\* The pids whose entries count.
Counted == {p \in Pid : process[p] = "running"}

\* They are finitely many; a loop on its way to the table, if it is the only one, has
\* left room for its own entry.
LimitInv ==
  /\ limit \in Nat
  /\ IsFiniteSet(Counted)
  /\ ~crowded =>
       /\ Cardinality(Counted) <= limit
       /\ \A r \in Repo : Unregistered(r) =>
            Cardinality(Counted) < limit /\ \A q \in Repo \ {r} : ~Unregistered(q)

\* What takes entries out of the count, and lets no loop past the check, keeps the limit.
LEMMA FewerCount ==
  ASSUME LimitInv, Counted' \subseteq Counted, crowded' = crowded, limit' = limit,
         \A r \in Repo : Unregistered(r)' => Unregistered(r)
  PROVE  LimitInv'
<1>1. IsFiniteSet(Counted') /\ Cardinality(Counted') <= Cardinality(Counted)
  BY FS_Subset DEF LimitInv
<1>2. Cardinality(Counted') \in Nat /\ Cardinality(Counted) \in Nat
  BY <1>1, FS_CardinalityType DEF LimitInv
<1> HIDE DEF Counted
<1> QED
  BY <1>1, <1>2 DEF LimitInv

\* The initial state keeps the limit.
LEMMA LimitInvInit == Init => LimitInv
<1> SUFFICES ASSUME Init PROVE LimitInv
  OBVIOUS
<1>1. Counted = {} /\ \A r \in Repo : ~Unregistered(r)
  BY DEF Init, Counted, Unregistered
<1>2. IsFiniteSet(Counted) /\ Cardinality(Counted) = 0
  BY <1>1, FS_EmptySet
<1> QED
  BY <1>1, <1>2, ServerAssumption DEF Init, LimitInv

\* A loop passes the check: nobody else is past it, or the history says so.
LEMMA CheckKeepsLimit ==
  ASSUME ServerInv, LimitInv, NEW r \in Repo, CheckCapacity(r)
  PROVE  LimitInv'
<1>1. Counted' = Counted /\ IsFiniteSet(Counted) /\ limit' = limit /\ limit \in Nat
  BY DEF CheckCapacity, table, Counted, LimitInv
<1>2. \A q \in Repo \ {r} : Unregistered(q)' <=> Unregistered(q)
  BY DEF CheckCapacity, GoTo, Unregistered, ServerInv, TypeOK
<1>3. ~Unregistered(r) /\ (Unregistered(r)' => HasCapacity)
  BY DEF CheckCapacity, GoTo, Unregistered, ServerInv, TypeOK
<1>4. crowded' = (crowded \/ (HasCapacity /\ \E q \in Repo \ {r} : Unregistered(q)))
  BY DEF CheckCapacity
<1>5. HasCapacity <=> Cardinality(Counted) < limit
  BY DEF HasCapacity, ActiveOrchestratorCount, Counted
<1>6. ASSUME ~crowded'
      PROVE  /\ Cardinality(Counted) <= limit
             /\ \A q \in Repo : Unregistered(q)' =>
                  Cardinality(Counted) < limit /\ \A s \in Repo \ {q} : ~Unregistered(s)'
  <2>1. ~crowded /\ (HasCapacity => \A q \in Repo \ {r} : ~Unregistered(q))
    BY <1>4, <1>6
  <2>2. CASE Unregistered(r)'
    BY <1>2, <1>3, <1>5, <2>1, <2>2 DEF LimitInv
  <2>3. CASE ~Unregistered(r)'
    BY <1>2, <1>3, <2>1, <2>3 DEF LimitInv
  <2> QED
    BY <2>2, <2>3
<1> HIDE DEF Counted
<1> QED
  BY <1>1, <1>6 DEF LimitInv

\* A loop registers its child: the room it left is taken.
LEMMA RegisterKeepsLimit ==
  ASSUME ServerInv, LimitInv, NEW r \in Repo, Register(r)
  PROVE  LimitInv'
<1>1. pid[r] \in Pid /\ Unregistered(r) /\ crowded' = crowded /\ ~Unregistered(r)' /\ limit' = limit /\ limit \in Nat
  BY ServerAssumption DEF Register, GoTo, Unregistered, ServerInv, TypeOK, history
<1>2. \A q \in Repo \ {r} : Unregistered(q)' <=> Unregistered(q)
  BY DEF Register, GoTo, Unregistered, ServerInv, TypeOK
<1>3. Counted' = Counted \cup {pid[r]}
  BY <1>1 DEF Register, Counted, ServerInv, TypeOK
<1>4. /\ IsFiniteSet(Counted \cup {pid[r]})
      /\ Cardinality(Counted \cup {pid[r]}) \in {Cardinality(Counted), Cardinality(Counted) + 1}
  BY FS_AddElement DEF LimitInv
<1>5. Cardinality(Counted) \in Nat
  BY FS_CardinalityType DEF LimitInv
<1> HIDE DEF Counted
<1>6. ASSUME ~crowded
      PROVE  Cardinality(Counted') <= limit /\ \A q \in Repo : ~Unregistered(q)'
  <2>1. Cardinality(Counted) < limit /\ \A q \in Repo \ {r} : ~Unregistered(q)
    BY <1>1, <1>6 DEF LimitInv
  <2> QED
    BY <1>1, <1>2, <1>3, <1>4, <1>5, <2>1
<1> QED
  BY <1>1, <1>3, <1>4, <1>6 DEF LimitInv

\* What every step keeps of the limit.
LEMMA LimitInvStep == ServerInv /\ LimitInv /\ [Next]_vars => LimitInv'
<1> SUFFICES ASSUME ServerInv, LimitInv, [Next]_vars
             PROVE  LimitInv'
  OBVIOUS
<1> USE DEF Unregistered, Counted, table, history
<1>1. ASSUME NEW r \in Repo, \/ Receive(r) \/ CheckPaused(r) \/ PreparationFails(r) \/ Spawn(r) \/ SpawnFails(r)
                             \/ WaitFails(r) \/ Settle(r) \/ \E how \in {"ok", "failed"} : Reap(r, how)
      PROVE  LimitInv'
  <2>1. process' = process /\ crowded' = crowded /\ limit' = limit
    BY <1>1 DEF Receive, CheckPaused, PreparationFails, Spawn, SpawnFails, WaitFails, Settle, Reap
  <2>2. \A q \in Repo : loop'[q] \in {"admitted", "spawned"} => loop[q] \in {"admitted", "spawned"}
    BY <1>1 DEF Receive, CheckPaused, PreparationFails, Spawn, SpawnFails, WaitFails, Settle, Reap, GoTo, ServerInv, TypeOK
  <2> QED
    BY <2>1, <2>2, FewerCount
<1>2. ASSUME NEW r \in Repo, ReportExit(r)
      PROVE  LimitInv'
  <2>1. Counted' \subseteq Counted /\ crowded' = crowded /\ limit' = limit
    BY <1>2 DEF ReportExit, ServerInv, TypeOK
  <2>2. \A q \in Repo : Unregistered(q)' => Unregistered(q)
    BY <1>2 DEF ReportExit, GoTo, ServerInv, TypeOK
  <2> QED
    BY <2>1, <2>2, FewerCount
<1>3. CASE OrphanEnds \/ Recover \/ Probe \/ UNCHANGED vars
  <2>1. process' = process /\ crowded' = crowded /\ limit' = limit /\ loop' = loop
    BY <1>3 DEF OrphanEnds, Recover, Probe, vars
  <2> QED
    BY <2>1, FewerCount
<1>4. CASE TimeOut
  <2>1. Counted' \subseteq Counted /\ crowded' = crowded /\ limit' = limit /\ loop' = loop
    BY <1>4 DEF TimeOut, ServerInv, TypeOK
  <2> QED
    BY <2>1, FewerCount
<1> QED
  BY <1>1, <1>2, <1>3, <1>4, CheckKeepsLimit, RegisterKeepsLimit DEF Next, Step

\* The limit is that of the configuration the server started with.
LEMMA LimitStays == [Next]_vars => limit' = limit
BY DEF Next, Step, Receive, CheckPaused, CheckCapacity, PreparationFails, Spawn, SpawnFails, Register, Reap, WaitFails,
       ReportExit, Settle, OrphanEnds, TimeOut, Recover, Probe, table, vars

\* With a limit of zero no loop gets past the check of it.
NobodyAdmitted == limit = 0 => \A r \in Repo : loop[r] \in {"polling", "unpaused"}

\* With a limit of zero, which validate of config.rs leaves alone, no event leaves a queue: none is worked on, none fails.
ZeroLimitStarves == [][limit = 0 => \A r \in Repo : pending'[r] >= pending[r]]_vars

\* What a step keeps with a limit of zero: every loop before its queue, and every event.
LEMMA ZeroLimitStep ==
  ServerInv /\ LimitInv /\ NobodyAdmitted /\ [Next]_vars =>
    /\ NobodyAdmitted'
    /\ [limit = 0 => \A r \in Repo : pending'[r] >= pending[r]]_vars
<1> SUFFICES ASSUME ServerInv, LimitInv, NobodyAdmitted, [Next]_vars, limit = 0
             PROVE  /\ \A r \in Repo : loop'[r] \in {"polling", "unpaused"}
                    /\ \A r \in Repo : pending'[r] >= pending[r]
  BY LimitStays DEF NobodyAdmitted
<1>1. \A r \in Repo : loop[r] \in {"polling", "unpaused"}
  BY DEF NobodyAdmitted
<1>2. loop \in [Repo -> LoopStates] /\ pending \in [Repo -> Nat]
  BY DEF ServerInv, TypeOK
<1>3. ~HasCapacity
  <2>1. Cardinality(Counted) \in Nat
    BY FS_CardinalityType DEF LimitInv
  <2> QED
    BY <2>1 DEF HasCapacity, ActiveOrchestratorCount, Counted
<1>4. CASE \E r \in Repo : Receive(r)
  BY <1>1, <1>2, <1>4 DEF Receive
<1>5. CASE \E r \in Repo : CheckPaused(r)
  BY <1>1, <1>2, <1>5 DEF CheckPaused, GoTo
<1>6. CASE \E r \in Repo : CheckCapacity(r)
  BY <1>1, <1>2, <1>3, <1>6 DEF CheckCapacity, GoTo
<1>7. CASE OrphanEnds \/ TimeOut \/ Recover \/ Probe \/ UNCHANGED vars
  BY <1>1, <1>2, <1>7 DEF OrphanEnds, TimeOut, Recover, Probe, vars
<1> QED
  BY <1>1, <1>4, <1>5, <1>6, <1>7 DEF Next, Step, PreparationFails, SpawnFails, WaitFails, Spawn, Register, Reap, ReportExit,
                                      Settle

\* A loop is before its queue at the start.
LEMMA NobodyAdmittedInit == Init => NobodyAdmitted
BY DEF Init, NobodyAdmitted

\* The limit holds unless two loops were past the check at once (process_manager.rs: has_capacity_for, register), and
\* a limit of zero lets no loop to its queue (config.rs: validate).
THEOREM LimitHolds == Spec => []LimitIsKept
<1>1. LimitInv /\ NobodyAdmitted => LimitIsKept
  BY DEF LimitInv, NobodyAdmitted, LimitIsKept, ActiveOrchestratorCount, Counted
<1> QED
  BY <1>1, ServerInvariant, LimitInvInit, LimitInvStep, NobodyAdmittedInit, ZeroLimitStep, PTL DEF Spec

\* With a limit of zero nothing is taken from a queue, for any repositories and events.
THEOREM ZeroLimitServesNobody == Spec => ZeroLimitStarves
BY ServerInvariant, LimitInvInit, LimitInvStep, NobodyAdmittedInit, ZeroLimitStep, PTL DEF Spec, ZeroLimitStarves
=============================================================================

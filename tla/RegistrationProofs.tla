------------------------- MODULE RegistrationProofs -------------------------
(***************************************************************************)
(* The safety properties of Registration, for any repositories and         *)
(* handlers.                                                               *)
(***************************************************************************)
EXTENDS Registration, TLAPS

\* A repository in the registry has a loop, or will get one, or one of the two known
\* ways left it without; a handler that is about to accept is for such a one.
KnownHasLoop ==
  /\ ~up => accepted = {}
  /\ \A r \in registry \ brought : HasLoop(r)
  /\ \A h \in Handler : at[h] = "accept" /\ of[h] \notin brought => HasLoop(of[h])

\* The count of loops is what started_repos says.
LoopsAreStarted == \A r \in Repo : loops[r] = IF r \in started THEN 1 ELSE 0

\* A repository is registered by one handler at a time, which scans a queue without
\* open items.
ScansAlone ==
  \A r \in Repo \ overlapped :
    /\ \A g, h \in RegisteredBy(r) : g = h
    /\ \A h \in RegisteredBy(r) :
         /\ at[h] = "issues" => queue[r].issue = 0
         /\ at[h] \in {"issues", "prs"} => queue[r].pr = 0

\* The inductive invariant.
RegistrationInv ==
  TypeOK /\ LoopsAreStarted /\ KnownHasLoop /\ AcceptedHasLoopOrWasBrought
         /\ ScansAlone /\ ScannedOnce

-----------------------------------------------------------------------------
\* The initial state satisfies the invariant.
LEMMA RegistrationInvInit == Init => RegistrationInv
<1> SUFFICES ASSUME Init PROVE RegistrationInv
  OBVIOUS
<1>1. TypeOK
  <2>1. 0 \in 0 .. MaxInits
    BY RegistrationAssumption
  <2> QED
    BY <2>1 DEF Init, TypeOK
<1>2. LoopsAreStarted /\ KnownHasLoop /\ AcceptedHasLoopOrWasBrought
  BY DEF Init, LoopsAreStarted, KnownHasLoop, AcceptedHasLoopOrWasBrought
<1>3. ScansAlone /\ ScannedOnce
  BY DEF Init, ScansAlone, ScannedOnce, RegisteredBy, Registering
<1> QED
  BY <1>1, <1>2, <1>3 DEF RegistrationInv

\* A bootstrap leaves one event for each open item at most, if so it was before.
LEMMA BootstrappedIs ==
  ASSUME TypeOK, NEW r \in Repo, NEW q \in Bootstrapped(r)
  PROVE  /\ q \in [webhook : Nat, issue : Nat, pr : Nat]
         /\ q.issue <= 1 \/ q.issue = queue[r].issue
         /\ q.pr <= 1 \/ q.pr = queue[r].pr
BY DEF TypeOK, Bootstrapped

\* The queue after one more event of a kind.
LEMMA EnqueuedIs ==
  ASSUME TypeOK, NEW r \in Repo, NEW kind \in {"webhook", "issue", "pr"}
  PROVE  /\ Enqueued(r, kind) \in [Repo -> [webhook : Nat, issue : Nat, pr : Nat]]
         /\ \A s \in Repo : s # r => Enqueued(r, kind)[s] = queue[s]
         /\ Enqueued(r, kind)[r].issue =
              IF kind = "issue" THEN queue[r].issue + 1 ELSE queue[r].issue
         /\ Enqueued(r, kind)[r].pr =
              IF kind = "pr" THEN queue[r].pr + 1 ELSE queue[r].pr
BY DEF TypeOK, Enqueued

\* Steps of other programs, the end of the server and the drain loops.
LEMMA EnvironmentKeepsInv ==
  ASSUME RegistrationInv,
         (\E r \in Repo : InitOpens(r) \/ Drain(r)) \/ InitWrites \/ Start \/ Stop
  PROVE  RegistrationInv'
<1> USE DEF RegistrationInv, LoopsAreStarted, KnownHasLoop, AcceptedHasLoopOrWasBrought,
            ScansAlone, ScannedOnce, HasLoop, RegisteredBy, Registering,
            registryFile, server, handler, history
<1>1. ASSUME NEW r \in Repo, InitOpens(r) PROVE RegistrationInv'
  <2>1. UNCHANGED <<server, handler, queue, history>>
    BY <1>1 DEF InitOpens
  <2>2. TypeOK'
    BY <1>1, RegistrationAssumption DEF InitOpens, LoadRegistry, TypeOK
  <2> QED
    BY <2>1, <2>2
<1>2. CASE InitWrites
  <2>1. UNCHANGED <<server, handler, queue, history>>
    BY <1>2 DEF InitWrites
  <2>2. TypeOK'
    BY <1>2 DEF InitWrites, TypeOK
  <2> QED
    BY <2>1, <2>2
<1>3. ASSUME NEW r \in Repo, Drain(r) PROVE RegistrationInv'
  <2>1. PICK kind \in {"webhook", "issue", "pr"} :
          queue[r][kind] > 0 /\ queue' = [queue EXCEPT ![r][kind] = @ - 1]
    BY <1>3 DEF Drain
  <2>2. /\ queue' \in [Repo -> [webhook : Nat, issue : Nat, pr : Nat]]
        /\ \A s \in Repo : queue'[s].issue <= queue[s].issue /\ queue'[s].pr <= queue[s].pr
    BY <2>1 DEF TypeOK
  <2>3. UNCHANGED <<registryFile, server, handler, history>>
    BY <1>3 DEF Drain
  <2>4. TypeOK' /\ LoopsAreStarted' /\ KnownHasLoop' /\ AcceptedHasLoopOrWasBrought'
    BY <2>2, <2>3 DEF TypeOK
  <2>5. \A s \in Repo : /\ queue'[s].issue \in Nat /\ queue[s].issue \in Nat
                        /\ queue'[s].pr \in Nat /\ queue[s].pr \in Nat
    BY <2>2 DEF TypeOK
  <2>6. ScansAlone' /\ ScannedOnce'
    BY <2>2, <2>3, <2>5
  <2> QED
    BY <2>4, <2>6
<1>4. CASE Start
  <2>1. /\ \A h \in Handler : at[h] = "idle"
        /\ UNCHANGED <<registryFile, handler, accepted, brought, dropped, overlapped>>
        /\ registry' = LoadRegistry /\ started' = LoadRegistry /\ LoadRegistry \subseteq Repo
    BY <1>4 DEF Start, TypeOK, LoadRegistry
  <2>2. \A r \in Repo : queue'[r] \in Bootstrapped(r) \/ queue'[r] = queue[r]
    BY <1>4 DEF Start
  <2>3. /\ \A r \in Repo : queue'[r] \in [webhook : Nat, issue : Nat, pr : Nat]
        /\ \A r \in Repo : /\ queue'[r].issue <= 1 \/ queue'[r].issue = queue[r].issue
                           /\ queue'[r].pr <= 1 \/ queue'[r].pr = queue[r].pr
    BY <2>2, BootstrappedIs DEF TypeOK
  <2>4. queue' \in [Repo -> [webhook : Nat, issue : Nat, pr : Nat]]
    BY <1>4, <2>3 DEF Start
  <2>5. TypeOK' /\ LoopsAreStarted'
    BY <1>4, <2>1, <2>4 DEF Start, TypeOK
  <2>6. KnownHasLoop'
    BY <1>4, <2>1 DEF Start
  <2>7. AcceptedHasLoopOrWasBrought'
    BY <1>4, <2>1 DEF Start
  <2>8. ScansAlone' /\ ScannedOnce'
    BY <2>1, <2>3 DEF TypeOK
  <2> QED
    BY <2>5, <2>6, <2>7, <2>8
<1>5. CASE Stop
  BY <1>5 DEF Stop, TypeOK
<1> QED
  BY <1>1, <1>2, <1>3, <1>4, <1>5

\* The steps before the registration.
LEMMA ArrivalKeepsInv ==
  ASSUME RegistrationInv, NEW h \in Handler,
         (\E r \in Repo : Webhook(h, r)) \/ Load(h) \/ WriteRegistry(h)
  PROVE  RegistrationInv'
<1> USE DEF RegistrationInv, LoopsAreStarted, KnownHasLoop, AcceptedHasLoopOrWasBrought,
            ScansAlone, ScannedOnce, HasLoop, registryFile, server, handler, history, GoTo
<1>1. ASSUME NEW r \in Repo, Webhook(h, r) PROVE RegistrationInv'
  <2>1. TypeOK'
    BY <1>1 DEF Webhook, TypeOK
  <2>2. /\ at[h] = "idle" /\ at'[h] = (IF r \in registry THEN "accept" ELSE "load")
        /\ of'[h] = r
        /\ \A g \in Handler : g # h => at'[g] = at[g] /\ of'[g] = of[g]
        /\ UNCHANGED <<server, queue, history>>
    BY <1>1 DEF Webhook, TypeOK
  <2>3. \A s \in Repo : RegisteredBy(s)' = RegisteredBy(s)
    BY <2>2 DEF RegisteredBy, Registering
  <2> QED
    BY <2>1, <2>2, <2>3 DEF RegisteredBy, TypeOK
<1>2. CASE Load(h)
  <2>1. TypeOK'
    BY <1>2, RegistrationAssumption DEF Load, Done, TypeOK, LoadRegistry
  <2>2. /\ at[h] = "load" /\ at'[h] \in {"write", "idle"}
        /\ \A g \in Handler : g # h => at'[g] = at[g] /\ of'[g] = of[g]
        /\ UNCHANGED <<server, queue, history>>
    BY <1>2 DEF Load, Done, TypeOK
  <2>3. \A s \in Repo : RegisteredBy(s)' = RegisteredBy(s)
    BY <2>2 DEF RegisteredBy, Registering
  <2> QED
    BY <2>1, <2>2, <2>3 DEF RegisteredBy, TypeOK
<1>3. CASE WriteRegistry(h)
  <2>1. TypeOK'
    BY <1>3 DEF WriteRegistry, TypeOK, Registering
  <2>2. /\ at[h] = "write" /\ at'[h] = "bootstrap" /\ of[h] \in Repo /\ of' = of
        /\ \A g \in Handler : g # h => at'[g] = at[g]
        /\ registry' \subseteq Repo /\ brought \subseteq brought'
        /\ registry' \ brought' \subseteq (registry \ brought) \cup {of[h]}
        /\ UNCHANGED <<up, started, queue, loops, accepted, dropped>>
    BY <1>3 DEF WriteRegistry, TypeOK
  <2>3. \A s \in Repo :
          RegisteredBy(s)' = IF s = of[h] THEN RegisteredBy(s) \cup {h} ELSE RegisteredBy(s)
    BY <2>2 DEF RegisteredBy, Registering
  <2>4. KnownHasLoop' /\ AcceptedHasLoopOrWasBrought' /\ LoopsAreStarted'
    BY <2>2, <2>3 DEF TypeOK
  <2>5. /\ overlapped \subseteq overlapped'
        /\ of[h] \notin overlapped' => RegisteredBy(of[h]) = {}
    BY <1>3 DEF WriteRegistry
  <2>6. ScannedOnce'
    BY <2>2, <2>5
  <2>7. ASSUME NEW s \in Repo \ overlapped'
        PROVE  /\ \A g, k \in RegisteredBy(s)' : g = k
               /\ \A k \in RegisteredBy(s)' :
                    /\ at'[k] = "issues" => queue'[s].issue = 0
                    /\ at'[k] \in {"issues", "prs"} => queue'[s].pr = 0
    <3>1. CASE s = of[h]
      BY <2>2, <2>3, <2>5, <3>1
    <3>2. CASE s # of[h]
      <4>1. \A k \in RegisteredBy(s)' : k \in RegisteredBy(s) /\ k # h
        BY <2>2, <2>3, <3>2 DEF RegisteredBy
      <4> QED
        BY <2>2, <2>5, <4>1 DEF RegisteredBy
    <3> QED
      BY <3>1, <3>2
  <2>8. ScansAlone'
    BY <2>7
  <2> QED
    BY <2>1, <2>4, <2>6, <2>8
<1> QED
  BY <1>1, <1>2, <1>3

\* The steps of a bootstrap.
LEMMA BootstrapKeepsInv ==
  ASSUME RegistrationInv, NEW h \in Handler, CheckQueue(h) \/ ScanIssues(h) \/ ScanPrs(h)
  PROVE  RegistrationInv'
<1> USE DEF RegistrationInv, LoopsAreStarted, KnownHasLoop, AcceptedHasLoopOrWasBrought,
            ScansAlone, ScannedOnce, HasLoop, registryFile, server, handler, history, GoTo
<1>1. /\ at[h] \in {"bootstrap", "issues", "prs"} /\ at'[h] \in {"issues", "prs", "start"}
      /\ of[h] \in Repo /\ at' \in [Handler -> Registering \cup {"idle", "load", "write", "accept"}]
      /\ \A g \in Handler : g # h => at'[g] = at[g]
      /\ UNCHANGED <<registryFile, up, registry, started, of, latest, history>>
  BY DEF CheckQueue, ScanIssues, ScanPrs, TypeOK, Registering
<1>2. \A s \in Repo : RegisteredBy(s)' = RegisteredBy(s)
  BY <1>1 DEF RegisteredBy, Registering
<1>3. /\ queue' \in [Repo -> [webhook : Nat, issue : Nat, pr : Nat]]
      /\ \A s \in Repo : s # of[h] => queue'[s] = queue[s]
  BY <1>1, EnqueuedIs DEF CheckQueue, ScanIssues, ScanPrs, TypeOK
<1>4. TypeOK' /\ LoopsAreStarted' /\ KnownHasLoop' /\ AcceptedHasLoopOrWasBrought'
  BY <1>1, <1>2, <1>3 DEF TypeOK
<1>5. ASSUME NEW s \in Repo \ overlapped
      PROVE  /\ queue'[s].issue <= 1 /\ queue'[s].pr <= 1
             /\ \A k \in RegisteredBy(s) :
                  /\ at'[k] = "issues" => queue'[s].issue = 0
                  /\ at'[k] \in {"issues", "prs"} => queue'[s].pr = 0
  <2>1. CASE s # of[h]
    <3>1. queue'[s] = queue[s] /\ \A k \in RegisteredBy(s) : at'[k] = at[k]
      BY <1>1, <1>3, <2>1 DEF RegisteredBy
    <3> QED
      BY <3>1
  <2>2. CASE s = of[h]
    <3>1. h \in RegisteredBy(s) /\ \A k \in RegisteredBy(s) : k = h
      BY <1>1, <2>2 DEF RegisteredBy, Registering
    <3>2. queue[s] \in [webhook : Nat, issue : Nat, pr : Nat]
      BY DEF TypeOK
    <3>3. CASE CheckQueue(h)
      <4>1. Size(s) = 0 => queue[s].issue = 0 /\ queue[s].pr = 0
        BY <3>2 DEF Size
      <4>2. queue' = queue /\ (at'[h] = "issues" => Size(s) = 0) /\ at'[h] \in {"issues", "start"}
        <5>1. at'[h] = IF Size(s) > 0 THEN "start" ELSE "issues"
          BY <2>2, <3>3 DEF CheckQueue, TypeOK
        <5>2. Size(s) \in Nat
          BY <3>2 DEF Size
        <5>3. queue' = queue
          BY <3>3 DEF CheckQueue
        <5> QED
          BY <5>1, <5>2, <5>3
      <4> QED
        BY <3>1, <4>1, <4>2
    <3>4. CASE ScanIssues(h)
      <4>1. queue[s].issue = 0 /\ queue[s].pr = 0 /\ at'[h] \in {"prs", "start"}
        BY <3>1, <3>4 DEF ScanIssues, TypeOK
      <4>2. queue' = Enqueued(s, "issue") \/ queue' = queue
        BY <2>2, <3>4 DEF ScanIssues
      <4>3. Enqueued(s, "issue")[s].issue = 1 /\ Enqueued(s, "issue")[s].pr = 0
        BY <4>1, EnqueuedIs
      <4>4. queue'[s].issue <= 1 /\ queue'[s].pr = 0
        BY <4>1, <4>2, <4>3
      <4> QED
        BY <3>1, <4>1, <4>4
    <3>5. CASE ScanPrs(h)
      <4>1. queue[s].issue <= 1 /\ queue[s].pr = 0 /\ at'[h] = "start"
        BY <3>1, <3>5 DEF ScanPrs, TypeOK
      <4>2. queue'[s].issue <= 1 /\ queue'[s].pr <= 1
        BY <2>2, <3>5, <4>1, EnqueuedIs DEF ScanPrs
      <4> QED
        BY <3>1, <4>1, <4>2
    <3> QED
      BY <3>3, <3>4, <3>5
  <2> QED
    BY <2>1, <2>2
<1>6. ScansAlone' /\ ScannedOnce'
  BY <1>1, <1>2, <1>5
<1> QED
  BY <1>4, <1>6

\* The last steps, and the end of a handler at any point.
LEMMA EndKeepsInv ==
  ASSUME RegistrationInv, NEW h \in Handler,
         StartRepoProcessing(h) \/ Accept(h) \/ Disconnect(h)
  PROVE  RegistrationInv'
<1> USE DEF RegistrationInv, LoopsAreStarted, KnownHasLoop, AcceptedHasLoopOrWasBrought,
            ScansAlone, ScannedOnce, HasLoop, registryFile, server, handler, history, GoTo
<1>1. /\ at[h] # "idle" /\ at'[h] \in {"accept", "idle"} /\ of[h] \in Repo /\ up' = up /\ up
      /\ \A g \in Handler : g # h => at'[g] = at[g] /\ of'[g] = of[g]
      /\ UNCHANGED <<registry, brought, overlapped>>
  BY DEF StartRepoProcessing, Accept, Disconnect, Done, TypeOK
<1>2. /\ \A s \in Repo : RegisteredBy(s)' = RegisteredBy(s) \ {h}
      /\ \A s \in Repo : h \in RegisteredBy(s) => s = of[h]
  BY <1>1 DEF RegisteredBy, Registering
<1>3. CASE StartRepoProcessing(h)
  <2>1. TypeOK' /\ LoopsAreStarted'
    BY <1>1, <1>3 DEF StartRepoProcessing, TypeOK
  <2>2. \A s \in Repo : HasLoop(s) => HasLoop(s)'
    BY <1>1, <1>2, <1>3 DEF StartRepoProcessing
  <2>3. HasLoop(of[h])' /\ UNCHANGED <<of, queue, accepted>>
    BY <1>1, <1>3 DEF StartRepoProcessing
  <2>4. KnownHasLoop' /\ AcceptedHasLoopOrWasBrought'
    BY <1>1, <2>2, <2>3 DEF TypeOK
  <2>5. \A s \in Repo : \A k \in RegisteredBy(s)' : k \in RegisteredBy(s) /\ at'[k] = at[k]
    BY <1>1, <1>2 DEF RegisteredBy
  <2>6. ScansAlone' /\ ScannedOnce'
    BY <1>1, <2>3, <2>5
  <2> QED
    BY <2>1, <2>4, <2>6
<1>4. CASE Accept(h)
  <2>1. TypeOK' /\ LoopsAreStarted'
    BY <1>1, <1>4, EnqueuedIs, RegistrationAssumption DEF Accept, Done, TypeOK
  <2>2. h \notin RegisteredBy(of[h]) /\ at[h] = "accept" /\ at'[h] = "idle"
    BY <1>4 DEF Accept, Done, RegisteredBy, Registering, TypeOK
  <2>3. \A s \in Repo : h \notin RegisteredBy(s)
    BY <1>2, <2>2
  <2>4. \A s \in Repo : RegisteredBy(s)' = RegisteredBy(s)
    <3>1. ASSUME NEW s \in Repo PROVE RegisteredBy(s)' = RegisteredBy(s)
      <4>1. RegisteredBy(s)' = RegisteredBy(s) \ {h} /\ h \notin RegisteredBy(s)
        BY <1>2, <2>3
      <4> QED
        BY <4>1
    <3> QED
      BY <3>1
  <2>5. /\ UNCHANGED <<started, dropped>> /\ accepted' = accepted \cup {of[h]}
        /\ accepted' \subseteq Repo
    BY <1>1, <1>4 DEF Accept, TypeOK
  <2>6. KnownHasLoop' /\ AcceptedHasLoopOrWasBrought'
    BY <1>1, <2>2, <2>4, <2>5 DEF TypeOK
  <2>7. \A s \in Repo : queue'[s].issue = queue[s].issue /\ queue'[s].pr = queue[s].pr
    BY <1>1, <1>4, EnqueuedIs DEF Accept
  <2>8. ScansAlone' /\ ScannedOnce'
    BY <1>1, <2>2, <2>4, <2>5, <2>7 DEF RegisteredBy
  <2> QED
    BY <2>1, <2>6, <2>8
<1>5. CASE Disconnect(h)
  <2>1. TypeOK' /\ LoopsAreStarted'
    BY <1>1, <1>5, RegistrationAssumption DEF Disconnect, Done, TypeOK
  <2>2. \A s \in Repo : HasLoop(s) => HasLoop(s)'
    BY <1>1, <1>2, <1>5 DEF Disconnect, RegisteredBy
  <2>3. at'[h] = "idle" /\ UNCHANGED <<queue, accepted>>
    BY <1>5 DEF Disconnect, Done, TypeOK
  <2>4. KnownHasLoop' /\ AcceptedHasLoopOrWasBrought'
    BY <1>1, <2>2, <2>3 DEF TypeOK
  <2>5. \A s \in Repo : \A k \in RegisteredBy(s)' : k \in RegisteredBy(s) /\ at'[k] = at[k]
    BY <1>1, <1>2 DEF RegisteredBy
  <2>6. ScansAlone' /\ ScannedOnce'
    BY <1>1, <2>3, <2>5
  <2> QED
    BY <2>1, <2>4, <2>6
<1> QED
  BY <1>3, <1>4, <1>5

\* Every step keeps the invariant.
LEMMA RegistrationInvInductive == RegistrationInv /\ [Next]_vars => RegistrationInv'
<1> SUFFICES ASSUME RegistrationInv, [Next]_vars PROVE RegistrationInv'
  OBVIOUS
<1>1. CASE UNCHANGED vars
  BY <1>1 DEF vars, registryFile, server, handler, history, RegistrationInv, TypeOK, LoopsAreStarted,
     KnownHasLoop, AcceptedHasLoopOrWasBrought, HasLoop, ScansAlone, ScannedOnce, RegisteredBy
<1> QED
  BY <1>1, EnvironmentKeepsInv, ArrivalKeepsInv, BootstrapKeepsInv, EndKeepsInv DEF Next

\* The invariant holds of every state.
THEOREM RegistrationInvariant == Spec => []RegistrationInv
BY RegistrationInvInit, RegistrationInvInductive, PTL DEF Spec

\* Registry, handlers and queues; a handler at work belongs to a running server.
THEOREM TypeCorrectness == Spec => []TypeOK
<1>1. RegistrationInv => TypeOK
  BY DEF RegistrationInv
<1> QED
  BY <1>1, RegistrationInvariant, PTL

\* A repository has one drain loop, however many handlers register it at once.
THEOREM LoopsAreSingle == Spec => []OneLoop
<1>1. RegistrationInv => OneLoop
  <2>1. ASSUME RegistrationInv, NEW r \in Repo PROVE loops[r] <= 1
    <3>1. loops[r] = IF r \in started THEN 1 ELSE 0
      BY <2>1 DEF RegistrationInv, LoopsAreStarted
    <3> QED
      BY <3>1
  <2> QED
    BY <2>1 DEF OneLoop
<1> QED
  BY <1>1, RegistrationInvariant, PTL

\* Accepted events have a loop, except for two known ways around it.
THEOREM AcceptedEventsHaveLoops == Spec => []AcceptedHasLoopOrWasBrought
<1>1. RegistrationInv => AcceptedHasLoopOrWasBrought
  BY DEF RegistrationInv
<1> QED
  BY <1>1, RegistrationInvariant, PTL

\* No open item waits twice, unless two handlers registered its repository at once.
THEOREM OpenItemsWaitOnce == Spec => []ScannedOnce
<1>1. RegistrationInv => ScannedOnce
  BY DEF RegistrationInv
<1> QED
  BY <1>1, RegistrationInvariant, PTL
=============================================================================

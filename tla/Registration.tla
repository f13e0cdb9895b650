---------------------------- MODULE Registration ----------------------------
(***************************************************************************)
(* How a repository gets into a running server (server.rs, cli.rs).  The   *)
(* server reads registry.json at its start, bootstraps the repositories it *)
(* lists (one event per open issue and pull request) and starts a drain    *)
(* loop for each.  A webhook of a repository it does not know makes it     *)
(* read the file again: ensure_repo_registered takes the whole file for    *)
(* its registry, bootstraps that repository and starts its loop.           *)
(*                                                                         *)
(* Handlers of webhooks run beside each other and await locks and `gh`; a  *)
(* handler whose client goes away is dropped at an await.  `githubclaw     *)
(* init` is another process; it truncates registry.json before it writes.  *)
(* Each repository has one open issue and one open pull request here.      *)
(***************************************************************************)
EXTENDS Naturals

CONSTANTS
  Repo,
  Handler,     \* webhook requests at a time
  NoRepo,
  MaxWaiting,  \* bound of the model: webhook events in a queue
  MaxInits     \* bound of the model: calls of `githubclaw init`

ASSUME RegistrationAssumption ==
  /\ NoRepo \notin Repo
  /\ MaxWaiting \in Nat /\ MaxInits \in Nat

VARIABLES
  listed,   \* registry.json, or what `githubclaw init` is about to write
  torn,     \* registry.json is truncated
  up,       \* the server runs
  registry, started,
  at, of,   \* a handler and its repository
  latest,   \* what a handler has read
  queue,    \* events on disk
  \* history of the running server
  loops,      \* loops[r]: drain loops started for r
  accepted,   \* the repositories of accepted webhooks
  brought,    \* repositories that came in with another one
  dropped,    \* repositories whose registration was dropped
  overlapped, \* repositories ever registered by two handlers at once
  inits       \* calls of `githubclaw init`

registryFile == <<listed, torn, inits>>
server == <<up, registry, started>>
handler == <<at, of, latest>>
history == <<loops, accepted, brought, dropped, overlapped>>
vars == <<registryFile, server, handler, queue, history>>

Init ==
  /\ listed = {} /\ torn = FALSE
  /\ up = FALSE /\ registry = {} /\ started = {}
  /\ at = [h \in Handler |-> "idle"]
  /\ of = [h \in Handler |-> NoRepo]
  /\ latest = [h \in Handler |-> {}]
  /\ queue = [r \in Repo |-> [webhook |-> 0, issue |-> 0, pr |-> 0]]
  /\ loops = [r \in Repo |-> 0]
  /\ accepted = {} /\ brought = {} /\ dropped = {} /\ overlapped = {} /\ inits = 0

GoTo(h, label) == at' = [at EXCEPT ![h] = label]
Size(r) == queue[r].webhook + queue[r].issue + queue[r].pr
Enqueued(r, kind) == [queue EXCEPT ![r][kind] = @ + 1]

\* load_registry: a file that cannot be parsed is an empty registry.
LoadRegistry == IF torn THEN {} ELSE listed

\* The places after the registry is replaced and before the loop is started.
Registering == {"bootstrap", "issues", "prs", "start"}
RegisteredBy(r) == {h \in Handler : of[h] = r /\ at[h] \in Registering}

-----------------------------------------------------------------------------
(***************************************************************************)
(* `githubclaw init`.  It may be killed before it writes, or run beside    *)
(* another: what it cannot parse it takes for an empty registry, too.      *)
(***************************************************************************)
InitOpens(r) ==
  /\ torn' = TRUE
  /\ listed' = LoadRegistry \cup {r}
  /\ inits < MaxInits /\ inits' = inits + 1
  /\ UNCHANGED <<server, handler, queue, history>>

InitWrites ==
  /\ torn /\ torn' = FALSE
  /\ UNCHANGED <<listed, inits, server, handler, queue, history>>

-----------------------------------------------------------------------------
(***************************************************************************)
(* The server.                                                             *)
(***************************************************************************)

\* What a bootstrap makes of a queue: nothing if there are events in it or `gh`
\* fails, and one event for the issue and the pull request.
Bootstrapped(r) ==
  IF Size(r) > 0 THEN {queue[r]}
  ELSE [webhook : {0}, issue : {0, 1}, pr : {0, 1}]

Start ==
  /\ ~up
  /\ up' = TRUE
  /\ registry' = LoadRegistry /\ started' = LoadRegistry
  /\ loops' = [r \in Repo |-> IF r \in LoadRegistry THEN 1 ELSE 0]
  /\ queue' \in {q \in [Repo -> UNION {Bootstrapped(r) : r \in Repo}] :
                  \A r \in Repo : IF r \in LoadRegistry THEN q[r] \in Bootstrapped(r)
                                  ELSE q[r] = queue[r]}
  /\ UNCHANGED <<registryFile, handler, accepted, brought, dropped, overlapped>>

Stop ==
  /\ up
  /\ up' = FALSE /\ registry' = {} /\ started' = {}
  /\ at' = [h \in Handler |-> "idle"] /\ of' = [h \in Handler |-> NoRepo]
  /\ latest' = [h \in Handler |-> {}]
  /\ loops' = [r \in Repo |-> 0]
  /\ accepted' = {} /\ brought' = {} /\ dropped' = {}
  /\ UNCHANGED <<registryFile, queue, overlapped>>

\* The drain loop of r takes an event.
Drain(r) ==
  /\ r \in started
  /\ \E kind \in {"webhook", "issue", "pr"} :
       queue[r][kind] > 0 /\ queue' = [queue EXCEPT ![r][kind] = @ - 1]
  /\ UNCHANGED <<registryFile, server, handler, history>>

-----------------------------------------------------------------------------
(***************************************************************************)
(* webhook_handler                                                         *)
(***************************************************************************)
Done(h) ==
  /\ GoTo(h, "idle")
  /\ of' = [of EXCEPT ![h] = NoRepo] /\ latest' = [latest EXCEPT ![h] = {}]

Webhook(h, r) ==
  /\ up /\ at[h] = "idle"
  /\ of' = [of EXCEPT ![h] = r]
  /\ GoTo(h, IF r \in registry THEN "accept" ELSE "load")
  /\ UNCHANGED <<registryFile, server, latest, queue, history>>

\* The file is read.  Without the repository in it the event is ignored.
Load(h) ==
  /\ at[h] = "load"
  /\ \/ /\ of[h] \in LoadRegistry
        /\ latest' = [latest EXCEPT ![h] = LoadRegistry]
        /\ GoTo(h, "write") /\ UNCHANGED of
     \/ of[h] \notin LoadRegistry /\ Done(h)
  /\ UNCHANGED <<registryFile, server, queue, history>>

WriteRegistry(h) ==
  /\ at[h] = "write"
  /\ GoTo(h, "bootstrap")
  /\ registry' = latest[h]
  /\ brought' = brought \cup (latest[h] \ (registry \cup {of[h]}))
  /\ overlapped' = IF RegisteredBy(of[h]) = {} THEN overlapped ELSE overlapped \cup {of[h]}
  /\ UNCHANGED <<registryFile, up, started, of, latest, queue, loops, accepted, dropped>>

\* Mutation of CheckQueue: events that wait do not matter.
CheckNoQueue(h) ==
  /\ at[h] = "bootstrap"
  /\ GoTo(h, "issues")
  /\ UNCHANGED <<registryFile, server, of, latest, queue, history>>

\* bootstrap_repo: skipped if events wait.
CheckQueue(h) ==
  /\ at[h] = "bootstrap"
  /\ GoTo(h, IF Size(of[h]) > 0 THEN "start" ELSE "issues")
  /\ UNCHANGED <<registryFile, server, of, latest, queue, history>>

\* `gh` lists the open items, and they are queued; `gh` fails or lists none; or it
\* cannot be run, and the bootstrap gives up.
ScanIssues(h) ==
  /\ at[h] = "issues"
  /\ \/ queue' = Enqueued(of[h], "issue") /\ GoTo(h, "prs")
     \/ UNCHANGED queue /\ (GoTo(h, "prs") \/ GoTo(h, "start"))
  /\ UNCHANGED <<registryFile, server, of, latest, history>>

\* Mutation of ScanPrs: a bootstrap that fails ends the registration.
ScanPrsOrFail(h) ==
  /\ at[h] = "prs"
  /\ \/ queue' = Enqueued(of[h], "pr") /\ GoTo(h, "start")
     \/ UNCHANGED queue /\ GoTo(h, "accept")
  /\ UNCHANGED <<registryFile, server, of, latest, history>>

ScanPrs(h) ==
  /\ at[h] = "prs"
  /\ queue' = Enqueued(of[h], "pr") \/ UNCHANGED queue
  /\ GoTo(h, "start")
  /\ UNCHANGED <<registryFile, server, of, latest, history>>

\* Mutation of StartRepoProcessing: started_repos is not looked at.
StartAlways(h) ==
  /\ at[h] = "start"
  /\ GoTo(h, "accept")
  /\ started' = started \cup {of[h]}
  /\ loops' = [loops EXCEPT ![of[h]] = @ + 1]
  /\ UNCHANGED <<registryFile, up, registry, of, latest, queue, accepted, brought, dropped,
                 overlapped>>

StartRepoProcessing(h) ==
  /\ at[h] = "start"
  /\ GoTo(h, "accept")
  /\ started' = started \cup {of[h]}
  /\ loops' = IF of[h] \in started THEN loops ELSE [loops EXCEPT ![of[h]] = @ + 1]
  /\ UNCHANGED <<registryFile, up, registry, of, latest, queue, accepted, brought, dropped,
                 overlapped>>

Accept(h) ==
  /\ at[h] = "accept"
  /\ queue[of[h]].webhook < MaxWaiting
  /\ queue' = Enqueued(of[h], "webhook")
  /\ accepted' = accepted \cup {of[h]}
  /\ Done(h)
  /\ UNCHANGED <<registryFile, server, loops, brought, dropped, overlapped>>

\* The handler ends without having accepted its event: its client goes away, or
\* the queue cannot be written.
Disconnect(h) ==
  /\ at[h] # "idle"
  /\ dropped' = IF at[h] \in Registering THEN dropped \cup {of[h]} ELSE dropped
  /\ Done(h)
  /\ UNCHANGED <<registryFile, server, queue, loops, accepted, brought, overlapped>>

-----------------------------------------------------------------------------
Next ==
  \/ \E r \in Repo : InitOpens(r) \/ Drain(r)
  \/ InitWrites \/ Start \/ Stop
  \/ \E h \in Handler, r \in Repo : Webhook(h, r)
  \/ \E h \in Handler :
       \/ Load(h) \/ WriteRegistry(h) \/ CheckQueue(h) \/ ScanIssues(h) \/ ScanPrs(h)
       \/ StartRepoProcessing(h) \/ Accept(h) \/ Disconnect(h)

Spec == Init /\ [][Next]_vars

-----------------------------------------------------------------------------
(***************************************************************************)
(* Properties.                                                             *)
(***************************************************************************)

\* Type invariant.
TypeOK ==
  /\ listed \subseteq Repo /\ torn \in BOOLEAN /\ inits \in 0 .. MaxInits
  /\ up \in BOOLEAN /\ registry \subseteq Repo /\ started \subseteq Repo
  /\ at \in [Handler -> Registering \cup {"idle", "load", "write", "accept"}]
  /\ of \in [Handler -> Repo \cup {NoRepo}]
  /\ \A h \in Handler : at[h] # "idle" => up /\ of[h] \in Repo
  /\ latest \in [Handler -> SUBSET Repo]
  /\ queue \in [Repo -> [webhook : Nat, issue : Nat, pr : Nat]]
  /\ loops \in [Repo -> Nat]
  /\ accepted \subseteq Repo /\ brought \subseteq Repo /\ dropped \subseteq Repo
  /\ overlapped \subseteq Repo

\* A repository has one drain loop, however many handlers register it at once: two
\* loops would work on one queue side by side.
OneLoop == \A r \in Repo : loops[r] <= 1

\* A repository whose events are accepted (202) has a drain loop, or a handler is
\* about to start it, unless that handler was dropped ...
HasLoop(r) == r \in started \/ RegisteredBy(r) # {} \/ r \in dropped

\* "Routes to correct repo queue via registry.json", then "Spawns or resumes the
\* repo's orchestrator session" (docs/ARCHITECTURE.md): events that are accepted are
\* worked on.
AcceptedHasLoop == \A r \in accepted : HasLoop(r)

\* ... or the repository came into the registry with another one.
AcceptedHasLoopOrWasBrought == \A r \in accepted \ brought : HasLoop(r)

\* No open issue or pull request waits twice, unless two handlers registered its
\* repository at once.
ScannedOnce ==
  \A r \in Repo \ overlapped : queue[r].issue <= 1 /\ queue[r].pr <= 1
=============================================================================

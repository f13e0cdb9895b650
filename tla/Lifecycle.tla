------------------------------ MODULE Lifecycle ------------------------------
(***************************************************************************)
(* From a comment on GitHub to the tracker of a root issue: agents and     *)
(* people write, GitHub delivers the webhooks in any order, the drain loop *)
(* routes the event at the head of the queue and applies it to the issue's *)
(* snapshot, and then waits, or runs an orchestrator, which may fail.      *)
(* The tracker is that of Pipeline, for the one issue Root; the queue is   *)
(* what DiskQueue promises; receiving, reserving and the orchestrator      *)
(* itself are in DrainLoop.  A text the wrapper passes through unchanged   *)
(* (AgentRun) is one its author wrote without it: Nobody's.                *)
(***************************************************************************)
EXTENDS Pipeline, Router

CONSTANTS
  Root, Other,      \* two root issues; the tracker is that of Root
  SubIssueNumber,   \* a sub-issue an agent may open
  PullRequest,      \* a pull request somebody may open
  Comments,         \* the markers of a comment: its summary, if it has one, and then the others in their order
  MaxEvents         \* bound: events posted or delivered again

VARIABLES
  opened,     \* issues and pull requests there are
  bodies,     \* their bodies
  home,       \* history: the root issue each was written for
  strays,     \* history: those that mention another issue in the form of a reference
  network,    \* webhooks on their way
  queue,      \* the repository's queue
  loop,       \* "idle", "applied" or "running"
  todo,       \* markers of the event being applied that are still to be applied to the tracker
  agents,     \* the root issues orchestrators were started for
  tracked,    \* the numbers that have a snapshot
  posted,     \* events and redeliveries so far
  told        \* history: the markers in comments written for Root, or with a mention in the form of a reference

worldVars == <<opened, bodies, home, strays, network, agents, posted, told>>
loopVars == <<queue, loop, todo>>
allVars == <<vars, routerVars, worldVars, loopVars, tracked>>

Roots == {Root, Other}
Number == Roots \cup {SubIssueNumber, PullRequest}
Marker == {"summary", "reproduced", "not_reproduced", "approved", "reviewed", "verified", "stuck"}

ASSUME LifecycleAssumption ==
  /\ Number \subseteq Nat /\ Nobody \in Nat \ Number
  /\ PullRequest \notin Roots \cup {SubIssueNumber}
  /\ <<>> \in Comments /\ Comments \subseteq Seq(Marker)
  /\ MaxEvents \in Nat

LifecycleInit ==
  /\ Init
  /\ prMap = <<>> /\ torn = FALSE
  /\ opened = Roots /\ bodies = [n \in Number |-> <<>>] /\ home = [n \in Number |-> IF n \in Roots THEN n ELSE Nobody]
  /\ strays = {} /\ network = {} /\ queue = <<>> /\ loop = "idle" /\ todo = <<>>
  /\ agents = Roots /\ tracked = Roots /\ posted = 0 /\ told = {}

-----------------------------------------------------------------------------
(* GitHub and those who write there.                                       *)

\* What an agent or a person writes before the wrapper adds to it: nothing of that form, or a mention of another issue.
Drafts == {<<>>, <<Other>>}

\* The authors: the agents of a root issue, whose gh is the wrapper, and people and bare texts, that have none.
Authors == agents \cup {Nobody}
Written(draft, author) == AppendRef(draft, author)

Carried(markers) == {markers[i] : i \in 1 .. Len(markers)}

Post(kind, n, body, markers, of, stray) ==
  /\ posted < MaxEvents /\ posted' = posted + 1
  /\ network' = network \cup {[id |-> posted + 1, kind |-> kind, number |-> n, body |-> body, about |-> bodies'[n],
                               markers |-> markers, home |-> of, stray |-> stray]}
  /\ told' = told \cup (IF of = Root \/ stray THEN Carried(markers) ELSE {})

\* gh issue create and gh pr create, by an agent or by a person.
Open(kind, n, author, draft) ==
  /\ n \notin opened
  /\ opened' = opened \cup {n}
  /\ bodies' = [bodies EXCEPT ![n] = Written(draft, author)]
  /\ home' = [home EXCEPT ![n] = IF author # Nobody THEN author ELSE IF kind = "issues" THEN n ELSE Nobody]
  /\ strays' = IF draft = <<>> THEN strays ELSE strays \cup {n}
  /\ Post(kind, n, Written(draft, author), <<>>, home'[n], draft # <<>>)

\* A comment or a review: an agent's is about the issue it works on, a person's about what it is written under.
Write(kind, n, author, draft, markers) ==
  /\ n \in opened
  /\ UNCHANGED <<opened, bodies, home, strays>>
  /\ IF author # Nobody THEN Post(kind, n, Written(draft, author), markers, author, draft # <<>>)
     ELSE Post(kind, n, draft, markers, home[n], draft # <<>> \/ n \in strays)

\* A check on a pull request fails; a server that starts finds an open issue or pull request; a title is edited.
Notice(kind, n) ==
  /\ n \in opened
  /\ UNCHANGED <<opened, bodies, home, strays>>
  /\ Post(kind, n, <<>>, <<>>, home[n], n \in strays)

World ==
  /\ \E author \in Authors, draft \in Drafts :
        \/ Open("issues", SubIssueNumber, author, draft)
        \/ Open("pull_request", PullRequest, author, draft)
        \/ \E n \in Number, markers \in Comments : Write("issue_comment", n, author, draft, markers)
        \/ Write("pull_request_review", PullRequest, author, draft, <<>>)
        \/ Notice("check_run", PullRequest)
        \/ \E n \in Number : Notice("bootstrap", n) \/ Notice("edited", n)
  /\ UNCHANGED <<vars, routerVars, loopVars, agents, tracked>>

\* The webhooks arrive in any order.  One that GitHub is asked to deliver again comes again, with the same id, and is queued
\* again: nothing compares the ids of deliveries.
Receive(e) ==
  /\ queue' = Append(queue, e)
  /\ \/ network' = network \ {e} /\ posted' = posted
     \/ network' = network /\ posted < MaxEvents /\ posted' = posted + 1
  /\ UNCHANGED <<vars, routerVars, opened, bodies, home, strays, agents, told, loop, todo, tracked>>

-----------------------------------------------------------------------------
(* run_event_loop.                                                         *)

\* apply_marker: what a marker changes in the tracker, if it changes anything.
Takes(m) ==
  CASE m = "reproduced" \/ m = "not_reproduced" -> type = "none" \/ state \in {"reproducing", "decomposing"}
    [] m = "approved" -> state \in {"approved", "awaiting_interactive_session", "decomposing"}
    [] m = "reviewed" -> state \in {"reviewing", "decomposing"}
    [] m = "verified" -> state \in {"verifying_e2e", "decomposing"}
    [] OTHER -> TRUE

Change(m) ==
  LET reproduction == m \in {"reproduced", "not_reproduced"} /\ (type = "none" \/ state # "decomposing")
  IN  \/ m = "summary" /\ \E t \in Types : Summary(t)
      \/ reproduction /\ \E yes \in BOOLEAN : (yes <=> m = "reproduced") /\ Reproduced(yes)
      \/ m # "summary" /\ ~reproduction /\ state = "decomposing" /\ Decomposed
      \/ /\ m # "summary" /\ ~reproduction /\ state # "decomposing"
         /\ \/ m = "approved" /\ Approved
            \/ m = "reviewed" /\ ReviewPasses
            \/ m = "verified" /\ Verified
            \/ m \notin {"approved", "reviewed", "verified"} /\ Stuck

\* What the event brings to the tracker of Root.
MarkersFor(root, e) == IF root = Root /\ e.kind = "issue_comment" THEN e.markers ELSE <<>>

\* is_actionable_event, and the bootstrap: openings, comments, reviews and checks that fail, not edits.
Actionable(e) == e.kind # "edited"

Skip ==
  /\ loop = "idle" /\ queue # <<>> /\ ~Actionable(Head(queue))
  /\ queue' = Tail(queue)
  /\ UNCHANGED <<vars, routerVars, worldVars, loop, todo, tracked>>

\* Every turn of the loop routes and applies the head of the queue, before it knows whether it can go on.
ApplyHead ==
  /\ loop = "idle" /\ queue # <<>> /\ Actionable(Head(queue))
  /\ LET root == Route(Head(queue)) IN tracked' = tracked \cup ({root} \ {Nobody}) /\ todo' = MarkersFor(root, Head(queue))
  /\ RegisterPr(Head(queue))
  /\ loop' = "applied"
  /\ UNCHANGED <<vars, worldVars, queue>>

\* apply_event on the snapshot: the summary and every marker, one after the other, and nothing else happens in between.
\* A server that dies before the snapshot is saved has not begun.
ApplyNext ==
  /\ todo # <<>>
  /\ todo' = Tail(todo)
  /\ IF Takes(Head(todo)) THEN Change(Head(todo)) ELSE UNCHANGED vars
  /\ UNCHANGED <<routerVars, worldVars, queue, loop, tracked>>

\* A pause of the rate limiter, no free slot, or a queue that cannot be read: the next turn.
WaitForTurn ==
  /\ loop = "applied"
  /\ loop' = "idle"
  /\ UNCHANGED <<vars, routerVars, worldVars, queue, todo, tracked>>

\* The orchestrator is started, for issue 0 if the event was not routed.
Run ==
  /\ loop = "applied"
  /\ loop' = "running"
  /\ agents' = agents \cup ({Route(Head(queue))} \ {Nobody})
  /\ UNCHANGED <<vars, routerVars, opened, bodies, home, strays, network, posted, told, queue, todo, tracked>>

\* It succeeds or the event has failed too often; or it fails and the event goes to the end of the queue.
Ends ==
  /\ loop = "running"
  /\ loop' = "idle"
  /\ queue' \in {Tail(queue), Append(Tail(queue), Head(queue))}
  /\ UNCHANGED <<vars, routerVars, worldVars, todo, tracked>>

\* The server dies and another one starts: an event that was being run goes to the end of the queue.
Restart ==
  /\ loop' = "idle"
  /\ queue' = IF loop = "running" THEN Append(Tail(queue), Head(queue)) ELSE queue
  /\ UNCHANGED <<vars, worldVars, todo, tracked>>
  /\ \/ UNCHANGED routerVars
     \/ loop = "idle" /\ queue # <<>> /\ TearMap(Head(queue))

\* `githubclaw dispatch` of the two agents that set the state, by an orchestrator of Root.
AgentStarts ==
  /\ Root \in agents
  /\ ReproducerStarts \/ AnalystStarts
  /\ UNCHANGED <<routerVars, worldVars, loopVars, tracked>>

Elsewhere ==
  \/ World \/ (\E e \in network : Receive(e))
  \/ Skip \/ ApplyHead \/ WaitForTurn \/ Run \/ Ends \/ Restart
  \/ AgentStarts

LifecycleNext == ApplyNext \/ (todo = <<>> /\ Elsewhere)

LifecycleSpec == LifecycleInit /\ [][LifecycleNext]_allVars

-----------------------------------------------------------------------------
(* Properties.                                                             *)

Queued == {queue[i] : i \in 1 .. Len(queue)}

\* A comment on a pull request that refers to no issue, and is of none.
OfNoIssue(e) == e.kind = "issue_comment" /\ e.number = PullRequest /\ e.home = Nobody

\* An event belongs to the root issue its author worked for: the one the reference names, or that of the pull request
\* it is about, whatever order the webhooks came in and whatever happened to the map.  A text that mentions another issue
\* as a reference, and a bootstrap event, are left out; a comment of no issue is taken for one on an issue with the number
\* of the pull request.
RoutedHome ==
  \A e \in Queued : \/ ~Actionable(e) \/ e.stray \/ e.kind = "bootstrap"
                    \/ Route(e) \in {e.home, Nobody}
                    \/ OfNoIssue(e) /\ Route(e) = e.number

\* What the tracker of Root says was told in a comment written for Root: no comment of another issue, wherever it is
\* written, and no delivery of it again approves Root, merges it, or has it wait for its author.
StagesAreTold ==
  /\ state \in OnSubIssue \cup {"decomposing", "verifying_e2e", "merged"} => "approved" \in told
  /\ state = "merged" => "verified" \in told
  /\ state = "approved" => "reproduced" \in told
  /\ state \in {"awaiting_info", "rejected"} => "not_reproduced" \in told
=============================================================================

# GithubClaw: TLA+ specifications

GithubClaw is a server that receives GitHub webhooks, keeps the events of each
repository in a queue on disk, and has an *orchestrator* (an AI coding agent,
run as a child process) work on them one after another. The orchestrator
dispatches *workers* by calling the `githubclaw` command again. This directory
holds TLA+ models of the parts in which order, concurrency, crashes and limits
matter, the TLC runs over them, and TLAPS proofs.

Paths such as `queue.rs` stand for `src/src/queue.rs`. `PROJECT.json` maps
each definition to the lines it models.

## 1. Inventory

| Part | State | Operations | Correct when |
|---|---|---|---|
| Disk queue (`queue.rs`) | the JSON files of `queue/`, `inflight/`, `dead/`, named by sequence number and event type | enqueue, peek, dequeue, reserve, attach pid, ack, nack, recovery of orphans | no accepted event is lost or overwritten; order; retry budget |
| Drain loop (`server.rs`, `event_drain_loop`) | a task per repository: the event in hand, the child it waits for | recover, peek, skip or reserve, spawn, attach, wait, ack or nack | serial, at least once, acknowledged only after success, never stuck |
| Process table (`process_manager.rs`) | pid to entry, shared by all loops | capacity check, register, report exit, monitor's timeouts | slots are given back |
| Rate limiter (`rate_limiter.rs`) | tier behind a lock, an atomic flag, a probe task | report, recovery, probe | a pause holds, and ends |
| Issue router (`issue_router.rs`, `markers.rs`) and the `gh` wrapper (`scripts/gh`) | `pr_map.json`; the references `ref #N` in what agents write | append a reference, register a pull request, route an event | an event reaches the root issue its author worked for |
| Pipeline tracker (`pipeline.rs`, fed by `runtime_state.rs`) | the lifecycle state of an issue, its sub-issues and the index of the current one | markers, test and review results, human direction, dispatches, summaries | approval first, every sub-issue reviewed |
| Agents (`agents/*.rs`, `session_store.rs`) | definitions in three places, a prompt file per run, the wrapper in `~/.githubclaw/bin`, the session id of an issue | look up, assemble, install, spawn, save the session, clean up | one thread per issue; a prompt is there while it is needed; comments carry references |
| Dispatch and receipts (`cli.rs`, `dispatch_receipts.rs`) | a receipt file per dispatch of a run | check receipt, run worker, record receipt | a worker that succeeded is not run again |
| Runtime snapshots (`session_store.rs`, `runtime_state.rs`) | `runtime.json` per issue | load, change, save, by server and workers | updates are not lost |
| Scheduled events (`scheduler.rs`, loop in `cli.rs`) | a list in memory and on disk | create, cancel, firing pass, save, load | nothing vanishes, nothing fires twice, on the grid |
| Registration and bootstrap (`server.rs`, `cli.rs`) | `registry.json`, the registry in memory, the set of started repositories | start a repository's loop, queue one event per open issue | one loop per repository, a loop for whatever is accepted, no item queued twice |
| Server process (`cli.rs`) | systemd unit, tmux session, launchd job, `server.pid` | start, stop, stop --force, status, serve | one server; a stop stops it and nothing else |
| Configuration (`config.rs`) | `config.yaml`, by hand or by `start` | load, cast, validate, save | the ports that come out are real; a limit of zero stops work |
| Dashboard (`tui/*.rs`) | inbox and selection, the open session and its reader thread, what was asked for in the last turn | keys, clicks, frames, ticks, session, review; the startup's checks | a review is about what was seen; sessions end and are not replaced |
| Webhook handler (`server.rs`) | none of its own | signature check, parse, enqueue | accepted means queued |
| Signature, texts of prompts and messages, drawing, `release` | none | library calls, text processing, `git` and `gh` in a row | (unit tests) |

**How they interact.** The webhook handler and the scheduler's loop enqueue;
`githubclaw bootstrap` and hot registration enqueue too. Each drain loop works
through one queue, all through a map of queues behind one `tokio` mutex
(`queues`), held for one queue operation at a time and never across an await of
a child. Loops share the process table (a mutex, released between the check of
a limit and the registration) and the rate limiter (a lock for the tier, none
while the probe calls `gh`). A child outlives its server: nothing kills it, and
the next server reads its pid from the inflight file. Agents call `gh` through
the wrapper, which appends the reference by which the router finds the root
issue of the webhook that follows; the loop applies the event to that issue's
tracker. Server and workers share `runtime.json` through plain reads and
renames, and the dashboard, another process, reads it. The commands act on the
server through systemd, tmux, launchd and signals.

**What is hard.** An event is judged under one lock and taken under another; a
child is spawned before its pid is on disk; a release has two effects on disk
that a crash separates; sequence numbers restart; pids are reused, by orchestrators
and by the server; exits are reported by pid; limits are checked before they are
taken; a probe answers after new failures were reported; a marker may arrive in
any state of the pipeline, and is applied once per turn of the loop; webhooks
come in any order, that of a review before that of its pull request; files
(`pr_map.json`, the session id, the wrapper) are rewritten in place while others
read them; a firing pass empties the list it works on; a receipt is looked for
before a worker runs and written after; several processes save one file through
one temporary file; a webhook handler can be dropped while it waits for `gh`; a
server works before it has its port; systemd restarts what a stop has killed; the
dashboard's list changes between a frame and the key that follows. `PROJECT.json`
lists these under `hazards`, each at its line.

## 2. Modules

    EventChannel  <--implements--  DrainLoop  --EXTENDS-->  DiskQueue
    DiskQueue  <--EXTENDS--  SharedQueue
    RateLimiter  <--EXTENDS--  Server
    Pipeline, Router  <--EXTENDS--  Lifecycle
    Snapshot  <--EXTENDS--  Dispatch
    Config    <--EXTENDS--  Daemon
    Startup   <--EXTENDS--  Tui
    Registration, Scheduler, AgentRun

Each system and `Pipeline` have an `MC` module with the values TLC uses
(`MCDrainLoop` ...). `DrainLoopProofs` (of the queue, the loop and the shared queue),
`LifecycleProofs` (of the tracker and the lifecycle), `ServerProofs`,
`DispatchProofs`, `RegistrationProofs`, `AgentRunProofs`, `SchedulerProofs` and
`DaemonProofs` (of the server's commands, the configuration and, in its last
section, the dashboard: it extends `Daemon` and `Tui`) hold the proofs. Definitions named
*Mutation of D* are plausible bugs of `D`; nothing refers to them: putting one
in the place of `D` must make the property it is meant for fail.

### DiskQueue

State: `queue`, `inflight`, `dead`, sets of files, a file being a record (id,
sequence number, retry count, pid). A file's *name* is its number and its
event's label; `Write` replaces a file of the same name, as the rename in
`write_event_file` does. The variables `accepted`, `acked`, `dropped` and
`buried` are history. One action per public operation; the release of a
reserved event (`release_inflight_event`) is `ReleaseWrite` then
`ReleaseRemove`, with `releasing` in between, since a crash or a failing
`remove_file` may come there (`ReleaseAbort`). Nothing else runs between the
two: the caller holds the `queues` mutex (`Unlocked`). `QueueSpec` is the queue
under any caller that reserves before it attaches, acks or nacks.

### DrainLoop and EventChannel

The loop of one repository on top of `DiskQueue`. `pc` names the points
between critical sections and awaits:

    top -> peeked -> reserved -> spawned -> waiting -> succeeded | failed -> top

`cur` is the event peeked and later the reserved one (the code's second read of
the head is a new `First(queue)`, not `cur`), `handle` the pid of the child the
loop waits for, `child` the host's process table, which a crash does not touch.
`Crash` ends the server between any two steps, in the middle of a release too;
`Start` is a new server with an empty memory. Disk operations fail
(`AttachFails`, `SettleFails`, `RemoveFails`, `IterationFails`), so do the
preparation of a prompt, spawns and waits; other programs take free pids
(`ForeignStarts`). Faults share the bound `MaxFaults`; failing spawns and
failing orchestrators are bounded by the retry budget instead.

`EventChannel` says what all this is for, without files, processes or restarts:
an accepted event is owed until a run of it succeeded, or it was attempted more
often than its budget, or, if nobody acts on its type, until it is discarded. The
refinement (`ChannelSpec`) maps what is owed to the ids in `queue/` and
`inflight/`; a crash, a reservation, a recovery and both halves of a release are
stutters of the channel.

### SharedQueue

`githubclaw bootstrap` beside a running server: the command has a queue object of
its own over the same directory, and the `queues` mutex is in the other process. So
`Prepare` (the number is chosen) and `Rename` (the file appears) are two steps here,
of the server and of the command, and a write may fail in between (`WriteFails`):
opening a queue deletes every temporary file it finds. `writing` holds what each
process is about to rename; a file the server releases also names the reservation
it copies. What the server does without choosing a number (`ServerStep`, `ServerBuries`)
is taken from `DiskQueue` as it is. All events of the command have one label,
`Bootstrap`, which the server uses as well when it bootstraps a repository itself.

### RateLimiter and Server

All drain loops with what they share. A loop is reduced to the steps that touch
the shared parts, its queue to a number. The process table is `process`, the
host `alive`; they differ when an entry has timed out while its process runs
on, and when a pid is used again. `limit` is `max_concurrent_orchestrators`, one of
`Limits`, as the server found it. A report is one step (the tier's lock is held
to the end), the probe two. Time is left out: `TimeOut` may hit any running
entry. History: `stale` counts what a loop spawned during a pause, `crowded` notes
that a loop was let past the limit while another was between there and the table
(`Unregistered`).

### Pipeline

`PipelineTracker` and the three places of `runtime_state.rs` that change it.
Operations come in any order, as the code lets them: a marker comes with a
comment, a summary from a comment, a dispatch from the orchestrator, and no
caller checks the state first. Exception: `set_sub_issues` is called after a
decomposition. A call in a state for which the code has no effect is not an
action. History: `approved`, `reviewed`, `failedTests`.

Of these, `set_sub_issues`, `on_implementer_done`, `on_review_done` and
`on_human_direction` have no caller in `src/` outside tests at this commit: the
properties about sub-issues are about the tracker as it is offered.

### Router and Lifecycle

`Router` is `route_event` with the map of pull requests, and the two ends of a
reference: `AppendRef` of the wrapper and `ExtractRef` of `markers.rs`. A body is
the sequence of the numbers it mentions in the form of a reference. `TearMap` is
the write of the map cut short.

`Lifecycle` closes the circle: agents and people open issues and pull requests,
comment on both and review (`World`); GitHub delivers in any order, and again on
request, with the same id (`Receive`); the loop routes the event at the head and
loads what it brings to its root issue's tracker (`ApplyHead`): a comment's
summary and all its markers, which are in `todo` and applied one after the other
(`ApplyNext`) before anything else happens, as `apply_event` does on one copy of
the snapshot. Then the loop waits and comes around again, or runs an orchestrator
that may fail. A marker without effect in the state it finds is passed over. A
text the wrapper passes through unchanged counts as `Nobody`'s, like a person's.
History: `home`, the root issue an event was written for; `strays`, what mentions
another issue in the form of a reference; `told`, the markers in comments written
for the tracked issue, or in strays. The queue is an atomic sequence here, as
`DiskQueue` and its theorems allow.

### Snapshot and Dispatch

`Snapshot` is `runtime.json` of one issue and its update as the processes make
it: `Load` (read and change), `Open` (the temporary file is created or
truncated), `Write`, `Rename`. Every process uses the same temporary name and
nothing excludes another one, so a process may rename what another has just
truncated, write through a descriptor into a file that is `runtime.json` by
then, or find nothing to rename. A file that cannot be parsed is read as no
history. The contents are reduced to the agents' sessions and the events
applied. `truth` is history: what the updates so far amount to, kept up while
none has overlapped another (`raced`).

`Dispatch` is `cmd_dispatch` around it: `Call`, `CheckReceipt`, note, prepare,
`Spawn`, `AgentEnds`, note, `Record`. `at` names what the process does next and
`Onwards` where it goes after an update; a save that fails is ignored, as the
code ignores it (`UpdateFails`). The server appears with the updates its loop
makes (`Judge`, `Reserve`, the notes around its child); `StartsOver` is the
pause or the full process table in which the loop comes back to the same event
and applies it again. `Kill`, `Crash` and failed writes share `MaxFaults`. The
work of a killed call's agent may still succeed. An event that is a summary
(`Summaries`) also notes the analyst as completed when it is applied
(`Applied`), whoever wrote it and whether or not the analyst ran; the instance's
event is one, and its two calls dispatch the analyst, so that the two ways to that
note meet.

### AgentRun

What surrounds an agent: the orchestrator's run in the server's loop (`Loop`) and
calls of `githubclaw dispatch` (`Worker`) each look up a definition (the first of
three places that has a file decides, readable or not), write a prompt file,
install the `gh` wrapper if there is none (three steps: create, write, make
executable), and start the agent, which reads its prompt when it gets to it.
Under codex the orchestrator tells the id of its thread, which is written in
place and resumed by the next run; an id that cannot be read counts as none. People
edit definitions. `Kill` and `Stop` end a run between any two steps, and a wait may
fail (`WaitFails`), while the agent goes on: it is then one of the `orphans`, which
read their prompt, comment and end beside later runs. `dispatch` leaves through
`exit` when its agent fails, so that the prompt file stays. A text for `gh` comes
in one of two `Forms`: an argument `--body` of its own, which the wrapper rewrites,
or any other (`-b`, `--body=`, `--body-file`, `gh api`), which it does not look at.
History: `broken` notes runs that were cut short; `founding` those that install
the wrapper, `unaided` those whose installation failed, and `spoilt` that one was
interrupted after it had opened the file.

### Registration

`registry.json` and the two who use it: `githubclaw init` truncates and writes
(`InitOpens`, `InitWrites`), the server reads at its start and when a webhook
names a repository it does not know. A handler goes

    load -> write -> bootstrap -> issues -> prs -> start -> accept

each an await of a lock or of `gh` (`at`, `of`), and may be dropped at any of
them (`Disconnect`): the HTTP library drops the future when the client goes
away, and GitHub waits ten seconds while the handler runs `gh` twice. That is
an assumption on a library and is marked external. History: `loops` counts the
loops started per repository, `brought` the repositories that entered the
registry because of another one, `dropped` those whose registration was
dropped, `overlapped` those two handlers registered at once.

### Config and Daemon

`Config` computes what `GlobalConfig::load` makes of a file: a flat value hides a
nested one, a word is the default, numbers are cast (to 16 and 32 bits) and then
validated. `Daemon` is the server as a process: `proc` says what each pid is
(free, another program, a server starting, serving, stopping), `unit` what systemd
has on disk, has loaded and does. A command is a sequence of steps (`cmd.at`)
between which systemd restarts, processes crash, pids come back and the machine
is rebooted. `ServeByHand` starts a server in a shell, beside a managed one, on the
default port or the configured one; drain loops run from the beginning and the port
is bound at the end. Two failures are not reported by the code, and not in the
model: a forced stop ignores that `systemctl stop` failed once its kill has worked
(`cmd.unheard`, history), and a launchd `bootout` that is refused counts as a stop.
What the launchd job of an earlier version says is not in the repository; it is
taken to start nothing at a login and nothing again once its process has ended.

### Startup and Tui

`Startup` is what `githubclaw tui` asks before it opens the screen. `Tui` is the
main loop: `Frame` (clicks take effect), `Open` of the session asked for, the
review, then input until none comes, then a tick that reads the snapshots and the
session's output; the pseudo-terminal's reader is a thread of its own. Output is a
sequence of characters reduced to their widths, which is what the trimming of the
buffer looks at: it may cut in the middle of a character, and then panics
(`phase = "panicked"`). `screen` and `followed` are history: what the operator
saw, and whether the selection still is where the session put it.

### Scheduler

The list in memory, its file, and the pass of
`fire_due_events_with_callback`, one step per event: `todo` is the drained
list, `remaining` what is kept, `start` the pass's reading of the clock. A pass
holds the lock, so creation and cancellation come between passes; a crash comes
anywhere. Trigger times may be past when an event is created. `save` may fail and
every caller ignores it; so may `load` (`LoadFails`), and then the server goes on
with an empty list (`blind`) until its next save writes over the file. A failed
callback counts a retry, the list is saved only if something fired. History: `fires`
counts per server, `lost` and `overwritten` are the events that went with a server
that could not save, and in a file that was not read. `create_event` and
`cancel_event` are called by tests only at this commit.

## 3. Runs

| Run | Instance | Shows |
|---|---|---|
| `shared_queue` | two webhooks of one type, an event the server bootstraps, one of the command, budget 1, numbers to 2 | `WebhooksSurvive`, `BuriedIsKeptOrReplaced` |
| `drain_loop` | two events to work on and one to drop, budget 1, two pids, two faults | `Fifo`, `SerialOnceRecorded`, `ExtraSuccessNeedsFault`, `JudgedIsTaken`, refinement `ChannelSpec`, `EventuallyIdle` |
| `pipeline` | three sub-issues in any decomposition, loops of 3 and 2 | `WorksOnCurrent`, `E2eAfterReviews`, `NoWorkBeforeApproval` |
| `lifecycle` | root issues 1 and 12, a sub-issue, a pull request, comments with up to two markers, two events under way | `RoutedHome`, `StagesAreTold` |
| `server` | two repositories, one slot or none, two pids, two queued events | `NoSlotLeaks`, `OneStaleSpawn`, `LimitIsKept`, `SomeoneIsServed` |
| `scheduler` | a one-shot and a recurring event, interval 2, two retries, clock to 2, one crash | `NoneVanishes`, `FiredOncePerRun`, `OnTheGrid`, `DueIsSettled` |
| `dispatch` | two calls with one key, the server with one event, a summary, one fault | `ReceiptIsEarned`, `RunOnce`, `AloneNothingIsLost`, `CompletedIsTrue`, `RunningIsAlive` |
| `agent_run` | the loop and one dispatch, three thread ids, one fault, one edit | `ThreadNeedsLoss`, `PromptFollowsRun`, `CommentsAreReferenced` |
| `registration` | two repositories, two handlers, three calls of `init`, one waiting webhook each | `OneLoop`, `AcceptedHasLoopOrWasBrought`, `ScannedOnce` |
| `registration_refresh` | the same | `AcceptedHasLoop` fails |
| `daemon` | two pids, two configuration files and those that are missing, damaged or empty, one fault | `OneServer`, `StopStops`, `KillsOnlyServers`, `PortIsReal`, `OverlapEnds` |
| `tui` | two issues, two running agents, characters of one and three bytes, a cap of four bytes | `ReviewIsOfSeen`, `NoSessionReplaced`, `EndedSessionCloses` |

The larger ones (`dispatch`, `agent_run`, `registration`, `drain_loop`, `shared_queue`)
have one and a half to three million states and take one to four minutes with two
workers.

**Why the bounds are enough.** Two events of one type are the smallest case in
which names collide and order is visible, and the third shows that only the
type and the number make a name; three numbers let the queue run empty and start
again at 1 while a copy is left by an interrupted release. `MaxSeq` is never
reached in `drain_loop` (at most three events with two attempts each, and a copy
per fault). Two faults give a crash in the middle of the recovery from a crash,
and a failed write followed by a crash. Two pids let an orphan run beside a new
child. Two repositories and one slot are the smallest competition; two pids the
smallest reuse. In `shared_queue` two numbers let both processes choose one number, a release
move behind it, and a number come back when the queue is empty; two events of one
type and one of each other kind are enough for every pair of names to meet.
Three sub-issues have a first, a last and one that is neither;
an attempt limit of 3 for the test loop and 2 for reviews make both loops turn.
In `lifecycle` the numbers 1 and 12 are the smallest pair of which one reference
is found inside the other (`ref #1` in `ref #12`), and two events under way are
enough for a review that overtakes its pull request; one comment has a summary
and a marker, so that one turn of the loop takes two steps of the tracker. An interval of 2 on a clock
to 2 gives a late pass (trigger 0 or 1 seen at 2) and a pass that is on time; one
crash is followed by a load that works or fails, and two were tried.
Two calls with one key are the smallest case of a duplicate and of a race for the
receipt; with the server three processes update the snapshot, so that a third
may rename or truncate what two others write. In `agent_run` a thread per fault
and one to spare; one dispatch is enough to install the wrapper
beside the loop. Two faults, so that one orphan may outlive another, were tried with
no edits. One fault is enough for each exception the properties name;
the proofs are for any numbers. Three calls of `init` are two repositories and
one that finds the file truncated by a call that was killed, and so loses one.
In `daemon` two pids let a server start beside another, or a pid come back as
another program while the pid file names it; one file puts a value in each of the
forms that are corrected, the other one past the last number of each width (the
widths are the code's for ports; for the retry count 16 stands for 2^32, which
nothing else depends on). In `tui` the cap cuts a character of three bytes at
each of its places, and a repository with two running agents beside one with none
makes the selection move.

**Deadlock** is checked except where the system really may stop: a queue with
no more events (`shared_queue`), a drained loop (`drain_loop`), calls of `dispatch`
that have all ended (`dispatch`), a clock at its bound (`scheduler`), and a
program that has ended (`tui`).

**Fairness.** `DrainLoop`: weak fairness of the loop's steps (a task that always
polls again), of the end of processes, of the probe and of a restart. That a
child ends is an assumption on the environment: the monitor marks entries that
are too old and kills nothing, so with a child that hangs its repository stands
still. No fairness is put on success, on events or on faults. `Server`: weak
fairness of each loop and of the probe's timer; strong fairness of `Spawn(r)`
(preparation does not fail for ever, pids come free) and of `Recover` (some
probe gets an answer). The loops poll for a slot and there is no queue of
waiters, so service of *each* repository is not promised; `SomeoneIsServed`
says that some attempt comes to its end. `Scheduler`: the pass loop goes on, the
server is restarted, the clock advances. `Daemon`: a server that starts or stops
gets on with it; nothing is assumed of the operator, of systemd or of the host.
`Tui`: the loop and the startup go on, the child's output comes to its end, and
`TimeOut` is strongly fair: input pauses for a moment again and again, without
which the loop, which reads input as long as there is any, would never tick.

## 4. Proofs

All proofs hold for every value of the constants that satisfies the named
assumptions (`QueueAssumption`, `DrainAssumption`, `ServerAssumption`,
`PipelineAssumption`, `LifecycleAssumption`, `SnapshotAssumption`,
`DispatchAssumption`, `RegistrationAssumption`, `AgentRunAssumption`,
`SchedulerAssumption`, `DaemonAssumption`, `RetrySpanAssumption`,
`SharedAssumption`, `TuiAssumption`).

**DrainLoopProofs, the queue.** `QueueInv` is type correctness, distinct numbers, the
retry budget, pids of queued files, `NothingLost`, and `ReleasingIsCopied`: the
file a release is about to delete has its copy in `queue/` or `dead/`, and its
name is no other event's reservation. The last is what makes the second half of
a release harmless. All steps rest on `NextSequenceIsFresh` (a new number is
above all pending ones), hence a write adds and a deletion takes one file.
`DeadLettersStay` is an action property and needs `DeadInv` besides: dead letters
have a name each, so a burial, the only write to `dead/` (`BurialWrites`), replaces
one file at most, by one with its number and type whose event was the one
reserved. Theorems: `TypeCorrectness`, `SequencesAreDistinct`, `NoEventIsLost`,
`RetryBudgetIsKept`, `DeadLettersStay`, `QueueIsFifo`.

**DrainLoopProofs, the loop.** `LoopImplementsQueue`: every step of the loop, crashes and
failures included, is a step of `QueueSpec` or leaves the queue alone, so the
theorems on the queue hold of the queue the server drives. For the loop's own
properties the inductive invariant `LoopInv` says for each `pc` what is
inflight, that `cur` is it, and where the child is recorded. Theorems:
`OneReservationAtATime`, `OneOrchestratorOnceRecorded`, `NoEarlyDeadLetter`,
`NoEarlyAcknowledgement`, `JudgedEventIsTaken`. The last is the surprise of the
code: the head is read twice under two locks, and both reads agree because
nothing but the loop itself takes from the front and numbers only grow while
the queue is not empty. `LoopImplementsChannel` is the refinement of
`EventChannel`: with `LoopInv`, what is owed by the channel changes only when the
loop acknowledges after a success, buries after enough attempts or drops what
nobody acts on; `ChannelInv` adds that a child that runs has been counted as an
attempt, and that what the loop holds beyond the judgement is actionable.

`ExtraSuccessesArePaidFor` is an argument by counting. Three things may still
become a success of an event: a copy of it in `queue/`, its copy in `inflight/`
unless a release is about to delete that or the run it stands for has just
succeeded (`HeldCopies`), and an orchestrator no loop waits for, left by a crash or
an unknown outcome (`LeftRuns`). `CountInv` says that with the successes so
far they are at most `1 + faults`. Every step of an undisturbed run exchanges one
for another: a reservation a queued copy for a held one, a release the other way
around, an orchestrator's success the held copy for the success. A fault in
between is what leaves a second one behind, and only one. That each set is finite
is part of the invariant, since the queue is bounded by nothing. It rests on
`LoopInv` and on two facts more: the file a release deletes is the one that is
inflight, and the child the loop waits for works on the event the loop holds.

**DrainLoopProofs, the shared queue.** `SequencesAreDistinct` does not hold with two
processes, and `NoEventIsLost` neither. `SharedInv` keeps of them what still does: it
looks at the files that are no bootstrap event's (`Hooks`), which only the server
writes, one at a time. Their numbers are distinct (`HookNumbers`); the one the
server is about to write is above all others of them (`WritingInv`), although the
command may have used it by then, for a file with another name; and the copy a
release has made is there when it deletes the reservation (`ReleasedInv`).
`HooksWritten` and `HooksRemoved` say that a file with the number of a bootstrap event
and another label neither replaces nor deletes one of these. Theorem:
`WebhooksOutliveTheCommand`.

**LifecycleProofs, the tracker.** `PipelineInv` adds to the properties that a review was
passed for exactly the sub-issues before the index, and
how `attempt` bounds `failedTests`. Theorems: `TypeCorrectness`,
`CurrentSubIssueIsWorkedOn`, `EverySubIssueIsReviewed`, `ApprovalComesFirst`,
`TestLoopEnds`.

**LifecycleProofs, the lifecycle.** `EventsReachTheirIssue` rests on `RoutingInv`: what is opened keeps its body and its root issue, and its
body names that issue unless it is the issue itself or a pull request of a person
(`BodiesInv`); the map names the root issue of the pull request, however often it
was written or cut short (`MapInv`); and every event, still on the way or in the
queue, says enough by itself or by the number it is about (`LettersInv`). The
last is what makes the order of delivery irrelevant: an event never gets its
meaning from one that has to be processed before it, or it is routed nowhere. The
exception is a comment of no issue on a pull request (`OfNoIssue`), which the router
does not look up in the map. `StagesFollowComments` carries this on to the tracker
(`ToldInv`): a comment that is routed to the tracked issue was written for it, or
mentions it, so its markers are `told`, however often it is
delivered or applied; and each stage the property names is entered only by its
marker, or from one that already needed it.

**ServerProofs.** `ServerInv`: the types, `NoSlotLeaks`, `OneStaleSpawn`, and
`StaleAgrees`, which makes the last inductive: a loop that spawned during a
pause is not between the check and the spawn until the limiter recovers. Two
loops may hold the same pid (one whose child was reaped, one that got its pid),
and the proof does not assume otherwise. The limit is an argument by counting:
as long as no two loops were past its check at once, there is at most one such loop,
and while there is one the running entries (`Counted`) are fewer than the limit
(`LimitInv`). An exit and a timeout only lower the count; a registration adds one
entry, or none if it is over an entry that still runs. With a limit of 0 no loop ever
passes the check, so that all stay in front of it (`NobodyAdmitted`) and no event
leaves a queue (`ZeroLimitStarves`). Theorems: `TypeCorrectness`, `NoSlotIsLost`,
`PausedLoopsSpawnOnce`, `LimitHolds`, `ZeroLimitServesNobody`; the first four for
a limit of 0 as well.

**DispatchProofs.** A receipt is earned because whoever is about to record has a
success of its key behind it; a worker succeeds once because a call that has
passed the check of the receipt is either the only one of its key or has
marked it overlapped. For the snapshot the invariant follows every copy: no
copy in memory or on disk, torn mixtures excluded because they are not read,
calls an agent completed that never succeeded, unless it is the analyst and the
same copy has taken in a summary; without a race, the one update
under way is that of the one process that has anything but `none` in `step`,
its copy is `truth` with its change, and the temporary file belongs to it.
Theorems: `TypeCorrectness`, `ReceiptsAreEarned`, `WorkersRunOnce`,
`UpdatesAloneAreKept`, `CompletedAgentsSucceeded`, `RunningAgentsAreAlive`.

**AgentRunProofs.** The invariant has three parts that do not need each other.
`PromptInv`: where a run is determines whether its prompt file exists, unless the
run was cut short, and the orphan of a killed run keeps its prompt. `WrapperInv`:
whoever uses the wrapper has found or written one, and unless an installation was
spoilt it is whole and executable or somebody is at the step that will make it so.
`ThreadInv` counts: the threads there are and those that orphans may yet start
(`Claims`) are at most one more than the faults, and no more than the faults while
no id of the thread is kept anywhere (`Retained`) or the loop's agent is about to
start one (`MayStart`). That every orphan goes back to a fault of its own (`Owed`)
keeps a new one from being counted as an old one. Theorems:
`ThreadsNeedLosses`, `PromptsFollowRuns`, `CommentsCarryReferences`, for any
number of dispatches, threads, edits and faults.

**RegistrationProofs.** `RegistrationInv` adds that a repository has as many
loops as it has entries in `started`, that every repository in the registry has
a loop, is being registered, was dropped or was brought in, and what the
handler of a repository that no other handler registers knows of its queue at
each point of the bootstrap. Theorems: `TypeCorrectness`, `LoopsAreSingle`,
`AcceptedEventsHaveLoops`, `OpenItemsWaitOnce`.

**SchedulerProofs.** A pass takes the list apart: what it has not looked at is in
`todo`, what it keeps in `remaining`, and `events` is empty until it ends
(`PassInv`), which is why a crash in the middle must find everything in the file.
`KeptInv` says where an event is that has neither been cancelled nor had all the
firings or failures it may have (`Kept`): on the list, and in the file too unless a
save failed; or only in the file, for a server that could not read it or the next
one. So a crash takes nothing that is not in the file but what was `unsaved`, and
the first save of a server that could not load loses what it has not read.
`DistinctInv` says that no list holds
an id twice, so that the cancellation, which in the code drops every entry with
the id, drops one event; `KnownInv` that every entry, wherever it is listed and
however old the file, is on the grid of its event's first trigger time;
and `FiredOncePerRun` is inductive with these: a one-shot event on the list of this
server has not been fired by it. Theorems:
`ScheduledEventsAreKept`, `OneShotsFireOnce`, `RecurringEventsKeepTheirGrid`, for
any clock and any number of crashes. The lists are sequences; the lemmas say what
a tail, an append and a removal do to the entries, the ids and their distinctness.

**DaemonProofs.** One command of the operator runs at a time, but a server may
end, be restarted by systemd or be started by hand between any two of their
steps, and pids come back. `PlatformInv` says which steps and which managers
exist on which platform, so that most of the interplay falls away. On Linux
`UnitInv` holds: one server of the unit, known to systemd, and stopping only while
a command waits. On macOS tmux and the launchd job an earlier version may have
left do not know of each other: by `OldInv` the old job's server is the one in the
pid file until it is told to stop, so `start` does not get past its first check
while it runs, and a stop ends the tmux session before it turns to the job.
`SignalInv`: without such a job no command of macOS has a pid to signal, and those
of Linux signal by the unit. Theorems:
`AtMostOneServer`, `StoppedMeansStopped`, `NoForeignKill`, and
`PortsAreReal`, by `PortInv`: the port goes from the file through the command to the
unit file, from there to what systemd has loaded, and from there to every restart,
and is a real one at each. It needs of a file only that its fields are absent, text
or numbers of any size: the cast is bounded by the width, and the zero it may give
is replaced because `validate` comes after it.

**DaemonProofs, the dashboard.** `TuiInv` says when the list the operator saw and the
list a key refers to are the same: from a frame to the next tick, and wherever a
click on the inbox still waits (`SeenInv`, with `ClickInv` for where a click can
wait at all); and that the selection is on the session's issue until something takes
it off (`FollowInv`), through every refresh that keeps the issue in the list. A
session is asked for only while none is open, and the request and its opening have
no step between them that opens one (`OpeningInv`). The inbox is any sequence of any
finite set of issues; `IndexIs` says where a refresh puts the selection, and rests on
`LeastNumber`. Theorems: `ReviewsAreOfTheSeen`, `SessionsAreKept`.

`TypeCorrectness` of each module, `SequencesAreDistinct`, `NoEventIsLost`, `RetryBudgetIsKept`,
`OneReservationAtATime`, `NoEarlyDeadLetter`, `NoEarlyAcknowledgement` and
`TestLoopEnds` state parts of the inductive invariants that no run asks about by
name; the runs' properties rest on them. Each invariant was tried with TLC on the
instance of the component's run before it was proved.

`DiskQueue` and its theorems are about any caller. TLC checks `Fifo` on the loop
(`drain_loop`) and what holds of two processes (`shared_queue`); `LoopImplementsQueue`
carries the other theorems to the loop.

Only model-checked: the liveness properties (`EventuallyIdle`,
`SomeoneIsServed`, `DueIsSettled`, `OverlapEnds`, `EndedSessionCloses`), which are
beyond the prover. Every safety property of a passing run is a theorem.

## 5. Findings

One run shows a statement of the repository that the code does not keep:

* `registration_refresh`: "Start background event-processing tasks for every
  registered repo" (`server.rs:772`). `ensure_repo_registered` replaces the whole
  registry by the file but bootstraps and starts only its own repository. With
  two repositories added to the file, the second one is known from then on, its
  webhooks are accepted, and no loop of this server works on them.

The exceptions in the other properties are behaviour, too, and TLC violates each
property without them: overlapping calls with one key both run the worker; a
killed call, or a receipt that cannot be written, lets it run again; overlapping
updates lose notes; a handler dropped during the bootstrap leaves a repository
that is known and has no loop; two handlers that register a repository at once
both bootstrap it; two loops that both see the last free slot before either
registers its child (`server.rs:1098` to 1263) run one orchestrator more than the
limit, against "Separate concurrency limits for orchestrators and workers"
(`process_manager.rs:101`); an agent started while another installs the wrapper for
the first time, or after an installation that was interrupted, comments without a
reference or not at all.

Behaviour of the models that a reader of the code may not expect:

*Queue and loop.*

* A dead letter may be replaced by a later one of the same event type and number
  (`queue.rs:401`; numbers restart when the queue is empty and `dead/` is not looked
  at), while `queue.rs:46` promises it in `dead/`. `BuriedIsKeptOrReplaced` says how
  far the promise goes: only one of its own name takes its place.
* A server that ends between the spawn of an orchestrator and the write of its pid
  (`server.rs:1265`) leaves one the next server cannot see, and a second is started
  beside it; `docs/ARCHITECTURE.md:29` says "Serial event queues".
  `SerialOnceRecorded` holds.
* With `githubclaw bootstrap` (`cli.rs:279`) beside the server numbers are no longer
  distinct. Two bootstrap events of one number, one of the command and one of the
  server, have one name, since their labels are the same: the second rename replaces
  the first, although "Persist `payload` as the next event in the queue"
  (`queue.rs:86`); TLC finds `NothingLost` violated in `SharedSpec` after five steps.
  `WebhooksSurvive` says that events of other types are safe from it. The order between
  one of those and a bootstrap event of its number is that of their labels.
* A webhook that GitHub delivers again is a new event: its delivery id is recorded
  (`server.rs:395`) and never compared. It is routed as the first was.
* A loop that waits for a slot or the end of a pause applies the markers of the
  event at the head each time it comes around (`server.rs:1012`), to a tracker that
  may have changed: one comment can move an issue by several stages. A late
  summary or dispatch sets the stage back (`runtime_state.rs:142`). `StagesAreTold`
  bounds both: to approval, a merge, a rejection or a
  wait for the author an issue gets only if it was told.
* A summary notes the analyst as completed (`runtime_state.rs:199`), whether or not
  it ran or exited 0 (`CompletedIsTrue`).
* Events of type `scheduled_fired` are not actionable: the loop drops them.
* `max_concurrent_orchestrators: 0` is accepted (`config.rs:402` corrects only
  the agents' limit) and stops all work (`LimitIsKept`,
  `ZeroLimitServesNobody`); `SomeoneIsServed` is about any other.

*Issues.*

* The number of failed reproductions never gets beyond one (`pipeline.rs:109`
  reads it from a state the handler is not in), so the arm that closes is dead;
  `defaults/agents/bug_reproducer.md:74` says "After 3 failed attempts, the issue
  will be closed".
* A stuck marker in state `decomposing` is taken by the arm of that state and
  starts the first sub-issue (`pipeline.rs:136`).
* A passing test run starts the next review with attempt 1 (`pipeline.rs:170`),
  so a sub-issue can go back and forth between review and implementation
  without end.
* No operation leads from `writing_tests` to `implementing` (`pipeline.rs:281`).
* The wrapper looks for `ref #N` anywhere in the text, so `ref #12` keeps it from
  appending `ref #1`; and of several references the router takes the first. An
  event written for issue 1 may so be given to issue 12. `StagesAreTold` counts the
  markers of such a comment as told.
* A comment on a pull request is routed by the references in it and in the pull
  request's body, then to the pull request's own number (`issue_router.rs:139` to
  163); the map of pull requests is not asked, as it is for reviews and checks. A
  person's comment on a person's pull request gets a snapshot of its own.
* `scripts/gh:5` says "Automatically appends `ref #N` to all GitHub write
  operations". Only an argument `--body` followed by its text is rewritten
  (`scripts/gh:79`): `-b`, `--body=...`, `--body-file` and `gh api` go out as they
  are.
* Sub-issues and pull requests found by a bootstrap are routed to their own
  number; events without any issue run as issue 0.

*Around a run.*

* The wrapper is written if it is missing, never if it is outdated or cut short
  (`spawner.rs:126` says "missing or outdated").
* The id of a codex thread is given to `claude --resume` after the definition's
  backend has changed, and the other way around.
* A dispatch whose agent fails leaves its prompt file behind (`cli.rs:1606`), and a
  graceful stop, or a wait that fails (`server.rs:1378`, 1451), removes one its
  agent may not have read.
* A session id that cannot be read is taken for none (`server.rs:1187`), and the
  issue goes on in a new thread.
* A retry count is saved only by a pass that fired something
  (`scheduler.rs:216`), so restarts give a failing event new attempts.
* A file of scheduled events that cannot be read is a warning (`cli.rs:1013`); the
  server goes on with no events, and its next save writes over the file.
* A webhook that is queued between the write of the registry and the check of
  the queue's size makes the bootstrap skip the open items, and so does the first
  half of a bootstrap that was interrupted: the pull requests are not looked at
  again. An older copy of the file may replace a newer registry.

*Server process and configuration.*

* A second server works on the queues until its bind fails (`cli.rs:1105`); the
  health check takes whatever answers on the port for this server; `status` and
  the pid file know nothing of a server that systemd has restarted.
* A port of 70000 becomes 4464, and 65536 becomes 0 and then the default; a flat
  value hides a nested one; a file that cannot be parsed is an empty one. A zero for
  `max_concurrent_orchestrators` or `orchestrator_idle_timeout` is kept.
* `stop --force` reports success when the kill worked, though the `systemctl stop`
  after it failed and systemd starts the server again (`cli.rs:574`). A launchd
  `bootout` that is refused counts as a stop (`cli.rs:888`).
* Ctrl-C during the dashboard's start, or before the loop, sets the flag only.
* A session's output is trimmed at a byte offset (`tui/app.rs:205`), which panics
  inside a character of several bytes; and a session that is opened shows what the
  list selected in that turn, which may not be the card that was clicked.

## 6. Not modelled

Damaged queue files (their writes are renames, so damage comes from outside) and
file names beyond six digits; the signature check and the parsing of requests; the
texts of prompts, summaries and messages; drawing; `release`, which calls `git` and
`gh` in a row, ignores exits that are not zero, and keeps no state; the per-repository
configuration and the fork gate (pure functions); `execute_dispatch` (dead code) and
with it the limit for workers; the limiter's worker reports (no caller); `serve`
with a port given by hand that no configuration holds, zero among them; constants
and error types.

## 7. Plan

Done: `DiskQueue`, `SharedQueue`, `DrainLoop`, `Pipeline`, `Lifecycle`, `Server`,
`Dispatch`, `Registration`, `AgentRun`, `Scheduler`, `Daemon` and `Tui`, with proofs
of every safety property their passing runs check, among them the refinements of the
queue and the channel.

To do: `Scheduler` composed with the drain loop (a fired event is enqueued and then
dropped), and `DrainLoop` on a queue that a second process writes to.

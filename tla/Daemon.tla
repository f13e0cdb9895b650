------------------------------- MODULE Daemon -------------------------------
(***************************************************************************)
(* The life of the server process: `githubclaw start`, `stop`, `stop       *)
(* --force`, `status`, and `serve` itself (cli.rs), with what keeps it     *)
(* running: a systemd user unit on Linux, a tmux session on macOS, and on  *)
(* macOS also the launchd job an earlier version installed.  One person    *)
(* gives one command at a time; servers crash, systemd restarts them, pids *)
(* come back under other programs, and the machine is rebooted, between    *)
(* any two steps of a command.                                             *)
(***************************************************************************)
EXTENDS Config

CONSTANTS
  Pid, NoPid,
  File,            \* what a person puts in config.yaml
  Missing,         \* no such file
  MaxFaults        \* bound: crashes, reboots and calls of systemctl or launchctl that fail

ASSUME DaemonAssumption ==
  /\ NoPid \notin Pid /\ MaxFaults \in Nat
  /\ \A f \in File \ {Damaged} : IsDoc(f)

VARIABLES
  platform,        \* "linux" or "macos"
  config,          \* config.yaml
  secret,          \* whether secrets/webhook_secret exists
  pidFile,         \* server.pid
  plist,           \* whether the launchd job of an earlier version is installed
  unit,            \* the systemd unit: its file, what systemd loaded, its state
  proc,            \* what each pid is
  cmd,             \* the command a person is running, or the last one
  foreignHit,      \* history: a command signalled another program
  faults

vars == <<platform, config, secret, pidFile, plist, unit, proc, cmd, foreignHit, faults>>

NoPort == 0
Free == [is |-> "free", by |-> "nobody", port |-> NoPort]
Other == [is |-> "other", by |-> "nobody", port |-> NoPort]
Server(is, by, port) == [is |-> is, by |-> by, port |-> port]

\* The server, from the start of cmd_serve to its end.  "flagged" and "idle" are starting and serving with the shutdown
\* flag set, which ends the drain loops and the scheduler's; only the HTTP server is left.
IsUp(p) == proc[p].is \in {"starting", "flagged", "serving", "idle", "stopping"}
Listens(p) == proc[p].is \in {"serving", "idle"}
By(who) == {p \in Pid : IsUp(p) /\ proc[p].by = who}
Managed == By("unit") \cup By("tmux") \cup By("launchd")

\* GlobalConfig::load, a missing file included.
ConfigNow == IF config = Missing THEN Load(EmptyDoc) ELSE Load(config)

NoUnit == [file |-> NoPort, loaded |-> NoPort, state |-> "inactive"]
\* `unheard` is history: the command got an error it does not report.
Idle(said) == [op |-> "none", at |-> "done", pid |-> NoPid, port |-> NoPort, clean |-> TRUE, unheard |-> FALSE, said |-> said]

Init ==
  /\ platform \in {"linux", "macos"}
  /\ config \in File \cup {Missing}
  /\ secret \in BOOLEAN
  /\ unit = NoUnit
  /\ cmd = Idle("nothing")
  /\ foreignHit = FALSE
  /\ faults = 0
  /\ plist \in {FALSE, platform = "macos"}
  /\ pidFile \in {NoPid} \cup (IF plist THEN Pid ELSE {})
  /\ \E is \in {"free", "serving"} :
       proc = [p \in Pid |-> IF p = pidFile /\ is = "serving" THEN Server(is, "launchd", Default["port"]) ELSE Free]

Fault == faults < MaxFaults /\ faults' = faults + 1
NoFault == UNCHANGED faults

-----------------------------------------------------------------------------
(* The managers: systemd, tmux, and the signals they send.  Not the        *)
(* program's code, but what it counts on.                                  *)

\* What a signal makes of a process: SIGTERM has a handler once the server serves; SIGHUP and SIGKILL have none.
Signalled(pr, sig) ==
  IF sig = "TERM" /\ pr.is \in {"serving", "idle", "stopping"} THEN [pr EXCEPT !.is = "stopping"] ELSE Free

\* Restart=on-failure: a unit whose process failed waits to be started again, unless it is being stopped.
UnitAfter(pr, failed) ==
  IF pr.by # "unit" THEN unit
  ELSE [unit EXCEPT !.state = IF failed /\ @ = "active" THEN "waiting" ELSE "inactive"]

\* A server ends.
Ends(p, failed) ==
  /\ proc' = [proc EXCEPT ![p] = Free]
  /\ unit' = UnitAfter(proc[p], failed)

\* A process starts with a pid that is free.
StartsAs(p, by, port) == proc[p] = Free /\ proc' = [proc EXCEPT ![p] = Server("starting", by, port)]

\* Systemd restarts a failed unit with what it has loaded, under a new pid.
SystemdRestarts ==
  /\ unit.state = "waiting"
  /\ \E p \in Pid : StartsAs(p, "unit", unit.loaded)
  /\ unit' = [unit EXCEPT !.state = "active"]
  /\ NoFault
  /\ UNCHANGED <<platform, config, secret, pidFile, plist, cmd, foreignHit>>

\* A stop that takes too long ends with SIGKILL.
SystemdKills(p) ==
  /\ unit.state = "stopping" /\ p \in By("unit")
  /\ Ends(p, TRUE)
  /\ NoFault
  /\ UNCHANGED <<platform, config, secret, pidFile, plist, cmd, foreignHit>>

-----------------------------------------------------------------------------
(* cmd_serve.                                                              *)

PortTaken(p) == \E q \in Pid : Listens(q) /\ proc[q].port = proc[p].port

\* The loops run and events are worked on before the port is bound; without a secret the server does not get that far.
ServeBinds(p) ==
  /\ proc[p].is \in {"starting", "flagged"} /\ secret /\ ~PortTaken(p)
  /\ proc' = [proc EXCEPT ![p].is = IF @ = "starting" THEN "serving" ELSE "idle"]
  /\ NoFault
  /\ UNCHANGED <<platform, config, secret, pidFile, plist, unit, cmd, foreignHit>>

\* Mutation of ServeFails: a port that is taken is logged, and the loops go on without one.
ServeFailsWithoutSecret(p) ==
  /\ proc[p].is \in {"starting", "flagged"} /\ ~secret
  /\ Ends(p, TRUE)
  /\ NoFault
  /\ UNCHANGED <<platform, config, secret, pidFile, plist, cmd, foreignHit>>

\* No secret, or a port that is taken: exit(1).
ServeFails(p) ==
  /\ proc[p].is \in {"starting", "flagged"} /\ (~secret \/ PortTaken(p))
  /\ Ends(p, TRUE)
  /\ NoFault
  /\ UNCHANGED <<platform, config, secret, pidFile, plist, cmd, foreignHit>>

\* The graceful shutdown waits for the open connections; then the loops are dropped.
ServeEnds(p) ==
  /\ proc[p].is = "stopping"
  /\ Ends(p, FALSE)
  /\ NoFault
  /\ UNCHANGED <<platform, config, secret, pidFile, plist, cmd, foreignHit>>

ServerStep(p) == ServeBinds(p) \/ ServeFails(p) \/ ServeEnds(p)

Crash(p) ==
  /\ IsUp(p)
  /\ Ends(p, TRUE)
  /\ Fault
  /\ UNCHANGED <<platform, config, secret, pidFile, plist, cmd, foreignHit>>

\* `githubclaw serve` in a shell, on the port it is given.
ServeByHand(p) ==
  /\ By("hand") = {}
  /\ \E port \in {Default["port"], ConfigNow["port"]} : StartsAs(p, "hand", port)
  /\ NoFault
  /\ UNCHANGED <<platform, config, secret, pidFile, plist, unit, cmd, foreignHit>>

\* Ctrl-C in that shell.  Once the task that sets the flag has asked for SIGINT, the signal does nothing else until the
\* graceful shutdown asks for it too, which is after the port is bound.
Interrupt(p) ==
  /\ p \in By("hand")
  /\ \/ proc' = [proc EXCEPT ![p] = Signalled(@, "TERM")]
     \/ proc[p].is = "starting" /\ secret /\ proc' = [proc EXCEPT ![p].is = "flagged"]
  /\ NoFault
  /\ UNCHANGED <<platform, config, secret, pidFile, plist, unit, cmd, foreignHit>>

-----------------------------------------------------------------------------
(* The commands.                                                           *)

\* read_pid: the pid on disk, if a process has it; a file with a pid nobody has is removed.
ReadPid == IF pidFile # NoPid /\ proc[pidFile] # Free THEN pidFile ELSE NoPid

\* find_tmux_session.  The session ends with the server in it.
TmuxSession == By("tmux") # {}

\* The command goes on to its next step, or ends with a message.
Step(at) == cmd' = [cmd EXCEPT !.at = at]
Says(said) == cmd' = Idle(said)

\* Mutation of StartBegins: on macOS only the tmux session is looked for.
StartBeginsTmuxOnly ==
  /\ cmd.op = "none"
  /\ config' = IF config = Missing THEN Saved(ConfigNow) ELSE config
  /\ pidFile' = IF platform = "macos" THEN pidFile ELSE ReadPid
  /\ IF (platform = "linux" /\ ReadPid # NoPid) \/ (platform = "macos" /\ TmuxSession)
     THEN Says("already-running")
     ELSE cmd' = [Idle("nothing") EXCEPT !.op = "start", !.port = ConfigNow["port"],
                                         !.at = IF platform = "macos" THEN "new-session" ELSE "unit"]
  /\ NoFault
  /\ UNCHANGED <<platform, secret, plist, unit, proc, foreignHit>>

\* cmd_start up to its guards: the default configuration is saved, and a server that is known to run is left alone.
StartBegins ==
  /\ cmd.op = "none"
  /\ config' = IF config = Missing THEN Saved(ConfigNow) ELSE config
  /\ pidFile' = IF platform = "macos" /\ TmuxSession THEN pidFile ELSE ReadPid
  /\ IF ReadPid # NoPid \/ (platform = "macos" /\ TmuxSession)
     THEN Says("already-running")
     ELSE cmd' = [Idle("nothing") EXCEPT !.op = "start", !.port = ConfigNow["port"],
                                         !.at = IF platform = "macos" THEN "new-session" ELSE "unit"]
  /\ NoFault
  /\ UNCHANGED <<platform, secret, plist, unit, proc, foreignHit>>

\* start_tmux_session: tmux refuses a second session of the name.
StartTmux ==
  /\ cmd.op = "start" /\ cmd.at = "new-session"
  /\ IF TmuxSession
     THEN Says("failed-to-start") /\ UNCHANGED proc
     ELSE (\E p \in Pid : StartsAs(p, "tmux", cmd.port)) /\ Step("health")
  /\ NoFault
  /\ UNCHANGED <<platform, config, secret, pidFile, plist, unit, foreignHit>>

\* write_systemd_unit and daemon-reload, whose failure is ignored.
StartWritesUnit ==
  /\ cmd.op = "start" /\ cmd.at = "unit"
  /\ \/ unit' = [unit EXCEPT !.file = cmd.port, !.loaded = cmd.port] /\ NoFault
     \/ unit' = [unit EXCEPT !.file = cmd.port] /\ Fault
  /\ Step("systemctl")
  /\ UNCHANGED <<platform, config, secret, pidFile, plist, proc, foreignHit>>

\* systemctl start: nothing happens if the unit is already active; a unit that was never loaded cannot be started.
StartUnit ==
  /\ cmd.op = "start" /\ cmd.at = "systemctl"
  /\ \/ /\ unit.loaded # NoPort
        /\ IF unit.state = "active" THEN UNCHANGED <<proc, unit>>
           ELSE /\ \E p \in Pid : StartsAs(p, "unit", unit.loaded)
                /\ unit' = [unit EXCEPT !.state = "active"]
        /\ Step("main-pid")
        /\ NoFault
     \/ /\ Says("failed-to-start")
        /\ IF unit.loaded = NoPort THEN NoFault ELSE Fault
        /\ UNCHANGED <<proc, unit>>
  /\ UNCHANGED <<platform, config, secret, pidFile, plist, foreignHit>>

\* MainPID goes to the file, if the unit has one at that moment.
StartRecordsPid ==
  /\ cmd.op = "start" /\ cmd.at = "main-pid"
  /\ \E p \in IF By("unit") = {} THEN {pidFile} ELSE By("unit") : pidFile' = p
  /\ Step("health")
  /\ NoFault
  /\ UNCHANGED <<platform, config, secret, plist, unit, proc, foreignHit>>

\* health_check: any server that answers on the port will do, and the command ends the same way without one.
StartChecksHealth ==
  /\ cmd.op = "start" /\ cmd.at = "health"
  /\ Says(IF \E p \in Pid : Listens(p) /\ proc[p].port = cmd.port THEN "healthy" ELSE "not-healthy")
  /\ NoFault
  /\ UNCHANGED <<platform, config, secret, pidFile, plist, unit, proc, foreignHit>>

\* stop_graceful and stop_force: the pid is read before anything else.
StopBegins(op) ==
  /\ cmd.op = "none"
  /\ pidFile' = ReadPid
  /\ cmd' = [Idle("nothing") EXCEPT !.op = op, !.pid = ReadPid,
                                    !.at = IF platform = "macos" THEN "tmux" ELSE IF op = "force" THEN "kill" ELSE "stop"]
  /\ NoFault
  /\ UNCHANGED <<platform, config, secret, plist, unit, proc, foreignHit>>

\* Mutation of ForceKillsUnit: a kill that worked is taken for a stop.
ForceKillsOnly ==
  /\ cmd.op = "force" /\ cmd.at = "kill"
  /\ \/ /\ proc' = [p \in Pid |-> IF p \in By("unit") THEN Free ELSE proc[p]]
        /\ unit' = IF By("unit") = {} THEN unit ELSE [unit EXCEPT !.state = IF @ = "active" THEN "waiting" ELSE "inactive"]
        /\ Step("wait")
        /\ NoFault
     \/ cmd' = [cmd EXCEPT !.at = "stop", !.clean = FALSE] /\ Fault /\ UNCHANGED <<proc, unit>>
  /\ UNCHANGED <<platform, config, secret, pidFile, plist, foreignHit>>

\* systemctl kill --signal=KILL: for systemd the server has failed.
ForceKillsUnit ==
  /\ cmd.op = "force" /\ cmd.at = "kill"
  /\ \/ /\ proc' = [p \in Pid |-> IF p \in By("unit") THEN Free ELSE proc[p]]
        /\ unit' = IF By("unit") = {} THEN unit ELSE [unit EXCEPT !.state = IF @ = "active" THEN "waiting" ELSE "inactive"]
        /\ Step("stop")
        /\ NoFault
     \/ cmd' = [cmd EXCEPT !.at = "stop", !.clean = FALSE] /\ Fault /\ UNCHANGED <<proc, unit>>
  /\ UNCHANGED <<platform, config, secret, pidFile, plist, foreignHit>>

\* systemctl stop: SIGTERM to the server, and no restart.  Whether it worked makes the message of a stop; of a forced stop only
\* the kill does.
StopSignalsUnit ==
  /\ cmd.op \in {"stop", "force"} /\ cmd.at = "stop"
  /\ \/ /\ proc' = [p \in Pid |-> IF p \in By("unit") THEN Signalled(proc[p], "TERM") ELSE proc[p]]
        /\ unit' = [unit EXCEPT !.state = IF \E p \in Pid : proc'[p].by = "unit" THEN "stopping" ELSE "inactive"]
        /\ Step("wait")
        /\ NoFault
     \/ /\ cmd' = IF cmd.op = "stop" THEN [cmd EXCEPT !.at = "wait", !.clean = FALSE]
                                     ELSE [cmd EXCEPT !.at = "wait", !.unheard = TRUE]
        /\ Fault
        /\ UNCHANGED <<proc, unit>>
  /\ UNCHANGED <<platform, config, secret, pidFile, plist, foreignHit>>

\* The signal of a stop to pids it read earlier, whoever has them by now.
Signal(pids) ==
  /\ proc' = [p \in Pid |-> IF p \in pids THEN Signalled(proc[p], IF cmd.op = "force" THEN "KILL" ELSE "TERM") ELSE proc[p]]
  /\ foreignHit' = (foreignHit \/ \E p \in Pid \cap pids : proc[p] = Other)

\* Mutation of StopReturns: after a warning the server is stopped by the pid read at the beginning.
StopReturnsToPid ==
  /\ cmd.op \in {"stop", "force"} /\ cmd.at = "wait"
  /\ unit.state # "stopping"
  /\ pidFile' = NoPid
  /\ cmd' = [Idle(IF cmd.clean THEN "stopped" ELSE "warning") EXCEPT !.unheard = cmd.unheard]
  /\ IF cmd.clean THEN UNCHANGED <<proc, foreignHit>> ELSE Signal({cmd.pid})
  /\ NoFault
  /\ UNCHANGED <<platform, config, secret, plist, unit>>

\* It returns when the unit has stopped; the pid file is removed whatever happened, and the command ends.
StopReturns ==
  /\ cmd.op \in {"stop", "force"} /\ cmd.at = "wait"
  /\ unit.state # "stopping"
  /\ pidFile' = NoPid
  /\ cmd' = [Idle(IF cmd.clean THEN "stopped" ELSE "warning") EXCEPT !.unheard = cmd.unheard]
  /\ NoFault
  /\ UNCHANGED <<platform, config, secret, plist, unit, proc, foreignHit>>

\* stop_tmux_session.
StopTmux ==
  /\ cmd.op \in {"stop", "force"} /\ cmd.at = "tmux"
  /\ proc' = [p \in Pid |-> IF p \in By("tmux") THEN Free ELSE proc[p]]
  /\ cmd' = [cmd EXCEPT !.at = "launchd", !.said = IF TmuxSession THEN "stopped" ELSE @]
  /\ NoFault
  /\ UNCHANGED <<platform, config, secret, pidFile, plist, unit, foreignHit>>

\* stop_legacy_launchd_job: the process of the pid file, then the job itself.  A bootout that launchd refuses leaves the job
\* loaded and counts as a stop all the same; a launchctl that cannot be run does not.
StopLaunchd ==
  /\ cmd.op \in {"stop", "force"} /\ cmd.at = "launchd"
  /\ IF ~plist /\ cmd.pid = NoPid
     THEN /\ IF cmd.said = "stopped" THEN Says("stopped") ELSE Step("fallback")
          /\ NoFault
          /\ UNCHANGED <<pidFile, proc, foreignHit>>
     ELSE /\ pidFile' = NoPid
          /\ \/ Signal(By("launchd") \cup {cmd.pid}) /\ Says("stopped") /\ NoFault
             \/ Signal({cmd.pid}) /\ Says("stopped") /\ Fault
             \/ /\ Signal({cmd.pid})
                /\ IF cmd.said = "stopped" THEN Says("stopped") ELSE Step("fallback")
                /\ Fault
  /\ UNCHANGED <<platform, config, secret, plist, unit>>

\* The direct stop by pid of stop_graceful; stop_force says that nothing runs.
StopFallsBack ==
  /\ cmd.op \in {"stop", "force"} /\ cmd.at = "fallback"
  /\ IF cmd.op = "stop" /\ cmd.pid # NoPid
     THEN Signal({cmd.pid}) /\ pidFile' = NoPid /\ Says("stopped")
     ELSE Says("not-running") /\ UNCHANGED <<pidFile, proc, foreignHit>>
  /\ NoFault
  /\ UNCHANGED <<platform, config, secret, plist, unit>>

\* cmd_status, its first lines.
StatusSays ==
  /\ cmd.op = "none"
  /\ pidFile' = ReadPid
  /\ Says(IF ReadPid # NoPid \/ TmuxSession THEN "running" ELSE "not-running")
  /\ NoFault
  /\ UNCHANGED <<platform, config, secret, plist, unit, proc, foreignHit>>

Command == \/ StartBegins \/ StartTmux \/ StartWritesUnit \/ StartUnit \/ StartRecordsPid \/ StartChecksHealth
           \/ (\E op \in {"stop", "force"} : StopBegins(op))
           \/ ForceKillsUnit \/ StopSignalsUnit \/ StopReturns
           \/ StopTmux \/ StopLaunchd \/ StopFallsBack \/ StatusSays

-----------------------------------------------------------------------------
(* The person, other programs and the machine.                             *)

\* Somebody edits config.yaml, or deletes it.
Edit ==
  /\ config' \in File \cup {Missing}
  /\ NoFault
  /\ UNCHANGED <<platform, secret, pidFile, plist, unit, proc, cmd, foreignHit>>

\* setup_webhook_secret of `githubclaw init`: a secret that is there is left alone.
SetupSecret ==
  /\ ~secret /\ secret' = TRUE
  /\ NoFault
  /\ UNCHANGED <<platform, config, pidFile, plist, unit, proc, cmd, foreignHit>>

\* Another program of the same person starts or ends.
OtherProgram(p) ==
  /\ proc[p] \in {Free, Other}
  /\ proc' = [proc EXCEPT ![p] = IF @ = Free THEN Other ELSE Free]
  /\ NoFault
  /\ UNCHANGED <<platform, config, secret, pidFile, plist, unit, cmd, foreignHit>>

\* The unit is not enabled, so nothing starts by itself; the files stay.  What the job of an earlier version says is not in
\* this repository: it is taken to start nothing at a login, and nothing again once its process has ended.
Reboot ==
  /\ proc' = [p \in Pid |-> Free]
  /\ unit' = [unit EXCEPT !.loaded = unit.file, !.state = "inactive"]
  /\ cmd' = Idle("nothing")
  /\ Fault
  /\ UNCHANGED <<platform, config, secret, pidFile, plist, foreignHit>>

World == \/ (\E p \in Pid : Crash(p) \/ ServeByHand(p) \/ Interrupt(p) \/ OtherProgram(p) \/ SystemdKills(p))
         \/ SystemdRestarts \/ Edit \/ SetupSecret \/ Reboot

Next == Command \/ World \/ (\E p \in Pid : ServerStep(p))

Spec == Init /\ [][Next]_vars

\* A server that has begun to start or to shut down gets on with it: bounded waits of its own code.
FairSpec == Spec /\ \A p \in Pid : WF_vars(ServerStep(p))

-----------------------------------------------------------------------------
(* Properties.                                                             *)

\* Two servers would work on the same queues.  Whatever is started, stopped, restarted and rebooted, at most one of the
\* servers that `githubclaw start` manages takes work, an old launchd job included; one that is shutting down may finish.
OneServer == \A p, q \in Managed : proc[p].is # "stopping" /\ proc[q].is # "stopping" => p = q

\* A stop that reported success has stopped the server and the restarts of systemd, with or without --force, unless it was a
\* forced one whose kill worked and whose `systemctl stop` then failed: it reports success, and systemd starts the server again.
StopStops ==
  cmd.said = "stopped" /\ cmd.op = "none" /\ ~cmd.unheard =>
    unit.state = "inactive" /\ \A p \in Managed : proc[p].is = "stopping"

\* A pid on disk may have come to another program.  No command signals one, unless an earlier version left the file.
KillsOnlyServers == foreignHit => plist

\* A server that is started by hand beside another one works on the queues until it finds the port taken; it does not stay.
OverlapEnds ==
  \A p, q \in Pid : (p # q /\ IsUp(p) /\ IsUp(q) /\ proc[p].port = proc[q].port)
                      ~> ~(IsUp(p) /\ IsUp(q) /\ proc[p].port = proc[q].port)

\* A server is started, by a command or again by systemd, on a port that can be reached: zero, which a number in config.yaml
\* that is too large for a port turns into when it is cast, gets into no unit file, session or restart.
PortIsReal == \A p \in Pid : IsUp(p) => proc[p].port \in 1..(PortSpan - 1)
=============================================================================

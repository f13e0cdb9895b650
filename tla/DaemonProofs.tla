---------------------------- MODULE DaemonProofs ----------------------------
(***************************************************************************)
(* The safety properties of Daemon, for any pids, configuration files and  *)
(* faults, and those of the dashboard (Tui).                               *)
(***************************************************************************)
EXTENDS Daemon, Tui, TLAPS, Sequences, FiniteSets, FiniteSetTheorems, WellFoundedInduction

\* config.yaml is missing, damaged, or says something.
ConfigInv == config \in {Missing, Damaged} \/ IsDoc(config)

Up == {"starting", "flagged", "serving", "idle", "stopping"}
Manager == {"unit", "tmux", "launchd"}
Process == [is : Up \cup {"free", "other"}, by : Manager \cup {"hand", "nobody"}, port : Nat]
Unit == [file : Nat, loaded : Nat, state : {"inactive", "active", "waiting", "stopping"}]

OnLinux == {"unit", "systemctl", "main-pid", "kill", "stop", "wait"}
OnMac == {"new-session", "tmux", "launchd", "fallback"}
Starting == {"unit", "systemctl", "main-pid", "new-session", "health"}
Stopping == {"kill", "stop", "wait", "tmux", "launchd", "fallback"}
Announced == {"nothing", "already-running", "failed-to-start", "healthy", "not-healthy", "stopped", "warning", "running",
            "not-running"}
CommandRun == [op : {"none", "start", "stop", "force"}, at : Starting \cup Stopping \cup {"done"}, pid : Pid \cup {NoPid},
               port : Nat, clean : BOOLEAN, unheard : BOOLEAN, said : Announced]

FileTypes == pidFile \in Pid \cup {NoPid} /\ plist \in BOOLEAN /\ foreignHit \in BOOLEAN

ProcTypes == proc \in [Pid -> Process] /\ \A p \in Pid : proc[p].by = "nobody" <=> proc[p].is \in {"free", "other"}

CmdTypes == cmd \in CommandRun /\ (cmd.op = "none" <=> cmd.at = "done") /\ (cmd.op = "start" <=> cmd.at \in Starting)

DaemonTypes == FileTypes /\ unit \in Unit /\ ProcTypes /\ CmdTypes

\* Which steps and managers belong to which platform.
PlatformInv ==
  /\ platform \in {"linux", "macos"}
  /\ platform = "linux" => ~plist /\ cmd.at \notin OnMac /\ \A p \in Pid : proc[p].by \notin {"tmux", "launchd"}
  /\ platform = "macos" => unit.state = "inactive" /\ cmd.at \notin OnLinux /\ \A p \in Pid : proc[p].by # "unit"

\* Without a launchd job of an earlier version no command of macOS has a pid to signal.
SignalInv ==
  /\ platform = "macos" /\ ~plist => pidFile = NoPid /\ cmd.pid = NoPid
  /\ KillsOnlyServers

\* The server of the unit is the one systemd knows, and is stopped only while the command waits for it.
UnitInv ==
  /\ \A p, q \in Pid : proc[p].by = "unit" /\ proc[q].by = "unit" => p = q
  /\ \A p \in Pid : proc[p].by = "unit" => unit.state \in {"active", "stopping"}
  /\ \A p \in Pid : proc[p].by = "unit" /\ unit.state = "stopping" => proc[p].is = "stopping"
  /\ unit.state = "stopping" => cmd.at = "wait"
  /\ cmd.at = "wait" /\ cmd.clean /\ ~cmd.unheard => unit.state \in {"stopping", "inactive"}

\* The old job's server, until it is told to stop.
OldServers == {p \in Pid : proc[p].by = "launchd" /\ proc[p].is # "stopping"}

\* A step that starts no server for a manager, and wakes none that is stopping.
NoNewServer ==
  \A q \in Pid : proc'[q].by \in Manager => proc'[q].by = proc[q].by /\ (proc[q].is = "stopping" => proc'[q].is = "stopping")

\* The old job's server is the one of the pid file, and while it runs nothing is started beside it; a stop has dealt with the
\* tmux session first.
OldInv ==
  /\ \A p, q \in Pid : proc[p].by = "tmux" /\ proc[q].by = "tmux" => p = q
  /\ \A p \in OldServers : pidFile = p /\ (cmd.at \in Stopping => cmd.pid = p)
  /\ (\E p \in Pid : proc[p].by = "tmux") \/ cmd.op = "start" \/ cmd.at = "fallback" => OldServers = {}
  /\ cmd.at \in {"launchd", "fallback"} => \A p \in Pid : proc[p].by # "tmux"

DaemonInv == ConfigInv /\ DaemonTypes /\ PlatformInv /\ SignalInv /\ UnitInv /\ OldInv /\ StopStops

-----------------------------------------------------------------------------
\* A remainder, and the room of a port.
LEMMA Remainder == \A n \in Nat, d \in Nat \ {0} : n % d \in Nat /\ n % d < d
  BY SMT

\* The default port fits a port's type.
LEMMA PortRoom == PortSpan \in Nat \ {0} /\ 8000 < PortSpan
  BY SMT DEF PortSpan

\* A field of the configuration before validation is a number, and a port fits its type.
LEMMA FieldIs ==
  ASSUME NEW doc, IsDoc(doc), NEW k \in Keys
  PROVE  /\ Field(doc, k) \in Nat
         /\ k = "port" => Field(doc, k) < PortSpan
<1>1. Default[k] \in Nat /\ (k = "port" => Default[k] = 8000)
  BY SMT DEF Default, Keys
<1>2. CASE Lookup(doc, k) \in {Absent, Text}
  BY <1>1, <1>2, PortRoom, SMT DEF Field
<1>3. CASE Lookup(doc, k) \notin {Absent, Text}
  <2>1. Lookup(doc, k) \in Nat
    BY <1>3, SMT DEF Lookup, IsDoc
  <2>2. Lookup(doc, k) % PortSpan \in Nat /\ Lookup(doc, k) % PortSpan < PortSpan
    BY <2>1, PortRoom, Remainder, SMT
  <2>3. Lookup(doc, k) % RetrySpan \in Nat
    BY <2>1, RetrySpanAssumption, Remainder, SMT
  <2> QED
    BY <1>3, <2>1, <2>2, <2>3, SMT DEF Field, Cast
<1> QED
  BY <1>2, <1>3

\* What is loaded from a file has a number for each key, and those that may not be zero are not.
LEMMA LoadIs ==
  ASSUME NEW file, file = Damaged \/ IsDoc(file)
  PROVE  /\ Load(file) \in [Keys -> Nat]
         /\ Load(file)["port"] \in 1 .. (PortSpan - 1)
         /\ \A k \in NonZero : Load(file)[k] # 0
<1> DEFINE doc == IF file = Damaged THEN EmptyDoc ELSE file
           cfg == [k \in Keys |-> Field(doc, k)]
<1>1. IsDoc(doc)
  BY DEF IsDoc, EmptyDoc
<1>2. \A k \in Keys : cfg[k] \in Nat /\ (k = "port" => cfg[k] < PortSpan)
  BY <1>1, FieldIs
<1>3. \A k \in Keys : Default[k] \in Nat \ {0} /\ (k = "port" => Default[k] = 8000)
  BY SMT DEF Default, Keys
<1>5. "port" \in Keys /\ "port" \in NonZero /\ NonZero \subseteq Keys
  BY DEF Keys, NonZero
<1>6. Load(file) = Validated(cfg)
  BY DEF Load
<1> HIDE DEF cfg
<1>7. Validated(cfg) \in [Keys -> Nat] /\ \A k \in NonZero : Validated(cfg)[k] # 0
  BY <1>2, <1>3, <1>5, SMT DEF Validated
<1>8. Validated(cfg)["port"] = IF cfg["port"] = 0 THEN Default["port"] ELSE cfg["port"]
  BY <1>5 DEF Validated
<1>9. Validated(cfg)["port"] \in 1 .. (PortSpan - 1)
  BY <1>2, <1>3, <1>5, <1>8, PortRoom, SMT
<1> QED
  BY <1>6, <1>7, <1>9

\* The configuration a command reads.
LEMMA ConfigNowIs ==
  ASSUME ConfigInv
  PROVE  ConfigNow \in [Keys -> Nat] /\ ConfigNow["port"] \in Nat /\ IsDoc(Saved(ConfigNow))
<1>1. IsDoc(EmptyDoc)
  BY DEF IsDoc, EmptyDoc
<1>2. ConfigNow \in [Keys -> Nat]
  BY <1>1, LoadIs DEF ConfigInv, ConfigNow
<1>3. IsDoc(Saved(ConfigNow))
  BY <1>2 DEF Saved, IsDoc
<1> QED
  BY <1>2, <1>3 DEF Keys

-----------------------------------------------------------------------------
(* What the steps are made of.                                             *)

\* A field of the state of a process, and what a signal or the end of a server makes of it.
LEMMA ProcessesAre ==
  /\ Free \in Process /\ Free.is = "free" /\ Free.by = "nobody"
  /\ Other \in Process /\ Other.is = "other" /\ Other.by = "nobody"
  /\ \A is \in Up, by \in Manager \cup {"hand"}, port \in Nat :
        /\ Server(is, by, port) \in Process
        /\ Server(is, by, port).is = is /\ Server(is, by, port).by = by
  /\ \A pr \in Process : \A sig \in {"TERM", "KILL"} :
        \/ Signalled(pr, sig) = Free
        \/ /\ Signalled(pr, sig) \in Process /\ Signalled(pr, sig).is = "stopping" /\ Signalled(pr, sig).by = pr.by
           /\ pr.is \in {"serving", "idle", "stopping"}
<1>1. /\ Free \in Process /\ Free.is = "free" /\ Free.by = "nobody"
      /\ Other \in Process /\ Other.is = "other" /\ Other.by = "nobody"
  BY DEF Free, Other, Process, NoPort
<1>2. \A is \in Up, by \in Manager \cup {"hand"}, port \in Nat :
         /\ Server(is, by, port) \in Process
         /\ Server(is, by, port).is = is /\ Server(is, by, port).by = by
  BY DEF Server, Process
<1>3. ASSUME NEW pr \in Process, NEW sig \in {"TERM", "KILL"}
      PROVE  \/ Signalled(pr, sig) = Free
             \/ /\ Signalled(pr, sig) \in Process /\ Signalled(pr, sig).is = "stopping" /\ Signalled(pr, sig).by = pr.by
                /\ pr.is \in {"serving", "idle", "stopping"}
  BY DEF Signalled, Process, Up
<1> QED
  BY <1>1, <1>2, <1>3



\* The processes after one of them has changed.
LEMMA OneProcess ==
  ASSUME ProcTypes, NEW p \in Pid, NEW pr \in Process, pr.by = "nobody" <=> pr.is \in {"free", "other"},
         proc' = [proc EXCEPT ![p] = pr]
  PROVE  ProcTypes' /\ proc'[p] = pr /\ \A q \in Pid \ {p} : proc'[q] = proc[q]
  BY DEF ProcTypes

\* The steps and the messages of a command.
LEMMA StepsAre ==
  /\ "done" \notin Starting \cup Stopping /\ "done" \notin OnMac \cup OnLinux
  /\ \A said \in {"nothing", "already-running", "failed-to-start", "healthy", "not-healthy", "stopped", "warning", "running",
                  "not-running"} : said \in Announced
  BY DEF Starting, Stopping, OnMac, OnLinux, Announced

\* A command ends with a message.
LEMMA Saying ==
  ASSUME NEW said \in Announced, Says(said)
  PROVE  CmdTypes' /\ cmd'.op = "none" /\ cmd'.at = "done" /\ cmd'.pid = NoPid /\ cmd'.said = said
  BY DEF Says, Idle, NoPort, CmdTypes, CommandRun, Starting

\* A command goes on, and keeps what it has read.
LEMMA Stepping ==
  ASSUME CmdTypes, NEW at \in Starting \cup Stopping, Step(at), cmd.op # "none", cmd.op = "start" <=> at \in Starting
  PROVE  /\ CmdTypes' /\ cmd'.op = cmd.op /\ cmd'.at = at
         /\ cmd'.pid = cmd.pid /\ cmd'.clean = cmd.clean /\ cmd'.said = cmd.said
<1>1. cmd \in CommandRun
  BY DEF CmdTypes
<1>2. cmd' = [cmd EXCEPT !.at = at]
  BY DEF Step
<1>3. cmd' \in CommandRun
  BY <1>1, <1>2 DEF CommandRun
<1>4. /\ cmd'.op = cmd.op /\ cmd'.at = at
      /\ cmd'.pid = cmd.pid /\ cmd'.clean = cmd.clean /\ cmd'.said = cmd.said
  BY <1>1, <1>2 DEF CommandRun
<1>5. at # "done"
  BY StepsAre
<1>6. CmdTypes'
  BY <1>3, <1>4, <1>5 DEF CmdTypes
<1> QED
  BY <1>4, <1>6

\* The servers of the managers are running.
LEMMA ManagedAre ==
  ASSUME ProcTypes
  PROVE  /\ \A who \in Manager, p \in Pid : p \in By(who) <=> proc[p].by = who
         /\ \A p \in Pid : p \in Managed <=> proc[p].by \in Manager
  BY DEF ProcTypes, Process, Up, Manager, Managed, By, IsUp

\* The same after a step.
LEMMA ManagedNext ==
  ASSUME ProcTypes'
  PROVE  /\ \A who \in Manager, p \in Pid : p \in By(who)' <=> proc'[p].by = who
         /\ \A p \in Pid : p \in Managed' <=> proc'[p].by \in Manager
  BY DEF ProcTypes, Process, Up, Manager, Managed, By, IsUp

-----------------------------------------------------------------------------
(* What happens to servers beside the commands.                            *)

\* A step of a server, a person or the machine leaves the commands alone, starts nothing for a manager, and if it ends the
\* unit's server systemd notices.
LEMMA BesideCommands ==
  ASSUME DaemonInv, ConfigInv', ProcTypes', NoNewServer, UNCHANGED <<platform, pidFile, plist, cmd, foreignHit>>,
         \/ UNCHANGED unit
         \/ /\ unit' \in Unit /\ platform = "linux" /\ unit.state # "inactive"
            /\ \A q \in Pid : proc'[q].by # "unit"
            /\ unit'.state = "inactive" \/ (unit'.state = "waiting" /\ unit.state = "active")
  PROVE  DaemonInv'
<1>1. DaemonTypes'
  BY DEF DaemonInv, DaemonTypes, FileTypes, CmdTypes
<1>2. PlatformInv' /\ SignalInv'
  BY DEF DaemonInv, DaemonTypes, PlatformInv, SignalInv, KillsOnlyServers, NoNewServer, Manager
<1>3. UnitInv'
  BY DEF DaemonInv, DaemonTypes, UnitInv, NoNewServer, Manager
<1>4. OldInv'
  <2>1. OldServers' \subseteq OldServers
    BY DEF OldServers, NoNewServer, Manager
  <2>2. \A q \in Pid : proc'[q].by = "tmux" => proc[q].by = "tmux"
    BY DEF NoNewServer, Manager
  <2> QED
    BY <2>1, <2>2 DEF DaemonInv, OldInv
<1>5. StopStops'
  <2> SUFFICES ASSUME cmd.said = "stopped", cmd.op = "none", ~cmd.unheard
               PROVE  unit'.state = "inactive" /\ \A q \in Managed' : proc'[q].is = "stopping"
    BY DEF StopStops
  <2>1. unit.state = "inactive" /\ \A q \in Managed : proc[q].is = "stopping"
    BY DEF DaemonInv, StopStops
  <2>2. \A q \in Pid : q \in Managed' <=> proc'[q].by \in Manager
    BY ManagedNext
  <2>3. \A q \in Managed' : q \in Pid /\ q \in Managed
    BY <2>2, ManagedAre DEF NoNewServer, DaemonInv, DaemonTypes, Managed, By
  <2> QED
    BY <2>1, <2>2, <2>3 DEF NoNewServer
<1> QED
  BY <1>1, <1>2, <1>3, <1>4, <1>5 DEF DaemonInv

\* A server ends, and the rest is as it was.
LEMMA EndingKeeps ==
  ASSUME DaemonInv, NEW p \in Pid, NEW failed \in BOOLEAN, Ends(p, failed),
         UNCHANGED <<platform, config, pidFile, plist, cmd, foreignHit>>
  PROVE  DaemonInv'
<1>1. ProcTypes' /\ proc'[p] = Free /\ \A q \in Pid \ {p} : proc'[q] = proc[q]
  BY OneProcess, ProcessesAre DEF Ends, DaemonInv, DaemonTypes
<1>2. NoNewServer
  BY <1>1, ProcessesAre DEF NoNewServer, Manager
<1>3. CASE proc[p].by # "unit"
  BY <1>1, <1>2, <1>3, BesideCommands DEF Ends, UnitAfter, DaemonInv, ConfigInv
<1>4. CASE proc[p].by = "unit"
  <2>1. platform = "linux" /\ unit \in Unit /\ unit.state # "inactive"
    BY <1>4 DEF DaemonInv, PlatformInv, UnitInv, DaemonTypes
  <2>2. unit' \in Unit /\ (unit'.state = "inactive" \/ (unit'.state = "waiting" /\ unit.state = "active"))
    BY <1>4, <2>1 DEF Ends, UnitAfter, Unit
  <2>3. \A q \in Pid : proc'[q].by # "unit"
    BY <1>1, <1>4, ProcessesAre DEF DaemonInv, UnitInv
  <2> QED
    BY <1>1, <1>2, <2>1, <2>2, <2>3, BesideCommands DEF DaemonInv, ConfigInv
<1> QED
  BY <1>3, <1>4

\* A server or another program changes, and systemd is not concerned.
LEMMA ChangingKeeps ==
  ASSUME DaemonInv, NEW p \in Pid, NEW pr \in Process, pr.by = "nobody" <=> pr.is \in {"free", "other"},
         pr.by \in Manager => pr.by = proc[p].by /\ proc[p].is # "stopping",
         proc' = [proc EXCEPT ![p] = pr], UNCHANGED <<platform, config, pidFile, plist, unit, cmd, foreignHit>>
  PROVE  DaemonInv'
<1>1. ProcTypes' /\ proc'[p] = pr /\ \A q \in Pid \ {p} : proc'[q] = proc[q]
  BY OneProcess DEF DaemonInv, DaemonTypes
<1>2. NoNewServer
  BY <1>1 DEF NoNewServer
<1> QED
  BY <1>1, <1>2, BesideCommands DEF DaemonInv, ConfigInv

\* A crash; systemd takes the unit's server for failed.
LEMMA CrashKeeps ==
  ASSUME DaemonInv, NEW p \in Pid, Crash(p)
  PROVE  DaemonInv'
  BY EndingKeeps DEF Crash

\* The SIGKILL of systemd.
LEMMA SystemdKillsKeeps ==
  ASSUME DaemonInv, NEW p \in Pid, SystemdKills(p)
  PROVE  DaemonInv'
  BY EndingKeeps DEF SystemdKills

\* No secret, or a port that is taken.
LEMMA ServeFailsKeeps ==
  ASSUME DaemonInv, NEW p \in Pid, ServeFails(p)
  PROVE  DaemonInv'
  BY EndingKeeps DEF ServeFails

\* The end of a graceful shutdown.
LEMMA ServeEndsKeeps ==
  ASSUME DaemonInv, NEW p \in Pid, ServeEnds(p)
  PROVE  DaemonInv'
  BY EndingKeeps DEF ServeEnds

\* The port is bound.
LEMMA ServeBindsKeeps ==
  ASSUME DaemonInv, NEW p \in Pid, ServeBinds(p)
  PROVE  DaemonInv'
<1> DEFINE pr == [proc[p] EXCEPT !.is = IF @ = "starting" THEN "serving" ELSE "idle"]
<1>1. proc[p] \in Process /\ proc[p].is \in {"starting", "flagged"} /\ proc[p].by # "nobody" /\ proc \in [Pid -> Process]
  BY DEF ServeBinds, DaemonInv, DaemonTypes, ProcTypes
<1>2. pr \in Process /\ pr.by = proc[p].by /\ pr.is \notin {"free", "other"}
  BY <1>1 DEF Process, Up
<1>3. proc' = [proc EXCEPT ![p] = pr]
  BY <1>1 DEF ServeBinds
<1> HIDE DEF pr
<1> QED
  BY <1>1, <1>2, <1>3, ChangingKeeps DEF ServeBinds

\* A server that no manager has started.
LEMMA ServeByHandKeeps ==
  ASSUME DaemonInv, NEW p \in Pid, ServeByHand(p)
  PROVE  DaemonInv'
<1>1. PICK q \in Pid, port \in {Default["port"], ConfigNow["port"]} : StartsAs(q, "hand", port)
  BY DEF ServeByHand
<1>2. port \in Nat
  BY ConfigNowIs, SMT DEF DaemonInv, Default, Keys
<1>3. Server("starting", "hand", port) \in Process
  BY <1>2, ProcessesAre DEF Up
<1>4. Server("starting", "hand", port).is = "starting" /\ Server("starting", "hand", port).by = "hand"
  BY DEF Server
<1> QED
  BY <1>1, <1>3, <1>4, ChangingKeeps DEF ServeByHand, StartsAs, Manager

\* Ctrl-C, before and after the port is bound.
LEMMA InterruptKeeps ==
  ASSUME DaemonInv, NEW p \in Pid, Interrupt(p)
  PROVE  DaemonInv'
<1>1. proc[p] \in Process /\ proc \in [Pid -> Process] /\ proc[p].by = "hand"
  BY DEF Interrupt, By, DaemonInv, DaemonTypes, ProcTypes
<1>2. CASE proc' = [proc EXCEPT ![p] = Signalled(@, "TERM")]
  <2>1. /\ Signalled(proc[p], "TERM") \in Process
        /\ \/ Signalled(proc[p], "TERM").by = "nobody" /\ Signalled(proc[p], "TERM").is = "free"
           \/ Signalled(proc[p], "TERM").by = "hand" /\ Signalled(proc[p], "TERM").is = "stopping"
    BY <1>1, ProcessesAre
  <2>2. proc' = [proc EXCEPT ![p] = Signalled(proc[p], "TERM")]
    BY <1>1, <1>2
  <2> QED
    BY <2>1, <2>2, ChangingKeeps DEF Interrupt, Manager
<1>3. CASE proc[p].is = "starting" /\ proc' = [proc EXCEPT ![p].is = "flagged"]
  <2> DEFINE pr == [proc[p] EXCEPT !.is = "flagged"]
  <2>1. pr \in Process /\ pr.by = "hand" /\ pr.is = "flagged"
    BY <1>1 DEF Process, Up
  <2>2. proc' = [proc EXCEPT ![p] = pr]
    BY <1>1, <1>3
  <2> HIDE DEF pr
  <2> QED
    BY <2>1, <2>2, ChangingKeeps DEF Interrupt, Manager
<1> QED
  BY <1>2, <1>3 DEF Interrupt

\* A pid that comes back, or goes.
LEMMA OtherProgramKeeps ==
  ASSUME DaemonInv, NEW p \in Pid, OtherProgram(p)
  PROVE  DaemonInv'
<1> DEFINE pr == IF proc[p] = Free THEN Other ELSE Free
<1>1. proc \in [Pid -> Process]
  BY DEF DaemonInv, DaemonTypes, ProcTypes
<1>2. pr \in Process /\ pr.by = "nobody" /\ pr.is \in {"free", "other"}
  BY ProcessesAre
<1>3. proc' = [proc EXCEPT ![p] = pr]
  BY <1>1 DEF OtherProgram
<1> HIDE DEF pr
<1> QED
  BY <1>2, <1>3, ChangingKeeps DEF OtherProgram, Manager

\* An edit of config.yaml gives a file that says something or is damaged.
LEMMA EditKeeps ==
  ASSUME DaemonInv, Edit
  PROVE  DaemonInv'
<1>1. ConfigInv'
  BY DaemonAssumption DEF Edit, ConfigInv
<1> QED
  BY <1>1, BesideCommands DEF Edit, NoNewServer, DaemonInv, DaemonTypes, ProcTypes

\* Steps that change only the secret or the count of faults.
LEMMA StutterKeeps ==
  ASSUME DaemonInv, UNCHANGED <<platform, config, pidFile, plist, unit, proc, cmd, foreignHit>>
  PROVE  DaemonInv'
<1>1. ConfigInv' /\ ProcTypes' /\ NoNewServer
  BY DEF NoNewServer, DaemonInv, DaemonTypes, ProcTypes, ConfigInv
<1> QED
  BY <1>1, BesideCommands

\* The secret is of no concern to the invariant.
LEMMA SetupSecretKeeps ==
  ASSUME DaemonInv, SetupSecret
  PROVE  DaemonInv'
  BY StutterKeeps DEF SetupSecret

\* After a reboot no process is left.
LEMMA RebootKeeps ==
  ASSUME DaemonInv, Reboot
  PROVE  DaemonInv'
<1>1. Says("nothing")
  BY DEF Reboot, Says
<1>2. CmdTypes' /\ cmd'.op = "none" /\ cmd'.at = "done" /\ cmd'.pid = NoPid /\ cmd'.said = "nothing"
  <2>1. "nothing" \in Announced
    BY StepsAre
  <2> QED
    BY <1>1, <2>1, Saying
<1>3. ProcTypes' /\ \A p \in Pid : proc'[p].by = "nobody"
  BY ProcessesAre DEF Reboot, ProcTypes
<1>4. unit' \in Unit /\ unit'.state = "inactive"
  BY DEF Reboot, Unit, DaemonInv, DaemonTypes
<1>5. DaemonTypes' /\ ConfigInv'
  BY <1>2, <1>3, <1>4 DEF Reboot, DaemonInv, DaemonTypes, FileTypes, ConfigInv
<1>6. PlatformInv' /\ SignalInv'
  BY <1>2, <1>3, <1>4, StepsAre DEF Reboot, DaemonInv, PlatformInv, SignalInv, KillsOnlyServers
<1>7. UnitInv' /\ OldInv'
  BY <1>2, <1>3, <1>4 DEF UnitInv, OldInv, OldServers, Stopping
<1>8. StopStops'
  BY <1>2 DEF StopStops
<1> QED
  BY <1>5, <1>6, <1>7, <1>8 DEF DaemonInv

\* The unit's server has started under pid p, and it is the only server of a manager.
UnitStarted(p) ==
  /\ ProcTypes' /\ unit' \in Unit /\ unit'.state = "active"
  /\ proc'[p].by = "unit" /\ proc'[p].is = "starting"
  /\ \A q \in Pid \ {p} : proc'[q] = proc[q] /\ proc[q].by \notin Manager

\* Where the unit's state is neither active nor stopping no server of a manager is left on Linux.
LEMMA UnitStarts ==
  ASSUME DaemonInv, platform = "linux", unit.state \notin {"active", "stopping"},
         NEW p \in Pid, StartsAs(p, "unit", unit.loaded), unit' = [unit EXCEPT !.state = "active"]
  PROVE  UnitStarted(p)
<1>1. unit \in Unit /\ unit.loaded \in Nat
  BY DEF DaemonInv, DaemonTypes, Unit
<1>2. unit' \in Unit /\ unit'.state = "active"
  BY <1>1 DEF Unit
<1> DEFINE pr == Server("starting", "unit", unit.loaded)
<1>3. pr \in Process /\ pr.is = "starting" /\ pr.by = "unit"
  BY <1>1, ProcessesAre DEF Up, Manager
<1>4. proc' = [proc EXCEPT ![p] = pr]
  BY DEF StartsAs
<1> HIDE DEF pr
<1>5. ProcTypes' /\ proc'[p] = pr /\ \A q \in Pid \ {p} : proc'[q] = proc[q]
  BY <1>3, <1>4, OneProcess DEF DaemonInv, DaemonTypes
<1>6. \A q \in Pid : proc[q].by \notin Manager
  BY DEF DaemonInv, PlatformInv, UnitInv, Manager
<1> QED
  BY <1>2, <1>3, <1>5, <1>6 DEF UnitStarted

\* Systemd starts the unit's server again: it had none.
LEMMA SystemdRestartsKeeps ==
  ASSUME DaemonInv, SystemdRestarts
  PROVE  DaemonInv'
<1>1. PICK p \in Pid : StartsAs(p, "unit", unit.loaded)
  BY DEF SystemdRestarts
<1>2. unit.state = "waiting" /\ platform = "linux"
  BY DEF SystemdRestarts, DaemonInv, PlatformInv
<1>3. unit' = [unit EXCEPT !.state = "active"]
  BY DEF SystemdRestarts
<1>4. UnitStarted(p)
  BY <1>1, <1>2, <1>3, UnitStarts
<1>5. ConfigInv' /\ DaemonTypes' /\ PlatformInv' /\ SignalInv'
  BY <1>2, <1>4, ProcessesAre DEF SystemdRestarts, UnitStarted, DaemonInv, ConfigInv, DaemonTypes, FileTypes, CmdTypes,
       PlatformInv, SignalInv, KillsOnlyServers
<1>6. UnitInv'
  BY <1>2, <1>4 DEF SystemdRestarts, UnitStarted, DaemonInv, UnitInv, Manager
<1>7. OldInv'
  BY <1>2, <1>4 DEF SystemdRestarts, UnitStarted, DaemonInv, OldInv, OldServers, PlatformInv, Manager
<1>8. StopStops'
  BY <1>2 DEF SystemdRestarts, DaemonInv, StopStops
<1> QED
  BY <1>5, <1>6, <1>7, <1>8 DEF DaemonInv

-----------------------------------------------------------------------------
(* The commands.                                                           *)

\* What read_pid finds: the pid of the file, the old job's server included.
LEMMA ReadPidIs ==
  ASSUME DaemonInv
  PROVE  /\ ReadPid \in Pid \cup {NoPid} /\ ReadPid \in {pidFile, NoPid}
         /\ \A p \in OldServers : ReadPid = p
<1>1. pidFile \in Pid \cup {NoPid} /\ ReadPid \in {pidFile, NoPid}
  BY DEF DaemonInv, DaemonTypes, FileTypes, ReadPid
<1>2. ASSUME NEW p \in OldServers PROVE ReadPid = p
  <2>1. pidFile = p /\ p \in Pid /\ p # NoPid /\ proc[p] # Free
    BY <1>2, ProcessesAre, DaemonAssumption DEF DaemonInv, OldInv, OldServers
  <2> QED
    BY <2>1 DEF ReadPid
<1> QED
  BY <1>1, <1>2

\* A step of a command that leaves the processes and the unit alone.
LEMMA QuietStep ==
  ASSUME DaemonInv, ConfigInv', CmdTypes', pidFile' \in Pid \cup {NoPid},
         UNCHANGED <<platform, plist, unit, proc, foreignHit>>,
         platform = "linux" => cmd'.at \notin OnMac, platform = "macos" => cmd'.at \notin OnLinux,
         platform = "macos" /\ ~plist => pidFile' = NoPid /\ cmd'.pid = NoPid,
         unit.state # "stopping", cmd'.at # "wait",
         \A p \in OldServers : pidFile' = p /\ (cmd'.at \in Stopping => cmd'.pid = p),
         cmd'.op = "start" \/ cmd'.at = "fallback" => OldServers = {},
         cmd'.at \in {"launchd", "fallback"} => \A p \in Pid : proc[p].by # "tmux",
         cmd'.said = "stopped" /\ cmd'.op = "none" => unit.state = "inactive" /\ \A p \in Managed : proc[p].is = "stopping"
  PROVE  DaemonInv'
<1>1. DaemonTypes'
  BY DEF DaemonInv, DaemonTypes, FileTypes, ProcTypes
<1>2. PlatformInv' /\ SignalInv'
  BY DEF DaemonInv, PlatformInv, SignalInv, KillsOnlyServers
<1>3. UnitInv'
  BY DEF DaemonInv, UnitInv
<1>4. OldInv'
  BY DEF DaemonInv, OldInv, OldServers
<1>5. StopStops'
  BY DEF StopStops, Managed, By, IsUp
<1> QED
  BY <1>1, <1>2, <1>3, <1>4, <1>5 DEF DaemonInv

\* `status` removes a pid file that nobody has, and says something.
LEMMA StatusSaysKeeps ==
  ASSUME DaemonInv, StatusSays
  PROVE  DaemonInv'
<1>1. PICK said \in {"running", "not-running"} : Says(said)
  BY DEF StatusSays
<1>2. CmdTypes' /\ cmd'.op = "none" /\ cmd'.at = "done" /\ cmd'.pid = NoPid /\ cmd'.said = said
  BY <1>1, Saying, StepsAre
<1>3. cmd.at = "done"
  BY DEF StatusSays, DaemonInv, DaemonTypes, CmdTypes
<1>4. unit.state # "stopping"
  BY <1>3 DEF DaemonInv, UnitInv
<1>5. UNCHANGED <<platform, config, plist, unit, proc, foreignHit>> /\ pidFile' = ReadPid
  BY DEF StatusSays
<1>6. ConfigInv' /\ (platform = "macos" /\ ~plist => pidFile' = NoPid)
  BY <1>5, ReadPidIs DEF DaemonInv, ConfigInv, SignalInv
<1> QED
  BY <1>2, <1>4, <1>5, <1>6, ReadPidIs, StepsAre, QuietStep

\* `start` goes on only where neither the pid file nor tmux has a server, so the old job has none.
LEMMA StartBeginsKeeps ==
  ASSUME DaemonInv, StartBegins
  PROVE  DaemonInv'
<1>1. cmd.at = "done" /\ unit.state # "stopping"
  BY DEF StartBegins, DaemonInv, DaemonTypes, CmdTypes, UnitInv
<1>2. UNCHANGED <<platform, plist, unit, proc, foreignHit>> /\ pidFile' \in {pidFile, ReadPid}
  BY DEF StartBegins
<1>3. ConfigInv'
  <2>1. config' = config \/ config' = Saved(ConfigNow)
    BY DEF StartBegins
  <2> QED
    BY <2>1, ConfigNowIs DEF DaemonInv, ConfigInv
<1>4. pidFile \in Pid \cup {NoPid} /\ (platform = "macos" /\ ~plist => pidFile = NoPid)
  BY DEF DaemonInv, DaemonTypes, FileTypes, SignalInv
<1>5. \A p \in OldServers : pidFile = p
  BY DEF DaemonInv, OldInv
<1>6. CASE Says("already-running")
  <2>1. CmdTypes' /\ cmd'.op = "none" /\ cmd'.at = "done" /\ cmd'.pid = NoPid /\ cmd'.said = "already-running"
    BY <1>6, Saying, StepsAre
  <2> QED
    BY <1>1, <1>2, <1>3, <1>4, <1>5, <2>1, ReadPidIs, StepsAre, QuietStep
<1>7. CASE /\ ReadPid = NoPid
           /\ cmd' = [Idle("nothing") EXCEPT !.op = "start", !.port = ConfigNow["port"],
                                             !.at = IF platform = "macos" THEN "new-session" ELSE "unit"]
  <2>1. ConfigNow["port"] \in Nat
    BY ConfigNowIs DEF DaemonInv
  <2>2. /\ cmd' \in CommandRun /\ cmd'.op = "start" /\ cmd'.pid = NoPid
        /\ cmd'.at = IF platform = "macos" THEN "new-session" ELSE "unit"
    BY <1>7, <2>1 DEF Idle, CommandRun, Starting, Announced, NoPort
  <2>3. CmdTypes'
    BY <2>2 DEF CmdTypes, Starting
  <2>4. OldServers = {}
    BY <1>7, ReadPidIs, DaemonAssumption DEF OldServers
  <2>5. platform \in {"linux", "macos"}
    BY DEF DaemonInv, PlatformInv
  <2>6. /\ platform = "linux" => cmd'.at \notin OnMac
        /\ platform = "macos" => cmd'.at \notin OnLinux
        /\ cmd'.at \notin Stopping /\ cmd'.at \notin {"wait", "fallback", "launchd"}
    BY <2>2, <2>5 DEF OnMac, OnLinux, Stopping
  <2> QED
    BY <1>1, <1>2, <1>3, <1>4, <2>2, <2>3, <2>4, <2>6, ReadPidIs, QuietStep
<1> QED
  BY <1>6, <1>7 DEF StartBegins

\* `stop` takes the pid of the old job's server with it.
LEMMA StopBeginsKeeps ==
  ASSUME DaemonInv, NEW op \in {"stop", "force"}, StopBegins(op)
  PROVE  DaemonInv'
<1>1. cmd.at = "done" /\ unit.state # "stopping"
  BY DEF StopBegins, DaemonInv, DaemonTypes, CmdTypes, UnitInv
<1>2. UNCHANGED <<platform, config, plist, unit, proc, foreignHit>> /\ pidFile' = ReadPid
  BY DEF StopBegins
<1>3. /\ cmd' \in CommandRun /\ cmd'.op = op /\ cmd'.pid = ReadPid
      /\ cmd'.at = IF platform = "macos" THEN "tmux" ELSE IF op = "force" THEN "kill" ELSE "stop"
  BY ReadPidIs DEF StopBegins, Idle, CommandRun, Stopping, Announced, NoPort
<1>4. CmdTypes' /\ cmd'.at \notin {"wait", "fallback", "launchd"}
  BY <1>3 DEF CmdTypes, Starting
<1>5. platform \in {"linux", "macos"}
  BY DEF DaemonInv, PlatformInv
<1>6. (platform = "linux" => cmd'.at \notin OnMac) /\ (platform = "macos" => cmd'.at \notin OnLinux)
  BY <1>3, <1>5 DEF OnMac, OnLinux
<1>7. ConfigInv' /\ (platform = "macos" /\ ~plist => ReadPid = NoPid)
  BY <1>2, ReadPidIs DEF DaemonInv, ConfigInv, SignalInv
<1> QED
  BY <1>1, <1>2, <1>3, <1>4, <1>6, <1>7, ReadPidIs, QuietStep

\* The health check only ends the command.
LEMMA StartChecksHealthKeeps ==
  ASSUME DaemonInv, StartChecksHealth
  PROVE  DaemonInv'
<1>1. PICK said \in {"healthy", "not-healthy"} : Says(said)
  BY DEF StartChecksHealth
<1>2. CmdTypes' /\ cmd'.op = "none" /\ cmd'.at = "done" /\ cmd'.pid = NoPid /\ cmd'.said = said
  BY <1>1, Saying, StepsAre
<1>3. unit.state # "stopping"
  BY DEF StartChecksHealth, DaemonInv, UnitInv
<1>4. UNCHANGED <<platform, config, pidFile, plist, unit, proc, foreignHit>>
  BY DEF StartChecksHealth
<1>5. /\ ConfigInv' /\ (platform = "macos" /\ ~plist => pidFile = NoPid) /\ pidFile \in Pid \cup {NoPid}
      /\ \A p \in OldServers : pidFile = p
  BY <1>4 DEF DaemonInv, ConfigInv, SignalInv, DaemonTypes, FileTypes, OldInv
<1> QED
  BY <1>2, <1>3, <1>4, <1>5, StepsAre, QuietStep

\* MainPID goes to the file; on Linux there is no old job.
LEMMA StartRecordsPidKeeps ==
  ASSUME DaemonInv, StartRecordsPid
  PROVE  DaemonInv'
<1>1. platform = "linux" /\ unit.state # "stopping" /\ pidFile \in Pid \cup {NoPid} /\ CmdTypes
  BY DEF StartRecordsPid, DaemonInv, PlatformInv, OnLinux, UnitInv, DaemonTypes, FileTypes
<1>2. UNCHANGED <<platform, config, plist, unit, proc, foreignHit>> /\ Step("health") /\ cmd.op = "start"
  BY DEF StartRecordsPid
<1>3. pidFile' \in Pid \cup {NoPid}
  BY <1>1 DEF StartRecordsPid, By
<1>4. CmdTypes' /\ cmd'.op = "start" /\ cmd'.at = "health"
  <2>1. "health" \in Starting
    BY DEF Starting
  <2> QED
    BY <1>1, <1>2, <2>1, Stepping
<1>5. OldServers = {} /\ cmd'.at \notin OnMac
  BY <1>1, <1>4 DEF OldServers, DaemonInv, PlatformInv, OnMac
<1>6. ConfigInv'
  BY <1>2 DEF DaemonInv, ConfigInv
<1> QED
  BY <1>1, <1>2, <1>3, <1>4, <1>5, <1>6, QuietStep

\* A session is started only where no server of a manager is left.
LEMMA StartTmuxKeeps ==
  ASSUME DaemonInv, StartTmux
  PROVE  DaemonInv'
<1>1. platform = "macos" /\ unit.state = "inactive" /\ pidFile \in Pid \cup {NoPid} /\ CmdTypes /\ OldServers = {}
  BY DEF StartTmux, DaemonInv, PlatformInv, OnMac, DaemonTypes, FileTypes, OldInv
<1>2. UNCHANGED <<platform, config, pidFile, plist, unit, foreignHit>> /\ cmd.op = "start"
  BY DEF StartTmux
<1>3. ConfigInv' /\ (platform = "macos" /\ ~plist => pidFile = NoPid /\ cmd.pid = NoPid)
  BY <1>2 DEF DaemonInv, ConfigInv, SignalInv
<1>4. CASE Says("failed-to-start") /\ UNCHANGED proc
  <2>1. CmdTypes' /\ cmd'.op = "none" /\ cmd'.at = "done" /\ cmd'.pid = NoPid /\ cmd'.said = "failed-to-start"
    BY <1>4, Saying, StepsAre
  <2> QED
    BY <1>1, <1>2, <1>3, <1>4, <2>1, StepsAre, QuietStep
<1>5. CASE ~TmuxSession /\ (\E p \in Pid : StartsAs(p, "tmux", cmd.port)) /\ Step("health")
  <2>1. PICK p \in Pid : StartsAs(p, "tmux", cmd.port)
    BY <1>5
  <2>2. "health" \in Starting /\ "health" \notin Stopping
    BY DEF Starting, Stopping
  <2>3. /\ CmdTypes' /\ cmd'.op = "start" /\ cmd'.at = "health" /\ cmd'.pid = cmd.pid /\ cmd.port \in Nat
    BY <1>1, <1>2, <1>5, <2>2, Stepping DEF CmdTypes, CommandRun
  <2> DEFINE pr == Server("starting", "tmux", cmd.port)
  <2>4. pr \in Process /\ pr.is = "starting" /\ pr.by = "tmux"
    BY <2>3, ProcessesAre DEF Up, Manager
  <2>5. proc' = [proc EXCEPT ![p] = pr]
    BY <2>1 DEF StartsAs
  <2> HIDE DEF pr
  <2>6. ProcTypes' /\ proc'[p] = pr /\ \A q \in Pid \ {p} : proc'[q] = proc[q]
    BY <2>4, <2>5, OneProcess DEF DaemonInv, DaemonTypes
  <2>7. \A q \in Pid : proc[q].by # "tmux"
    BY <1>5, ManagedAre DEF TmuxSession, DaemonInv, DaemonTypes, Manager
  <2>8. DaemonTypes'
    BY <1>2, <2>3, <2>6 DEF DaemonInv, DaemonTypes, FileTypes
  <2>9. PlatformInv' /\ SignalInv'
    BY <1>1, <1>2, <2>3, <2>4, <2>6 DEF DaemonInv, PlatformInv, SignalInv, KillsOnlyServers, OnLinux
  <2>10. UnitInv'
    BY <1>1, <1>2, <2>3, <2>4, <2>6 DEF DaemonInv, UnitInv
  <2>11. OldInv'
    <3>1. OldServers' = {}
      BY <1>1, <2>4, <2>6 DEF OldServers
    <3> QED
      BY <2>2, <2>3, <2>4, <2>6, <2>7, <3>1 DEF OldInv
  <2>12. StopStops'
    BY <2>3 DEF StopStops
  <2> QED
    BY <1>3, <2>8, <2>9, <2>10, <2>11, <2>12 DEF DaemonInv
<1> QED
  BY <1>4, <1>5 DEF StartTmux

\* A step of a command of Linux, where there is neither a tmux session nor a launchd job.
LEMMA LinuxStep ==
  ASSUME DaemonInv, platform = "linux", UNCHANGED <<platform, config, plist, foreignHit>>,
         pidFile' \in Pid \cup {NoPid}, CmdTypes', cmd'.at \notin OnMac, unit' \in Unit, ProcTypes',
         \A q \in Pid : proc'[q].by = "nobody" \/ proc'[q].by = proc[q].by \/ proc'[q].by = "unit",
         UnitInv', StopStops'
  PROVE  DaemonInv'
<1>1. \A q \in Pid : proc'[q].by \notin {"tmux", "launchd"}
  BY DEF DaemonInv, PlatformInv
<1>2. DaemonTypes' /\ ConfigInv' /\ SignalInv'
  BY DEF DaemonInv, DaemonTypes, FileTypes, ConfigInv, SignalInv, KillsOnlyServers
<1>3. PlatformInv'
  BY <1>1 DEF DaemonInv, PlatformInv
<1>4. OldInv'
  <2>1. OldServers' = {} /\ cmd'.at \notin {"launchd", "fallback"}
    BY <1>1 DEF OldServers, OnMac
  <2> QED
    BY <1>1, <2>1 DEF OldInv
<1> QED
  BY <1>2, <1>3, <1>4 DEF DaemonInv

\* A unit is written; its state stays.
LEMMA StartWritesUnitKeeps ==
  ASSUME DaemonInv, StartWritesUnit
  PROVE  DaemonInv'
<1>1. /\ platform = "linux" /\ pidFile \in Pid \cup {NoPid} /\ CmdTypes /\ cmd.port \in Nat /\ cmd.op = "start"
      /\ unit \in Unit
  BY DEF StartWritesUnit, DaemonInv, PlatformInv, OnLinux, DaemonTypes, FileTypes, CmdTypes, CommandRun
<1>2. UNCHANGED <<platform, config, pidFile, plist, proc, foreignHit>> /\ Step("systemctl")
  BY DEF StartWritesUnit
<1>3. unit' \in Unit /\ unit'.state = unit.state
  BY <1>1 DEF StartWritesUnit, Unit
<1>4. CmdTypes' /\ cmd'.op = "start" /\ cmd'.at = "systemctl"
  <2>1. "systemctl" \in Starting
    BY DEF Starting
  <2> QED
    BY <1>1, <1>2, <2>1, Stepping
<1>5. UnitInv'
  BY <1>2, <1>3, <1>4 DEF StartWritesUnit, DaemonInv, UnitInv
<1>6. StopStops' /\ cmd'.at \notin OnMac
  BY <1>4 DEF StopStops, OnMac
<1>7. ProcTypes'
  BY <1>2 DEF ProcTypes, DaemonInv, DaemonTypes
<1> QED
  BY <1>1, <1>2, <1>3, <1>4, <1>5, <1>6, <1>7, LinuxStep

\* systemctl start, where the unit has no server or the one it is already running.
LEMMA StartUnitKeeps ==
  ASSUME DaemonInv, StartUnit
  PROVE  DaemonInv'
<1>1. platform = "linux" /\ pidFile \in Pid \cup {NoPid} /\ CmdTypes /\ cmd.op = "start" /\ cmd.at = "systemctl"
  BY DEF StartUnit, DaemonInv, PlatformInv, OnLinux, DaemonTypes, FileTypes
<1>2. UNCHANGED <<platform, config, pidFile, plist, foreignHit>>
  BY DEF StartUnit
<1>3. \/ UNCHANGED <<proc, unit>>
      \/ /\ unit.state # "active" /\ \E p \in Pid : StartsAs(p, "unit", unit.loaded)
         /\ unit' = [unit EXCEPT !.state = "active"]
  BY DEF StartUnit
<1>4. CmdTypes' /\ cmd'.at \in {"done", "main-pid"} /\ (cmd'.op = "none" => cmd'.said = "failed-to-start")
  <2>1. Step("main-pid") \/ Says("failed-to-start")
    BY DEF StartUnit
  <2>2. "main-pid" \in Starting
    BY DEF Starting
  <2> QED
    BY <1>1, <2>1, <2>2, Saying, Stepping, StepsAre
<1>5. StopStops' /\ cmd'.at \notin OnMac
  BY <1>4 DEF StopStops, OnMac
<1>6. CASE UNCHANGED <<proc, unit>>
  <2>1. ProcTypes' /\ unit' \in Unit /\ unit.state # "stopping"
    BY <1>1, <1>6 DEF ProcTypes, DaemonInv, DaemonTypes, UnitInv
  <2>2. UnitInv'
    BY <1>4, <1>6, <2>1 DEF DaemonInv, UnitInv
  <2> QED
    BY <1>1, <1>2, <1>4, <1>5, <1>6, <2>1, <2>2, LinuxStep
<1>7. CASE /\ unit.state # "active" /\ \E p \in Pid : StartsAs(p, "unit", unit.loaded)
           /\ unit' = [unit EXCEPT !.state = "active"]
  <2>1. unit.state # "stopping"
    BY <1>1 DEF DaemonInv, UnitInv
  <2>2. PICK p \in Pid : UnitStarted(p)
    BY <1>1, <1>7, <2>1, UnitStarts
  <2>3. UnitInv'
    BY <1>4, <2>2 DEF UnitStarted, UnitInv, Manager
  <2> QED
    BY <1>1, <1>2, <1>4, <1>5, <2>2, <2>3, LinuxStep DEF UnitStarted
<1> QED
  BY <1>3, <1>6, <1>7

\* The kill of a forced stop: systemd takes its server for failed, and the stop that follows ends the restart.
LEMMA ForceKillsUnitKeeps ==
  ASSUME DaemonInv, ForceKillsUnit
  PROVE  DaemonInv'
<1>1. /\ platform = "linux" /\ pidFile \in Pid \cup {NoPid} /\ CmdTypes /\ cmd \in CommandRun /\ cmd.op = "force"
      /\ unit \in Unit /\ ProcTypes
  BY DEF ForceKillsUnit, DaemonInv, PlatformInv, OnLinux, DaemonTypes, FileTypes, CmdTypes
<1>2. UNCHANGED <<platform, config, pidFile, plist, foreignHit>>
  BY DEF ForceKillsUnit
<1>3. unit.state # "stopping"
  BY DEF ForceKillsUnit, DaemonInv, UnitInv
<1>4. CmdTypes' /\ cmd'.at = "stop" /\ cmd'.op = "force"
  <2>1. cmd' \in CommandRun /\ cmd'.at = "stop" /\ cmd'.op = "force"
    BY <1>1 DEF ForceKillsUnit, Step, CommandRun, Stopping
  <2> QED
    BY <2>1 DEF CmdTypes, Starting
<1>5. StopStops' /\ cmd'.at \notin OnMac
  BY <1>4 DEF StopStops, OnMac
<1>6. CASE UNCHANGED <<proc, unit>>
  <2>1. ProcTypes' /\ unit' \in Unit
    BY <1>1, <1>6 DEF ProcTypes
  <2>2. UnitInv'
    BY <1>3, <1>4, <1>6 DEF DaemonInv, UnitInv
  <2> QED
    BY <1>1, <1>2, <1>4, <1>5, <1>6, <2>1, <2>2, LinuxStep
<1>7. CASE /\ proc' = [p \in Pid |-> IF p \in By("unit") THEN Free ELSE proc[p]]
           /\ unit' = IF By("unit") = {} THEN unit ELSE [unit EXCEPT !.state = IF @ = "active" THEN "waiting" ELSE "inactive"]
  <2>1. \A q \in Pid : q \in By("unit") <=> proc[q].by = "unit"
    BY <1>1, ManagedAre DEF Manager
  <2>2. \A q \in Pid : proc'[q] = IF proc[q].by = "unit" THEN Free ELSE proc[q]
    BY <1>7, <2>1
  <2>3. ProcTypes'
    BY <1>1, <1>7, <2>2, ProcessesAre DEF ProcTypes
  <2>4. unit' \in Unit /\ unit'.state \in {"inactive", "waiting", unit.state}
    BY <1>1, <1>7 DEF Unit
  <2>5. \A q \in Pid : proc'[q].by # "unit" /\ (proc'[q].by = "nobody" \/ proc'[q].by = proc[q].by)
    BY <2>2, ProcessesAre
  <2>6. UnitInv'
    BY <1>3, <1>4, <2>4, <2>5 DEF UnitInv
  <2> QED
    BY <1>1, <1>2, <1>4, <1>5, <2>3, <2>4, <2>5, <2>6, LinuxStep
<1> QED
  BY <1>6, <1>7 DEF ForceKillsUnit

\* systemctl stop: the unit stops once its server has.
LEMMA StopSignalsUnitKeeps ==
  ASSUME DaemonInv, StopSignalsUnit
  PROVE  DaemonInv'
<1>1. /\ platform = "linux" /\ pidFile \in Pid \cup {NoPid} /\ CmdTypes /\ cmd \in CommandRun /\ cmd.op \in {"stop", "force"}
      /\ unit \in Unit /\ ProcTypes /\ cmd.at = "stop"
  BY DEF StopSignalsUnit, DaemonInv, PlatformInv, OnLinux, DaemonTypes, FileTypes, CmdTypes
<1>2. UNCHANGED <<platform, config, pidFile, plist, foreignHit>>
  BY DEF StopSignalsUnit
<1>3. unit.state # "stopping"
  BY <1>1 DEF DaemonInv, UnitInv
<1>4. CmdTypes' /\ cmd'.at = "wait" /\ cmd'.op \in {"stop", "force"}
  <2>1. \/ cmd' = [cmd EXCEPT !.at = "wait"]
        \/ cmd' = [cmd EXCEPT !.at = "wait", !.clean = FALSE]
        \/ cmd' = [cmd EXCEPT !.at = "wait", !.unheard = TRUE]
    BY DEF StopSignalsUnit, Step
  <2>2. "wait" \in Stopping
    BY DEF Stopping
  <2>3. cmd' \in CommandRun /\ cmd'.at = "wait" /\ cmd'.op = cmd.op
    BY <1>1, <2>1, <2>2 DEF CommandRun
  <2> QED
    BY <1>1, <2>3 DEF CmdTypes, Starting
<1>5. StopStops' /\ cmd'.at \notin OnMac
  BY <1>4 DEF StopStops, OnMac
<1>6. CASE /\ UNCHANGED <<proc, unit>>
           /\ cmd' = IF cmd.op = "stop" THEN [cmd EXCEPT !.at = "wait", !.clean = FALSE]
                                        ELSE [cmd EXCEPT !.at = "wait", !.unheard = TRUE]
  <2>1. ProcTypes' /\ unit' \in Unit /\ (cmd'.clean = FALSE \/ cmd'.unheard = TRUE)
    BY <1>1, <1>6 DEF ProcTypes, CommandRun
  <2>2. UnitInv'
    BY <1>3, <1>4, <1>6, <2>1 DEF DaemonInv, UnitInv
  <2> QED
    BY <1>1, <1>2, <1>4, <1>5, <1>6, <2>1, <2>2, LinuxStep
<1>7. CASE /\ proc' = [p \in Pid |-> IF p \in By("unit") THEN Signalled(proc[p], "TERM") ELSE proc[p]]
           /\ unit' = [unit EXCEPT !.state = IF \E p \in Pid : proc'[p].by = "unit" THEN "stopping" ELSE "inactive"]
  <2>1. \A q \in Pid : q \in By("unit") <=> proc[q].by = "unit"
    BY <1>1, ManagedAre DEF Manager
  <2>2. \A q \in Pid : proc'[q] = IF proc[q].by = "unit" THEN Signalled(proc[q], "TERM") ELSE proc[q]
    BY <1>7, <2>1
  <2>3. \A q \in Pid : /\ proc'[q] \in Process
                       /\ \/ proc'[q] = proc[q] /\ proc[q].by # "unit"
                          \/ proc'[q].by = "nobody" /\ proc'[q].is = "free"
                          \/ proc'[q].by = "unit" /\ proc'[q].is = "stopping" /\ proc[q].by = "unit"
    BY <1>1, <2>2, ProcessesAre DEF ProcTypes
  <2>4. ProcTypes'
    <3>1. proc' \in [Pid -> Process]
      BY <1>7, <2>2, <2>3
    <3> QED
      BY <1>1, <2>3, <3>1 DEF ProcTypes
  <2>5. /\ unit' \in Unit /\ unit'.state \in {"stopping", "inactive"}
        /\ (\E q \in Pid : proc'[q].by = "unit") => unit'.state = "stopping"
    BY <1>1, <1>7 DEF Unit
  <2>6. UnitInv'
    BY <1>4, <2>3, <2>5 DEF DaemonInv, UnitInv
  <2> QED
    BY <1>1, <1>2, <1>4, <1>5, <2>3, <2>4, <2>5, <2>6, LinuxStep
<1> QED
  BY <1>6, <1>7 DEF StopSignalsUnit

\* The command returns when the unit has stopped; without a warning no server is left that systemd would start again.
LEMMA StopReturnsKeeps ==
  ASSUME DaemonInv, StopReturns
  PROVE  DaemonInv'
<1>1. platform = "linux" /\ unit.state # "stopping" /\ unit \in Unit /\ ProcTypes
  BY DEF StopReturns, DaemonInv, PlatformInv, OnLinux, DaemonTypes
<1>2. PICK said \in {"stopped", "warning"} :
        cmd' = [Idle(said) EXCEPT !.unheard = cmd.unheard] /\ (said = "stopped" <=> cmd.clean)
  BY <1>1 DEF StopReturns, DaemonInv, DaemonTypes, CmdTypes, CommandRun
<1>3. CmdTypes' /\ cmd'.op = "none" /\ cmd'.at = "done" /\ cmd'.said = said /\ cmd'.unheard = cmd.unheard
  <2>1. cmd.unheard \in BOOLEAN /\ said \in Announced
    BY StepsAre DEF DaemonInv, DaemonTypes, CmdTypes, CommandRun
  <2> QED
    BY <1>2, <2>1 DEF Idle, NoPort, CmdTypes, CommandRun, Starting
<1>4. UNCHANGED <<platform, config, plist, unit, proc, foreignHit>> /\ pidFile' = NoPid
  BY DEF StopReturns
<1>5. ProcTypes' /\ cmd'.at \notin OnMac
  BY <1>1, <1>3, <1>4 DEF ProcTypes, OnMac
<1>6. UnitInv'
  BY <1>1, <1>3, <1>4 DEF DaemonInv, UnitInv
<1>7. StopStops'
  <2> SUFFICES ASSUME said = "stopped", ~cmd.unheard
               PROVE  unit.state = "inactive" /\ \A p \in Pid : proc[p].by \notin Manager
    BY <1>3, <1>4, <1>5, ManagedNext DEF StopStops, Managed, By
  <2>1. cmd.clean /\ cmd.at = "wait"
    BY <1>2 DEF StopReturns
  <2>2. unit.state = "inactive"
    BY <1>1, <2>1 DEF DaemonInv, UnitInv
  <2> QED
    BY <1>1, <2>2 DEF DaemonInv, UnitInv, PlatformInv, Manager
<1> QED
  BY <1>1, <1>3, <1>4, <1>5, <1>6, <1>7, LinuxStep

\* A step of a stop on macOS, which starts nothing.
LEMMA MacStep ==
  ASSUME DaemonInv, platform = "macos", UNCHANGED <<platform, config, plist, unit>>, NoNewServer, ProcTypes', CmdTypes',
         pidFile' \in {pidFile, NoPid}, cmd'.pid \in {cmd.pid, NoPid}, foreignHit' \in BOOLEAN,
         UNCHANGED foreignHit \/ plist, cmd'.at \in {"launchd", "fallback", "done"}, cmd'.op # "start",
         \A q \in Pid : proc'[q].by # "tmux",
         \A q \in OldServers' : q \in OldServers /\ UNCHANGED pidFile /\ (cmd'.at \in Stopping => cmd'.pid = cmd.pid),
         cmd'.op = "none" \/ cmd'.at = "fallback" => OldServers' = {},
         cmd.at \in Stopping
  PROVE  DaemonInv'
<1>1. DaemonTypes' /\ ConfigInv'
  BY DEF DaemonInv, DaemonTypes, FileTypes, ConfigInv
<1>2. unit.state = "inactive" /\ \A q \in Pid : proc'[q].by # "unit"
  BY DEF DaemonInv, PlatformInv, NoNewServer, Manager
<1>3. PlatformInv' /\ SignalInv'
  BY <1>2 DEF DaemonInv, PlatformInv, SignalInv, KillsOnlyServers, OnLinux
<1>4. UnitInv'
  BY <1>2 DEF UnitInv
<1>5. OldInv'
  BY DEF DaemonInv, OldInv
<1>6. StopStops'
  <2> SUFFICES ASSUME cmd'.op = "none", NEW q \in Pid, proc'[q].by \in Manager
               PROVE  proc'[q].is = "stopping"
    BY <1>2, ManagedNext DEF StopStops, Managed, By
  <2> QED
    BY <1>2 DEF Manager, OldServers
<1> QED
  BY <1>1, <1>3, <1>4, <1>5, <1>6 DEF DaemonInv

\* The servers a signal reaches end or are stopping.
LEMMA SignalReaches ==
  ASSUME ProcTypes, NEW pids, Signal(pids), foreignHit \in BOOLEAN
  PROVE  /\ ProcTypes' /\ NoNewServer /\ foreignHit' \in BOOLEAN
         /\ \A q \in Pid \cap pids : proc'[q].by = "nobody" \/ proc'[q].is = "stopping"
         /\ \A q \in Pid : proc'[q].by \in {"nobody", proc[q].by}
<1> DEFINE sig == IF cmd.op = "force" THEN "KILL" ELSE "TERM"
<1>1. proc' = [p \in Pid |-> IF p \in pids THEN Signalled(proc[p], sig) ELSE proc[p]]
  BY DEF Signal
<1>2. foreignHit' \in BOOLEAN
  BY DEF Signal
<1>0. sig \in {"TERM", "KILL"}
  OBVIOUS
<1> HIDE DEF sig
<1>3. \A q \in Pid : /\ proc'[q] \in Process
                     /\ \/ proc'[q] = proc[q] /\ q \notin pids
                        \/ proc'[q].by = "nobody" /\ proc'[q].is = "free"
                        \/ proc'[q].by = proc[q].by /\ proc'[q].is = "stopping" /\ proc[q].is \notin {"free", "other"}
  BY <1>0, <1>1, ProcessesAre DEF ProcTypes
<1>4. ProcTypes'
  <2>1. proc' \in [Pid -> Process]
    BY <1>1, <1>3
  <2> QED
    BY <1>3, <2>1 DEF ProcTypes
<1>5. NoNewServer
  BY <1>3 DEF NoNewServer, Manager
<1> QED
  BY <1>2, <1>3, <1>4, <1>5

\* The session ends with its server, before the old job is looked for.
LEMMA StopTmuxKeeps ==
  ASSUME DaemonInv, StopTmux
  PROVE  DaemonInv'
<1>1. /\ platform = "macos" /\ CmdTypes /\ cmd \in CommandRun /\ cmd.op \in {"stop", "force"} /\ ProcTypes /\ cmd.at \in Stopping
      /\ foreignHit \in BOOLEAN
  BY DEF StopTmux, DaemonInv, PlatformInv, OnMac, DaemonTypes, FileTypes, CmdTypes, Stopping
<1>2. UNCHANGED <<platform, config, pidFile, plist, unit, foreignHit>>
  BY DEF StopTmux
<1>3. CmdTypes' /\ cmd'.at = "launchd" /\ cmd'.op = cmd.op /\ cmd'.pid = cmd.pid
  <2>1. PICK said \in {"stopped", cmd.said} : cmd' = [cmd EXCEPT !.at = "launchd", !.said = said]
    BY <1>1 DEF StopTmux, CommandRun
  <2>2. said \in Announced
    BY <1>1 DEF CommandRun, Announced
  <2>3. cmd' \in CommandRun /\ cmd'.at = "launchd" /\ cmd'.op = cmd.op /\ cmd'.pid = cmd.pid
    BY <1>1, <2>1, <2>2 DEF CommandRun, Stopping
  <2> QED
    BY <1>1, <2>3 DEF CmdTypes, Starting
<1>4. \A q \in Pid : proc'[q] = IF proc[q].by = "tmux" THEN Free ELSE proc[q]
  BY <1>1, ManagedAre DEF StopTmux, Manager
<1>5. ProcTypes'
  BY <1>1, <1>4, ProcessesAre DEF ProcTypes, StopTmux
<1>6. NoNewServer /\ \A q \in Pid : proc'[q].by # "tmux"
  BY <1>4, ProcessesAre DEF NoNewServer, Manager
<1>7. OldServers' \subseteq OldServers
  BY <1>4, ProcessesAre DEF OldServers
<1> QED
  BY <1>1, <1>2, <1>3, <1>5, <1>6, <1>7, MacStep

\* The pid that was read is the old job's server if it has one; a signal to it needs the job to be installed.
LEMMA StopLaunchdKeeps ==
  ASSUME DaemonInv, StopLaunchd
  PROVE  DaemonInv'
<1>1. /\ platform = "macos" /\ CmdTypes /\ cmd.op \in {"stop", "force"} /\ ProcTypes /\ cmd.at \in Stopping
      /\ foreignHit \in BOOLEAN
      /\ \A q \in Pid : proc[q].by # "tmux"
      /\ \A q \in OldServers : q = cmd.pid
  BY DEF StopLaunchd, DaemonInv, PlatformInv, OnMac, DaemonTypes, FileTypes, Stopping, OldInv
<1>2. UNCHANGED <<platform, config, plist, unit>>
  BY DEF StopLaunchd
<1>3. Says("stopped") \/ Step("fallback")
  BY DEF StopLaunchd
<1>4. /\ CmdTypes' /\ cmd'.at \in {"done", "fallback"} /\ cmd'.op # "start" /\ cmd'.pid \in {cmd.pid, NoPid}
  <2>1. "fallback" \in Stopping /\ "fallback" \notin Starting
    BY DEF Stopping, Starting
  <2> QED
    BY <1>1, <1>3, <2>1, Saying, Stepping, StepsAre
<1>5. CASE ~plist /\ cmd.pid = NoPid
  <2>1. UNCHANGED <<pidFile, proc, foreignHit>>
    BY <1>5 DEF StopLaunchd
  <2>2. OldServers = {}
    BY <1>1, <1>5, DaemonAssumption DEF OldServers
  <2>3. NoNewServer /\ ProcTypes' /\ OldServers' = {}
    BY <1>1, <2>1, <2>2 DEF NoNewServer, ProcTypes, OldServers
  <2> QED
    BY <1>1, <1>2, <1>4, <2>1, <2>3, MacStep
<1>6. CASE ~(~plist /\ cmd.pid = NoPid)
  <2>1. plist
    BY <1>1, <1>6 DEF DaemonInv, SignalInv, DaemonTypes, FileTypes
  <2>2. pidFile' = NoPid /\ (Signal(By("launchd") \cup {cmd.pid}) \/ Signal({cmd.pid}))
    BY <1>6 DEF StopLaunchd
  <2>3. PICK pids : Signal(pids) /\ cmd.pid \in pids
    BY <2>2
  <2>4. /\ ProcTypes' /\ NoNewServer /\ foreignHit' \in BOOLEAN
        /\ \A q \in Pid \cap pids : proc'[q].by = "nobody" \/ proc'[q].is = "stopping"
        /\ \A q \in Pid : proc'[q].by \in {"nobody", proc[q].by}
    BY <1>1, <2>3, SignalReaches
  <2>5. \A q \in Pid : proc'[q].by # "tmux"
    BY <1>1, <2>4
  <2>6. OldServers' \subseteq OldServers
    BY <2>4 DEF NoNewServer, OldServers, Manager
  <2>7. OldServers' = {}
    BY <1>1, <2>3, <2>4, <2>6 DEF OldServers
  <2> QED
    BY <1>1, <1>2, <1>4, <2>1, <2>2, <2>4, <2>5, <2>7, MacStep
<1> QED
  BY <1>5, <1>6

\* By the time of the fallback no old server is left to stop.
LEMMA StopFallsBackKeeps ==
  ASSUME DaemonInv, StopFallsBack
  PROVE  DaemonInv'
<1>1. /\ platform = "macos" /\ CmdTypes /\ ProcTypes /\ cmd.at \in Stopping
      /\ foreignHit \in BOOLEAN
      /\ \A q \in Pid : proc[q].by # "tmux"
      /\ OldServers = {}
  BY DEF StopFallsBack, DaemonInv, PlatformInv, OnMac, DaemonTypes, FileTypes, Stopping, OldInv
<1>2. UNCHANGED <<platform, config, plist, unit>>
  BY DEF StopFallsBack
<1>3. CmdTypes' /\ cmd'.at = "done" /\ cmd'.op = "none" /\ cmd'.pid = NoPid
  <2>1. Says("stopped") \/ Says("not-running")
    BY DEF StopFallsBack
  <2> QED
    BY <2>1, Saying, StepsAre
<1>4. CASE UNCHANGED <<pidFile, proc, foreignHit>>
  <2>1. NoNewServer /\ ProcTypes' /\ OldServers' = {}
    BY <1>1, <1>4 DEF NoNewServer, ProcTypes, OldServers
  <2> QED
    BY <1>1, <1>2, <1>3, <1>4, <2>1, MacStep
<1>5. CASE cmd.pid # NoPid /\ Signal({cmd.pid}) /\ pidFile' = NoPid
  <2>1. plist
    BY <1>1, <1>5 DEF DaemonInv, SignalInv, DaemonTypes, FileTypes
  <2>2. /\ ProcTypes' /\ NoNewServer /\ foreignHit' \in BOOLEAN
        /\ \A q \in Pid : proc'[q].by \in {"nobody", proc[q].by}
    BY <1>1, <1>5, SignalReaches
  <2>3. \A q \in Pid : proc'[q].by # "tmux"
    BY <1>1, <2>2
  <2>4. OldServers' = {}
    BY <1>1, <2>2 DEF NoNewServer, OldServers, Manager
  <2> QED
    BY <1>1, <1>2, <1>3, <1>5, <2>1, <2>2, <2>3, <2>4, MacStep
<1> QED
  BY <1>4, <1>5 DEF StopFallsBack

-----------------------------------------------------------------------------
(* The theorems.                                                           *)

\* At first nothing runs but, on macOS, a server of an earlier version with the pid of the file.
LEMMA DaemonInvInit ==
  ASSUME Init
  PROVE  DaemonInv
<1>1. /\ cmd \in CommandRun /\ cmd.op = "none" /\ cmd.at = "done" /\ cmd.pid = NoPid /\ cmd.said = "nothing"
      /\ unit \in Unit /\ unit.state = "inactive"
  BY DEF Init, Idle, NoUnit, CommandRun, Unit, Announced, NoPort
<1>2. CmdTypes
  BY <1>1 DEF CmdTypes, Starting
<1>3. /\ platform \in {"linux", "macos"} /\ plist \in BOOLEAN /\ (platform = "linux" => ~plist) /\ foreignHit = FALSE
      /\ pidFile \in Pid \cup {NoPid} /\ (~plist => pidFile = NoPid)
  BY DEF Init
<1>4. PICK is \in {"free", "serving"} :
        proc = [p \in Pid |-> IF p = pidFile /\ is = "serving" THEN Server(is, "launchd", Default["port"]) ELSE Free]
  BY DEF Init
<1> DEFINE old == Server("serving", "launchd", Default["port"])
<1>5. old \in Process /\ old.by = "launchd" /\ old.is = "serving"
  <2>1. Default["port"] \in Nat
    BY SMT DEF Default, Keys
  <2> QED
    BY <2>1, ProcessesAre DEF Up, Manager
<1>6. \A p \in Pid : proc[p] = Free \/ (p = pidFile /\ proc[p] = old)
  BY <1>4
<1> HIDE DEF old
<1>7. ProcTypes
  <2>1. proc \in [Pid -> Process]
    BY <1>4, <1>5, <1>6, ProcessesAre
  <2> QED
    BY <1>5, <1>6, <2>1, ProcessesAre DEF ProcTypes
<1>8. ConfigInv
  BY DaemonAssumption DEF Init, ConfigInv
<1>9. DaemonTypes
  BY <1>1, <1>2, <1>3, <1>7 DEF DaemonTypes, FileTypes
<1>10. \A p \in Pid : proc[p].by \in {"nobody", "launchd"} /\ (proc[p].by = "launchd" => p = pidFile)
  BY <1>5, <1>6, ProcessesAre
<1>11. PlatformInv
  BY <1>1, <1>3, <1>10, DaemonAssumption DEF PlatformInv, OnLinux, OnMac
<1>12. SignalInv
  BY <1>1, <1>3 DEF SignalInv, KillsOnlyServers
<1>13. UnitInv
  BY <1>1, <1>10 DEF UnitInv
<1>14. OldInv
  BY <1>1, <1>10 DEF OldInv, OldServers, Stopping
<1>15. StopStops
  BY <1>1 DEF StopStops
<1> QED
  BY <1>8, <1>9, <1>11, <1>12, <1>13, <1>14, <1>15 DEF DaemonInv

\* One step for each operation of the program and each thing that happens around it.
LEMMA DaemonInvStep ==
  ASSUME DaemonInv, [Next]_vars
  PROVE  DaemonInv'
<1>1. CASE Command
  <2>1. CASE StartBegins
    BY <2>1, StartBeginsKeeps
  <2>2. CASE StartTmux
    BY <2>2, StartTmuxKeeps
  <2>3. CASE StartWritesUnit
    BY <2>3, StartWritesUnitKeeps
  <2>4. CASE StartUnit
    BY <2>4, StartUnitKeeps
  <2>5. CASE StartRecordsPid
    BY <2>5, StartRecordsPidKeeps
  <2>6. CASE StartChecksHealth
    BY <2>6, StartChecksHealthKeeps
  <2>7. CASE \E op \in {"stop", "force"} : StopBegins(op)
    BY <2>7, StopBeginsKeeps
  <2>8. CASE ForceKillsUnit
    BY <2>8, ForceKillsUnitKeeps
  <2>9. CASE StopSignalsUnit
    BY <2>9, StopSignalsUnitKeeps
  <2>10. CASE StopReturns
    BY <2>10, StopReturnsKeeps
  <2>11. CASE StopTmux
    BY <2>11, StopTmuxKeeps
  <2>12. CASE StopLaunchd
    BY <2>12, StopLaunchdKeeps
  <2>13. CASE StopFallsBack
    BY <2>13, StopFallsBackKeeps
  <2>14. CASE StatusSays
    BY <2>14, StatusSaysKeeps
  <2> QED
    BY <1>1, <2>1, <2>2, <2>3, <2>4, <2>5, <2>6, <2>7, <2>8, <2>9, <2>10, <2>11, <2>12, <2>13, <2>14 DEF Command
<1>2. CASE World
  <2>1. CASE \E p \in Pid : Crash(p) \/ ServeByHand(p) \/ Interrupt(p) \/ OtherProgram(p) \/ SystemdKills(p)
    BY <2>1, CrashKeeps, ServeByHandKeeps, InterruptKeeps, OtherProgramKeeps, SystemdKillsKeeps
  <2>2. CASE SystemdRestarts
    BY <2>2, SystemdRestartsKeeps
  <2>3. CASE Edit
    BY <2>3, EditKeeps
  <2>4. CASE SetupSecret
    BY <2>4, SetupSecretKeeps
  <2>5. CASE Reboot
    BY <2>5, RebootKeeps
  <2> QED
    BY <1>2, <2>1, <2>2, <2>3, <2>4, <2>5 DEF World
<1>3. CASE \E p \in Pid : ServerStep(p)
  BY <1>3, ServeBindsKeeps, ServeFailsKeeps, ServeEndsKeeps DEF ServerStep
<1>4. CASE UNCHANGED vars
  BY <1>4, StutterKeeps DEF vars
<1> QED
  BY <1>1, <1>2, <1>3, <1>4 DEF Next

\* The inductive invariant holds in every reachable state.
LEMMA DaemonInvHolds == Spec => []DaemonInv
<1>1. Init => DaemonInv
  BY DaemonInvInit
<1>2. DaemonInv /\ [Next]_vars => DaemonInv'
  BY DaemonInvStep
<1> QED
  BY <1>1, <1>2, PTL DEF Spec

\* Whatever is started, stopped, killed, restarted and rebooted (cli.rs: cmd_start, stop_graceful, stop_force), at most one
\* server that `githubclaw start` manages takes work.
THEOREM AtMostOneServer == Spec => []OneServer
<1>1. ASSUME DaemonInv, NEW p \in Managed, NEW q \in Managed, proc[p].is # "stopping", proc[q].is # "stopping"
      PROVE  p = q
  <2>1. p \in Pid /\ q \in Pid /\ proc[p].by \in Manager /\ proc[q].by \in Manager
    BY <1>1, ManagedAre DEF DaemonInv, DaemonTypes, Managed, By
  <2>2. platform \in {"linux", "macos"} /\ PlatformInv /\ UnitInv /\ OldInv
    BY <1>1 DEF DaemonInv, PlatformInv
  <2>3. CASE platform = "linux"
    BY <2>1, <2>2, <2>3 DEF PlatformInv, UnitInv, Manager
  <2>4. CASE platform = "macos"
    <3>1. proc[p].by \in {"tmux", "launchd"} /\ proc[q].by \in {"tmux", "launchd"}
      BY <2>1, <2>2, <2>4 DEF PlatformInv, Manager
    <3>2. proc[p].by = "launchd" => p \in OldServers
      BY <1>1, <2>1 DEF OldServers
    <3>3. proc[q].by = "launchd" => q \in OldServers
      BY <1>1, <2>1 DEF OldServers
    <3> QED
      BY <2>1, <2>2, <3>1, <3>2, <3>3 DEF OldInv
  <2> QED
    BY <2>2, <2>3, <2>4
<1>2. DaemonInv => OneServer
  BY <1>1 DEF OneServer
<1> QED
  BY <1>2, DaemonInvHolds, PTL

\* A stop that says the server is stopped has stopped it, and systemd will not start it again (cli.rs: stop_graceful,
\* stop_force), but for a forced stop whose failing `systemctl stop` the command does not look at.
THEOREM StoppedMeansStopped == Spec => []StopStops
<1>1. DaemonInv => StopStops
  BY DEF DaemonInv
<1> QED
  BY <1>1, DaemonInvHolds, PTL

\* The pid a stop has read may have come to another program; it is signalled only where an earlier version left a launchd job
\* (cli.rs: stop_legacy_launchd_job).
THEOREM NoForeignKill == Spec => []KillsOnlyServers
<1>1. DaemonInv => KillsOnlyServers
  BY DEF DaemonInv, SignalInv
<1> QED
  BY <1>1, DaemonInvHolds, PTL

-----------------------------------------------------------------------------
(* Ports.                                                                  *)

RealPort == 1..(PortSpan - 1)

\* What the commands, the unit and the servers know of ports; a unit that is or was running has been loaded.
PortInv ==
  /\ PortIsReal
  /\ {unit.file, unit.loaded} \subseteq RealPort \cup {NoPort}
  /\ unit.state # "inactive" => unit.loaded \in RealPort
  /\ cmd.op = "start" => cmd.port \in RealPort

\* A port from a configuration, and the default one, can be reached.
LEMMA ConfigPorts ==
  ASSUME ConfigInv
  PROVE  ConfigNow["port"] \in RealPort /\ Default["port"] \in RealPort
<1>1. Default["port"] = 8000
  BY DEF Default, Keys
<1>2. Default["port"] \in RealPort
  BY <1>1, PortRoom, SMT DEF RealPort
<1>3. IsDoc(EmptyDoc)
  BY DEF IsDoc, EmptyDoc
<1>4. ConfigNow["port"] \in RealPort
  BY <1>3, LoadIs DEF ConfigInv, ConfigNow, RealPort
<1> QED
  BY <1>2, <1>4

\* Servers that stay keep their ports, and new ones get one that can be reached.
LEMMA PortsStay ==
  ASSUME PortIsReal,
         \A p \in Pid : \/ proc'[p].is \in {"free", "other"}
                        \/ proc'[p].port \in RealPort
                        \/ proc'[p].port = proc[p].port /\ IsUp(p)
  PROVE  PortIsReal'
BY DEF PortIsReal, RealPort, IsUp

\* A signal ends a server or leaves it its port.
LEMMA SignalledPort ==
  ASSUME NEW pr \in Process, NEW sig
  PROVE  \/ Signalled(pr, sig) = Free
         \/ Signalled(pr, sig).port = pr.port /\ pr.is \in {"serving", "idle", "stopping"}
BY DEF Signalled, Process

\* Where only processes change, by signals, ends and new servers with a real port, PortInv is kept.
LEMMA PortsOfServers ==
  ASSUME PortInv, UNCHANGED <<unit, cmd>>,
         \A p \in Pid : \/ proc'[p].is \in {"free", "other"}
                        \/ proc'[p].port \in RealPort
                        \/ proc'[p].port = proc[p].port /\ IsUp(p)
  PROVE  PortInv'
BY PortsStay DEF PortInv

\* A step of a server, of a person or of the machine.
LEMMA PortsBeside ==
  ASSUME DaemonInv, PortInv, World \/ \E p \in Pid : ServerStep(p)
  PROVE  PortInv'
<1>1. /\ proc \in [Pid -> Process] /\ unit \in Unit /\ cmd \in CommandRun
      /\ Free.is = "free" /\ Other.is = "other"
  BY ProcessesAre DEF DaemonInv, DaemonTypes, ProcTypes, CmdTypes
<1>2. \A p \in Pid : proc[p].is \in {"free", "other"} \/ IsUp(p)
  BY <1>1 DEF Process, Up, IsUp
<1>3. ASSUME NEW p \in Pid, NEW failed \in BOOLEAN, Ends(p, failed), UNCHANGED cmd PROVE PortInv'
  <2>1. \A q \in Pid : proc'[q] = proc[q] \/ proc'[q] = Free
    BY <1>1, <1>3 DEF Ends
  <2>2. PortIsReal'
    BY <1>1, <1>2, <2>1, PortsStay DEF PortInv
  <2>3. /\ unit'.file = unit.file /\ unit'.loaded = unit.loaded
        /\ unit'.state # "inactive" => unit.state # "inactive"
    BY <1>1, <1>3 DEF Ends, UnitAfter, Unit
  <2> QED
    BY <1>3, <2>2, <2>3 DEF PortInv
<1>4. ASSUME NEW p \in Pid, Crash(p) \/ SystemdKills(p) \/ ServeFails(p) \/ ServeEnds(p) PROVE PortInv'
  BY <1>3, <1>4 DEF Crash, SystemdKills, ServeFails, ServeEnds
<1>5. ASSUME NEW p \in Pid, ServeBinds(p) PROVE PortInv'
  <2>1. IsUp(p) /\ UNCHANGED <<unit, cmd>>
    BY <1>5 DEF ServeBinds, IsUp
  <2>2. \A q \in Pid : proc'[q].port = proc[q].port /\ (q # p => proc'[q] = proc[q])
    BY <1>1, <1>5 DEF ServeBinds, Process
  <2> QED
    BY <1>2, <2>1, <2>2, PortsOfServers
<1>6. ASSUME NEW p \in Pid, ServeByHand(p) PROVE PortInv'
  <2>1. PICK q \in Pid, port \in {Default["port"], ConfigNow["port"]} : StartsAs(q, "hand", port)
    BY <1>6 DEF ServeByHand
  <2>2. port \in RealPort
    BY ConfigPorts DEF DaemonInv
  <2>3. \A r \in Pid : proc'[r] = proc[r] \/ proc'[r].port = port
    BY <1>1, <2>1 DEF StartsAs, Server
  <2> QED
    BY <1>2, <1>6, <2>2, <2>3, PortsOfServers DEF ServeByHand
<1>7. ASSUME NEW p \in Pid, Interrupt(p) PROVE PortInv'
  <2>1. UNCHANGED <<unit, cmd>>
    BY <1>7 DEF Interrupt
  <2>2. CASE proc' = [proc EXCEPT ![p] = Signalled(@, "TERM")]
    <3>1. proc' = [proc EXCEPT ![p] = Signalled(proc[p], "TERM")]
      BY <1>1, <2>2
    <3>2. \A q \in Pid : q # p => proc'[q] = proc[q]
      BY <1>1, <3>1
    <3>3. proc'[p] = Signalled(proc[p], "TERM")
      BY <1>1, <3>1
    <3>4. proc'[p] = Free \/ (proc'[p].port = proc[p].port /\ IsUp(p))
      BY <1>1, <3>3, SignalledPort DEF IsUp
    <3> QED
      BY <1>1, <1>2, <2>1, <3>2, <3>4, PortsOfServers
  <2>3. CASE proc[p].is = "starting" /\ proc' = [proc EXCEPT ![p].is = "flagged"]
    <3>1. \A q \in Pid : proc'[q].port = proc[q].port /\ (q # p => proc'[q] = proc[q])
      BY <1>1, <2>3 DEF Process
    <3>2. IsUp(p)
      BY <2>3 DEF IsUp
    <3> QED
      BY <1>2, <2>1, <3>1, <3>2, PortsOfServers
  <2> QED
    BY <1>7, <2>2, <2>3 DEF Interrupt
<1>8. ASSUME NEW p \in Pid, OtherProgram(p) PROVE PortInv'
  <2>1. \A q \in Pid : proc'[q] = proc[q] \/ proc'[q] \in {Free, Other}
    BY <1>1, <1>8 DEF OtherProgram
  <2> QED
    BY <1>1, <1>2, <1>8, <2>1, PortsOfServers DEF OtherProgram
<1>9. CASE SystemdRestarts
  <2>1. PICK p \in Pid : StartsAs(p, "unit", unit.loaded)
    BY <1>9 DEF SystemdRestarts
  <2>2. unit.loaded \in RealPort
    BY <1>9 DEF SystemdRestarts, PortInv
  <2>3. \A q \in Pid : proc'[q] = proc[q] \/ proc'[q].port = unit.loaded
    BY <1>1, <2>1 DEF StartsAs, Server
  <2>4. PortIsReal'
    BY <1>2, <2>2, <2>3, PortsStay DEF PortInv
  <2>5. unit'.file = unit.file /\ unit'.loaded = unit.loaded /\ UNCHANGED cmd
    BY <1>1, <1>9 DEF SystemdRestarts, Unit
  <2> QED
    BY <2>2, <2>4, <2>5 DEF PortInv
<1>10. CASE Edit \/ SetupSecret
  BY <1>2, <1>10, PortsOfServers DEF Edit, SetupSecret
<1>11. CASE Reboot
  <2>1. PortIsReal'
    BY <1>1, <1>11, PortsStay DEF Reboot, PortInv
  <2>2. unit'.file = unit.file /\ unit'.loaded = unit.file /\ unit'.state = "inactive" /\ cmd'.op = "none"
    BY <1>1, <1>11 DEF Reboot, Unit, Idle
  <2> QED
    BY <2>1, <2>2 DEF PortInv
<1> QED
  BY <1>4, <1>5, <1>6, <1>7, <1>8, <1>9, <1>10, <1>11 DEF World, ServerStep

\* A step of a command.
LEMMA PortsOfCommands ==
  ASSUME DaemonInv, PortInv, Command
  PROVE  PortInv'
<1>1. /\ proc \in [Pid -> Process] /\ unit \in Unit /\ cmd \in CommandRun
      /\ Free.is = "free" /\ Other.is = "other" /\ (cmd.op = "none" <=> cmd.at = "done")
  BY ProcessesAre DEF DaemonInv, DaemonTypes, ProcTypes, CmdTypes
<1>2. \A p \in Pid : proc[p].is \in {"free", "other"} \/ IsUp(p)
  BY <1>1 DEF Process, Up, IsUp
<1>3. \A said : Says(said) => cmd'.op = "none"
  BY DEF Says, Idle
<1>4. \A at : Step(at) => cmd'.op = cmd.op /\ cmd'.port = cmd.port
  BY <1>1 DEF Step, CommandRun
<1>5. ASSUME UNCHANGED <<proc, unit>>, cmd'.op = "start" => cmd'.port \in RealPort PROVE PortInv'
  <2>1. PortIsReal'
    BY <1>2, <1>5, PortsStay DEF PortInv
  <2> QED
    BY <1>5, <2>1 DEF PortInv
<1>6. CASE StartBegins
  <2>1. ConfigNow["port"] \in RealPort
    BY ConfigPorts DEF DaemonInv
  <2>2. cmd'.op = "none" \/ cmd'.port = ConfigNow["port"]
    BY <1>3, <1>6 DEF StartBegins, Idle
  <2> QED
    BY <1>5, <1>6, <2>1, <2>2 DEF StartBegins
<1>7. CASE StartTmux
  <2>1. cmd.port \in RealPort /\ UNCHANGED unit /\ (cmd'.op = "none" \/ (cmd'.op = "start" /\ cmd'.port = cmd.port))
    BY <1>3, <1>4, <1>7 DEF StartTmux, PortInv
  <2>2. \A q \in Pid : proc'[q] = proc[q] \/ proc'[q].port = cmd.port
    <3>1. UNCHANGED proc \/ \E p \in Pid : StartsAs(p, "tmux", cmd.port)
      BY <1>7 DEF StartTmux
    <3> QED
      BY <1>1, <3>1 DEF StartsAs, Server
  <2>3. PortIsReal'
    BY <1>2, <2>1, <2>2, PortsStay DEF PortInv
  <2> QED
    BY <2>1, <2>3 DEF PortInv
<1>8. CASE StartWritesUnit
  <2>1. cmd.port \in RealPort /\ UNCHANGED proc /\ cmd'.op = "start" /\ cmd'.port = cmd.port
    BY <1>4, <1>8 DEF StartWritesUnit, PortInv
  <2>2. unit'.file = cmd.port /\ unit'.loaded \in {unit.loaded, cmd.port} /\ unit'.state = unit.state
    BY <1>1, <1>8 DEF StartWritesUnit, Unit
  <2>3. PortIsReal'
    BY <1>2, <2>1, PortsStay DEF PortInv
  <2> QED
    BY <2>1, <2>2, <2>3 DEF PortInv
<1>9. CASE StartUnit
  <2>1. cmd'.op = "none" \/ (cmd'.op = "start" /\ cmd'.port = cmd.port)
    BY <1>3, <1>4, <1>9 DEF StartUnit
  <2>2. CASE UNCHANGED <<proc, unit>>
    BY <1>5, <1>9, <2>1, <2>2 DEF StartUnit, PortInv
  <2>3. CASE /\ unit.loaded # NoPort /\ \E p \in Pid : StartsAs(p, "unit", unit.loaded)
             /\ unit' = [unit EXCEPT !.state = "active"]
    <3>1. unit.loaded \in RealPort /\ unit'.file = unit.file /\ unit'.loaded = unit.loaded
      BY <1>1, <2>3 DEF PortInv, Unit
    <3>2. \A q \in Pid : proc'[q] = proc[q] \/ proc'[q].port = unit.loaded
      BY <1>1, <2>3 DEF StartsAs, Server
    <3>3. PortIsReal'
      BY <1>2, <3>1, <3>2, PortsStay DEF PortInv
    <3> QED
      BY <1>9, <2>1, <3>1, <3>3 DEF PortInv, StartUnit
  <2> QED
    BY <1>9, <2>2, <2>3 DEF StartUnit
<1>10. CASE StartRecordsPid \/ StartChecksHealth
  BY <1>3, <1>4, <1>5, <1>10 DEF StartRecordsPid, StartChecksHealth, PortInv
<1>11. CASE \E op \in {"stop", "force"} : StopBegins(op)
  BY <1>5, <1>11 DEF StopBegins, Idle
<1>12. CASE ForceKillsUnit
  <2>1. \A q \in Pid : proc'[q] = proc[q] \/ proc'[q] = Free
    BY <1>1, <1>12 DEF ForceKillsUnit
  <2>2. PortIsReal'
    BY <1>1, <1>2, <2>1, PortsStay DEF PortInv
  <2>3. cmd'.op = "force"
    BY <1>1, <1>4, <1>12 DEF ForceKillsUnit, CommandRun
  <2>4. /\ unit'.file = unit.file /\ unit'.loaded = unit.loaded
        /\ unit'.state # "inactive" => unit.state # "inactive"
    BY <1>1, <1>12 DEF ForceKillsUnit, Unit
  <2> QED
    BY <2>2, <2>3, <2>4 DEF PortInv
<1>13. CASE StopSignalsUnit
  <2>1. cmd'.op \in {"stop", "force"}
    BY <1>1, <1>4, <1>13 DEF StopSignalsUnit, CommandRun
  <2>2. \A q \in Pid : proc'[q] = proc[q] \/ proc'[q] = Signalled(proc[q], "TERM")
    BY <1>1, <1>13 DEF StopSignalsUnit
  <2>3. \A q \in Pid : proc'[q] = proc[q] \/ proc'[q] = Free \/ (proc'[q].port = proc[q].port /\ IsUp(q))
    BY <1>1, <2>2, SignalledPort DEF IsUp
  <2>4. PortIsReal'
    BY <1>1, <1>2, <2>3, PortsStay DEF PortInv
  <2>5. /\ unit'.file = unit.file /\ unit'.loaded = unit.loaded
        /\ unit'.state # "inactive" => unit.state # "inactive" \/ \E q \in Pid : proc'[q].by = "unit"
    BY <1>1, <1>13 DEF StopSignalsUnit, Unit
  <2>6. ASSUME NEW q \in Pid, proc'[q].by = "unit" PROVE unit.state # "inactive"
    <3>1. proc[q].by = "unit"
      BY <1>1, <2>2, <2>6, ProcessesAre
    <3> QED
      BY <3>1 DEF DaemonInv, UnitInv
  <2> QED
    BY <2>1, <2>4, <2>5, <2>6 DEF PortInv
<1>14. CASE StopReturns \/ StatusSays
  BY <1>3, <1>5, <1>14 DEF StopReturns, StatusSays, Idle
<1>15. CASE StopTmux
  <2>1. \A q \in Pid : proc'[q] = proc[q] \/ proc'[q] = Free
    BY <1>1, <1>15 DEF StopTmux
  <2>2. PortIsReal'
    BY <1>1, <1>2, <2>1, PortsStay DEF PortInv
  <2>3. cmd'.op # "start" /\ UNCHANGED unit
    BY <1>1, <1>15 DEF StopTmux, CommandRun
  <2> QED
    BY <2>2, <2>3 DEF PortInv
<1>16. CASE StopLaunchd \/ StopFallsBack
  <2>1. cmd'.op # "start" /\ UNCHANGED unit
    BY <1>3, <1>4, <1>16 DEF StopLaunchd, StopFallsBack
  <2>2. UNCHANGED proc \/ \E pids : Signal(pids)
    BY <1>16 DEF StopLaunchd, StopFallsBack
  <2>3. \A q \in Pid : proc'[q] = proc[q] \/ proc'[q] = Free \/ (proc'[q].port = proc[q].port /\ IsUp(q))
    BY <1>1, <2>2, SignalledPort DEF Signal, IsUp
  <2>4. PortIsReal'
    BY <1>1, <1>2, <2>3, PortsStay DEF PortInv
  <2> QED
    BY <2>1, <2>4 DEF PortInv
<1> QED
  BY <1>6, <1>7, <1>8, <1>9, <1>10, <1>11, <1>12, <1>13, <1>14, <1>15, <1>16 DEF Command

\* Whatever number is in config.yaml, the server that a command, systemd or a person starts has a port that can be reached: a
\* number too large for a port is cast before it is validated (config.rs: GlobalConfig::load), and what a unit file keeps of
\* an older configuration was validated too.
THEOREM PortsAreReal == Spec => []PortIsReal
<1>1. Init => PortInv
  <2> SUFFICES ASSUME Init PROVE PortInv
    OBVIOUS
  <2>1. \A p \in Pid : proc[p] = Free \/ proc[p].port = Default["port"]
    BY DEF Init, Server
  <2>2. Default["port"] \in RealPort
    BY DaemonInvInit, ConfigPorts DEF DaemonInv
  <2>3. PortIsReal
    BY <2>1, <2>2, ProcessesAre DEF PortIsReal, RealPort, IsUp
  <2> QED
    BY <2>3 DEF Init, NoUnit, Idle, PortInv
<1>2. DaemonInv /\ PortInv /\ [Next]_vars => PortInv'
  <2> SUFFICES ASSUME DaemonInv, PortInv, [Next]_vars PROVE PortInv'
    OBVIOUS
  <2>1. CASE UNCHANGED vars
    BY <2>1 DEF vars, PortInv, PortIsReal, IsUp
  <2> QED
    BY <2>1, PortsBeside, PortsOfCommands DEF Next
<1>3. PortInv => PortIsReal
  BY DEF PortInv
<1> QED
  BY <1>1, <1>2, <1>3, DaemonInvHolds, PTL DEF Spec

-----------------------------------------------------------------------------
(***************************************************************************)
(* The dashboard, which runs beside the daemon: the safety properties of   *)
(* Tui, for any issues, numbers and texts.  It shares no state with Daemon.*)
(***************************************************************************)

\* The list and the one drawn last are lists of issues.
SeqTypes == shown \in Seq(Request) /\ screen \in Seq(Request) /\ sel \in Nat

\* A click waits only from the input it came in to the frame that handles it; Refresh until its tick is over.
ClickInv == phase \in {"startup", "read", "exit", "open", "review", "poll"} => click \in {None, RefreshClicked}

\* From a frame to the next tick, and wherever a click on the inbox waits, the screen shows the list as it is.
SeenInv ==
  phase \in {"open", "review", "poll", "batch"} \/ click \notin {None, RefreshClicked} => screen = shown

\* Until something takes the selection off it, the session's issue is the selected one.
FollowInv == session # None /\ followed => Selected # None /\ Number[Selected] = session

\* A session is asked for only while none is open.
OpeningInv == opening # None => session = None

\* The inductive invariant.
TuiInv == SeqTypes /\ ClickInv /\ SeenInv /\ FollowInv /\ OpeningInv /\ ReviewIsOfSeen

\* The least number of a set.
LEMMA LeastNumber ==
  ASSUME NEW S, S \subseteq Nat, S # {}
  PROVE  \E i \in S : \A j \in S : i <= j
<1> DEFINE less == {p \in Nat \X Nat : p[1] < p[2]}
<1>1. IsWellFoundedOn(less, Nat)
  BY NatLessThanWellFounded DEF OpToRel
<1>2. \A i, j \in Nat : <<j, i>> \notin less => i <= j
  OBVIOUS
<1> HIDE DEF less
<1>3. PICK i \in S : \A j \in S : <<j, i>> \notin less
  BY <1>1, WFMin
<1> QED
  BY <1>2, <1>3

\* The inbox is a sequence of issues.
LEMMA InboxIs == InboxLists \subseteq Seq(Request)
<1> SUFFICES ASSUME NEW list \in InboxLists
             PROVE  list \in Seq(Request)
  OBVIOUS
<1>1. PICK waiting \in SUBSET Request : IsFiniteSet(waiting) /\ list \in SetToSeqs(waiting)
  BY DEF InboxLists
<1>2. Cardinality(waiting) \in Nat
  BY <1>1, FS_CardinalityType
<1>3. list \in [1..Cardinality(waiting) -> waiting]
  BY <1>1 DEF SetToSeqs
<1> QED
  BY <1>2, <1>3

\* The index the selection is restored to: that of an issue with the number, if there is one.
LEMMA IndexIs ==
  ASSUME NEW list \in Seq(Request), NEW n
  PROVE  /\ IndexOf(list, n) \in Nat
         /\ n \in Numbers(list) =>
              /\ IndexOf(list, n) < Len(list)
              /\ Number[list[IndexOf(list, n) + 1]] = n
<1> DEFINE at == {i \in DOMAIN list : Number[list[i]] = n}
           first == CHOOSE i \in at : \A j \in at : i <= j
<1>1. at \subseteq 1..Len(list)
  OBVIOUS
<1>2. IndexOf(list, n) = IF at = {} THEN 0 ELSE first - 1
  BY DEF IndexOf
<1>3. at # {} => first \in at
  <2> HIDE DEF at
  <2> SUFFICES ASSUME at # {}
               PROVE  first \in at
    OBVIOUS
  <2>1. at \subseteq Nat
    BY <1>1
  <2>2. \E i \in at : \A j \in at : i <= j
    BY <2>1, LeastNumber
  <2> QED
    BY <2>2
<1>4. n \in Numbers(list) => at # {}
  BY DEF Numbers
<1>5. at # {} => first \in 1..Len(list) /\ Number[list[first]] = n
  BY <1>3
<1> HIDE DEF at, first
<1> QED
  BY <1>2, <1>4, <1>5

\* What a refresh of the views keeps.
LEMMA RefreshKeeps ==
  ASSUME SeqTypes, FollowInv, RefreshViews, session' = session
  PROVE  shown' \in Seq(Request) /\ sel' \in Nat /\ FollowInv'
<1>1. CASE UNCHANGED <<shown, sel, followed>>
  BY <1>1 DEF SeqTypes, FollowInv, Selected, SelectedIn
<1>2. CASE \E list \in InboxLists :
             /\ shown' = list
             /\ sel' = IndexOf(list, NumberOf(Selected))
             /\ followed' = (session = None \/ (followed /\ session \in Numbers(list)))
  <2>1. PICK list \in InboxLists :
             /\ shown' = list
             /\ sel' = IndexOf(list, NumberOf(Selected))
             /\ followed' = (session = None \/ (followed /\ session \in Numbers(list)))
    BY <1>2
  <2>2. list \in Seq(Request)
    BY InboxIs
  <2>3. sel' \in Nat
    BY <2>1, <2>2, IndexIs
  <2>4. ASSUME session' # None, followed'
        PROVE  Selected' # None /\ Number[Selected'] = session'
    <3>1. followed /\ session # None /\ session \in Numbers(list)
      BY <2>1, <2>4
    <3>2. NumberOf(Selected) = session
      BY <3>1 DEF FollowInv, NumberOf
    <3>3. sel' < Len(list) /\ Number[list[sel' + 1]] = session
      BY <2>1, <2>2, <3>1, <3>2, IndexIs
    <3>4. Selected' = list[sel' + 1]
      BY <2>1, <3>3 DEF Selected, SelectedIn
    <3>5. list[sel' + 1] \in Request
      BY <2>2, <2>3, <3>3
    <3>6. None \notin Request
      BY TuiAssumption
    <3> QED
      BY <3>3, <3>4, <3>5, <3>6
  <2> QED
    BY <2>1, <2>2, <2>3, <2>4 DEF FollowInv
<1> QED
  BY <1>1, <1>2 DEF RefreshViews
\* The initial state satisfies the invariant.
LEMMA TuiInvInit == TuiInit => TuiInv
<1> SUFFICES ASSUME TuiInit PROVE TuiInv
  OBVIOUS
<1> QED
  BY DEF TuiInit, TuiInv, SeqTypes, ClickInv, SeenInv, FollowInv, OpeningInv, ReviewIsOfSeen

\* While the list and the selection stay, the session keeps its issue selected.
LEMMA SelectionStays ==
  ASSUME FollowInv, UNCHANGED <<shown, sel>>, session' = None \/ (session' = session /\ followed' = followed)
  PROVE  FollowInv'
BY DEF FollowInv, Selected, SelectedIn

\* A review that stays, or goes, is still about what was seen.
LEMMA ReviewStays ==
  ASSUME ReviewIsOfSeen, review' = None \/ review' = review
  PROVE  ReviewIsOfSeen'
BY DEF ReviewIsOfSeen

\* A review decided while the screen shows the list is about the issue shown as selected.
LEMMA ReviewIsMade ==
  ASSUME FollowInv, screen = shown, Selected # None, NEW d, review' = ReviewOf(d)
  PROVE  ReviewIsOfSeen'
<1>1. /\ review'.number = Number[Selected] /\ review'.seen = SelectedIn(screen)
      /\ review'.session = session /\ review'.followed = followed
  BY DEF ReviewOf
<1>2. SelectedIn(screen) = Selected
  BY DEF Selected, SelectedIn
<1>3. review'.session # None /\ review'.followed => review'.number = review'.session
  BY <1>1 DEF FollowInv
<1> QED
  BY <1>1, <1>2, <1>3 DEF ReviewIsOfSeen

\* What a click in the inbox keeps: a row selected, a session or a review asked for.
LEMMA BodyKeepsInv ==
  ASSUME TuiInv, RenderBody
  PROVE  TuiInv'
<1> USE DEF TuiInv, SeqTypes, OpeningInv
<1>1. /\ phase' \in {"stopped", "open"} /\ click' = None /\ screen' = shown /\ shown' = shown
      /\ session' = session
  BY DEF RenderBody, pty
<1>2. CASE \E i \in DOMAIN shown : ClickRow(i)
  <2>1. PICK i \in 1..Len(shown) : ClickRow(i)
    BY <1>2
  <2>2. /\ sel' = i - 1 /\ followed' = (session = None \/ (followed /\ Number[shown[i]] = session))
        /\ review' = review /\ opening' = opening
    BY <2>1 DEF ClickRow, pending
  <2>3. Selected' = shown[i] /\ sel' \in Nat
    BY <1>1, <2>2 DEF Selected, SelectedIn
  <2>4. shown[i] # None
    BY <2>1, TuiAssumption
  <2>5. session' # None /\ followed' => Number[shown[i]] = session'
    BY <1>1, <2>2
  <2>6. FollowInv'
    BY <2>3, <2>4, <2>5 DEF FollowInv
  <2>7. ReviewIsOfSeen'
    BY <2>2, ReviewStays
  <2> QED
    BY <1>1, <2>2, <2>3, <2>6, <2>7 DEF ClickInv, SeenInv
<1>3. CASE ClickOpen
  <2>1. UNCHANGED <<sel, review, followed>> /\ (session = None \/ opening' = opening)
    BY <1>3 DEF ClickOpen
  <2>2. FollowInv' /\ ReviewIsOfSeen'
    BY <1>1, <2>1, SelectionStays, ReviewStays
  <2> QED
    BY <1>1, <2>1, <2>2 DEF ClickInv, SeenInv
<1>4. CASE \E d \in Decision :
             click = ReviewClicked(d) /\ Selected # None /\ ClickReview(d)
  <2>1. PICK d \in Decision :
          click = ReviewClicked(d) /\ Selected # None /\ ClickReview(d)
    BY <1>4
  <2>2. click \notin {None, RefreshClicked}
    BY <2>1, TuiAssumption DEF ReviewClicked, RefreshClicked
  <2>3. review' = ReviewOf(d) /\ UNCHANGED <<sel, opening, followed>>
    BY <2>1 DEF ClickReview
  <2>4. FollowInv' /\ ReviewIsOfSeen'
    BY <1>1, <2>1, <2>2, <2>3, SelectionStays, ReviewIsMade DEF SeenInv
  <2> QED
    BY <1>1, <2>3, <2>4 DEF ClickInv, SeenInv
<1>5. CASE UNCHANGED <<sel, pending, followed>>
  <2>1. UNCHANGED <<sel, opening, review, followed>>
    BY <1>5 DEF pending
  <2>2. FollowInv' /\ ReviewIsOfSeen'
    BY <1>1, <2>1, SelectionStays, ReviewStays
  <2> QED
    BY <1>1, <2>1, <2>2 DEF ClickInv, SeenInv
<1> QED
  BY <1>2, <1>3, <1>4, <1>5 DEF RenderBody

\* What the ticks and the rest of the frame keep.
LEMMA LoopKeepsInv ==
  ASSUME TuiInv, Tick \/ Frame
  PROVE  TuiInv'
<1> USE DEF TuiInv, SeqTypes, OpeningInv, inbox, pending, pty, seen
<1>1. CASE TickReads
  <2>1. /\ phase = "read" /\ phase' \in {"panicked", "exit"} /\ RefreshViews
        /\ UNCHANGED <<click, screen, opening, review, session>>
    BY <1>1 DEF TickReads
  <2>2. shown' \in Seq(Request) /\ sel' \in Nat /\ FollowInv' /\ ReviewIsOfSeen'
    BY <2>1, RefreshKeeps, ReviewStays
  <2> QED
    BY <2>1, <2>2 DEF ClickInv, SeenInv
<1>2. CASE TickChecksExit
  <2>1. /\ phase' \in {"header", "body"} /\ click' = None
        /\ UNCHANGED <<shown, sel, screen, opening>>
        /\ session' = None \/ (session' = session /\ followed' = followed)
        /\ review' = None \/ review' = review
    BY <1>2 DEF TickChecksExit, AfterTick, Close
  <2>2. FollowInv' /\ ReviewIsOfSeen'
    BY <2>1, SelectionStays, ReviewStays
  <2> QED
    BY <2>1, <2>2 DEF ClickInv, SeenInv
<1>3. CASE RenderHeader
  <2>1. /\ phase' = IF click = RefreshClicked THEN "read" ELSE "body"
        /\ UNCHANGED <<shown, sel, session, followed, review, opening, click, screen>>
    BY <1>3 DEF RenderHeader
  <2>2. FollowInv' /\ ReviewIsOfSeen'
    BY <2>1, SelectionStays, ReviewStays
  <2> QED
    BY <2>1, <2>2 DEF ClickInv, SeenInv
<1>4. CASE RenderBody
  BY <1>4, BodyKeepsInv
<1>5. CASE OpenSession
  <2>1. /\ phase = "open" /\ phase' = "review" /\ opening' = None
        /\ UNCHANGED <<shown, sel, review, click, screen>>
    BY <1>5 DEF OpenSession
  <2>2. \/ session' = None \/ (session' = session /\ followed' = followed)
        \/ opening # None /\ session' = opening /\ followed' = (NumberOf(Selected) = opening)
    BY <1>5 DEF OpenSession, Close
  <2>3. ASSUME opening # None, session' = opening, followed' = (NumberOf(Selected) = opening)
        PROVE  FollowInv'
    <3>1. Selected' = Selected
      BY <2>1 DEF Selected, SelectedIn
    <3> QED
      BY <2>3, <3>1 DEF FollowInv, NumberOf
  <2>4. FollowInv' /\ ReviewIsOfSeen'
    BY <2>1, <2>2, <2>3, SelectionStays, ReviewStays
  <2> QED
    BY <2>1, <2>4 DEF ClickInv, SeenInv
<1>6. CASE ApplyReview
  <2>1. /\ phase = "review" /\ phase' = "poll" /\ review' = None
        /\ UNCHANGED <<shown, sel, screen, opening, click>>
        /\ session' = None \/ (session' = session /\ followed' = followed)
    BY <1>6 DEF ApplyReview, Close
  <2>2. FollowInv' /\ ReviewIsOfSeen'
    BY <2>1, SelectionStays, ReviewStays
  <2> QED
    BY <2>1, <2>2 DEF ClickInv, SeenInv
<1> QED
  BY <1>1, <1>2, <1>3, <1>4, <1>5, <1>6 DEF Tick, Frame

\* What keys and clicks keep.
LEMMA OperatorKeepsInv ==
  ASSUME TuiInv, Operator
  PROVE  TuiInv'
<1> USE DEF TuiInv, SeqTypes, OpeningInv, Input, inbox, pending, pty
<1>1. screen = shown /\ screen' = screen /\ shown' = shown /\ phase' = "batch"
  BY DEF SeenInv, Operator, KeyQuit, KeyTab, KeyEsc, KeyMove,
         KeyEnter, KeyForwarded, MouseClick, KeyReview
<1>2. CASE KeyQuit \/ KeyTab \/ KeyForwarded \/ MouseClick
  <2>1. UNCHANGED <<sel, session, followed, opening, review>>
    BY <1>2 DEF KeyQuit, KeyTab, KeyForwarded, MouseClick
  <2>2. FollowInv' /\ ReviewIsOfSeen'
    BY <1>1, <2>1, SelectionStays, ReviewStays
  <2> QED
    BY <1>1, <2>1, <2>2 DEF ClickInv, SeenInv
<1>3. CASE KeyEsc
  <2>1. UNCHANGED <<sel, opening, review>> /\ session' = None
    BY <1>3 DEF KeyEsc, Close
  <2>2. FollowInv' /\ ReviewIsOfSeen'
    BY <1>1, <2>1, SelectionStays, ReviewStays
  <2> QED
    BY <1>1, <2>1, <2>2 DEF ClickInv, SeenInv
<1>4. CASE KeyMove
  <2>1. /\ session = None /\ session' = None /\ UNCHANGED <<opening, review>>
        /\ Len(shown) \in Nat \ {0} /\ sel' \in {(sel + 1) % Len(shown), (sel + Len(shown) - 1) % Len(shown)}
    BY <1>4 DEF KeyMove
  <2>2. sel' \in Nat
    <3>1. sel + 1 \in Nat /\ sel + Len(shown) - 1 \in Nat
      BY <2>1
    <3> QED
      BY <2>1, <3>1, Remainder
  <2>3. FollowInv' /\ ReviewIsOfSeen'
    BY <2>1, ReviewStays DEF FollowInv
  <2> QED
    BY <1>1, <2>1, <2>2, <2>3 DEF ClickInv, SeenInv
<1>5. CASE KeyEnter
  <2>1. session = None /\ UNCHANGED <<sel, session, followed, review>>
    BY <1>5 DEF KeyEnter
  <2>2. FollowInv' /\ ReviewIsOfSeen'
    BY <1>1, <2>1, SelectionStays, ReviewStays
  <2> QED
    BY <1>1, <2>1, <2>2 DEF ClickInv, SeenInv
<1>6. ASSUME NEW d \in Decision, KeyReview(d)
      PROVE  TuiInv'
  <2>1. /\ Selected # None /\ review' = ReviewOf(d)
        /\ UNCHANGED <<sel, session, followed, opening>>
    BY <1>6 DEF KeyReview
  <2>2. FollowInv' /\ ReviewIsOfSeen'
    BY <1>1, <2>1, SelectionStays, ReviewIsMade
  <2> QED
    BY <1>1, <2>1, <2>2 DEF ClickInv, SeenInv
<1> QED
  BY <1>2, <1>3, <1>4, <1>5, <1>6 DEF Operator

\* What every step of the dashboard keeps.
LEMMA TuiInvStep == TuiInv /\ [TuiNext]_tuiVars => TuiInv'
<1> SUFFICES ASSUME TuiInv, [TuiNext]_tuiVars
             PROVE  TuiInv'
  OBVIOUS
<1> USE DEF TuiInv, SeqTypes, OpeningInv,
            inbox, loop, pending, pty, seen
<1>1. CASE Tick \/ Frame
  BY <1>1, LoopKeepsInv
<1>2. CASE Operator
  BY <1>2, OperatorKeepsInv
<1>3. CASE \/ StartupStep \/ Run \/ EndOfInput \/ TimeOut
           \/ TerminalFails \/ ChildWrites \/ ChildExits \/ UNCHANGED tuiVars
  <2>1. UNCHANGED <<shown, screen, sel, session, followed, opening, review, click>>
    BY <1>3 DEF StartupStep, Run, EndOfInput, TimeOut, TerminalFails,
                ChildWrites, ChildExits, tuiVars
  <2>2. \/ phase' = phase
        \/ phase = "startup" /\ phase' = "read"
        \/ phase = "batch" /\ phase' = "header"
        \/ phase = "poll" /\ phase' = "read"
        \/ phase' = "stopped"
    BY <1>3 DEF StartupStep, Run, EndOfInput, TimeOut, TerminalFails,
                ChildWrites, ChildExits, tuiVars
  <2>3. FollowInv' /\ ReviewIsOfSeen'
    BY <2>1, SelectionStays, ReviewStays
  <2>4. ClickInv' /\ SeenInv'
    BY <2>1, <2>2 DEF ClickInv, SeenInv
  <2> QED
    BY <2>1, <2>3, <2>4
<1> QED
  BY <1>1, <1>2, <1>3 DEF TuiNext

\* Every reachable state of the dashboard satisfies the invariant.
THEOREM TuiInvariant == TuiSpec => []TuiInv
BY TuiInvInit, TuiInvStep, PTL DEF TuiSpec

\* A review is about the issue the operator saw selected, and one decided in a session about the session's issue (app.rs:
\* queue_selected_issue_review, refresh_runtime_views_from_disk).
THEOREM ReviewsAreOfTheSeen == TuiSpec => []ReviewIsOfSeen
<1>1. TuiInv => ReviewIsOfSeen
  BY DEF TuiInv
<1> QED
  BY <1>1, TuiInvariant, PTL

\* A session is never replaced by another one (app.rs: start_interactive_session_for_issue).
THEOREM SessionsAreKept == TuiSpec => []NoSessionReplaced
<1>1. TuiInv => NoSessionReplaced
  BY DEF TuiInv, OpeningInv, NoSessionReplaced
<1> QED
  BY <1>1, TuiInvariant, PTL
=============================================================================

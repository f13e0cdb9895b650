------------------------------ MODULE AgentRun ------------------------------
(***************************************************************************)
(* How an agent of one root issue is started and what its run leaves       *)
(* behind (agents/, session_store.rs): the server's loop runs the          *)
(* orchestrator, one run after the other, and `githubclaw dispatch` runs a *)
(* worker beside it.  Both look up the agent's definition, write a prompt  *)
(* file, install the gh wrapper if it is not there, and start the agent,   *)
(* which reads the prompt and calls gh.  An orchestrator under codex tells *)
(* the id of its thread, which is stored and resumed by the next run.      *)
(*                                                                         *)
(* The event, its reservation and its settlement are in DrainLoop, the     *)
(* notes in the snapshot in Dispatch.                                      *)
(***************************************************************************)
EXTENDS Naturals, FiniteSets

CONSTANTS
  Loop,       \* the server's drain loop
  Worker,     \* calls of `githubclaw dispatch`
  Thread,     \* ids codex may give to a thread
  NoId,       \* no session id: no file, an empty file, or none told
  MaxFaults,  \* bound: processes that end early, operations that fail
  MaxEdits    \* bound: changes of the definition by a person

ASSUME AgentRunAssumption ==
  /\ Loop \notin Worker /\ NoId \notin Thread
  /\ MaxFaults \in Nat /\ MaxEdits \in Nat

Run == {Loop} \cup Worker

VARIABLES
  files,      \* the orchestrator's definition: repository, profile, built-in
  wrapper,    \* ~/.githubclaw/bin/gh: its text, and whether it can be executed
  sessionId,  \* the file session_id of the issue
  at,         \* what a run does next
  backend,    \* of the definition a run has loaded
  resume,     \* the session id a run has loaded
  wrapped,    \* the agent's PATH begins with the wrapper's directory
  prompt,     \* the prompt file of the current or last run is there
  agent,      \* the agent process a run waits for: "none", "started", "working" or "over"
  thread,     \* the thread id the agent told, if any
  orphans,    \* agents nobody waits for any more
  edits, faults,
  \* history
  threads,    \* the threads codex has started for the issue
  posted,     \* how an agent's last comment came out
  founding,   \* runs that found no wrapper, and so install it
  unaided,    \* runs whose own installation failed
  spoilt,     \* an installation failed, or was interrupted, after it had opened the file
  broken      \* runs whose last one was killed, stopped, or ended by exit

definition == <<files, edits>>
run == <<at, backend, resume, wrapped>>
process == <<agent, thread, threads, orphans>>
installs == <<founding, unaided, spoilt>>
vars == <<files, wrapper, sessionId, at, backend, resume, wrapped, prompt, agent, thread, orphans, edits, faults, threads, posted, founding, unaided, spoilt, broken>>

Layers == <<"repo", "profile", "builtin">>
Backends == {"codex", "claude-code"}
Contents == Backends \cup {"none", "malformed"}

Init ==
  /\ \E b \in {"none", "claude-code"} : files = [repo |-> "none", profile |-> "none", builtin |-> b]
  /\ wrapper = [text |-> "none", runs |-> FALSE]
  /\ sessionId = NoId
  /\ at = [r \in Run |-> "idle"] /\ backend = [r \in Run |-> "none"] /\ resume = [r \in Run |-> NoId]
  /\ wrapped = [r \in Run |-> FALSE] /\ prompt = [r \in Run |-> FALSE]
  /\ agent = [r \in Run |-> "none"] /\ thread = [r \in Run |-> NoId]
  /\ orphans = {} /\ edits = 0 /\ faults = 0
  /\ threads = {} /\ posted = {} /\ founding = {} /\ unaided = {} /\ spoilt = FALSE /\ broken = {}

GoTo(r, label) == at' = [at EXCEPT ![r] = label]
Fault == faults < MaxFaults /\ faults' = faults + 1
NoFault == UNCHANGED faults

-----------------------------------------------------------------------------
(* Definitions.                                                            *)

\* load_agent_definition: the first place that has a file decides, readable or not.
Definition ==
  LET found == {i \in 1 .. 3 : files[Layers[i]] # "none"}
  IN  IF found = {} THEN "none" ELSE files[Layers[CHOOSE i \in found : \A j \in found : i <= j]]

\* A person writes, changes or deletes a file; the built-in ones come with the program.
Edit(layer, content) ==
  /\ edits < MaxEdits /\ edits' = edits + 1
  /\ files' = [files EXCEPT ![layer] = content]
  /\ UNCHANGED <<wrapper, sessionId, run, prompt, process, faults, posted, installs, broken>>

\* `githubclaw init` writes the profile's file if there is none.  One that is cut short before the end of its header has no
\* header: all of it is instructions, for the default backend.
InitWrites ==
  /\ files["profile"] = "none"
  /\ \/ files' = [files EXCEPT !["profile"] = "claude-code"] /\ NoFault
     \/ files' = [files EXCEPT !["profile"] = "codex"] /\ Fault
  /\ UNCHANGED <<edits, wrapper, sessionId, run, prompt, process, posted, installs, broken>>

-----------------------------------------------------------------------------
(* The start of a run.                                                     *)

\* SessionStore::load: no file, or an empty one, is no session.  A worker has none.
Resumed(r) == IF r = Loop THEN sessionId ELSE NoId

\* The definition is loaded, and for the orchestrator the stored session id; an id that cannot be read is none (.ok().flatten()).
\* A run that finds no definition ends here: the loop comes back to its event, dispatch exits.  A worker has a definition of
\* its own.  Agents of earlier runs that nobody waits for may still be there.
Prepare(r) ==
  /\ at[r] = "idle"
  /\ \E b \in IF r = Loop THEN {Definition} \cap Backends ELSE Backends : backend' = [backend EXCEPT ![r] = b]
  /\ \/ resume' = [resume EXCEPT ![r] = Resumed(r)] /\ NoFault
     \/ r = Loop /\ resume' = [resume EXCEPT ![r] = NoId] /\ Fault
  /\ thread' = [thread EXCEPT ![r] = NoId]
  /\ wrapped' = [wrapped EXCEPT ![r] = FALSE]
  /\ prompt' = [prompt EXCEPT ![r] = FALSE]
  /\ founding' = founding \ {r} /\ unaided' = unaided \ {r} /\ broken' = broken \ {r}
  /\ GoTo(r, "defined")
  /\ UNCHANGED <<definition, wrapper, sessionId, agent, orphans, threads, posted, spoilt>>

\* assemble: the prompt goes to a new file.
Assemble(r) ==
  /\ at[r] = "defined"
  /\ prompt' = [prompt EXCEPT ![r] = TRUE]
  /\ GoTo(r, "assembled") /\ NoFault
  /\ UNCHANGED <<definition, wrapper, sessionId, backend, resume, wrapped, process, posted, installs, broken>>

\* The file cannot be created, or its text not written: then it is left.
AssembleFails(r) ==
  /\ at[r] = "defined" /\ Fault
  /\ prompt' \in {prompt, [prompt EXCEPT ![r] = TRUE]}
  /\ broken' = broken \cup {r}
  /\ GoTo(r, "idle")
  /\ UNCHANGED <<definition, wrapper, sessionId, backend, resume, wrapped, process, posted, installs>>

Installs == {"installing", "opened", "written"}

Finds(r) == founding' = IF wrapper.text = "none" THEN founding \cup {r} ELSE founding

\* Mutation of FindWrapper: the wrapper is written anew for every agent.
FindNoWrapper(r) ==
  /\ at[r] = "assembled"
  /\ GoTo(r, "installing") /\ UNCHANGED wrapped
  /\ Finds(r) /\ NoFault
  /\ UNCHANGED <<definition, wrapper, sessionId, backend, resume, prompt, process, posted, unaided, spoilt, broken>>

\* gh_wrapper_dir: a wrapper that is there is taken as it is.
FindWrapper(r) ==
  /\ at[r] = "assembled"
  /\ IF wrapper.text = "none"
     THEN GoTo(r, "installing") /\ UNCHANGED wrapped
     ELSE GoTo(r, "ready") /\ wrapped' = [wrapped EXCEPT ![r] = TRUE]
  /\ Finds(r) /\ NoFault
  /\ UNCHANGED <<definition, wrapper, sessionId, backend, resume, prompt, process, posted, unaided, spoilt, broken>>

\* fs::write creates or empties the file and writes it; then its mode is set.
OpenWrapper(r) ==
  /\ at[r] = "installing"
  /\ wrapper' = [wrapper EXCEPT !.text = "empty"]
  /\ GoTo(r, "opened") /\ NoFault
  /\ UNCHANGED <<definition, sessionId, backend, resume, wrapped, prompt, process, posted, installs, broken>>

WriteWrapper(r) ==
  /\ at[r] = "opened"
  /\ wrapper' = [wrapper EXCEPT !.text = "whole"]
  /\ GoTo(r, "written") /\ NoFault
  /\ UNCHANGED <<definition, sessionId, backend, resume, wrapped, prompt, process, posted, installs, broken>>

MakeExecutable(r) ==
  /\ at[r] = "written"
  /\ \/ wrapper' = [wrapper EXCEPT !.runs = TRUE] /\ UNCHANGED spoilt /\ NoFault
     \/ UNCHANGED wrapper /\ spoilt' = TRUE /\ Fault
  /\ wrapped' = [wrapped EXCEPT ![r] = TRUE]
  /\ GoTo(r, "ready")
  /\ UNCHANGED <<definition, sessionId, backend, resume, prompt, process, posted, founding, unaided, broken>>

\* A write fails: the agent runs without the wrapper, and what has been written of it is left.
InstallFails(r) ==
  /\ at[r] \in {"installing", "opened"} /\ Fault
  /\ GoTo(r, "ready")
  /\ unaided' = unaided \cup {r} /\ spoilt' = (spoilt \/ at[r] = "opened")
  /\ UNCHANGED <<definition, wrapper, sessionId, backend, resume, wrapped, prompt, process, posted, founding, broken>>

Spawn(r) ==
  /\ at[r] = "ready"
  /\ agent' = [agent EXCEPT ![r] = "started"]
  /\ GoTo(r, "running") /\ NoFault
  /\ UNCHANGED <<definition, wrapper, sessionId, backend, resume, wrapped, prompt, thread, threads, orphans, posted, installs, broken>>

\* The loop goes on and drops the prompt; dispatch exits and leaves it.
SpawnFails(r) ==
  /\ at[r] = "ready" /\ Fault
  /\ IF r = Loop THEN prompt' = [prompt EXCEPT ![r] = FALSE] /\ UNCHANGED broken
     ELSE UNCHANGED prompt /\ broken' = broken \cup {r}
  /\ GoTo(r, "idle")
  /\ UNCHANGED <<definition, wrapper, sessionId, backend, resume, wrapped, process, posted, installs>>

-----------------------------------------------------------------------------
(* The agent.                                                              *)

\* The command line: an orchestrator under codex resumes the id it is given, and starts a thread without one.
Told(orchestrates, id) ==
  IF ~orchestrates THEN {NoId} ELSE {NoId} \cup (IF id = NoId THEN Thread \ threads ELSE {id})

Orchestrates(r) == r = Loop /\ backend[r] = "codex"

\* The agent reads the prompt and tells its thread, or nothing if it fails at once.
AgentReads(r) ==
  /\ agent[r] = "started"
  /\ agent' = [agent EXCEPT ![r] = "working"]
  /\ \E t \in Told(Orchestrates(r), resume[r]) : thread' = [thread EXCEPT ![r] = t] /\ threads' = threads \cup ({t} \ {NoId})
  /\ UNCHANGED <<definition, wrapper, sessionId, run, prompt, orphans, faults, posted, installs, broken>>

\* It ends, as its run sees.
AgentEnds(r) ==
  /\ agent[r] = "working"
  /\ agent' = [agent EXCEPT ![r] = "over"]
  /\ UNCHANGED <<definition, wrapper, sessionId, run, prompt, thread, threads, orphans, faults, posted, installs, broken>>

\* The agent of a run that stops waiting for it goes on without it.
Orphaned(r, cut, hasPrompt) ==
  IF agent[r] \notin {"started", "working"} THEN {}
  ELSE {[since |-> faults, cut |-> cut, prompt |-> hasPrompt, does |-> agent[r], orchestrates |-> Orchestrates(r),
         resume |-> resume[r], wrapped |-> wrapped[r], unaided |-> r \in unaided]}

Leaves(r, cut, hasPrompt) ==
  /\ orphans' = orphans \cup Orphaned(r, cut, hasPrompt)
  /\ agent' = [agent EXCEPT ![r] = "none"]

\* It reads its prompt; what it tells nobody hears.
OrphanReads(o) ==
  /\ o.does = "started"
  /\ orphans' = (orphans \ {o}) \cup {[o EXCEPT !.does = "working"]}
  /\ \E t \in Told(o.orchestrates, o.resume) : threads' = threads \cup ({t} \ {NoId})
  /\ UNCHANGED <<definition, wrapper, sessionId, run, prompt, agent, thread, faults, posted, installs, broken>>

OrphanEnds(o) ==
  /\ o.does = "working"
  /\ orphans' = orphans \ {o}
  /\ UNCHANGED <<definition, wrapper, sessionId, run, prompt, agent, thread, threads, faults, posted, installs, broken>>

\* The ways to give gh a text: with an argument --body of its own, or any other (-b, --body=, --body-file, gh api).
Forms == {"body", "other"}

\* A wrapper that cannot be executed is passed over; one without its text does nothing; a whole one looks for --body only.
Outcome(usesWrapper, form) ==
  IF ~usesWrapper \/ ~wrapper.runs THEN "bare"
  ELSE IF wrapper.text # "whole" THEN "swallowed"
  ELSE IF form = "body" THEN "referenced" ELSE "bare"

\* The wrapper's own troubles: its installation failed for this agent, was spoilt, or is under way for the first time.
Troubled(alone) == alone \/ spoilt \/ \E r \in founding : at[r] \in Installs

\* An agent, waited for or not, comments with gh.
Comments(usesWrapper, alone) ==
  /\ \E form \in Forms :
       posted' = {[form |-> form, outcome |-> Outcome(usesWrapper, form), troubled |-> Troubled(alone)]}
  /\ UNCHANGED <<definition, wrapper, sessionId, run, prompt, process, faults, installs, broken>>

AgentComments(r) == agent[r] = "working" /\ Comments(wrapped[r], r \in unaided)
OrphanComments(o) == o.does = "working" /\ Comments(o.wrapped, o.unaided)

-----------------------------------------------------------------------------
(* The end of a run.                                                       *)

Saves(r) == Orchestrates(r) /\ thread[r] # NoId

\* Mutation of RunEnds: what the agent told is kept only after a success.
RunEndsBySuccess(r) ==
  /\ at[r] = "running" /\ agent[r] = "over" /\ NoFault
  /\ agent' = [agent EXCEPT ![r] = "none"]
  /\ GoTo(r, IF Saves(r) THEN "saving" ELSE "settling") \/ GoTo(r, "settling")
  /\ UNCHANGED <<definition, wrapper, sessionId, backend, resume, wrapped, prompt, thread, threads, orphans, posted, installs, broken>>

\* The agent has ended, with any exit code, and what it told is read.
RunEnds(r) ==
  /\ at[r] = "running" /\ agent[r] = "over" /\ NoFault
  /\ agent' = [agent EXCEPT ![r] = "none"]
  /\ GoTo(r, IF Saves(r) THEN "saving" ELSE "settling")
  /\ UNCHANGED <<definition, wrapper, sessionId, backend, resume, wrapped, prompt, thread, threads, orphans, posted, installs, broken>>

\* Waiting fails, whether the agent has ended or not; nobody ends it.  What it told is not seen.  The loop settles the event and
\* drops the prompt; dispatch exits, and leaves it.
WaitFails(r) ==
  /\ at[r] = "running" /\ Fault
  /\ Leaves(r, "unwaited", prompt[r] /\ r # Loop)
  /\ IF r = Loop THEN GoTo(r, "settling") /\ UNCHANGED broken ELSE GoTo(r, "idle") /\ broken' = broken \cup {r}
  /\ UNCHANGED <<definition, wrapper, sessionId, backend, resume, wrapped, prompt, thread, threads, posted, installs>>

\* The id is written in place: the file is emptied first.
SaveOpens(r) ==
  /\ at[r] = "saving"
  /\ sessionId' = NoId
  /\ GoTo(r, "opening") /\ NoFault
  /\ UNCHANGED <<definition, wrapper, backend, resume, wrapped, prompt, process, posted, installs, broken>>

SaveWrites(r) ==
  /\ at[r] = "opening"
  /\ \/ sessionId' = thread[r] /\ NoFault
     \/ UNCHANGED sessionId /\ Fault
  /\ GoTo(r, "settling")
  /\ UNCHANGED <<definition, wrapper, backend, resume, wrapped, prompt, process, posted, installs, broken>>

\* Mutation of Finish: dispatch exits after a success, too.
FinishByExit(r) ==
  /\ at[r] = "settling" /\ NoFault
  /\ prompt' = [prompt EXCEPT ![r] = @ /\ r # Loop]
  /\ GoTo(r, "idle")
  /\ UNCHANGED broken
  /\ UNCHANGED <<definition, wrapper, sessionId, backend, resume, wrapped, process, posted, installs>>

\* The prompt is dropped with the assembler.  dispatch exits with the code of an agent that failed, and leaves it.
Finish(r) ==
  /\ at[r] = "settling" /\ NoFault
  /\ GoTo(r, "idle")
  /\ \/ prompt' = [prompt EXCEPT ![r] = FALSE] /\ UNCHANGED broken
     \/ r # Loop /\ broken' = broken \cup {r} /\ UNCHANGED prompt
  /\ UNCHANGED <<definition, wrapper, sessionId, backend, resume, wrapped, process, posted, installs>>

\* The process is killed; its agent goes on.  A new server starts with an idle loop.
Kill(r) ==
  /\ Fault
  /\ GoTo(r, "idle")
  /\ spoilt' = (spoilt \/ at[r] \in {"opened", "written"})
  /\ broken' = broken \cup {r}
  /\ Leaves(r, "killed", prompt[r])
  /\ UNCHANGED <<definition, wrapper, sessionId, backend, resume, wrapped, prompt, thread, threads, posted, founding, unaided>>

\* The server stops: the loop is dropped where it waits, and its prompt with it.
Stop ==
  /\ at[Loop] \in {"running", "settling"} /\ Fault
  /\ GoTo(Loop, "idle")
  /\ prompt' = [prompt EXCEPT ![Loop] = FALSE]
  /\ broken' = broken \cup {Loop}
  /\ Leaves(Loop, "stopped", FALSE)
  /\ UNCHANGED <<definition, wrapper, sessionId, backend, resume, wrapped, thread, threads, posted, installs>>

-----------------------------------------------------------------------------
Starts(r) == Prepare(r) \/ Assemble(r) \/ FindWrapper(r) \/ OpenWrapper(r) \/ WriteWrapper(r) \/ MakeExecutable(r) \/ Spawn(r)
Agents(r) == AgentReads(r) \/ AgentComments(r) \/ AgentEnds(r)
Orphans(o) == OrphanReads(o) \/ OrphanComments(o) \/ OrphanEnds(o)
Finishes(r) == RunEnds(r) \/ SaveOpens(r) \/ SaveWrites(r) \/ Finish(r)
Fails(r) == AssembleFails(r) \/ InstallFails(r) \/ SpawnFails(r) \/ WaitFails(r) \/ Kill(r)

Next ==
  \/ \E r \in Run : Starts(r) \/ Agents(r) \/ Finishes(r) \/ Fails(r)
  \/ \E o \in orphans : Orphans(o)
  \/ \E l \in {"repo", "profile"}, c \in Contents : Edit(l, c)
  \/ InitWrites \/ Stop

Spec == Init /\ [][Next]_vars

-----------------------------------------------------------------------------
(* Properties.                                                             *)

\* The orchestrators of an issue work in one thread under codex: another one is started only after a process ended early or an
\* operation failed, whatever the runs' exit codes are and whatever becomes of the definition in between.
ThreadNeedsLoss == Cardinality(threads) <= 1 + faults

\* An agent that is waited for finds its prompt, however late it reads it, and so does one whose run was killed; one that outlives
\* the server's stop or a failed wait may not.  No prompt file is left, unless the process that wrote it was killed or stopped,
\* or was a dispatch that exited over an error or a failed agent (its destructors do not run).
PromptFollowsRun ==
  /\ \A r \in Run : agent[r] = "started" => prompt[r]
  /\ \A o \in orphans : o.does = "started" /\ o.cut = "killed" => o.prompt
  /\ \A r \in Run \ broken : at[r] = "idle" => ~prompt[r]

\* A text an agent gives gh with --body goes out with the reference the router goes by, unless the wrapper's installation failed
\* for that agent, failed or was interrupted half-way at some time (nobody repairs it), or is under way for the first time.
\* Texts given in any other way go out as they are.
CommentsAreReferenced == \A c \in posted : c.form = "body" /\ ~c.troubled => c.outcome = "referenced"
=============================================================================

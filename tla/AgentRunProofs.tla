--------------------------- MODULE AgentRunProofs ---------------------------
(***************************************************************************)
(* The properties of AgentRun, for any number of dispatches, thread ids,   *)
(* failures and edits.                                                     *)
(***************************************************************************)
EXTENDS AgentRun, FiniteSetTheorems, TLAPS

Before == {"defined", "assembled", "ready"} \cup Installs
After == {"saving", "opening", "settling"}

Orphan == [since : Nat, cut : {"killed", "stopped", "unwaited"}, prompt : BOOLEAN, does : {"started", "working"},
           orchestrates : BOOLEAN, resume : Thread \cup {NoId}, wrapped : BOOLEAN, unaided : BOOLEAN]

\* The types of the variables the proofs speak of.
AgentTypes ==
  /\ wrapper \in [text : {"none", "empty", "whole"}, runs : BOOLEAN]
  /\ sessionId \in Thread \cup {NoId}
  /\ at \in [Run -> {"idle", "running"} \cup Before \cup After]
  /\ backend \in [Run -> Contents]
  /\ resume \in [Run -> Thread \cup {NoId}]
  /\ wrapped \in [Run -> BOOLEAN] /\ prompt \in [Run -> BOOLEAN]
  /\ agent \in [Run -> {"none", "started", "working", "over"}]
  /\ thread \in [Run -> Thread \cup {NoId}]
  /\ orphans \subseteq Orphan
  /\ faults \in Nat /\ spoilt \in BOOLEAN
  /\ founding \subseteq Run /\ unaided \subseteq Run /\ broken \subseteq Run

\* A run has its agent while it waits for it, and its prompt from Assemble to Finish; a run that was cut short is over.
PromptInv ==
  /\ \A r \in Run : agent[r] # "none" => at[r] = "running"
  /\ \A r \in broken : at[r] = "idle"
  /\ \A r \in Run \ broken : prompt[r] <=> at[r] \notin {"idle", "defined"}
  /\ \A o \in orphans : o.cut = "killed" => o.prompt

\* Whoever uses the wrapper has found or written one.  Unless it is spoilt, it is whole and can be executed, or somebody is at
\* the step that will make it so.
WrapperInv ==
  /\ \A r \in Run : at[r] \in Installs => r \in founding
  /\ \A r \in Run : at[r] \in {"ready", "running"} => wrapped[r] \/ r \in unaided
  /\ \A r \in Run : wrapped[r] => wrapper.text # "none"
  /\ \A o \in orphans : (o.wrapped \/ o.unaided) /\ (o.wrapped => wrapper.text # "none")
  /\ \A r \in Run : at[r] \in {"opened", "written"} => wrapper.text # "none"
  /\ ~spoilt /\ wrapper.text = "empty" => \E r \in Run : at[r] = "opened"
  /\ ~spoilt /\ wrapper.text = "whole" /\ ~wrapper.runs => \E r \in Run : at[r] \in {"opened", "written"}
  /\ CommentsAreReferenced

\* The id of the issue's thread is on disk, or known to the run that is about to write it.
Retained == sessionId # NoId \/ (thread[Loop] # NoId /\ at[Loop] \in {"running", "saving", "opening"})

\* The loop's agent has yet to read its prompt, and has no thread to resume.
MayStart == (at[Loop] \in Before \/ agent[Loop] = "started") /\ resume[Loop] = NoId

\* Neither have these, which nobody waits for.
Pending == {o \in orphans : o.does = "started" /\ o.orchestrates /\ o.resume = NoId}

\* The threads there are and those that orphans may yet start.
Claims == Cardinality(threads) + Cardinality(Pending)

\* Every orphan goes back to a failure of its own, and resumes a thread of the issue, or none.
Owed == \A o \in orphans : o.since < faults /\ (o.orchestrates => o.resume \in threads \cup {NoId})

\* An id is lost, an orphan left and a stored id not read only by a fault, and a thread is started only when none is known.
ThreadInv ==
  /\ IsFiniteSet(threads) /\ threads \subseteq Thread /\ IsFiniteSet(Pending)
  /\ Claims \in Nat /\ Claims <= 1 + faults
  /\ ~Retained => Claims <= faults
  /\ MayStart => Claims <= faults
  /\ sessionId # NoId => sessionId \in threads
  /\ thread[Loop] # NoId => thread[Loop] \in threads /\ backend[Loop] = "codex"
  /\ at[Loop] \in Before \/ agent[Loop] = "started" => thread[Loop] = NoId
  /\ at[Loop] \in Before \cup {"running"} => resume[Loop] \in threads \cup {NoId}
  /\ at[Loop] \in {"saving", "opening"} => thread[Loop] # NoId
  /\ agent[Loop] # "none" => at[Loop] = "running"
  /\ \A w \in Worker : at[w] \notin {"saving", "opening"}
  /\ Owed

AgentRunInv == AgentTypes /\ PromptInv /\ WrapperInv /\ ThreadInv

-----------------------------------------------------------------------------
\* The initial state satisfies the invariant.
LEMMA InvariantInit == Init => AgentRunInv
<1> SUFFICES ASSUME Init PROVE AgentRunInv
  OBVIOUS
<1>1. AgentTypes
  BY DEF Init, AgentTypes, Contents
<1>2. PromptInv /\ WrapperInv
  BY DEF Init, PromptInv, WrapperInv, Installs, CommentsAreReferenced
<1>3. ThreadInv
  <2>1. Pending = {}
    BY DEF Init, Pending
  <2> QED
    BY <1>1, <2>1, FS_EmptySet, AgentRunAssumption
    DEF Init, ThreadInv, Claims, Owed, MayStart, Retained, Before, After, Installs, Run, AgentTypes
<1> QED
  BY <1>1, <1>2, <1>3 DEF AgentRunInv

\* What a run leaves when it stops waiting is an orphan, or nothing.
LEMMA OrphanedTypes ==
  ASSUME AgentTypes, NEW r \in Run, NEW cut \in {"killed", "stopped", "unwaited"}, NEW p \in BOOLEAN, Leaves(r, cut, p)
  PROVE  orphans' \subseteq Orphan /\ agent' \in [Run -> {"none", "started", "working", "over"}]
<1>1. agent[r] \in {"started", "working"} =>
        [since |-> faults, cut |-> cut, prompt |-> p, does |-> agent[r], orchestrates |-> Orchestrates(r),
         resume |-> resume[r], wrapped |-> wrapped[r], unaided |-> r \in unaided] \in Orphan
  BY DEF AgentTypes, Orphan, Orchestrates
<1>2. Orphaned(r, cut, p) \subseteq Orphan
  BY <1>1 DEF Orphaned
<1> QED
  BY <1>2 DEF Leaves, AgentTypes

\* What it leaves has what the run had.
LEMMA OrphanedHas ==
  ASSUME NEW r \in Run, NEW cut, NEW p, Leaves(r, cut, p)
  PROVE  \A o \in orphans' : \/ o \in orphans
                             \/ /\ agent[r] \in {"started", "working"} /\ o.cut = cut /\ o.prompt = p
                                /\ o.wrapped = wrapped[r] /\ o.unaided = (r \in unaided)
  BY DEF Leaves, Orphaned

\* An orphan has the wrapper, or could not install it, as its run.
LEMMA OrphanedWrapped ==
  ASSUME NEW r \in Run, NEW cut, NEW p, Leaves(r, cut, p),
         \A o \in orphans : (o.wrapped \/ o.unaided) /\ (o.wrapped => wrapper.text # "none"),
         agent[r] \in {"started", "working"} => (wrapped[r] \/ r \in unaided) /\ (wrapped[r] => wrapper.text # "none")
  PROVE  \A o \in orphans' : (o.wrapped \/ o.unaided) /\ (o.wrapped => wrapper.text # "none")
<1> SUFFICES ASSUME NEW o \in orphans' PROVE (o.wrapped \/ o.unaided) /\ (o.wrapped => wrapper.text # "none")
  OBVIOUS
<1>1. CASE o \in orphans
  BY <1>1
<1>2. CASE o \notin orphans
  <2>1. agent[r] \in {"started", "working"} /\ o.wrapped = wrapped[r] /\ o.unaided = (r \in unaided)
    BY <1>2 DEF Leaves, Orphaned
  <2> QED
    BY <2>1
<1> QED
  BY <1>1, <1>2

\* An orphan that reads or ends stays what it is otherwise.
LEMMA OrphanMoves ==
  ASSUME AgentTypes, NEW o \in orphans, OrphanReads(o) \/ OrphanEnds(o)
  PROVE  \A q \in orphans' : \E u \in orphans :
           /\ q.cut = u.cut /\ q.prompt = u.prompt /\ q.wrapped = u.wrapped /\ q.unaided = u.unaided
           /\ q.since = u.since /\ q.orchestrates = u.orchestrates /\ q.resume = u.resume
<1>1. PICK n : n = [o EXCEPT !.does = "working"]
  OBVIOUS
<1>2. /\ n.cut = o.cut /\ n.prompt = o.prompt /\ n.wrapped = o.wrapped /\ n.unaided = o.unaided
      /\ n.since = o.since /\ n.orchestrates = o.orchestrates /\ n.resume = o.resume
  BY <1>1 DEF AgentTypes, Orphan
<1>3. orphans' \subseteq orphans \cup {n}
  BY <1>1 DEF OrphanReads, OrphanEnds
<1> QED
  BY <1>2, <1>3

\* Every step keeps the types.
LEMMA TypesStep ==
  ASSUME AgentTypes, [Next]_vars
  PROVE  AgentTypes'
<1> USE AgentRunAssumption DEF AgentTypes, Before, After, Installs, Contents, Backends, Run, definition, run, process, installs, GoTo, Fault, NoFault
<1>1. ASSUME NEW r \in Run, Prepare(r) PROVE AgentTypes'
  <2>1. PICK b \in IF r = Loop THEN {Definition} \cap Backends ELSE Backends : backend' = [backend EXCEPT ![r] = b]
    BY <1>1 DEF Prepare
  <2>2. b \in Contents
    BY <2>1
  <2>3. backend' \in [Run -> Contents]
    BY <2>1, <2>2
  <2>4. resume' \in [Run -> Thread \cup {NoId}] /\ faults' \in Nat
    <3>1. \/ resume' = [resume EXCEPT ![r] = Resumed(r)] /\ faults' = faults
          \/ resume' = [resume EXCEPT ![r] = NoId] /\ faults' = faults + 1
      BY <1>1 DEF Prepare
    <3> QED
      BY <3>1 DEF Resumed
  <2>5. UNCHANGED <<wrapper, sessionId, agent, orphans, spoilt>>
    BY <1>1 DEF Prepare
  <2> QED
    BY <1>1, <2>3, <2>4, <2>5 DEF Prepare
<1>2. ASSUME NEW r \in Run, Assemble(r) PROVE AgentTypes'
  BY <1>2 DEF Assemble
<1>3. ASSUME NEW r \in Run, FindWrapper(r) PROVE AgentTypes'
  BY <1>3 DEF FindWrapper, Finds
<1>4. ASSUME NEW r \in Run, OpenWrapper(r) PROVE AgentTypes'
  BY <1>4 DEF OpenWrapper
<1>5. ASSUME NEW r \in Run, WriteWrapper(r) PROVE AgentTypes'
  BY <1>5 DEF WriteWrapper
<1>6. ASSUME NEW r \in Run, MakeExecutable(r) PROVE AgentTypes'
  <2>1. wrapper' \in {wrapper, [wrapper EXCEPT !.runs = TRUE]} /\ faults' \in {faults, faults + 1}
    BY <1>6 DEF MakeExecutable
  <2>2. [wrapper EXCEPT !.runs = TRUE] \in [text : {"none", "empty", "whole"}, runs : BOOLEAN]
    OBVIOUS
  <2>3. wrapper' \in [text : {"none", "empty", "whole"}, runs : BOOLEAN]
    BY <2>1, <2>2
  <2>4. wrapped' \in [Run -> BOOLEAN] /\ at' \in [Run -> {"idle", "running"} \cup Before \cup After] /\ spoilt' \in BOOLEAN
    BY <1>6 DEF MakeExecutable
  <2>5. faults' \in Nat
    BY <2>1
  <2> QED
    BY <1>6, <2>3, <2>4, <2>5 DEF MakeExecutable
<1>7. ASSUME NEW r \in Run, Spawn(r) PROVE AgentTypes'
  BY <1>7 DEF Spawn
<1>8. ASSUME NEW r \in Run, AgentReads(r) PROVE AgentTypes'
  <2>1. PICK t \in Told(Orchestrates(r), resume[r]) : thread' = [thread EXCEPT ![r] = t]
    BY <1>8 DEF AgentReads
  <2>2. t \in Thread \cup {NoId}
    BY <2>1 DEF Told, Orchestrates
  <2> QED
    BY <1>8, <2>1, <2>2 DEF AgentReads
<1>9. ASSUME NEW r \in Run, AgentComments(r) PROVE AgentTypes'
  BY <1>9 DEF AgentComments, Comments
<1>10. ASSUME NEW r \in Run, AgentEnds(r) PROVE AgentTypes'
  BY <1>10 DEF AgentEnds
<1>11. ASSUME NEW r \in Run, RunEnds(r) PROVE AgentTypes'
  BY <1>11 DEF RunEnds
<1>12. ASSUME NEW r \in Run, SaveOpens(r) PROVE AgentTypes'
  BY <1>12 DEF SaveOpens
<1>13. ASSUME NEW r \in Run, SaveWrites(r) PROVE AgentTypes'
  BY <1>13 DEF SaveWrites
<1>14. ASSUME NEW r \in Run, Finish(r) PROVE AgentTypes'
  BY <1>14 DEF Finish
<1>15. ASSUME NEW r \in Run, AssembleFails(r) PROVE AgentTypes'
  <2>1. wrapper' \in [text : {"none", "empty", "whole"}, runs : BOOLEAN] /\ faults' \in Nat
    BY <1>15 DEF AssembleFails
  <2>2. prompt' \in [Run -> BOOLEAN] /\ wrapped' \in [Run -> BOOLEAN]
    BY <1>15 DEF AssembleFails
  <2>3. broken' \subseteq Run /\ at' \in [Run -> {"idle", "running"} \cup Before \cup After]
    BY <1>15 DEF AssembleFails
  <2> QED
    BY <1>15, <2>1, <2>2, <2>3 DEF AssembleFails
<1>16. ASSUME NEW r \in Run, InstallFails(r) PROVE AgentTypes'
  BY <1>16 DEF InstallFails
<1>17. ASSUME NEW r \in Run, SpawnFails(r) PROVE AgentTypes'
  <2>1. wrapper' \in [text : {"none", "empty", "whole"}, runs : BOOLEAN] /\ faults' \in Nat
    BY <1>17 DEF SpawnFails
  <2>2. prompt' \in [Run -> BOOLEAN] /\ wrapped' \in [Run -> BOOLEAN]
    BY <1>17 DEF SpawnFails
  <2>3. broken' \subseteq Run /\ at' \in [Run -> {"idle", "running"} \cup Before \cup After]
    BY <1>17 DEF SpawnFails
  <2> QED
    BY <1>17, <2>1, <2>2, <2>3 DEF SpawnFails
<1>18. ASSUME NEW r \in Run, Kill(r) PROVE AgentTypes'
  <2>1. orphans' \subseteq Orphan /\ agent' \in [Run -> {"none", "started", "working", "over"}]
    BY <1>18, OrphanedTypes DEF Kill
  <2> QED
    BY <1>18, <2>1 DEF Kill
<1>19. ASSUME NEW l \in {"repo", "profile"}, NEW c \in Contents, Edit(l, c) PROVE AgentTypes'
  BY <1>19 DEF Edit
<1>20. CASE InitWrites
  BY <1>20 DEF InitWrites
<1>21. CASE Stop
  <2>1. orphans' \subseteq Orphan /\ agent' \in [Run -> {"none", "started", "working", "over"}]
    BY <1>21, OrphanedTypes DEF Stop
  <2> QED
    BY <1>21, <2>1 DEF Stop
<1>22. CASE UNCHANGED vars
  BY <1>22 DEF vars
<1>23. ASSUME NEW r \in Run, WaitFails(r) PROVE AgentTypes'
  <2>1. orphans' \subseteq Orphan /\ agent' \in [Run -> {"none", "started", "working", "over"}]
    BY <1>23, OrphanedTypes DEF WaitFails
  <2>2. at' \in [Run -> {"idle", "running"} \cup Before \cup After] /\ broken' \subseteq Run
    BY <1>23 DEF WaitFails
  <2> QED
    BY <1>23, <2>1, <2>2 DEF WaitFails
<1>24. ASSUME NEW o \in orphans, OrphanReads(o) \/ OrphanEnds(o) PROVE AgentTypes'
  <2>1. [o EXCEPT !.does = "working"] \in Orphan
    BY DEF Orphan
  <2>2. orphans' \subseteq Orphan
    BY <1>24, <2>1 DEF OrphanReads, OrphanEnds
  <2> QED
    BY <1>24, <2>2 DEF OrphanReads, OrphanEnds
<1>25. ASSUME NEW w, NEW a, Comments(w, a) PROVE AgentTypes'
  BY <1>25 DEF Comments
<1> QED
  BY <1>1, <1>2, <1>3, <1>4, <1>5, <1>6, <1>7, <1>8, <1>9, <1>10, <1>11, <1>12, <1>13, <1>14, <1>15, <1>16, <1>17, <1>18, <1>19, <1>20, <1>21, <1>22, <1>23, <1>24, <1>25 DEF Next, Starts, Agents, Orphans, Finishes, Fails, OrphanComments

\* Every step keeps the prompts with their runs.
LEMMA PromptStep ==
  ASSUME AgentTypes, PromptInv, [Next]_vars
  PROVE  PromptInv'
<1> USE AgentRunAssumption DEF AgentTypes, PromptInv, Installs, Before, After, definition, run, process, installs, GoTo, Fault, NoFault
<1>1. ASSUME NEW r \in Run, Prepare(r) PROVE PromptInv'
  BY <1>1 DEF Prepare
<1>2. ASSUME NEW r \in Run, Assemble(r) PROVE PromptInv'
  BY <1>2 DEF Assemble
<1>3. ASSUME NEW r \in Run, FindWrapper(r) PROVE PromptInv'
  BY <1>3 DEF FindWrapper
<1>4. ASSUME NEW r \in Run, OpenWrapper(r) PROVE PromptInv'
  BY <1>4 DEF OpenWrapper
<1>5. ASSUME NEW r \in Run, WriteWrapper(r) PROVE PromptInv'
  BY <1>5 DEF WriteWrapper
<1>6. ASSUME NEW r \in Run, MakeExecutable(r) PROVE PromptInv'
  BY <1>6 DEF MakeExecutable
<1>7. ASSUME NEW r \in Run, Spawn(r) PROVE PromptInv'
  BY <1>7 DEF Spawn
<1>8. ASSUME NEW r \in Run, AgentReads(r) PROVE PromptInv'
  BY <1>8 DEF AgentReads
<1>9. ASSUME NEW r \in Run, AgentComments(r) PROVE PromptInv'
  BY <1>9 DEF AgentComments, Comments
<1>10. ASSUME NEW r \in Run, AgentEnds(r) PROVE PromptInv'
  BY <1>10 DEF AgentEnds
<1>11. ASSUME NEW r \in Run, RunEnds(r) PROVE PromptInv'
  BY <1>11 DEF RunEnds
<1>12. ASSUME NEW r \in Run, SaveOpens(r) PROVE PromptInv'
  BY <1>12 DEF SaveOpens
<1>13. ASSUME NEW r \in Run, SaveWrites(r) PROVE PromptInv'
  BY <1>13 DEF SaveWrites
<1>14. ASSUME NEW r \in Run, Finish(r) PROVE PromptInv'
  BY <1>14 DEF Finish
<1>15. ASSUME NEW r \in Run, AssembleFails(r) PROVE PromptInv'
  BY <1>15 DEF AssembleFails
<1>16. ASSUME NEW r \in Run, InstallFails(r) PROVE PromptInv'
  BY <1>16 DEF InstallFails
<1>17. ASSUME NEW r \in Run, SpawnFails(r) PROVE PromptInv'
  BY <1>17 DEF SpawnFails
<1>18. ASSUME NEW r \in Run, Kill(r) PROVE PromptInv'
  <2>1. \A o \in orphans' : \/ o \in orphans
                            \/ /\ agent[r] \in {"started", "working"} /\ o.cut = "killed" /\ o.prompt = prompt[r]
                               /\ o.wrapped = wrapped[r] /\ o.unaided = (r \in unaided)
    BY <1>18, OrphanedHas DEF Kill
  <2> QED
    BY <1>18, <2>1 DEF Kill, Leaves
<1>19. ASSUME NEW l \in {"repo", "profile"}, NEW c \in Contents, Edit(l, c) PROVE PromptInv'
  BY <1>19 DEF Edit
<1>20. CASE InitWrites
  BY <1>20 DEF InitWrites
<1>21. CASE Stop
  <2>1. \A o \in orphans' : \/ o \in orphans
                            \/ /\ agent[Loop] \in {"started", "working"} /\ o.cut = "stopped" /\ o.prompt = FALSE
                               /\ o.wrapped = wrapped[Loop] /\ o.unaided = (Loop \in unaided)
    BY <1>21, OrphanedHas DEF Stop, Run
  <2> QED
    BY <1>21, <2>1 DEF Stop, Leaves, Run
<1>22. CASE UNCHANGED vars
  BY <1>22 DEF vars
<1>23. ASSUME NEW r \in Run, WaitFails(r) PROVE PromptInv'
  <2>1. \A o \in orphans' : \/ o \in orphans
                            \/ /\ agent[r] \in {"started", "working"} /\ o.cut = "unwaited" /\ o.prompt = (prompt[r] /\ r # Loop)
                               /\ o.wrapped = wrapped[r] /\ o.unaided = (r \in unaided)
    BY <1>23, OrphanedHas DEF WaitFails
  <2>2. at' \in {[at EXCEPT ![r] = "settling"], [at EXCEPT ![r] = "idle"]}
    BY <1>23 DEF WaitFails
  <2> QED
    BY <1>23, <2>1, <2>2 DEF WaitFails, Leaves
<1>24. ASSUME NEW o \in orphans, OrphanReads(o) \/ OrphanEnds(o) PROVE PromptInv'
  BY <1>24, OrphanMoves DEF OrphanReads, OrphanEnds
<1>25. ASSUME NEW w, NEW a, Comments(w, a) PROVE PromptInv'
  BY <1>25 DEF Comments
<1> QED
  BY <1>1, <1>2, <1>3, <1>4, <1>5, <1>6, <1>7, <1>8, <1>9, <1>10, <1>11, <1>12, <1>13, <1>14, <1>15, <1>16, <1>17, <1>18, <1>19, <1>20, <1>21, <1>22, <1>23, <1>24, <1>25 DEF Next, Starts, Agents, Orphans, Finishes, Fails, OrphanComments

\* Every step keeps the wrapper whole for those who use it.
LEMMA WrapperStep ==
  ASSUME AgentTypes, PromptInv, WrapperInv, [Next]_vars
  PROVE  WrapperInv'
<1> USE AgentRunAssumption DEF AgentTypes, WrapperInv, Installs, Before, After, definition, run, process, installs, GoTo, Fault, NoFault
<1>kept. posted' = posted => CommentsAreReferenced'
  BY DEF CommentsAreReferenced
<1>waits. \A r \in Run : agent[r] # "none" => at[r] = "running"
  BY DEF PromptInv
<1>leaves. ASSUME NEW r \in Run, NEW cut, NEW p, Leaves(r, cut, p)
       PROVE  \A o \in orphans' : (o.wrapped \/ o.unaided) /\ (o.wrapped => wrapper.text # "none")
  <2>1. agent[r] \in {"started", "working"} => (wrapped[r] \/ r \in unaided) /\ (wrapped[r] => wrapper.text # "none")
    BY <1>waits
  <2> QED
    BY <1>leaves, <2>1, OrphanedWrapped
<1>1. ASSUME NEW r \in Run, Prepare(r) PROVE WrapperInv'
  BY <1>kept, <1>1 DEF Prepare
<1>2. ASSUME NEW r \in Run, Assemble(r) PROVE WrapperInv'
  BY <1>kept, <1>2 DEF Assemble
<1>3. ASSUME NEW r \in Run, FindWrapper(r) PROVE WrapperInv'
  <2>1. CASE wrapper.text = "none"
    BY <1>kept, <1>3, <2>1 DEF FindWrapper, Finds
  <2>2. CASE wrapper.text # "none"
    BY <1>kept, <1>3, <2>2 DEF FindWrapper, Finds
  <2> QED
    BY <2>1, <2>2
<1>4. ASSUME NEW r \in Run, OpenWrapper(r) PROVE WrapperInv'
  BY <1>kept, <1>4 DEF OpenWrapper
<1>5. ASSUME NEW r \in Run, WriteWrapper(r) PROVE WrapperInv'
  BY <1>kept, <1>5 DEF WriteWrapper
<1>6. ASSUME NEW r \in Run, MakeExecutable(r) PROVE WrapperInv'
  BY <1>kept, <1>6 DEF MakeExecutable
<1>7. ASSUME NEW r \in Run, Spawn(r) PROVE WrapperInv'
  BY <1>kept, <1>7 DEF Spawn
<1>8. ASSUME NEW r \in Run, AgentReads(r) PROVE WrapperInv'
  BY <1>kept, <1>8 DEF AgentReads
<1>10. ASSUME NEW r \in Run, AgentEnds(r) PROVE WrapperInv'
  BY <1>kept, <1>10 DEF AgentEnds
<1>11. ASSUME NEW r \in Run, RunEnds(r) PROVE WrapperInv'
  BY <1>kept, <1>11 DEF RunEnds
<1>12. ASSUME NEW r \in Run, SaveOpens(r) PROVE WrapperInv'
  BY <1>kept, <1>12 DEF SaveOpens
<1>13. ASSUME NEW r \in Run, SaveWrites(r) PROVE WrapperInv'
  BY <1>kept, <1>13 DEF SaveWrites
<1>14. ASSUME NEW r \in Run, Finish(r) PROVE WrapperInv'
  BY <1>kept, <1>14 DEF Finish
<1>15. ASSUME NEW r \in Run, AssembleFails(r) PROVE WrapperInv'
  BY <1>kept, <1>15 DEF AssembleFails
<1>16. ASSUME NEW r \in Run, InstallFails(r) PROVE WrapperInv'
  <2>1. CASE at[r] = "opened"
    BY <1>kept, <1>16, <2>1 DEF InstallFails
  <2>2. CASE at[r] = "installing"
    BY <1>kept, <1>16, <2>2 DEF InstallFails
  <2> QED
    BY <1>kept, <1>16, <2>1, <2>2 DEF InstallFails
<1>17. ASSUME NEW r \in Run, SpawnFails(r) PROVE WrapperInv'
  BY <1>kept, <1>17 DEF SpawnFails
<1>18. ASSUME NEW r \in Run, Kill(r) PROVE WrapperInv'
  <2>1. \A o \in orphans' : (o.wrapped \/ o.unaided) /\ (o.wrapped => wrapper.text # "none")
    BY <1>18, <1>leaves DEF Kill
  <2> QED
    BY <1>kept, <1>18, <2>1 DEF Kill
<1>19. ASSUME NEW l \in {"repo", "profile"}, NEW c \in Contents, Edit(l, c) PROVE WrapperInv'
  BY <1>kept, <1>19 DEF Edit
<1>20. CASE InitWrites
  BY <1>kept, <1>20 DEF InitWrites
<1>21. CASE Stop
  <2>1. Loop \in Run
    BY DEF Run
  <2>2. \A o \in orphans' : (o.wrapped \/ o.unaided) /\ (o.wrapped => wrapper.text # "none")
    BY <1>21, <1>leaves, <2>1 DEF Stop
  <2> QED
    BY <1>kept, <1>21, <2>1, <2>2 DEF Stop
<1>22. CASE UNCHANGED vars
  BY <1>kept, <1>22 DEF vars
<1>23. ASSUME NEW r \in Run, WaitFails(r) PROVE WrapperInv'
  <2>1. \A o \in orphans' : (o.wrapped \/ o.unaided) /\ (o.wrapped => wrapper.text # "none")
    BY <1>23, <1>leaves DEF WaitFails
  <2>2. at' \in {[at EXCEPT ![r] = "settling"], [at EXCEPT ![r] = "idle"]}
    BY <1>23 DEF WaitFails
  <2> QED
    BY <1>kept, <1>23, <2>1, <2>2 DEF WaitFails
<1>24. ASSUME NEW o \in orphans, OrphanReads(o) \/ OrphanEnds(o) PROVE WrapperInv'
  BY <1>kept, <1>24, OrphanMoves DEF OrphanReads, OrphanEnds
<1>comments. ASSUME NEW w \in BOOLEAN, NEW a \in BOOLEAN, w \/ a, w => wrapper.text # "none", Comments(w, a) PROVE WrapperInv'
  <2>1. PICK form \in Forms : posted' = {[form |-> form, outcome |-> Outcome(w, form), troubled |-> Troubled(a)]}
    BY <1>comments DEF Comments
  <2>2. ~Troubled(a) => w /\ wrapper.text = "whole" /\ wrapper.runs
    BY <1>comments DEF Troubled
  <2>3. ~Troubled(a) /\ form = "body" => Outcome(w, form) = "referenced"
    BY <2>2 DEF Outcome
  <2>4. CommentsAreReferenced'
    BY <2>1, <2>3 DEF CommentsAreReferenced
  <2> QED
    BY <1>kept, <1>comments, <2>4 DEF Comments
<1>9. ASSUME NEW r \in Run, AgentComments(r) PROVE WrapperInv'
  <2>1. /\ Comments(wrapped[r], r \in unaided) /\ wrapped[r] \in BOOLEAN /\ (r \in unaided) \in BOOLEAN
        /\ wrapped[r] \/ r \in unaided
        /\ wrapped[r] => wrapper.text # "none"
    BY <1>9, <1>waits DEF AgentComments
  <2> QED
    BY <1>comments, <2>1
<1>26. ASSUME NEW o \in orphans, OrphanComments(o) PROVE WrapperInv'
  BY <1>comments, <1>26 DEF OrphanComments, Orphan
<1> QED
  BY <1>1, <1>2, <1>3, <1>4, <1>5, <1>6, <1>7, <1>8, <1>9, <1>10, <1>11, <1>12, <1>13, <1>14, <1>15, <1>16, <1>17, <1>18, <1>19, <1>20, <1>21, <1>22, <1>23, <1>24, <1>26 DEF Next, Starts, Agents, Orphans, Finishes, Fails

\* The claims change with the threads and the orphans only.
LEMMA ClaimsKept ==
  ASSUME UNCHANGED <<threads, orphans>>
  PROVE  Pending' = Pending /\ Claims' = Claims
  BY DEF Pending, Claims

\* What orphans owe stays paid.
LEMMA OwedKept ==
  ASSUME AgentTypes, Owed, UNCHANGED orphans, threads \subseteq threads', faults' \in {faults, faults + 1}
  PROVE  Owed'
<1>1. \A o \in orphans : o.since \in Nat
  BY DEF AgentTypes, Orphan
<1> QED
  BY <1>1 DEF Owed, AgentTypes

\* What a run leaves when it stops waiting is paid for by the failure that made it stop: a thread the orphan may start, or an id
\* nobody has heard.
LEMMA LeavesPaid ==
  ASSUME AgentTypes, ThreadInv, NEW r \in Run, NEW cut, NEW p, Leaves(r, cut, p), Fault, UNCHANGED threads
  PROVE  /\ IsFiniteSet(Pending') /\ Claims' \in Nat /\ Claims' <= faults'
         /\ Owed'
<1> DEFINE left == [since |-> faults, cut |-> cut, prompt |-> p, does |-> agent[r], orchestrates |-> Orchestrates(r),
                    resume |-> resume[r], wrapped |-> wrapped[r], unaided |-> r \in unaided]
<1>1. PICK l : l = left
  OBVIOUS
<1>2. /\ l.since = faults /\ l.does = agent[r] /\ l.orchestrates = Orchestrates(r) /\ l.resume = resume[r]
  BY <1>1
<1>3. orphans' = orphans \/ (agent[r] \in {"started", "working"} /\ orphans' = orphans \cup {l})
  BY <1>1 DEF Leaves, Orphaned
<1> HIDE DEF left
<1>4. faults \in Nat /\ faults' = faults + 1 /\ threads' = threads
  BY DEF AgentTypes, Fault
<1>5. Cardinality(threads) \in Nat /\ Cardinality(Pending) \in Nat /\ IsFiniteSet(Pending)
  BY FS_CardinalityType DEF ThreadInv
<1>6. agent[r] # "none" /\ r = Loop => resume[Loop] \in threads \cup {NoId}
  BY DEF ThreadInv
<1>7. Owed'
  <2>1. \A o \in orphans : o.since < faults + 1 /\ (o.orchestrates => o.resume \in threads \cup {NoId})
    <3>1. \A o \in orphans : o.since \in Nat /\ o.since < faults
      BY DEF AgentTypes, Orphan, ThreadInv, Owed
    <3> QED
      BY <1>4, <3>1 DEF ThreadInv, Owed
  <2>2. agent[r] \in {"started", "working"} => l.since < faults + 1 /\ (l.orchestrates => l.resume \in threads \cup {NoId})
    <3>1. agent[r] \in {"started", "working"} /\ l.orchestrates => r = Loop /\ l.resume = resume[Loop]
      BY <1>2 DEF Orchestrates
    <3> QED
      BY <1>2, <1>4, <1>6, <3>1
  <2> QED
    BY <1>3, <1>4, <2>1, <2>2 DEF Owed
<1>8. CASE l \in Pending' /\ orphans' = orphans \cup {l}
  <2>1. Pending' = Pending \cup {l} /\ l \notin Pending
    <3>1. l \notin orphans
      BY <1>2, <1>4 DEF ThreadInv, Owed, AgentTypes, Orphan
    <3> QED
      BY <1>8, <3>1 DEF Pending
  <2>2. IsFiniteSet(Pending') /\ Cardinality(Pending') = Cardinality(Pending) + 1
    BY <1>5, <2>1, FS_AddElement
  <2>3. agent[r] = "started" /\ r = Loop /\ resume[Loop] = NoId
    BY <1>2, <1>8 DEF Pending, Orchestrates
  <2>4. Claims <= faults
    BY <2>3 DEF ThreadInv, MayStart
  <2>5. Claims' = Claims + 1
    BY <1>4, <1>5, <2>2 DEF Claims
  <2> QED
    BY <1>4, <1>7, <2>2, <2>4, <2>5 DEF ThreadInv
<1>9. CASE ~(l \in Pending' /\ orphans' = orphans \cup {l})
  <2>1. Pending' = Pending
    BY <1>3, <1>9 DEF Pending
  <2>2. Claims' = Claims
    BY <1>4, <2>1 DEF Claims
  <2> QED
    BY <1>4, <1>5, <1>7, <2>1, <2>2 DEF ThreadInv
<1> QED
  BY <1>8, <1>9

\* Every step keeps the count of threads within the faults.
LEMMA ThreadStep ==
  ASSUME AgentTypes, ThreadInv, [Next]_vars
  PROVE  ThreadInv'
<1> USE AgentRunAssumption DEF AgentTypes, ThreadInv, MayStart, Retained, Installs, Before, After, Run, definition, run, process, installs, GoTo, Fault, NoFault
<1>1. ASSUME NEW r \in Run, Prepare(r) PROVE ThreadInv'
  <2>1. CASE r = Loop
    <3>1. /\ UNCHANGED <<sessionId, threads, orphans, agent>>
          /\ at[Loop] = "idle" /\ at' = [at EXCEPT ![Loop] = "defined"] /\ thread' = [thread EXCEPT ![Loop] = NoId]
      BY <1>1, <2>1 DEF Prepare
    <3>2. \/ resume'[Loop] = sessionId /\ faults' = faults
          \/ resume'[Loop] = NoId /\ faults' = faults + 1
      BY <1>1, <2>1 DEF Prepare, Resumed
    <3>3. Claims' <= faults' \/ (resume'[Loop] # NoId /\ sessionId # NoId /\ Claims' <= 1 + faults')
      BY <3>1, <3>2, ClaimsKept
    <3>4. Owed'
      BY <3>1, <3>2, OwedKept
    <3> QED
      BY <3>1, <3>2, <3>3, <3>4, ClaimsKept
  <2>2. CASE r # Loop
    <3>1. UNCHANGED <<sessionId, threads, orphans, agent, faults>> /\ at'[Loop] = at[Loop] /\ thread'[Loop] = thread[Loop]
          /\ resume'[Loop] = resume[Loop] /\ at'[r] = "defined" /\ \A o \in Run \ {r} : at'[o] = at[o]
      BY <1>1, <2>2 DEF Prepare
    <3>2. PICK b : backend' = [backend EXCEPT ![r] = b]
      BY <1>1 DEF Prepare
    <3>3. backend'[Loop] = backend[Loop]
      BY <2>2, <3>2
    <3> QED
      BY <3>1, <3>3, ClaimsKept, OwedKept
  <2> QED
    BY <2>1, <2>2
<1>2. ASSUME NEW r \in Run, Assemble(r) PROVE ThreadInv'
  BY <1>2, ClaimsKept, OwedKept DEF Assemble
<1>3. ASSUME NEW r \in Run, FindWrapper(r) PROVE ThreadInv'
  BY <1>3, ClaimsKept, OwedKept DEF FindWrapper
<1>4. ASSUME NEW r \in Run, OpenWrapper(r) PROVE ThreadInv'
  BY <1>4, ClaimsKept, OwedKept DEF OpenWrapper
<1>5. ASSUME NEW r \in Run, WriteWrapper(r) PROVE ThreadInv'
  BY <1>5, ClaimsKept, OwedKept DEF WriteWrapper
<1>6. ASSUME NEW r \in Run, MakeExecutable(r) PROVE ThreadInv'
  BY <1>6, ClaimsKept, OwedKept DEF MakeExecutable
<1>7. ASSUME NEW r \in Run, Spawn(r) PROVE ThreadInv'
  BY <1>7, ClaimsKept, OwedKept DEF Spawn
<1>8. ASSUME NEW r \in Run, AgentReads(r) PROVE ThreadInv'
  <2>1. PICK t \in Told(Orchestrates(r), resume[r]) : thread' = [thread EXCEPT ![r] = t] /\ threads' = threads \cup ({t} \ {NoId})
    BY <1>8 DEF AgentReads
  <2>2. /\ agent' = [agent EXCEPT ![r] = "working"] /\ agent[r] = "started"
        /\ UNCHANGED <<sessionId, at, backend, resume, orphans, faults>>
    BY <1>8 DEF AgentReads
  <2>3. CASE t = NoId \/ t \in threads
    <3>1. threads' = threads
      BY <2>1, <2>3
    <3>2. t # NoId => r = Loop /\ backend[Loop] = "codex"
      BY <2>1 DEF Told, Orchestrates
    <3> QED
      BY <2>1, <2>2, <2>3, <3>1, <3>2, ClaimsKept, OwedKept
  <2>4. CASE t # NoId /\ t \notin threads
    <3>1. r = Loop /\ backend[Loop] = "codex" /\ t \in Thread
      BY <2>1, <2>4 DEF Told, Orchestrates
    <3>2. resume[Loop] = NoId
      BY <2>1, <2>2, <2>4, <3>1 DEF Told
    <3>3. threads' = threads \cup {t}
      BY <2>1, <2>4
    <3>4. IsFiniteSet(threads') /\ Cardinality(threads') = Cardinality(threads) + 1
      BY <2>4, <3>3, FS_AddElement
    <3>5. Pending' = Pending /\ Cardinality(threads) \in Nat /\ Cardinality(Pending) \in Nat
      BY <2>2, FS_CardinalityType DEF Pending
    <3>6. Claims <= faults
      BY <2>2, <3>1, <3>2
    <3>7. Claims' = Claims + 1
      BY <3>4, <3>5 DEF Claims
    <3>8. threads' \subseteq Thread /\ threads \subseteq threads' /\ t \in threads'
      BY <3>1, <3>3
    <3>9. Retained' /\ ~MayStart'
      BY <2>1, <2>2, <2>4, <3>1
    <3> QED
      BY <2>1, <2>2, <3>1, <3>4, <3>5, <3>6, <3>7, <3>8, <3>9, OwedKept
  <2> QED
    BY <2>3, <2>4
<1>9. ASSUME NEW r \in Run, AgentComments(r) PROVE ThreadInv'
  BY <1>9, ClaimsKept, OwedKept DEF AgentComments, Comments
<1>10. ASSUME NEW r \in Run, AgentEnds(r) PROVE ThreadInv'
  BY <1>10, ClaimsKept, OwedKept DEF AgentEnds
<1>11. ASSUME NEW r \in Run, RunEnds(r) PROVE ThreadInv'
  BY <1>11, ClaimsKept, OwedKept DEF RunEnds, Saves, Orchestrates
<1>12. ASSUME NEW r \in Run, SaveOpens(r) PROVE ThreadInv'
  BY <1>12, ClaimsKept, OwedKept DEF SaveOpens
<1>13. ASSUME NEW r \in Run, SaveWrites(r) PROVE ThreadInv'
  BY <1>13, ClaimsKept, OwedKept DEF SaveWrites
<1>14. ASSUME NEW r \in Run, Finish(r) PROVE ThreadInv'
  BY <1>14, ClaimsKept, OwedKept DEF Finish
<1>15. ASSUME NEW r \in Run, AssembleFails(r) PROVE ThreadInv'
  BY <1>15, ClaimsKept, OwedKept DEF AssembleFails
<1>16. ASSUME NEW r \in Run, InstallFails(r) PROVE ThreadInv'
  BY <1>16, ClaimsKept, OwedKept DEF InstallFails
<1>17. ASSUME NEW r \in Run, SpawnFails(r) PROVE ThreadInv'
  BY <1>17, ClaimsKept, OwedKept DEF SpawnFails
<1>18. ASSUME NEW r \in Run, Kill(r) PROVE ThreadInv'
  <2>1. /\ IsFiniteSet(Pending') /\ Claims' \in Nat /\ Claims' <= faults'
        /\ Owed'
    BY <1>18, LeavesPaid DEF Kill
  <2> QED
    BY <1>18, <2>1 DEF Kill, Leaves
<1>19. ASSUME NEW l \in {"repo", "profile"}, NEW c \in Contents, Edit(l, c) PROVE ThreadInv'
  BY <1>19, ClaimsKept, OwedKept DEF Edit
<1>20. CASE InitWrites
  BY <1>20, ClaimsKept, OwedKept DEF InitWrites
<1>21. CASE Stop
  <2>1. /\ IsFiniteSet(Pending') /\ Claims' \in Nat /\ Claims' <= faults'
        /\ Owed'
    BY <1>21, LeavesPaid DEF Stop
  <2> QED
    BY <1>21, <2>1 DEF Stop, Leaves, Run
<1>22. CASE UNCHANGED vars
  BY <1>22, ClaimsKept, OwedKept DEF vars
<1>23. ASSUME NEW r \in Run, WaitFails(r) PROVE ThreadInv'
  <2>1. /\ IsFiniteSet(Pending') /\ Claims' \in Nat /\ Claims' <= faults'
        /\ Owed'
    BY <1>23, LeavesPaid DEF WaitFails
  <2>2. at' \in {[at EXCEPT ![r] = "settling"], [at EXCEPT ![r] = "idle"]}
    BY <1>23 DEF WaitFails
  <2> QED
    BY <1>23, <2>1, <2>2 DEF WaitFails, Leaves
<1>24. ASSUME NEW o \in orphans, OrphanReads(o) \/ OrphanEnds(o) PROVE ThreadInv'
  <2>1. UNCHANGED <<sessionId, at, backend, resume, agent, thread, faults>>
    BY <1>24 DEF OrphanReads, OrphanEnds
  <2>2. Cardinality(threads) \in Nat /\ Cardinality(Pending) \in Nat
    BY FS_CardinalityType
  <2>3. /\ threads \subseteq threads' /\ threads' \subseteq Thread /\ IsFiniteSet(threads') /\ IsFiniteSet(Pending')
        /\ Claims' \in Nat /\ Claims' <= Claims
    <3>1. CASE OrphanEnds(o)
      <4>1. Pending' = Pending /\ threads' = threads
        BY <3>1 DEF OrphanEnds, Pending
      <4> QED
        BY <4>1 DEF Claims
    <3>2. CASE OrphanReads(o)
      <4>1. PICK n : n = [o EXCEPT !.does = "working"]
        OBVIOUS
      <4>2. orphans' = (orphans \ {o}) \cup {n} /\ o.does = "started" /\ n.does = "working"
        BY <3>2, <4>1 DEF OrphanReads, Orphan
      <4>3. Pending' = Pending \ {o}
        BY <4>2 DEF Pending
      <4>4. PICK t \in Told(o.orchestrates, o.resume) : threads' = threads \cup ({t} \ {NoId})
        BY <3>2 DEF OrphanReads
      <4>5. IsFiniteSet(Pending') /\ Cardinality(Pending') \in Nat /\ Cardinality(Pending') <= Cardinality(Pending)
            /\ (o \in Pending => Cardinality(Pending') = Cardinality(Pending) - 1)
        <5>1. IsFiniteSet(Pending') /\ Cardinality(Pending') = IF o \in Pending THEN Cardinality(Pending) - 1 ELSE Cardinality(Pending)
          BY <4>3, FS_RemoveElement
        <5>2. Cardinality(Pending') \in Nat
          BY <5>1, FS_CardinalityType
        <5> QED
          BY <2>2, <5>1, <5>2
      <4>6. CASE t = NoId \/ t \in threads
        <5>1. threads' = threads
          BY <4>4, <4>6
        <5> QED
          BY <2>2, <4>5, <5>1 DEF Claims
      <4>7. CASE t # NoId /\ t \notin threads
        <5>1. o.orchestrates /\ o.resume = NoId /\ t \in Thread
          BY <4>4, <4>7 DEF Told, Owed
        <5>2. o \in Pending
          BY <4>2, <5>1 DEF Pending
        <5>3. threads' = threads \cup {t}
          BY <4>4, <4>7
        <5>4. IsFiniteSet(threads') /\ Cardinality(threads') = Cardinality(threads) + 1
          BY <4>7, <5>3, FS_AddElement
        <5>5. Claims' = Claims /\ Claims \in Nat
          BY <2>2, <4>5, <5>2, <5>4 DEF Claims
        <5> QED
          BY <4>5, <5>1, <5>3, <5>4, <5>5
      <4> QED
        BY <4>6, <4>7
    <3> QED
      BY <1>24, <3>1, <3>2
  <2>4. Owed'
    <3>1. \A q \in orphans' : \E u \in orphans : q.since = u.since /\ q.orchestrates = u.orchestrates /\ q.resume = u.resume
      BY <1>24, OrphanMoves
    <3> QED
      BY <2>1, <2>3, <3>1 DEF Owed
  <2> QED
    BY <2>1, <2>3, <2>4
<1>25. ASSUME NEW w, NEW a, Comments(w, a) PROVE ThreadInv'
  BY <1>25, ClaimsKept, OwedKept DEF Comments
<1> QED
  BY <1>1, <1>2, <1>3, <1>4, <1>5, <1>6, <1>7, <1>8, <1>9, <1>10, <1>11, <1>12, <1>13, <1>14, <1>15, <1>16, <1>17, <1>18, <1>19, <1>20, <1>21, <1>22, <1>23, <1>24, <1>25 DEF Next, Starts, Agents, Orphans, Finishes, Fails, OrphanComments

-----------------------------------------------------------------------------
\* The invariant holds in every behaviour.
THEOREM InvariantHolds == Spec => []AgentRunInv
<1>1. AgentRunInv /\ [Next]_vars => AgentRunInv'
  BY TypesStep, PromptStep, WrapperStep, ThreadStep DEF AgentRunInv
<1> QED
  BY <1>1, InvariantInit, PTL DEF Spec

\* An issue has one codex thread, and one more at most for each failure, however many runs, events and edits there are.
THEOREM ThreadsNeedLosses == Spec => []ThreadNeedsLoss
<1>1. AgentRunInv => ThreadNeedsLoss
  <2>1. AgentRunInv => Cardinality(threads) \in Nat /\ Cardinality(Pending) \in Nat
    BY FS_CardinalityType DEF AgentRunInv, ThreadInv
  <2> QED
    BY <2>1 DEF AgentRunInv, AgentTypes, ThreadInv, Claims, ThreadNeedsLoss
<1> QED
  BY <1>1, InvariantHolds, PTL

\* An agent that is waited for, or whose run was killed, finds its prompt; no prompt file is left but by runs that were cut short.
THEOREM PromptsFollowRuns == Spec => []PromptFollowsRun
<1>1. AgentRunInv => PromptFollowsRun
  BY DEF AgentRunInv, PromptInv, PromptFollowsRun
<1> QED
  BY <1>1, InvariantHolds, PTL

\* Texts given with --body carry the reference unless the wrapper's installation failed, was interrupted or is under way.
THEOREM CommentsCarryReferences == Spec => []CommentsAreReferenced
<1>1. AgentRunInv => CommentsAreReferenced
  BY DEF AgentRunInv, WrapperInv
<1> QED
  BY <1>1, InvariantHolds, PTL
=============================================================================

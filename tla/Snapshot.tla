------------------------------ MODULE Snapshot ------------------------------
(***************************************************************************)
(* The runtime snapshot of one issue, runtime.json (session_store.rs), and *)
(* how a process updates it: read the file, change the copy, write         *)
(* runtime.json.tmp, rename it.  Nothing excludes another process, and the *)
(* temporary file has the same name for all.                               *)
(*                                                                         *)
(* fs::write opens and truncates the file first and writes to it then.  A  *)
(* descriptor follows its file: when another process has renamed the       *)
(* temporary file in between, the write goes to runtime.json, and when     *)
(* that has been replaced, nowhere.  Two writes into one file leave either *)
(* text or a mixture.                                                      *)
(***************************************************************************)
CONSTANTS
  Proc,     \* the processes
  Agent,    \* the agents whose sessions are shown
  Event,    \* the events applied to the tracker
  Summaries, \* those that are comments with a summary that names a type
  Analyst,  \* the vision-gap analyst
  Missing,  \* no such file
  Empty,    \* a truncated file
  Torn      \* a file that cannot be parsed

VARIABLES
  file,  \* runtime.json
  tmp,   \* runtime.json.tmp
  step,  \* how far the update of a process is
  fd,    \* the file a process has open, under the name it has now
  copy,  \* the snapshot in the memory of a process
  \* history
  raced, \* two updates overlapped
  truth  \* the updates so far, as long as none overlapped

disk == <<file, tmp>>
snapshotVars == <<disk, step, fd, copy, raced, truth>>

Status == {"none", "running", "completed", "failed"}
Snapshots == [session : [Agent -> Status], seen : SUBSET Event]
NewSnapshot == [session |-> [a \in Agent |-> "none"], seen |-> {}]
NoSnapshot == {Missing, Empty, Torn}

ASSUME SnapshotAssumption ==
  /\ Summaries \subseteq Event /\ Analyst \in Agent
  /\ NoSnapshot \cap Snapshots = {}
  /\ Missing # Empty /\ Empty # Torn /\ Missing # Torn

SnapshotInit ==
  /\ file = Missing /\ tmp = Missing
  /\ step = [p \in Proc |-> "none"]
  /\ fd = [p \in Proc |-> "none"]
  /\ copy = [p \in Proc |-> NewSnapshot]
  /\ raced = FALSE /\ truth = NewSnapshot

\* load_runtime_snapshot: an error counts as no snapshot.
Read == IF file \in NoSnapshot THEN NewSnapshot ELSE file

\* What a snapshot says after note_agent_started and note_agent_finished ...
Noted(s, a, status) == [s EXCEPT !.session[a] = status]

\* ... and after apply_event.  A summary is taken for the end of the analyst's
\* run, whoever wrote it and whether or not the analyst ever ran.
Applied(s, e) ==
  [s EXCEPT !.seen = @ \cup {e},
            !.session = IF e \in Summaries THEN [@ EXCEPT ![Analyst] = "completed"] ELSE @]

-----------------------------------------------------------------------------
\* The file is read, and p has the changed snapshot s in memory.
Load(p, s) ==
  /\ step[p] = "none"
  /\ step' = [step EXCEPT ![p] = "loaded"]
  /\ copy' = [copy EXCEPT ![p] = s]
  /\ raced' = (raced \/ \E q \in Proc : step[q] # "none")
  /\ truth' = IF raced' THEN NewSnapshot ELSE truth
  /\ UNCHANGED <<disk, fd>>

\* Mutation of Open: the snapshot is written in place.
OpenInPlace(p) ==
  /\ step[p] = "loaded"
  /\ step' = [step EXCEPT ![p] = "opened"]
  /\ fd' = [fd EXCEPT ![p] = "file"]
  /\ file' = Empty
  /\ UNCHANGED <<tmp, copy, raced, truth>>

Open(p) ==
  /\ step[p] = "loaded"
  /\ step' = [step EXCEPT ![p] = "opened"]
  /\ fd' = [fd EXCEPT ![p] = "tmp"]
  /\ tmp' = Empty
  /\ UNCHANGED <<file, copy, raced, truth>>

\* What a file that held c may hold after p has written to it.
Written(p, c) == IF c = Empty THEN {copy[p]} ELSE {copy[p], Torn}

Write(p) ==
  /\ step[p] = "opened"
  /\ step' = [step EXCEPT ![p] = "written"]
  /\ fd' = [fd EXCEPT ![p] = "none"]
  /\ IF fd[p] = "file" THEN file' \in Written(p, file) ELSE UNCHANGED file
  /\ IF fd[p] = "tmp" THEN tmp' \in Written(p, tmp) ELSE UNCHANGED tmp
  /\ UNCHANGED <<copy, raced, truth>>

\* The descriptors after the rename.
Renamed(name) ==
  CASE name = "tmp" -> "file"
    [] name = "file" -> "gone"
    [] OTHER -> name

\* fs::rename, of whatever the temporary file is by now; without one it fails.
\* With this update `truth` is s.
Rename(p, s) ==
  /\ step[p] = "written"
  /\ step' = [step EXCEPT ![p] = "none"]
  /\ copy' = [copy EXCEPT ![p] = NewSnapshot]
  /\ \/ /\ tmp # Missing
        /\ file' = tmp /\ tmp' = Missing
        /\ fd' = [q \in Proc |-> Renamed(fd[q])]
     \/ /\ tmp = Missing
        /\ UNCHANGED <<disk, fd>>
  /\ truth' = IF raced THEN truth ELSE s
  /\ UNCHANGED raced

\* The update ends where it is: the write fails, or the process is killed.
Abandon(p) ==
  /\ step' = [step EXCEPT ![p] = "none"]
  /\ copy' = [copy EXCEPT ![p] = NewSnapshot]
  /\ fd' = [fd EXCEPT ![p] = "none"]
  /\ UNCHANGED <<disk, raced, truth>>
-----------------------------------------------------------------------------
SnapshotTypeOK ==
  /\ file \in Snapshots \cup NoSnapshot
  /\ tmp \in Snapshots \cup NoSnapshot
  /\ step \in [Proc -> {"none", "loaded", "opened", "written"}]
  /\ fd \in [Proc -> {"none", "tmp", "file", "gone"}]
  /\ copy \in [Proc -> Snapshots]
  /\ raced \in BOOLEAN
  /\ truth \in Snapshots

\* Updates that do not overlap lose nothing, whatever process is killed and
\* whatever write fails in the middle of one: what is read back is what they
\* wrote, one after the other.
AloneNothingIsLost == ~raced => Read = truth
=============================================================================

---------------------------- MODULE SharedQueue ----------------------------
(***************************************************************************)
(* `githubclaw bootstrap` beside a running server: the command opens a     *)
(* queue of its own over the directory the server's queue uses, and no     *)
(* lock is between the two processes.  Choosing a number and renaming the  *)
(* file to it are two steps here, so that both may choose the same one; a  *)
(* write may fail, since opening a queue deletes the temporary files of    *)
(* the other.  Within the server one operation runs at a time, as in       *)
(* DiskQueue.  Of files with equal numbers any may come first: the labels, *)
(* which decide it, are not ordered here.  Equal names make the temporary  *)
(* files one as well, so that the contents of the other of two bootstrap   *)
(* events may be what is left; one of the two is lost either way.          *)
(***************************************************************************)
EXTENDS DiskQueue

CONSTANTS
  Command,    \* the events the command enqueues: open issues and pull requests
  Bootstrap   \* the label of all bootstrap events, those of the server's own, too

ASSUME SharedAssumption == Command \subseteq Event /\ \A id \in Command : Label[id] = Bootstrap

VARIABLE writing  \* what the server and the command are about to rename into queue/

Writer == {"server", "command"}
sharedVars == <<queueVars, writing>>

SharedInit == QueueInit /\ writing = [w \in Writer |-> {}]

\* The server's `queues` mutex can be taken.
ServerFree == Unlocked /\ writing["server"] = {}

\* next_sequence, and the file that will get the number; a release knows what it copies.
Prepare(w, id, retry, source) ==
  /\ writing[w] = {}
  /\ \E s \in NextSequence :
       /\ s <= MaxSeq
       /\ writing' = [writing EXCEPT ![w] =
            {[file |-> [id |-> id, seq |-> s, retry |-> retry, pid |-> NoPid], source |-> source]}]
  /\ UNCHANGED queueVars

\* enqueue_with_id by the server, enqueue by the command.
ServerEnqueues(id) ==
  /\ ServerFree
  /\ id \notin accepted \cup Command
  /\ Prepare("server", id, 0, {})

CommandEnqueues(id) ==
  /\ id \notin accepted
  /\ Prepare("command", id, 0, {})

\* release_inflight_event of an event with attempts left, by nack_reserved or recovery.
ServerReleases(f) ==
  /\ ServerFree
  /\ \E retry \in {f.retry, f.retry + 1} :
       retry <= MaxRetry /\ Prepare("server", f.id, retry, {[f EXCEPT !.pid = NoPid]})

\* The same of an event without.
ServerBuries(f) ==
  /\ ServerFree
  /\ MoveToDeadLetter(f, f.retry + 1)
  /\ releasing' = {[f EXCEPT !.pid = NoPid]}
  /\ UNCHANGED <<inflight, accepted, acked, dropped, writing>>

\* write_event_file's rename.
Rename(w) ==
  \E x \in writing[w] :
    /\ queue' = Write(queue, x.file)
    /\ accepted' = accepted \cup {x.file.id}
    /\ releasing' = IF w = "server" THEN x.source ELSE releasing
    /\ writing' = [writing EXCEPT ![w] = {}]
    /\ UNCHANGED <<inflight, dead, acked, dropped, buried>>

\* The write fails, or the process dies: a webhook is refused, a release not begun.
WriteFails(w) ==
  /\ writing[w] # {}
  /\ writing' = [writing EXCEPT ![w] = {}]
  /\ UNCHANGED queueVars

\* What the server does without a number.
ServerStep ==
  /\ writing["server"] = {}
  /\ \/ \E f \in queue : Dequeue(f) \/ ReserveNext(f)
     \/ \E f \in inflight, p \in Pid : AttachPid(f, p)
     \/ \E f \in inflight : AckReserved(f)
     \/ ReleaseRemove
     \/ ReleaseAbort
  /\ UNCHANGED writing

SharedNext ==
  \/ \E id \in Event : ServerEnqueues(id)
  \/ \E id \in Command : CommandEnqueues(id)
  \/ \E f \in inflight : ServerReleases(f) \/ ServerBuries(f)
  \/ \E w \in Writer : Rename(w) \/ WriteFails(w)
  \/ ServerStep

SharedSpec == SharedInit /\ [][SharedNext]_sharedVars

-----------------------------------------------------------------------------
(***************************************************************************)
(* Properties.                                                             *)
(***************************************************************************)

\* A webhook's event, or a scheduled one, is never lost to the command: whatever number
\* both choose, the label in the file name tells it from a bootstrap event.
WebhooksSurvive ==
  \A id \in accepted : Label[id] # Bootstrap => id \in Ids(queue \cup inflight) \cup acked \cup dropped \cup buried
=============================================================================

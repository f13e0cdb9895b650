----------------------------- MODULE DiskQueue -----------------------------
(***************************************************************************)
(* The disk-persisted event queue of one repository (queue.rs).            *)
(*                                                                         *)
(* The state is what is on disk: the JSON files of queue/, of              *)
(* queue/inflight/ and of queue/dead/.  A file is named by a sequence      *)
(* number and a label made from the event type, and writing a file whose   *)
(* name exists replaces it.  Every write is a temporary file followed by a *)
(* rename, so one write is one step; the one operation with two effects    *)
(* that a crash can separate, the release of a reserved event, is two      *)
(* steps here (ReleaseWrite, ReleaseRemove).                               *)
(*                                                                         *)
(* The server holds its `queues` mutex for a whole operation, so between   *)
(* the two steps of a release no other operation runs.  Below 10^6 the     *)
(* order of file names is the order of sequence numbers (MaxSeq keeps the  *)
(* model there); no two files of queue/ and inflight/ share a number       *)
(* (DistinctSequences), so the label never decides the order.              *)
(***************************************************************************)
EXTENDS Integers, FiniteSets

CONSTANTS
  Event,      \* the calls of enqueue: one member per accepted delivery
  Label,      \* Label[e]: the file label made from the type of event e
  MaxRetry,   \* max_retry, the retry budget of an event
  Pid,        \* process ids of orchestrators
  NoPid,      \* processor_pid = None
  MaxSeq      \* bound of the model: the largest sequence number it reaches

ASSUME QueueAssumption ==
  /\ MaxRetry \in Nat
  /\ NoPid \notin Pid
  /\ DOMAIN Label = Event

\* Six digits: as far as the order of file names is that of numbers.
ASSUME NumberingAssumption == MaxSeq \in 1 .. 999999

VARIABLES
  queue,      \* the files of queue/
  inflight,   \* the files of queue/inflight/
  dead,       \* the files of queue/dead/
  releasing,  \* the inflight file being released, once its copy is written
  \* history: what became of each event
  accepted,   \* enqueued
  acked,      \* acknowledged after a reservation
  dropped,    \* removed by dequeue
  buried      \* written to dead/ at some time

disk == <<queue, inflight, dead>>
history == <<accepted, acked, dropped, buried>>
queueVars == <<queue, inflight, dead, releasing, accepted, acked, dropped, buried>>

Entry == [id : Event, seq : Nat, retry : Nat, pid : Pid \cup {NoPid}]

Ids(files) == {f.id : f \in files}

\* Mutation of Name: the number alone.
NameByNumber(f) == <<f.seq>>

\* A file name: the number and the label.
Name(f) == <<f.seq, Label[f.id]>>

\* write_event_file: the temporary file renamed over the name of f.
Write(files, f) == {g \in files : Name(g) # Name(f)} \cup {f}

\* fs::remove_file of the name of f.
Remove(files, f) == {g \in files : Name(g) # Name(f)}

\* Mutation of First: the directory is read in no particular order.
FirstUnsorted(files) == files

\* The first and the last of the sorted file names of a directory.
First(files) == {f \in files : \A g \in files : f.seq <= g.seq}
Last(files)  == {f \in files : \A g \in files : g.seq <= f.seq}

\* Mutation of NextSequence: the number of files stands for the last number.
NextSequenceCount == {Cardinality(queue \cup inflight) + 1}

(***************************************************************************)
(* The number next_sequence gives: one more than that of the last file of  *)
(* queue/ and inflight/, or 1 when both are empty (dead/ is not looked     *)
(* at).                                                                    *)
(***************************************************************************)
NextSequence ==
  LET files == queue \cup inflight
  IN  IF files = {} THEN {1} ELSE {f.seq + 1 : f \in Last(files)}

\* No operation is between its two effects: the `queues` mutex can be taken.
Unlocked == releasing = {}

QueueInit ==
  /\ queue = {} /\ inflight = {} /\ dead = {}
  /\ releasing = {}
  /\ accepted = {} /\ acked = {} /\ dropped = {} /\ buried = {}

\* enqueue_with_id: a new file at the back of the queue.
Enqueue(id) ==
  /\ Unlocked
  /\ id \notin accepted
  /\ \E s \in NextSequence :
       /\ s <= MaxSeq
       /\ queue' = Write(queue, [id |-> id, seq |-> s, retry |-> 0, pid |-> NoPid])
  /\ accepted' = accepted \cup {id}
  /\ UNCHANGED <<inflight, dead, releasing, acked, dropped, buried>>

\* dequeue: the first file of the queue is deleted.
Dequeue(f) ==
  /\ Unlocked
  /\ f \in First(queue)
  /\ queue' = Remove(queue, f)
  /\ dropped' = dropped \cup {f.id}
  /\ UNCHANGED <<inflight, dead, releasing, accepted, acked, buried>>

(***************************************************************************)
(* reserve_next: the first file is renamed into inflight/, then rewritten  *)
(* with no pid.  Queued files carry no pid, so a crash between the rename  *)
(* and the rewrite leaves the same content.                                *)
(***************************************************************************)
ReserveNext(f) ==
  /\ Unlocked
  /\ f \in First(queue)
  /\ queue' = Remove(queue, f)
  /\ inflight' = Write(inflight, [f EXCEPT !.pid = NoPid])
  /\ UNCHANGED <<dead, releasing, accepted, acked, dropped, buried>>

\* attach_processor_pid: the caller's copy of f is written with the pid.
AttachPid(f, p) ==
  /\ Unlocked
  /\ inflight' = Write(inflight, [f EXCEPT !.pid = p])
  /\ UNCHANGED <<queue, dead, releasing, accepted, acked, dropped, buried>>

\* ack_reserved: the inflight file is deleted if it exists.
AckReserved(f) ==
  /\ Unlocked
  /\ inflight' = Remove(inflight, f)
  /\ acked' = acked \cup {f.id}
  /\ UNCHANGED <<queue, dead, releasing, accepted, dropped, buried>>

(***************************************************************************)
(* release_inflight_event, first effect: the copy.  The event goes to the  *)
(* back of the queue under a new number, or, its budget exhausted, to      *)
(* dead/ under the number it has.                                          *)
(***************************************************************************)
Requeue(f, retry) ==
  /\ retry <= MaxRetry
  /\ \E s \in NextSequence :
       /\ s <= MaxSeq
       /\ queue' = Write(queue, [id |-> f.id, seq |-> s, retry |-> retry, pid |-> NoPid])
  /\ UNCHANGED <<dead, buried>>

\* Mutation of MoveToDeadLetter: the number alone names the file.
MoveToDeadLetterByNumber(f, retry) ==
  /\ retry > MaxRetry
  /\ dead' = {g \in dead : g.seq # f.seq} \cup {[f EXCEPT !.retry = retry, !.pid = NoPid]}
  /\ buried' = buried \cup {f.id}
  /\ UNCHANGED queue

MoveToDeadLetter(f, retry) ==
  /\ retry > MaxRetry
  /\ dead' = Write(dead, [f EXCEPT !.retry = retry, !.pid = NoPid])
  /\ buried' = buried \cup {f.id}
  /\ UNCHANGED queue

ReleaseWrite(f, increment) ==
  LET retry == IF increment THEN f.retry + 1 ELSE f.retry
  IN  /\ Unlocked
      /\ Requeue(f, retry) \/ MoveToDeadLetter(f, retry)
      /\ releasing' = {[f EXCEPT !.pid = NoPid]}
      /\ UNCHANGED <<inflight, accepted, acked, dropped>>

\* release_inflight_event, second effect: the inflight file is deleted.
ReleaseRemove ==
  \E f \in releasing :
    /\ inflight' = Remove(inflight, f)
    /\ releasing' = {}
    /\ UNCHANGED <<queue, dead, history>>

\* The release stops before its second effect: a crash, or remove_file failed.
ReleaseAbort ==
  /\ releasing' = {}
  /\ UNCHANGED <<disk, history>>

\* nack_reserved: a failed attempt.
NackReserved(f) == ReleaseWrite(f, TRUE)

(***************************************************************************)
(* recover_orphaned_inflight, for the first file it finds with no pid or   *)
(* with that of a process that is not alive.  Only an attempt that had a   *)
(* process uses retry budget.                                              *)
(***************************************************************************)
\* Mutation of Orphans: a reservation that has no pid yet is left alone.
OrphansWithPid(alive) == {f \in inflight : f.pid \notin alive /\ f.pid # NoPid}

Orphans(alive) == {f \in inflight : f.pid \notin alive}

\* Mutation of RecoverOrphan: every recovery uses retry budget.
RecoverOrphanCharges(f, alive) ==
  /\ f \in First(Orphans(alive))
  /\ ReleaseWrite(f, TRUE)

RecoverOrphan(f, alive) ==
  /\ f \in First(Orphans(alive))
  /\ ReleaseWrite(f, f.pid # NoPid)

-----------------------------------------------------------------------------
(***************************************************************************)
(* The queue under any caller that follows its interface: events that are  *)
(* reserved are attached, acknowledged, negatively acknowledged or         *)
(* recovered, in any order and for any view of which processes live.       *)
(***************************************************************************)
QueueNext ==
  \/ \E id \in Event : Enqueue(id)
  \/ \E f \in queue : Dequeue(f) \/ ReserveNext(f)
  \/ \E f \in inflight, p \in Pid : AttachPid(f, p)
  \/ \E f \in inflight : AckReserved(f) \/ NackReserved(f)
  \/ \E f \in inflight, alive \in SUBSET Pid : RecoverOrphan(f, alive)
  \/ ReleaseRemove
  \/ ReleaseAbort

QueueSpec == QueueInit /\ [][QueueNext]_queueVars

-----------------------------------------------------------------------------
(***************************************************************************)
(* Properties.                                                             *)
(***************************************************************************)

\* Type invariant: what the files and the history hold.
TypeOK ==
  /\ queue \subseteq Entry
  /\ inflight \subseteq Entry
  /\ dead \subseteq Entry
  /\ releasing \subseteq Entry
  /\ accepted \subseteq Event
  /\ acked \subseteq Event
  /\ dropped \subseteq Event
  /\ buried \subseteq Event

\* No two files of queue/ and inflight/ have the same number, whatever was
\* released, recovered or left behind by a crash (next_sequence scans both
\* directories): a write of a new file never replaces a pending event.
DistinctSequences ==
  /\ \A f, g \in queue : f.seq = g.seq => f = g
  /\ \A f, g \in inflight : f.seq = g.seq => f = g
  /\ \A f \in queue, g \in inflight : f.seq # g.seq

\* An accepted event that was not acknowledged, dropped or dead-lettered has a
\* file in queue/ or inflight/: a release that a crash or a failed remove_file
\* cuts in two loses nothing, because the copy is written first.
NothingLost ==
  accepted \subseteq Ids(queue \cup inflight) \cup acked \cup dropped \cup buried

\* A pending event is within its retry budget and a dead-lettered one has
\* used all of it, in every copy (release_inflight_event).
RetryBudget ==
  /\ \A f \in queue \cup inflight : f.retry <= MaxRetry
  /\ \A f \in dead : f.retry = MaxRetry + 1

\* A queued file carries no pid: recover_orphaned_inflight never charges an
\* event for a process of an earlier attempt.
QueuedHasNoPid == \A f \in queue : f.pid = NoPid

\* FIFO (the header of queue.rs): an event leaves the queue from its front,
\* and a file that enters goes behind every file that is there.
FirstOutLastIn ==
  /\ \A f \in queue \ queue', g \in queue : f.seq <= g.seq
  /\ \A f \in queue' \ queue, g \in queue : g.seq < f.seq

Fifo == [][FirstOutLastIn]_queueVars

\* A dead letter stays, or gives way to one of its own name: that of another
\* event of the same type which was reserved, came to the same number and used
\* up its attempts in turn (numbering restarts when queue/ and inflight/ are
\* empty, and does not look at dead/).  No other event, operation, crash or
\* second writer costs it its file.
KeptOrReplaced ==
  \A f \in dead \ dead' :
    \E g \in dead' \ dead : Name(g) = Name(f) /\ g.id # f.id /\ g.id \in Ids(inflight)

BuriedIsKeptOrReplaced == [][KeptOrReplaced]_queueVars
=============================================================================

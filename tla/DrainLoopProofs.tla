-------------------------- MODULE DrainLoopProofs --------------------------
(***************************************************************************)
(* Proofs about the disk queue and about the drain loop, for every set of  *)
(* events, every labelling (all events of one type included), every pool   *)
(* of pids, every retry budget and any number of crashes and failed disk   *)
(* operations.                                                             *)
(*                                                                         *)
(* The queue rests on one fact: next_sequence is larger than every number  *)
(* in queue/ and inflight/ (NextSequenceIsFresh), hence a new file never   *)
(* replaces a pending one (WriteAdds) and a deletion removes one event     *)
(* only (RemoveTakesOne).  Of the loop:                                    *)
(*   - it uses the queue as its interface asks (it implements QueueSpec),  *)
(*     so what is proved of the queue holds of the server's;               *)
(*   - one reservation at a time, and one orchestrator once recorded;      *)
(*   - no event is dead-lettered with attempts left;                       *)
(*   - every success of an event beyond the first is paid for by a fault.  *)
(* Of the queue that `githubclaw bootstrap` writes to beside the server    *)
(* (SharedQueue): it never costs an event of another type its file.        *)
(***************************************************************************)
EXTENDS DrainLoop, SharedQueue, FiniteSetTheorems, TLAPS

\* The file a release is about to delete was copied to queue/ or dead/, and its
\* name is not that of another event's reservation.
ReleasingIsCopied ==
  \A r \in releasing :
    /\ r.id \in Ids(queue) \cup buried
    /\ \A g \in inflight : g.seq = r.seq => g.id = r.id

\* The inductive invariant.
QueueInv ==
  /\ TypeOK
  /\ DistinctSequences
  /\ RetryBudget
  /\ QueuedHasNoPid
  /\ ReleasingIsCopied
  /\ NothingLost

USE QueueAssumption

-----------------------------------------------------------------------------
(***************************************************************************)
(* The operators.                                                          *)
(***************************************************************************)

\* next_sequence gives a number above those of all pending files.
LEMMA NextSequenceIsFresh ==
  ASSUME TypeOK, NEW s \in NextSequence
  PROVE  /\ s \in Nat
         /\ \A g \in queue \cup inflight : g.seq < s
  BY DEF TypeOK, NextSequence, Last, Entry

\* A file with a number of its own is added beside the others.
LEMMA WriteAdds ==
  ASSUME NEW files, NEW f, \A g \in files : g.seq # f.seq
  PROVE  Write(files, f) = files \cup {f}
  BY DEF Write, Name

\* Deleting a pending file deletes that file only.
LEMMA RemoveTakesOne ==
  ASSUME NEW files, NEW f \in files,
         \A g, h \in files : g.seq = h.seq => g = h
  PROVE  Remove(files, f) = files \ {f}
  BY DEF Remove, Name

-----------------------------------------------------------------------------
(***************************************************************************)
(* The operations preserve the invariant.                                  *)
(***************************************************************************)
LEMMA EnqueueKeepsInv ==
  ASSUME QueueInv, NEW id \in Event, Enqueue(id)
  PROVE  QueueInv'
<1>1. PICK s \in NextSequence :
        queue' = Write(queue, [id |-> id, seq |-> s, retry |-> 0, pid |-> NoPid])
  BY DEF Enqueue
<1> DEFINE new == [id |-> id, seq |-> s, retry |-> 0, pid |-> NoPid]
<1>2. s \in Nat /\ \A g \in queue \cup inflight : g.seq < s
  BY NextSequenceIsFresh DEF QueueInv
<1>3. new \in Entry
  BY <1>2 DEF Entry
<1>4. queue' = queue \cup {new}
  <2>1. \A g \in queue : g.seq # new.seq
    BY <1>2 DEF QueueInv, TypeOK, Entry
  <2>2. QED BY <1>1, <2>1, WriteAdds
<1>5. UNCHANGED <<inflight, dead, releasing, acked, dropped, buried>>
      /\ accepted' = accepted \cup {id}
  BY DEF Enqueue
<1>6. TypeOK'
  BY <1>3, <1>4, <1>5 DEF QueueInv, TypeOK
<1>7. DistinctSequences'
  BY <1>2, <1>4, <1>5 DEF QueueInv, DistinctSequences, TypeOK, Entry
<1>8. RetryBudget'
  BY <1>4, <1>5 DEF QueueInv, RetryBudget
<1>9. QueuedHasNoPid'
  BY <1>4 DEF QueueInv, QueuedHasNoPid
<1>10. Ids(queue') = Ids(queue) \cup {id}
       /\ Ids(queue' \cup inflight') = Ids(queue \cup inflight) \cup {id}
  <2>1. new.id = id
    OBVIOUS
  <2> HIDE DEF new
  <2>2. /\ Ids(queue \cup {new}) = Ids(queue) \cup {id}
        /\ Ids((queue \cup {new}) \cup inflight) = Ids(queue \cup inflight) \cup {id}
    BY <2>1 DEF Ids
  <2> QED BY <1>4, <1>5, <2>2
<1>11. ReleasingIsCopied' /\ NothingLost'
  BY <1>5, <1>10 DEF QueueInv, ReleasingIsCopied, NothingLost
<1> QED BY <1>6, <1>7, <1>8, <1>9, <1>11 DEF QueueInv

\* The head is reserved.
LEMMA DequeueKeepsInv ==
  ASSUME QueueInv, NEW f \in queue, Dequeue(f)
  PROVE  QueueInv'
<1>1. queue' = queue \ {f}
  BY RemoveTakesOne DEF Dequeue, QueueInv, DistinctSequences
<1>2. UNCHANGED <<inflight, dead, releasing, accepted, acked, buried>>
      /\ dropped' = dropped \cup {f.id} /\ releasing = {}
  BY DEF Dequeue, Unlocked
<1>3. TypeOK'
  BY <1>1, <1>2 DEF QueueInv, TypeOK, Entry
<1>4. DistinctSequences' /\ RetryBudget' /\ QueuedHasNoPid'
  BY <1>1, <1>2 DEF QueueInv, DistinctSequences, RetryBudget, QueuedHasNoPid
<1>5. ReleasingIsCopied'
  BY <1>2 DEF ReleasingIsCopied
<1>6. NothingLost'
  BY <1>1, <1>2 DEF QueueInv, NothingLost, Ids
<1> QED BY <1>3, <1>4, <1>5, <1>6 DEF QueueInv

\* A file moves from the queue to inflight under a new number.
LEMMA ReserveKeepsInv ==
  ASSUME QueueInv, NEW f \in queue, ReserveNext(f)
  PROVE  QueueInv'
<1>1. [f EXCEPT !.pid = NoPid] = f
  BY DEF QueueInv, TypeOK, QueuedHasNoPid, Entry
<1>2. queue' = queue \ {f}
  BY RemoveTakesOne DEF ReserveNext, QueueInv, DistinctSequences
<1>3. inflight' = inflight \cup {f}
  <2>1. \A g \in inflight : g.seq # f.seq
    BY DEF QueueInv, DistinctSequences
  <2> QED BY <1>1, <2>1, WriteAdds DEF ReserveNext
<1>4. UNCHANGED <<dead, releasing, accepted, acked, dropped, buried>> /\ releasing = {}
  BY DEF ReserveNext, Unlocked
<1>5. TypeOK'
  BY <1>2, <1>3, <1>4 DEF QueueInv, TypeOK
<1>6. DistinctSequences' /\ RetryBudget' /\ QueuedHasNoPid'
  BY <1>2, <1>3, <1>4 DEF QueueInv, DistinctSequences, RetryBudget, QueuedHasNoPid
<1>7. ReleasingIsCopied'
  BY <1>4 DEF ReleasingIsCopied
<1>8. queue' \cup inflight' = queue \cup inflight
  BY <1>2, <1>3
<1>9. NothingLost'
  BY <1>4, <1>8 DEF QueueInv, NothingLost
<1> QED BY <1>5, <1>6, <1>7, <1>9 DEF QueueInv

\* Attaching a pid rewrites the file of a reserved event, under its name.
LEMMA AttachKeepsInv ==
  ASSUME QueueInv, NEW f \in inflight, NEW p \in Pid, AttachPid(f, p)
  PROVE  QueueInv'
<1> DEFINE new == [f EXCEPT !.pid = p]
<1>1. /\ f \in Entry /\ new \in Entry
      /\ new.id = f.id /\ new.seq = f.seq /\ new.retry = f.retry
  BY DEF QueueInv, TypeOK, Entry
<1>2. inflight' = (inflight \ {f}) \cup {new}
  <2>1. \A g \in inflight : Name(g) # Name(new) <=> g # f
    BY <1>1 DEF Name, QueueInv, DistinctSequences
  <2> QED BY <2>1 DEF AttachPid, Write
<1>3. UNCHANGED <<queue, dead, releasing, accepted, acked, dropped, buried>> /\ releasing = {}
  BY DEF AttachPid, Unlocked
<1> HIDE DEF new
<1>4. TypeOK'
  BY <1>1, <1>2, <1>3 DEF QueueInv, TypeOK
<1>5. DistinctSequences' /\ RetryBudget' /\ QueuedHasNoPid'
  <2>1. /\ \A g \in inflight : g.seq = f.seq => g = f
        /\ \A g \in queue : g.seq # f.seq
    BY DEF QueueInv, DistinctSequences
  <2>2. DistinctSequences'
    BY <1>1, <1>2, <1>3, <2>1 DEF QueueInv, DistinctSequences
  <2> QED BY <1>1, <1>2, <1>3, <2>2 DEF QueueInv, RetryBudget, QueuedHasNoPid
<1>6. ReleasingIsCopied'
  BY <1>3 DEF ReleasingIsCopied
<1>7. Ids(queue' \cup inflight') = Ids(queue \cup inflight)
  BY <1>1, <1>2, <1>3 DEF Ids
<1>8. NothingLost'
  BY <1>3, <1>7 DEF QueueInv, NothingLost
<1> QED BY <1>4, <1>5, <1>6, <1>8 DEF QueueInv

\* The reservation is deleted after a success.
LEMMA AckKeepsInv ==
  ASSUME QueueInv, NEW f \in inflight, AckReserved(f)
  PROVE  QueueInv'
<1>1. inflight' = inflight \ {f}
  BY RemoveTakesOne DEF AckReserved, QueueInv, DistinctSequences
<1>2. /\ UNCHANGED <<queue, dead, releasing, accepted, dropped, buried>>
      /\ acked' = acked \cup {f.id} /\ releasing = {}
  BY DEF AckReserved, Unlocked
<1>3. TypeOK'
  BY <1>1, <1>2 DEF QueueInv, TypeOK, Entry
<1>4. DistinctSequences' /\ RetryBudget' /\ QueuedHasNoPid'
  BY <1>1, <1>2 DEF QueueInv, DistinctSequences, RetryBudget, QueuedHasNoPid
<1>5. ReleasingIsCopied'
  BY <1>2 DEF ReleasingIsCopied
<1>6. Ids(queue \cup inflight) \subseteq Ids(queue' \cup inflight') \cup {f.id}
  BY <1>1, <1>2 DEF Ids
<1>7. NothingLost'
  BY <1>2, <1>6 DEF QueueInv, NothingLost
<1> QED BY <1>3, <1>4, <1>5, <1>7 DEF QueueInv

(***************************************************************************)
(* The first effect of a release: the copy is new, whichever way it goes.  *)
(***************************************************************************)
LEMMA ReleaseWriteKeepsInv ==
  ASSUME QueueInv, NEW f \in inflight, NEW increment \in BOOLEAN,
         ReleaseWrite(f, increment)
  PROVE  QueueInv'
<1> DEFINE retry == IF increment THEN f.retry + 1 ELSE f.retry
           rel   == [f EXCEPT !.pid = NoPid]
<1>1. /\ f \in Entry /\ rel \in Entry
      /\ rel.id = f.id /\ rel.seq = f.seq
      /\ retry \in Nat /\ retry <= MaxRetry + 1
  BY DEF QueueInv, TypeOK, RetryBudget, Entry
<1>2. /\ UNCHANGED <<inflight, accepted, acked, dropped>>
      /\ releasing' = {rel}
      /\ Requeue(f, retry) \/ MoveToDeadLetter(f, retry)
  BY DEF ReleaseWrite
<1>3. \A g \in inflight : g.seq = rel.seq => g.id = rel.id
  BY <1>1 DEF QueueInv, DistinctSequences
<1>4. CASE Requeue(f, retry)
  <2>1. PICK s \in NextSequence :
          queue' = Write(queue, [id |-> f.id, seq |-> s, retry |-> retry, pid |-> NoPid])
    BY <1>4 DEF Requeue
  <2> DEFINE new == [id |-> f.id, seq |-> s, retry |-> retry, pid |-> NoPid]
  <2>2. s \in Nat /\ \A g \in queue \cup inflight : g.seq < s
    BY NextSequenceIsFresh DEF QueueInv
  <2>3. new \in Entry /\ new.id = f.id
    BY <1>1, <2>2 DEF Entry
  <2>4. queue' = queue \cup {new}
    <3>1. \A g \in queue : g.seq # new.seq
      BY <2>2 DEF QueueInv, TypeOK, Entry
    <3> QED BY <2>1, <3>1, WriteAdds
  <2>5. retry <= MaxRetry /\ UNCHANGED <<dead, buried>>
    BY <1>4 DEF Requeue
  <2>6. TypeOK'
    BY <1>1, <1>2, <2>3, <2>4, <2>5 DEF QueueInv, TypeOK
  <2>7. DistinctSequences'
    BY <1>2, <2>2, <2>4 DEF QueueInv, DistinctSequences, TypeOK, Entry
  <2>8. RetryBudget' /\ QueuedHasNoPid'
    BY <1>2, <2>4, <2>5 DEF QueueInv, RetryBudget, QueuedHasNoPid
  <2>9. /\ Ids(queue') = Ids(queue) \cup {f.id}
        /\ Ids(queue' \cup inflight') = Ids(queue \cup inflight) \cup {f.id}
    <3> HIDE DEF new
    <3>1. /\ Ids(queue \cup {new}) = Ids(queue) \cup {f.id}
          /\ Ids((queue \cup {new}) \cup inflight) = Ids(queue \cup inflight) \cup {f.id}
      BY <2>3 DEF Ids
    <3> QED BY <1>2, <2>4, <3>1
  <2>10. ReleasingIsCopied' /\ NothingLost'
    BY <1>1, <1>2, <1>3, <2>5, <2>9 DEF QueueInv, ReleasingIsCopied, NothingLost
  <2> QED BY <2>6, <2>7, <2>8, <2>10 DEF QueueInv
<1>5. CASE MoveToDeadLetter(f, retry)
  <2> DEFINE new == [f EXCEPT !.retry = retry, !.pid = NoPid]
  <2>1. /\ retry = MaxRetry + 1
        /\ dead' = Write(dead, new)
        /\ buried' = buried \cup {f.id}
        /\ queue' = queue
    BY <1>1, <1>5 DEF MoveToDeadLetter
  <2>2. new \in Entry /\ new.retry = MaxRetry + 1 /\ dead' \subseteq dead \cup {new}
    BY <1>1, <2>1 DEF Entry, Write
  <2>3. TypeOK'
    BY <1>1, <1>2, <2>1, <2>2 DEF QueueInv, TypeOK, Entry
  <2>4. DistinctSequences' /\ QueuedHasNoPid'
    BY <1>2, <2>1 DEF QueueInv, DistinctSequences, QueuedHasNoPid
  <2>5. RetryBudget'
    BY <1>2, <2>1, <2>2 DEF QueueInv, RetryBudget
  <2>6. Ids(queue' \cup inflight') = Ids(queue \cup inflight)
    BY <1>2, <2>1
  <2>7. ReleasingIsCopied' /\ NothingLost'
    BY <1>1, <1>2, <1>3, <2>1, <2>6 DEF QueueInv, ReleasingIsCopied, NothingLost
  <2> QED BY <2>3, <2>4, <2>5, <2>7 DEF QueueInv
<1> QED BY <1>2, <1>4, <1>5

(***************************************************************************)
(* The second effect: what is deleted has its copy.                        *)
(***************************************************************************)
LEMMA ReleaseRemoveKeepsInv ==
  ASSUME QueueInv, ReleaseRemove
  PROVE  QueueInv'
<1>1. PICK r \in releasing : inflight' = Remove(inflight, r)
  BY DEF ReleaseRemove
<1>2. releasing' = {} /\ UNCHANGED <<queue, dead, accepted, acked, dropped, buried>>
  BY DEF ReleaseRemove, history
<1>3. inflight' \subseteq inflight
      /\ \A g \in inflight \ inflight' : g.seq = r.seq
  BY <1>1 DEF Remove, Name
<1>4. TypeOK'
  BY <1>2, <1>3 DEF QueueInv, TypeOK
<1>5. DistinctSequences' /\ RetryBudget' /\ QueuedHasNoPid'
  BY <1>2, <1>3 DEF QueueInv, DistinctSequences, RetryBudget, QueuedHasNoPid
<1>6. ReleasingIsCopied'
  BY <1>2 DEF ReleasingIsCopied
<1>7. /\ r.id \in Ids(queue) \cup buried
      /\ \A g \in inflight \ inflight' : g.id = r.id
  BY <1>3 DEF QueueInv, ReleasingIsCopied
<1>8. Ids(queue \cup inflight) \subseteq Ids(queue' \cup inflight') \cup {r.id}
  BY <1>2, <1>7 DEF Ids
<1>9. Ids(queue) \subseteq Ids(queue' \cup inflight')
  BY <1>2 DEF Ids
<1>10. NothingLost'
  BY <1>2, <1>7, <1>8, <1>9 DEF QueueInv, NothingLost
<1> QED BY <1>4, <1>5, <1>6, <1>10 DEF QueueInv

\* A release stops between its halves: both copies stay.
LEMMA ReleaseAbortKeepsInv ==
  ASSUME QueueInv, ReleaseAbort
  PROVE  QueueInv'
  BY DEF QueueInv, ReleaseAbort, disk, history, TypeOK, DistinctSequences, RetryBudget,
         QueuedHasNoPid, ReleasingIsCopied, NothingLost

\* Recovery is a release of the orphan it finds.
LEMMA RecoverKeepsInv ==
  ASSUME QueueInv, NEW f \in inflight, NEW alive, RecoverOrphan(f, alive)
  PROVE  QueueInv'
  BY ReleaseWriteKeepsInv, (f.pid # NoPid) \in BOOLEAN DEF RecoverOrphan

-----------------------------------------------------------------------------
\* One step of the queue, whichever it is.
LEMMA QueueInvInductive == QueueInv /\ [QueueNext]_queueVars => QueueInv'
<1> SUFFICES ASSUME QueueInv, [QueueNext]_queueVars
             PROVE  QueueInv'
  OBVIOUS
<1>1. CASE \E id \in Event : Enqueue(id)
  BY <1>1, EnqueueKeepsInv
<1>2. CASE \E f \in queue : Dequeue(f) \/ ReserveNext(f)
  BY <1>2, DequeueKeepsInv, ReserveKeepsInv
<1>3. CASE \E f \in inflight, p \in Pid : AttachPid(f, p)
  BY <1>3, AttachKeepsInv
<1>4. CASE \E f \in inflight : AckReserved(f) \/ NackReserved(f)
  BY <1>4, AckKeepsInv, ReleaseWriteKeepsInv DEF NackReserved
<1>5. CASE \E f \in inflight, alive \in SUBSET Pid : RecoverOrphan(f, alive)
  BY <1>5, RecoverKeepsInv
<1>6. CASE ReleaseRemove
  BY <1>6, ReleaseRemoveKeepsInv
<1>7. CASE ReleaseAbort
  BY <1>7, ReleaseAbortKeepsInv
<1>8. CASE UNCHANGED queueVars
  BY <1>8 DEF queueVars, QueueInv, TypeOK, DistinctSequences, RetryBudget,
              QueuedHasNoPid, ReleasingIsCopied, NothingLost, Ids
<1> QED BY <1>1, <1>2, <1>3, <1>4, <1>5, <1>6, <1>7, <1>8 DEF QueueNext

\* The invariant holds of every behaviour of the queue.
THEOREM QueueInvariant == QueueSpec => []QueueInv
<1>1. QueueInit => QueueInv
  BY DEF QueueInit, QueueInv, TypeOK, DistinctSequences, RetryBudget, QueuedHasNoPid,
         ReleasingIsCopied, NothingLost
<1> QED BY <1>1, QueueInvInductive, PTL DEF QueueSpec

\* Type correctness: the files and the history are always well formed.
THEOREM TypeCorrectness == QueueSpec => []TypeOK
  BY QueueInvariant, PTL DEF QueueInv

\* No accepted event is lost: not by a crash inside a release, not by a reused
\* sequence number, whatever the types of the events (queue.rs).
THEOREM NoEventIsLost == QueueSpec => []NothingLost
  BY QueueInvariant, PTL DEF QueueInv

\* Sequence numbers identify the pending files (next_sequence).
THEOREM SequencesAreDistinct == QueueSpec => []DistinctSequences
  BY QueueInvariant, PTL DEF QueueInv

\* No pending event is over its retry budget and no event reaches dead/ with
\* budget left (release_inflight_event).
THEOREM RetryBudgetIsKept == QueueSpec => []RetryBudget
  BY QueueInvariant, PTL DEF QueueInv

\* What enters the queue has a number above all that is there.
LEMMA FreshFileIsLast ==
  ASSUME QueueInv, NEW s \in NextSequence, NEW f, f.seq = s, queue' = Write(queue, f)
  PROVE  FirstOutLastIn
<1>1. \A g \in queue : g.seq < s /\ g.seq # f.seq
  BY NextSequenceIsFresh DEF QueueInv, TypeOK, Entry
<1>2. queue' = queue \cup {f}
  BY <1>1, WriteAdds
<1> QED BY <1>1, <1>2 DEF FirstOutLastIn

\* What leaves the queue was its first file.
LEMMA FirstFileLeaves ==
  ASSUME QueueInv, NEW f \in First(queue), queue' = Remove(queue, f)
  PROVE  FirstOutLastIn
<1>1. f \in queue /\ \A g \in queue : f.seq <= g.seq
  BY DEF First
<1>2. queue' = queue \ {f}
  BY <1>1, RemoveTakesOne DEF QueueInv, DistinctSequences
<1> QED BY <1>1, <1>2 DEF FirstOutLastIn

\* The queue is first in, first out, retried and recovered events included: they
\* go behind everything that waits.
THEOREM QueueIsFifo == QueueSpec => Fifo
<1>1. ASSUME QueueInv, [QueueNext]_queueVars
      PROVE  [FirstOutLastIn]_queueVars
  <2>1. ASSUME NEW id \in Event, Enqueue(id) PROVE FirstOutLastIn
    <3>1. PICK s \in NextSequence :
            queue' = Write(queue, [id |-> id, seq |-> s, retry |-> 0, pid |-> NoPid])
      BY <2>1 DEF Enqueue
    <3> QED BY <1>1, <3>1, FreshFileIsLast
  <2>2. ASSUME NEW f \in queue, Dequeue(f) \/ ReserveNext(f) PROVE FirstOutLastIn
    BY <1>1, <2>2, FirstFileLeaves DEF Dequeue, ReserveNext
  <2>3. ASSUME queue' = queue PROVE FirstOutLastIn
    BY <2>3 DEF FirstOutLastIn
  <2>4. ASSUME NEW f \in inflight, NEW increment, ReleaseWrite(f, increment)
        PROVE  FirstOutLastIn
    <3> DEFINE retry == IF increment THEN f.retry + 1 ELSE f.retry
    <3>1. CASE Requeue(f, retry)
      <4>1. PICK s \in NextSequence :
              queue' = Write(queue, [id |-> f.id, seq |-> s, retry |-> retry, pid |-> NoPid])
        BY <3>1 DEF Requeue
      <4> QED BY <1>1, <4>1, FreshFileIsLast
    <3>2. CASE MoveToDeadLetter(f, retry)
      BY <2>3, <3>2 DEF MoveToDeadLetter
    <3> QED BY <2>4, <3>1, <3>2 DEF ReleaseWrite
  <2>5. CASE \E f \in inflight, p \in Pid : AttachPid(f, p)
    BY <2>3, <2>5 DEF AttachPid
  <2>6. CASE \E f \in inflight : AckReserved(f) \/ NackReserved(f)
    BY <2>3, <2>4, <2>6 DEF AckReserved, NackReserved
  <2>7. CASE \E f \in inflight, alive \in SUBSET Pid : RecoverOrphan(f, alive)
    BY <2>4, <2>7 DEF RecoverOrphan
  <2>8. CASE ReleaseRemove \/ ReleaseAbort \/ UNCHANGED queueVars
    BY <2>3, <2>8 DEF ReleaseRemove, ReleaseAbort, disk, queueVars
  <2> QED BY <1>1, <2>1, <2>2, <2>5, <2>6, <2>7, <2>8 DEF QueueNext
<1>2. QED BY <1>1, QueueInvariant, PTL DEF QueueSpec, Fifo

\* dead/ changes by one write at a time, of a file whose name holds the type of
\* its event.
LEMMA DeadLettersChange ==
  ASSUME QueueNext
  PROVE  \/ UNCHANGED <<dead, buried>>
         \/ \E f \in inflight, retry \in {g.retry : g \in inflight} \cup {g.retry + 1 : g \in inflight} :
              MoveToDeadLetter(f, retry)
<1>1. CASE \E f \in inflight, b \in BOOLEAN : ReleaseWrite(f, b)
  <2>1. PICK f \in inflight, b \in BOOLEAN : ReleaseWrite(f, b)
    BY <1>1
  <2> DEFINE retry == IF b THEN f.retry + 1 ELSE f.retry
  <2>2. retry \in {g.retry : g \in inflight} \cup {g.retry + 1 : g \in inflight}
    OBVIOUS
  <2>3. Requeue(f, retry) \/ MoveToDeadLetter(f, retry)
    BY <2>1 DEF ReleaseWrite
  <2>4. Requeue(f, retry) => UNCHANGED <<dead, buried>>
    BY DEF Requeue
  <2> QED BY <2>2, <2>3, <2>4
<1>2. CASE ~\E f \in inflight, b \in BOOLEAN : ReleaseWrite(f, b)
  <2>1. \A f \in inflight : ~NackReserved(f)
    BY <1>2 DEF NackReserved
  <2>2. \A f \in inflight, alive \in SUBSET Pid : ~RecoverOrphan(f, alive)
    <3>1. \A f : (f.pid # NoPid) \in BOOLEAN
      OBVIOUS
    <3> QED BY <1>2, <3>1 DEF RecoverOrphan
  <2> QED BY <2>1, <2>2 DEF QueueNext, Enqueue, Dequeue, ReserveNext, AttachPid, AckReserved,
             ReleaseRemove, ReleaseAbort, disk, history
<1> QED BY <1>1, <1>2

\* Dead letters have no process and a name each.
DeadInv == \A f, g \in dead : f.pid = NoPid /\ (Name(f) = Name(g) => f = g)

\* What a burial writes.
LEMMA BurialWrites ==
  ASSUME QueueInv, NEW f \in inflight, NEW retry, MoveToDeadLetter(f, retry),
         retry \in {g.retry : g \in inflight} \cup {g.retry + 1 : g \in inflight}
  PROVE  \E new \in Entry : /\ dead' = Write(dead, new) /\ new.id = f.id /\ new.seq = f.seq
                           /\ new.retry = MaxRetry + 1 /\ new.pid = NoPid
<1> DEFINE new == [f EXCEPT !.retry = retry, !.pid = NoPid]
<1>1. retry = MaxRetry + 1
  <2>1. \A g \in inflight : g.retry \in Nat /\ g.retry <= MaxRetry
    BY DEF QueueInv, TypeOK, Entry, RetryBudget
  <2> QED BY <2>1 DEF MoveToDeadLetter
<1>2. f \in Entry
  BY DEF QueueInv, TypeOK
<1>3. new \in Entry /\ new.id = f.id /\ new.seq = f.seq /\ new.retry = MaxRetry + 1 /\ new.pid = NoPid
  <2>1. retry \in Nat /\ NoPid \in Pid \cup {NoPid}
    BY <1>1
  <2>2. new \in Entry
    BY <1>2, <2>1 DEF Entry
  <2>3. new.id = f.id /\ new.seq = f.seq
    BY <1>2 DEF Entry
  <2>4. new.retry = retry /\ new.pid = NoPid
    BY <1>2 DEF Entry
  <2> QED BY <1>1, <2>2, <2>3, <2>4
<1>4. dead' = Write(dead, new)
  BY DEF MoveToDeadLetter
<1> HIDE DEF new
<1> QED BY <1>3, <1>4

\* A dead letter stays, or gives way to one of its own name: that of another reserved event which used up its attempts.
THEOREM DeadLettersStay == QueueSpec => BuriedIsKeptOrReplaced
<1>1. QueueInit => DeadInv
  BY DEF QueueInit, DeadInv
<1>2. ASSUME QueueInv, DeadInv, [QueueNext]_queueVars PROVE DeadInv' /\ KeptOrReplaced
  <2>1. CASE UNCHANGED dead
    BY <1>2, <2>1 DEF DeadInv, KeptOrReplaced, Name
  <2>2. CASE ~UNCHANGED dead
    <3>1. QueueNext
      BY <1>2, <2>2 DEF queueVars
    <3>2. PICK f \in inflight, retry \in {g.retry : g \in inflight} \cup {g.retry + 1 : g \in inflight} : MoveToDeadLetter(f, retry)
      BY <2>2, <3>1, DeadLettersChange
    <3>3. PICK new \in Entry : /\ dead' = Write(dead, new) /\ new.id = f.id /\ new.seq = f.seq
                             /\ new.retry = MaxRetry + 1 /\ new.pid = NoPid
      BY <1>2, <3>2, BurialWrites
    <3>4. DeadInv'
      BY <1>2, <3>3 DEF DeadInv, Write, Name
    <3>5. ASSUME NEW g \in dead, g \notin dead' PROVE /\ new \in dead' \ dead /\ Name(new) = Name(g)
                                                    /\ new.id # g.id /\ new.id \in Ids(inflight)
      <4>1. Name(new) = Name(g) /\ new \in dead' /\ g # new
        BY <3>3, <3>5 DEF Write
      <4>2. new \notin dead
        BY <1>2, <4>1 DEF DeadInv
      <4>3. new.id # g.id
        <5>1. g \in Entry /\ g.retry = MaxRetry + 1 /\ g.pid = NoPid
          BY <1>2 DEF QueueInv, TypeOK, RetryBudget, DeadInv
        <5>2. g.seq = new.seq
          BY <4>1 DEF Name
        <5> QED BY <3>3, <4>1, <5>1, <5>2 DEF Entry
      <4>4. new.id \in Ids(inflight)
        BY <3>2, <3>3 DEF Ids
      <4> QED BY <4>1, <4>2, <4>3, <4>4
    <3>6. KeptOrReplaced
      BY <3>5 DEF KeptOrReplaced
    <3> QED BY <3>4, <3>6
  <2> QED BY <2>1, <2>2
<1>3. QueueSpec => []DeadInv
  BY <1>1, <1>2, QueueInvariant, PTL DEF QueueSpec
<1>4. QueueInv /\ DeadInv /\ [QueueNext]_queueVars => [KeptOrReplaced]_queueVars
  BY <1>2
<1> QED BY <1>3, <1>4, QueueInvariant, PTL DEF QueueSpec, BuriedIsKeptOrReplaced

-----------------------------------------------------------------------------
(***************************************************************************)
(* The drain loop.                                                         *)
(***************************************************************************)
Holding == {"reserved", "spawned", "waiting", "succeeded", "failed"}

\* f is the file of the event the loop holds in memory, whatever its pid.
IsFileOf(f, e) == f.id = e.id /\ f.seq = e.seq /\ f.retry = e.retry

\* Where the loop is decides what is inflight.
ControlInv ==
  /\ OneReservation
  /\ releasing # {} => pc = "top"
  /\ handle # NoPid <=> pc \in {"spawned", "waiting"}
  /\ pc = "peeked" => cur \in First(queue) /\ inflight = {}
  /\ pc \in Holding => cur \in Entry /\ \E f \in inflight : IsFileOf(f, cur)
  /\ pc = "reserved" => \A f \in inflight : f.pid = NoPid
  /\ pc \in {"spawned", "waiting"} => \A f \in inflight : f.pid \in {NoPid, handle}

\* Unless one was left unrecorded, every live orchestrator is the one the loop
\* waits for or the one whose pid is inflight; a reservation that is settled or
\* released has none.
RunsInv ==
  ~unrecorded =>
    /\ \A p \in Runs : p = handle \/ \E f \in inflight : f.pid = p
    /\ pc \in {"succeeded", "failed"} \/ releasing # {} => \A f \in inflight : f.pid \notin Runs

\* The budget an event has used is covered by attempts, and what is acknowledged
\* by a success.
HistoryInv ==
  /\ \A f \in queue \cup inflight : f.retry <= attempts[f.id]
  /\ \A f \in inflight : f.pid # NoPid => f.retry < attempts[f.id]
  /\ pc \in {"spawned", "waiting", "succeeded", "failed"} => cur.retry < attempts[cur.id]
  /\ pc = "succeeded" => successes[cur.id] > 0
  /\ BuriedAfterAttempts
  /\ AckedAfterSuccess

LoopInv ==
  /\ LoopTypeOK
  /\ QueueInv
  /\ ControlInv
  /\ RunsInv
  /\ HistoryInv

USE DrainAssumption

-----------------------------------------------------------------------------
(***************************************************************************)
(* What the queue operations do to inflight/ when one event is reserved.   *)
(***************************************************************************)

\* The file of the held event, and the record the loop has of it.
LEMMA HeldFile ==
  ASSUME LoopInv, pc \in Holding
  PROVE  \E f \in inflight : /\ inflight = {f}
                             /\ IsFileOf(f, cur)
                             /\ f \in Entry /\ cur \in Entry
                             /\ \A p : [f EXCEPT !.pid = p] = [cur EXCEPT !.pid = p]
<1>1. PICK f \in inflight : IsFileOf(f, cur)
  BY DEF LoopInv, ControlInv
<1>2. inflight = {f}
  BY <1>1 DEF LoopInv, ControlInv, OneReservation
<1>3. f \in Entry /\ cur \in Entry
  BY DEF LoopInv, ControlInv, QueueInv, TypeOK
<1>4. ASSUME NEW p PROVE [f EXCEPT !.pid = p] = [cur EXCEPT !.pid = p]
  BY <1>1, <1>3 DEF Entry, IsFileOf
<1> QED BY <1>1, <1>2, <1>3, <1>4

\* Releasing, attaching or acknowledging the held event is releasing, attaching
\* or acknowledging its file.
LEMMA HeldOperations ==
  ASSUME LoopInv, pc \in Holding
  PROVE  \E f \in inflight :
           /\ inflight = {f} /\ IsFileOf(f, cur)
           /\ NackReserved(cur) => NackReserved(f)
           /\ \A p : AttachPid(cur, p) => AttachPid(f, p)
           /\ AckReserved(cur) => AckReserved(f)
<1>1. PICK f \in inflight : /\ inflight = {f}
                            /\ IsFileOf(f, cur)
                            /\ f \in Entry /\ cur \in Entry
                            /\ \A p : [f EXCEPT !.pid = p] = [cur EXCEPT !.pid = p]
  BY HeldFile
<1>2. ASSUME AckReserved(cur) PROVE AckReserved(f)
  BY <1>1, <1>2 DEF AckReserved, Remove, Name, IsFileOf
<1>3. ASSUME NEW p, AttachPid(cur, p) PROVE AttachPid(f, p)
  BY <1>1, <1>3 DEF AttachPid
<1>4. ASSUME NackReserved(cur) PROVE NackReserved(f)
  <2> DEFINE retry == cur.retry + 1
  <2>1. f.retry + 1 = retry /\ f.id = cur.id
    BY <1>1 DEF IsFileOf
  <2>2. [f EXCEPT !.retry = retry, !.pid = NoPid] = [cur EXCEPT !.retry = retry, !.pid = NoPid]
    BY <1>1 DEF Entry, IsFileOf
  <2>3. [f EXCEPT !.pid = NoPid] = [cur EXCEPT !.pid = NoPid]
    BY <1>1
  <2>4. /\ Unlocked /\ releasing' = {[cur EXCEPT !.pid = NoPid]}
        /\ UNCHANGED <<inflight, accepted, acked, dropped>>
        /\ Requeue(cur, retry) \/ MoveToDeadLetter(cur, retry)
    BY <1>4 DEF NackReserved, ReleaseWrite
  <2>5. Requeue(cur, retry) => Requeue(f, retry)
    BY <2>1 DEF Requeue
  <2>6. MoveToDeadLetter(cur, retry) => MoveToDeadLetter(f, retry)
    BY <2>1, <2>2 DEF MoveToDeadLetter
  <2> QED BY <2>1, <2>3, <2>4, <2>5, <2>6 DEF NackReserved, ReleaseWrite
<1> QED BY <1>1, <1>2, <1>3, <1>4

-----------------------------------------------------------------------------
(***************************************************************************)
(* Every step of the loop is a step of the queue, or leaves it alone.      *)
(***************************************************************************)
LEMMA StepIsQueueStep ==
  ASSUME LoopInv, [Next]_vars
  PROVE  [QueueNext]_queueVars
<1>1. CASE \E id \in Event : Receive(id)
  BY <1>1 DEF Receive, QueueNext
<1>2. CASE RecoverInflight
  <2>1. Alive \in SUBSET Pid
    BY DEF Alive
  <2> QED BY <1>2, <2>1 DEF RecoverInflight, QueueNext
<1>3. CASE FinishRelease \/ RemoveFails \/ Crash
  BY <1>3 DEF FinishRelease, RemoveFails, Crash, QueueNext
<1>4. CASE SkipEvent \/ Reserve
  BY <1>4 DEF SkipEvent, Reserve, QueueNext
<1>5. CASE SpawnFails \/ Nack
  BY <1>5, HeldOperations DEF SpawnFails, Nack, Holding, QueueNext
<1>6. CASE Attach
  <2>1. handle \in Pid /\ pc \in Holding
    BY <1>6 DEF Attach, LoopInv, LoopTypeOK, ControlInv, Holding
  <2> QED BY <1>6, <2>1, HeldOperations DEF Attach, QueueNext
<1>7. CASE Ack
  BY <1>7, HeldOperations DEF Ack, Holding, QueueNext
<1>8. CASE UNCHANGED queueVars
  BY <1>8
<1>9. ASSUME \/ Peek \/ WaitPaused \/ IterationFails \/ PreparationFails \/ AttachFails \/ SettleFails
             \/ ChildSucceeds \/ ChildFails \/ WaitFails \/ ProbeRecovers \/ Start
             \/ \E p \in Pid : Spawn(p) \/ OrphanExits(p) \/ ForeignStarts(p) \/ ForeignExits(p)
             \/ UNCHANGED vars
      PROVE UNCHANGED queueVars
  BY <1>9 DEF Peek, WaitPaused, IterationFails, PreparationFails, AttachFails, SettleFails, ChildSucceeds,
              ChildFails, WaitFails, ProbeRecovers, Start, Spawn, OrphanExits, ForeignStarts,
              ForeignExits, vars
<1> QED BY <1>1, <1>2, <1>3, <1>4, <1>5, <1>6, <1>7, <1>8, <1>9
        DEF Next, LoopStep, ProcessStep, FaultStep

-----------------------------------------------------------------------------
(***************************************************************************)
(* The steps preserve the invariant.  The queue's part is StepIsQueueStep  *)
(* with the invariant of the queue; what is left is the loop's own.        *)
(***************************************************************************)
LEMMA QueuePart ==
  ASSUME LoopInv, [Next]_vars
  PROVE  QueueInv' /\ TypeOK'
  BY StepIsQueueStep, QueueInvInductive DEF LoopInv, QueueInv

LoopPart == LoopTypeOK /\ ControlInv /\ RunsInv /\ HistoryInv

\* A new event goes behind the head the loop has read.
LEMMA ReceiveKeepsInv ==
  ASSUME LoopInv, NEW id \in Event, Receive(id), TypeOK'
  PROVE  LoopPart'
<1>1. PICK s \in NextSequence :
        queue' = Write(queue, [id |-> id, seq |-> s, retry |-> 0, pid |-> NoPid])
  BY DEF Receive, Enqueue
<1> DEFINE new == [id |-> id, seq |-> s, retry |-> 0, pid |-> NoPid]
<1>2. \A g \in queue : g.seq < s
  BY NextSequenceIsFresh DEF LoopInv, QueueInv
<1>3. queue' = queue \cup {new}
  <2>1. \A g \in queue : g.seq # new.seq
    BY <1>2 DEF LoopInv, QueueInv, TypeOK, Entry
  <2> QED BY <1>1, <2>1, WriteAdds
<1>4. First(queue) \subseteq First(queue')
  BY <1>2, <1>3 DEF First, LoopInv, QueueInv, TypeOK, Entry
<1>5. UNCHANGED <<inflight, dead, releasing, acked, dropped, buried, loop, host, faults, unrecorded>>
  BY DEF Receive, Enqueue, NoFault
<1>6. LoopTypeOK'
  BY <1>5 DEF LoopInv, LoopTypeOK, loop, host
<1>7. ControlInv' /\ RunsInv'
  BY <1>4, <1>5 DEF LoopInv, ControlInv, RunsInv, OneReservation, Runs, loop, host
<1>8. HistoryInv'
  <2>1. new.retry <= attempts[new.id]
    BY DEF LoopInv, LoopTypeOK
  <2> HIDE DEF new
  <2> QED BY <1>3, <1>5, <2>1 DEF LoopInv, HistoryInv, BuriedAfterAttempts, AckedAfterSuccess, loop, host
<1> QED BY <1>6, <1>7, <1>8 DEF LoopPart

\* The copy a release writes carries no more budget than was spent.
LEMMA ReleaseWithinAttempts ==
  ASSUME LoopInv, NEW f \in inflight, NEW increment \in BOOLEAN, ReleaseWrite(f, increment),
         attempts' \in [Event -> Nat], \A e \in Event : attempts[e] <= attempts'[e],
         increment => f.retry < attempts'[f.id]
  PROVE  /\ \A g \in queue' : g.retry <= attempts'[g.id]
         /\ BuriedAfterAttempts'
<1> DEFINE retry == IF increment THEN f.retry + 1 ELSE f.retry
<1>1. /\ f \in Entry /\ retry \in Nat
      /\ Requeue(f, retry) \/ MoveToDeadLetter(f, retry)
  BY DEF LoopInv, QueueInv, TypeOK, Entry, ReleaseWrite
<1>2. retry <= attempts'[f.id]
  BY <1>1 DEF LoopInv, LoopTypeOK, HistoryInv, Entry
<1>3. /\ \A g \in queue : g.id \in Event /\ g.retry \in Nat /\ g.retry <= attempts[g.id]
      /\ \A e \in buried : e \in Event /\ attempts[e] > MaxRetry
      /\ attempts \in [Event -> Nat]
  BY DEF LoopInv, QueueInv, TypeOK, Entry, LoopTypeOK, HistoryInv, BuriedAfterAttempts
<1>4. CASE Requeue(f, retry)
  <2>1. PICK s \in NextSequence :
          queue' = Write(queue, [id |-> f.id, seq |-> s, retry |-> retry, pid |-> NoPid])
    BY <1>4 DEF Requeue
  <2>2. buried' = buried
    BY <1>4 DEF Requeue
  <2>3. \A g \in queue' : g \in queue \/ (g.id = f.id /\ g.retry = retry)
    BY <2>1 DEF Write
  <2>4. \A g \in queue' : g.retry <= attempts'[g.id]
    BY <1>2, <1>3, <2>3
  <2>5. BuriedAfterAttempts'
    BY <1>3, <2>2, QueueAssumption DEF BuriedAfterAttempts
  <2> QED BY <2>4, <2>5
<1>5. CASE MoveToDeadLetter(f, retry)
  <2>1. queue' = queue /\ buried' = buried \cup {f.id} /\ retry > MaxRetry
    BY <1>5 DEF MoveToDeadLetter
  <2>2. attempts'[f.id] > MaxRetry
    BY <1>1, <1>2, <2>1, QueueAssumption DEF Entry
  <2> QED BY <1>3, <2>1, <2>2, QueueAssumption DEF BuriedAfterAttempts
<1> QED BY <1>1, <1>4, <1>5

\* An orphan is released: it has no live process, and a process it had was an
\* attempt.
LEMMA RecoverInflightKeepsInv ==
  ASSUME LoopInv, RecoverInflight, TypeOK'
  PROVE  LoopPart'
<1>1. PICK f \in inflight : f.pid \notin Alive /\ ReleaseWrite(f, f.pid # NoPid)
  BY DEF RecoverInflight, RecoverOrphan, First, Orphans
<1>2. /\ UNCHANGED <<inflight, acked, dropped, loop, host, faults, unrecorded>>
      /\ pc = "top"
  BY <1>1 DEF RecoverInflight, ReleaseWrite, NoFault
<1>3. LoopTypeOK'
  BY <1>2 DEF LoopInv, LoopTypeOK, loop, host
<1>4. ControlInv'
  BY <1>2 DEF LoopInv, ControlInv, OneReservation, loop, Holding
<1>5. RunsInv'
  <2>1. f.pid \notin Runs /\ \A g \in inflight : g = f
    BY <1>1, {Free, Foreign} \cap Event = {}
       DEF Alive, Runs, LoopInv, ControlInv, OneReservation
  <2> QED BY <1>2, <2>1 DEF LoopInv, RunsInv, Runs, loop, host
<1>6. HistoryInv'
  <2>1. attempts' = attempts /\ attempts \in [Event -> Nat] /\ f.retry \in Nat
    BY <1>2 DEF host, LoopInv, LoopTypeOK, QueueInv, TypeOK, Entry
  <2>2. f.pid # NoPid => f.retry < attempts'[f.id]
    BY <2>1 DEF LoopInv, HistoryInv
  <2>3. (f.pid # NoPid) \in BOOLEAN /\ \A e \in Event : attempts[e] <= attempts'[e]
    BY <2>1
  <2>4. (\A g \in queue' : g.retry <= attempts'[g.id]) /\ BuriedAfterAttempts'
    BY <1>1, <2>1, <2>2, <2>3, ReleaseWithinAttempts
  <2> QED BY <1>2, <2>4 DEF LoopInv, HistoryInv, AckedAfterSuccess, loop, host
<1> QED BY <1>3, <1>4, <1>5, <1>6 DEF LoopPart

\* The inflight file of a release goes; no orchestrator had its pid.
LEMMA FinishReleaseKeepsInv ==
  ASSUME LoopInv, FinishRelease, TypeOK'
  PROVE  LoopPart'
<1>1. /\ releasing # {} /\ releasing' = {} /\ inflight' \subseteq inflight
      /\ UNCHANGED <<queue, dead, accepted, acked, dropped, buried, loop, host, faults, unrecorded>>
  BY DEF FinishRelease, ReleaseRemove, Remove, history, NoFault
<1>2. pc = "top" /\ handle = NoPid
  BY <1>1 DEF LoopInv, ControlInv
<1>3. LoopTypeOK'
  BY <1>1 DEF LoopInv, LoopTypeOK, loop, host
<1>4. ControlInv'
  BY <1>1, <1>2 DEF LoopInv, ControlInv, OneReservation, loop, Holding
<1>5. RunsInv'
  <2>1. ~unrecorded => \A g \in inflight : g.pid \notin Runs
    BY <1>1 DEF LoopInv, RunsInv
  <2>2. ~unrecorded => Runs = {}
    BY <1>2, <2>1, QueueAssumption DEF LoopInv, RunsInv, Runs
  <2> QED BY <1>1, <1>2, <2>2 DEF RunsInv, Runs, loop, host
<1>6. HistoryInv'
  BY <1>1, <1>2 DEF LoopInv, HistoryInv, BuriedAfterAttempts, AckedAfterSuccess, loop, host
<1> QED BY <1>3, <1>4, <1>5, <1>6 DEF LoopPart

\* The server ends: a child that is not recorded is noted as such.
LEMMA CrashKeepsInv ==
  ASSUME LoopInv, Crash, TypeOK'
  PROVE  LoopPart'
<1>1. /\ releasing' = {} /\ pc' = "down" /\ cur' = NoEvent /\ handle' = NoPid /\ paused' = FALSE
      /\ unrecorded' = (unrecorded \/ (handle # NoPid /\ \A f \in inflight : f.pid # handle))
      /\ faults < MaxFaults /\ faults' = faults + 1
      /\ UNCHANGED <<queue, inflight, dead, accepted, acked, dropped, buried, child, attempts, successes>>
  BY DEF Crash, ReleaseAbort, disk, history, Goto, Fault
<1>2. LoopTypeOK'
  <2>1. faults' \in 0 .. MaxFaults
    BY <1>1, MaxFaults \in Nat DEF LoopInv, LoopTypeOK
  <2>2. unrecorded' \in BOOLEAN
    BY <1>1
  <2> QED BY <1>1, <2>1, <2>2 DEF LoopInv, LoopTypeOK
<1>3. ControlInv'
  BY <1>1 DEF LoopInv, ControlInv, OneReservation, Holding
<1>4. RunsInv'
  <2>1. Runs' = Runs
    BY <1>1 DEF Runs
  <2>2. ASSUME ~unrecorded', NEW p \in Runs PROVE \E f \in inflight : f.pid = p
    <3>1. p \in Pid /\ (p = handle \/ \E f \in inflight : f.pid = p)
      BY <1>1, <2>2 DEF LoopInv, RunsInv, Runs
    <3>2. CASE p = handle
      BY <1>1, <2>2, <3>1, <3>2, QueueAssumption
    <3> QED BY <3>1, <3>2
  <2> QED BY <1>1, <2>1, <2>2 DEF RunsInv
<1>5. HistoryInv'
  BY <1>1 DEF LoopInv, HistoryInv, BuriedAfterAttempts, AckedAfterSuccess
<1> QED BY <1>2, <1>3, <1>4, <1>5 DEF LoopPart

\* The file of a release cannot be removed.
LEMMA RemoveFailsKeepsInv ==
  ASSUME LoopInv, RemoveFails, TypeOK'
  PROVE  LoopPart'
<1>1. /\ releasing' = {} /\ faults < MaxFaults /\ faults' = faults + 1
      /\ UNCHANGED <<queue, inflight, dead, accepted, acked, dropped, buried, loop, host, unrecorded>>
  BY DEF RemoveFails, ReleaseAbort, disk, history, Fault
<1>2. LoopTypeOK'
  BY <1>1, MaxFaults \in Nat DEF LoopInv, LoopTypeOK, loop, host
<1>3. ControlInv' /\ RunsInv' /\ HistoryInv'
  BY <1>1 DEF LoopInv, ControlInv, OneReservation, RunsInv, Runs, HistoryInv,
              BuriedAfterAttempts, AckedAfterSuccess, loop, host
<1> QED BY <1>2, <1>3 DEF LoopPart

\* An event nobody acts on is dropped.
LEMMA SkipKeepsInv ==
  ASSUME LoopInv, SkipEvent, TypeOK'
  PROVE  LoopPart'
<1>1. /\ pc = "peeked" /\ pc' = "top" /\ cur' = NoEvent /\ queue' \subseteq queue
      /\ UNCHANGED <<inflight, dead, releasing, acked, buried, handle, host, faults, unrecorded>>
  BY DEF SkipEvent, Dequeue, Remove, Goto, NoFault
<1>2. LoopTypeOK'
  BY <1>1 DEF LoopInv, LoopTypeOK, host
<1>3. ControlInv' /\ RunsInv' /\ HistoryInv'
  BY <1>1 DEF LoopInv, ControlInv, OneReservation, Holding, RunsInv, Runs, HistoryInv,
              BuriedAfterAttempts, AckedAfterSuccess, host
<1> QED BY <1>2, <1>3 DEF LoopPart

\* Nothing was inflight, so what is reserved is alone there.
LEMMA ReserveStepKeepsInv ==
  ASSUME LoopInv, Reserve, TypeOK'
  PROVE  LoopPart'
<1>1. PICK f \in queue : ReserveNext(f) /\ cur' = f
  BY DEF Reserve
<1>2. /\ pc = "peeked" /\ pc' = "reserved" /\ releasing = {}
      /\ inflight = {} /\ handle = NoPid
      /\ queue' \subseteq queue
      /\ UNCHANGED <<dead, releasing, acked, buried, handle, host, faults, unrecorded>>
  BY <1>1 DEF Reserve, ReserveNext, Remove, Goto, NoFault, Unlocked, LoopInv, ControlInv
<1>3. f \in Entry /\ f.pid = NoPid /\ inflight' = {f}
  BY <1>1, <1>2 DEF ReserveNext, Write, LoopInv, QueueInv, TypeOK, QueuedHasNoPid, Entry
<1>4. LoopTypeOK'
  BY <1>1, <1>2, <1>3 DEF LoopInv, LoopTypeOK, host
<1>5. ControlInv'
  BY <1>1, <1>2, <1>3 DEF LoopInv, ControlInv, OneReservation, Holding, IsFileOf
<1>6. RunsInv'
  <2>1. ~unrecorded => Runs = {}
    BY <1>2, QueueAssumption DEF LoopInv, RunsInv, Runs
  <2> QED BY <1>2, <2>1 DEF RunsInv, Runs, host
<1>7. HistoryInv'
  BY <1>1, <1>2, <1>3 DEF LoopInv, HistoryInv, BuriedAfterAttempts, AckedAfterSuccess, host
<1> QED BY <1>4, <1>5, <1>6, <1>7 DEF LoopPart

\* A failed spawn or a failed child gives the reservation back.
LEMMA NackKeepsInv ==
  ASSUME LoopInv, SpawnFails \/ Nack, TypeOK'
  PROVE  LoopPart'
<1>1. /\ pc \in {"reserved", "failed"} /\ pc' = "top" /\ cur' = NoEvent
      /\ NackReserved(cur)
      /\ UNCHANGED <<handle, child, successes, faults, unrecorded>>
      /\ paused' \in BOOLEAN
  BY DEF SpawnFails, Nack, Goto, host, NoFault, LoopInv, LoopTypeOK
<1>2. PICK f \in inflight : inflight = {f} /\ IsFileOf(f, cur) /\ ReleaseWrite(f, TRUE)
  BY <1>1, HeldOperations DEF Holding, NackReserved
<1>3. /\ releasing' # {} /\ UNCHANGED <<inflight, acked, dropped>>
      /\ f \in Entry /\ cur \in Entry /\ f.id \in Event /\ f.retry \in Nat
  BY <1>1, <1>2 DEF ReleaseWrite, LoopInv, QueueInv, TypeOK, ControlInv, Holding, Entry
<1>4. /\ attempts' \in [Event -> Nat]
      /\ \A e \in Event : attempts[e] <= attempts'[e]
      /\ f.retry < attempts'[f.id]
  <2>1. attempts \in [Event -> Nat] /\ f.retry <= attempts[f.id] /\ f.id = cur.id /\ f.retry = cur.retry
    BY <1>2 DEF LoopInv, LoopTypeOK, HistoryInv, IsFileOf
  <2>2. CASE SpawnFails
    BY <1>3, <2>1, <2>2 DEF SpawnFails
  <2>3. CASE Nack
    <3>1. attempts' = attempts /\ cur.retry < attempts[cur.id]
      BY <2>3 DEF Nack, host, LoopInv, HistoryInv
    <3> QED BY <2>1, <3>1
  <2> QED BY <2>2, <2>3
<1>5. LoopTypeOK'
  BY <1>1, <1>4 DEF LoopInv, LoopTypeOK
<1>6. ControlInv'
  BY <1>1, <1>3 DEF LoopInv, ControlInv, OneReservation, Holding
<1>7. RunsInv'
  <2>1. Runs' = Runs
    BY <1>1 DEF Runs
  <2>2. ~unrecorded => f.pid \notin Runs
    <3>1. CASE pc = "reserved"
      BY <3>1, QueueAssumption DEF LoopInv, ControlInv, Runs
    <3>2. CASE pc = "failed"
      BY <3>2 DEF LoopInv, RunsInv
    <3> QED BY <1>1, <3>1, <3>2
  <2> QED BY <1>1, <1>2, <1>3, <2>1, <2>2 DEF LoopInv, RunsInv
<1>8. HistoryInv'
  <2>1. (\A g \in queue' : g.retry <= attempts'[g.id]) /\ BuriedAfterAttempts'
    BY <1>2, <1>4, ReleaseWithinAttempts
  <2>2. \A g \in inflight' : g = f
    BY <1>2, <1>3
  <2> QED BY <1>1, <1>3, <1>4, <2>1, <2>2 DEF LoopInv, HistoryInv, AckedAfterSuccess
<1> QED BY <1>5, <1>6, <1>7, <1>8 DEF LoopPart

\* The file is rewritten with the pid the loop waits for.
LEMMA AttachStepKeepsInv ==
  ASSUME LoopInv, Attach, TypeOK'
  PROVE  LoopPart'
<1>1. /\ pc = "spawned" /\ pc' = "waiting" /\ releasing = {} /\ handle \in Pid
      /\ AttachPid(cur, handle)
      /\ UNCHANGED <<queue, dead, releasing, acked, dropped, buried, cur, handle, host, faults, unrecorded>>
  BY DEF Attach, AttachPid, Unlocked, Goto, NoFault, LoopInv, LoopTypeOK, ControlInv
<1>2. PICK f \in inflight : inflight = {f} /\ IsFileOf(f, cur) /\ f \in Entry /\ cur \in Entry
  BY <1>1, HeldFile DEF Holding
<1>3. PICK g \in Entry : inflight' = {g} /\ IsFileOf(g, cur) /\ g.pid = handle
  <2> DEFINE g == [cur EXCEPT !.pid = handle]
  <2>1. g \in Entry /\ IsFileOf(g, cur) /\ g.pid = handle
    BY <1>1, <1>2 DEF Entry, IsFileOf
  <2>2. inflight' = {g}
    <3>1. inflight' = {h \in inflight : Name(h) # Name(g)} \cup {g}
      BY <1>1 DEF AttachPid, Write
    <3>2. Name(f) = Name(g)
      BY <1>2, <2>1 DEF Name, IsFileOf
    <3> QED BY <1>2, <3>1, <3>2
  <2> QED BY <2>1, <2>2
<1>4. LoopTypeOK'
  BY <1>1 DEF LoopInv, LoopTypeOK, host
<1>5. ControlInv'
  BY <1>1, <1>2, <1>3 DEF LoopInv, ControlInv, OneReservation, Holding
<1>6. RunsInv'
  <2>1. ~unrecorded => \A p \in Runs : p = handle
    BY <1>1, QueueAssumption DEF LoopInv, ControlInv, RunsInv, Runs
  <2> QED BY <1>1, <2>1 DEF RunsInv, Runs, host
<1>7. HistoryInv'
  <2>1. cur.retry < attempts[cur.id] /\ attempts' = attempts /\ successes' = successes
    BY <1>1 DEF LoopInv, HistoryInv, host
  <2>2. g.id = cur.id /\ g.retry = cur.retry /\ g.retry \in Nat /\ attempts[g.id] \in Nat
    BY <1>3 DEF IsFileOf, Entry, LoopInv, LoopTypeOK
  <2>3. g.retry <= attempts[g.id]
    BY <2>1, <2>2
  <2> QED BY <1>1, <1>3, <2>1, <2>2, <2>3 DEF LoopInv, HistoryInv, BuriedAfterAttempts, AckedAfterSuccess
<1> QED BY <1>4, <1>5, <1>6, <1>7 DEF LoopPart

\* The loop acknowledges its event.
LEMMA AckStepKeepsInv ==
  ASSUME LoopInv, Ack, TypeOK'
  PROVE  LoopPart'
<1>1. /\ pc = "succeeded" /\ pc' = "top" /\ cur' = NoEvent /\ handle = NoPid
      /\ AckReserved(cur) /\ acked' = acked \cup {cur.id}
      /\ UNCHANGED <<queue, dead, releasing, dropped, buried, handle, host, faults, unrecorded>>
  BY DEF Ack, AckReserved, Goto, NoFault, LoopInv, ControlInv
<1>2. PICK f \in inflight : inflight = {f} /\ IsFileOf(f, cur)
  BY <1>1, HeldFile DEF Holding
<1>3. inflight' = {}
  BY <1>1, <1>2 DEF AckReserved, Remove, Name, IsFileOf
<1>4. LoopTypeOK'
  BY <1>1 DEF LoopInv, LoopTypeOK, host
<1>5. ControlInv'
  BY <1>1, <1>3 DEF LoopInv, ControlInv, OneReservation, Holding
<1>6. RunsInv'
  <2>1. ~unrecorded => Runs = {}
    BY <1>1, QueueAssumption DEF LoopInv, RunsInv, Runs
  <2> QED BY <1>1, <1>3, <2>1 DEF RunsInv, Runs, host
<1>7. HistoryInv'
  BY <1>1, <1>3 DEF LoopInv, HistoryInv, BuriedAfterAttempts, AckedAfterSuccess, host
<1> QED BY <1>4, <1>5, <1>6, <1>7 DEF LoopPart

\* No reserved event has a live orchestrator when one is spawned.
LEMMA SpawnKeepsInv ==
  ASSUME LoopInv, NEW p \in Pid, Spawn(p), TypeOK'
  PROVE  LoopPart'
<1>1. /\ pc = "reserved" /\ pc' = "spawned" /\ handle = NoPid /\ handle' = p
      /\ child' = [child EXCEPT ![p] = cur.id]
      /\ attempts' = [attempts EXCEPT ![cur.id] = @ + 1]
      /\ UNCHANGED <<queueVars, cur, paused, successes, faults, unrecorded>>
  BY DEF Spawn, Goto, NoFault, LoopInv, ControlInv
<1>2. PICK f \in inflight : inflight = {f} /\ IsFileOf(f, cur) /\ f \in Entry /\ cur \in Entry
  BY <1>1, HeldFile DEF Holding
<1>3. f.pid = NoPid /\ f.retry = cur.retry /\ f.id = cur.id /\ cur.id \in Event
  BY <1>1, <1>2 DEF LoopInv, ControlInv, IsFileOf, Entry
<1>4. LoopTypeOK'
  BY <1>1, <1>3 DEF LoopInv, LoopTypeOK
<1>5. ControlInv'
  BY <1>1, <1>2, <1>3, QueueAssumption DEF LoopInv, ControlInv, OneReservation, Holding, queueVars
<1>6. RunsInv'
  <2>1. ~unrecorded => Runs = {}
    BY <1>1, <1>2, <1>3, QueueAssumption DEF LoopInv, RunsInv, Runs
  <2>2. Runs' \subseteq Runs \cup {p}
    BY <1>1 DEF Runs, LoopInv, LoopTypeOK
  <2>3. releasing' = {}
    BY <1>1 DEF LoopInv, ControlInv, queueVars
  <2> QED BY <1>1, <2>1, <2>2, <2>3 DEF RunsInv
<1>7. HistoryInv'
  <2>1. /\ attempts \in [Event -> Nat] /\ attempts'[cur.id] = attempts[cur.id] + 1
        /\ \A e \in Event : attempts[e] <= attempts'[e]
    BY <1>1, <1>3 DEF LoopInv, LoopTypeOK
  <2>2. \A g \in queue \cup inflight : g.id \in Event /\ g.retry \in Nat
    BY DEF LoopInv, QueueInv, TypeOK, Entry
  <2>3. \A g \in queue' \cup inflight' : g.retry <= attempts'[g.id]
    <3>1. ASSUME NEW g \in queue \cup inflight PROVE g.retry <= attempts'[g.id]
      <4>1. g.retry <= attempts[g.id] /\ attempts[g.id] <= attempts'[g.id] /\ g.retry \in Nat
            /\ attempts[g.id] \in Nat /\ attempts'[g.id] \in Nat
        BY <1>1, <2>1, <2>2 DEF LoopInv, HistoryInv
      <4> QED BY <4>1
    <3> QED BY <1>1, <3>1 DEF queueVars
  <2>4. \A g \in inflight' : g.pid = NoPid
    BY <1>1, <1>2, <1>3 DEF queueVars
  <2>5. cur.retry < attempts'[cur.id]
    BY <1>2, <1>3, <2>1 DEF LoopInv, HistoryInv, Entry
  <2>6. BuriedAfterAttempts'
    <3>1. ASSUME NEW e \in buried PROVE attempts'[e] > MaxRetry
      <4>1. e \in Event /\ attempts[e] > MaxRetry /\ attempts[e] <= attempts'[e] /\ attempts[e] \in Nat
            /\ attempts'[e] \in Nat
        BY <1>1, <2>1 DEF LoopInv, HistoryInv, BuriedAfterAttempts, QueueInv, TypeOK
      <4> QED BY <4>1, QueueAssumption
    <3> QED BY <1>1, <3>1 DEF BuriedAfterAttempts, queueVars
  <2> QED BY <1>1, <2>3, <2>4, <2>5, <2>6 DEF LoopInv, HistoryInv, AckedAfterSuccess, queueVars
<1> QED BY <1>4, <1>5, <1>6, <1>7 DEF LoopPart

\* The child the loop waits for ends.
LEMMA ChildEndsKeepsInv ==
  ASSUME LoopInv, ChildSucceeds \/ ChildFails, TypeOK'
  PROVE  LoopPart'
<1>1. /\ pc = "waiting" /\ pc' \in {"succeeded", "failed"} /\ handle' = NoPid
      /\ child' = [child EXCEPT ![handle] = Free]
      /\ UNCHANGED <<queueVars, cur, attempts, faults, unrecorded>>
      /\ handle \in Pid /\ cur \in Entry /\ releasing = {}
      /\ paused' \in BOOLEAN
  BY DEF ChildSucceeds, ChildFails, Goto, NoFault, LoopInv, LoopTypeOK, ControlInv, Holding
<1>2. /\ successes' \in [Event -> Nat]
      /\ \A e \in Event : successes[e] > 0 => successes'[e] > 0
      /\ pc' = "succeeded" => successes'[cur.id] > 0
  <2>1. successes \in [Event -> Nat] /\ cur.id \in Event
    BY <1>1 DEF LoopInv, LoopTypeOK, Entry
  <2>2. CASE ChildSucceeds
    BY <2>1, <2>2 DEF ChildSucceeds
  <2>3. CASE ChildFails
    BY <2>1, <2>3 DEF ChildFails, Goto
  <2> QED BY <2>2, <2>3
<1>3. LoopTypeOK'
  BY <1>1, <1>2 DEF LoopInv, LoopTypeOK
<1>4. ControlInv'
  BY <1>1 DEF LoopInv, ControlInv, OneReservation, Holding, queueVars
<1>5. RunsInv'
  <2>1. Runs' = Runs \ {handle}
    BY <1>1, DrainAssumption DEF Runs, LoopInv, LoopTypeOK
  <2>2. \A f \in inflight : f.pid \in {NoPid, handle}
    BY <1>1 DEF LoopInv, ControlInv
  <2>3. \A f \in inflight : f.pid \notin Runs'
    BY <2>1, <2>2, QueueAssumption DEF Runs
  <2> QED BY <1>1, <2>1, <2>3 DEF LoopInv, RunsInv, queueVars
<1>6. HistoryInv'
  <2>1. \A e \in acked : e \in Event
    BY DEF LoopInv, QueueInv, TypeOK
  <2> QED BY <1>1, <1>2, <2>1 DEF LoopInv, HistoryInv, BuriedAfterAttempts, AckedAfterSuccess, queueVars
<1> QED BY <1>3, <1>4, <1>5, <1>6 DEF LoopPart

\* The wait fails: the child is given up, and noted as such.
LEMMA WaitFailsKeepsInv ==
  ASSUME LoopInv, WaitFails, TypeOK'
  PROVE  LoopPart'
<1>1. /\ pc = "waiting" /\ pc' = "failed" /\ handle' = NoPid /\ paused' = TRUE /\ unrecorded' = TRUE
      /\ faults < MaxFaults /\ faults' = faults + 1
      /\ UNCHANGED <<queueVars, cur, child, attempts, successes>>
      /\ releasing = {}
  BY DEF WaitFails, Goto, Fault, LoopInv, ControlInv
<1>2. LoopTypeOK'
  <2>1. faults' \in 0 .. MaxFaults
    BY <1>1, DrainAssumption DEF LoopInv, LoopTypeOK
  <2> QED BY <1>1, <2>1 DEF LoopInv, LoopTypeOK
<1>3. ControlInv'
  BY <1>1 DEF LoopInv, ControlInv, OneReservation, Holding, queueVars
<1>4. RunsInv' /\ HistoryInv'
  BY <1>1 DEF LoopInv, RunsInv, HistoryInv, BuriedAfterAttempts, AckedAfterSuccess, queueVars
<1> QED BY <1>2, <1>3, <1>4 DEF LoopPart

\* Other processes of the host come and go.
LEMMA HostKeepsInv ==
  ASSUME LoopInv, NEW p \in Pid, OrphanExits(p) \/ ForeignStarts(p) \/ ForeignExits(p), TypeOK'
  PROVE  LoopPart'
<1>1. /\ child' \in [Pid -> Event \cup {Free, Foreign}]
      /\ Runs' \subseteq Runs
      /\ UNCHANGED <<queueVars, loop, paused, attempts, unrecorded>>
      /\ faults' \in 0 .. MaxFaults
  BY DrainAssumption DEF OrphanExits, ForeignStarts, ForeignExits, Runs, NoFault, Fault, LoopInv, LoopTypeOK
<1>2. /\ successes' \in [Event -> Nat]
      /\ \A e \in Event : successes[e] > 0 => successes'[e] > 0
  <2>1. successes \in [Event -> Nat]
    BY DEF LoopInv, LoopTypeOK
  <2> QED BY <2>1 DEF OrphanExits, ForeignStarts, ForeignExits, Runs
<1>3. LoopTypeOK'
  BY <1>1, <1>2 DEF LoopInv, LoopTypeOK, loop
<1>4. ControlInv' /\ RunsInv'
  BY <1>1 DEF LoopInv, ControlInv, OneReservation, RunsInv, loop, queueVars
<1>5. HistoryInv'
  <2>1. /\ \A e \in acked : e \in Event
        /\ pc = "succeeded" => cur.id \in Event
    BY DEF LoopInv, QueueInv, TypeOK, ControlInv, Holding, Entry
  <2> QED BY <1>1, <1>2, <2>1 DEF LoopInv, HistoryInv, BuriedAfterAttempts, AckedAfterSuccess, loop, queueVars
<1> QED BY <1>3, <1>4, <1>5 DEF LoopPart

\* The steps that move only the loop, or only the rate limiter.
LEMMA QuietKeepsInv ==
  ASSUME LoopInv, TypeOK',
         \/ Peek \/ WaitPaused \/ IterationFails \/ PreparationFails \/ AttachFails \/ SettleFails
         \/ ProbeRecovers \/ Start \/ UNCHANGED vars
  PROVE  LoopPart'
<1>1. /\ UNCHANGED <<queueVars, handle, child, attempts, successes, unrecorded>>
      /\ paused' \in BOOLEAN
      /\ faults' \in 0 .. MaxFaults
  <2>1. /\ UNCHANGED <<queueVars, handle, child, attempts, successes, unrecorded>>
        /\ paused' \in {paused, FALSE}
    BY DEF Peek, WaitPaused, IterationFails, PreparationFails, AttachFails, SettleFails, ProbeRecovers, Start,
           vars, loop, host, NoFault
  <2>2. faults' = faults \/ Fault
    BY DEF Peek, WaitPaused, IterationFails, PreparationFails, AttachFails, SettleFails, ProbeRecovers, Start,
           vars, NoFault
  <2>3. faults \in 0 .. MaxFaults /\ paused \in BOOLEAN
    BY DEF LoopInv, LoopTypeOK
  <2>4. faults' \in 0 .. MaxFaults
    BY <2>2, <2>3, DrainAssumption DEF Fault
  <2> QED BY <2>1, <2>3, <2>4
<1>2. \/ pc' = "top" /\ cur' = NoEvent /\ pc \in {"peeked", "reserved", "succeeded", "failed"}
      \/ pc' = "top" /\ cur' = cur /\ pc = "down"
      \/ pc' = pc /\ cur' = cur
      \/ pc' = "peeked" /\ pc = "top" /\ cur' \in First(queue) /\ inflight = {} /\ releasing = {}
      \/ pc' = "waiting" /\ pc = "spawned" /\ cur' = cur
  BY DEF Peek, WaitPaused, IterationFails, PreparationFails, AttachFails, SettleFails, ProbeRecovers, Start, Goto,
         Unlocked, vars, loop
<1>3. First(queue) \subseteq Entry
  BY DEF First, LoopInv, QueueInv, TypeOK
<1>4. LoopTypeOK'
  BY <1>1, <1>2, <1>3 DEF LoopInv, LoopTypeOK, queueVars
<1>5. First(queue') = First(queue)
  BY <1>1 DEF First, queueVars
<1>6. ControlInv'
  BY <1>1, <1>2, <1>5 DEF LoopInv, ControlInv, OneReservation, Holding, queueVars
<1>7. RunsInv'
  <2>1. Runs' = Runs
    BY <1>1 DEF Runs
  <2> QED BY <1>1, <1>2, <2>1 DEF LoopInv, RunsInv, ControlInv, queueVars
<1>8. HistoryInv'
  BY <1>1, <1>2 DEF LoopInv, HistoryInv, BuriedAfterAttempts, AckedAfterSuccess, queueVars
<1> QED BY <1>4, <1>6, <1>7, <1>8 DEF LoopPart

-----------------------------------------------------------------------------
\* One step of the loop, of a process or of the environment.
LEMMA LoopInvInductive == LoopInv /\ [Next]_vars => LoopInv'
<1> SUFFICES ASSUME LoopInv, [Next]_vars, QueueInv' /\ TypeOK'
             PROVE  LoopPart'
  BY QueuePart DEF LoopInv, LoopPart
<1>1. CASE \E id \in Event : Receive(id)
  BY <1>1, ReceiveKeepsInv
<1>2. CASE RecoverInflight \/ FinishRelease \/ SkipEvent \/ Reserve
  BY <1>2, RecoverInflightKeepsInv, FinishReleaseKeepsInv, SkipKeepsInv, ReserveStepKeepsInv
<1>3. CASE Attach \/ Ack \/ SpawnFails \/ Nack
  BY <1>3, AttachStepKeepsInv, AckStepKeepsInv, NackKeepsInv
<1>4. CASE Crash \/ RemoveFails
  BY <1>4, CrashKeepsInv, RemoveFailsKeepsInv
<1>5. CASE ChildSucceeds \/ ChildFails \/ WaitFails
  BY <1>5, ChildEndsKeepsInv, WaitFailsKeepsInv
<1>6. CASE \E p \in Pid : Spawn(p)
  BY <1>6, SpawnKeepsInv
<1>7. CASE \E p \in Pid : OrphanExits(p) \/ ForeignStarts(p) \/ ForeignExits(p)
  BY <1>7, HostKeepsInv
<1>8. CASE \/ Peek \/ WaitPaused \/ IterationFails \/ PreparationFails \/ AttachFails \/ SettleFails
           \/ ProbeRecovers \/ Start \/ UNCHANGED vars
  BY <1>8, QuietKeepsInv
<1> QED BY <1>1, <1>2, <1>3, <1>4, <1>5, <1>6, <1>7, <1>8
        DEF Next, LoopStep, ProcessStep, FaultStep

\* The invariant holds of every behaviour of the loop.
THEOREM LoopInvariant == Spec => []LoopInv
<1>1. Init => LoopInv
  <2> SUFFICES ASSUME Init PROVE LoopInv
    OBVIOUS
  <2>1. /\ queue = {} /\ inflight = {} /\ dead = {} /\ releasing = {}
        /\ accepted = {} /\ acked = {} /\ dropped = {} /\ buried = {}
        /\ pc = "down" /\ cur = NoEvent /\ handle = NoPid /\ child = [p \in Pid |-> Free]
        /\ paused = FALSE /\ faults = 0 /\ unrecorded = FALSE
        /\ attempts = [e \in Event |-> 0] /\ successes = [e \in Event |-> 0]
    BY DEF Init, QueueInit
  <2>2. QueueInv
    BY <2>1 DEF QueueInv, TypeOK, DistinctSequences, RetryBudget, QueuedHasNoPid,
                ReleasingIsCopied, NothingLost
  <2>3. LoopTypeOK
    <3>1. TypeOK /\ faults \in 0 .. MaxFaults
      BY <2>1, <2>2, DrainAssumption DEF QueueInv
    <3>2. child \in [Pid -> Event \cup {Free, Foreign}]
      BY <2>1
    <3>3. attempts \in [Event -> Nat] /\ successes \in [Event -> Nat]
      BY <2>1
    <3> QED BY <2>1, <3>1, <3>2, <3>3 DEF LoopTypeOK
  <2>4. ControlInv
    BY <2>1 DEF ControlInv, OneReservation, Holding
  <2>5. Runs = {}
    BY <2>1, DrainAssumption DEF Runs
  <2>6. RunsInv /\ HistoryInv
    BY <2>1, <2>5 DEF RunsInv, HistoryInv, BuriedAfterAttempts, AckedAfterSuccess
  <2> QED BY <2>2, <2>3, <2>4, <2>6 DEF LoopInv
<1> QED BY <1>1, LoopInvInductive, PTL DEF Spec

\* The server drives its queue as the queue's interface asks: every behaviour
\* of the loop is one of QueueSpec, so no event is lost, numbers are distinct
\* and order and budget are kept (QueueInvariant) in the running server.
THEOREM LoopImplementsQueue == Spec => QueueSpec
<1>1. Init => QueueInit
  BY DEF Init
<1>2. LoopInv /\ [Next]_vars => [QueueNext]_queueVars
  BY StepIsQueueStep
<1> QED BY <1>1, <1>2, LoopInvariant, PTL DEF Spec, QueueSpec

\* At most one event is reserved, whatever crashes, restarts and failed disk
\* operations left behind.
THEOREM OneReservationAtATime == Spec => []OneReservation
  BY LoopInvariant, PTL DEF LoopInv, ControlInv

\* Once every child is recorded, a repository has at most one orchestrator
\* alive, across restarts of its server.
THEOREM OneOrchestratorOnceRecorded == Spec => []SerialOnceRecorded
<1>1. LoopInv => SerialOnceRecorded
  <2> SUFFICES ASSUME LoopInv, ~unrecorded, NEW p \in Runs, NEW q \in Runs
               PROVE  p = q
    BY DEF SerialOnceRecorded
  <2>1. /\ p \in Pid /\ q \in Pid
        /\ p = handle \/ \E f \in inflight : f.pid = p
        /\ q = handle \/ \E f \in inflight : f.pid = q
    BY DEF LoopInv, RunsInv, Runs
  <2>2. CASE handle = NoPid
    BY <2>1, <2>2, QueueAssumption DEF LoopInv, ControlInv, OneReservation
  <2>3. CASE handle # NoPid
    BY <2>1, <2>3, QueueAssumption DEF LoopInv, ControlInv
  <2> QED BY <2>2, <2>3
<1> QED BY <1>1, LoopInvariant, PTL

\* No event is dead-lettered with attempts left: crashes cost no budget.
THEOREM NoEarlyDeadLetter == Spec => []BuriedAfterAttempts
  BY LoopInvariant, PTL DEF LoopInv, HistoryInv

\* No event is acknowledged before a run of it succeeded.
THEOREM NoEarlyAcknowledgement == Spec => []AckedAfterSuccess
  BY LoopInvariant, PTL DEF LoopInv, HistoryInv

\* What was judged is what is dropped or run: nothing changes the head of the
\* queue between the two acquisitions of the lock.
THEOREM JudgedEventIsTaken == Spec => JudgedIsTaken
<1>1. LoopInv /\ [Next]_vars => [TakesJudged]_vars
  <2> SUFFICES ASSUME LoopInv, Next PROVE TakesJudged
    BY DEF vars
  <2>1. ASSUME pc = "peeked", NEW f \in First(queue) PROVE f = cur
    BY <2>1 DEF First, LoopInv, ControlInv, QueueInv, DistinctSequences, TypeOK, Entry
  <2>2. CASE SkipEvent
    BY <2>1, <2>2 DEF TakesJudged, SkipEvent, Dequeue, Goto
  <2>3. CASE Reserve
    BY <2>1, <2>3 DEF TakesJudged, Reserve, ReserveNext
  <2>4. CASE ~SkipEvent /\ ~Reserve
    <3>1. dropped' = dropped
      BY <2>4 DEF Next, LoopStep, ProcessStep, FaultStep, Receive, Enqueue, RecoverInflight,
         RecoverOrphan, ReleaseWrite, FinishRelease, ReleaseRemove, Peek, WaitPaused, Spawn,
         Attach, AttachPid, Ack, AckReserved, Nack, NackReserved, ChildSucceeds, ChildFails, WaitFails,
         OrphanExits, ForeignExits, IterationFails, PreparationFails, SpawnFails, AttachFails, SettleFails,
         RemoveFails, ReleaseAbort, Crash, ForeignStarts, ProbeRecovers, Start, queueVars, history
    <3>2. pc = "peeked" => pc' # "reserved"
      BY <2>4 DEF Next, LoopStep, ProcessStep, FaultStep, Receive, RecoverInflight,
         FinishRelease, Peek, WaitPaused, Spawn, Attach, Ack, Nack, ChildSucceeds, ChildFails, WaitFails,
         OrphanExits, ForeignExits, IterationFails, PreparationFails, SpawnFails, AttachFails, SettleFails,
         RemoveFails, Crash, ForeignStarts, ProbeRecovers, Start, loop, Goto
    <3> QED BY <3>1, <3>2 DEF TakesJudged
  <2> QED BY <2>2, <2>3, <2>4
<1> QED BY <1>1, LoopInvariant, PTL DEF Spec, JudgedIsTaken

-----------------------------------------------------------------------------
(***************************************************************************)
(* The loop implements the channel.                                        *)
(***************************************************************************)
Owed == Ids(queue \cup inflight)

\* A live orchestrator was counted as an attempt; what the loop holds is an
\* event it acts on.
ChannelInv ==
  /\ \A p \in Runs : attempts[child[p]] > 0
  /\ pc \in Holding => cur.id \in Actionable

\* One step, with what is known before and after it.
LEMMA ChannelInvInductive ==
  ASSUME LoopInv, ChannelInv, [Next]_vars
  PROVE  ChannelInv'
<1>1. CASE \E p \in Pid : Spawn(p)
  <2>1. PICK p \in Pid : Spawn(p)
    BY <1>1
  <2>2. cur.id \in Actionable /\ cur' = cur
    BY <2>1 DEF Spawn, ChannelInv, Holding
  <2>3. /\ child' = [child EXCEPT ![p] = cur.id]
        /\ attempts' = [attempts EXCEPT ![cur.id] = @ + 1]
        /\ attempts \in [Event -> Nat] /\ cur.id \in Event
    BY <2>1, <2>2 DEF Spawn, LoopInv, LoopTypeOK
  <2>4. ASSUME NEW q \in Runs' PROVE attempts'[child'[q]] > 0
    <3>1. CASE q = p
      BY <2>3, <3>1 DEF LoopInv, LoopTypeOK
    <3>2. CASE q # p
      <4>1. q \in Runs /\ child'[q] = child[q] /\ child[q] \in Event
        BY <2>3, <2>4, <3>2 DEF Runs
      <4> QED BY <2>3, <4>1 DEF ChannelInv
    <3> QED BY <3>1, <3>2
  <2> QED BY <2>2, <2>4 DEF ChannelInv
<1>2. CASE SpawnFails
  <2>1. /\ attempts' = [attempts EXCEPT ![cur.id] = @ + 1] /\ attempts \in [Event -> Nat]
        /\ Runs' = Runs /\ child' = child /\ pc' = "top"
    BY <1>2 DEF SpawnFails, Goto, Runs, LoopInv, LoopTypeOK
  <2>2. ASSUME NEW q \in Runs PROVE attempts'[child[q]] > 0
    BY <2>1 DEF ChannelInv, Runs
  <2> QED BY <2>1, <2>2 DEF ChannelInv, Holding
<1>3. CASE Reserve
  <2>1. cur.id \in Actionable /\ pc = "peeked" /\ UNCHANGED <<child, attempts>>
    BY <1>3 DEF Reserve, host
  <2>2. PICK f \in queue : f \in First(queue) /\ cur' = f
    BY <1>3 DEF Reserve, ReserveNext
  <2>3. f = cur
    BY <2>1, <2>2 DEF First, LoopInv, ControlInv, QueueInv, DistinctSequences, TypeOK, Entry
  <2> QED BY <2>1, <2>2, <2>3 DEF ChannelInv, Runs
<1>4. CASE ~Reserve /\ ~SpawnFails /\ ~\E p \in Pid : Spawn(p)
  <2>1. /\ attempts' = attempts
        /\ Runs' \subseteq Runs
        /\ \A p \in Runs' : child'[p] = child[p]
    BY <1>4 DEF Next, LoopStep, ProcessStep, FaultStep, Receive, RecoverInflight,
       FinishRelease, Peek, SkipEvent, WaitPaused, Attach, Ack, Nack, ChildSucceeds, ChildFails, WaitFails,
       OrphanExits, ForeignExits, IterationFails, PreparationFails, AttachFails, SettleFails,
       RemoveFails, Crash, ForeignStarts, ProbeRecovers, Start, vars, host, Runs, LoopInv, LoopTypeOK
  <2>2. pc' \in Holding => pc \in Holding /\ cur' = cur
    BY <1>4 DEF Next, LoopStep, ProcessStep, FaultStep, Receive, RecoverInflight,
       FinishRelease, Peek, SkipEvent, WaitPaused, Attach, Ack, Nack, ChildSucceeds, ChildFails, WaitFails,
       OrphanExits, ForeignExits, IterationFails, PreparationFails, AttachFails, SettleFails,
       RemoveFails, Crash, ForeignStarts, ProbeRecovers, Start, vars, loop, Goto, Holding
  <2> QED BY <2>1, <2>2 DEF ChannelInv
<1> QED BY <1>1, <1>2, <1>3, <1>4

\* A release writes the copy of an event that is owed: nothing new is owed, and
\* nothing is forgotten yet.
LEMMA ReleaseOwes ==
  ASSUME LoopInv, NEW f \in inflight, NEW increment \in BOOLEAN, ReleaseWrite(f, increment)
  PROVE  Owed' = Owed /\ accepted' = accepted
<1> DEFINE retry == IF increment THEN f.retry + 1 ELSE f.retry
<1>1. inflight' = inflight /\ accepted' = accepted /\ (Requeue(f, retry) \/ MoveToDeadLetter(f, retry))
  BY DEF ReleaseWrite
<1>2. CASE MoveToDeadLetter(f, retry)
  BY <1>1, <1>2 DEF MoveToDeadLetter, Owed
<1>3. CASE Requeue(f, retry)
  <2>1. PICK s \in NextSequence :
          queue' = Write(queue, [id |-> f.id, seq |-> s, retry |-> retry, pid |-> NoPid])
    BY <1>3 DEF Requeue
  <2>2. queue' = queue \cup {[id |-> f.id, seq |-> s, retry |-> retry, pid |-> NoPid]}
    BY <2>1, NextSequenceIsFresh, WriteAdds DEF LoopInv, QueueInv
  <2> QED BY <1>1, <2>2 DEF Owed, Ids
<1> QED BY <1>1, <1>2, <1>3

\* What is no longer owed, step by step, is what the channel lets go.
LEMMA StepIsChannelStep ==
  ASSUME LoopInv, ChannelInv, [Next]_vars
  PROVE  [Channel!Next]_(Channel!channelVars)
<1> USE DEF Channel!channelVars
<1>a. Owed \subseteq Event
  BY DEF LoopInv, QueueInv, TypeOK, Entry, Owed, Ids
<1>b. pc \in Holding => \E f \in inflight : inflight = {f} /\ IsFileOf(f, cur)
  BY HeldFile
<1>1. CASE \E id \in Event : Receive(id)
  <2>1. PICK id \in Event : Receive(id)
    BY <1>1
  <2>2. PICK s \in NextSequence :
          queue' = Write(queue, [id |-> id, seq |-> s, retry |-> 0, pid |-> NoPid])
    BY <2>1 DEF Receive, Enqueue
  <2>3. queue' = queue \cup {[id |-> id, seq |-> s, retry |-> 0, pid |-> NoPid]}
    BY <2>2, NextSequenceIsFresh, WriteAdds DEF LoopInv, QueueInv
  <2>4. /\ id \notin accepted /\ accepted' = accepted \cup {id}
        /\ UNCHANGED <<inflight, attempts, successes>>
    BY <2>1 DEF Receive, Enqueue, host
  <2>5. Owed' = Owed \cup {id}
    <3> DEFINE file == [id |-> id, seq |-> s, retry |-> 0, pid |-> NoPid]
    <3>1. file.id = id
      OBVIOUS
    <3> HIDE DEF file
    <3>2. queue' \cup inflight' = (queue \cup inflight) \cup {file}
      BY <2>3, <2>4 DEF file
    <3> QED BY <3>1, <3>2 DEF Owed, Ids
  <2>6. Channel!Accept(id)
    BY <2>4, <2>5 DEF Channel!Accept, Owed
  <2> QED BY <2>6 DEF Channel!Next
<1>2. CASE RecoverInflight
  <2>1. PICK f \in inflight : RecoverOrphan(f, Alive)
    BY <1>2 DEF RecoverInflight
  <2>2. UNCHANGED <<attempts, successes>>
    BY <1>2 DEF RecoverInflight, host
  <2>3. (f.pid # NoPid) \in BOOLEAN /\ ReleaseWrite(f, f.pid # NoPid)
    BY <2>1 DEF RecoverOrphan
  <2>4. Owed' = Owed /\ accepted' = accepted
    BY <2>3, ReleaseOwes
  <2> QED BY <2>2, <2>4 DEF Owed
<1>3. CASE FinishRelease
  <2>1. PICK r \in releasing : inflight' = Remove(inflight, r)
    BY <1>3 DEF FinishRelease, ReleaseRemove
  <2>2. UNCHANGED <<queue, accepted, attempts, successes>>
    BY <1>3 DEF FinishRelease, ReleaseRemove, history, host
  <2>3. \A g \in inflight : g \notin inflight' => g.id = r.id
    BY <2>1 DEF Remove, Name, LoopInv, QueueInv, ReleasingIsCopied
  <2>4. /\ inflight' \subseteq inflight
        /\ r.id \in Ids(queue) \cup buried
    BY <2>1 DEF Remove, LoopInv, QueueInv, ReleasingIsCopied
  <2>5. Owed' = Owed \/ Owed' = Owed \ {r.id}
    BY <2>2, <2>3, <2>4 DEF Owed, Ids
  <2>6. CASE r.id \in Ids(queue)
    <3>1. Owed' = Owed
      BY <2>2, <2>3, <2>4, <2>6 DEF Owed, Ids
    <3> QED BY <2>2, <3>1 DEF Owed
  <2>7. CASE r.id \notin Ids(queue) /\ Owed' # Owed
    <3>1. attempts[r.id] > MaxRetry /\ r.id \in Owed /\ Owed' = Owed \ {r.id}
      BY <2>4, <2>5, <2>7 DEF LoopInv, HistoryInv, BuriedAfterAttempts
    <3>2. Channel!GiveUp(r.id)
      BY <2>2, <3>1 DEF Channel!GiveUp, Channel!Forget, Owed
    <3> QED BY <1>a, <3>1, <3>2 DEF Channel!Next
  <2> QED BY <2>2, <2>6, <2>7 DEF Owed
<1>4. CASE SkipEvent
  <2>1. PICK f \in queue : f \in First(queue) /\ queue' = Remove(queue, f)
    BY <1>4 DEF SkipEvent, Dequeue
  <2>2. /\ pc = "peeked" /\ cur.id \notin Actionable /\ inflight = {}
        /\ UNCHANGED <<inflight, accepted, attempts, successes>>
    BY <1>4 DEF SkipEvent, Dequeue, host, LoopInv, ControlInv
  <2>3. f = cur
    BY <2>1, <2>2 DEF First, LoopInv, ControlInv, QueueInv, DistinctSequences, TypeOK, Entry
  <2>4. queue' = queue \ {f}
    BY <2>1, RemoveTakesOne DEF LoopInv, QueueInv, DistinctSequences
  <2>5. f.id \in Owed /\ (Owed' = Owed \/ Owed' = Owed \ {f.id})
    BY <2>2, <2>4 DEF Owed, Ids
  <2>6. CASE Owed' = Owed
    BY <2>2, <2>6 DEF Owed
  <2>7. CASE Owed' = Owed \ {f.id}
    <3>1. Channel!Discard(f.id)
      BY <2>2, <2>3, <2>5, <2>7 DEF Channel!Discard, Channel!Forget, Owed
    <3> QED BY <1>a, <2>5, <3>1 DEF Channel!Next
  <2> QED BY <2>5, <2>6, <2>7
<1>5. CASE Reserve
  <2>1. PICK f \in queue : ReserveNext(f)
    BY <1>5 DEF Reserve
  <2>2. /\ inflight = {} /\ UNCHANGED <<accepted, attempts, successes>>
    BY <1>5, <2>1 DEF Reserve, ReserveNext, host, LoopInv, ControlInv
  <2>3. queue' = queue \ {f}
    BY <2>1, RemoveTakesOne DEF ReserveNext, LoopInv, QueueInv, DistinctSequences
  <2>4. inflight' = {[f EXCEPT !.pid = NoPid]} /\ [f EXCEPT !.pid = NoPid].id = f.id
    BY <2>1, <2>2 DEF ReserveNext, Write, LoopInv, QueueInv, TypeOK, Entry
  <2>5. Owed' = Owed
    BY <2>2, <2>3, <2>4 DEF Owed, Ids
  <2> QED BY <2>2, <2>5 DEF Owed
<1>6. CASE \E p \in Pid : Spawn(p)
  <2>1. /\ UNCHANGED <<queue, inflight, accepted, successes>>
        /\ attempts' = [attempts EXCEPT ![cur.id] = @ + 1]
        /\ pc \in Holding
    BY <1>6 DEF Spawn, queueVars, Holding
  <2>2. cur.id \in Owed \cap Actionable
    BY <1>b, <2>1 DEF ChannelInv, Owed, Ids, IsFileOf
  <2>3. Channel!Attempt(cur.id)
    BY <2>1, <2>2 DEF Channel!Attempt, Owed
  <2> QED BY <1>a, <2>2, <2>3 DEF Channel!Next
<1>7. CASE SpawnFails \/ Nack
  <2>1. PICK f \in inflight : inflight = {f} /\ IsFileOf(f, cur) /\ NackReserved(f)
    BY <1>7, HeldOperations DEF SpawnFails, Nack, Holding
  <2>2. Owed' = Owed /\ accepted' = accepted
    BY <2>1, ReleaseOwes DEF NackReserved
  <2>3. CASE Nack
    BY <2>2, <2>3 DEF Nack, host, Owed
  <2>4. CASE SpawnFails
    <3>1. cur.id \in Owed \cap Actionable
      BY <2>1, <2>4 DEF SpawnFails, ChannelInv, Holding, Owed, Ids, IsFileOf
    <3>2. Channel!Attempt(cur.id)
      BY <2>2, <2>4, <3>1 DEF SpawnFails, Channel!Attempt, Owed
    <3> QED BY <1>a, <3>1, <3>2 DEF Channel!Next
  <2> QED BY <1>7, <2>3, <2>4
<1>8. CASE Attach
  <2>1. PICK f \in inflight : inflight = {f} /\ IsFileOf(f, cur) /\ AttachPid(f, handle)
    BY <1>8, HeldOperations DEF Attach, Holding
  <2>2. inflight' = {[f EXCEPT !.pid = handle]} /\ [f EXCEPT !.pid = handle].id = f.id
    BY <2>1 DEF AttachPid, Write, Name, LoopInv, QueueInv, TypeOK, Entry
  <2>3. UNCHANGED <<queue, accepted, attempts, successes>>
    BY <1>8, <2>1 DEF Attach, AttachPid, host
  <2>4. Owed' = Owed
    BY <2>1, <2>2, <2>3 DEF Owed, Ids
  <2> QED BY <2>3, <2>4 DEF Owed
<1>9. CASE Ack
  <2>1. PICK f \in inflight : inflight = {f} /\ IsFileOf(f, cur) /\ AckReserved(f)
    BY <1>9, HeldOperations DEF Ack, Holding
  <2>2. inflight' = {} /\ UNCHANGED <<queue, accepted, attempts, successes>>
    BY <1>9, <2>1 DEF Ack, AckReserved, Remove, host
  <2>3. f.id \in Owed /\ (Owed' = Owed \/ Owed' = Owed \ {f.id})
    BY <2>1, <2>2 DEF Owed, Ids
  <2>4. successes[f.id] > 0
    BY <1>9, <2>1 DEF Ack, LoopInv, HistoryInv, IsFileOf
  <2>5. CASE Owed' = Owed
    BY <2>2, <2>5 DEF Owed
  <2>6. CASE Owed' = Owed \ {f.id}
    <3>1. Channel!Settle(f.id)
      BY <2>2, <2>3, <2>4, <2>6 DEF Channel!Settle, Channel!Forget, Owed
    <3> QED BY <1>a, <2>3, <3>1 DEF Channel!Next
  <2> QED BY <2>3, <2>5, <2>6
<1>10. CASE ChildSucceeds
  <2>1. /\ UNCHANGED <<queue, inflight, accepted, attempts>>
        /\ successes' = [successes EXCEPT ![cur.id] = @ + 1]
        /\ pc = "waiting"
    BY <1>10 DEF ChildSucceeds, queueVars
  <2>2. cur.id \in Event /\ cur.retry \in Nat /\ cur.retry < attempts[cur.id] /\ attempts[cur.id] \in Nat
    BY <2>1 DEF LoopInv, HistoryInv, ControlInv, Holding, Entry, LoopTypeOK
  <2>3. Channel!Succeed(cur.id)
    BY <2>1, <2>2 DEF Channel!Succeed
  <2> QED BY <2>2, <2>3 DEF Channel!Next
<1>11. CASE \E p \in Pid : OrphanExits(p)
  <2>1. PICK p \in Pid : OrphanExits(p)
    BY <1>11
  <2>2. /\ UNCHANGED <<queue, inflight, accepted, attempts>> /\ p \in Runs /\ child[p] \in Event
        /\ successes' = [successes EXCEPT ![child[p]] = @ + 1] \/ successes' = successes
    BY <2>1 DEF OrphanExits, queueVars, Runs
  <2>3. CASE successes' = successes
    BY <2>2, <2>3
  <2>4. CASE successes' = [successes EXCEPT ![child[p]] = @ + 1]
    <3>1. Channel!Succeed(child[p])
      BY <2>2, <2>4 DEF Channel!Succeed, ChannelInv
    <3> QED BY <2>2, <3>1 DEF Channel!Next
  <2> QED BY <2>2, <2>3, <2>4
<1>12. CASE \/ Peek \/ WaitPaused \/ IterationFails \/ PreparationFails \/ AttachFails \/ SettleFails
            \/ ChildFails \/ WaitFails \/ ProbeRecovers \/ Start \/ RemoveFails \/ Crash
            \/ (\E p \in Pid : ForeignStarts(p) \/ ForeignExits(p))
            \/ UNCHANGED vars
  BY <1>12 DEF Peek, WaitPaused, IterationFails, PreparationFails, AttachFails, SettleFails, RemoveFails, Crash,
              ReleaseAbort, disk, history, ChildFails, WaitFails, ProbeRecovers, Start, ForeignStarts,
              ForeignExits, vars, host, queueVars
<1> QED BY <1>1, <1>2, <1>3, <1>4, <1>5, <1>6, <1>7, <1>8, <1>9, <1>10, <1>11, <1>12
        DEF Next, LoopStep, ProcessStep, FaultStep

\* An event the server acts on leaves its disk only after a successful run of it
\* or after more attempts than its retry budget, for any number of crashes.
THEOREM LoopImplementsChannel == Spec => ChannelSpec
<1>1. Init => Channel!Init
  BY DEF Init, QueueInit, Channel!Init, Ids
<1>2. Init => ChannelInv
  BY DrainAssumption DEF Init, ChannelInv, Runs, Holding
<1>3. LoopInv /\ ChannelInv /\ [Next]_vars => ChannelInv'
  BY ChannelInvInductive
<1>4. LoopInv /\ ChannelInv /\ [Next]_vars => [Channel!Next]_(Channel!channelVars)
  BY StepIsChannelStep
<1> QED BY <1>1, <1>2, <1>3, <1>4, LoopInvariant, PTL DEF Spec, ChannelSpec, Channel!Spec

-----------------------------------------------------------------------------
(***************************************************************************)
(* Successes are paid for.  What can still succeed for an event, its copies *)
(* in queue/, the one that is inflight and not about to be deleted, and the *)
(* orchestrators no loop waits for, grows by a fault only.                  *)
(***************************************************************************)
QueueCopies(e) == {f \in queue : f.id = e}
LeftRuns(e) == {p \in Pid \ {handle} : child[p] = e}
IsInflight(e) == \E f \in inflight : f.id = e
HeldCopies(e) == IF releasing = {} /\ pc # "succeeded" /\ IsInflight(e) THEN 1 ELSE 0

Finite(e) == IsFiniteSet(QueueCopies(e)) /\ IsFiniteSet(LeftRuns(e))
Chances(e) == successes[e] + Cardinality(QueueCopies(e)) + HeldCopies(e) + Cardinality(LeftRuns(e))
Untouched(e) == successes[e] = 0 /\ QueueCopies(e) = {} /\ ~IsInflight(e) /\ LeftRuns(e) = {}

\* The file that a release deletes is the one that is inflight.
ReleasesHeld == \A r \in releasing, f \in inflight : Name(r) = Name(f)

\* The child the loop waits for works on the event the loop holds.
ChildIsHeld == pc \in {"spawned", "waiting"} => child[handle] = cur.id

CountInv ==
  /\ ReleasesHeld /\ ChildIsHeld
  /\ \A e \in Event : Finite(e) /\ Chances(e) <= 1 + faults /\ (e \notin accepted => Untouched(e))

\* The parts are numbers.
LEMMA CountsAre ==
  ASSUME LoopInv, NEW e \in Event, Finite(e)
  PROVE  /\ Cardinality(QueueCopies(e)) \in Nat /\ Cardinality(LeftRuns(e)) \in Nat
         /\ HeldCopies(e) \in {0, 1} /\ successes[e] \in Nat /\ faults \in Nat /\ Chances(e) \in Nat
<1>1. Cardinality(QueueCopies(e)) \in Nat /\ Cardinality(LeftRuns(e)) \in Nat
  BY FS_CardinalityType DEF Finite
<1>2. HeldCopies(e) \in {0, 1}
  BY DEF HeldCopies
<1>3. successes[e] \in Nat /\ faults \in Nat
  BY DEF LoopInv, LoopTypeOK
<1> QED
  BY <1>1, <1>2, <1>3 DEF Chances

\* A file that enters the queue, one that leaves it, and one that does neither.
LEMMA QueueGrows ==
  ASSUME NEW e, IsFiniteSet(QueueCopies(e)), NEW new, queue' = queue \cup {new}, new \notin queue
  PROVE  /\ IsFiniteSet(QueueCopies(e)') /\ (new.id # e => QueueCopies(e)' = QueueCopies(e))
         /\ new.id = e => Cardinality(QueueCopies(e)') = Cardinality(QueueCopies(e)) + 1
<1>1. CASE new.id = e
  <2>1. QueueCopies(e)' = QueueCopies(e) \cup {new} /\ new \notin QueueCopies(e)
    BY <1>1 DEF QueueCopies
  <2> QED
    BY <1>1, <2>1, FS_AddElement
<1>2. CASE new.id # e
  <2>1. QueueCopies(e)' = QueueCopies(e)
    BY <1>2 DEF QueueCopies
  <2> QED
    BY <1>2, <2>1
<1> QED
  BY <1>1, <1>2

\* A file leaves the queue.
LEMMA QueueShrinks ==
  ASSUME NEW e, IsFiniteSet(QueueCopies(e)), NEW f \in queue, queue' = queue \ {f}
  PROVE  /\ IsFiniteSet(QueueCopies(e)') /\ (f.id # e => QueueCopies(e)' = QueueCopies(e))
         /\ f.id = e => Cardinality(QueueCopies(e)') = Cardinality(QueueCopies(e)) - 1
<1>1. CASE f.id = e
  <2>1. QueueCopies(e)' = QueueCopies(e) \ {f} /\ f \in QueueCopies(e)
    BY <1>1 DEF QueueCopies
  <2> QED
    BY <1>1, <2>1, FS_RemoveElement
<1>2. CASE f.id # e
  <2>1. QueueCopies(e)' = QueueCopies(e)
    BY <1>2 DEF QueueCopies
  <2> QED
    BY <1>2, <2>1
<1> QED
  BY <1>1, <1>2

\* The loop lets go of its child while the child runs.
LEMMA RunIsLeft ==
  ASSUME NEW e, IsFiniteSet(LeftRuns(e)), handle' = NoPid, UNCHANGED child
  PROVE  /\ IsFiniteSet(LeftRuns(e)') /\ Cardinality(LeftRuns(e)') \in Nat
         /\ Cardinality(LeftRuns(e)') <= Cardinality(LeftRuns(e)) + 1
         /\ handle = NoPid \/ child[handle] # e => LeftRuns(e)' = LeftRuns(e)
<1>1. CASE handle \in Pid /\ child[handle] = e
  <2>1. LeftRuns(e)' = LeftRuns(e) \cup {handle} /\ handle # NoPid
    BY <1>1, QueueAssumption DEF LeftRuns
  <2>2. Cardinality(LeftRuns(e)) \in Nat
    BY FS_CardinalityType
  <2>3. /\ IsFiniteSet(LeftRuns(e) \cup {handle})
        /\ \/ Cardinality(LeftRuns(e) \cup {handle}) = Cardinality(LeftRuns(e))
           \/ Cardinality(LeftRuns(e) \cup {handle}) = Cardinality(LeftRuns(e)) + 1
    BY FS_AddElement
  <2> QED
    BY <1>1, <2>1, <2>2, <2>3
<1>2. CASE ~(handle \in Pid /\ child[handle] = e)
  <2>1. LeftRuns(e)' = LeftRuns(e)
    BY <1>2, QueueAssumption DEF LeftRuns
  <2> QED
    BY <2>1, FS_CardinalityType
<1> QED
  BY <1>1, <1>2

\* An event for which nothing changes, or only what is inflight, and that at the price of a fault.
LEMMA CountKept ==
  ASSUME LoopInv, LoopInv', CountInv, NEW e \in Event,
         QueueCopies(e)' = QueueCopies(e), LeftRuns(e)' = LeftRuns(e), successes'[e] = successes[e],
         HeldCopies(e)' + faults <= HeldCopies(e) + faults', IsInflight(e)' => IsInflight(e), accepted \subseteq accepted'
  PROVE  Finite(e)' /\ Chances(e)' <= 1 + faults' /\ (e \notin accepted' => Untouched(e)')
<1>1. Finite(e) /\ Chances(e) <= 1 + faults /\ (e \notin accepted => Untouched(e))
  BY DEF CountInv
<1>2. Finite(e)'
  BY <1>1 DEF Finite
<1>3. /\ Cardinality(QueueCopies(e)) \in Nat /\ Cardinality(LeftRuns(e)) \in Nat /\ HeldCopies(e) \in {0, 1}
      /\ successes[e] \in Nat /\ faults \in Nat
  BY <1>1, CountsAre
<1>4. HeldCopies(e)' \in {0, 1} /\ faults' \in Nat
  BY DEF HeldCopies, LoopInv, LoopTypeOK
<1>5. Chances(e)' <= 1 + faults'
  BY <1>1, <1>3, <1>4 DEF Chances
<1>6. e \notin accepted' => Untouched(e)'
  BY <1>1 DEF Untouched
<1> QED
  BY <1>2, <1>5, <1>6

\* A new event has one chance.
LEMMA ReceiveCounts ==
  ASSUME LoopInv, LoopInv', CountInv, NEW id \in Event, Receive(id)
  PROVE  CountInv'
<1>1. PICK s \in NextSequence :
        queue' = Write(queue, [id |-> id, seq |-> s, retry |-> 0, pid |-> NoPid])
  BY DEF Receive, Enqueue
<1> DEFINE new == [id |-> id, seq |-> s, retry |-> 0, pid |-> NoPid]
<1>2. \A g \in queue : g.seq < s /\ g.seq # new.seq
  BY NextSequenceIsFresh DEF LoopInv, QueueInv, TypeOK, Entry
<1>3. queue' = queue \cup {new} /\ new \notin queue /\ new.id = id
  BY <1>1, <1>2, WriteAdds
<1> HIDE DEF new
<1>4. /\ id \notin accepted /\ accepted' = accepted \cup {id} /\ releasing = {}
      /\ UNCHANGED <<inflight, releasing, pc, cur, handle, child, successes, faults>>
  BY DEF Receive, Enqueue, Unlocked, NoFault, loop, host
<1>5. ReleasesHeld' /\ ChildIsHeld'
  BY <1>4 DEF ReleasesHeld, ChildIsHeld, CountInv
<1>6. ASSUME NEW e \in Event
      PROVE  Finite(e)' /\ Chances(e)' <= 1 + faults' /\ (e \notin accepted' => Untouched(e)')
  <2>1. IsFiniteSet(QueueCopies(e)) /\ IsFiniteSet(LeftRuns(e)) /\ faults \in Nat
    BY CountsAre DEF CountInv, Finite
  <2>2. LeftRuns(e)' = LeftRuns(e) /\ HeldCopies(e)' = HeldCopies(e) /\ (IsInflight(e)' <=> IsInflight(e))
    BY <1>4 DEF LeftRuns, HeldCopies, IsInflight
  <2>3. CASE e = id
    <3>1. Untouched(e)
      BY <1>4, <2>3 DEF CountInv
    <3>2. successes[e] = 0 /\ Cardinality(QueueCopies(e)) = 0 /\ HeldCopies(e) = 0 /\ Cardinality(LeftRuns(e)) = 0
      BY <3>1, FS_EmptySet DEF Untouched, HeldCopies
    <3>3. IsFiniteSet(QueueCopies(e)') /\ Cardinality(QueueCopies(e)') = 1
      BY <1>3, <2>1, <2>3, <3>2, QueueGrows
    <3>4. Finite(e)'
      BY <2>1, <2>2, <3>3 DEF Finite
    <3>5. Chances(e)' <= 1 + faults'
      BY <1>4, <2>1, <2>2, <3>2, <3>3 DEF Chances
    <3> QED
      BY <1>4, <2>3, <3>4, <3>5
  <2>4. CASE e # id
    <3>1. QueueCopies(e)' = QueueCopies(e)
      BY <1>3, <2>1, <2>4, QueueGrows
    <3>2. HeldCopies(e)' + faults <= HeldCopies(e) + faults'
      BY <1>4, <2>1, <2>2 DEF HeldCopies
    <3> QED
      BY <1>4, <2>2, <3>1, <3>2, CountKept
  <2> QED
    BY <2>3, <2>4
<1> QED
  BY <1>5, <1>6 DEF CountInv

\* A release: the copy in the queue takes the place of the file, which is about to be deleted.
LEMMA ReleaseCounts ==
  ASSUME LoopInv, LoopInv', CountInv, NEW f \in inflight, NEW increment \in BOOLEAN, ReleaseWrite(f, increment),
         pc # "succeeded", pc' \notin {"spawned", "waiting"}, UNCHANGED <<handle, child, successes, faults>>
  PROVE  CountInv'
<1>1. /\ releasing = {} /\ releasing' = {[f EXCEPT !.pid = NoPid]} /\ UNCHANGED <<inflight, accepted>>
      /\ \A g \in inflight : g = f
  BY DEF ReleaseWrite, Unlocked, LoopInv, ControlInv, OneReservation
<1>2. ReleasesHeld'
  <2>1. f \in Entry
    BY DEF LoopInv, QueueInv, TypeOK
  <2> QED
    BY <1>1, <2>1 DEF ReleasesHeld, Name, Entry
<1>5. ChildIsHeld'
  BY DEF ChildIsHeld
<1>3. \/ queue' = queue
      \/ \E new : queue' = queue \cup {new} /\ new \notin queue /\ new.id = f.id
  <2>1. CASE \E retry : MoveToDeadLetter(f, retry)
    BY <2>1 DEF MoveToDeadLetter
  <2>2. CASE \E retry : Requeue(f, retry)
    <3>1. PICK retry : Requeue(f, retry)
      BY <2>2
    <3>2. PICK s \in NextSequence : queue' = Write(queue, [id |-> f.id, seq |-> s, retry |-> retry, pid |-> NoPid])
      BY <3>1 DEF Requeue
    <3> DEFINE new == [id |-> f.id, seq |-> s, retry |-> retry, pid |-> NoPid]
    <3>3. \A g \in queue : g.seq < s /\ g.seq # new.seq
      BY NextSequenceIsFresh DEF LoopInv, QueueInv, TypeOK, Entry
    <3>4. queue' = queue \cup {new} /\ new \notin queue /\ new.id = f.id
      BY <3>2, <3>3, WriteAdds
    <3> QED
      BY <3>4
  <2> QED
    BY <2>1, <2>2 DEF ReleaseWrite
<1>4. ASSUME NEW e \in Event
      PROVE  Finite(e)' /\ Chances(e)' <= 1 + faults' /\ (e \notin accepted' => Untouched(e)')
  <2>1. Finite(e) /\ Chances(e) <= 1 + faults /\ (e \notin accepted => Untouched(e)) /\ faults \in Nat
    BY CountsAre DEF CountInv
  <2>2. LeftRuns(e)' = LeftRuns(e) /\ HeldCopies(e)' = 0 /\ (IsInflight(e)' <=> IsInflight(e))
    BY <1>1 DEF LeftRuns, HeldCopies, IsInflight
  <2>3. /\ Cardinality(QueueCopies(e)) \in Nat /\ Cardinality(LeftRuns(e)) \in Nat /\ HeldCopies(e) \in {0, 1}
        /\ successes[e] \in Nat /\ faults \in Nat
    BY <2>1, CountsAre
  <2>4. CASE QueueCopies(e)' = QueueCopies(e)
    <3>1. HeldCopies(e)' + faults <= HeldCopies(e) + faults'
      BY <2>2, <2>3
    <3> QED
      BY <1>1, <2>2, <2>4, <3>1, CountKept
  <2>5. CASE f.id = e
    <3>1. HeldCopies(e) = 1 /\ e \in accepted
      BY <1>1, <2>1, <2>5 DEF HeldCopies, IsInflight, Untouched
    <3>2. \/ IsFiniteSet(QueueCopies(e)') /\ Cardinality(QueueCopies(e)') = Cardinality(QueueCopies(e)) + 1
          \/ QueueCopies(e)' = QueueCopies(e)
      <4>1. CASE queue' = queue
        BY <4>1 DEF QueueCopies
      <4>2. CASE queue' # queue
        <5>1. PICK new : queue' = queue \cup {new} /\ new \notin queue /\ new.id = f.id
          BY <1>3, <4>2
        <5> QED
          BY <2>1, <2>5, <5>1, QueueGrows DEF Finite
      <4> QED
        BY <4>1, <4>2
    <3>3. CASE IsFiniteSet(QueueCopies(e)') /\ Cardinality(QueueCopies(e)') = Cardinality(QueueCopies(e)) + 1
      <4>1. Finite(e)'
        BY <2>1, <2>2, <3>3 DEF Finite
      <4>2. Chances(e)' <= 1 + faults'
        BY <2>1, <2>2, <2>3, <3>1, <3>3 DEF Chances
      <4> QED
        BY <1>1, <3>1, <4>1, <4>2
    <3> QED
      BY <2>4, <3>2, <3>3
  <2>6. CASE f.id # e
    <3>1. QueueCopies(e)' = QueueCopies(e)
      BY <1>3, <2>6 DEF QueueCopies
    <3> QED
      BY <2>4, <3>1
  <2> QED
    BY <2>5, <2>6
<1> QED
  BY <1>2, <1>4, <1>5 DEF CountInv

\* Steps that leave the queue, the runs and the successes as they are.
LEMMA StillCounts ==
  ASSUME LoopInv, LoopInv', CountInv, ReleasesHeld', ChildIsHeld', UNCHANGED <<queue, successes>>, accepted \subseteq accepted',
         \A e \in Event : /\ LeftRuns(e)' = LeftRuns(e) /\ (IsInflight(e)' => IsInflight(e))
                          /\ HeldCopies(e)' + faults <= HeldCopies(e) + faults'
  PROVE  CountInv'
<1>1. \A e \in Event : QueueCopies(e)' = QueueCopies(e)
  BY DEF QueueCopies
<1> QED
  BY <1>1, CountKept DEF CountInv

\* The end of a release deletes what is inflight.
LEMMA FinishReleaseCounts ==
  ASSUME LoopInv, LoopInv', CountInv, FinishRelease
  PROVE  CountInv'
<1>1. PICK r \in releasing : inflight' = Remove(inflight, r)
  BY DEF FinishRelease, ReleaseRemove
<1>2. /\ releasing' = {} /\ UNCHANGED <<queue, accepted, pc, cur, handle, child, successes, faults>>
  BY DEF FinishRelease, ReleaseRemove, history, NoFault, loop, host
<1>3. inflight' = {}
  BY <1>1 DEF CountInv, ReleasesHeld, Remove
<1>4. ReleasesHeld' /\ ChildIsHeld'
  BY <1>2 DEF ReleasesHeld, ChildIsHeld, CountInv
<1>5. faults \in Nat
  BY DEF LoopInv, LoopTypeOK
<1>6. ASSUME NEW e \in Event
      PROVE  /\ LeftRuns(e)' = LeftRuns(e) /\ (IsInflight(e)' => IsInflight(e))
             /\ HeldCopies(e)' + faults <= HeldCopies(e) + faults'
  BY <1>1, <1>2, <1>3, <1>5 DEF LeftRuns, IsInflight, HeldCopies
<1> QED
  BY <1>2, <1>4, <1>6, StillCounts

\* The end of a release fails, or a success is not acknowledged: a fault leaves the file for another run.
LEMMA FaultCounts ==
  ASSUME LoopInv, LoopInv', CountInv, RemoveFails \/ SettleFails
  PROVE  CountInv'
<1>1. /\ UNCHANGED <<queue, inflight, accepted, handle, child, successes>> /\ faults' = faults + 1
      /\ releasing' \in {releasing, {}}
  BY DEF RemoveFails, SettleFails, ReleaseAbort, disk, history, queueVars, Fault, loop, host
<1>2. ReleasesHeld' /\ ChildIsHeld'
  <2>1. pc' \in {pc, "top"} /\ (pc' = pc => cur' = cur)
    BY DEF RemoveFails, SettleFails, Goto, loop
  <2> QED
    BY <1>1, <2>1 DEF CountInv, ReleasesHeld, ChildIsHeld
<1>3. faults \in Nat
  BY DEF LoopInv, LoopTypeOK
<1>4. ASSUME NEW e \in Event
      PROVE  /\ LeftRuns(e)' = LeftRuns(e) /\ (IsInflight(e)' => IsInflight(e))
             /\ HeldCopies(e)' + faults <= HeldCopies(e) + faults'
  <2>1. HeldCopies(e) \in {0, 1} /\ HeldCopies(e)' \in {0, 1}
    BY DEF HeldCopies
  <2> QED
    BY <1>1, <1>3, <2>1 DEF LeftRuns, IsInflight
<1> QED
  BY <1>1, <1>2, <1>4, StillCounts

\* The child is left, by a crash or a failed wait: a fault leaves it a chance of its own.  A crash also leaves a release
\* undone or a success unacknowledged, where there is no child.
LEMMA LeavingCounts ==
  ASSUME LoopInv, LoopInv', CountInv, Crash \/ WaitFails
  PROVE  CountInv'
<1>1. /\ UNCHANGED <<queue, inflight, accepted, child, successes>> /\ faults' = faults + 1 /\ handle' = NoPid
      /\ releasing' \in {releasing, {}}
      /\ pc' \in {"down", "failed"}
  BY DEF Crash, WaitFails, ReleaseAbort, disk, history, queueVars, Fault, Goto
<1>2. ReleasesHeld' /\ ChildIsHeld'
  BY <1>1 DEF CountInv, ReleasesHeld, ChildIsHeld
<1>3. handle # NoPid => releasing = {} /\ pc # "succeeded"
  BY DEF LoopInv, ControlInv
<1>4. ASSUME NEW e \in Event
      PROVE  Finite(e)' /\ Chances(e)' <= 1 + faults' /\ (e \notin accepted' => Untouched(e)')
  <2>1. Finite(e) /\ Chances(e) <= 1 + faults /\ (e \notin accepted => Untouched(e))
    BY DEF CountInv
  <2>2. /\ Cardinality(QueueCopies(e)) \in Nat /\ Cardinality(LeftRuns(e)) \in Nat /\ HeldCopies(e) \in {0, 1}
        /\ successes[e] \in Nat /\ faults \in Nat
    BY <2>1, CountsAre
  <2>3. QueueCopies(e)' = QueueCopies(e) /\ (IsInflight(e)' <=> IsInflight(e)) /\ HeldCopies(e)' \in {0, 1}
    BY <1>1 DEF QueueCopies, IsInflight, HeldCopies
  <2>4. /\ IsFiniteSet(LeftRuns(e)') /\ Cardinality(LeftRuns(e)') \in Nat
        /\ Cardinality(LeftRuns(e)') <= Cardinality(LeftRuns(e)) + 1
        /\ handle = NoPid \/ child[handle] # e => LeftRuns(e)' = LeftRuns(e)
    BY <1>1, <2>1, RunIsLeft DEF Finite
  <2>5. handle # NoPid => HeldCopies(e)' = HeldCopies(e)
    BY <1>1, <1>3 DEF HeldCopies, IsInflight
  <2>6. Cardinality(LeftRuns(e)') + HeldCopies(e)' <= Cardinality(LeftRuns(e)) + HeldCopies(e) + 1
    BY <2>2, <2>3, <2>4, <2>5
  <2>7. Chances(e)' <= 1 + faults'
    <3>1. Chances(e)' = successes[e] + Cardinality(QueueCopies(e)) + HeldCopies(e)' + Cardinality(LeftRuns(e)')
      BY <1>1, <2>3 DEF Chances
    <3> QED
      BY <1>1, <2>1, <2>2, <2>3, <2>4, <2>6, <3>1 DEF Chances
  <2>8. ASSUME e \notin accepted' PROVE Untouched(e)'
    <3>1. Untouched(e) /\ ~IsInflight(e)
      BY <1>1, <2>1, <2>8 DEF Untouched
    <3>2. handle # NoPid => child[handle] # e
      <4>1. CASE handle # NoPid
        <5>1. handle \in Pid /\ pc \in {"spawned", "waiting"}
          BY <4>1 DEF LoopInv, LoopTypeOK, ControlInv
        <5>2. child[handle] = cur.id
          BY <5>1 DEF CountInv, ChildIsHeld
        <5>3. \E f \in inflight : f.id = cur.id
          BY <5>1 DEF LoopInv, ControlInv, Holding, IsFileOf
        <5> QED
          BY <3>1, <5>2, <5>3 DEF IsInflight
      <4> QED
        BY <4>1
    <3> QED
      BY <1>1, <2>3, <2>4, <3>1, <3>2 DEF Untouched
  <2> QED
    BY <2>1, <2>3, <2>4, <2>7, <2>8 DEF Finite
<1> QED
  BY <1>2, <1>4 DEF CountInv

\* The head leaves the queue: dropped, or reserved.
LEMMA HeadCounts ==
  ASSUME LoopInv, LoopInv', CountInv, SkipEvent \/ Reserve
  PROVE  CountInv'
<1>1. PICK f \in queue : /\ queue' = Remove(queue, f)
                         /\ inflight' = inflight \/ inflight' = Write(inflight, [f EXCEPT !.pid = NoPid])
  BY DEF SkipEvent, Reserve, Dequeue, ReserveNext
<1>2. /\ pc = "peeked" /\ inflight = {} /\ releasing = {} /\ pc' \notin {"succeeded", "spawned", "waiting"}
      /\ UNCHANGED <<accepted, releasing, handle, child, successes, faults>>
  BY DEF SkipEvent, Reserve, Dequeue, ReserveNext, LoopInv, ControlInv, Goto, NoFault, host, Unlocked
<1>3. queue' = queue \ {f}
  BY <1>1, RemoveTakesOne DEF LoopInv, QueueInv, DistinctSequences
<1>4. ReleasesHeld' /\ ChildIsHeld'
  BY <1>2 DEF ReleasesHeld, ChildIsHeld
<1>5. \A g \in inflight' : g.id = f.id
  BY <1>1, <1>2 DEF Write, LoopInv, QueueInv, TypeOK, Entry
<1>6. ASSUME NEW e \in Event
      PROVE  Finite(e)' /\ Chances(e)' <= 1 + faults' /\ (e \notin accepted' => Untouched(e)')
  <2>1. Finite(e) /\ Chances(e) <= 1 + faults /\ (e \notin accepted => Untouched(e))
    BY DEF CountInv
  <2>2. /\ Cardinality(QueueCopies(e)) \in Nat /\ Cardinality(LeftRuns(e)) \in Nat
        /\ successes[e] \in Nat /\ faults \in Nat
    BY <2>1, CountsAre
  <2>3. LeftRuns(e)' = LeftRuns(e) /\ HeldCopies(e) = 0
    BY <1>2 DEF LeftRuns, HeldCopies, IsInflight
  <2>4. CASE f.id = e
    <3>1. IsFiniteSet(QueueCopies(e)') /\ Cardinality(QueueCopies(e)') = Cardinality(QueueCopies(e)) - 1
      BY <1>3, <2>1, <2>4, QueueShrinks DEF Finite
    <3>2. HeldCopies(e)' \in {0, 1} /\ e \in accepted
      BY <2>1, <2>4 DEF HeldCopies, Untouched, QueueCopies
    <3>3. Finite(e)'
      BY <2>1, <2>3, <3>1 DEF Finite
    <3>4. Chances(e)' <= 1 + faults'
      BY <1>2, <2>1, <2>2, <2>3, <3>1, <3>2 DEF Chances
    <3> QED
      BY <1>2, <3>2, <3>3, <3>4
  <2>5. CASE f.id # e
    <3>1. QueueCopies(e)' = QueueCopies(e)
      BY <1>3, <2>5 DEF QueueCopies
    <3>2. ~IsInflight(e)' /\ HeldCopies(e)' = 0
      BY <1>5, <2>5 DEF IsInflight, HeldCopies
    <3>3. HeldCopies(e)' + faults <= HeldCopies(e) + faults' /\ successes'[e] = successes[e] /\ accepted \subseteq accepted'
      BY <1>2, <2>2, <2>3, <3>2
    <3> QED
      BY <2>3, <3>1, <3>2, <3>3, CountKept
  <2> QED
    BY <2>4, <2>5
<1> QED
  BY <1>4, <1>6 DEF CountInv

\* Steps of the loop and of other programs that change neither the queue nor an orchestrator.
QuietStep ==
  \/ Peek \/ WaitPaused \/ IterationFails \/ PreparationFails \/ AttachFails \/ ProbeRecovers \/ Start
  \/ (\E p \in Pid : ForeignStarts(p) \/ ForeignExits(p)) \/ UNCHANGED vars

\* Such a step adds to no count.
LEMMA QuietCounts ==
  ASSUME LoopInv, LoopInv', CountInv, QuietStep
  PROVE  CountInv'
<1>1. /\ UNCHANGED queueVars /\ UNCHANGED <<handle, successes>> /\ faults' \in {faults, faults + 1}
      /\ pc # "succeeded" \/ pc' = pc
      /\ pc' \in {"spawned", "waiting"} => pc \in {"spawned", "waiting"} /\ cur' = cur
  BY DEF QuietStep, Peek, WaitPaused, IterationFails, PreparationFails, AttachFails, ProbeRecovers, Start, ForeignStarts,
         ForeignExits, vars, loop, host, Goto, Fault, NoFault
<1>2. \A e \in Event, p \in Pid : child'[p] = e <=> child[p] = e
  <2>1. CASE UNCHANGED child
    BY <2>1
  <2>2. CASE \E p \in Pid : ForeignStarts(p) \/ ForeignExits(p)
    <3>1. PICK q \in Pid : /\ child[q] \in {Free, Foreign}
                           /\ child' = [child EXCEPT ![q] = Free] \/ child' = [child EXCEPT ![q] = Foreign]
      BY <2>2 DEF ForeignStarts, ForeignExits
    <3>2. child \in [Pid -> Event \cup {Free, Foreign}] /\ {Free, Foreign} \cap Event = {}
      BY DrainAssumption DEF LoopInv, LoopTypeOK
    <3> QED
      BY <3>1, <3>2
  <2>3. ~(\E p \in Pid : ForeignStarts(p) \/ ForeignExits(p)) => UNCHANGED child
    BY DEF QuietStep, Peek, WaitPaused, IterationFails, PreparationFails, AttachFails, ProbeRecovers, Start, vars, host
  <2> QED
    BY <2>1, <2>2, <2>3
<1>3. UNCHANGED <<queue, inflight, releasing, accepted>> /\ faults \in Nat
  BY <1>1 DEF queueVars, LoopInv, LoopTypeOK
<1>4. ReleasesHeld' /\ ChildIsHeld'
  <2>1. ReleasesHeld'
    BY <1>3 DEF CountInv, ReleasesHeld
  <2>2. ASSUME pc' \in {"spawned", "waiting"} PROVE child'[handle'] = cur'.id
    <3>1. child[handle] = cur.id /\ handle \in Pid /\ cur \in Entry
      BY <1>1, <2>2 DEF CountInv, ChildIsHeld, LoopInv, LoopTypeOK, ControlInv, Holding
    <3>2. cur.id \in Event
      BY <3>1 DEF Entry
    <3> QED
      BY <1>1, <1>2, <2>2, <3>1, <3>2
  <2> QED
    BY <2>1, <2>2 DEF ChildIsHeld
<1>5. ASSUME NEW e \in Event
      PROVE  /\ LeftRuns(e)' = LeftRuns(e) /\ (IsInflight(e)' => IsInflight(e))
             /\ HeldCopies(e)' + faults <= HeldCopies(e) + faults'
  <2>1. LeftRuns(e)' = LeftRuns(e)
    BY <1>1, <1>2 DEF LeftRuns
  <2>2. HeldCopies(e)' = HeldCopies(e) \/ (HeldCopies(e) = 1 /\ HeldCopies(e)' = 0)
    BY <1>1, <1>3 DEF HeldCopies, IsInflight
  <2>3. HeldCopies(e) \in {0, 1} /\ (IsInflight(e)' => IsInflight(e))
    BY <1>3 DEF HeldCopies, IsInflight
  <2> QED
    BY <1>1, <1>3, <2>1, <2>2, <2>3
<1> QED
  BY <1>1, <1>3, <1>4, <1>5, StillCounts

\* A child starts: the chance is that of the file in its hands.
LEMMA SpawnCounts ==
  ASSUME LoopInv, LoopInv', CountInv, NEW p \in Pid, Spawn(p)
  PROVE  CountInv'
<1>1. /\ UNCHANGED <<queue, inflight, releasing, accepted, cur, successes, faults>>
      /\ pc = "reserved" /\ pc' = "spawned" /\ handle' = p /\ child[p] = Free /\ child' = [child EXCEPT ![p] = cur.id]
  BY DEF Spawn, queueVars, Goto, NoFault
<1>2. /\ handle = NoPid /\ child \in [Pid -> Event \cup {Free, Foreign}] /\ faults \in Nat /\ Free \notin Event
  BY <1>1, DrainAssumption DEF LoopInv, LoopTypeOK, ControlInv
<1>3. ReleasesHeld' /\ ChildIsHeld'
  BY <1>1, <1>2 DEF CountInv, ReleasesHeld, ChildIsHeld
<1>4. ASSUME NEW e \in Event
      PROVE  /\ LeftRuns(e)' = LeftRuns(e) /\ (IsInflight(e)' => IsInflight(e))
             /\ HeldCopies(e)' + faults <= HeldCopies(e) + faults'
  <2>1. LeftRuns(e)' = LeftRuns(e)
    BY <1>1, <1>2, QueueAssumption DEF LeftRuns
  <2>2. HeldCopies(e)' = HeldCopies(e) /\ HeldCopies(e) \in {0, 1} /\ (IsInflight(e)' => IsInflight(e))
    BY <1>1 DEF HeldCopies, IsInflight
  <2> QED
    BY <1>1, <1>2, <2>1, <2>2
<1> QED
  BY <1>1, <1>3, <1>4, StillCounts

\* The pid is written into the file, or the file of a success is deleted.
LEMMA SettleCounts ==
  ASSUME LoopInv, LoopInv', CountInv, Attach \/ Ack
  PROVE  CountInv'
<1>1. /\ UNCHANGED <<queue, accepted, releasing, handle, child, successes, faults>> /\ releasing = {}
      /\ pc' \in {"waiting", "top"} /\ pc \in Holding
  BY DEF Attach, Ack, AttachPid, AckReserved, Goto, NoFault, host, Unlocked, Holding
<1>2. ReleasesHeld' /\ ChildIsHeld'
  <2>1. pc' = "waiting" => pc = "spawned" /\ cur' = cur
    BY DEF Attach, Ack, Goto
  <2> QED
    BY <1>1, <2>1 DEF CountInv, ReleasesHeld, ChildIsHeld
<1>3. PICK f \in inflight : /\ inflight = {f} /\ IsFileOf(f, cur)
                            /\ \A p : AttachPid(cur, p) => AttachPid(f, p)
                            /\ AckReserved(cur) => AckReserved(f)
  BY <1>1, HeldOperations
<1>4. inflight' = {} \/ (pc # "succeeded" /\ \A g \in inflight' : g.id = f.id)
  <2>1. CASE Ack
    <3>1. inflight' = Remove(inflight, f)
      BY <1>3, <2>1 DEF Ack, AckReserved
    <3> QED
      BY <1>3, <3>1 DEF Remove
  <2>2. CASE Attach
    <3>1. inflight' = Write(inflight, [f EXCEPT !.pid = handle]) /\ pc = "spawned"
      BY <1>3, <2>2 DEF Attach, AttachPid
    <3>2. f \in Entry /\ Name([f EXCEPT !.pid = handle]) = Name(f) /\ [f EXCEPT !.pid = handle].id = f.id
      BY DEF LoopInv, QueueInv, TypeOK, Entry, Name
    <3> QED
      BY <1>3, <3>1, <3>2 DEF Write
  <2> QED
    BY <2>1, <2>2
<1>5. faults \in Nat
  BY DEF LoopInv, LoopTypeOK
<1>6. ASSUME NEW e \in Event
      PROVE  /\ LeftRuns(e)' = LeftRuns(e) /\ (IsInflight(e)' => IsInflight(e))
             /\ HeldCopies(e)' + faults <= HeldCopies(e) + faults'
  <2>1. LeftRuns(e)' = LeftRuns(e) /\ (IsInflight(e)' => IsInflight(e))
    BY <1>1, <1>3, <1>4 DEF LeftRuns, IsInflight
  <2>2. HeldCopies(e)' \in {0, 1} /\ HeldCopies(e) \in {0, 1} /\ (HeldCopies(e)' = 1 => HeldCopies(e) = 1)
    BY <1>1, <1>3, <1>4 DEF HeldCopies, IsInflight
  <2> QED
    BY <1>1, <1>5, <2>1, <2>2
<1> QED
  BY <1>1, <1>2, <1>6, StillCounts

\* The child ends; if it succeeded, the file it worked on is only there to be acknowledged.
LEMMA ChildEndCounts ==
  ASSUME LoopInv, LoopInv', CountInv, ChildSucceeds \/ ChildFails
  PROVE  CountInv'
<1>1. /\ UNCHANGED <<queue, inflight, releasing, accepted, cur, faults>> /\ pc = "waiting" /\ handle' = NoPid
      /\ child' = [child EXCEPT ![handle] = Free]
      /\ \/ pc' = "failed" /\ successes' = successes
         \/ pc' = "succeeded" /\ successes' = [successes EXCEPT ![cur.id] = @ + 1]
  BY DEF ChildSucceeds, ChildFails, queueVars, Goto, NoFault
<1>2. /\ handle \in Pid /\ child \in [Pid -> Event \cup {Free, Foreign}] /\ faults \in Nat /\ Free \notin Event /\ releasing = {}
      /\ successes \in [Event -> Nat]
  BY <1>1, DrainAssumption DEF LoopInv, LoopTypeOK, ControlInv
<1>3. ReleasesHeld' /\ ChildIsHeld'
  BY <1>1 DEF CountInv, ReleasesHeld, ChildIsHeld
<1>4. IsInflight(cur.id) /\ cur.id \in Event
  <2>1. cur \in Entry /\ \E f \in inflight : IsFileOf(f, cur)
    BY <1>1 DEF LoopInv, ControlInv, Holding
  <2> QED
    BY <2>1 DEF IsInflight, IsFileOf, Entry
<1>5. ASSUME NEW e \in Event
      PROVE  /\ QueueCopies(e)' = QueueCopies(e) /\ LeftRuns(e)' = LeftRuns(e) /\ (IsInflight(e)' <=> IsInflight(e))
             /\ HeldCopies(e)' = IF pc' = "succeeded" THEN 0 ELSE HeldCopies(e)
             /\ HeldCopies(e) = IF IsInflight(e) THEN 1 ELSE 0
  <2>1. LeftRuns(e)' = LeftRuns(e)
    BY <1>1, <1>2, QueueAssumption DEF LeftRuns
  <2>2. QueueCopies(e)' = QueueCopies(e) /\ (IsInflight(e)' <=> IsInflight(e))
    BY <1>1 DEF QueueCopies, IsInflight
  <2>3. HeldCopies(e) = IF IsInflight(e) THEN 1 ELSE 0
    BY <1>1, <1>2 DEF HeldCopies
  <2>4. HeldCopies(e)' = IF pc' = "succeeded" THEN 0 ELSE HeldCopies(e)
    BY <1>1, <1>2, <2>2, <2>3 DEF HeldCopies
  <2> QED
    BY <2>1, <2>2, <2>3, <2>4
<1>6. ASSUME NEW e \in Event
      PROVE  Finite(e)' /\ Chances(e)' <= 1 + faults' /\ (e \notin accepted' => Untouched(e)')
  <2>1. Finite(e) /\ Chances(e) <= 1 + faults /\ (e \notin accepted => Untouched(e))
    BY DEF CountInv
  <2>2. /\ Cardinality(QueueCopies(e)) \in Nat /\ Cardinality(LeftRuns(e)) \in Nat /\ HeldCopies(e) \in {0, 1}
        /\ successes[e] \in Nat
    BY <2>1, CountsAre
  <2>3. CASE successes'[e] = successes[e]
    <3>1. HeldCopies(e)' + faults <= HeldCopies(e) + faults' /\ accepted \subseteq accepted'
      BY <1>1, <1>2, <1>5, <2>2
    <3> QED
      BY <1>5, <2>3, <3>1, CountKept
  <2>4. CASE e = cur.id /\ pc' = "succeeded" /\ successes'[e] = successes[e] + 1
    <3>1. HeldCopies(e) = 1 /\ HeldCopies(e)' = 0 /\ e \in accepted
      BY <1>4, <1>5, <2>1, <2>4 DEF Untouched
    <3>2. Finite(e)' /\ Chances(e)' <= 1 + faults'
      BY <1>1, <1>2, <1>5, <2>1, <2>2, <2>4, <3>1 DEF Finite, Chances
    <3> QED
      BY <1>1, <3>1, <3>2
  <2> QED
    BY <1>1, <1>2, <1>4, <2>3, <2>4
<1> QED
  BY <1>3, <1>6 DEF CountInv

\* An orchestrator that outlived its server uses its chance.
LEMMA OrphanCounts ==
  ASSUME LoopInv, LoopInv', CountInv, NEW p \in Pid, OrphanExits(p)
  PROVE  CountInv'
<1>1. /\ UNCHANGED <<queue, inflight, releasing, accepted, pc, cur, handle, faults>>
      /\ child[p] \in Event /\ p # handle /\ child' = [child EXCEPT ![p] = Free]
      /\ successes' = successes \/ successes' = [successes EXCEPT ![child[p]] = @ + 1]
  BY DEF OrphanExits, queueVars, loop, NoFault, Runs
<1>2. /\ child \in [Pid -> Event \cup {Free, Foreign}] /\ faults \in Nat /\ Free \notin Event /\ successes \in [Event -> Nat]
  BY DrainAssumption DEF LoopInv, LoopTypeOK
<1>3. ReleasesHeld' /\ ChildIsHeld'
  BY <1>1, <1>2 DEF CountInv, ReleasesHeld, ChildIsHeld, LoopInv, LoopTypeOK, ControlInv
<1>4. ASSUME NEW e \in Event
      PROVE  Finite(e)' /\ Chances(e)' <= 1 + faults' /\ (e \notin accepted' => Untouched(e)')
  <2>1. Finite(e) /\ Chances(e) <= 1 + faults /\ (e \notin accepted => Untouched(e))
    BY DEF CountInv
  <2>2. /\ Cardinality(QueueCopies(e)) \in Nat /\ Cardinality(LeftRuns(e)) \in Nat /\ HeldCopies(e) \in {0, 1}
        /\ successes[e] \in Nat
    BY <2>1, CountsAre
  <2>3. QueueCopies(e)' = QueueCopies(e) /\ HeldCopies(e)' = HeldCopies(e) /\ (IsInflight(e)' <=> IsInflight(e))
    BY <1>1 DEF QueueCopies, HeldCopies, IsInflight
  <2>4. CASE e # child[p]
    <3>1. LeftRuns(e)' = LeftRuns(e) /\ successes'[e] = successes[e]
      BY <1>1, <1>2, <2>4 DEF LeftRuns
    <3>2. HeldCopies(e)' + faults <= HeldCopies(e) + faults' /\ accepted \subseteq accepted'
      BY <1>1, <1>2, <2>2, <2>3
    <3> QED
      BY <2>3, <3>1, <3>2, CountKept
  <2>5. CASE e = child[p]
    <3>1. LeftRuns(e)' = LeftRuns(e) \ {p} /\ p \in LeftRuns(e)
      BY <1>1, <1>2, <2>5 DEF LeftRuns
    <3>2. IsFiniteSet(LeftRuns(e)') /\ Cardinality(LeftRuns(e)') = Cardinality(LeftRuns(e)) - 1
      BY <2>1, <3>1, FS_RemoveElement DEF Finite
    <3>3. successes'[e] <= successes[e] + 1 /\ successes'[e] \in Nat /\ e \in accepted
      BY <1>1, <1>2, <2>1, <2>2, <3>1 DEF Untouched
    <3>4. Finite(e)'
      BY <2>1, <2>3, <3>2 DEF Finite
    <3>5. Chances(e)' <= 1 + faults'
      BY <1>1, <1>2, <2>1, <2>2, <2>3, <3>2, <3>3 DEF Chances
    <3> QED
      BY <1>1, <3>3, <3>4, <3>5
  <2> QED
    BY <2>4, <2>5
<1> QED
  BY <1>3, <1>4 DEF CountInv

\* One step, whichever it is.
LEMMA CountInvInductive ==
  ASSUME LoopInv, LoopInv', CountInv, [Next]_vars
  PROVE  CountInv'
<1>1. CASE \E id \in Event : Receive(id)
  BY <1>1, ReceiveCounts
<1>2. CASE RecoverInflight
  <2>1. PICK f \in inflight : f.pid \notin Alive /\ ReleaseWrite(f, f.pid # NoPid)
    BY <1>2 DEF RecoverInflight, RecoverOrphan, First, Orphans
  <2>2. pc = "top" /\ pc' = "top" /\ UNCHANGED <<handle, child, successes, faults>> /\ (f.pid # NoPid) \in BOOLEAN
    BY <1>2 DEF RecoverInflight, loop, host, NoFault
  <2> QED
    BY <2>1, <2>2, ReleaseCounts
<1>3. CASE FinishRelease
  BY <1>3, FinishReleaseCounts
<1>4. CASE SpawnFails \/ Nack
  <2>1. pc \in {"reserved", "failed"} /\ pc' = "top" /\ UNCHANGED <<handle, child, successes, faults>> /\ NackReserved(cur)
    BY <1>4 DEF SpawnFails, Nack, Goto, host, NoFault
  <2>2. pc \in Holding
    BY <2>1 DEF Holding
  <2>3. PICK f \in inflight : NackReserved(f)
    BY <2>1, <2>2, HeldOperations
  <2> QED
    BY <2>1, <2>3, ReleaseCounts DEF NackReserved
<1>5. CASE SkipEvent \/ Reserve
  BY <1>5, HeadCounts
<1>6. CASE \E p \in Pid : Spawn(p) \/ OrphanExits(p)
  BY <1>6, SpawnCounts, OrphanCounts
<1>7. CASE Attach \/ Ack
  BY <1>7, SettleCounts
<1>8. CASE ChildSucceeds \/ ChildFails
  BY <1>8, ChildEndCounts
<1>9. CASE RemoveFails \/ SettleFails
  BY <1>9, FaultCounts
<1>10. CASE Crash \/ WaitFails
  BY <1>10, LeavingCounts
<1>11. CASE QuietStep
  BY <1>11, QuietCounts
<1> QED
  BY <1>1, <1>2, <1>3, <1>4, <1>5, <1>6, <1>7, <1>8, <1>9, <1>10, <1>11 DEF Next, LoopStep, ProcessStep, FaultStep, QuietStep

\* Every run that succeeds beyond the first is paid for by a crash or a failed disk operation: the loop by itself never
\* works on an event again that it has finished (event_drain_loop, reserve_next, release_inflight_event).
THEOREM ExtraSuccessesArePaidFor == Spec => []ExtraSuccessNeedsFault
<1>1. Init => CountInv
  <2> SUFFICES ASSUME Init PROVE CountInv
    OBVIOUS
  <2>1. /\ queue = {} /\ inflight = {} /\ releasing = {} /\ pc = "down" /\ handle = NoPid
        /\ child = [p \in Pid |-> Free] /\ faults = 0 /\ successes = [e \in Event |-> 0]
    BY DEF Init, QueueInit
  <2>2. ASSUME NEW e \in Event PROVE QueueCopies(e) = {} /\ LeftRuns(e) = {} /\ ~IsInflight(e)
    BY <2>1, DrainAssumption DEF QueueCopies, LeftRuns, IsInflight
  <2>3. ASSUME NEW e \in Event PROVE Finite(e) /\ Chances(e) <= 1 + faults /\ Untouched(e)
    <3>1. QueueCopies(e) = {} /\ LeftRuns(e) = {} /\ ~IsInflight(e) /\ successes[e] = 0
      BY <2>1, <2>2
    <3>2. Cardinality(QueueCopies(e)) = 0 /\ Cardinality(LeftRuns(e)) = 0 /\ HeldCopies(e) = 0 /\ Finite(e)
      BY <3>1, FS_EmptySet DEF HeldCopies, Finite
    <3> QED
      BY <2>1, <3>1, <3>2 DEF Chances, Untouched
  <2> QED
    BY <2>1, <2>3 DEF CountInv, ReleasesHeld, ChildIsHeld
<1>2. LoopInv /\ LoopInv' /\ CountInv /\ [Next]_vars => CountInv'
  BY CountInvInductive
<1>3. LoopInv /\ CountInv => ExtraSuccessNeedsFault
  <2> SUFFICES ASSUME LoopInv, CountInv, NEW e \in Event
               PROVE  successes[e] <= 1 + faults
    BY DEF ExtraSuccessNeedsFault
  <2>1. Finite(e) /\ Chances(e) <= 1 + faults
    BY DEF CountInv
  <2> QED
    BY <2>1, CountsAre DEF Chances
<1> QED
  BY <1>1, <1>2, <1>3, LoopInvariant, PTL DEF Spec

-----------------------------------------------------------------------------
(***************************************************************************)
(* The queue under two processes (SharedQueue).  Only the server writes    *)
(* files of other labels than Bootstrap, one at a time: among those, the   *)
(* numbers are still distinct, and no bootstrap file has the name of one.  *)
(***************************************************************************)

\* The files that are no bootstrap event's.
IsHook(f) == Label[f.id] # Bootstrap
Hooks(files) == {f \in files : IsHook(f)}

HookNumbers ==
  /\ \A f, g \in Hooks(queue) : f.seq = g.seq => f = g
  /\ \A f, g \in Hooks(inflight) : f.seq = g.seq => f = g
  /\ \A f \in Hooks(queue), g \in Hooks(inflight) : f.seq # g.seq

\* The reservation a release deletes is of the event it copies.
IsSource(r) == IsHook(r) => \A g \in Hooks(inflight) : g.seq = r.seq => g.id = r.id

\* What is being written: by the command a bootstrap event, by the server a file with a
\* number of its own, at least among the others.
WritingInv ==
  /\ \A x \in writing["command"] : ~IsHook(x.file)
  /\ \A x \in writing["server"] :
       /\ releasing = {}
       /\ IsHook(x.file) => \A g \in Hooks(queue) \cup Hooks(inflight) : g.seq < x.file.seq
       /\ \A r \in x.source : r.id = x.file.id /\ IsSource(r)

ReleasedInv == \A r \in releasing : IsHook(r) => r.id \in Ids(Hooks(queue)) \cup buried /\ IsSource(r)

HooksSurvive ==
  \A id \in accepted :
    Label[id] # Bootstrap => id \in Ids(Hooks(queue) \cup Hooks(inflight)) \cup acked \cup dropped \cup buried

SharedTypes == TypeOK /\ writing \in [Writer -> SUBSET [file : Entry, source : SUBSET Entry]]

\* The inductive invariant.
SharedInv == SharedTypes /\ HookNumbers /\ WritingInv /\ ReleasedInv /\ HooksSurvive

\* A file whose name none of the others has is added beside them.
LEMMA HooksWritten ==
  ASSUME NEW files, NEW f, ~IsHook(f) \/ \A g \in Hooks(files) : g.seq # f.seq
  PROVE  Hooks(Write(files, f)) = Hooks(files) \cup Hooks({f})
BY DEF Hooks, IsHook, Write, Name

\* A deletion takes at most the one file.
LEMMA HooksRemoved ==
  ASSUME NEW files, NEW f \in files, IsHook(f) => \A g \in Hooks(files) : g.seq = f.seq => g = f
  PROVE  Hooks(Remove(files, f)) = Hooks(files) \ {f}
BY DEF Hooks, IsHook, Remove, Name

\* The initial state satisfies the invariant.
LEMMA SharedInvInit == SharedInit => SharedInv
BY DEF SharedInit, QueueInit, SharedInv, SharedTypes, TypeOK, HookNumbers, WritingInv, ReleasedInv, HooksSurvive, Hooks, Writer

\* Choosing a number changes nothing on disk.
LEMMA PrepareKeepsShared ==
  ASSUME SharedInv, NEW w \in Writer, NEW id \in Event, NEW retry \in Nat, NEW source \in SUBSET Entry,
         Prepare(w, id, retry, source),
         w = "command" => Label[id] = Bootstrap,
         w = "server" => releasing = {} /\ \A r \in source : r.id = id /\ IsSource(r)
  PROVE  SharedInv'
<1>1. PICK s \in NextSequence :
        writing' = [writing EXCEPT ![w] =
          {[file |-> [id |-> id, seq |-> s, retry |-> retry, pid |-> NoPid], source |-> source]}]
  BY DEF Prepare
<1> DEFINE new == [id |-> id, seq |-> s, retry |-> retry, pid |-> NoPid]
           x == [file |-> new, source |-> source]
<1>2. s \in Nat /\ \A g \in queue \cup inflight : g.seq < s
  BY NextSequenceIsFresh DEF SharedInv, SharedTypes
<1>3. new \in Entry /\ new.id = id /\ new.seq = s
  BY <1>2 DEF Entry
<1> HIDE DEF new
<1>4. x \in [file : Entry, source : SUBSET Entry] /\ x.file = new /\ x.source = source
  BY <1>3
<1>5. writing' = [writing EXCEPT ![w] = {x}]
  BY <1>1 DEF new
<1> HIDE DEF x
<1>6. UNCHANGED queueVars
  BY DEF Prepare
<1>7. SharedTypes'
  BY <1>4, <1>5, <1>6 DEF SharedInv, SharedTypes, TypeOK, queueVars
<1>8. writing'[w] = {x} /\ \A v \in Writer \ {w} : writing'[v] = writing[v]
  BY <1>5 DEF SharedInv, SharedTypes
<1>9. WritingInv'
  <2>1. UNCHANGED <<queue, inflight, releasing>>
    BY <1>6 DEF queueVars
  <2>2. CASE w = "command"
    <3>1. writing'["server"] = writing["server"] /\ writing'["command"] = {x}
      BY <1>8, <2>2 DEF Writer
    <3>2. ~IsHook(x.file)
      BY <1>3, <1>4, <2>2 DEF IsHook
    <3> QED
      BY <2>1, <3>1, <3>2 DEF SharedInv, WritingInv, IsSource, IsHook, Hooks
  <2>3. CASE w = "server"
    <3>1. writing'["command"] = writing["command"] /\ writing'["server"] = {x}
      BY <1>8, <2>3 DEF Writer
    <3>2. \A g \in Hooks(queue) \cup Hooks(inflight) : g.seq < x.file.seq
      BY <1>2, <1>3, <1>4 DEF Hooks
    <3>3. \A r \in x.source : r.id = x.file.id /\ IsSource(r)
      BY <1>3, <1>4, <2>3
    <3> QED
      BY <2>1, <2>3, <3>1, <3>2, <3>3 DEF SharedInv, WritingInv, IsSource, IsHook, Hooks
  <2> QED
    BY <2>2, <2>3 DEF Writer
<1>10. HookNumbers' /\ ReleasedInv' /\ HooksSurvive'
  BY <1>6 DEF SharedInv, HookNumbers, ReleasedInv, HooksSurvive, IsSource, IsHook, Hooks, Ids, queueVars
<1> QED
  BY <1>7, <1>9, <1>10 DEF SharedInv

\* A file is renamed into queue/: among the files of other labels it is the last, if it is one.
LEMMA RenameKeepsShared ==
  ASSUME SharedInv, NEW w \in Writer, Rename(w)
  PROVE  SharedInv'
<1>1. PICK x \in writing[w] :
        /\ queue' = Write(queue, x.file)
        /\ accepted' = accepted \cup {x.file.id}
        /\ releasing' = IF w = "server" THEN x.source ELSE releasing
        /\ writing' = [writing EXCEPT ![w] = {}]
        /\ UNCHANGED <<inflight, dead, acked, dropped, buried>>
  BY DEF Rename
<1>2. x.file \in Entry /\ x.source \subseteq Entry /\ x.file.id \in Event /\ x.file.seq \in Nat
  BY DEF SharedInv, SharedTypes, Entry
<1>3. writing'[w] = {} /\ \A v \in Writer \ {w} : writing'[v] = writing[v]
  BY <1>1 DEF SharedInv, SharedTypes
<1>4. ~IsHook(x.file) \/ (w = "server" /\ \A g \in Hooks(queue) \cup Hooks(inflight) : g.seq < x.file.seq)
  BY DEF SharedInv, WritingInv, Writer
<1>5. \A g \in Hooks(queue) \cup Hooks(inflight) : g.seq \in Nat
  BY DEF SharedInv, SharedTypes, TypeOK, Entry, Hooks
<1>6. Hooks(queue') = Hooks(queue) \cup Hooks({x.file})
  <2>1. ~IsHook(x.file) \/ \A g \in Hooks(queue) : g.seq # x.file.seq
    BY <1>2, <1>4, <1>5
  <2> QED
    BY <1>1, <2>1, HooksWritten
<1>7. Hooks({x.file}) = IF IsHook(x.file) THEN {x.file} ELSE {}
  BY DEF Hooks
<1>8. SharedTypes'
  <2>1. queue' \subseteq Entry
    BY <1>1, <1>2 DEF Write, SharedInv, SharedTypes, TypeOK
  <2>2. releasing' \subseteq Entry /\ accepted' \subseteq Event
    BY <1>1, <1>2 DEF SharedInv, SharedTypes, TypeOK
  <2>3. writing' \in [Writer -> SUBSET [file : Entry, source : SUBSET Entry]]
    BY <1>1 DEF SharedInv, SharedTypes
  <2> QED
    BY <1>1, <2>1, <2>2, <2>3 DEF SharedInv, SharedTypes, TypeOK
<1> DEFINE files == Hooks(queue)
<1>9. HookNumbers'
  <2>1. \A f \in Hooks({x.file}), g \in Hooks(queue) \cup Hooks(inflight) : g.seq # f.seq
    BY <1>2, <1>4, <1>5, <1>7
  <2>2. \A f, g \in Hooks({x.file}) : f = g
    BY <1>7
  <2>3. Hooks(inflight)' = Hooks(inflight) /\ Hooks(queue)' = Hooks(queue) \cup Hooks({x.file})
    BY <1>1, <1>6 DEF Hooks, IsHook
  <2> QED
    BY <2>1, <2>2, <2>3 DEF SharedInv, HookNumbers
<1>10. Hooks(inflight)' = Hooks(inflight) /\ Hooks(queue)' = Hooks(queue) \cup Hooks({x.file})
  BY <1>1, <1>6 DEF Hooks, IsHook
<1>11. WritingInv'
  <2>1. CASE w = "server"
    <3>1. writing'["server"] = {} /\ writing'["command"] = writing["command"]
      BY <1>3, <2>1 DEF Writer
    <3> QED
      BY <3>1 DEF SharedInv, WritingInv, IsHook
  <2>2. CASE w = "command"
    <3>1. writing'["command"] = {} /\ writing'["server"] = writing["server"] /\ releasing' = releasing
      BY <1>1, <1>3, <2>2 DEF Writer
    <3>2. Hooks({x.file}) = {}
      BY <1>4, <1>7, <2>2
    <3>3. Hooks(queue)' = Hooks(queue)
      BY <1>10, <3>2
    <3>4. \A r : IsSource(r)' <=> IsSource(r)
      BY <1>10 DEF IsSource, IsHook
    <3>5. \A y \in writing["server"] :
            /\ releasing = {}
            /\ IsHook(y.file) => \A g \in Hooks(queue) \cup Hooks(inflight) : g.seq < y.file.seq
            /\ \A r \in y.source : r.id = y.file.id /\ IsSource(r)
      BY DEF SharedInv, WritingInv
    <3>6. \A r : IsHook(r)' <=> IsHook(r)
      BY DEF IsHook
    <3> HIDE DEF Hooks
    <3> QED
      BY <1>10, <3>1, <3>3, <3>4, <3>5, <3>6 DEF WritingInv
  <2> QED
    BY <2>1, <2>2 DEF Writer
<1>12. ReleasedInv'
  <2>1. CASE w = "server"
    <3> SUFFICES ASSUME NEW r \in x.source, IsHook(r)
                 PROVE  r.id \in Ids(Hooks(queue)') /\ IsSource(r)'
      BY <1>1, <2>1 DEF ReleasedInv, IsHook
    <3>1. r.id = x.file.id /\ IsSource(r)
      BY <2>1 DEF SharedInv, WritingInv
    <3>2. IsHook(x.file)
      BY <3>1 DEF IsHook
    <3> QED
      BY <1>7, <1>10, <3>1, <3>2 DEF Ids, IsSource, IsHook
  <2>2. CASE w = "command"
    <3>1. releasing' = releasing /\ buried' = buried /\ Ids(Hooks(queue)) \subseteq Ids(Hooks(queue)')
      BY <1>1, <1>10, <2>2 DEF Ids
    <3> QED
      BY <1>10, <3>1 DEF SharedInv, ReleasedInv, IsSource, IsHook
  <2> QED
    BY <2>1, <2>2 DEF Writer
<1>13. HooksSurvive'
  <2>1. \A id \in Event : id \in Ids(Hooks(queue) \cup Hooks(inflight)) => id \in Ids(Hooks(queue)' \cup Hooks(inflight)')
    BY <1>10 DEF Ids
  <2>2. Label[x.file.id] # Bootstrap => x.file.id \in Ids(Hooks(queue)' \cup Hooks(inflight)')
    BY <1>7, <1>10 DEF Ids, IsHook
  <2> QED
    BY <1>1, <2>1, <2>2 DEF SharedInv, SharedTypes, TypeOK, HooksSurvive
<1> QED
  BY <1>8, <1>9, <1>11, <1>12, <1>13 DEF SharedInv

\* What is not written changes nothing.
LEMMA WriteFailsKeepsShared ==
  ASSUME SharedInv, NEW w \in Writer, WriteFails(w)
  PROVE  SharedInv'
<1>1. UNCHANGED queueVars /\ writing' \in [Writer -> SUBSET [file : Entry, source : SUBSET Entry]]
  BY DEF WriteFails, SharedInv, SharedTypes
<1>2. \A v \in Writer : writing'[v] \subseteq writing[v]
  BY DEF WriteFails, SharedInv, SharedTypes
<1> USE <1>1 DEF SharedInv, queueVars
<1>3. SharedTypes'
  BY DEF SharedTypes, TypeOK
<1>4. HookNumbers' /\ ReleasedInv' /\ HooksSurvive'
  BY DEF HookNumbers, ReleasedInv, HooksSurvive, IsSource, IsHook, Hooks, Ids
<1>5. WritingInv'
  BY <1>2 DEF WritingInv, Writer, IsSource, IsHook, Hooks
<1> QED
  BY <1>3, <1>4, <1>5

\* A release by the server: the copy, or the dead letter.
LEMMA ReleaseKeepsShared ==
  ASSUME SharedInv, NEW f \in inflight, ServerReleases(f) \/ ServerBuries(f)
  PROVE  SharedInv'
<1> DEFINE source == [f EXCEPT !.pid = NoPid]
<1>1. f \in Entry /\ source \in Entry /\ source.id = f.id /\ source.seq = f.seq /\ f.id \in Event /\ f.retry \in Nat
  BY DEF SharedInv, SharedTypes, TypeOK, Entry
<1> HIDE DEF source
<1>2. IsSource(source)
  BY <1>1 DEF SharedInv, HookNumbers, IsSource, IsHook, Hooks
<1>3. CASE ServerReleases(f)
  <2>1. PICK retry \in {f.retry, f.retry + 1} : Prepare("server", f.id, retry, {source})
    BY <1>3 DEF ServerReleases, source
  <2>2. releasing = {} /\ retry \in Nat /\ {source} \in SUBSET Entry /\ "server" \in Writer
    BY <1>1, <1>3, <2>1 DEF ServerReleases, ServerFree, Unlocked, Writer
  <2>3. \A r \in {source} : r.id = f.id /\ IsSource(r)
    BY <1>1, <1>2
  <2> QED
    BY <1>1, <2>1, <2>2, <2>3, PrepareKeepsShared
<1>4. CASE ServerBuries(f)
  <2>1. /\ UNCHANGED <<queue, inflight, accepted, acked, dropped, writing>> /\ writing["server"] = {}
        /\ releasing' = {source} /\ buried' = buried \cup {f.id}
        /\ dead' \subseteq dead \cup {[f EXCEPT !.retry = f.retry + 1, !.pid = NoPid]}
    BY <1>4 DEF ServerBuries, ServerFree, MoveToDeadLetter, Write, source
  <2>2. [f EXCEPT !.retry = f.retry + 1, !.pid = NoPid] \in Entry
    <3> DEFINE retry == f.retry + 1
    <3>1. retry \in Nat
      BY <1>1
    <3> HIDE DEF retry
    <3>2. [f EXCEPT !.retry = retry, !.pid = NoPid] \in Entry
      BY <1>1, <3>1 DEF Entry
    <3> QED
      BY <3>2 DEF retry
  <2>3. SharedTypes'
    BY <1>1, <2>1, <2>2 DEF SharedInv, SharedTypes, TypeOK
  <2>4. Hooks(queue)' = Hooks(queue) /\ Hooks(inflight)' = Hooks(inflight)
    BY <2>1 DEF Hooks, IsHook
  <2>5. HookNumbers' /\ HooksSurvive'
    BY <2>1, <2>4 DEF SharedInv, HookNumbers, HooksSurvive
  <2>6. WritingInv'
    BY <2>1 DEF SharedInv, WritingInv, IsHook
  <2>7. ReleasedInv'
    BY <1>1, <1>2, <2>1, <2>4 DEF ReleasedInv, IsSource, IsHook
  <2> QED
    BY <2>3, <2>5, <2>6, <2>7 DEF SharedInv
<1> QED
  BY <1>3, <1>4

\* The other steps of the server.
LEMMA ServerStepKeepsShared ==
  ASSUME SharedInv, ServerStep
  PROVE  SharedInv'
<1>1. writing' = writing /\ writing["server"] = {}
  BY DEF ServerStep
<1>2. \A f \in queue : f \in Entry /\ f.seq \in Nat /\ f.id \in Event
  BY DEF SharedInv, SharedTypes, TypeOK, Entry
<1>3. \A f \in inflight : f \in Entry /\ f.seq \in Nat /\ f.id \in Event
  BY DEF SharedInv, SharedTypes, TypeOK, Entry
<1>4. \A x \in writing["command"] : ~IsHook(x.file)
  BY DEF SharedInv, WritingInv
<1>5. WritingInv'
  BY <1>1, <1>4 DEF WritingInv, IsHook
<1>6. CASE \E f \in queue : ReserveNext(f)
  <2>1. PICK f \in queue : ReserveNext(f)
    BY <1>6
  <2> DEFINE new == [f EXCEPT !.pid = NoPid]
  <2>2. queue' = Remove(queue, f) /\ inflight' = Write(inflight, new) /\ releasing = {}
        /\ UNCHANGED <<dead, releasing, accepted, acked, dropped, buried>>
    BY <2>1 DEF ReserveNext, Unlocked
  <2>3. new \in Entry /\ new.id = f.id /\ new.seq = f.seq
    BY <1>2 DEF Entry
  <2> HIDE DEF new
  <2>4. Hooks(queue') = Hooks(queue) \ {f}
    <3>1. IsHook(f) => \A g \in Hooks(queue) : g.seq = f.seq => g = f
      BY DEF SharedInv, HookNumbers, Hooks
    <3> QED
      BY <2>2, <3>1, HooksRemoved
  <2>5. Hooks(inflight') = Hooks(inflight) \cup Hooks({new})
    <3>1. ~IsHook(new) \/ \A g \in Hooks(inflight) : g.seq # new.seq
      BY <2>3 DEF SharedInv, HookNumbers, Hooks, IsHook
    <3> QED
      BY <2>2, <3>1, HooksWritten
  <2>6. Hooks({new}) = IF IsHook(f) THEN {new} ELSE {}
    BY <2>3 DEF Hooks, IsHook
  <2>7. Hooks(queue)' = Hooks(queue') /\ Hooks(inflight)' = Hooks(inflight')
    BY DEF Hooks, IsHook
  <2>8. IsHook(f) => f \in Hooks(queue)
    BY DEF Hooks
  <2>9. SharedTypes'
    BY <1>1, <2>2, <2>3 DEF SharedInv, SharedTypes, TypeOK, Write, Remove
  <2>10. HookNumbers'
    <3>1. \A h \in Hooks(queue)' : h \in Hooks(queue) /\ h # f
      BY <2>4, <2>7
    <3>2. \A h \in Hooks(inflight)' : h \in Hooks(inflight) \/ (IsHook(f) /\ h = new)
      BY <2>5, <2>6, <2>7
    <3> QED
      BY <2>3, <2>8, <3>1, <3>2 DEF SharedInv, HookNumbers
  <2>11. ReleasedInv'
    BY <2>2 DEF ReleasedInv
  <2>12. HooksSurvive'
    <3>1. \A id \in Event : id \in Ids(Hooks(queue) \cup Hooks(inflight)) => id \in Ids(Hooks(queue)' \cup Hooks(inflight)')
      <4> SUFFICES ASSUME NEW g \in Hooks(queue) \cup Hooks(inflight)
                   PROVE  \E h \in Hooks(queue)' \cup Hooks(inflight)' : h.id = g.id
        BY DEF Ids
      <4>1. CASE g = f /\ IsHook(f)
        BY <2>3, <2>5, <2>6, <2>7, <4>1
      <4>2. CASE g # f \/ ~IsHook(f)
        BY <2>4, <2>5, <2>7, <4>2 DEF Hooks
      <4> QED
        BY <4>1, <4>2
    <3> QED
      BY <2>2, <3>1 DEF SharedInv, SharedTypes, TypeOK, HooksSurvive
  <2> QED
    BY <1>5, <2>9, <2>10, <2>11, <2>12 DEF SharedInv
<1>7. CASE \E f \in inflight, p \in Pid : AttachPid(f, p)
  <2>1. PICK f \in inflight, p \in Pid : AttachPid(f, p)
    BY <1>7
  <2> DEFINE new == [f EXCEPT !.pid = p]
  <2>2. inflight' = Write(inflight, new) /\ releasing = {}
        /\ UNCHANGED <<queue, dead, releasing, accepted, acked, dropped, buried>>
    BY <2>1 DEF AttachPid, Unlocked
  <2>3. new \in Entry /\ new.id = f.id /\ new.seq = f.seq
    BY <1>3 DEF Entry
  <2> HIDE DEF new
  <2>4. Hooks(queue)' = Hooks(queue)
    BY <2>2 DEF Hooks, IsHook
  <2>5. Hooks(inflight)' = IF IsHook(f) THEN (Hooks(inflight) \ {f}) \cup {new} ELSE Hooks(inflight)
    <3>1. Hooks(inflight)' = {g \in inflight : Name(g) # Name(new) /\ IsHook(g)} \cup Hooks({new})
      BY <2>2 DEF Hooks, IsHook, Write, Name
    <3>2. CASE IsHook(f)
      <4>1. \A g \in inflight : IsHook(g) => (Name(g) = Name(new) <=> g = f)
        BY <2>3, <3>2 DEF SharedInv, HookNumbers, Hooks, Name
      <4>2. Hooks({new}) = {new}
        BY <2>3, <3>2 DEF Hooks, IsHook
      <4> QED
        BY <3>1, <3>2, <4>1, <4>2 DEF Hooks
    <3>3. CASE ~IsHook(f)
      <4>1. Hooks({new}) = {} /\ \A g \in inflight : IsHook(g) => Name(g) # Name(new)
        BY <2>3, <3>3 DEF Hooks, IsHook, Name
      <4> QED
        BY <3>1, <3>3, <4>1 DEF Hooks
    <3> QED
      BY <3>2, <3>3
  <2>6. IsHook(f) => f \in Hooks(inflight)
    BY DEF Hooks
  <2>7. SharedTypes'
    BY <1>1, <2>2, <2>3 DEF SharedInv, SharedTypes, TypeOK, Write
  <2>8. HookNumbers'
    BY <2>3, <2>4, <2>5, <2>6 DEF SharedInv, HookNumbers
  <2>9. ReleasedInv'
    BY <2>2 DEF ReleasedInv
  <2>10. HooksSurvive'
    <3>1. Ids(Hooks(queue)' \cup Hooks(inflight)') = Ids(Hooks(queue) \cup Hooks(inflight))
      BY <2>3, <2>4, <2>5, <2>6 DEF Ids
    <3> QED
      BY <2>2, <3>1 DEF SharedInv, HooksSurvive
  <2> QED
    BY <1>5, <2>7, <2>8, <2>9, <2>10 DEF SharedInv
<1>8. ASSUME NEW f \in Entry, inflight' = Remove(inflight, f), UNCHANGED <<queue, dead, accepted, dropped, buried>>,
             releasing' = {}, acked \subseteq acked', acked' \subseteq Event,
             IsHook(f) => f.id \in Ids(Hooks(queue)) \cup acked' \cup buried,
             \A g \in Hooks(inflight) : IsHook(f) /\ g.seq = f.seq => g.id = f.id
      PROVE  SharedInv'
  <2>1. Hooks(queue)' = Hooks(queue) /\ Hooks(inflight)' \subseteq Hooks(inflight)
    BY <1>8 DEF Hooks, IsHook, Remove
  <2>2. SharedTypes'
    BY <1>1, <1>8 DEF SharedInv, SharedTypes, TypeOK, Remove
  <2>3. HookNumbers'
    BY <2>1 DEF SharedInv, HookNumbers
  <2>4. ReleasedInv'
    BY <1>8 DEF ReleasedInv
  <2>5. HooksSurvive'
    <3>1. \A g \in Hooks(inflight) : g \in Hooks(inflight)' \/ (IsHook(f) /\ g.seq = f.seq)
      BY <1>8 DEF Hooks, IsHook, Remove, Name
    <3>2. \A g \in Hooks(queue) \cup Hooks(inflight) :
            g.id \in Ids(Hooks(queue)' \cup Hooks(inflight)') \cup acked' \cup buried
      BY <1>8, <2>1, <3>1 DEF Ids
    <3> QED
      BY <1>8, <3>2 DEF SharedInv, HooksSurvive, Ids
  <2> QED
    BY <1>5, <2>2, <2>3, <2>4, <2>5 DEF SharedInv
<1>9. CASE \E f \in inflight : AckReserved(f)
  <2>1. PICK f \in inflight : AckReserved(f)
    BY <1>9
  <2>2. \A g \in Hooks(inflight) : IsHook(f) /\ g.seq = f.seq => g.id = f.id
    BY DEF SharedInv, HookNumbers, Hooks
  <2> QED
    BY <1>3, <1>8, <2>1, <2>2 DEF AckReserved, Unlocked, SharedInv, SharedTypes, TypeOK
<1>10. CASE ReleaseRemove
  <2>1. PICK f \in releasing : inflight' = Remove(inflight, f) /\ releasing' = {} /\ UNCHANGED <<queue, dead, history>>
    BY <1>10 DEF ReleaseRemove
  <2>2. f \in Entry
    BY DEF SharedInv, SharedTypes, TypeOK
  <2>3. \A g \in Hooks(inflight) : IsHook(f) /\ g.seq = f.seq => g.id = f.id
    BY DEF SharedInv, ReleasedInv, IsSource
  <2>4. IsHook(f) => f.id \in Ids(Hooks(queue)) \cup buried
    BY DEF SharedInv, ReleasedInv
  <2> QED
    BY <1>8, <2>1, <2>2, <2>3, <2>4 DEF history, SharedInv, SharedTypes, TypeOK
<1>11. CASE ReleaseAbort
  <2>1. releasing' = {} /\ UNCHANGED <<queue, inflight, dead, accepted, acked, dropped, buried>>
    BY <1>11 DEF ReleaseAbort, disk, history
  <2>2. SharedTypes' /\ ReleasedInv'
    BY <1>1, <2>1 DEF SharedInv, SharedTypes, TypeOK, ReleasedInv
  <2>3. HookNumbers' /\ HooksSurvive'
    BY <2>1 DEF SharedInv, HookNumbers, HooksSurvive, Hooks, IsHook, Ids
  <2> QED
    BY <1>5, <2>2, <2>3 DEF SharedInv
<1>12. CASE \E f \in queue : Dequeue(f)
  <2>1. PICK f \in queue : Dequeue(f)
    BY <1>12
  <2>2. queue' = Remove(queue, f) /\ dropped' = dropped \cup {f.id} /\ releasing = {}
        /\ UNCHANGED <<inflight, dead, releasing, accepted, acked, buried>>
    BY <2>1 DEF Dequeue, Unlocked
  <2>3. Hooks(queue') = Hooks(queue) \ {f}
    <3>1. IsHook(f) => \A g \in Hooks(queue) : g.seq = f.seq => g = f
      BY DEF SharedInv, HookNumbers, Hooks
    <3> QED
      BY <2>2, <3>1, HooksRemoved
  <2>4. Hooks(queue)' = Hooks(queue) \ {f} /\ Hooks(inflight)' = Hooks(inflight)
    BY <2>2, <2>3 DEF Hooks, IsHook
  <2>5. SharedTypes'
    BY <1>1, <1>2, <2>2 DEF SharedInv, SharedTypes, TypeOK, Remove
  <2>6. HookNumbers'
    BY <2>4 DEF SharedInv, HookNumbers
  <2>7. ReleasedInv'
    BY <2>2 DEF ReleasedInv
  <2>8. HooksSurvive'
    BY <2>2, <2>4 DEF SharedInv, HooksSurvive, Ids
  <2> QED
    BY <1>5, <2>5, <2>6, <2>7, <2>8 DEF SharedInv
<1> QED
  BY <1>6, <1>7, <1>9, <1>10, <1>11, <1>12 DEF ServerStep

\* Each step keeps the invariant.
LEMMA SharedInvStep ==
  ASSUME SharedInv, [SharedNext]_sharedVars
  PROVE  SharedInv'
<1>1. ASSUME NEW id \in Event, ServerEnqueues(id) PROVE SharedInv'
  <2>1. Prepare("server", id, 0, {}) /\ releasing = {}
    BY <1>1 DEF ServerEnqueues, ServerFree, Unlocked
  <2> QED
    BY <2>1, PrepareKeepsShared DEF Writer
<1>2. ASSUME NEW id \in Command, CommandEnqueues(id) PROVE SharedInv'
  <2>1. Prepare("command", id, 0, {}) /\ id \in Event /\ Label[id] = Bootstrap
    BY <1>2, SharedAssumption DEF CommandEnqueues
  <2> QED
    BY <2>1, PrepareKeepsShared DEF Writer
<1>3. ASSUME NEW f \in inflight, ServerReleases(f) \/ ServerBuries(f) PROVE SharedInv'
  BY <1>3, ReleaseKeepsShared
<1>4. ASSUME NEW w \in Writer, Rename(w) \/ WriteFails(w) PROVE SharedInv'
  BY <1>4, RenameKeepsShared, WriteFailsKeepsShared
<1>5. CASE ServerStep
  BY <1>5, ServerStepKeepsShared
<1>6. CASE UNCHANGED sharedVars
  <2> USE <1>6 DEF sharedVars, queueVars, SharedInv
  <2>1. SharedTypes'
    BY DEF SharedTypes, TypeOK
  <2>2. HookNumbers' /\ ReleasedInv' /\ HooksSurvive'
    BY DEF HookNumbers, ReleasedInv, HooksSurvive, IsSource, IsHook, Hooks, Ids
  <2>3. WritingInv'
    BY DEF WritingInv, IsSource, IsHook, Hooks
  <2> QED
    BY <2>1, <2>2, <2>3
<1> QED
  BY <1>1, <1>2, <1>3, <1>4, <1>5, <1>6 DEF SharedNext

\* The invariant holds of every reachable state.
THEOREM SharedInvariant == SharedSpec => []SharedInv
<1>1. SharedInv /\ [SharedNext]_sharedVars => SharedInv'
  BY SharedInvStep
<1> QED
  BY SharedInvInit, <1>1, PTL DEF SharedSpec

\* `githubclaw bootstrap` beside the server never costs a webhook's event its file, or a
\* scheduled one (cli.rs opens its own queue; the label in the file name tells them apart).
THEOREM WebhooksOutliveTheCommand == SharedSpec => []WebhooksSurvive
<1>1. SharedInv => WebhooksSurvive
  BY DEF SharedInv, HooksSurvive, WebhooksSurvive, Hooks, Ids
<1> QED
  BY SharedInvariant, <1>1, PTL
=============================================================================

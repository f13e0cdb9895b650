---------------------------- MODULE EventChannel ----------------------------
(***************************************************************************)
(* What the server promises for the events of a repository, said without   *)
(* files, processes or restarts: an accepted event is owed until a run of  *)
(* it succeeded, until it was tried more often than its retry budget, or,  *)
(* for an event nobody acts on, until it is discarded.  A crash may make   *)
(* the server run an event again, so delivery is at least once.            *)
(*                                                                         *)
(* DrainLoop implements this specification (ChannelSpec there): what is    *)
(* owed is what has a file in queue/ or queue/inflight/.                   *)
(***************************************************************************)
EXTENDS Integers

CONSTANTS
  Event,      \* the accepted deliveries
  Wanted,     \* those the server acts on
  MaxRetry    \* the attempts that may fail before the last one

VARIABLES
  accepted,   \* the events a webhook was answered for
  pending,    \* the events still owed
  attempts,   \* attempts[e]: runs started, or refused, for e
  successes   \* successes[e]: runs of e that succeeded

channelVars == <<accepted, pending, attempts, successes>>

Init ==
  /\ accepted = {} /\ pending = {}
  /\ attempts = [e \in Event |-> 0]
  /\ successes = [e \in Event |-> 0]

\* An event is owed once it is accepted, and accepted once.
Accept(e) ==
  /\ e \notin accepted
  /\ accepted' = accepted \cup {e}
  /\ pending' = pending \cup {e}
  /\ UNCHANGED <<attempts, successes>>

\* A run is started, or refused by the host, for an event that is owed.
Attempt(e) ==
  /\ e \in pending \cap Wanted
  /\ attempts' = [attempts EXCEPT ![e] = @ + 1]
  /\ UNCHANGED <<accepted, pending, successes>>

\* A run succeeds, of an event that is still owed or was settled meanwhile.
Succeed(e) ==
  /\ attempts[e] > 0
  /\ successes' = [successes EXCEPT ![e] = @ + 1]
  /\ UNCHANGED <<accepted, pending, attempts>>

Forget(e) ==
  /\ pending' = pending \ {e}
  /\ UNCHANGED <<accepted, attempts, successes>>

Discard(e) == e \in pending \ Wanted /\ Forget(e)
Settle(e)  == e \in pending /\ successes[e] > 0 /\ Forget(e)
GiveUp(e)  == e \in pending /\ attempts[e] > MaxRetry /\ Forget(e)

Next ==
  \E e \in Event :
    Accept(e) \/ Attempt(e) \/ Succeed(e) \/ Discard(e) \/ Settle(e) \/ GiveUp(e)

Spec == Init /\ [][Next]_channelVars
=============================================================================

----------------------------- MODULE Scheduler -----------------------------
(***************************************************************************)
(* The scheduled events (scheduler.rs) and the loop that fires them into   *)
(* the queues (cli.rs), with the file they are kept in and crashes.        *)
(*                                                                         *)
(* A pass holds the scheduler's lock from its start to its end, so that    *)
(* events come and go only between passes; a crash may come anywhere.      *)
(* `now` is in ticks of the clock, and a pass reads it once.               *)
(***************************************************************************)
EXTENDS Naturals, Sequences, SequencesExt

CONSTANTS
  OneShot,     \* the events fired once
  Recurring,   \* the others
  Interval,    \* interval_seconds of the recurring events
  MaxRetry,    \* MAX_SCHEDULED_EVENT_RETRY_COUNT
  MaxTime,     \* bound of the model: the clock
  MaxCrashes   \* bound of the model: crashes of the server

ASSUME SchedulerAssumption ==
  /\ OneShot \cap Recurring = {}
  /\ Interval \in Nat \ {0}
  /\ MaxRetry \in Nat \ {0}
  /\ MaxTime \in Nat /\ MaxCrashes \in Nat

VARIABLES
  events,     \* the list in memory; drained during a pass
  file,       \* the list on disk
  up,         \* whether the server runs
  blind,      \* it could not read the file when it started, and has not written it since
  pass,       \* whether a pass runs
  todo,       \* what the pass has still to look at
  remaining,  \* what it keeps
  start,      \* its reading of the clock
  fired,      \* whether it fired anything
  now,
  \* history
  first,      \* the first trigger time of each event that was created
  fires,      \* how often each was fired by the server that runs, or ran last
  done,       \* the events that were fired, by whatever server
  fails,      \* how often the firing of each failed
  cancelled,  \* the events cancelled
  unsaved,    \* events on the list that a failed save kept from the file
  lost,       \* those of them that a crash took
  overwritten,  \* events in a file that a server wrote over without having read it
  crashes

running == <<pass, todo, remaining, start, fired>>
history == <<first, fires, done, fails, cancelled>>
disk == <<file, blind, unsaved, lost, overwritten>>
vars == <<events, up, disk, running, now, history, crashes>>

Event == OneShot \cup Recurring

Init ==
  /\ events = <<>> /\ file = <<>> /\ up = TRUE
  /\ pass = FALSE /\ todo = <<>> /\ remaining = <<>> /\ start = 0 /\ fired = FALSE
  /\ now = 0
  /\ first = <<>> /\ cancelled = {} /\ done = {}
  /\ fires = [e \in Event |-> 0] /\ fails = [e \in Event |-> 0]
  /\ blind = FALSE /\ unsaved = {} /\ lost = {} /\ overwritten = {} /\ crashes = 0

Ids(list) == {ev.id : ev \in ToSet(list)}

SaveWorks(list) ==
  /\ file' = list /\ blind' = FALSE
  /\ unsaved' = unsaved \ Ids(list)
  /\ overwritten' = IF blind THEN overwritten \cup (Ids(file) \ Ids(list)) ELSE overwritten
  /\ UNCHANGED lost

\* Every caller ignores it.
SaveFails(list) ==
  /\ unsaved' = unsaved \cup (Ids(list) \ Ids(file))
  /\ UNCHANGED <<file, blind, lost, overwritten>>

Save(list) == SaveWorks(list) \/ SaveFails(list)

KeepFile == UNCHANGED disk

-----------------------------------------------------------------------------
CreateEvent(e, t) ==
  /\ up /\ ~pass /\ e \notin DOMAIN first
  /\ events' = Append(events, [id |-> e, at |-> t, retries |-> 0])
  /\ Save(events')
  /\ first' = [x \in DOMAIN first \cup {e} |-> IF x = e THEN t ELSE first[x]]
  /\ UNCHANGED <<up, running, now, fires, done, fails, cancelled, crashes>>

\* An id is given to one event only, so the event that goes is the only one of that id.
CancelEvent(e) ==
  /\ up /\ ~pass
  /\ \E i \in DOMAIN events : events[i].id = e /\ events' = RemoveAt(events, i)
  /\ Save(events')
  /\ cancelled' = cancelled \cup {e}
  /\ UNCHANGED <<up, running, now, first, fires, done, fails, crashes>>

\* fire_due_events_with_callback
PassStarts ==
  /\ up /\ ~pass /\ events # <<>>
  /\ pass' = TRUE /\ todo' = events /\ remaining' = <<>> /\ start' = now /\ fired' = FALSE
  /\ events' = <<>>
  /\ UNCHANGED <<up, now, history, crashes>> /\ KeepFile

\* The pass is done with the head of `todo` and keeps `kept` of it.
Keeps(kept) ==
  /\ todo' = Tail(todo)
  /\ remaining' = remaining \o kept
  /\ UNCHANGED <<events, up, pass, start, now, first, cancelled, crashes>> /\ KeepFile

Due == pass /\ todo # <<>> /\ Head(todo).at <= start

NotDue ==
  /\ pass /\ todo # <<>> /\ Head(todo).at > start
  /\ Keeps(<<Head(todo)>>)
  /\ UNCHANGED <<fired, fires, done, fails>>

\* Mutation of NextTrigger: counted from the firing.
NextFromStart(t) == start + Interval

\* The first trigger time of the event's grid that is after the pass began.
NextTrigger(t) == t + Interval * ((start - t) \div Interval + 1)

\* Mutation of Fires: a one-shot event is kept.
FiresAndKeeps ==
  /\ Due
  /\ LET ev == Head(todo)
     IN  /\ Keeps(<<[ev EXCEPT !.at = NextTrigger(@), !.retries = 0]>>)
         /\ fires' = [fires EXCEPT ![ev.id] = @ + 1] /\ done' = done \cup {ev.id}
  /\ fired' = TRUE /\ UNCHANGED fails

\* The callback has queued the event.
Fires ==
  /\ Due
  /\ LET ev == Head(todo)
     IN  /\ Keeps(IF ev.id \in OneShot THEN <<>>
                  ELSE <<[ev EXCEPT !.at = NextTrigger(@), !.retries = 0]>>)
         /\ fires' = [fires EXCEPT ![ev.id] = @ + 1] /\ done' = done \cup {ev.id}
  /\ fired' = TRUE /\ UNCHANGED fails

\* Mutation of FiringFails: the event is dropped one failure early.
FiringFailsEarly ==
  /\ Due
  /\ LET ev == Head(todo)
     IN  /\ Keeps(IF ev.retries + 2 < MaxRetry
                  THEN <<[ev EXCEPT !.retries = @ + 1]>> ELSE <<>>)
         /\ fails' = [fails EXCEPT ![ev.id] = @ + 1]
  /\ UNCHANGED <<fired, fires, done>>

\* The callback could not queue the event.
FiringFails ==
  /\ Due
  /\ LET ev == Head(todo)
     IN  /\ Keeps(IF ev.retries + 1 < MaxRetry
                  THEN <<[ev EXCEPT !.retries = @ + 1]>> ELSE <<>>)
         /\ fails' = [fails EXCEPT ![ev.id] = @ + 1]
  /\ UNCHANGED <<fired, fires, done>>

\* The list is saved only if something was fired.
PassEnds ==
  /\ pass /\ todo = <<>>
  /\ pass' = FALSE /\ events' = remaining /\ remaining' = <<>>
  /\ IF fired THEN Save(remaining) ELSE KeepFile
  /\ UNCHANGED <<up, todo, start, fired, now, history, crashes>>

-----------------------------------------------------------------------------
Crash ==
  /\ up /\ crashes < MaxCrashes /\ crashes' = crashes + 1
  /\ up' = FALSE /\ events' = <<>>
  /\ pass' = FALSE /\ todo' = <<>> /\ remaining' = <<>> /\ UNCHANGED <<start, fired>>
  /\ lost' = lost \cup unsaved /\ unsaved' = {} /\ blind' = FALSE
  /\ UNCHANGED <<now, history, file, overwritten>>

Starts ==
  /\ ~up /\ up' = TRUE
  /\ fires' = [e \in Event |-> 0]
  /\ UNCHANGED <<file, unsaved, lost, overwritten, running, now, first, done, fails, cancelled, crashes>>

\* load, at the start of the server
Load == Starts /\ events' = file /\ blind' = FALSE

\* load cannot read or parse the file: the server says so in its log and goes on with an empty list.
LoadFails == Starts /\ events' = <<>> /\ blind' = TRUE

Tick ==
  /\ now < MaxTime /\ now' = now + 1
  /\ UNCHANGED <<events, up, running, history, crashes>> /\ KeepFile

Next ==
  \/ \E e \in Event, t \in 0 .. MaxTime : CreateEvent(e, t)
  \/ \E e \in Event : CancelEvent(e)
  \/ PassStarts \/ NotDue \/ Fires \/ FiringFails \/ PassEnds
  \/ Crash \/ Load \/ LoadFails \/ Tick

Spec == Init /\ [][Next]_vars

\* The loop runs, and ends its passes.
FairSpec ==
  /\ Spec
  /\ WF_vars(PassStarts) /\ WF_vars(NotDue) /\ WF_vars(Fires \/ FiringFails)
  /\ WF_vars(PassEnds) /\ WF_vars(Load \/ LoadFails) /\ WF_vars(Tick)

-----------------------------------------------------------------------------
(***************************************************************************)
(* Properties.                                                             *)
(***************************************************************************)

Entries == ToSet(events) \cup ToSet(todo) \cup ToSet(remaining)

Listed(e) == \E ev \in Entries : ev.id = e
InFile(e) == \E ev \in ToSet(file) : ev.id = e

\* An event that was created is on the list of the server that runs, or in the
\* file if none runs or the one that does could not read it, unless it was
\* cancelled, fired for its one time, or failed as often as the limit.  It is
\* lost only with a server that could not save it, or to one that wrote over a
\* file it could not read.
NoneVanishes ==
  \A e \in DOMAIN first \ cancelled :
    \/ up /\ Listed(e)
    \/ (up => blind) /\ InFile(e)
    \/ e \in OneShot \cap done
    \/ fails[e] >= MaxRetry
    \/ e \in lost \cup overwritten

\* "One-shot events are removed after firing" (scheduler.rs): no server fires
\* one twice, and it fires again what an earlier one has fired only if the file
\* was not saved in between.
FiredOncePerRun == \A e \in OneShot : fires[e] <= 1 /\ (fires[e] = 1 => ~Listed(e))

\* A recurring event keeps to the grid of its first trigger time, however late
\* its passes are and whatever fails.
OnTheGrid ==
  \A ev \in Entries \cup ToSet(file) :
    ev.id \in Recurring =>
      ev.at >= first[ev.id] /\ (ev.at - first[ev.id]) % Interval = 0

\* A one-shot event does not stay on the list for ever: it is fired, dropped,
\* cancelled, or its trigger time does not come.
DueIsSettled ==
  \A e \in OneShot :
    (\E ev \in Entries : ev.id = e) ~> (\A ev \in Entries : ev.id # e)
=============================================================================

--------------------------- MODULE SchedulerProofs ---------------------------
(***************************************************************************)
(* The safety properties of Scheduler, for any events, any interval and    *)
(* retry limit, and clocks and crashes without end.                        *)
(***************************************************************************)
EXTENDS Scheduler, SequenceTheorems, TLAPS

Entry == [id : Event, at : Nat, retries : Nat]

Distinct(list) == \A i, j \in DOMAIN list : list[i].id = list[j].id => i = j

SchedulerTypes ==
  /\ events \in Seq(Entry) /\ file \in Seq(Entry) /\ todo \in Seq(Entry) /\ remaining \in Seq(Entry)
  /\ up \in BOOLEAN /\ pass \in BOOLEAN /\ fired \in BOOLEAN /\ blind \in BOOLEAN
  /\ start \in Nat /\ now \in Nat /\ crashes \in Nat
  /\ DOMAIN first \subseteq Event /\ \A e \in DOMAIN first : first[e] \in Nat
  /\ fires \in [Event -> Nat] /\ fails \in [Event -> Nat]

\* A pass has drained the list of a server that runs; between passes the list is all there is.
PassInv ==
  /\ pass => up /\ events = <<>>
  /\ ~pass => todo = <<>> /\ remaining = <<>>
  /\ ~up => events = <<>>

\* No list holds an event twice, and what a pass keeps is not before it any more.
DistinctInv ==
  /\ Distinct(events) /\ Distinct(file) /\ Distinct(todo) /\ Distinct(remaining)
  /\ Ids(todo) \cap Ids(remaining) = {}

\* What is known of an event wherever it is listed: it was created, its failures are counted, and it is on its grid.
Known(ev) ==
  /\ ev.id \in DOMAIN first
  /\ ev.retries <= fails[ev.id]
  /\ ev.id \in Recurring => ev.at >= first[ev.id] /\ (ev.at - first[ev.id]) % Interval = 0

KnownInv ==
  /\ \A ev \in Entries \cup ToSet(file) : Known(ev)
  /\ \A e \in Event \ DOMAIN first : fires[e] = 0

\* The event has had all the firings it may have.
Spent(e) == e \in OneShot \cap done \/ fails[e] >= MaxRetry

\* Where the event is: on the list, and in the file too unless a save failed; or only in the file, for a server that cannot
\* read it or one to come.
Kept(e) ==
  \/ up /\ Listed(e) /\ (InFile(e) \/ e \in unsaved)
  \/ (up => blind) /\ InFile(e)

KeptInv == \A e \in DOMAIN first \ cancelled : e \in lost \cup overwritten \/ Spent(e) \/ Kept(e)

SchedulerInv == SchedulerTypes /\ PassInv /\ DistinctInv /\ KnownInv /\ KeptInv /\ FiredOncePerRun


-----------------------------------------------------------------------------
(* Lists.                                                                  *)

\* A list of distinct events is its first event and the rest, which has no event of that id.
LEMMA TailOfList ==
  ASSUME NEW list \in Seq(Entry), list # <<>>
  PROVE  /\ Head(list) \in Entry /\ Tail(list) \in Seq(Entry)
         /\ ToSet(list) = {Head(list)} \cup ToSet(Tail(list))
         /\ Distinct(list) => Distinct(Tail(list)) /\ Head(list).id \notin Ids(Tail(list))
<1>1. /\ Head(list) \in Entry /\ Tail(list) \in Seq(Entry)
      /\ Head(list) = list[1] /\ Len(list) \in Nat \ {0} /\ Len(Tail(list)) = Len(list) - 1
      /\ \A i \in 1 .. Len(Tail(list)) : Tail(list)[i] = list[i + 1]
  BY HeadTailProperties, EmptySeq
<1>2. DOMAIN list = 1 .. Len(list) /\ DOMAIN Tail(list) = 1 .. Len(Tail(list))
  BY <1>1, LenProperties
<1>3. ToSet(list) \subseteq {Head(list)} \cup ToSet(Tail(list))
  <2> SUFFICES ASSUME NEW i \in 1 .. Len(list), i # 1 PROVE list[i] \in ToSet(Tail(list))
    BY <1>1, <1>2 DEF ToSet
  <2>1. i - 1 \in 1 .. Len(Tail(list)) /\ Tail(list)[i - 1] = list[i]
    BY <1>1
  <2> QED
    BY <2>1, <1>2 DEF ToSet
<1>4. {Head(list)} \cup ToSet(Tail(list)) \subseteq ToSet(list)
  <2>1. Head(list) \in ToSet(list)
    BY <1>1, <1>2 DEF ToSet
  <2>2. ASSUME NEW i \in 1 .. Len(Tail(list)) PROVE Tail(list)[i] \in ToSet(list)
    <3>1. i + 1 \in 1 .. Len(list) /\ Tail(list)[i] = list[i + 1]
      BY <1>1
    <3> QED
      BY <3>1, <1>2 DEF ToSet
  <2> QED
    BY <2>1, <2>2, <1>2 DEF ToSet
<1>5. ASSUME Distinct(list) PROVE Distinct(Tail(list))
  BY <1>1, <1>2, <1>5 DEF Distinct
<1>6. ASSUME Distinct(list) PROVE Head(list).id \notin Ids(Tail(list))
  <2> SUFFICES ASSUME NEW i \in 1 .. Len(Tail(list)), Tail(list)[i].id = Head(list).id PROVE FALSE
    BY <1>2 DEF Ids, ToSet
  <2> QED
    BY <1>1, <1>2, <1>6 DEF Distinct
<1> QED
  BY <1>1, <1>3, <1>4, <1>5, <1>6

\* An event with a new id at the end of the list.
LEMMA LongerList ==
  ASSUME NEW list \in Seq(Entry), NEW ev \in Entry
  PROVE  /\ list \o <<ev>> \in Seq(Entry) /\ Append(list, ev) = list \o <<ev>>
         /\ ToSet(list \o <<ev>>) = ToSet(list) \cup {ev}
         /\ Distinct(list) /\ ev.id \notin Ids(list) => Distinct(list \o <<ev>>)
<1>1. /\ Append(list, ev) \in Seq(Entry) /\ Append(list, ev) = list \o <<ev>> /\ Len(list) \in Nat
      /\ Len(Append(list, ev)) = Len(list) + 1
      /\ \A i \in 1 .. Len(list) : Append(list, ev)[i] = list[i]
      /\ Append(list, ev)[Len(list) + 1] = ev
  BY AppendProperties, AppendIsConcat, LenProperties
<1>2. DOMAIN list = 1 .. Len(list) /\ DOMAIN Append(list, ev) = 1 .. Len(Append(list, ev))
  BY <1>1, LenProperties
<1>3. ToSet(Append(list, ev)) = ToSet(list) \cup {ev}
  <2>1. ASSUME NEW i \in 1 .. (Len(list) + 1) PROVE Append(list, ev)[i] \in ToSet(list) \cup {ev}
    BY <1>1, <1>2 DEF ToSet
  <2>2. ASSUME NEW i \in 1 .. Len(list) PROVE list[i] \in ToSet(Append(list, ev))
    <3>1. i \in 1 .. (Len(list) + 1)
      BY <1>1
    <3> QED
      BY <1>1, <1>2, <3>1 DEF ToSet
  <2>3. ev \in ToSet(Append(list, ev))
    <3>1. Len(list) + 1 \in 1 .. (Len(list) + 1)
      BY <1>1
    <3> QED
      BY <1>1, <1>2, <3>1 DEF ToSet
  <2> QED
    BY <1>1, <1>2, <2>1, <2>2, <2>3 DEF ToSet
<1>4. ASSUME Distinct(list), ev.id \notin Ids(list) PROVE Distinct(Append(list, ev))
  <2>1. \A i \in 1 .. Len(list) : list[i].id # ev.id
    BY <1>2, <1>4 DEF Ids, ToSet
  <2> QED
    BY <1>1, <1>2, <1>4, <2>1 DEF Distinct
<1> QED
  BY <1>1, <1>3, <1>4

\* An event taken out of the list: those of other ids stay.
LEMMA ShorterList ==
  ASSUME NEW list \in Seq(Entry), NEW k \in DOMAIN list
  PROVE  /\ RemoveAt(list, k) \in Seq(Entry)
         /\ ToSet(RemoveAt(list, k)) \subseteq ToSet(list)
         /\ \A ev \in ToSet(list) : ev.id # list[k].id => ev \in ToSet(RemoveAt(list, k))
         /\ Distinct(list) => Distinct(RemoveAt(list, k))
<1> DEFINE rest == RemoveAt(list, k)  at(i) == IF i < k THEN i ELSE i + 1
<1>1. Len(list) \in Nat /\ DOMAIN list = 1 .. Len(list) /\ k \in 1 .. Len(list)
  BY LenProperties
<1> DEFINE before == SubSeq(list, 1, k - 1)  after == SubSeq(list, k + 1, Len(list))
<1>2. before \in Seq(Entry) /\ Len(before) = k - 1 /\ \A i \in 1 .. (k - 1) : before[i] = list[i]
  BY <1>1, SubSeqProperties
<1>3. after \in Seq(Entry) /\ Len(after) = Len(list) - k /\ \A i \in 1 .. (Len(list) - k) : after[i] = list[k + i]
  BY <1>1, SubSeqProperties
<1>0. rest = before \o after
  BY DEF RemoveAt
<1> HIDE DEF before, after, rest
<1>4. /\ rest \in Seq(Entry) /\ Len(rest) = Len(list) - 1
      /\ \A i \in 1 .. (Len(list) - 1) : rest[i] = IF i <= k - 1 THEN before[i] ELSE after[i - (k - 1)]
  <2>1. /\ rest \in Seq(Entry) /\ Len(rest) = Len(before) + Len(after)
        /\ \A i \in 1 .. (Len(before) + Len(after)) :
              rest[i] = IF i <= Len(before) THEN before[i] ELSE after[i - Len(before)]
    BY <1>0, <1>2, <1>3, ConcatProperties
  <2>2. Len(before) + Len(after) = Len(list) - 1
    BY <1>1, <1>2, <1>3
  <2> QED
    BY <1>2, <2>1, <2>2
<1>5. DOMAIN rest = 1 .. (Len(list) - 1)
  BY <1>4, LenProperties
<1>6. ASSUME NEW i \in 1 .. (Len(list) - 1) PROVE at(i) \in 1 .. Len(list) /\ at(i) # k /\ rest[i] = list[at(i)]
  <2>1. CASE i < k
    BY <1>1, <1>2, <1>4, <2>1
  <2>2. CASE i >= k
    <3>1. i - (k - 1) \in 1 .. (Len(list) - k) /\ k + (i - (k - 1)) = i + 1
      BY <1>1, <2>2
    <3>4. ~(i <= k - 1)
      BY <1>1, <2>2
    <3>2. rest[i] = after[i - (k - 1)]
      BY <1>4, <3>4, Zenon
    <3>3. after[i - (k - 1)] = list[i + 1]
      BY <1>3, <3>1
    <3> QED
      BY <1>1, <2>2, <3>2, <3>3
  <2> QED
    BY <1>1, <2>1, <2>2
<1>7. ToSet(rest) \subseteq ToSet(list)
  BY <1>1, <1>5, <1>6 DEF ToSet
<1>8. ASSUME NEW i \in 1 .. Len(list), list[i].id # list[k].id PROVE list[i] \in ToSet(rest)
  <2> DEFINE j == IF i < k THEN i ELSE i - 1
  <2>1. j \in 1 .. (Len(list) - 1) /\ at(j) = i
    BY <1>1, <1>8
  <2> HIDE DEF at, j
  <2>2. rest[j] = list[i]
    BY <1>6, <2>1
  <2> QED
    BY <1>5, <2>1, <2>2 DEF ToSet
<1>9. ASSUME Distinct(list) PROVE Distinct(rest)
  <2> SUFFICES ASSUME NEW i \in 1 .. (Len(list) - 1), NEW j \in 1 .. (Len(list) - 1), rest[i].id = rest[j].id PROVE i = j
    BY <1>5 DEF Distinct
  <2>1. at(i) = at(j)
    BY <1>1, <1>6, <1>9 DEF Distinct
  <2> QED
    BY <1>1, <2>1
<1> QED
  BY <1>1, <1>4, <1>7, <1>8, <1>9 DEF ToSet, rest

\* The list of a new server.
LEMMA EmptyList == ToSet(<<>>) = {} /\ Ids(<<>>) = {} /\ Distinct(<<>>) /\ <<>> \in Seq(Entry)
  BY EmptySeq DEF ToSet, Ids, Distinct

-----------------------------------------------------------------------------
(* The grid.                                                               *)

\* The grid: the multiples of the interval.
LEMMA Multiples ==
  ASSUME NEW x \in Nat
  PROVE  x % Interval = 0 <=> \E q \in Nat : x = Interval * q
<1>1. Interval \in Nat \ {0}
  BY SchedulerAssumption
<1>2. ASSUME x % Interval = 0 PROVE x = Interval * (x \div Interval) /\ x \div Interval \in Nat
  BY <1>1, <1>2
<1>3. ASSUME NEW q \in Nat, x = Interval * q PROVE x % Interval = 0
  BY <1>1, <1>3
<1> QED
  BY <1>2, <1>3

\* The next trigger time of an event that is due is on its grid, and later than the pass began.
LEMMA GridIsKept ==
  ASSUME NEW t \in Nat, start \in Nat, t <= start, NEW base \in Nat, base <= t, (t - base) % Interval = 0
  PROVE  NextTrigger(t) \in Nat /\ NextTrigger(t) >= t /\ (NextTrigger(t) - base) % Interval = 0
<1>1. Interval \in Nat \ {0} /\ t - base \in Nat
  BY SchedulerAssumption
<1> DEFINE k == (start - t) \div Interval + 1
<1>2. k \in Nat
  BY <1>1
<1> HIDE DEF k
<1>3. PICK q \in Nat : t - base = Interval * q
  BY <1>1, Multiples
<1>4. Interval * q + Interval * k = Interval * (q + k) /\ Interval * k \in Nat /\ q + k \in Nat
  BY <1>1, <1>2
<1>5. NextTrigger(t) = t + Interval * k
  BY DEF NextTrigger, k
<1>6. NextTrigger(t) \in Nat /\ NextTrigger(t) >= t /\ NextTrigger(t) - base = Interval * (q + k)
  BY <1>1, <1>3, <1>4, <1>5
<1>7. NextTrigger(t) - base \in Nat
  BY <1>6
<1> QED
  BY <1>4, <1>6, <1>7, Multiples

-----------------------------------------------------------------------------
(* The invariant.                                                          *)

\* The initial state satisfies the invariant.
LEMMA SchedulerInvInit == Init => SchedulerInv
<1> SUFFICES ASSUME Init PROVE SchedulerInv
  OBVIOUS
<1>1. SchedulerTypes
  <2>1. DOMAIN first = {}
    BY DEF Init
  <2>2. fires \in [Event -> Nat] /\ fails \in [Event -> Nat]
    BY DEF Init
  <2> QED
    BY <2>1, <2>2, EmptyList DEF Init, SchedulerTypes
<1>2. PassInv /\ DistinctInv
  BY EmptyList DEF Init, PassInv, DistinctInv
<1>3. Entries = {} /\ ToSet(file) = {} /\ DOMAIN first = {}
  BY EmptyList DEF Init, Entries
<1>4. KnownInv /\ KeptInv /\ FiredOncePerRun
  BY <1>3 DEF Init, KnownInv, KeptInv, FiredOncePerRun, Event
<1> QED
  BY <1>1, <1>2, <1>4 DEF SchedulerInv

\* A save leaves an event of the list in the file or notes it, and one that only the file had there or notes it.
LEMMA SaveKeeps ==
  ASSUME NEW list, Save(list), NEW e, e \in Ids(list) \/ (blind /\ InFile(e)), blind \in BOOLEAN
  PROVE  \/ e \in Ids(list) /\ (InFile(e)' \/ e \in unsaved')
         \/ blind' /\ InFile(e)'
         \/ e \in overwritten'
<1>1. InFile(e) <=> e \in Ids(file)
  BY DEF InFile, Ids
<1>2. CASE SaveWorks(list)
  <2>1. e \in Ids(list) => InFile(e)'
    BY <1>2 DEF SaveWorks, InFile, Ids
  <2> QED
    BY <1>1, <1>2, <2>1 DEF SaveWorks
<1>3. CASE SaveFails(list)
  <2>1. InFile(e)' <=> InFile(e)
    BY <1>3 DEF SaveFails, InFile
  <2> QED
    BY <1>1, <1>3, <2>1 DEF SaveFails
<1> QED
  BY <1>2, <1>3 DEF Save

\* What a save does to the rest.
LEMMA SaveFrame ==
  ASSUME NEW list, Save(list), blind \in BOOLEAN
  PROVE  /\ file' \in {file, list} /\ blind' \in BOOLEAN
         /\ lost' = lost /\ overwritten \subseteq overwritten'
  BY DEF Save, SaveWorks, SaveFails

\* An operator's change of the list: what is known of the events is so of the new list, wherever it is saved.
LEMMA SavedList ==
  ASSUME SchedulerInv, up, ~pass, UNCHANGED <<up, running, now, fires, done, fails, crashes>>, Save(events'),
         events' \in Seq(Entry), Distinct(events'), DOMAIN first' \subseteq Event, DOMAIN first \subseteq DOMAIN first',
         \A e \in DOMAIN first' : first'[e] \in Nat,
         \A e \in DOMAIN first : first'[e] = first[e],
         \A ev \in ToSet(events') : Known(ev)' /\ (ev \in ToSet(events) \/ fires[ev.id] = 0),
         \A e \in DOMAIN first' \ cancelled' :
            (\E ev \in ToSet(events') : ev.id = e) \/ (e \in DOMAIN first \ cancelled /\ ~\E ev \in ToSet(events) : ev.id = e)
  PROVE  SchedulerInv'
<1>1. file' \in {file, events'} /\ blind' \in BOOLEAN /\ lost' = lost /\ overwritten \subseteq overwritten'
  BY SaveFrame DEF SchedulerInv, SchedulerTypes
<1>2. pass' = pass /\ todo' = <<>> /\ remaining' = <<>> /\ start' = start /\ fired' = fired
  BY DEF running, SchedulerInv, PassInv
<1>3. Entries' = ToSet(events') /\ Entries = ToSet(events)
  BY <1>2, EmptyList DEF Entries, SchedulerInv, PassInv
<1>4. SchedulerTypes'
  BY <1>1, <1>2, EmptyList DEF SchedulerInv, SchedulerTypes
<1>5. PassInv' /\ DistinctInv'
  BY <1>1, <1>2, EmptyList DEF SchedulerInv, PassInv, DistinctInv
<1>6. ASSUME NEW ev \in ToSet(file) PROVE Known(ev)'
  BY DEF SchedulerInv, KnownInv, Known
<1>7. KnownInv'
  BY <1>1, <1>3, <1>6 DEF SchedulerInv, KnownInv
<1>8. KeptInv'
  <2> SUFFICES ASSUME NEW e \in DOMAIN first' \ cancelled', e \notin lost' \cup overwritten', ~Spent(e)
               PROVE  Kept(e)'
    BY DEF KeptInv, Spent
  <2>1. e \in Ids(events') \/ (blind /\ InFile(e))
    <3>1. CASE \E ev \in ToSet(events') : ev.id = e
      BY <3>1 DEF Ids
    <3>2. CASE e \in DOMAIN first \ cancelled /\ ~\E ev \in ToSet(events) : ev.id = e
      <4>1. ~Listed(e)
        BY <1>3, <3>2 DEF Listed
      <4> QED
        BY <1>1, <3>2, <4>1 DEF SchedulerInv, KeptInv, Kept
    <3> QED
      BY <3>1, <3>2
  <2>2. \/ e \in Ids(events') /\ (InFile(e)' \/ e \in unsaved')
        \/ blind' /\ InFile(e)'
    BY <2>1, SaveKeeps DEF SchedulerInv, SchedulerTypes
  <2>3. e \in Ids(events') => Listed(e)'
    BY <1>3 DEF Listed, Ids
  <2> QED
    BY <2>2, <2>3 DEF Kept
<1>9. FiredOncePerRun'
  <2> SUFFICES ASSUME NEW e \in OneShot, fires[e] = 1 PROVE ~Listed(e)'
    BY DEF SchedulerInv, FiredOncePerRun
  <2>1. \A ev \in ToSet(events) : ev.id # e
    BY <1>3 DEF SchedulerInv, FiredOncePerRun, Listed
  <2> QED
    BY <1>3, <2>1 DEF Listed
<1> QED
  BY <1>4, <1>5, <1>7, <1>8, <1>9 DEF SchedulerInv

\* A new event has an id that was given to none, and a trigger time of its own.
LEMMA CreateKeeps ==
  ASSUME SchedulerInv, NEW e \in Event, NEW t \in Nat, CreateEvent(e, t)
  PROVE  SchedulerInv'
<1> DEFINE new == [id |-> e, at |-> t, retries |-> 0]
<1>1. new \in Entry /\ new.id = e
  BY DEF Entry
<1>2. events \in Seq(Entry) /\ Distinct(events) /\ ToSet(events) \subseteq Entries
  BY DEF SchedulerInv, SchedulerTypes, DistinctInv, Entries
<1>3. DOMAIN first' = DOMAIN first \cup {e} /\ first'[e] = t /\ \A x \in DOMAIN first : first'[x] = first[x]
  BY DEF CreateEvent
<1>4. e \notin DOMAIN first /\ fires[e] = 0 /\ e \notin Ids(events)
  BY <1>2 DEF CreateEvent, SchedulerInv, KnownInv, Known, Ids
<1>5. events' \in Seq(Entry) /\ ToSet(events') = ToSet(events) \cup {new} /\ Distinct(events')
  BY <1>1, <1>2, <1>4, LongerList DEF CreateEvent
<1>6. Known(new)'
  BY <1>1, <1>3, SchedulerAssumption DEF CreateEvent, SchedulerInv, SchedulerTypes, Known
<1>7. ASSUME NEW ev \in ToSet(events) PROVE Known(ev)'
  BY <1>2, <1>3 DEF CreateEvent, SchedulerInv, KnownInv, Known
<1>8. DOMAIN first' \subseteq Event /\ \A x \in DOMAIN first' : first'[x] \in Nat
  BY <1>3 DEF SchedulerInv, SchedulerTypes
<1> HIDE DEF new
<1> QED
  BY <1>1, <1>3, <1>4, <1>5, <1>6, <1>7, <1>8, SavedList DEF CreateEvent

\* The event that is cancelled is accounted for; the others stay.
LEMMA CancelKeeps ==
  ASSUME SchedulerInv, NEW e \in Event, CancelEvent(e)
  PROVE  SchedulerInv'
<1>1. PICK i \in DOMAIN events : events[i].id = e /\ events' = RemoveAt(events, i)
  BY DEF CancelEvent
<1>2. events \in Seq(Entry) /\ Distinct(events) /\ ToSet(events) \subseteq Entries
  BY DEF SchedulerInv, SchedulerTypes, DistinctInv, Entries
<1>3. /\ events' \in Seq(Entry) /\ Distinct(events') /\ ToSet(events') \subseteq ToSet(events)
      /\ \A ev \in ToSet(events) : ev.id # e => ev \in ToSet(events')
  BY <1>1, <1>2, ShorterList
<1>4. ASSUME NEW ev \in ToSet(events) PROVE Known(ev)'
  BY <1>2 DEF CancelEvent, SchedulerInv, KnownInv, Known
<1>5. DOMAIN first' \subseteq Event /\ \A x \in DOMAIN first' : first'[x] \in Nat
  BY DEF CancelEvent, SchedulerInv, SchedulerTypes
<1> QED
  BY <1>3, <1>4, <1>5, SavedList DEF CancelEvent

\* Where no event moves, all are kept and none is fired.
LEMMA WhereItWas ==
  ASSUME SchedulerInv, UNCHANGED <<up, blind, unsaved, lost, overwritten, history>>,
         \A e : (Listed(e)' <=> Listed(e)) /\ (InFile(e)' <=> InFile(e))
  PROVE  KeptInv' /\ FiredOncePerRun'
<1>1. \A e : Kept(e)' <=> Kept(e)
  BY DEF Kept
<1>2. \A e : Spent(e)' <=> Spent(e)
  BY DEF Spent, history
<1> QED
  BY <1>1, <1>2 DEF SchedulerInv, KeptInv, FiredOncePerRun, history

\* A pass starts with the events on the list.
LEMMA PassStartsKeeps == SchedulerInv /\ PassStarts => SchedulerInv'
<1> SUFFICES ASSUME SchedulerInv, PassStarts PROVE SchedulerInv'
  OBVIOUS
<1>1. todo' = events /\ events' = <<>> /\ remaining' = <<>> /\ todo = <<>> /\ remaining = <<>>
  BY DEF PassStarts, SchedulerInv, PassInv
<1>2. Entries' = Entries
  BY <1>1, EmptyList DEF Entries
<1>3. SchedulerTypes'
  BY <1>1, EmptyList DEF PassStarts, SchedulerInv, SchedulerTypes, history, KeepFile, disk
<1>4. PassInv' /\ DistinctInv'
  BY <1>1, EmptyList DEF PassStarts, SchedulerInv, PassInv, DistinctInv, KeepFile, disk
<1>5. KnownInv'
  BY <1>2 DEF PassStarts, SchedulerInv, KnownInv, Known, history, KeepFile, disk
<1>6. KeptInv' /\ FiredOncePerRun'
  <2>1. UNCHANGED <<up, blind, unsaved, lost, overwritten, history>> /\ \A e : (Listed(e)' <=> Listed(e)) /\ (InFile(e)' <=> InFile(e))
    BY <1>2 DEF PassStarts, KeepFile, disk, Listed, InFile
  <2> QED
    BY <2>1, WhereItWas
<1> QED
  BY <1>3, <1>4, <1>5, <1>6 DEF SchedulerInv

\* A step of a pass: the head of what is left becomes an entry of the same event, or nothing.
LEMMA PassGoesOn ==
  ASSUME SchedulerInv, pass, todo # <<>>, NEW kept, Keeps(kept), UNCHANGED fails \/ fails' \in [Event -> Nat],
         UNCHANGED fires \/ fires' \in [Event -> Nat], fired' \in BOOLEAN,
         kept = <<>> \/ \E ev \in Entry : kept = <<ev>> /\ ev.id = Head(todo).id
  PROVE  /\ SchedulerTypes' /\ PassInv' /\ DistinctInv'
         /\ Head(todo) \in Entry /\ Head(todo) \in Entries
         /\ Head(todo).id \notin Ids(Tail(todo)) \cup Ids(remaining)
         /\ Entries = ToSet(remaining) \cup {Head(todo)} \cup ToSet(Tail(todo))
         /\ kept = <<>> => Entries' = ToSet(remaining) \cup ToSet(Tail(todo))
         /\ \A ev : kept = <<ev>> => Entries' = ToSet(remaining) \cup {ev} \cup ToSet(Tail(todo))
<1> DEFINE head == Head(todo)
<1>1. todo \in Seq(Entry) /\ remaining \in Seq(Entry) /\ events = <<>> /\ events' = <<>> /\ up /\ up' /\ pass'
  BY DEF SchedulerInv, SchedulerTypes, PassInv, Keeps
<1>2. /\ head \in Entry /\ Tail(todo) \in Seq(Entry) /\ ToSet(todo) = {head} \cup ToSet(Tail(todo))
      /\ Distinct(Tail(todo)) /\ head.id \notin Ids(Tail(todo))
  BY <1>1, TailOfList DEF SchedulerInv, DistinctInv
<1>3. head.id \in Ids(todo) /\ Ids(Tail(todo)) \subseteq Ids(todo)
  BY <1>2 DEF Ids
<1>4. head.id \notin Ids(remaining) /\ Ids(Tail(todo)) \cap Ids(remaining) = {} /\ Distinct(remaining)
  BY <1>3 DEF SchedulerInv, DistinctInv
<1>5. remaining' \in Seq(Entry) /\ Distinct(remaining') /\ Ids(Tail(todo)) \cap Ids(remaining') = {}
  <2>1. CASE kept = <<>>
    BY <1>1, <1>4, <2>1, ConcatEmptySeq DEF Keeps
  <2>2. ASSUME NEW ev \in Entry, kept = <<ev>>, ev.id = head.id
        PROVE  remaining' \in Seq(Entry) /\ Distinct(remaining') /\ Ids(Tail(todo)) \cap Ids(remaining') = {}
    <3>1. remaining' \in Seq(Entry) /\ Distinct(remaining') /\ ToSet(remaining') = ToSet(remaining) \cup {ev}
      BY <1>1, <1>4, <2>2, LongerList DEF Keeps
    <3>2. Ids(remaining') = Ids(remaining) \cup {head.id}
      BY <2>2, <3>1 DEF Ids
    <3> QED
      BY <1>2, <1>4, <3>1, <3>2
  <2> QED
    BY <2>1, <2>2
<1>6. todo' = Tail(todo)
  BY DEF Keeps
<1>7. SchedulerTypes'
  BY <1>1, <1>2, <1>5, <1>6, EmptyList DEF SchedulerInv, SchedulerTypes, Keeps, KeepFile, disk
<1>8. PassInv' /\ DistinctInv'
  BY <1>1, <1>2, <1>5, <1>6, EmptyList DEF SchedulerInv, PassInv, DistinctInv, Keeps, KeepFile, disk
<1>9. Entries = ToSet(remaining) \cup {head} \cup ToSet(Tail(todo)) /\ Entries' = ToSet(remaining') \cup ToSet(Tail(todo))
  BY <1>1, <1>2, <1>6, EmptyList DEF Entries
<1>10. kept = <<>> => remaining' = remaining
  BY <1>1, ConcatEmptySeq DEF Keeps
<1>11. ASSUME NEW ev, kept = <<ev>> PROVE ToSet(remaining') = ToSet(remaining) \cup {ev}
  <2>1. ev \in Entry
    <3>1. PICK x \in Entry : kept = <<x>>
      BY <1>11
    <3> QED
      BY <1>11, <3>1
  <2> QED
    BY <1>1, <1>11, <2>1, LongerList DEF Keeps
<1> QED
  BY <1>2, <1>4, <1>7, <1>8, <1>9, <1>10, <1>11

\* An event that is not due is kept as it is.
LEMMA NotDueKeeps == SchedulerInv /\ NotDue => SchedulerInv'
<1> SUFFICES ASSUME SchedulerInv, NotDue PROVE SchedulerInv'
  OBVIOUS
<1> DEFINE head == Head(todo)
<1>0. head \in Entry
  BY TailOfList DEF NotDue, SchedulerInv, SchedulerTypes
<1>1. SchedulerTypes' /\ PassInv' /\ DistinctInv' /\ Entries' = Entries
  BY <1>0, PassGoesOn DEF NotDue, SchedulerInv, SchedulerTypes
<1>2. KnownInv'
  BY <1>1 DEF NotDue, Keeps, SchedulerInv, KnownInv, Known, KeepFile, disk
<1>3. KeptInv' /\ FiredOncePerRun'
  <2>1. UNCHANGED <<up, blind, unsaved, lost, overwritten, history>> /\ \A e : (Listed(e)' <=> Listed(e)) /\ (InFile(e)' <=> InFile(e))
    BY <1>1 DEF NotDue, Keeps, KeepFile, disk, history, Listed, InFile
  <2> QED
    BY <2>1, WhereItWas
<1> QED
  BY <1>1, <1>2, <1>3 DEF SchedulerInv

\* A firing: a recurring event moves along its grid, and a one-shot event has had its one.
LEMMA FiresKeeps == SchedulerInv /\ Fires => SchedulerInv'
<1> SUFFICES ASSUME SchedulerInv, Fires PROVE SchedulerInv'
  OBVIOUS
<1> DEFINE head == Head(todo)
<1>0. PICK next : next = [head EXCEPT !.at = NextTrigger(@), !.retries = 0]
  OBVIOUS
<1> DEFINE kept == IF head.id \in OneShot THEN <<>> ELSE <<next>>
<1>1. /\ pass /\ todo # <<>> /\ head.at <= start /\ Keeps(kept) /\ fails' = fails /\ fired'
      /\ fires' = [fires EXCEPT ![head.id] = @ + 1] /\ done' = done \cup {head.id}
  BY <1>0 DEF Fires, Due
<1>2. head \in Entry /\ head \in Entries
  BY <1>1, TailOfList DEF SchedulerInv, SchedulerTypes, Entries
<1>3. Known(head)
  BY <1>2 DEF SchedulerInv, KnownInv
<1>4. ASSUME head.id \notin OneShot
      PROVE  next \in Entry /\ next.id = head.id /\ next.retries = 0
             /\ next.at >= first[head.id] /\ (next.at - first[head.id]) % Interval = 0
  <2>1. head.id \in Recurring /\ head.at \in Nat /\ first[head.id] \in Nat /\ start \in Nat
    BY <1>2, <1>3, <1>4 DEF Entry, Event, Known, SchedulerInv, SchedulerTypes
  <2>2. /\ NextTrigger(head.at) \in Nat /\ NextTrigger(head.at) >= head.at
        /\ (NextTrigger(head.at) - first[head.id]) % Interval = 0
    BY <1>1, <1>3, <2>1, GridIsKept DEF Known
  <2>3. next.id = head.id /\ next.at = NextTrigger(head.at) /\ next.retries = 0 /\ next \in Entry
    BY <1>0, <1>2, <2>2 DEF Entry
  <2>4. first[head.id] <= head.at
    BY <1>3, <2>1 DEF Known
  <2> QED
    BY <2>1, <2>2, <2>3, <2>4
<1>5. kept = <<>> \/ \E ev \in Entry : kept = <<ev>> /\ ev.id = head.id
  BY <1>4
<1>6. fires' \in [Event -> Nat] /\ fires'[head.id] = fires[head.id] + 1 /\ \A e \in Event \ {head.id} : fires'[e] = fires[e]
  <2>1. head.id \in Event /\ fires \in [Event -> Nat]
    BY <1>2 DEF Entry, SchedulerInv, SchedulerTypes
  <2> HIDE DEF head, kept
  <2> QED
    BY <1>1, <2>1
<1> HIDE DEF kept
<1>7. /\ SchedulerTypes' /\ PassInv' /\ DistinctInv' /\ head.id \notin Ids(Tail(todo)) \cup Ids(remaining)
      /\ Entries = ToSet(remaining) \cup {head} \cup ToSet(Tail(todo))
      /\ kept = <<>> => Entries' = ToSet(remaining) \cup ToSet(Tail(todo))
      /\ kept = <<next>> => Entries' = ToSet(remaining) \cup {next} \cup ToSet(Tail(todo))
  BY <1>1, <1>5, <1>6, PassGoesOn
<1>8. (kept = <<>> /\ head.id \in OneShot) \/ (kept = <<next>> /\ head.id \notin OneShot)
  BY DEF kept
<1>9. UNCHANGED <<file, blind, unsaved, lost, overwritten, first, cancelled, up, crashes>>
  BY <1>1 DEF Keeps, KeepFile, disk
<1>10. KnownInv'
  <2>1. ASSUME NEW ev \in Entries \cup ToSet(file) PROVE Known(ev)'
    BY <1>1, <1>9 DEF SchedulerInv, KnownInv, Known
  <2>2. ASSUME kept = <<next>> PROVE Known(next)'
    <3>1. head.id \in Event /\ head.id \in DOMAIN first /\ fails[head.id] \in Nat
      BY <1>2, <1>3 DEF Known, Entry, SchedulerInv, SchedulerTypes
    <3>2. /\ next.id = head.id /\ next.retries = 0
          /\ next.at >= first[head.id] /\ (next.at - first[head.id]) % Interval = 0
      BY <1>4, <1>8, <2>2
    <3> HIDE DEF head
    <3> QED
      BY <1>1, <1>9, <3>1, <3>2 DEF Known
  <2>3. ASSUME NEW e \in Event \ DOMAIN first' PROVE fires'[e] = 0
    BY <1>3, <1>6, <1>9 DEF SchedulerInv, KnownInv, Known
  <2> QED
    <3>1. \A ev \in Entries' : ev \in Entries \/ (kept = <<next>> /\ ev = next)
      BY <1>7, <1>8
    <3> QED
      BY <1>9, <2>1, <2>2, <2>3, <3>1 DEF KnownInv
<1>11. KeptInv'
  <2> SUFFICES ASSUME NEW e \in DOMAIN first \ cancelled, e \notin lost \cup overwritten, ~Spent(e)'
               PROVE  Kept(e)'
    BY <1>9 DEF KeptInv
  <2>1. ~Spent(e)
    BY <1>1 DEF Spent
  <2>2. Kept(e)
    BY <2>1 DEF SchedulerInv, KeptInv
  <2>3. e = head.id => head.id \notin OneShot
    BY <1>1 DEF Spent
  <2>4. Listed(e) => Listed(e)'
    <3>1. CASE e = head.id
      BY <1>4, <1>7, <1>8, <2>3, <3>1 DEF Listed
    <3>2. CASE e # head.id
      BY <1>7, <1>8, <3>2 DEF Listed
    <3> QED
      BY <3>1, <3>2
  <2>5. InFile(e)' <=> InFile(e)
    BY <1>9 DEF InFile
  <2> QED
    BY <1>9, <2>2, <2>4, <2>5 DEF Kept
<1>12. FiredOncePerRun'
  <2> SUFFICES ASSUME NEW e \in OneShot
               PROVE  fires'[e] <= 1 /\ (fires'[e] = 1 => ~Listed(e)')
    BY DEF FiredOncePerRun
  <2>1. e \in Event /\ fires[e] \in Nat
    BY DEF Event, SchedulerInv, SchedulerTypes
  <2>2. CASE e = head.id
    <3>1. Listed(e)
      BY <1>2, <2>2 DEF Listed
    <3>2. fires[e] = 0
      BY <2>1, <3>1 DEF SchedulerInv, FiredOncePerRun
    <3>3. ~Listed(e)'
      BY <1>7, <1>8, <2>2 DEF Ids, Listed
    <3> QED
      BY <1>6, <2>2, <3>2, <3>3
  <2>3. CASE e # head.id
    <3>1. Listed(e)' => Listed(e)
      BY <1>4, <1>7, <1>8, <2>3 DEF Listed
    <3> QED
      BY <1>6, <2>1, <2>3, <3>1 DEF SchedulerInv, FiredOncePerRun
  <2> QED
    BY <2>2, <2>3
<1> QED
  BY <1>7, <1>10, <1>11, <1>12 DEF SchedulerInv

\* A failure: the event is tried again, or has failed as often as the limit.
LEMMA FiringFailsKeeps == SchedulerInv /\ FiringFails => SchedulerInv'
<1> SUFFICES ASSUME SchedulerInv, FiringFails PROVE SchedulerInv'
  OBVIOUS
<1> DEFINE head == Head(todo)
<1>0. PICK again : again = [head EXCEPT !.retries = @ + 1]
  OBVIOUS
<1> DEFINE kept == IF head.retries + 1 < MaxRetry THEN <<again>> ELSE <<>>
<1>1. /\ pass /\ todo # <<>> /\ Keeps(kept) /\ fires' = fires /\ fired' = fired /\ done' = done
      /\ fails' = [fails EXCEPT ![head.id] = @ + 1]
  BY <1>0 DEF FiringFails, Due
<1>2. head \in Entry /\ head \in Entries
  BY <1>1, TailOfList DEF SchedulerInv, SchedulerTypes, Entries
<1>3. Known(head)
  BY <1>2 DEF SchedulerInv, KnownInv
<1>4. again \in Entry /\ again.id = head.id /\ again.retries = head.retries + 1 /\ again.at = head.at
  BY <1>0, <1>2 DEF Entry
<1>5. kept = <<>> \/ \E ev \in Entry : kept = <<ev>> /\ ev.id = head.id
  BY <1>4
<1>6. fails' \in [Event -> Nat] /\ fails'[head.id] = fails[head.id] + 1 /\ \A e \in Event \ {head.id} : fails'[e] = fails[e]
  <2>1. head.id \in Event /\ fails \in [Event -> Nat]
    BY <1>2 DEF Entry, SchedulerInv, SchedulerTypes
  <2> HIDE DEF head, kept
  <2> QED
    BY <1>1, <2>1
<1>7. (kept = <<>> /\ head.retries + 1 >= MaxRetry) \/ kept = <<again>>
  BY <1>2, SchedulerAssumption DEF Entry
<1> HIDE DEF kept
<1>8. /\ SchedulerTypes' /\ PassInv' /\ DistinctInv'
      /\ Entries = ToSet(remaining) \cup {head} \cup ToSet(Tail(todo))
      /\ kept = <<>> => Entries' = ToSet(remaining) \cup ToSet(Tail(todo))
      /\ kept = <<again>> => Entries' = ToSet(remaining) \cup {again} \cup ToSet(Tail(todo))
  BY <1>1, <1>5, <1>6, PassGoesOn DEF SchedulerInv, SchedulerTypes
<1>9. UNCHANGED <<file, blind, unsaved, lost, overwritten, first, cancelled, up, crashes>>
  BY <1>1 DEF Keeps, KeepFile, disk
<1>10. head.id \in Event /\ head.retries \in Nat /\ fails[head.id] \in Nat /\ \A e \in Event : fails'[e] >= fails[e]
  <2>1. head.id \in Event /\ head.retries \in Nat /\ fails \in [Event -> Nat]
    BY <1>2 DEF Entry, SchedulerInv, SchedulerTypes
  <2> HIDE DEF head
  <2>2. ASSUME NEW e \in Event PROVE fails'[e] >= fails[e]
    BY <1>6, <2>1
  <2> QED
    BY <2>1, <2>2
<1>11. KnownInv'
  <2>1. ASSUME NEW ev \in Entries \cup ToSet(file) PROVE Known(ev)'
    <3>1. Known(ev) /\ ev.id \in Event /\ ev.retries \in Nat
      <4>1. Entries \cup ToSet(file) \subseteq Entry
        BY ElementOfSeq, LenProperties DEF SchedulerInv, SchedulerTypes, Entries, ToSet
      <4> QED
        BY <4>1 DEF SchedulerInv, KnownInv, Entry
    <3>2. fails[ev.id] \in Nat /\ fails'[ev.id] \in Nat
      BY <1>8, <3>1 DEF SchedulerInv, SchedulerTypes
    <3> QED
      BY <1>9, <1>10, <3>1, <3>2 DEF Known
  <2>2. Known(again)'
    <3> HIDE DEF head
    <3> QED
      BY <1>3, <1>4, <1>6, <1>9, <1>10 DEF Known
  <2>3. \A ev \in Entries' : ev \in Entries \/ ev = again
    BY <1>7, <1>8
  <2> QED
    BY <1>1, <1>9, <2>1, <2>2, <2>3 DEF KnownInv, SchedulerInv
<1>12. KeptInv'
  <2> SUFFICES ASSUME NEW e \in DOMAIN first \ cancelled, e \notin lost \cup overwritten, ~Spent(e)'
               PROVE  Kept(e)'
    BY <1>9 DEF KeptInv
  <2>1. e \in Event /\ fails[e] \in Nat /\ fails'[e] \in Nat
    BY <1>8 DEF SchedulerInv, SchedulerTypes
  <2>2. ~Spent(e)
    BY <1>1, <1>10, <2>1, SchedulerAssumption DEF Spent
  <2>3. Kept(e)
    BY <2>2 DEF SchedulerInv, KeptInv
  <2>4. e = head.id => kept = <<again>>
    <3> SUFFICES ASSUME e = head.id, head.retries + 1 >= MaxRetry PROVE FALSE
      BY <1>7
    <3>1. fails'[e] >= MaxRetry
      BY <1>3, <1>6, <1>10, SchedulerAssumption DEF Known
    <3> QED
      BY <3>1 DEF Spent
  <2>5. Listed(e) => Listed(e)'
    <3>1. CASE e = head.id
      BY <1>4, <1>8, <2>4, <3>1 DEF Listed
    <3>2. CASE e # head.id
      BY <1>7, <1>8, <3>2 DEF Listed
    <3> QED
      BY <3>1, <3>2
  <2>6. InFile(e)' <=> InFile(e)
    BY <1>9 DEF InFile
  <2> QED
    BY <1>9, <2>3, <2>5, <2>6 DEF Kept
<1>13. FiredOncePerRun'
  <2>1. \A e : Listed(e)' => Listed(e)
    BY <1>4, <1>7, <1>8 DEF Listed
  <2> QED
    BY <1>1, <2>1 DEF FiredOncePerRun, SchedulerInv
<1> QED
  BY <1>8, <1>11, <1>12, <1>13 DEF SchedulerInv

\* A pass ends with the events it has kept on the list and, if the save works, in the file.
LEMMA PassEndsKeeps == SchedulerInv /\ PassEnds => SchedulerInv'
<1> SUFFICES ASSUME SchedulerInv, PassEnds PROVE SchedulerInv'
  OBVIOUS
<1>1. pass /\ up /\ todo = <<>> /\ events = <<>> /\ events' = remaining /\ remaining' = <<>> /\ todo' = <<>> /\ ~pass' /\ up'
  BY DEF PassEnds, SchedulerInv, PassInv
<1>2. Entries' = Entries /\ Entries = ToSet(remaining)
  BY <1>1, EmptyList DEF Entries
<1>3. file' \in {file, remaining} /\ blind' \in BOOLEAN /\ lost' = lost /\ overwritten \subseteq overwritten'
  BY SaveFrame DEF PassEnds, KeepFile, disk, SchedulerInv, SchedulerTypes
<1>4. SchedulerTypes'
  BY <1>1, <1>3, EmptyList DEF PassEnds, SchedulerInv, SchedulerTypes, history
<1>5. PassInv' /\ DistinctInv'
  BY <1>1, <1>3, EmptyList DEF SchedulerInv, PassInv, DistinctInv
<1>6. UNCHANGED <<first, fires, done, fails, cancelled, crashes>>
  BY DEF PassEnds, history
<1>7. KnownInv'
  BY <1>2, <1>3, <1>6 DEF SchedulerInv, KnownInv, Known
<1>8. \A e : (Listed(e)' <=> Listed(e)) /\ (Listed(e) <=> e \in Ids(remaining))
  BY <1>2 DEF Listed, Ids
<1>9. KeptInv'
  <2> SUFFICES ASSUME NEW e \in DOMAIN first \ cancelled, e \notin lost \cup overwritten', ~Spent(e)
               PROVE  Kept(e)'
    BY <1>3, <1>6 DEF KeptInv, Spent
  <2>1. Kept(e)
    BY <1>3 DEF SchedulerInv, KeptInv
  <2>2. CASE Save(remaining)
    <3>1. e \in Ids(remaining) \/ (blind /\ InFile(e))
      BY <1>1, <1>8, <2>1 DEF Kept
    <3>2. \/ e \in Ids(remaining) /\ (InFile(e)' \/ e \in unsaved')
          \/ blind' /\ InFile(e)'
      BY <2>2, <3>1, SaveKeeps DEF SchedulerInv, SchedulerTypes
    <3> QED
      BY <1>1, <1>8, <3>2 DEF Kept
  <2>3. CASE KeepFile
    BY <1>1, <1>8, <2>1, <2>3 DEF KeepFile, disk, Kept, InFile
  <2> QED
    BY <2>2, <2>3 DEF PassEnds
<1>10. FiredOncePerRun'
  BY <1>6, <1>8 DEF SchedulerInv, FiredOncePerRun
<1> QED
  BY <1>4, <1>5, <1>7, <1>9, <1>10 DEF SchedulerInv

\* A crash loses the list, and the next server takes it from the file.
LEMMA CrashKeeps == SchedulerInv /\ Crash => SchedulerInv'
<1> SUFFICES ASSUME SchedulerInv, Crash PROVE SchedulerInv'
  OBVIOUS
<1>1. /\ up /\ up' = FALSE /\ pass' = FALSE /\ events' = <<>> /\ todo' = <<>> /\ remaining' = <<>> /\ crashes' = crashes + 1
      /\ lost' = lost \cup unsaved /\ blind' = FALSE /\ UNCHANGED <<start, fired, now, history, file, overwritten>>
  BY DEF Crash
<1>2. Entries' = {}
  BY <1>1, EmptyList DEF Entries
<1>3. SchedulerTypes'
  <2>1. events' \in Seq(Entry) /\ file' \in Seq(Entry) /\ todo' \in Seq(Entry) /\ remaining' \in Seq(Entry)
    BY <1>1, EmptyList DEF SchedulerInv, SchedulerTypes
  <2>2. up' \in BOOLEAN /\ pass' \in BOOLEAN /\ fired' \in BOOLEAN /\ blind' \in BOOLEAN
    BY <1>1 DEF SchedulerInv, SchedulerTypes
  <2>3. crashes' \in Nat /\ UNCHANGED <<start, now, first, fires, fails>>
    BY <1>1 DEF SchedulerInv, SchedulerTypes, history
  <2> QED
    BY <2>1, <2>2, <2>3 DEF SchedulerInv, SchedulerTypes
<1>4. PassInv' /\ DistinctInv'
  BY <1>1, EmptyList DEF SchedulerInv, PassInv, DistinctInv
<1>5. KnownInv'
  BY <1>1, <1>2 DEF SchedulerInv, KnownInv, Known, history
<1>6. KeptInv'
  <2> SUFFICES ASSUME NEW e \in DOMAIN first \ cancelled, e \notin lost \cup unsaved \cup overwritten, ~Spent(e)
               PROVE  InFile(e)
    BY <1>1 DEF KeptInv, Kept, InFile, Spent, history
  <2>1. Kept(e)
    BY DEF SchedulerInv, KeptInv
  <2> QED
    BY <2>1 DEF Kept
<1>7. FiredOncePerRun'
  BY <1>1, <1>2 DEF SchedulerInv, FiredOncePerRun, Listed, history
<1> QED
  BY <1>3, <1>4, <1>5, <1>6, <1>7 DEF SchedulerInv

\* A new server reads the file, or goes on without it.
LEMMA LoadKeeps == SchedulerInv /\ (Load \/ LoadFails) => SchedulerInv'
<1> SUFFICES ASSUME SchedulerInv, Load \/ LoadFails PROVE SchedulerInv'
  OBVIOUS
<1>1. /\ ~up /\ up' /\ ~pass /\ todo = <<>> /\ remaining = <<>>
      /\ (events' = file /\ blind' = FALSE) \/ (events' = <<>> /\ blind' = TRUE)
      /\ UNCHANGED <<running, now, first, done, fails, cancelled, crashes, file, unsaved, lost, overwritten>>
      /\ fires' = [e \in Event |-> 0]
  BY DEF Load, LoadFails, Starts, SchedulerInv, PassInv
<1>2. Entries' = ToSet(events')
  BY <1>1, EmptyList DEF Entries, running
<1>3. SchedulerTypes'
  <2>1. fires' \in [Event -> Nat] /\ events' \in Seq(Entry) /\ up' \in BOOLEAN /\ blind' \in BOOLEAN
    BY <1>1, EmptyList DEF Load, LoadFails, Starts, SchedulerInv, SchedulerTypes
  <2> QED
    BY <1>1, <2>1 DEF SchedulerInv, SchedulerTypes, running
<1>4. PassInv' /\ DistinctInv'
  BY <1>1, EmptyList DEF SchedulerInv, PassInv, DistinctInv, running
<1>5. KnownInv'
  <2>1. Entries' \subseteq ToSet(file)
    BY <1>1, <1>2, EmptyList
  <2>2. \A e \in Event \ DOMAIN first : fires'[e] = 0
    BY <1>1
  <2> QED
    BY <1>1, <2>1, <2>2 DEF SchedulerInv, KnownInv, Known
<1>6. KeptInv'
  <2> SUFFICES ASSUME NEW e \in DOMAIN first \ cancelled, e \notin lost \cup overwritten, ~Spent(e)
               PROVE  Kept(e)'
    BY <1>1 DEF KeptInv, Spent
  <2>1. InFile(e)
    BY <1>1 DEF SchedulerInv, KeptInv, Kept
  <2>2. InFile(e)' /\ (Listed(e)' \/ blind')
    BY <1>1, <1>2, <2>1 DEF InFile, Listed
  <2> QED
    BY <1>1, <2>2 DEF Kept
<1>7. FiredOncePerRun'
  BY <1>1 DEF FiredOncePerRun, Event
<1> QED
  BY <1>3, <1>4, <1>5, <1>6, <1>7 DEF SchedulerInv

\* The clock, or nothing at all.
LEMMA ClockKeeps == SchedulerInv /\ (Tick \/ UNCHANGED vars) => SchedulerInv'
<1> SUFFICES ASSUME SchedulerInv, Tick \/ UNCHANGED vars PROVE SchedulerInv'
  OBVIOUS
<1>1. now' \in Nat /\ UNCHANGED <<events, up, disk, running, history, crashes>>
  BY DEF Tick, KeepFile, vars, SchedulerInv, SchedulerTypes
<1>2. SchedulerTypes' /\ PassInv' /\ DistinctInv'
  BY <1>1 DEF SchedulerInv, SchedulerTypes, PassInv, DistinctInv, running, history, disk
<1>3. KnownInv'
  BY <1>1 DEF SchedulerInv, KnownInv, Known, Entries, running, history, disk
<1>4. KeptInv' /\ FiredOncePerRun'
  <2>1. UNCHANGED <<up, blind, unsaved, lost, overwritten, history>> /\ \A e : (Listed(e)' <=> Listed(e)) /\ (InFile(e)' <=> InFile(e))
    BY <1>1 DEF running, disk, Listed, InFile, Entries
  <2> QED
    BY <2>1, WhereItWas
<1> QED
  BY <1>2, <1>3, <1>4 DEF SchedulerInv

\* One step for each operation, and the clock and the crash.
LEMMA SchedulerInvStep == SchedulerInv /\ [Next]_vars => SchedulerInv'
<1> SUFFICES ASSUME SchedulerInv, [Next]_vars PROVE SchedulerInv'
  OBVIOUS
<1>1. ASSUME NEW e \in Event, NEW t \in 0 .. MaxTime, CreateEvent(e, t) PROVE SchedulerInv'
  <2>1. t \in Nat
    BY SchedulerAssumption
  <2> QED
    BY <1>1, <2>1, CreateKeeps
<1>2. ASSUME NEW e \in Event, CancelEvent(e) PROVE SchedulerInv'
  BY <1>2, CancelKeeps
<1> QED
  BY <1>1, <1>2, PassStartsKeeps, NotDueKeeps, FiresKeeps, FiringFailsKeeps, PassEndsKeeps, CrashKeeps, LoadKeeps, ClockKeeps
  DEF Next

\* The inductive invariant holds in every reachable state.
LEMMA SchedulerInvHolds == Spec => []SchedulerInv
  BY SchedulerInvInit, SchedulerInvStep, PTL DEF Spec

\* An event is on the list or in the file until it is fired, dropped or cancelled, whenever the server crashes and whatever
\* load and save do, unless a crash takes what could not be saved or a file that could not be read is written over.
THEOREM ScheduledEventsAreKept == Spec => []NoneVanishes
<1>1. SchedulerInv => NoneVanishes
  BY DEF SchedulerInv, KeptInv, Kept, Spent, NoneVanishes
<1> QED
  BY <1>1, SchedulerInvHolds, PTL

\* A server fires a one-shot event at most once, and does not keep it.
THEOREM OneShotsFireOnce == Spec => []FiredOncePerRun
<1>1. SchedulerInv => FiredOncePerRun
  BY DEF SchedulerInv
<1> QED
  BY <1>1, SchedulerInvHolds, PTL

\* Late passes, failures and crashes do not move a recurring event off the grid of its first trigger time.
THEOREM RecurringEventsKeepTheirGrid == Spec => []OnTheGrid
<1>1. SchedulerInv => OnTheGrid
  BY DEF SchedulerInv, KnownInv, Known, OnTheGrid
<1> QED
  BY <1>1, SchedulerInvHolds, PTL
=============================================================================

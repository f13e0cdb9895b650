-------------------------------- MODULE Tui --------------------------------
(***************************************************************************)
(* The dashboard (tui/app.rs, tui/ui.rs, tui/pty.rs): its main loop, the   *)
(* inbox of issues that wait for the operator, the interactive session in  *)
(* a pseudo-terminal, and the reviews it posts to GitHub.                  *)
(*                                                                         *)
(* The loop draws a frame, in which the mouse's clicks take effect, opens  *)
(* the session and posts the review that were asked for, and then waits    *)
(* for input: it takes all that is there, key by key, or, if none comes in *)
(* time, ticks: reads the snapshots and the session's output.  A thread    *)
(* reads the pseudo-terminal meanwhile.  The Monitoring tab only displays; *)
(* it is here as the tab in which the inbox's keys mean nothing.           *)
(*                                                                         *)
(* interactive_session_active and pty_session are set and cleared by the   *)
(* same statements and are one variable here.  Text is a sequence of       *)
(* characters, each reduced to its width in bytes.                         *)
(***************************************************************************)
EXTENDS Startup, SequencesExt

CONSTANTS
  Request,    \* issues of any repository with a snapshot on this host
  Number,     \* their issue numbers
  Decision,   \* approve, reject
  None,
  Width,      \* widths of characters in bytes
  CapBytes, KeepBytes, \* 64 KB and 32 KB in the code
  MaxUnread   \* bound of the model: characters the thread holds

\* Clicks, by the widget they hit.
TabClicked(t) == <<"tab", t>>
RowClicked(i) == <<"row", i>>
ReviewClicked(d) == <<"review", d>>
RefreshClicked == <<"refresh">>
OpenClicked == <<"open">>

ASSUME TuiAssumption ==
  /\ Number \in [Request -> Nat]
  /\ None \notin Request \cup Nat \cup {ReviewClicked(d) : d \in Decision}
  /\ Width \subseteq Nat \ {0} /\ 1 \in Width
  /\ CapBytes \in Nat /\ KeepBytes \in 0 .. CapBytes
  /\ MaxUnread \in Nat

VARIABLES
  phase,     \* where the main loop is
  tab,       \* active_tab
  shown,     \* issue_requests
  sel,       \* selected_issue_index, from 0
  session,   \* the issue number of the open session, or None
  opening,   \* pending_interactive_issue
  review,    \* pending_issue_review
  quit,      \* should_quit
  click,     \* the widget clicked and not handled by a frame yet
  unread, exited, \* the session's thread: its buffer and its flag
  out,       \* pty_output
  \* history
  screen,    \* the inbox as it was last drawn
  followed   \* nothing has taken the selection off the session's issue

loop == <<phase, quit>>
inbox == <<tab, shown, sel>>
pty == <<session, unread, exited, out>>
pending == <<opening, review>>
seen == <<screen, followed>>
tuiVars == <<startup, loop, inbox, pty, pending, click, seen>>

Message == <<1>>  \* a line of the program's own, in ASCII

TuiInit ==
  /\ StartupInit
  /\ phase = "startup"
  /\ tab = "issues" /\ shown = << >> /\ sel = 0
  /\ session = None /\ unread = << >> /\ exited = FALSE /\ out = << >>
  /\ opening = None /\ review = None
  /\ quit = FALSE /\ click = None
  /\ screen = << >> /\ followed = TRUE

\* cmd_tui: the checks, then the dashboard, which begins with a tick.  It does
\* not look at what the checks have done, so the model forgets it here.
StartupStep == phase = "startup" /\ StartupNext /\ UNCHANGED <<loop, inbox, pty, pending, click, seen>>

Run ==
  /\ phase = "startup" /\ step = "done"
  /\ phase' = "read"
  /\ step' = "done" /\ latest' = NoVersion /\ installed' = Running
  /\ starred' = TRUE /\ consent' = {}
  /\ UNCHANGED <<quit, inbox, pty, pending, click, seen>>

------------------------------------------------------------------------------
(* The inbox *)

SelectedIn(list) == IF sel < Len(list) THEN list[sel + 1] ELSE None
Selected == SelectedIn(shown)
NumberOf(r) == IF r = None THEN None ELSE Number[r]
Numbers(list) == {Number[list[i]] : i \in DOMAIN list}

\* build_issue_requests: the issues that wait, by number; those of several
\* repositories come in one list, equal numbers in any order.
InboxLists ==
  {list \in UNION {SetToSeqs(waiting) : waiting \in {w \in SUBSET Request : IsFiniteSet(w)}} :
     \A i, j \in DOMAIN list : i < j => Number[list[i]] <= Number[list[j]]}

\* find_issue_index(..).unwrap_or_default()
IndexOf(list, n) ==
  LET at == {i \in DOMAIN list : Number[list[i]] = n}
  IN  IF at = {} THEN 0 ELSE (CHOOSE i \in at : \A j \in at : i <= j) - 1

\* refresh_runtime_views_from_disk: the snapshots are what other programs have
\* made of them; if they cannot be listed the views stay.
RefreshViews ==
  \/ \E list \in InboxLists :
        /\ shown' = list
        /\ sel' = IndexOf(list, NumberOf(Selected))
        /\ followed' = (session = None \/ (followed /\ session \in Numbers(list)))
  \/ UNCHANGED <<shown, sel, followed>>

------------------------------------------------------------------------------
(* The session's text *)

Bytes(text) == FoldLeft(LAMBDA n, w : n + w, 0, text)

\* String::drain(..drain_to) of what exceeds the cap.  It panics where drain_to
\* is inside a character.
Overlong(text) == Bytes(text) > CapBytes
Cuts(text) == {i \in 0 .. Len(text) : Bytes(SubSeq(text, i + 1, Len(text))) = KeepBytes}
Panics(text) == Overlong(text) /\ Cuts(text) = {}
Capped(text) ==
  IF Overlong(text)
    THEN SubSeq(text, (CHOOSE i \in Cuts(text) : TRUE) + 1, Len(text))
    ELSE text

Close ==
  /\ session' = None
  /\ unread' = << >> /\ exited' = FALSE
  /\ followed' = TRUE

\* The reader thread: output of the child, and its end.
ChildWrites ==
  /\ session # None /\ ~exited /\ Len(unread) < MaxUnread
  /\ \E w \in Width : unread' = Append(unread, w)
  /\ UNCHANGED <<startup, loop, inbox, session, exited, out, pending, click, seen>>

ChildExits ==
  /\ session # None /\ ~exited
  /\ exited' = TRUE
  /\ UNCHANGED <<startup, loop, inbox, session, unread, out, pending, click, seen>>

------------------------------------------------------------------------------
(* A tick, by timeout or by the Refresh button *)

\* The views, then read_output.
TickReads ==
  /\ phase = "read"
  /\ RefreshViews
  /\ IF session # None
       THEN /\ unread' = << >>
            /\ IF Panics(out \o unread)
                 THEN out' = out \o unread /\ phase' = "panicked"
                 ELSE out' = Capped(out \o unread) /\ phase' = "exit"
       ELSE UNCHANGED <<unread, out>> /\ phase' = "exit"
  /\ UNCHANGED <<startup, quit, tab, session, exited, pending, click, screen>>

\* Mutation of AfterTick: the loop goes on with the input, without a frame.
AfterTickNoFrame == IF click = RefreshClicked THEN "body" ELSE "poll"

AfterTick == IF click = RefreshClicked THEN "body" ELSE "header"

\* Mutation of TickChecksExit: the end is looked for when nothing was read.
TickChecksExitIfSilent ==
  /\ phase = "exit"
  /\ phase' = AfterTick
  /\ click' = None
  /\ IF session # None /\ exited /\ out = << >>
       THEN Close /\ review' = None
       ELSE UNCHANGED <<session, unread, exited, followed, review>>
  /\ UNCHANGED <<startup, quit, inbox, out, opening, screen>>

\* has_exited: a session whose child is gone is closed, its review dropped.
TickChecksExit ==
  /\ phase = "exit"
  /\ phase' = AfterTick
  /\ click' = None
  /\ IF session # None /\ exited
       THEN Close /\ review' = None
       ELSE UNCHANGED <<session, unread, exited, followed, review>>
  /\ UNCHANGED <<startup, quit, inbox, out, opening, screen>>

------------------------------------------------------------------------------
(* A frame: a click takes effect where its widget is drawn *)

\* render_header: the tabs, and Refresh, which ticks before the rest is drawn.
RenderHeader ==
  /\ phase = "header"
  /\ tab' = IF click \in {TabClicked("issues"), TabClicked("monitoring")} THEN click[2] ELSE tab
  /\ phase' = IF click = RefreshClicked THEN "read" ELSE "body"
  /\ UNCHANGED <<startup, quit, shown, sel, pty, pending, click, seen>>

\* What a review records of its decision, the last three for the properties: the
\* request drawn as selected, the session, and whether it was still its issue.
ReviewOf(d) ==
  [number |-> Number[Selected], decision |-> d,
   seen |-> SelectedIn(screen), session |-> session, followed |-> followed]

\* render_issue_row, and the buttons of render_issue_request.
ClickRow(i) ==
  /\ sel' = i - 1
  /\ followed' = (session = None \/ (followed /\ Number[shown[i]] = session))
  /\ UNCHANGED pending

ClickOpen ==
  /\ opening' = IF session = None THEN Number[Selected] ELSE opening
  /\ UNCHANGED <<sel, review, followed>>

ClickReview(d) ==
  /\ review' = ReviewOf(d)
  /\ UNCHANGED <<sel, opening, followed>>

\* render_dashboard's content, in which a click may hit nothing, then the loop's
\* test of should_quit.
RenderBody ==
  /\ phase = "body"
  /\ \/ \E i \in DOMAIN shown : tab = "issues" /\ click = RowClicked(i) /\ ClickRow(i)
     \/ tab = "issues" /\ click = OpenClicked /\ Selected # None /\ ClickOpen
     \/ \E d \in Decision :
           tab = "issues" /\ click = ReviewClicked(d) /\ Selected # None /\ ClickReview(d)
     \/ /\ tab = "issues" /\ Selected # None => click \notin {OpenClicked} \cup {ReviewClicked(d) : d \in Decision}
        /\ tab = "issues" => click \notin {RowClicked(i) : i \in DOMAIN shown}
        /\ UNCHANGED <<sel, pending, followed>>
  /\ screen' = shown
  /\ click' = None
  /\ phase' = IF quit THEN "stopped" ELSE "open"
  /\ UNCHANGED <<startup, quit, tab, shown, pty>>

------------------------------------------------------------------------------
(* What was asked for *)

\* start_interactive_session_for_issue; a launcher that fails closes what there is.
OpenSession ==
  /\ phase = "open"
  /\ phase' = "review"
  /\ opening' = None
  /\ \/ opening = None /\ UNCHANGED <<pty, followed>>
     \/ /\ opening # None
        /\ session' = opening
        /\ unread' = << >> /\ exited' = FALSE /\ out' = << >>
        /\ followed' = (NumberOf(Selected) = opening)
     \/ opening # None /\ Close /\ out' = Message
  /\ UNCHANGED <<startup, quit, inbox, review, click, screen>>

\* apply_issue_review: a review that gh accepts closes the session.  A failure adds
\* a line to the text; the model adds no more once it exceeds the cap.
ApplyReview ==
  /\ phase = "review"
  /\ phase' = "poll"
  /\ review' = None
  /\ \/ review = None /\ UNCHANGED <<pty, followed>>
     \/ review # None /\ Close /\ out' = << >>
     \/ /\ review # None
        /\ out' = IF Overlong(out) THEN out ELSE out \o Message
        /\ UNCHANGED <<session, unread, exited, followed>>
  /\ UNCHANGED <<startup, quit, inbox, opening, click, screen>>

------------------------------------------------------------------------------
(* Input: handle_terminal_event for all that is there, or a tick *)

Input == phase \in {"poll", "batch"} /\ phase' = "batch" /\ UNCHANGED <<startup, screen>>

\* q and Ctrl-C
KeyQuit ==
  /\ Input
  /\ session = None
  /\ quit' = TRUE
  /\ UNCHANGED <<inbox, pty, pending, click, followed>>

\* Tab and Shift-Tab: there are two tabs.
KeyTab ==
  /\ Input
  /\ session = None
  /\ tab' = IF tab = "issues" THEN "monitoring" ELSE "issues"
  /\ UNCHANGED <<quit, shown, sel, pty, pending, click, followed>>

KeyEsc ==
  /\ Input
  /\ tab = "issues" /\ session # None
  /\ Close
  /\ out' = << >>
  /\ UNCHANGED <<quit, inbox, pending, click>>

\* queue_selected_issue_review, by Ctrl-A and Ctrl-R, with or without a session.
KeyReview(d) ==
  /\ Input
  /\ tab = "issues" /\ Selected # None
  /\ review' = ReviewOf(d)
  /\ UNCHANGED <<quit, inbox, pty, opening, click, followed>>

\* j and k
KeyMove ==
  /\ Input
  /\ tab = "issues" /\ session = None /\ shown # << >>
  /\ sel' \in {(sel + 1) % Len(shown), (sel + Len(shown) - 1) % Len(shown)}
  /\ UNCHANGED <<quit, tab, shown, pty, pending, click, followed>>

\* Mutation of KeyEnter: in a session, too.
KeyEnterAlways ==
  /\ Input
  /\ tab = "issues" /\ Selected # None
  /\ opening' = Number[Selected]
  /\ UNCHANGED <<quit, inbox, pty, review, click, followed>>

KeyEnter ==
  /\ Input
  /\ tab = "issues" /\ session = None /\ Selected # None
  /\ opening' = Number[Selected]
  /\ UNCHANGED <<quit, inbox, pty, review, click, followed>>

\* Any other key: the session's child gets it, or nobody.
KeyForwarded == Input /\ UNCHANGED <<quit, inbox, pty, pending, click, followed>>

\* A click on a widget of the last frame; the next one handles it.
Widget ==
  {TabClicked("issues"), TabClicked("monitoring"), RefreshClicked, OpenClicked}
    \cup {ReviewClicked(d) : d \in Decision} \cup {RowClicked(i) : i \in DOMAIN screen}

MouseClick ==
  /\ Input
  /\ click = None
  /\ click' \in Widget
  /\ UNCHANGED <<quit, inbox, pty, pending, followed>>

EndOfInput ==
  /\ phase = "batch"
  /\ phase' = "header"
  /\ UNCHANGED <<startup, quit, inbox, pty, pending, click, seen>>

TimeOut ==
  /\ phase = "poll"
  /\ phase' = "read"
  /\ UNCHANGED <<startup, quit, inbox, pty, pending, click, seen>>

\* Drawing, polling or reading the terminal fails: run returns the error.
TerminalFails ==
  /\ phase \in {"body", "poll", "batch"}
  /\ phase' = "stopped"
  /\ UNCHANGED <<startup, quit, inbox, pty, pending, click, seen>>

Tick == TickReads \/ TickChecksExit
Frame == RenderHeader \/ RenderBody \/ OpenSession \/ ApplyReview
Operator ==
  \/ KeyQuit \/ KeyTab \/ KeyEsc \/ KeyMove \/ KeyEnter \/ KeyForwarded \/ MouseClick
  \/ \E d \in Decision : KeyReview(d)

TuiNext ==
  \/ StartupStep \/ Run
  \/ Tick \/ Frame \/ Operator \/ EndOfInput \/ TimeOut \/ TerminalFails
  \/ ChildWrites \/ ChildExits

\* The loop goes on, the user answers the prompts, and the operator pauses now
\* and then for longer than the loop waits.
Fairness ==
  /\ WF_tuiVars(StartupStep) /\ WF_tuiVars(Run)
  /\ WF_tuiVars(Tick) /\ WF_tuiVars(Frame) /\ WF_tuiVars(EndOfInput)
  /\ SF_tuiVars(TimeOut)

TuiSpec == TuiInit /\ [][TuiNext]_tuiVars /\ Fairness

------------------------------------------------------------------------------
(* Properties *)

\* A review is about the issue the operator saw selected: between the frame that
\* was drawn and the keys and clicks that follow it nothing reads the snapshots
\* again, though the list may change at every tick.  One decided in a session is
\* about the session's issue, unless that has left the inbox or another row was
\* clicked.  (GitHub gets the number only, for the repository the TUI is in.)
ReviewIsOfSeen ==
  review # None =>
    /\ review.seen # None /\ review.number = Number[review.seen]
    /\ review.session # None /\ review.followed => review.number = review.session

\* A session is never replaced by another one: when the loop opens the session
\* that was asked for, none is open, whatever keys and clicks came before.
NoSessionReplaced == phase = "open" /\ opening # None => session = None

\* A session whose child has ended is closed (or the program ends).
EndedSessionCloses ==
  (session # None /\ exited) ~> (session = None \/ phase \in {"stopped", "panicked"})
=============================================================================

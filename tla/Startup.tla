------------------------------ MODULE Startup ------------------------------
(***************************************************************************)
(* What `githubclaw tui` does before it opens the screen (tui/startup.rs): *)
(* it looks for a newer release and offers to install it, then looks       *)
(* whether the user has starred the project and offers to star it.  A      *)
(* check or an action that fails is reported and skipped; an input that    *)
(* cannot be read ends both.  Commands (cargo, gh) answer as they like.    *)
(***************************************************************************)
EXTENDS Naturals, Sequences

CONSTANTS
  Running,   \* the version of this program
  Published, \* the versions the registry may name
  NoVersion  \* the registry names none, or its text cannot be parsed

Parsed == Nat \X Nat \X Nat

ASSUME StartupAssumption ==
  /\ Running \in Parsed
  /\ Published \subseteq Parsed
  /\ NoVersion \notin Parsed

VARIABLES
  step,      \* what the startup does next
  latest,    \* the version found
  installed, \* the version on the host
  starred,
  consent    \* history: the prompts answered with yes

startup == <<step, latest, installed, starred, consent>>

StartupInit ==
  /\ step = "fetch"
  /\ latest = NoVersion
  /\ installed = Running
  /\ starred \in BOOLEAN
  /\ consent = {}

\* is_newer_version: by major, minor and patch number; what cannot be parsed
\* is not newer.
IsNewer(current, other) ==
  /\ other # NoVersion
  /\ \E i \in 1 .. 3 :
        /\ other[i] > current[i]
        /\ \A j \in 1 .. i - 1 : other[j] = current[j]

\* The update check: an error, no version or an old one ends it.
FetchLatestVersion ==
  /\ step = "fetch"
  /\ \E v \in Published \cup {NoVersion} :
        /\ latest' = v
        /\ step' = IF IsNewer(Running, v) THEN "askUpdate" ELSE "view"
  /\ UNCHANGED <<installed, starred, consent>>

\* prompt_yes_no: an empty line is a yes, the end of the input a no; an
\* error of the input ends both checks.  Other answers are asked again.
PromptYesNo(here, action, otherwise) ==
  /\ step = here
  /\ \/ step' = action /\ consent' = consent \cup {here}
     \/ step' = otherwise /\ UNCHANGED consent
     \/ step' = "done" /\ UNCHANGED consent
  /\ UNCHANGED <<latest, installed, starred>>

\* cargo install; a failure is reported only.
InstallUpdate ==
  /\ step = "install"
  /\ installed' \in {installed, latest}
  /\ step' = "view"
  /\ UNCHANGED <<latest, starred, consent>>

\* The star check: an error or a starred repository ends it.
HasStarredRepo ==
  /\ step = "view"
  /\ \/ step' = "done"
     \/ ~starred /\ step' = "askStar"
  /\ UNCHANGED <<latest, installed, starred, consent>>

StarRepo ==
  /\ step = "star"
  /\ starred' \in {starred, TRUE}
  /\ step' = "done"
  /\ UNCHANGED <<latest, installed, consent>>

StartupNext ==
  \/ FetchLatestVersion
  \/ PromptYesNo("askUpdate", "install", "view")
  \/ InstallUpdate
  \/ HasStarredRepo
  \/ PromptYesNo("askStar", "star", "done")
  \/ StarRepo
=============================================================================

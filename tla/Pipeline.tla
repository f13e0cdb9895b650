------------------------------ MODULE Pipeline ------------------------------
(***************************************************************************)
(* The pipeline tracker of one root issue (pipeline.rs), with the callers  *)
(* of runtime_state.rs that create it, feed it markers and set its state.  *)
(*                                                                         *)
(* Nothing serialises the callers against the lifecycle: a marker, a       *)
(* summary or a dispatch may come in any state, and each operation is an   *)
(* action enabled wherever the code changes something (elsewhere it does   *)
(* nothing).  set_sub_issues is called after a decomposition.              *)
(***************************************************************************)
EXTENDS Naturals, Sequences

CONSTANTS
  SubIssue,           \* issue numbers
  NoSubIssue,         \* the state names no sub-issue
  MaxInfoRequests,    \* BUG_REPRODUCER_MAX_INFO_REQUESTS
  MaxVerifierLoop,    \* IMPLEMENTER_VERIFIER_MAX_LOOP
  MaxReviewerLoop,    \* IMPLEMENTER_REVIEWER_MAX_LOOP
  MaxSubIssues        \* bound of the model: sub-issues of a decomposition

ASSUME PipelineAssumption ==
  /\ NoSubIssue \notin SubIssue
  /\ MaxInfoRequests \in Nat \ {0}
  /\ MaxVerifierLoop \in Nat \ {0}
  /\ MaxReviewerLoop \in Nat \ {0}
  /\ MaxSubIssues \in Nat

VARIABLES
  type,      \* issue_type, or "none"
  state,     \* the PipelineState
  sub,       \* its sub_issue
  attempt,   \* its attempt or attempts
  subs,      \* sub_issues
  index,     \* current_sub_issue_index
  \* history
  approved,      \* an approved marker started the implementation
  reviewed,      \* the positions in subs whose review passed
  failedTests    \* failing test runs in a row on the current sub-issue

tracker == <<type, state, sub, attempt, subs, index>>
history == <<approved, reviewed, failedTests>>
vars == <<tracker, history>>

Types == {"bug", "feature", "refactoring"}
OnSubIssue == {"writing_tests", "implementing", "reviewing"}
States == {"classifying", "reproducing", "awaiting_info", "analyzing_vision",
           "awaiting_interactive_session", "approved", "decomposing", "verifying_e2e",
           "stuck", "merged", "rejected"} \cup OnSubIssue

\* A new value of `state`: a plain one, or one with its fields.
At(s, i, n) == state' = s /\ sub' = i /\ attempt' = n
Enter(s) == At(s, NoSubIssue, 0)

\* Calls that concern no sub-issue.
OtherWork == UNCHANGED <<subs, index, approved, reviewed, failedTests>>

Init ==
  /\ type = "none" /\ state = "classifying" /\ sub = NoSubIssue /\ attempt = 0
  /\ subs = <<>> /\ index = 0
  /\ approved = FALSE /\ reviewed = {}
  /\ failedTests = 0

\* Mutation of AdvanceToNextSubIssue: the last sub-issue is skipped.
AdvanceSkipsLast(i) ==
  /\ index' = i
  /\ \/ i + 1 >= Len(subs) /\ Enter("verifying_e2e")
     \/ i + 1 < Len(subs) /\ At("writing_tests", subs[i + 1], 0)
  /\ failedTests' = 0

\* Mutation of AdvanceToNextSubIssue: sub_issues is indexed from one.
AdvanceFromOne(i) ==
  /\ index' = i
  /\ \/ i + 1 >= Len(subs) /\ Enter("verifying_e2e")
     \/ i + 1 < Len(subs) /\ At("writing_tests", subs[i + 2], 0)
  /\ failedTests' = 0

\* advance_to_next_sub_issue, with i as the current index.
AdvanceToNextSubIssue(i) ==
  /\ index' = i
  /\ \/ i >= Len(subs) /\ Enter("verifying_e2e")
     \/ i < Len(subs) /\ At("writing_tests", subs[i + 1], 0)
  /\ failedTests' = 0

-----------------------------------------------------------------------------
\* The issue is classified, unless it was (apply_marker, ensure_pipeline...).
ClassifyAs(t) == type' = IF type = "none" THEN t ELSE type

\* Mutation of Reproduced: a reproduced bug goes straight to decomposition.
ReproducedSkipsApproval(yes) ==
  /\ state = "reproducing" \/ type = "none"
  /\ ClassifyAs("bug")
  /\ yes /\ Enter("decomposing")
  /\ OtherWork

(***************************************************************************)
(* A reproduced marker.  An unclassified issue becomes a bug being         *)
(* reproduced first.  The number of requests so far is kept in the state   *)
(* awaiting_info, which is not the state this arm is for.                  *)
(***************************************************************************)
Reproduced(yes) ==
  LET requests == IF state = "awaiting_info" THEN attempt + 1 ELSE 1
  IN  /\ state = "reproducing" \/ type = "none"
      /\ ClassifyAs("bug")
      /\ \/ yes /\ Enter("approved")
         \/ /\ ~yes
            /\ \/ requests >= MaxInfoRequests /\ Enter("rejected")
               \/ requests < MaxInfoRequests /\ At("awaiting_info", NoSubIssue, requests)
      /\ OtherWork

Approved ==
  /\ state \in {"approved", "awaiting_interactive_session"}
  /\ Enter("decomposing")
  /\ approved' = TRUE
  /\ UNCHANGED <<type, subs, index, reviewed, failedTests>>

\* The arm of decomposing takes every marker, stuck ones too.
Decomposed ==
  /\ state = "decomposing"
  /\ AdvanceToNextSubIssue(index)
  /\ UNCHANGED <<type, subs, approved, reviewed>>

ReviewPasses ==
  /\ state = "reviewing"
  /\ AdvanceToNextSubIssue(index + 1)
  /\ reviewed' = reviewed \cup {index + 1}
  /\ UNCHANGED <<type, subs, approved>>

Verified ==
  /\ state = "verifying_e2e"
  /\ Enter("merged")
  /\ UNCHANGED type /\ OtherWork

Stuck ==
  /\ state # "decomposing"
  /\ Enter("stuck")
  /\ UNCHANGED type /\ OtherWork

OnMarker ==
  \/ \E yes \in BOOLEAN : Reproduced(yes)
  \/ Approved
  \/ Decomposed
  \/ ReviewPasses
  \/ Verified
  \/ Stuck

-----------------------------------------------------------------------------

\* on_implementer_done
TestsFail ==
  /\ state = "implementing"
  /\ failedTests' = failedTests + 1
  /\ \/ attempt >= MaxVerifierLoop /\ Enter("stuck")
     \/ attempt < MaxVerifierLoop /\ At("implementing", sub, attempt + 1)
  /\ UNCHANGED <<type, subs, index, approved, reviewed>>

TestsPass ==
  /\ state = "implementing"
  /\ At("reviewing", sub, 1)
  /\ failedTests' = 0
  /\ UNCHANGED <<type, subs, index, approved, reviewed>>

\* on_review_done; a passed review is ReviewPasses.
ReviewFails ==
  /\ state = "reviewing"
  /\ \/ attempt >= MaxReviewerLoop /\ Enter("stuck")
     \/ attempt < MaxReviewerLoop /\ At("implementing", sub, attempt + 1)
  /\ UNCHANGED <<type, subs, index, approved, reviewed, failedTests>>

\* set_sub_issues
SetSubIssues(s) ==
  /\ state = "decomposing"
  /\ subs' = s /\ index' = 0
  /\ reviewed' = {}
  /\ UNCHANGED <<type, state, sub, attempt, approved, failedTests>>

\* on_human_direction
HumanDirection ==
  /\ index < Len(subs)
  /\ At("implementing", subs[index + 1], 1)
  /\ failedTests' = 0
  /\ UNCHANGED <<type, subs, index, approved, reviewed>>

-----------------------------------------------------------------------------
\* ensure_pipeline_for_agent: a dispatch of the bug reproducer.
ReproducerStarts ==
  /\ ClassifyAs("bug")
  /\ Enter("reproducing")
  /\ OtherWork

\* ensure_pipeline_for_agent: a dispatch of the vision-gap analyst.
AnalystStarts ==
  /\ Enter("analyzing_vision")
  /\ UNCHANGED type /\ OtherWork

\* apply_summary: a comment with the classification of the issue.
Summary(t) ==
  /\ ClassifyAs(t)
  /\ Enter("awaiting_interactive_session")
  /\ OtherWork

Decompositions == UNION {[1 .. n -> SubIssue] : n \in 0 .. MaxSubIssues}

Next ==
  \/ OnMarker
  \/ TestsFail \/ TestsPass \/ ReviewFails
  \/ \E s \in Decompositions : SetSubIssues(s)
  \/ HumanDirection \/ ReproducerStarts \/ AnalystStarts
  \/ \E t \in Types : Summary(t)

Spec == Init /\ [][Next]_vars

-----------------------------------------------------------------------------
(***************************************************************************)
(* Properties.                                                             *)
(***************************************************************************)

\* Type invariant.
TypeOK ==
  /\ type \in Types \cup {"none"}
  /\ state \in States
  /\ sub \in SubIssue \cup {NoSubIssue}
  /\ attempt \in Nat
  /\ subs \in Seq(SubIssue)
  /\ index \in 0 .. Len(subs)
  /\ approved \in BOOLEAN
  /\ reviewed \in SUBSET Nat
  /\ failedTests \in Nat

\* The sub-issue the state names is the current one of sub_issues, whatever was
\* interrupted, decomposed again or resumed by a human in between.
WorksOnCurrent ==
  state \in OnSubIssue => index < Len(subs) /\ sub = subs[index + 1]

\* The end-to-end verification, and the merge after it, wait for a passed review
\* of every sub-issue.
E2eAfterReviews ==
  state \in {"verifying_e2e", "merged"} => reviewed = 1 .. Len(subs)

\* Nothing is implemented, verified or merged before an approved marker.
NoWorkBeforeApproval ==
  state \in OnSubIssue \cup {"decomposing", "verifying_e2e", "merged"} => approved

\* Between two passing test runs the implementer fails at most as often as the
\* loop limit says, wherever it was sent from.
TestLoopIsBounded == failedTests <= MaxVerifierLoop
=============================================================================

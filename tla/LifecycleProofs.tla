--------------------------- MODULE LifecycleProofs ---------------------------
(***************************************************************************)
(* Proofs about the tracker and its use.  First the safety properties of   *)
(* Pipeline, for any loop limits, any issue numbers and decompositions of  *)
(* any length; then Lifecycle: events are routed to the root issue they    *)
(* were written for, and the tracker of an issue moves on nothing else.    *)
(***************************************************************************)
EXTENDS Lifecycle, SequenceTheorems, TLAPS

\* The history of reviews is the index, and nothing is decomposed unapproved.
HistoryAgrees ==
  /\ reviewed = 1 .. index
  /\ state \in {"verifying_e2e", "merged"} => index = Len(subs)
  /\ subs # <<>> => approved

\* The attempt counts the failing runs, and there is room for one more.
AttemptsAgree ==
  /\ state = "implementing" => failedTests < attempt /\ failedTests < MaxVerifierLoop
  /\ state = "reviewing" => failedTests = 0 /\ attempt = 1

\* The inductive invariant.
PipelineInv ==
  /\ TypeOK
  /\ WorksOnCurrent
  /\ NoWorkBeforeApproval
  /\ TestLoopIsBounded
  /\ HistoryAgrees
  /\ AttemptsAgree

\* A decomposition is a sequence of issue numbers.
LEMMA DecompositionIsSeq ==
  ASSUME NEW s \in Decompositions
  PROVE  s \in Seq(SubIssue)
<1>1. PICK n \in 0 .. MaxSubIssues : s \in [1 .. n -> SubIssue]
  BY DEF Decompositions
<1>2. n \in Nat
  BY PipelineAssumption
<1> QED
  BY <1>1, <1>2

\* The initial state satisfies the invariant.
LEMMA PipelineInvInit == Init => PipelineInv
<1> SUFFICES ASSUME Init PROVE PipelineInv
  OBVIOUS
<1>1. TypeOK
  <2>1. subs \in Seq(SubIssue) /\ index \in 0 .. Len(subs)
    BY DEF Init
  <2>2. reviewed \in SUBSET Nat
    BY DEF Init
  <2> QED
    BY <2>1, <2>2 DEF Init, TypeOK, Types, States
<1>2. HistoryAgrees
  <2>1. reviewed = 1 .. index
    BY DEF Init
  <2> QED
    BY <2>1 DEF Init, HistoryAgrees
<1>3. WorksOnCurrent /\ NoWorkBeforeApproval /\ TestLoopIsBounded /\ AttemptsAgree
  BY PipelineAssumption
  DEF Init, WorksOnCurrent, NoWorkBeforeApproval, TestLoopIsBounded, AttemptsAgree,
      OnSubIssue
<1> QED
  BY <1>1, <1>2, <1>3 DEF PipelineInv

\* What every action keeps of the invariant.
LEMMA PipelineInvStep == PipelineInv /\ [Next]_vars => PipelineInv'
<1> SUFFICES ASSUME PipelineInv, [Next]_vars
             PROVE  PipelineInv'
  OBVIOUS
<1> USE PipelineAssumption
    DEF PipelineInv, TypeOK, WorksOnCurrent, NoWorkBeforeApproval, TestLoopIsBounded,
        HistoryAgrees, AttemptsAgree, Types, States, OnSubIssue, At, Enter, ClassifyAs,
        OtherWork
<1>1. CASE \E yes \in BOOLEAN : Reproduced(yes)
  BY <1>1 DEF Reproduced
<1>2. CASE Approved
  BY <1>2 DEF Approved
<1>3. CASE Decomposed
  BY <1>3 DEF Decomposed, AdvanceToNextSubIssue
<1>4. CASE ReviewPasses
  BY <1>4 DEF ReviewPasses, AdvanceToNextSubIssue
<1>5. CASE Verified
  BY <1>5 DEF Verified
<1>6. CASE Stuck
  BY <1>6 DEF Stuck
<1>7. CASE TestsFail
  BY <1>7 DEF TestsFail
<1>8. CASE TestsPass
  BY <1>8 DEF TestsPass
<1>9. CASE ReviewFails
  BY <1>9 DEF ReviewFails
<1>10. CASE \E s \in Decompositions : SetSubIssues(s)
  BY <1>10, DecompositionIsSeq DEF SetSubIssues
<1>11. CASE HumanDirection
  BY <1>11 DEF HumanDirection
<1>12. CASE ReproducerStarts
  BY <1>12 DEF ReproducerStarts
<1>13. CASE AnalystStarts
  BY <1>13 DEF AnalystStarts
<1>14. CASE \E t \in Types : Summary(t)
  BY <1>14 DEF Summary
<1>15. CASE UNCHANGED vars
  BY <1>15 DEF vars, tracker, history
<1> QED
  BY <1>1, <1>2, <1>3, <1>4, <1>5, <1>6, <1>7, <1>8, <1>9, <1>10, <1>11, <1>12,
     <1>13, <1>14, <1>15 DEF Next, OnMarker

\* Every reachable state satisfies the invariant.
THEOREM PipelineInvariant == Spec => []PipelineInv
BY PipelineInvInit, PipelineInvStep, PTL DEF Spec

\* The tracker keeps its types, and its index stays within sub_issues.
THEOREM TypeCorrectness == Spec => []TypeOK
<1>1. PipelineInv => TypeOK
  BY DEF PipelineInv
<1> QED
  BY <1>1, PipelineInvariant, PTL

\* The sub-issue worked on is the one the index points at.
THEOREM CurrentSubIssueIsWorkedOn == Spec => []WorksOnCurrent
<1>1. PipelineInv => WorksOnCurrent
  BY DEF PipelineInv
<1> QED
  BY <1>1, PipelineInvariant, PTL

\* The end-to-end verification follows the review of every sub-issue.
THEOREM EverySubIssueIsReviewed == Spec => []E2eAfterReviews
<1>1. PipelineInv => E2eAfterReviews
  BY DEF PipelineInv, HistoryAgrees, E2eAfterReviews
<1> QED
  BY <1>1, PipelineInvariant, PTL

\* No sub-issue is worked on, and nothing is merged, before an approval.
THEOREM ApprovalComesFirst == Spec => []NoWorkBeforeApproval
<1>1. PipelineInv => NoWorkBeforeApproval
  BY DEF PipelineInv
<1> QED
  BY <1>1, PipelineInvariant, PTL

\* The loop of the implementer and the verifier ends, in success or stuck.
THEOREM TestLoopEnds == Spec => []TestLoopIsBounded
<1>1. PipelineInv => TestLoopIsBounded
  BY DEF PipelineInv
<1> QED
  BY <1>1, PipelineInvariant, PTL

-----------------------------------------------------------------------------
(* The use of the tracker.                                                 *)

-----------------------------------------------------------------------------
(* Routing.                                                                *)

Kinds == {"issues", "pull_request", "issue_comment", "pull_request_review", "check_run", "bootstrap", "edited"}
Letters == [id : Nat, kind : Kinds, number : Number, body : Seq(Number), about : Seq(Number),
            markers : Comments, home : Number \cup {Nobody}, stray : BOOLEAN]

LifecycleTypes ==
  /\ opened \subseteq Number /\ strays \subseteq opened /\ agents \subseteq Number
  /\ bodies \in [Number -> Seq(Number)] /\ home \in [Number -> Number \cup {Nobody}]
  /\ network \subseteq Letters /\ queue \in Seq(Letters)
  /\ posted \in Nat
  /\ loop \in {"applied", "running"} => queue # <<>>

\* An issue or pull request whose body mentions no other issue names the root issue it was written for, or is that issue.
BodiesInv ==
  \A n \in opened \ strays :
     /\ bodies[n] = <<>> \/ (home[n] # Nobody /\ bodies[n] = <<home[n]>>)
     /\ bodies[n] = <<>> => home[n] = (IF n = PullRequest THEN Nobody ELSE n)

\* The map names the root issue the pull request was opened for.
MapInv ==
  /\ DOMAIN prMap \subseteq {PullRequest} \cap opened
  /\ \A p \in DOMAIN prMap : prMap[p] \in Number
  /\ PullRequest \in DOMAIN prMap \ strays => prMap[PullRequest] = home[PullRequest]

\* What an event says of the root issue it was written for.
Addressed(e) ==
  \/ e.stray \/ e.kind \in {"bootstrap", "edited"}
  \/ (e.kind # "check_run" /\ e.home # Nobody /\ e.body = <<e.home>>)
  \/ /\ e.body = <<>>
     /\ e.kind = "issues" => e.home = e.number
     /\ e.kind = "issue_comment" => \/ (e.about = <<>> /\ (e.home = e.number \/ OfNoIssue(e)))
                                    \/ (e.about = <<e.home>> /\ e.home # Nobody)
     /\ e.kind \in {"pull_request", "pull_request_review", "check_run"} =>
           e.number = PullRequest /\ PullRequest \in opened \ strays /\ e.home = home[PullRequest]

Faithful(e) ==
  /\ Addressed(e)
  /\ e.kind = "pull_request" => e.number = PullRequest /\ PullRequest \in opened /\ e.body = bodies[PullRequest]

LettersInv == \A e \in network \cup Queued : Faithful(e)

RoutingInv == LifecycleTypes /\ BodiesInv /\ MapInv /\ LettersInv

\* What the wrapper makes of a text that has no reference, and of any text.
LEMMA AppendedRefs ==
  /\ AppendRef(<<>>, Nobody) = <<>>
  /\ \A r \in Number : AppendRef(<<>>, r) = <<r>>
  /\ \A d \in Drafts, r \in Number \cup {Nobody} : AppendRef(d, r) \in Seq(Number)
<1>1. AppendRef(<<>>, Nobody) = <<>>
  BY DEF AppendRef
<1>2. ASSUME NEW r \in Number PROVE AppendRef(<<>>, r) = <<r>>
  <2>1. r # Nobody /\ Len(<<>>) = 0
    BY LifecycleAssumption
  <2>2. ~\E i \in 1 .. Len(<<>>) : StartsWith(<<>>[i], r)
    BY <2>1
  <2>3. Append(<<>>, r) = <<r>>
    OBVIOUS
  <2> QED
    BY <2>1, <2>2, <2>3 DEF AppendRef
<1>3. ASSUME NEW d \in Drafts, NEW r \in Number \cup {Nobody} PROVE AppendRef(d, r) \in Seq(Number)
  <2>1. d \in Seq(Number)
    <3>1. Other \in Number
      BY DEF Number, Roots
    <3>2. <<>> \in Seq(Number) /\ <<Other>> \in Seq(Number)
      BY <3>1
    <3> QED
      BY <3>2 DEF Drafts
  <2>2. r = Nobody \/ r \in Number
    OBVIOUS
  <2>3. r \in Number => Append(d, r) \in Seq(Number)
    BY <2>1
  <2> QED
    BY <2>1, <2>2, <2>3 DEF AppendRef
<1> QED
  BY <1>1, <1>2, <1>3

\* The answer of the router is a number or none.
LEMMA RouteType ==
  ASSUME MapInv, NEW e \in Letters
  PROVE  Route(e) \in Number \cup {Nobody} /\ ExtractRef(e.body) \in Number \cup {Nobody}
<1>1. e.number \in Number /\ e.body \in Seq(Number) /\ e.about \in Seq(Number)
  BY DEF Letters
<1>2. \A b \in Seq(Number) : ExtractRef(b) \in Number \cup {Nobody}
  BY DEF ExtractRef
<1>3. \A p : LookupPr(p) \in Number \cup {Nobody}
  BY DEF LookupPr, MapInv
<1> QED
  BY <1>1, <1>2, <1>3 DEF Route, FirstOf

\* The invariant is enough: the router finds the home of what is addressed.
LEMMA AddressedIsRouted ==
  ASSUME MapInv, NEW e, Addressed(e), Actionable(e), ~e.stray, e.kind # "bootstrap"
  PROVE  Route(e) \in {e.home, Nobody} \/ (OfNoIssue(e) /\ Route(e) = e.number)
<1>1. ExtractRef(<<>>) = Nobody /\ ExtractRef(<<e.home>>) = e.home
  BY DEF ExtractRef
<1>2. PullRequest \notin strays => LookupPr(PullRequest) \in {home[PullRequest], Nobody}
  BY DEF LookupPr, MapInv
<1>3. e.kind # "edited"
  BY DEF Actionable
<1>4. CASE e.kind # "check_run" /\ e.home # Nobody /\ e.body = <<e.home>>
  BY <1>1, <1>3, <1>4 DEF Route, FirstOf
<1>5. CASE e.body = <<>> /\ e.kind = "issues"
  BY <1>1, <1>3, <1>5 DEF Route, FirstOf, Addressed
<1>6. CASE e.body = <<>> /\ e.kind = "issue_comment"
  BY <1>1, <1>3, <1>6 DEF Route, FirstOf, Addressed
<1>7. CASE e.body = <<>> /\ e.kind \in {"pull_request", "pull_request_review", "check_run"}
  BY <1>1, <1>2, <1>3, <1>7 DEF Route, FirstOf, Addressed
<1>8. CASE e.kind \notin {"issues", "issue_comment", "pull_request", "pull_request_review", "check_run"}
  BY <1>3, <1>8 DEF Route
<1> QED
  BY <1>3, <1>4, <1>5, <1>6, <1>7, <1>8 DEF Addressed

\* What was opened keeps its body, its home and its mentions; so letters stay faithful.
LEMMA FaithfulStays ==
  ASSUME opened \subseteq opened', strays' \cap opened = strays \cap opened,
         \A n \in opened : bodies'[n] = bodies[n] /\ home'[n] = home[n],
         NEW e, Faithful(e)
  PROVE  Faithful(e)'
<1>1. Addressed(e)'
  BY DEF Faithful, Addressed
<1> QED
  BY <1>1 DEF Faithful

\* A faithful letter is posted.
LEMMA PostKeeps ==
  ASSUME RoutingInv, UNCHANGED queue,
         opened \subseteq opened', strays' \cap opened = strays \cap opened,
         \A n \in opened : bodies'[n] = bodies[n] /\ home'[n] = home[n],
         NEW letter \in Letters, Faithful(letter)', network' = network \cup {letter}, posted' = posted + 1
  PROVE  network' \subseteq Letters /\ posted' \in Nat /\ LettersInv'
<1>2. network \subseteq Letters /\ posted \in Nat
  BY DEF RoutingInv, LifecycleTypes
<1>4. Queued' = Queued
  BY DEF Queued
<1>5. \A e \in network \cup Queued : Faithful(e)'
  <2> SUFFICES ASSUME NEW e \in network \cup Queued PROVE Faithful(e)'
    OBVIOUS
  <2>1. Faithful(e)
    BY DEF RoutingInv, LettersInv
  <2> QED
    BY <2>1, FaithfulStays
<1>6. LettersInv'
  BY <1>4, <1>5 DEF LettersInv
<1> QED
  BY <1>2, <1>6

\* What stays when only letters move.
LEMMA RestStays ==
  ASSUME RoutingInv, UNCHANGED <<opened, bodies, home, strays, prMap>>
  PROVE  BodiesInv' /\ MapInv'
  BY DEF RoutingInv, BodiesInv, MapInv

LEMMA WriteKeeps ==
  ASSUME RoutingInv, UNCHANGED <<routerVars, loopVars, agents>>, NEW author \in Authors, NEW draft \in Drafts,
         NEW kind, NEW n \in Number, NEW markers \in Comments,
         kind = "issue_comment" \/ (kind = "pull_request_review" /\ n = PullRequest),
         Write(kind, n, author, draft, markers)
  PROVE  RoutingInv'
<1> USE DEF RoutingInv
<1>1. kind \in Kinds /\ n \in opened /\ UNCHANGED <<opened, bodies, home, strays, queue, loop, agents, prMap>>
  BY DEF Kinds, Write, routerVars, loopVars
<1>2. author \in Number \cup {Nobody}
  BY DEF Authors, LifecycleTypes
<1>3. bodies'[n] = bodies[n] /\ bodies[n] \in Seq(Number) /\ home[n] \in Number \cup {Nobody}
  BY <1>1 DEF LifecycleTypes
<1>4. BodiesInv' /\ MapInv'
  BY <1>1, RestStays
<1>5. CASE author # Nobody
  <2> DEFINE body == Written(draft, author)
             letter == [id |-> posted + 1, kind |-> kind, number |-> n, body |-> body, about |-> bodies[n],
                        markers |-> markers, home |-> author, stray |-> draft # <<>>]
  <2>1. Post(kind, n, body, markers, author, draft # <<>>)
    BY <1>5 DEF Write
  <2>2. body \in Seq(Number)
    BY <1>2, AppendedRefs DEF Written
  <2>3. draft = <<>> => body = <<author>>
    BY <1>2, <1>5, AppendedRefs DEF Written
  <2> HIDE DEF body
  <2>4. PICK l \in Letters : l = letter /\ network' = network \cup {l} /\ posted' = posted + 1
    <3>1. posted \in Nat /\ bodies'[n] = bodies[n]
      BY <1>1 DEF LifecycleTypes
    <3>2. letter \in Letters
      BY <1>1, <1>2, <1>3, <2>2, <3>1 DEF Letters
    <3>3. network' = network \cup {letter} /\ posted' = posted + 1
      BY <2>1, <3>1 DEF Post
    <3> QED
      BY <3>2, <3>3
  <2>5. Faithful(l)'
    <3>1. l.kind = kind /\ l.body = body /\ l.home = author /\ l.stray = (draft # <<>>)
      BY <2>4
    <3> QED
      BY <1>1, <1>5, <2>3, <3>1 DEF Faithful, Addressed
  <2>7. network' \subseteq Letters /\ posted' \in Nat /\ LettersInv'
    BY <1>1, <2>4, <2>5, PostKeeps
  <2> QED
    BY <1>1, <1>4, <2>7 DEF LifecycleTypes
<1>6. CASE author = Nobody
  <2> DEFINE stray == draft # <<>> \/ n \in strays
             letter == [id |-> posted + 1, kind |-> kind, number |-> n, body |-> draft, about |-> bodies[n],
                        markers |-> markers, home |-> home[n], stray |-> stray]
  <2>1. Post(kind, n, draft, markers, home[n], stray)
    BY <1>6 DEF Write
  <2>2. draft \in Seq(Number)
    <3>1. <<>> \in Seq(Number) /\ <<Other>> \in Seq(Number)
      BY DEF Number, Roots
    <3> QED
      BY <3>1 DEF Drafts
  <2>3. n \notin strays => /\ bodies[n] = <<>> \/ (home[n] # Nobody /\ bodies[n] = <<home[n]>>)
                           /\ bodies[n] = <<>> => home[n] = (IF n = PullRequest THEN Nobody ELSE n)
    BY <1>1 DEF BodiesInv
  <2>4. PICK l \in Letters : l = letter /\ network' = network \cup {l} /\ posted' = posted + 1
    <3>1. posted \in Nat /\ bodies'[n] = bodies[n]
      BY <1>1 DEF LifecycleTypes
    <3>2. letter \in Letters
      BY <1>1, <1>3, <2>2, <3>1 DEF Letters
    <3>3. network' = network \cup {letter} /\ posted' = posted + 1
      BY <2>1, <3>1 DEF Post
    <3> QED
      BY <3>2, <3>3
  <2>5. Faithful(l)'
    <3>1. /\ l.kind = kind /\ l.number = n /\ l.body = draft /\ l.about = bodies[n]
          /\ l.home = home[n] /\ l.stray = stray
      BY <2>4
    <3>2. ASSUME ~stray, kind = "issue_comment"
          PROVE  \/ l.about = <<>> /\ (l.home = l.number \/ OfNoIssue(l))
                 \/ l.about = <<l.home>> /\ l.home # Nobody
      BY <2>3, <3>1, <3>2 DEF OfNoIssue
    <3>3. l.stray \/ l.body = <<>>
      BY <3>1 DEF Drafts
    <3> QED
      BY <1>1, <3>1, <3>2, <3>3 DEF Faithful, Addressed
  <2>7. network' \subseteq Letters /\ posted' \in Nat /\ LettersInv'
    BY <1>1, <2>4, <2>5, PostKeeps
  <2> QED
    BY <1>1, <1>4, <2>7 DEF LifecycleTypes
<1> QED
  BY <1>5, <1>6

LEMMA NoticeKeeps ==
  ASSUME RoutingInv, UNCHANGED <<routerVars, loopVars, agents>>, NEW kind, NEW n \in Number,
         kind \in {"bootstrap", "edited"} \/ (kind = "check_run" /\ n = PullRequest),
         Notice(kind, n)
  PROVE  RoutingInv'
<1> USE DEF RoutingInv
<1> DEFINE stray == n \in strays
<1>1. kind \in Kinds /\ n \in opened /\ UNCHANGED <<opened, bodies, home, strays, queue, loop, agents, prMap>>
  BY DEF Kinds, Notice, routerVars, loopVars
<1>2. bodies'[n] = bodies[n] /\ bodies[n] \in Seq(Number) /\ bodies'[n] \in Seq(Number) /\ home[n] \in Number \cup {Nobody}
  BY <1>1 DEF LifecycleTypes
<1>3. BodiesInv' /\ MapInv'
  BY <1>1, RestStays
<1> DEFINE letter == [id |-> posted + 1, kind |-> kind, number |-> n, body |-> <<>>, about |-> bodies[n],
                      markers |-> <<>>, home |-> home[n], stray |-> stray]
<1>4. Post(kind, n, <<>>, <<>>, home[n], stray)
  BY DEF Notice
<1>5. PICK l \in Letters : l = letter /\ network' = network \cup {l} /\ posted' = posted + 1
  <2>1. posted \in Nat
    BY DEF LifecycleTypes
  <2>2. letter \in Letters
    BY <1>1, <1>2, <2>1, LifecycleAssumption DEF Letters
  <2>3. network' = network \cup {letter} /\ posted' = posted + 1
    BY <1>2, <1>4 DEF Post
  <2> QED
    BY <2>2, <2>3
<1>6. Faithful(l)'
  <2>1. l.kind = kind /\ l.number = n /\ l.body = <<>> /\ l.home = home[n] /\ l.stray = stray
    BY <1>5
  <2> QED
    BY <1>1, <2>1 DEF Faithful, Addressed
<1>7. network' \subseteq Letters /\ posted' \in Nat /\ LettersInv'
  BY <1>1, <1>5, <1>6, PostKeeps
<1> QED
  BY <1>1, <1>3, <1>7 DEF LifecycleTypes

LEMMA OpenKeeps ==
  ASSUME RoutingInv, UNCHANGED <<routerVars, loopVars, agents>>, NEW author \in Authors, NEW draft \in Drafts,
         NEW kind, NEW n \in Number,
         (kind = "issues" /\ n = SubIssueNumber) \/ (kind = "pull_request" /\ n = PullRequest),
         Open(kind, n, author, draft)
  PROVE  RoutingInv'
<1> USE DEF RoutingInv
<1> DEFINE body == Written(draft, author)
           of == IF author # Nobody THEN author ELSE IF kind = "issues" THEN n ELSE Nobody
           stray == draft # <<>>
<1>1. /\ kind \in Kinds /\ n \notin opened /\ opened' = opened \cup {n}
      /\ bodies' = [bodies EXCEPT ![n] = body] /\ home' = [home EXCEPT ![n] = of]
      /\ strays' = (IF stray THEN strays \cup {n} ELSE strays)
      /\ UNCHANGED <<queue, loop, agents, prMap>>
  BY DEF Kinds, Open, routerVars, loopVars
<1>2. author \in Number \cup {Nobody}
  BY DEF Authors, LifecycleTypes
<1>3. body \in Seq(Number)
  BY <1>2, AppendedRefs DEF Written
<1>4. ~stray => body = (IF author = Nobody THEN <<>> ELSE <<author>>)
  BY <1>2, AppendedRefs DEF Written
<1>5. of \in Number \cup {Nobody}
  BY <1>2
<1>6. bodies'[n] = body /\ home'[n] = of /\ Post(kind, n, body, <<>>, of, stray)
  <2>1. bodies'[n] = body /\ home'[n] = of
    BY <1>1 DEF LifecycleTypes
  <2>2. Post(kind, n, body, <<>>, home'[n], stray)
    BY DEF Open
  <2> QED
    BY <2>1, <2>2
<1>7. ~stray => /\ body = <<>> \/ (of # Nobody /\ body = <<of>>)
                /\ body = <<>> => of = (IF kind = "issues" THEN n ELSE Nobody)
  <2>1. CASE author = Nobody
    BY <1>4, <2>1
  <2>2. CASE author # Nobody
    <3>1. <<author>> # <<>>
      OBVIOUS
    <3> QED
      BY <1>4, <2>2, <3>1
  <2> QED
    BY <2>1, <2>2
<1> HIDE DEF body, of
<1>8. /\ opened \subseteq opened' /\ strays' \cap opened = strays \cap opened
      /\ \A m \in opened : bodies'[m] = bodies[m] /\ home'[m] = home[m]
  BY <1>1 DEF LifecycleTypes
<1>9. /\ opened' \subseteq Number /\ strays' \subseteq opened'
      /\ bodies' \in [Number -> Seq(Number)] /\ home' \in [Number -> Number \cup {Nobody}]
  BY <1>1, <1>3, <1>5 DEF LifecycleTypes
<1>10. kind = "issues" <=> n # PullRequest
  BY LifecycleAssumption
<1>11. BodiesInv'
  <2> SUFFICES ASSUME NEW m \in opened' \ strays'
               PROVE  /\ bodies'[m] = <<>> \/ (home'[m] # Nobody /\ bodies'[m] = <<home'[m]>>)
                      /\ bodies'[m] = <<>> => home'[m] = (IF m = PullRequest THEN Nobody ELSE m)
    BY DEF BodiesInv
  <2>1. CASE m = n
    <3>1. ~stray
      BY <1>1, <2>1
    <3> QED
      BY <1>6, <1>7, <1>10, <2>1, <3>1
  <2>2. CASE m # n
    <3>1. m \in opened \ strays
      BY <1>1, <2>2
    <3>2. bodies'[m] = bodies[m] /\ home'[m] = home[m]
      BY <1>8, <3>1
    <3> QED
      BY <3>1, <3>2 DEF BodiesInv
  <2> QED
    BY <2>1, <2>2
<1>12. MapInv'
  <2>1. PullRequest \notin strays' => PullRequest \notin strays
    BY <1>1
  <2>2. DOMAIN prMap \subseteq {PullRequest} \cap opened /\ \A p \in DOMAIN prMap : prMap[p] \in Number
    BY DEF MapInv
  <2>3. PullRequest \in DOMAIN prMap /\ PullRequest \notin strays' => prMap[PullRequest] = home'[PullRequest]
    BY <1>1, <1>8, <2>2 DEF MapInv
  <2> QED
    BY <1>1, <2>2, <2>3 DEF MapInv
<1> DEFINE letter == [id |-> posted + 1, kind |-> kind, number |-> n, body |-> body, about |-> bodies'[n],
                      markers |-> <<>>, home |-> of, stray |-> stray]
<1>13. PICK l \in Letters : l = letter /\ network' = network \cup {l} /\ posted' = posted + 1
  <2>1. posted \in Nat
    BY DEF LifecycleTypes
  <2>2. letter \in Letters
    BY <1>1, <1>3, <1>5, <1>6, <2>1, LifecycleAssumption DEF Letters
  <2>3. network' = network \cup {letter} /\ posted' = posted + 1
    BY <1>6 DEF Post
  <2> QED
    BY <2>2, <2>3
<1>14. Faithful(l)'
  <2>1. l.kind = kind /\ l.number = n /\ l.body = body /\ l.home = of /\ l.stray = stray
    BY <1>13
  <2>2. n \in opened' /\ (~stray => n \notin strays')
    BY <1>1 DEF LifecycleTypes
  <2> QED
    BY <1>6, <1>7, <2>1, <2>2 DEF Faithful, Addressed
<1>16. network' \subseteq Letters /\ posted' \in Nat /\ LettersInv'
  BY <1>1, <1>8, <1>13, <1>14, PostKeeps
<1> QED
  BY <1>1, <1>9, <1>11, <1>12, <1>16 DEF LifecycleTypes

LEMMA WorldKeeps == RoutingInv /\ World => RoutingInv'
<1> SUFFICES ASSUME RoutingInv, World PROVE RoutingInv'
  OBVIOUS
<1>1. UNCHANGED <<routerVars, loopVars, agents>>
  BY DEF World
<1>2. SubIssueNumber \in Number /\ PullRequest \in Number
  BY DEF Number
<1>3. PICK author \in Authors, draft \in Drafts :
        \/ Open("issues", SubIssueNumber, author, draft)
        \/ Open("pull_request", PullRequest, author, draft)
        \/ \E n \in Number, markers \in Comments : Write("issue_comment", n, author, draft, markers)
        \/ Write("pull_request_review", PullRequest, author, draft, <<>>)
        \/ Notice("check_run", PullRequest)
        \/ \E n \in Number : Notice("bootstrap", n) \/ Notice("edited", n)
  BY DEF World
<1>4. CASE Open("issues", SubIssueNumber, author, draft)
  BY <1>1, <1>2, <1>4, OpenKeeps
<1>9. CASE Open("pull_request", PullRequest, author, draft)
  BY <1>1, <1>2, <1>9, OpenKeeps
<1>5. CASE \E n \in Number, markers \in Comments : Write("issue_comment", n, author, draft, markers)
  <2>1. PICK n \in Number, markers \in Comments : Write("issue_comment", n, author, draft, markers)
    BY <1>5
  <2> QED
    BY <1>1, <2>1, WriteKeeps
<1>6. CASE Write("pull_request_review", PullRequest, author, draft, <<>>)
  BY <1>1, <1>2, <1>6, LifecycleAssumption, WriteKeeps
<1>7. CASE Notice("check_run", PullRequest)
  BY <1>1, <1>2, <1>7, NoticeKeeps
<1>8. CASE \E n \in Number : Notice("bootstrap", n) \/ Notice("edited", n)
  <2>1. PICK n \in Number : Notice("bootstrap", n) \/ Notice("edited", n)
    BY <1>8
  <2>2. CASE Notice("bootstrap", n)
    BY <1>1, <2>2, NoticeKeeps
  <2>3. CASE Notice("edited", n)
    BY <1>1, <2>3, NoticeKeeps
  <2> QED
    BY <2>1, <2>2, <2>3
<1> QED
  BY <1>3, <1>4, <1>5, <1>6, <1>7, <1>8, <1>9

\* Letters only move: those waiting were on their way or waiting before.
LEMMA LettersMove ==
  ASSUME RoutingInv, UNCHANGED <<opened, bodies, home, strays>>,
         network' \cup Queued' \subseteq network \cup Queued
  PROVE  LettersInv'
<1>1. \A e \in network \cup Queued : Faithful(e)'
  <2> SUFFICES ASSUME NEW e \in network \cup Queued PROVE Faithful(e)'
    OBVIOUS
  <2>1. Faithful(e)
    BY DEF RoutingInv, LettersInv
  <2> QED
    BY <2>1, FaithfulStays
<1> QED
  BY <1>1 DEF LettersInv

\* What is taken from the queue or put back was in it.
LEMMA QueueMoves ==
  ASSUME queue \in Seq(Letters)
  PROVE  /\ \A e \in Letters : Append(queue, e) \in Seq(Letters) /\ Append(queue, e) # <<>>
         /\ \A e \in Letters : {Append(queue, e)[i] : i \in 1 .. Len(Append(queue, e))} \subseteq Queued \cup {e}
         /\ queue # <<>> =>
              /\ Head(queue) \in Queued /\ Head(queue) \in Letters
              /\ Tail(queue) \in Seq(Letters) /\ {Tail(queue)[i] : i \in 1 .. Len(Tail(queue))} \subseteq Queued
              /\ Append(Tail(queue), Head(queue)) \in Seq(Letters)
              /\ {Append(Tail(queue), Head(queue))[i] : i \in 1 .. Len(Append(Tail(queue), Head(queue)))} \subseteq Queued
<1>1. ASSUME NEW e \in Letters
      PROVE  /\ Append(queue, e) \in Seq(Letters) /\ Append(queue, e) # <<>>
             /\ {Append(queue, e)[i] : i \in 1 .. Len(Append(queue, e))} \subseteq Queued \cup {e}
  BY AppendProperties DEF Queued
<1>2. ASSUME queue # <<>>
      PROVE  /\ Head(queue) \in Queued /\ Head(queue) \in Letters
             /\ Tail(queue) \in Seq(Letters) /\ {Tail(queue)[i] : i \in 1 .. Len(Tail(queue))} \subseteq Queued
  BY <1>2, HeadTailProperties DEF Queued
<1>3. ASSUME queue # <<>>
      PROVE  /\ Append(Tail(queue), Head(queue)) \in Seq(Letters)
             /\ {Append(Tail(queue), Head(queue))[i] : i \in 1 .. Len(Append(Tail(queue), Head(queue)))} \subseteq Queued
  <2> DEFINE rest == Tail(queue)
  <2>1. rest \in Seq(Letters) /\ Head(queue) \in Letters
    BY <1>2, <1>3
  <2>2. \A i \in 1 .. Len(rest) : rest[i] \in Queued
    BY <1>2, <1>3
  <2>3. Head(queue) \in Queued
    BY <1>2, <1>3
  <2> HIDE DEF rest
  <2>4. Append(rest, Head(queue)) \in Seq(Letters) /\ Len(Append(rest, Head(queue))) = Len(rest) + 1
    BY <2>1, AppendProperties
  <2>5. \A i \in 1 .. Len(rest) + 1 : Append(rest, Head(queue))[i] \in Queued
    BY <2>1, <2>2, <2>3, AppendProperties
  <2> QED
    BY <2>4, <2>5 DEF rest
<1> QED
  BY <1>1, <1>2, <1>3

\* The initial state satisfies the invariant.
LEMMA RoutingInvInit == LifecycleInit => RoutingInv
<1> SUFFICES ASSUME LifecycleInit PROVE RoutingInv
  OBVIOUS
<1> USE DEF LifecycleInit
<1>1. Roots \subseteq Number /\ Queued = {} /\ PullRequest \notin Roots
  BY LifecycleAssumption DEF Number, Queued
<1>2. LifecycleTypes
  <2>1. bodies \in [Number -> Seq(Number)] /\ home \in [Number -> Number \cup {Nobody}]
    BY <1>1
  <2>2. queue \in Seq(Letters) /\ network \subseteq Letters /\ posted \in Nat
    OBVIOUS
  <2> QED
    BY <1>1, <2>1, <2>2 DEF LifecycleTypes
<1>3. BodiesInv
  BY <1>1 DEF BodiesInv
<1>4. MapInv
  <2>1. DOMAIN prMap = {}
    OBVIOUS
  <2> QED
    BY <2>1 DEF MapInv
<1>5. LettersInv
  BY <1>1 DEF LettersInv
<1> QED
  BY <1>2, <1>3, <1>4, <1>5 DEF RoutingInv

\* A step of the loop or the network.
LEMMA LoopKeeps ==
  ASSUME RoutingInv, ApplyNext \/ (\E e \in network : Receive(e)) \/ Skip \/ ApplyHead \/ WaitForTurn \/ Run \/ Ends \/ Restart \/ AgentStarts
  PROVE  RoutingInv'
<1> USE DEF RoutingInv
<1>1. LifecycleTypes /\ queue \in Seq(Letters)
  BY DEF LifecycleTypes
<1>2. CASE \E e \in network : Receive(e)
  <2>1. PICK e \in network : Receive(e)
    BY <1>2
  <2>2. e \in Letters
    BY <1>1 DEF LifecycleTypes
  <2>3. UNCHANGED <<prMap, opened, bodies, home, strays, agents, loop>>
    BY <2>1 DEF Receive, routerVars
  <2>4. queue' = Append(queue, e) /\ network' \in {network, network \ {e}} /\ posted' \in {posted, posted + 1}
    BY <2>1 DEF Receive
  <2>5. queue' \in Seq(Letters) /\ queue' # <<>> /\ Queued' \subseteq Queued \cup {e}
    BY <1>1, <2>2, <2>4, QueueMoves DEF Queued
  <2>6. BodiesInv' /\ MapInv'
    BY <2>3, RestStays
  <2>7. LettersInv'
    BY <2>3, <2>4, <2>5, LettersMove
  <2> QED
    BY <1>1, <2>3, <2>4, <2>5, <2>6, <2>7 DEF LifecycleTypes
<1>3. CASE Skip
  <2>1. UNCHANGED <<prMap, opened, bodies, home, strays, network, agents, posted, loop>>
    BY <1>3 DEF Skip, routerVars, worldVars
  <2>2. queue # <<>> /\ queue' = Tail(queue) /\ loop = "idle"
    BY <1>3 DEF Skip
  <2>3. queue' \in Seq(Letters) /\ Queued' \subseteq Queued
    BY <1>1, <2>2, QueueMoves DEF Queued
  <2>4. BodiesInv' /\ MapInv'
    BY <2>1, RestStays
  <2>5. LettersInv'
    BY <2>1, <2>3, LettersMove
  <2> QED
    BY <1>1, <2>1, <2>2, <2>3, <2>4, <2>5 DEF LifecycleTypes
<1>4. CASE ApplyHead
  <2> DEFINE e == Head(queue)
  <2>1. UNCHANGED <<opened, bodies, home, strays, network, agents, posted, queue>> /\ queue # <<>>
    BY <1>4 DEF ApplyHead, worldVars
  <2>2. e \in Queued /\ e \in Letters
    BY <1>1, <2>1, QueueMoves
  <2>3. LettersInv'
    <3>1. Queued' = Queued
      BY <2>1 DEF Queued
    <3> QED
      BY <2>1, <3>1, LettersMove
  <2>4. BodiesInv'
    BY <2>1 DEF BodiesInv
  <2>5. MapInv'
    <3>1. RegisterPr(e)
      BY <1>4 DEF ApplyHead
    <3>2. CASE ~Registers(e)
      BY <2>1, <3>1, <3>2 DEF RegisterPr, MapInv
    <3>3. CASE Registers(e)
      <4>1. e.kind = "pull_request" /\ ExtractRef(e.body) # Nobody
        BY <3>3 DEF Registers
      <4>2. Faithful(e)
        BY <2>2 DEF LettersInv
      <4>3. e.number = PullRequest /\ PullRequest \in opened /\ e.body = bodies[PullRequest]
        BY <4>1, <4>2 DEF Faithful
      <4>4. ExtractRef(e.body) \in Number
        BY <2>2, <4>1, RouteType
      <4>5. PullRequest \notin strays => ExtractRef(e.body) = home[PullRequest]
        <5>1. ASSUME PullRequest \notin strays
              PROVE  bodies[PullRequest] = <<>> \/ bodies[PullRequest] = <<home[PullRequest]>>
          BY <4>3, <5>1 DEF BodiesInv
        <5>2. ExtractRef(<<>>) = Nobody /\ ExtractRef(<<home[PullRequest]>>) = home[PullRequest]
          BY DEF ExtractRef
        <5> QED
          BY <4>1, <4>3, <5>1, <5>2
      <4>6. prMap' = [pr \in DOMAIN prMap \cup {PullRequest} |-> IF pr = PullRequest THEN ExtractRef(e.body) ELSE prMap[pr]]
        BY <3>1, <3>3, <4>3 DEF RegisterPr
      <4> HIDE DEF e
      <4> QED
        BY <2>1, <4>3, <4>4, <4>5, <4>6 DEF MapInv
    <3> QED
      BY <3>2, <3>3
  <2> QED
    BY <1>1, <2>1, <2>3, <2>4, <2>5 DEF LifecycleTypes
<1>5. CASE WaitForTurn \/ AgentStarts \/ ApplyNext
  <2>1. UNCHANGED <<prMap, opened, bodies, home, strays, network, agents, posted, queue>> /\ loop' \in {"idle", loop}
    BY <1>5 DEF WaitForTurn, AgentStarts, ApplyNext, routerVars, worldVars, loopVars
  <2>2. Queued' = Queued
    BY <2>1 DEF Queued
  <2>3. BodiesInv' /\ MapInv'
    BY <2>1, RestStays
  <2>4. LettersInv'
    BY <2>1, <2>2, LettersMove
  <2> QED
    BY <1>1, <2>1, <2>3, <2>4 DEF LifecycleTypes
<1>6. CASE Run
  <2>1. UNCHANGED <<prMap, opened, bodies, home, strays, network, posted, queue>> /\ loop = "applied"
    BY <1>6 DEF Run, routerVars
  <2>2. queue # <<>>
    BY <1>1, <2>1 DEF LifecycleTypes
  <2>3. Route(Head(queue)) \in Number \cup {Nobody}
    BY <1>1, <2>2, QueueMoves, RouteType
  <2>4. agents' \subseteq Number
    BY <1>1, <1>6, <2>3 DEF Run, LifecycleTypes
  <2>5. Queued' = Queued
    BY <2>1 DEF Queued
  <2>6. BodiesInv' /\ MapInv'
    BY <2>1, RestStays
  <2>7. LettersInv'
    BY <2>1, <2>5, LettersMove
  <2> QED
    BY <1>1, <2>1, <2>2, <2>4, <2>6, <2>7 DEF LifecycleTypes
<1>7. CASE Ends \/ Restart
  <2>1. UNCHANGED <<opened, bodies, home, strays, network, agents, posted, prMap>> /\ loop' = "idle"
    BY <1>7 DEF Ends, Restart, routerVars, worldVars, TearMap
  <2>2. \/ queue' = queue
        \/ queue # <<>> /\ queue' \in {Tail(queue), Append(Tail(queue), Head(queue))}
    BY <1>1, <1>7 DEF Ends, Restart, LifecycleTypes
  <2>3. queue' \in Seq(Letters) /\ Queued' \subseteq Queued
    BY <1>1, <2>2, QueueMoves DEF Queued
  <2>4. BodiesInv' /\ MapInv'
    BY <2>1, RestStays
  <2>5. LettersInv'
    BY <2>1, <2>3, LettersMove
  <2> QED
    BY <1>1, <2>1, <2>3, <2>4, <2>5 DEF LifecycleTypes
<1> QED
  BY <1>2, <1>3, <1>4, <1>5, <1>6, <1>7

LEMMA RoutingInvStep == RoutingInv /\ [LifecycleNext]_allVars => RoutingInv'
<1> SUFFICES ASSUME RoutingInv, [LifecycleNext]_allVars PROVE RoutingInv'
  OBVIOUS
<1>1. CASE World
  BY <1>1, WorldKeeps
<1>2. CASE LifecycleNext /\ ~World
  BY <1>2, LoopKeeps DEF LifecycleNext, Elsewhere
<1>3. CASE UNCHANGED allVars
  <2>1. UNCHANGED <<prMap, opened, bodies, home, strays, network, agents, posted, queue, loop>>
    BY <1>3 DEF allVars, routerVars, worldVars, loopVars
  <2>2. Queued' = Queued
    BY <2>1 DEF Queued
  <2>3. BodiesInv' /\ MapInv'
    BY <2>1, RestStays
  <2>4. LettersInv'
    BY <2>1, <2>2, LettersMove
  <2> QED
    BY <2>1, <2>3, <2>4 DEF RoutingInv, LifecycleTypes
<1> QED
  BY <1>1, <1>2, <1>3

\* The invariant is enough.
LEMMA RoutingImpliesHome == RoutingInv => RoutedHome
<1> SUFFICES ASSUME RoutingInv, NEW e \in Queued, Actionable(e), ~e.stray, e.kind # "bootstrap"
             PROVE  Route(e) \in {e.home, Nobody} \/ (OfNoIssue(e) /\ Route(e) = e.number)
  BY DEF RoutedHome
<1>1. Addressed(e) /\ MapInv
  BY DEF RoutingInv, LettersInv, Faithful
<1> QED
  BY <1>1, AddressedIsRouted

\* An event is routed to the root issue it was written for, in whatever order the webhooks came and whatever was lost of the map.
THEOREM EventsReachTheirIssue == LifecycleSpec => []RoutedHome
BY RoutingImpliesHome, RoutingInvInit, RoutingInvStep, PTL DEF LifecycleSpec

-----------------------------------------------------------------------------
(* The stages of the tracker and what was told.                            *)

\* The markers of a comment that may reach the tracker of Root were told.
TellsRoot(e) == e.kind = "issue_comment" /\ (e.home = Root \/ e.stray) => Carried(e.markers) \subseteq told

ToldInv ==
  /\ RoutingInv
  /\ \A e \in network \cup Queued : TellsRoot(e)
  /\ todo \in Seq(Marker) /\ Carried(todo) \subseteq told
  /\ StagesAreTold

\* What the world posts tells its markers.
LEMMA WorldTells ==
  ASSUME ToldInv, World
  PROVE  (\A e \in network' \cup Queued' : TellsRoot(e)') /\ told \subseteq told'
<1>1. PICK kind, n, body, markers, of, stray : Post(kind, n, body, markers, of, stray)
  BY DEF World, Open, Write, Notice
<1> DEFINE letter == [id |-> posted + 1, kind |-> kind, number |-> n, body |-> body, about |-> bodies'[n],
                      markers |-> markers, home |-> of, stray |-> stray]
<1>2. PICK l : l = letter /\ network' = network \cup {l}
               /\ told' = told \cup (IF l.home = Root \/ l.stray THEN Carried(l.markers) ELSE {})
  <2>1. letter.home = of /\ letter.stray = stray /\ letter.markers = markers
    OBVIOUS
  <2>2. network' = network \cup {letter} /\ told' = told \cup (IF of = Root \/ stray THEN Carried(markers) ELSE {})
    BY <1>1 DEF Post
  <2> QED
    BY <2>1, <2>2
<1>3. TellsRoot(l)'
  BY <1>2 DEF TellsRoot
<1>4. \A e \in network \cup Queued : TellsRoot(e)'
  BY <1>2 DEF ToldInv, TellsRoot
<1>5. Queued' = Queued
  BY DEF World, loopVars, Queued
<1> QED
  BY <1>2, <1>3, <1>4, <1>5

\* A marker that was told leads to no stage that was not.
LEMMA ChangeTells ==
  ASSUME ToldInv, NEW m \in told, Change(m), told' = told
  PROVE  StagesAreTold'
<1> USE DEF ToldInv, StagesAreTold, OnSubIssue, Enter, At
<1>1. CASE m = "summary" /\ \E t \in Types : Summary(t)
  BY <1>1 DEF Summary
<1>2. CASE \E yes \in BOOLEAN : m \in {"reproduced", "not_reproduced"} /\ (yes <=> m = "reproduced") /\ Reproduced(yes)
  BY <1>2 DEF Reproduced
<1>3. CASE state = "decomposing" /\ Decomposed
  BY <1>3 DEF Decomposed, AdvanceToNextSubIssue
<1>4. CASE m = "approved" /\ Approved
  BY <1>4 DEF Approved
<1>5. CASE ReviewPasses
  BY <1>5 DEF ReviewPasses, AdvanceToNextSubIssue
<1>6. CASE m = "verified" /\ Verified
  BY <1>6 DEF Verified
<1>7. CASE Stuck
  BY <1>7 DEF Stuck
<1> QED
  BY <1>1, <1>2, <1>3, <1>4, <1>5, <1>6, <1>7 DEF Change

\* What the event at the head brings to the tracker of Root was told.
LEMMA HeadTells ==
  ASSUME ToldInv, queue # <<>>, Actionable(Head(queue))
  PROVE  LET markers == MarkersFor(Route(Head(queue)), Head(queue))
         IN  markers \in Seq(Marker) /\ Carried(markers) \subseteq told
<1> DEFINE e == Head(queue)
<1>1. e \in Queued /\ e \in Letters
  BY QueueMoves DEF ToldInv, RoutingInv, LifecycleTypes
<1> HIDE DEF e
<1>2. e.markers \in Seq(Marker) /\ e.number \in Number
  BY <1>1, LifecycleAssumption DEF Letters
<1>3. CASE Route(e) = Root /\ e.kind = "issue_comment"
  <2>1. Root # Nobody /\ Root # PullRequest
    BY LifecycleAssumption DEF Number, Roots
  <2>2. e.home = Root \/ e.stray
    BY <1>1, <1>3, <2>1, RoutingImpliesHome DEF ToldInv, RoutedHome, OfNoIssue, e
  <2> QED
    BY <1>1, <1>2, <1>3, <2>2 DEF ToldInv, TellsRoot, MarkersFor, e
<1>4. CASE ~(Route(e) = Root /\ e.kind = "issue_comment")
  BY <1>4 DEF MarkersFor, Carried, e
<1> QED
  BY <1>3, <1>4

LEMMA ToldInvStep == ToldInv /\ [LifecycleNext]_allVars => ToldInv'
<1> SUFFICES ASSUME ToldInv, [LifecycleNext]_allVars PROVE ToldInv'
  OBVIOUS
<1>1. RoutingInv'
  BY RoutingInvStep DEF ToldInv
<1>2. CASE World
  <2>1. UNCHANGED <<vars, todo>>
    BY <1>2 DEF World, loopVars
  <2>2. StagesAreTold'
    BY <1>2, <2>1, WorldTells DEF ToldInv, StagesAreTold, vars, tracker
  <2> QED
    BY <1>1, <1>2, <2>1, <2>2, WorldTells DEF ToldInv
<1>3. CASE ~World
  <2>1. told' = told /\ network' \subseteq network
    BY <1>3 DEF LifecycleNext, Elsewhere, ApplyNext, Receive, Skip, ApplyHead, WaitForTurn, Run, Ends, Restart, AgentStarts,
                worldVars, allVars
  <2>2. network' \cup Queued' \subseteq network \cup Queued
    <3>1. queue \in Seq(Letters) /\ network \subseteq Letters
      BY DEF ToldInv, RoutingInv, LifecycleTypes
    <3>2. CASE queue' = queue
      BY <2>1, <3>2 DEF Queued
    <3>3. CASE \E e \in network : queue' = Append(queue, e)
      <4>1. PICK e \in network : queue' = Append(queue, e)
        BY <3>3
      <4> QED
        BY <2>1, <3>1, <4>1, QueueMoves DEF Queued
    <3>4. CASE queue # <<>> /\ queue' \in {Tail(queue), Append(Tail(queue), Head(queue))}
      <4>1. \/ queue' = Tail(queue) /\ {Tail(queue)[i] : i \in 1 .. Len(Tail(queue))} \subseteq Queued
            \/ /\ queue' = Append(Tail(queue), Head(queue))
               /\ {Append(Tail(queue), Head(queue))[i] : i \in 1 .. Len(Append(Tail(queue), Head(queue)))} \subseteq Queued
        BY <3>1, <3>4, QueueMoves
      <4>2. Queued' \subseteq Queued
        BY <4>1 DEF Queued
      <4> QED
        BY <2>1, <4>2
    <3>5. loop = "running" => queue # <<>>
      BY DEF ToldInv, RoutingInv, LifecycleTypes
    <3> QED
      BY <1>3, <3>2, <3>3, <3>4, <3>5 DEF LifecycleNext, Elsewhere, ApplyNext, Receive, Skip, ApplyHead, WaitForTurn, Run, Ends,
         Restart, AgentStarts, worldVars, loopVars, allVars
  <2>3. \A e \in network' \cup Queued' : TellsRoot(e)'
    BY <2>1, <2>2 DEF ToldInv, TellsRoot
  <2>4. CASE ApplyNext
    <3>1. Head(todo) \in told /\ todo' \in Seq(Marker) /\ Carried(todo') \subseteq told
      BY <2>4 DEF ApplyNext, ToldInv, Carried
    <3>2. StagesAreTold'
      <4>1. CASE Takes(Head(todo))
        BY <2>1, <2>4, <3>1, <4>1, ChangeTells DEF ApplyNext
      <4>2. CASE ~Takes(Head(todo))
        BY <2>1, <2>4, <4>2 DEF ApplyNext, ToldInv, StagesAreTold, vars, tracker
      <4> QED
        BY <4>1, <4>2
    <3> QED
      BY <1>1, <2>1, <2>3, <3>1, <3>2 DEF ToldInv
  <2>5. CASE todo = <<>> /\ ApplyHead
    <3>1. todo' = MarkersFor(Route(Head(queue)), Head(queue)) /\ UNCHANGED vars
      BY <2>5 DEF ApplyHead
    <3>2. todo' \in Seq(Marker) /\ Carried(todo') \subseteq told
      BY <2>5, <3>1, HeadTells DEF ApplyHead
    <3> QED
      BY <1>1, <2>1, <2>3, <3>1, <3>2 DEF ToldInv, StagesAreTold, vars, tracker
  <2>6. CASE todo = <<>> /\ AgentStarts
    <3>1. todo' = todo /\ state' \in {"reproducing", "analyzing_vision"}
      BY <2>6 DEF AgentStarts, ReproducerStarts, AnalystStarts, Enter, At, loopVars
    <3> QED
      BY <1>1, <2>1, <2>3, <3>1 DEF ToldInv, StagesAreTold, OnSubIssue
  <2>7. CASE UNCHANGED <<vars, todo>>
    BY <1>1, <2>1, <2>3, <2>7 DEF ToldInv, StagesAreTold, vars, tracker
  <2> QED
    BY <1>3, <2>4, <2>5, <2>6, <2>7 DEF LifecycleNext, Elsewhere, Receive, Skip, WaitForTurn, Run, Ends, Restart,
       loopVars, allVars
<1> QED
  BY <1>2, <1>3

\* The tracker of an issue reaches a stage only after a comment written for the issue told it.
THEOREM StagesFollowComments == LifecycleSpec => []StagesAreTold
<1>1. LifecycleInit => ToldInv
  <2> SUFFICES ASSUME LifecycleInit PROVE ToldInv
    OBVIOUS
  <2>1. RoutingInv
    BY RoutingInvInit
  <2>2. network = {} /\ Queued = {} /\ todo \in Seq(Marker) /\ Carried(todo) = {}
    BY DEF LifecycleInit, Queued, Carried
  <2>3. StagesAreTold
    BY DEF LifecycleInit, Init, Enter, At, StagesAreTold, OnSubIssue
  <2> QED
    BY <2>1, <2>2, <2>3 DEF ToldInv
<1>2. ToldInv => StagesAreTold
  BY DEF ToldInv
<1> QED
  BY <1>1, <1>2, ToldInvStep, PTL DEF LifecycleSpec
=============================================================================

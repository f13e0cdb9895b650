------------------------------- MODULE Router -------------------------------
(***************************************************************************)
(* Which root issue an event belongs to (issue_router.rs), and the         *)
(* references it goes by: `ref #N`, which the gh wrapper (scripts/gh)      *)
(* appends to what an agent writes and markers.rs reads back.  A body is   *)
(* the sequence of the issue numbers it refers to in this form.            *)
(***************************************************************************)
EXTENDS Naturals, Sequences

CONSTANT Nobody     \* no issue

VARIABLES
  prMap,     \* pr_map.json: pull request -> root issue
  torn       \* the file was cut short: every read of it is an error from now on

routerVars == <<prMap, torn>>

\* The decimal digits of n begin with those of m: "ref #12" contains "ref #1".
StartsWith(n, m) == \E k \in 0 .. 3 : n \div 10 ^ k = m

\* append_ref of the wrapper: nothing is added without a root issue, or if the text is there already.
AppendRef(body, root) ==
  IF root = Nobody \/ (\E i \in 1 .. Len(body) : StartsWith(body[i], root)) THEN body ELSE Append(body, root)

\* extract_ref_issue: the first one.
ExtractRef(body) == IF body = <<>> THEN Nobody ELSE Head(body)

FirstOf(a, b) == IF a # Nobody THEN a ELSE b

\* lookup_pr, with an error taken for nothing by the caller.
LookupPr(pr) == IF torn \/ pr \notin DOMAIN prMap THEN Nobody ELSE prMap[pr]

\* Mutation of Route: a comment is about the issue it is on.
RouteCommentToIssue(e) ==
  CASE e.kind = "bootstrap" -> e.number
    [] e.kind = "issues" -> FirstOf(ExtractRef(e.body), e.number)
    [] e.kind = "issue_comment" -> FirstOf(ExtractRef(e.body), e.number)
    [] e.kind \in {"pull_request", "pull_request_review"} -> FirstOf(ExtractRef(e.body), LookupPr(e.number))
    [] e.kind = "check_run" -> LookupPr(e.number)
    [] OTHER -> Nobody

\* Mutation of Route: the issue a comment is on comes first.
RouteCommentByIssue(e) ==
  CASE e.kind = "bootstrap" -> e.number
    [] e.kind = "issues" -> FirstOf(ExtractRef(e.body), e.number)
    [] e.kind = "issue_comment" -> FirstOf(ExtractRef(e.about), e.number)
    [] e.kind \in {"pull_request", "pull_request_review"} -> FirstOf(ExtractRef(e.body), LookupPr(e.number))
    [] e.kind = "check_run" -> LookupPr(e.number)
    [] OTHER -> Nobody

\* route_event, its answer.  `about` is the body of the issue a comment is on.
Route(e) ==
  CASE e.kind = "bootstrap" -> e.number
    [] e.kind = "issues" -> FirstOf(ExtractRef(e.body), e.number)
    [] e.kind = "issue_comment" -> FirstOf(ExtractRef(e.body), FirstOf(ExtractRef(e.about), e.number))
    [] e.kind \in {"pull_request", "pull_request_review"} -> FirstOf(ExtractRef(e.body), LookupPr(e.number))
    [] e.kind = "check_run" -> LookupPr(e.number)
    [] OTHER -> Nobody

\* The events whose routing writes the map.
Registers(e) == e.kind = "pull_request" /\ ExtractRef(e.body) # Nobody /\ ~torn

\* register_pr: load, insert, save; on a torn file its error is ignored.
RegisterPr(e) ==
  /\ prMap' = IF ~Registers(e) THEN prMap
              ELSE [pr \in DOMAIN prMap \cup {e.number} |-> IF pr = e.number THEN ExtractRef(e.body) ELSE prMap[pr]]
  /\ UNCHANGED torn

\* save_pr_map writes in place: the server dies while it does.
TearMap(e) == Registers(e) /\ torn' = TRUE /\ UNCHANGED prMap
=============================================================================

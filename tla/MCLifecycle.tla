----------------------------- MODULE MCLifecycle -----------------------------
(***************************************************************************)
(* Values for Lifecycle: root issues 1 and 12, whose references one text   *)
(* search confuses, a sub-issue and a pull request.                        *)
(***************************************************************************)
EXTENDS Lifecycle

MCRoot == 1
MCOther == 12
MCSubIssueNumber == 3
MCPullRequest == 4
MCNobody == 0
MCComments == {<<>>, <<"not_reproduced">>, <<"summary", "approved">>, <<"verified">>}
=============================================================================

SPECIFICATION LifecycleSpec
CONSTANTS
  SubIssue = {i1}
  NoSubIssue = NoSubIssue
  MaxInfoRequests = 3
  MaxVerifierLoop = 3
  MaxReviewerLoop = 2
  MaxSubIssues = 1
  Root <- MCRoot
  Other <- MCOther
  SubIssueNumber <- MCSubIssueNumber
  PullRequest <- MCPullRequest
  Nobody <- MCNobody
  Comments <- MCComments
  MaxEvents = 2
INVARIANT RoutedHome
INVARIANT StagesAreTold

SPECIFICATION Spec
CONSTANTS
  SubIssue = {i1, i2, i3}
  NoSubIssue = NoSubIssue
  MaxInfoRequests = 3
  MaxVerifierLoop = 3
  MaxReviewerLoop = 2
  MaxSubIssues = 3
SYMMETRY Symmetry
INVARIANTS WorksOnCurrent E2eAfterReviews NoWorkBeforeApproval

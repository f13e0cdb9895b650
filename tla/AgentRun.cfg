SPECIFICATION Spec
CONSTANTS
  Loop = Loop
  w1 = w1
  t1 = t1
  t2 = t2
  t3 = t3
  Worker <- MCWorker
  Thread <- MCThread
  NoId = NoId
  MaxFaults = 1
  MaxEdits = 1
SYMMETRY Symmetry
INVARIANTS ThreadNeedsLoss PromptFollowsRun CommentsAreReferenced

SPECIFICATION Spec
CONSTANTS
  w1 = w1
  w2 = w2
  analyse = analyse
  summary = summary
  Analyst = Analyst
  Server = Server
  Orchestrator = Orchestrator
  Event <- MCEvent
  Summaries <- MCSummaries
  Missing = Missing
  Empty = Empty
  Torn = Torn
  NoKey = NoKey
  MaxFaults = 1
  MaxRounds = 1
  Worker <- MCWorker
  Proc <- MCProc
  Key <- MCKey
  WorkerAgent <- MCWorkerAgent
  Agent <- MCAgent
SYMMETRY Symmetry
INVARIANTS ReceiptIsEarned RunOnce AloneNothingIsLost CompletedIsTrue RunningIsAlive
CHECK_DEADLOCK FALSE

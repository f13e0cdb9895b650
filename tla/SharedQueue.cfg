SPECIFICATION SharedSpec
CONSTANTS
  push1 = push1
  own = own
  push2 = push2
  issue = issue
  push = push
  virtual_bootstrap = virtual_bootstrap
  Event <- MCEvent
  Command <- MCCommand
  Label <- MCLabel
  Bootstrap <- virtual_bootstrap
  Pid = {p1}
  NoPid = NoPid
  MaxRetry = 1
  MaxSeq = 2
INVARIANT WebhooksSurvive
PROPERTY BuriedIsKeptOrReplaced
CHECK_DEADLOCK FALSE

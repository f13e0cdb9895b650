SPECIFICATION FairSpec
CONSTANTS
  e1 = e1
  e2 = e2
  e3 = e3
  issues_opened = issues_opened
  push = push
  Event <- MCEvent
  Actionable <- MCActionable
  Label <- MCLabel
  Pid = {p1, p2}
  NoPid = NoPid
  NoEvent = NoEvent
  Free = Free
  Foreign = Foreign
  MaxRetry = 1
  MaxSeq = 20
  MaxFaults = 2
INVARIANTS SerialOnceRecorded ExtraSuccessNeedsFault
PROPERTIES Fifo JudgedIsTaken ChannelSpec EventuallyIdle
CHECK_DEADLOCK FALSE

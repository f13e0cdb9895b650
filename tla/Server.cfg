SPECIFICATION FairSpec
CONSTANTS
  Repo = {a, b}
  Pid = {p1, p2}
  NoPid = NoPid
  Limits = {0, 1}
  MaxPending = 2
INVARIANTS NoSlotLeaks OneStaleSpawn LimitIsKept
PROPERTIES SomeoneIsServed

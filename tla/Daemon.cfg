SPECIFICATION FairSpec
CONSTANTS
  Pid = {p1, p2}
  NoPid = NoPid
  Absent = Absent
  Text = Text
  Damaged = Damaged
  Missing = Missing
  RetrySpan = 16
  File <- MCFile
  MaxFaults = 1
INVARIANTS OneServer StopStops KillsOnlyServers PortIsReal
PROPERTY OverlapEnds

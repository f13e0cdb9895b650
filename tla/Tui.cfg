SPECIFICATION TuiSpec
CONSTANTS
  a = a
  b = b
  Request <- MCRequest
  Number <- MCNumber
  Running <- MCRunning
  Published <- MCPublished
  NoVersion = NoVersion
  Decision <- MCDecision
  approve = approve
  None = None
  Width = {1, 3}
  CapBytes = 4
  KeepBytes = 2
  MaxUnread = 1
INVARIANTS ReviewIsOfSeen NoSessionReplaced
PROPERTY EndedSessionCloses
CHECK_DEADLOCK FALSE

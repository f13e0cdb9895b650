SPECIFICATION FairSpec
CONSTANTS
  OneShot = {once}
  Recurring = {often}
  Interval = 2
  MaxRetry = 2
  MaxTime = 2
  MaxCrashes = 1
INVARIANTS NoneVanishes FiredOncePerRun OnTheGrid
PROPERTY DueIsSettled
CHECK_DEADLOCK FALSE

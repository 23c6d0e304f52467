SPECIFICATION FairSpec
CONSTANTS
  p1 = p1
  p2 = p2
  p3 = p3
  w1 = w1
  w2 = w2
  main = main
  detached = detached
  Procs = {p1, p2, p3}
  Chains = {w1, w2}
  Branches = {main, detached}
  Home <- MCHome
  Work <- MCWork
  Free = Free
  Stale = Stale
  MaxAttempts = 2
  MaxPlans = 3
  MaxCrashes = 1
INVARIANTS
  LogIsWhole
PROPERTIES
  NoAppendLost
  ImplementsAppendLog
  EveryCallReturns

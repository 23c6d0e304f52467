SPECIFICATION LineupSpec
CONSTANTS
  None = None
  main = main
  a = a
  b = b
  p = p
  q = q
  Branches = {main, a, b}
  Trunk = main
  NameOrder <- MCNameOrder
  Paths = {p, q}
  Starts <- MCStarts
  MaxCommits = 4
INVARIANTS NoChangeTwice PullSettles
PROPERTIES TakesOnlyTheTaken BranchesFollow
CHECK_DEADLOCK FALSE

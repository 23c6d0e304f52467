SPECIFICATION Spec
CONSTANTS
  w1 = w1
  w2 = w2
  main = main
  side = side
  topic = topic
  Trees = {w1, w2}
  Main = w1
  Branches = {main, side, topic}
  Stories <- MCStories
SYMMETRY Symmetric
CHECK_DEADLOCK FALSE
INVARIANTS
  PointerNewest
PROPERTIES
  OpenedByItsHolder
  HeldBranchesStay
  RemovedWorkIsKept
  RetentionIsRecoverable

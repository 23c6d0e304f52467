SPECIFICATION Spec
CONSTANTS
  main = main
  topic = topic
  Branches = {main, topic}
  Sessions = {"none", "s1"}
  Stories <- MCStories
  MaxWork = 3
  MaxOps = 5
  MaxCrashes = 1
SYMMETRY Symmetric
CHECK_DEADLOCK FALSE
INVARIANTS
  PointerFollowsLog
  LandsWhole
PROPERTIES
  RedoIsAStack

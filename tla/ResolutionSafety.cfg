SPECIFICATION Spec
CONSTANTS
  Paths = {"f", "g"}
  Texts = {"a", "b", "c", "gone"}
  Gone = "gone"
  NoTree = NoTree
  Stacks <- AllStacks
  Bases <- Ahead
  Later <- Onward
  Overtaken <- Watched
  Contents <- Files
  Habits = {"outside"}
INVARIANTS VerdictIsTheReplays LandsAsDecided ContentKept StandsWhole EveryRoundCounts
CHECK_DEADLOCK FALSE

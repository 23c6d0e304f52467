SPECIFICATION AmbientSpec
CONSTANTS
  Procs = {a, b}
  Child = child
  Main = main
  Agents = {main, sub}
  Sessions = {"s1", "s2"}
  AmbientStories <- MCStories
  MaxAudiences = 2
  MaxCuts = 1
INVARIANTS
  StampIsHonest
PROPERTIES
  NothingSpentUnsaid
  LaneKeepsRunning
CHECK_DEADLOCK FALSE

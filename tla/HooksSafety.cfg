SPECIFICATION Spec
CONSTANTS
  None = None
  Bad = Bad
  Torn = Torn
  Stories <- MCStories
  CodexAnswers = {"added", "failed"}
  MaxVerbs = 3
  MaxEdits = 2
  MaxKills = 1
CHECK_DEADLOCK FALSE
INVARIANT HookConverges
PROPERTY EveryWriteKeeps

SPECIFICATION Spec
CONSTANTS
  Repos <- MCRepos
  Leaves <- MCLeaves
  Functions <- MCFunctions
  Predicates <- MCPredicates
  MaxSize = 5
INVARIANTS
  ParsedAsWritten
  AnswerIsTheSet
CHECK_DEADLOCK FALSE

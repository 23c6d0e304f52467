SPECIFICATION Spec
CONSTANTS
  none = none trunk = trunk feat = feat x = x y = y t1 = t1 t2 = t2
  None = none
  Work = {t1, t2}
  Trunk = trunk
  Feat = feat
  Names <- MCNames
  Budgets <- MCBudgets
CHECK_DEADLOCK FALSE
INVARIANTS HalvesAgree NoDeadEnd
PROPERTIES NothingLost MovesAreExact

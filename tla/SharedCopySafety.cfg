SPECIFICATION Spec
CONSTANTS
  a = a
  b = b
  NoTip = NoTip
  Changes = {a, b}
  Tagged = {a}
  MaxOps = 3
  MaxOutside = 2
  MaxVerbs = 2
CHECK_DEADLOCK FALSE
PROPERTIES
  TakesNothingBack
  TakesOffOnlyKnown
  PullKeepsChanges

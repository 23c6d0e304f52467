SPECIFICATION Spec
CONSTANTS
  none = none main = main petname = petname name = name
  None = none
  Names = {main, petname, name}
  First = main
  Anonymous = {petname}
  Budgets <- MCBudgets
CHECK_DEADLOCK FALSE
INVARIANTS NoHandMeDowns NoIdTwice
PROPERTIES NeverNeither

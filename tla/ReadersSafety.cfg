SPECIFICATION ReadersSpec
CONSTANTS
  Cap = 2
  Budgets <- MCBudgets
CHECK_DEADLOCK FALSE
INVARIANTS IndexHoldsTheLog SubscriberFollows

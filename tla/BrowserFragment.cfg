SPECIFICATION Spec
CONSTANTS
  Cards = {c1}
  MaxGuests = 1
  MaxToken = 2
  MaxFlight = 2
  MaxCount = 2
  Budgets <- MCBudgets
  Sites <- MCSites
INVARIANT NoPageInFragment
CHECK_DEADLOCK FALSE

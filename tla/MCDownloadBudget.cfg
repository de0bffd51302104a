SPECIFICATION BudgetSpec
CONSTANTS
  User = {u1, u2}
  None = None
  Day = 2
  Period = 2
  Full = 2
  MaxTime = 5
  MaxDeaths = 1
  MaxRestores = 1
SYMMETRY Symmetry
CHECK_DEADLOCK FALSE
INVARIANT
  WithinAllowance
PROPERTY
  ImplementsAllowance

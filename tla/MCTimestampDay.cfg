SPECIFICATION Spec
CONSTANTS
  Starts <- Instants
  Skews = {0, 600, 86400}
  Foreign <- Texts
  Delay = 86400
  MaxDays = 26
INVARIANT DayOfMonthInRange

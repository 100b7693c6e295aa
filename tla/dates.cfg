SPECIFICATION Spec
CONSTANTS
  DayTicks = 2
  Starts <- CalendarStarts
  MaxDays = 130
CHECK_DEADLOCK FALSE
INVARIANTS NothingBetween ThisIsNow
PROPERTIES NextBecomesThis

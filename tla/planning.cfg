SPECIFICATION Spec
CONSTANTS
  DayMinutes = 4
  DailyBudget = 2
  DefaultBudget = 3
  BusyAbove = 1
  Inputs <- SomeTasks
  Ranges <- SomeRanges
  MaxTasks = 3
INVARIANTS OverlapsAreReal OverloadsExact EveryTaskAnswered SuggestionsValidate NoRoomOnOverloadedDay OrderIndependent

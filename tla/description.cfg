SPECIFICATION PipelineSpec
CONSTANTS
  Commands = {21}
  Chats = {c1, c2}
  Users = {owner, stranger}
  TTL = 1
  MaxTime = 1
  MaxChats = 1
  MaxFailures = 0
  TaskIds = {1, 2, 3}
  ReminderIds = {11, 12}
  Names <- WordSets
  Stored <- TwoTasks
  Reminded <- OneReminder
  Outputs <- AllOutputs
  Ids <- AllIds
  Words <- AllWords
  DefaultUser = owner
  SingleUserMode = FALSE
  MaxEdits = 0
CHECK_DEADLOCK FALSE

PROPERTIES DescriptionKept

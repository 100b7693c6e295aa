SPECIFICATION FairPipelineSpec
CONSTANTS
  Commands = {21, 22}
  Chats = {c1, c2}
  Users = {owner, stranger}
  TTL = 1
  MaxTime = 1
  MaxChats = 2
  MaxFailures = 1
  TaskIds = {1, 2, 3}
  ReminderIds = {11, 12}
  Names <- WordSets
  Stored <- TwoTasks
  Reminded <- OneReminder
  Outputs <- AllOutputs
  Ids <- AllIds
  Words <- AllWords
  DefaultUser = owner
  SingleUserMode = FALSE
  MaxEdits = 1
CHECK_DEADLOCK FALSE
INVARIANTS PipelineTypeOK OnlyAuthorizedUsers TargetIsReferred
PROPERTIES ImplementsConfirmation DeletesWhatWasMeant RemindersKept ConfirmsReferred EveryChatEnds

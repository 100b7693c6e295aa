SPECIFICATION UpcomingSpec
CONSTANTS
  TaskIds = {t1}
  ReminderIds = {1, 2, 3}
  Clients = {c1}
  Workers = {w1, w2}
  None = None
  MaxTime = 1
  MaxRequests = 1
  BatchLimit = 2
  MaxFailures = 2
PROPERTIES DueIsHandled

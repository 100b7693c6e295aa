SPECIFICATION Spec
CONSTANTS
  TaskIds = {t1}
  ReminderIds = {1, 2}
  Clients = {c1}
  Workers = {w1}
  None = None
  MaxTime = 1
  MaxRequests = 4
  BatchLimit = 1
  MaxFailures = 0
PROPERTIES SentIsFinal

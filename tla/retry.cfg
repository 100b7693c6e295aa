SPECIFICATION Spec
CONSTANTS
  TaskIds = {t1}
  ReminderIds = {1}
  Clients = {c1}
  Workers = {w1}
  None = None
  MaxTime = 0
  MaxRequests = 3
  BatchLimit = 1
  MaxFailures = 1
INVARIANTS RetryIsIdempotent

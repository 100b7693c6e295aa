SPECIFICATION Spec
CONSTANTS
  TaskIds = {t1}
  ReminderIds = {1, 2}
  Clients = {c1, c2}
  Workers = {w1, w2}
  None = None
  MaxTime = 1
  MaxRequests = 4
  BatchLimit = 2
  MaxFailures = 1
SYMMETRY Symmetry
INVARIANTS DuplicatesExplained NoOrphanReminder ClaimStands
PROPERTIES NotifiesOnlyDue ImplementsLedger

SPECIFICATION FairSpec
CONSTANTS
  Commands = {1, 2}
  Chats = {c1, c2}
  Users = {u1, u2}
  TTL = 1
  MaxTime = 2
  MaxChats = 4
  MaxFailures = 1
CHECK_DEADLOCK FALSE
INVARIANTS ExecutedAtMostOnce RunsForOwner ExpiredIsTrue
PROPERTIES RefusalIsFinal ImplementsOneShot ConfirmedIsExecuted

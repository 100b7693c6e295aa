SPECIFICATION Spec
CONSTANTS
  Commands = {1}
  Chats = {c1, c2}
  Users = {u1}
  TTL = 1
  MaxTime = 2
  MaxChats = 4
  MaxFailures = 0
CHECK_DEADLOCK FALSE
INVARIANTS OutcomeIsTrue

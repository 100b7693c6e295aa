SPECIFICATION FairSpec
CONSTANTS
  Requests = {r1, r2}
  Connections = {k1}
  CallerIds = {a}
  MaxRequests = 3
  MaxOutages = 1
CHECK_DEADLOCK FALSE
INVARIANTS NoLeak OwnCorrelation FailureHasCause SuccessIsCommitted
PROPERTIES EveryRequestAnswered

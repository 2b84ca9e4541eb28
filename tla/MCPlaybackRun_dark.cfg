CONSTANTS
  d1 = d1
  d2 = d2
  b1 = b1
  b2 = b2
  Queues <- MCQueues
  Books <- MCBooks
  Extra = b2
  Faults = {"install"}
  MaxSubmits = 2
  MaxAsks = 1
  MaxFaults = 1
SPECIFICATION Spec
INVARIANTS EverySubmissionAnswered
CHECK_DEADLOCK FALSE

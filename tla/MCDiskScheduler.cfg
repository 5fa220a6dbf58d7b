CONSTANTS
  c1 = c1
  c2 = c2
  Callers <- MCCallers
  Pages <- MCPages
  Values <- MCValues
  MaxRequests <- MCMaxRequests
SPECIFICATION Spec
INVARIANT RunInScheduleOrder
INVARIANT JoinAfterDrain
PROPERTY EveryRequestCompletes

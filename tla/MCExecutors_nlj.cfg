CONSTANTS
  Null = Null
  NoFilter = NoFilter
  NoStatement = NoStatement
  UB = UB
  KeyVals = {1, 2}
  NVals = {1, 2}
  MaxRows = 3
  AggTypes <- MCAggTypes
  GroupBys <- MCGroupByK
  OrderBys <- MCOrderByK
  Queries <- MCQueriesNonEqui
  NoKey = NoKey
  BadCast = BadCast
SPECIFICATION Spec
INVARIANT OptimizerKeepsAnswers

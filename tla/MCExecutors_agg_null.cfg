CONSTANTS
  Null = Null
  NoFilter = NoFilter
  NoStatement = NoStatement
  UB = UB
  KeyVals = {1, 2}
  NVals = {1, 2}
  MaxRows = 3
  AggTypes <- MCAggTypes
  GroupBys <- MCGroupByN
  OrderBys <- MCOrderByK
  Queries <- MCQueries
  NoKey = NoKey
  BadCast = BadCast
SPECIFICATION Spec
INVARIANT AggregationMatchesGroups

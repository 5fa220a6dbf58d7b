\* A split at local depth < global depth breaks the directory invariant.
CONSTANTS
  k1 = k1  k2 = k2  k3 = k3  k4 = k4  v1 = v1  t1 = t1  t2 = t2
  NoValue = NoValue  NoResult = NoResult
  Keys <- MCKeys
  Values = {v1}
  Hash <- MCHash
  HashBits = 2
  HeaderMaxDepth = 0
  DirMaxDepth = 2
  BucketMaxSize = 1
  MaxPages = 8
  Threads = {t1}
  RemoveKeys = {}
SPECIFICATION Spec
CHECK_DEADLOCK FALSE
INVARIANT DirectoryIntegrity

\* Inserts and lookups by two threads; the index implements a key/value map.
CONSTANTS
  k1 = k1  k2 = k2  k3 = k3  k4 = k4  v1 = v1  t1 = t1  t2 = t2
  NoValue = NoValue  NoResult = NoResult
  Keys <- MCKeys
  Values = {v1}
  Hash <- MCHash
  HashBits = 2
  HeaderMaxDepth = 0
  DirMaxDepth = 2
  BucketMaxSize = 1
  MaxPages = 8
  Threads = {t1, t2}
  RemoveKeys = {}
SPECIFICATION Spec
\* The page bound MaxPages stops a thread whose next split needs a page.
CHECK_DEADLOCK FALSE
PROPERTY ImplementsKVMap
SYMMETRY ThreadSymmetry

\* Inserts, removes and lookups by one thread, over two directories.
CONSTANTS
  k1 = k1  k2 = k2  k3 = k3  k4 = k4  v1 = v1  t1 = t1  t2 = t2
  NoValue = NoValue  NoResult = NoResult
  Keys <- MCKeys
  Values = {v1}
  Hash <- MCHashTwoDirs
  HashBits = 3
  HeaderMaxDepth = 1
  DirMaxDepth = 2
  BucketMaxSize = 1
  MaxPages = 8
  Threads = {t1}
  RemoveKeys <- MCKeys
SPECIFICATION Spec
\* The page bound MaxPages stops a thread whose next split needs a page.
CHECK_DEADLOCK FALSE
INVARIANT TypeOK
INVARIANT DirectorySlotsValid
PROPERTY RemoveOnlyRemoves

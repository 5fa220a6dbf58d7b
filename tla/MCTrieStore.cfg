CONSTANTS
  a = a
  b = b
  v1 = v1
  v2 = v2
  u32 = u32
  str = str
  t1 = t1
  t2 = t2
  NulChar = NulChar
  NoValue = NoValue
  NoResult = NoResult
  NoThread = NoThread
  Null = Null
  Chars = {a}
  Values = {v1, v2}
  Types = {u32, str}
  Threads = {t1, t2}
  ValueType <- MCValueType
  Keys <- MCKeys
SPECIFICATION Spec
PROPERTY ImplementsTrieKV

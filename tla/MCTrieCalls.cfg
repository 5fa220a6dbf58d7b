CONSTANTS
  a = a
  b = b
  v1 = v1
  v2 = v2
  u32 = u32
  str = str
  NulChar = NulChar
  NoValue = NoValue
  Null = Null
  Chars = {a, b}
  Values = {v1, v2}
  Types = {u32, str}
  ValueType <- MCValueType
  Keys <- MCKeys
SPECIFICATION Spec
INVARIANTS TrieMatchesMap NoUselessNodes

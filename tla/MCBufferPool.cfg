CONSTANTS
  t1 = t1
  t2 = t2
  t3 = t3
  NoThread = NoThread
  Threads <- MCThreads
  PoolSize <- MCPoolSize
  ReplacerK <- MCReplacerK
  MaxPages <- MCMaxPages
  MaxVersion <- MCMaxVersion
  MaxAccesses <- MCMaxAccesses
SPECIFICATION Spec
SYMMETRY Symm
INVARIANT TypeOK
INVARIANT PageTableConsistent
INVARIANT GuardedPageStaysResident
INVARIANT NoLostWrite
INVARIANT ReplacerNeverBlocks
INVARIANT ReplacerTracksPins
INVARIANT PinsMatchGuards
PROPERTY NullOnlyWhenExhausted

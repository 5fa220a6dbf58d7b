CONSTANTS
  ReplacerSize <- MCReplacerSize
  K <- MCK
  Accessed <- MCPoolFrames
  MaxAccesses <- MCMaxAccesses
SPECIFICATION Spec
INVARIANT TypeOK
INVARIANT CurrSizeCountsEvictable
INVARIANT ListsMirrorHistory
PROPERTY EvictChoosesLargestKDistance

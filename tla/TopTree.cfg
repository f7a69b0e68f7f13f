CONSTANTS
  Threads = {t1, t2}
  WorkSetSize = 6
  MaxExports = 2
  BunchSize = 2
  ChunksPerThread = 1
  MaxChunk = 3
  MaxPasses = 1

SPECIFICATION Spec

INVARIANT
  AllEntriesTogether

PROPERTY
  HandsOverOnce

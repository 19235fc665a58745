SPECIFICATION SrcuSpec
CONSTANTS
  u1 = u1
  u2 = u2
  Readers = {r1}
  Updaters = {u1, u2}
  Home <- EachOwnCpu
  Nobody = Nobody
  NCpus = 2
  BufMax = 1
  RefWord = 3
  Word = 6
INVARIANTS
  NoUseAfterFree
  OldRankOnlyDrains
  EveryReaderCounted

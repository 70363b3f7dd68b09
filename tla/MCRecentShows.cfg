SPECIFICATION FairSpec
CONSTANTS
  a = a
  b = b
  Shows = {a, b}
  Broken <- MCBroken
  NoShow = NoShow
  MaxWrites = 2
INVARIANTS TypeOK CacheNotPoisoned
PROPERTIES CardsAreNotStale TabFollowsList

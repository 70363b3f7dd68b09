\* A show is rewritten in place, its time and size kept.
SPECIFICATION FairSpec
CONSTANTS
  a = a
  b = b
  Shows = {a, b}
  Broken <- MCBroken
  NoShow = NoShow
  MaxWrites = 2
INVARIANT InPlaceCannotPoison

\* Three releases: the second is not signed with a key of the keyring, the
\* third carries no sha384 in the manifest.
SPECIFICATION FairSpec
CONSTANTS
  Newest = 3
  Trusted = {1, 3}
  WithSha = {1, 2}
  Withdraws = FALSE
  StaleBundles = FALSE
  IoErrors = {"unlink", "rmtree"}
INVARIANTS
  TypeOK
  NeverInstallsOlder
PROPERTIES
  OfferConverges
  MarkerIsEarned
  KeepsPromise

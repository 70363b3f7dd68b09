\* The server steps back to its earlier release.
SPECIFICATION Spec
CONSTANTS
  Newest = 2
  Trusted = {1, 2}
  WithSha = {1, 2}
  Withdraws = TRUE
  StaleBundles = FALSE
  IoErrors = {}
INVARIANT
  PendingBundleVerified

CONSTANTS
  a = a b1 = b1 b2 = b2 x = x y = y d = d c1 = c1 c2 = c2
  Uploads <- MCUploads
  Repos <- MCRepos
  Digests = {d}
  Calls = {c1, c2}
  RepoOf <- MCRepoOf
  DigestOf <- MCDigestOf
  None = None
  Rereads = TRUE
  MaxCorrupt = 1
  Drained = FALSE
SPECIFICATION Spec
INVARIANT PublishedReadable
CHECK_DEADLOCK FALSE
SYMMETRY Symmetry

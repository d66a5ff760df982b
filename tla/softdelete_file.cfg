\* One instance, one file: two uploads, two deletes, one restart.
SPECIFICATION MCFairSpec
CONSTANTS
  Instances = {i1}
  Nodes = {n1, n2}
  Clients = {k1}
  CIDs = {f}
  Roots = {f}
  Masters <- NoVideo
  Added <- NoVideoAdded
  AllCIDs <- NoVideoAdded
  TTL = 1
  ReplTimeout = 1
  MaxUploads = 2
  MaxDeletes = 2
  MaxRestarts = 1
  DeleteRootsOnly = FALSE
  None = None
  m = m
  m2 = m2
  s = s
INVARIANTS AckedStaysPinned NoForgottenPin
PROPERTY DeletedEventuallyUnpinned

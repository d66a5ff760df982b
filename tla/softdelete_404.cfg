\* One instance: GET after the collector is done with a deleted file.
SPECIFICATION MCSpec
CONSTANTS
  Instances = {i1}
  Nodes = {n1, n2}
  Clients = {k1}
  CIDs = {f}
  Roots = {f}
  Masters <- NoVideo
  Added <- NoVideoAdded
  AllCIDs <- NoVideoAdded
  TTL = 1
  ReplTimeout = 1
  MaxUploads = 1
  MaxDeletes = 1
  MaxRestarts = 0
  DeleteRootsOnly = TRUE
  None = None
  m = m
  m2 = m2
  s = s
INVARIANT DeletedAnswers404

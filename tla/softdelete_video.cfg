\* Two videos that share a segment, two instances on the same nodes, a restart.
SPECIFICATION MCSpec
CONSTANTS
  Instances = {i1, i2}
  Nodes = {n1, n2}
  Clients = {k1}
  CIDs = {m, m2, s}
  Roots = {m, m2}
  Masters = {m, m2}
  Added <- SharedAdded
  AllCIDs <- SharedAdded
  TTL = 1
  ReplTimeout = 1
  MaxUploads = 2
  MaxDeletes = 1
  MaxRestarts = 1
  DeleteRootsOnly = FALSE
  None = None
  m = m
  m2 = m2
  s = s
SYMMETRY Symmetry
INVARIANTS AckedStaysPinned NoForgottenPin
PROPERTY StoreCalls

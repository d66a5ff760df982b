\* Byte budget, entry slots and fills all bind; k4 is too large.
SPECIFICATION FairSpec
CONSTANTS
  k1 = k1
  k2 = k2
  k3 = k3
  k4 = k4
  Keys = {k1, k2, k3, k4}
  Requests = {q1, q2, q3}
  Size <- MCSize
  Limit = 5
  ObjectLimit = 2
  MaxActive = 2
  MaxEntries = 3
  Stuck = {k2}
  None = None
INVARIANTS Reserved DiskBudget CompleteOnly ReadersKeepFile
PROPERTY ReservingEnds

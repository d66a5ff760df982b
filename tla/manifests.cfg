\* Three calls for up to three manifests of one, two and three bytes: with no
\* cache; with one of two bytes, where the largest is refused and bytes run
\* out first; and with one of six, where entries do.
SPECIFICATION MCSpec
CHECK_DEADLOCK FALSE
CONSTANTS
  small = small
  other = other
  large = large
  Cids = {small, other, large}
  Cost <- Costs
  Limits = {0, 2, 6}
  MaxCost = 3
  MaxEntries = 2
  p1 = p1
  p2 = p2
  p3 = p3
  Calls = {p1, p2, p3}
  None = None
INVARIANTS Budget PutFindsRoom NoBorrowedCancel NoBlame OnlyFetched
PROPERTIES CanceledReturns CallsReturn

\* Two refreshes and two downloads of one mask, with one restart.
SPECIFICATION MCSpec
CHECK_DEADLOCK FALSE
CONSTANTS
  Slots = {s1}
  Versions = {1, 2}
  Refreshers = {a1, a2}
  Viewers = {v1, v2}
  None = None
  MaxCrashes = 1
INVARIANTS FreshPreview PreviewMatchesMask MapsAgree RefreshKept
PROPERTIES ViewsEnd

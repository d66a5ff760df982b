\* Two uploads of a byte by one session, with no budget or one of a byte, one
\* transcoding slot between them, midnight and a restart.
SPECIFICATION MCSpec
CHECK_DEADLOCK FALSE
CONSTANTS
  Requests = {r1, r2}
  Kinds = {"file", "batch", "video"}
  Files = {f1, f2}
  Tokens = {t1}
  ApiKeys = {t1}
  Sizes = {1}
  Limits = {0, 1}
  TranscodeSlots = 1
  LastDay = 1
  None = None
  MaxCrashes = 1
INVARIANTS SlotsHeld TempOwned QuotaHeld BatchWhole
PROPERTIES QueueEnds GoneEnds

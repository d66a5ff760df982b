\* One asset, one file, two writers, one issuer.
SPECIFICATION MCSpec
CONSTANTS
  Assets = {a1}
  Files = {f1}
  Writers = {w1, w2}
  Issuers = {s1}
  None = None
  Deleted = Deleted
  MaxVersions = 5
  MaxChanges = 2
  MaxGrants = 2
SYMMETRY WriterSymmetry
INVARIANTS AcceptedIsCurrent RevokedRefused
PROPERTY RefusedForGood

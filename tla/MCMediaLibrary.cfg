SPECIFICATION LibrarySpec
CONSTANTS
  Path = {p1, p2}
  Ident = {i1, i2}
  Row = {r1, r2}
  None = None
  MissingScans = 1
  Target = {t1, t2}
  Artifact = {a1, a2, a3}
  Config = {c1}
  Edited = {}
  MaxRevision = 3
  MaxCrashes = 1
  MaxCleanupBatch = 1
SYMMETRY InterchangeableValues
INVARIANT
  OutputsSupported
PROPERTIES
  OutputStays
  NewerReviewKept
CHECK_DEADLOCK FALSE

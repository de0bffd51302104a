SPECIFICATION HistorySpec
CONSTANTS
  Path = {p1}
  Ident = {i1}
  Row = {r1}
  None = None
  MissingScans = 1
  Target = {t1, t2}
  Artifact = {a1, a2}
  Config = {c1}
  Edited = {}
  MaxRevision = 2
  MaxCrashes = 1
  MaxCleanupBatch = 1
SYMMETRY InterchangeableValues
INVARIANT
  OutputsSupported

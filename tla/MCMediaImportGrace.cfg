SPECIFICATION StillSources
CONSTANTS
  Path = {p1, p2}
  Ident = {i1}
  Row = {r1, r2}
  None = None
  MissingScans = 1
  Target = {t1, t2}
  Artifact = {a1, a2, a3}
  Config = {c1}
  Edited = {}
  MaxRevision = 2
  MaxCrashes = 1
SYMMETRY InterchangeableValues
PROPERTY
  NothingGoesWithoutGrace
CHECK_DEADLOCK FALSE

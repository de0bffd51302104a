SPECIFICATION StillSources
CONSTANTS
  Path = {p1, p2}
  Ident = {i1}
  Row = {r1, r2}
  None = None
  MissingScans = 1
  Target = {t1, t2}
  Artifact = {a1, a2, a3}
  Config = {c1}
  Edited = {t1}
  MaxRevision = 2
  MaxCrashes = 0
PROPERTY
  NothingGoesWithoutGrace
CHECK_DEADLOCK FALSE

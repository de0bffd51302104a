SPECIFICATION Spec
CONSTANTS
  Path = {p1, p2}
  Ident = {i1, i2}
  Row = {r1, r2, r3}
  None = None
  MissingScans = 1
SYMMETRY InterchangeableValues
INVARIANT
  CompleteScanIsPublished

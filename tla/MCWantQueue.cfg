SPECIFICATION WantSpec
SYMMETRY Symmetric
CONSTANTS
  c1 = c1
  c2 = c2
  r1 = r1
  Caller = {c1, c2}
  Want = {1, 2}
  Release = {r1}
  Alias = {"tt1"}
  Event = {"listed", "exported"}
  Own <- MCOwn
  Aliases <- MCAliases
  None = None
  Ttl = 1
  MaxTime = 1
  MaxAdds = 2
  MaxFaults = 1
CHECK_DEADLOCK FALSE
INVARIANTS
  WantsAreRecorded
  AddedOnce
PROPERTIES
  LiveClaimCommits
  SettledStays

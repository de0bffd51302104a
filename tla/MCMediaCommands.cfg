SPECIFICATION CommandsSpec
CONSTANTS
  Client = {u1}
  Command = {m1, m2}
  Config = {g1, g2}
  Evidence = {e1, e2}
  Action = {"scan", "review"}
  None = None
  MaxPending = 2
  MaxCrashes = 1
  MaxRestores = 1
INVARIANT
  AtMostOnce
  PendingCoalesce
  CompleteIsApplied
PROPERTY
  PinnedAtEffect
  EveryCommandSettles

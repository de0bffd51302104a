SPECIFICATION PoolSpec
CONSTANTS
  c1 = c1
  c2 = c2
  u1 = u1
  Cand = {c1, c2}
  Users = {u1}
  Size <- Bytes1
  Cap = 2
  MaxLeft = 3
  MaxActive = 2
  Limit = 1
  Commands = {"enqueue", "prune"}
  MaxNews = 1
  MaxOdd = 2
  MaxCommands = 1
  MaxFaults = 1
INVARIANTS
  RowsAreTrue DecisionsStillRight CapReached
PROPERTIES
  CapRestored

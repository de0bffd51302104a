SPECIFICATION AdmissionSpec
CONSTANTS
  Torrent = {1, 2}
  MaxRequests = 2
  Searches = 2
  Doubles = {1}
  Size <- MCSize
  MaxLeft = 1
INVARIANTS AdmissionWithinLimit SnapshotIsActedOn
PROPERTIES RestIsKept UnknownEnds

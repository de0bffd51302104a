SPECIFICATION AdmissionSpec
CONSTANTS
  Torrent = {1}
  MaxRequests = 1
  Searches = 1
  Doubles = {1}
  Size <- MCSize
  MaxLeft = 1
INVARIANTS BatchMatchIsActedOn

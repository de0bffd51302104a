SPECIFICATION AdmissionSpec
CONSTANTS
  Torrent = {1, 2}
  MaxRequests = 1
  Searches = 1
  Doubles = {}
  Size <- MCSize
  MaxLeft = 1
PROPERTIES FailuresStopCalls

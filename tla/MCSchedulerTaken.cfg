SPECIFICATION Spec
CONSTANTS
  Procs = 2
  Enabled <- AllPhases
  Ttl = 2
  Every = 1
  Hours <- BackoffHours
  NetPause = 1
  Window = 3
  MaxTriggers = 1
  MaxFaults = 1
  MaxBad = 0
PROPERTIES TakenByOwner

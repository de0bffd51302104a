SPECIFICATION Spec
CONSTANTS
  Procs = 2
  Enabled <- AllPhases
  Ttl = 2
  Every = 1
  Hours <- ThreeHours
  NetPause = 1
  Window = 3
  MaxTriggers = 0
  MaxFaults = 1
  MaxBad = 5
PROPERTIES PauseFollowsStreak

SPECIFICATION HistorySpec
CONSTANTS
  Procs = 2
  Enabled <- AllPhases
  Ttl = 2
  Every = 1
  Hours <- ThreeHours
  NetPause = 1
  Window = 3
  MaxTriggers = 1
  MaxFaults = 1
  MaxBad = 5
INVARIANTS TriggersAreKept OneAtWork
PROPERTIES QuietWhilePaused PauseFollowsStreak SchedulerWorksOn

SPECIFICATION FairSpec
CONSTANTS
  k1 = k1
  w1 = w1
  w2 = w2
  NoWorker = NoWorker
  NoTask = NoTask
  NoRun = NoRun
  Keys <- OneKey
  Priority <- OnePriority
  Workers <- TwoWorkers
  Schedules <- OnceAndTwice
  Horizon = 2
  Lease = 2
  Batch = 1
  Grace = 0
  Timely = FALSE
  MaxEdits = 2
  MaxFaults = 1
  MaxCrashes = 1
INVARIANTS
  CompletionIsEarned
PROPERTIES
  DueIsAdvanced
  NoInstantLost

SPECIFICATION RuntimeSpec
CONSTANTS
  b1 = b1
  c1 = c1
  start1 = start1
  stop1 = stop1
  freeze = freeze
  w1 = w1
  w2 = w2
  NoWorker = NoWorker
  NoTask = NoTask
  NoRun = NoRun
  NoBot = NoBot
  Keys <- StartAndStop
  Workers <- OneWorker
  Schedules <- OnceEach
  Horizon = 3
  Lease = 1
  Batch = 2
  Grace = 1
  Timely = TRUE
  MaxEdits = 4
  MaxFaults = 0
  MaxCrashes = 0
  Bots <- OneBot
  Clients <- NoClient
  MaxFailures = 1
  Priority <- PriorityOfKeys
  Kind <- KindOfKeys
  BotOf <- BotOfKeys
INVARIANTS
  LastEventWins

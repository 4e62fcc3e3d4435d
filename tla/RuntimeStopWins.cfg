SPECIFICATION RuntimeSpec
CONSTANTS
  b1 = b1
  c1 = c1
  start1 = start1
  stop1 = stop1
  freeze = freeze
  w1 = w1
  w2 = w2
  NoWorker = NoWorker
  NoTask = NoTask
  NoRun = NoRun
  NoBot = NoBot
  Keys <- AllKeys
  Workers <- TwoWorkers
  Schedules <- Once
  Horizon = 1
  Lease = 1
  Batch = 2
  Grace = 0
  Timely = TRUE
  MaxEdits = 3
  MaxFaults = 0
  MaxCrashes = 1
  Bots <- OneBot
  Clients <- OneClient
  MaxFailures = 1
  Priority <- PriorityOfKeys
  Kind <- KindOfKeys
  BotOf <- BotOfKeys
SYMMETRY WorkerSymmetry
INVARIANTS
  StopWins
  FrozenBotsStop
  OneWorkerPerRun
  ServedOnce
  LedgerAgrees
PROPERTIES
  RunsStayCompleted

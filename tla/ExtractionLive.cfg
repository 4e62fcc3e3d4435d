SPECIFICATION FairSpec
CONSTANTS
  a1 = a1
  a2 = a2
  w1 = w1
  w2 = w2
  r1 = r1
  r2 = r2
  c1 = c1
  c2 = c2
  NoWorker = NoWorker
  NoJob = NoJob
  Authors <- OneAuthor
  Workers <- TwoWorkers
  Requests <- OneRequest
  Offered <- Operations
  ClientKeys <- OneKey
  MaxJobs = 1
  Manual <- Short
  Schedules <- ShortOnes
  MaxDays = 1
  MaxAdmin = 1
  MaxOutages = 1
  MaxCrashes = 1
INVARIANTS
  OneWorkerPerJob
  ProcessingIsWorked
PROPERTIES
  JobsEnd
  JobsAreALedger

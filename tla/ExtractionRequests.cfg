SPECIFICATION Spec
CONSTANTS
  a1 = a1
  a2 = a2
  w1 = w1
  w2 = w2
  r1 = r1
  r2 = r2
  c1 = c1
  c2 = c2
  NoWorker = NoWorker
  NoJob = NoJob
  Authors <- OneAuthor
  Workers <- TwoWorkers
  Requests <- TwoRequests
  Offered <- Creating
  ClientKeys <- OneKey
  MaxJobs = 2
  Manual <- Long
  Schedules <- ShortOnes
  MaxDays = 1
  MaxAdmin = 0
  MaxOutages = 0
  MaxCrashes = 0
SYMMETRY Symmetry
INVARIANTS
  OneActivePerAuthor
  RetainedIsStored
  NoPartialArtifact

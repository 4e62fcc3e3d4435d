SPECIFICATION EngagementSpec
CONSTANTS
  c1 = c1
  c2 = c2
  c3 = c3
  None = None
  Clients <- Pair
  Items <- TwoItems
  KindOf <- KindsOfTwo
  Files <- TwoFiles
  Documents <- OneFile
  InitRows <- TaleOnly
  Offered <- All
  Mutations <- OneMutation
  Users <- OneUser
  MaxRequests = 3
SYMMETRY PairSymmetry
INVARIANTS LatestChangeIsTheRow CountersAreRows
PROPERTIES AppliedOnce HeldFilesStay
CHECK_DEADLOCK FALSE

SPECIFICATION MembershipSpec
CONSTANTS
  w1 = w1
  w2 = w2
  Workers <- TwoWorkers
  Listers <- OneLister
  People <- Names
  Tracks <- TwoTracks
  Teams <- OneTeam
  Levels <- Clearances
  InitPeople <- Staff
  Kinds <- Every
  MaxChanges = 2
  MaxFailures = 1
PROPERTIES MembershipsConverge
CHECK_DEADLOCK FALSE

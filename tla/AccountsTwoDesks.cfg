SPECIFICATION DisciplineSpec
CONSTANTS
  tab1 = tab1
  tab2 = tab2
  desk = desk
  desk2 = desk2
  Passwords <- Words
  DemoteAt = 2
  BanAt = 4
  Clients <- TwoDesks
  Users <- Staffed
  Owner <- OwnerOfClients
  InitAccount <- StruckTwice
  SignedIn <- BothSignedIn
  Asked <- NoneAsked
  SecurityLevel = 5
  Offered <- Resolving
  Grants <- Promotion
  MaxRequests = 3
  MaxResets = 0
  MaxReports = 5
  Filed <- TwoStrikes
INVARIANTS ConfirmedReportsBan
CHECK_DEADLOCK FALSE

SPECIFICATION DisciplineSpec
CONSTANTS
  tab1 = tab1
  tab2 = tab2
  desk = desk
  desk2 = desk2
  Passwords <- Words
  DemoteAt = 2
  BanAt = 4
  Clients <- TabsAndDesk
  Users <- Staffed
  Owner <- OwnerOfClients
  InitAccount <- StruckOnce
  SignedIn <- BothSignedIn
  Asked <- OneApproved
  SecurityLevel = 5
  Offered <- Everything
  Grants <- Promotion
  MaxRequests = 3
  MaxResets = 2
  MaxReports = 5
  Filed <- OneStrike
SYMMETRY TabSymmetry
INVARIANTS OneTokenPerSession AppliedIsCompleted StrikesCounted DemotedOnce
PROPERTIES SignedOutStaysOut
CHECK_DEADLOCK FALSE

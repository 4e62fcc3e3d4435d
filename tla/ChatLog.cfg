SPECIFICATION MessagesSpec
CONSTANTS
  tab1 = tab1
  tab2 = tab2
  Clients <- Tabs
  People <- Names
  Talks <- Rooms
  InitTalks <- OneGroup
  Offered <- Everything
  MaxRequests = 3
  Bots <- OneBot
  ClientIds <- OneId
  NoId = NoId
SYMMETRY TabSymmetry
INVARIANTS GroupHasManager
PROPERTIES MessagesAreALog LaterPostsComeLater
CHECK_DEADLOCK FALSE

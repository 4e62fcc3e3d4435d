SPECIFICATION Spec
CONSTANTS
  i1 = i1
  i2 = i2
  None = None
  Ids <- TwoIds
  Accounts <- TwoAccounts
  Named <- DefaultOnly
  Providers <- TwoProviders
  Channels <- OneChannel
  Paths <- TwoPaths
  Managed <- Agents
  Contents <- Texts
  Default = "generated"
  Offered <- All
  MaxRequests = 4
  MaxEdits = 1
  MaxStarts = 1
  MaxFaults = 1
SYMMETRY IdSymmetry
INVARIANTS OneMainPersonality ChannelsDistinct BoundAccountFits BehindIsDirty
PROPERTIES PullKeepsBothTexts
CHECK_DEADLOCK FALSE

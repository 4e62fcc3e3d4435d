SPECIFICATION Spec
CONSTANTS
  s1 = s1
  s2 = s2
  None = None
  Users <- TwoUsers
  Viewers <- EveViews
  Tabs <- TwoTabs
  UserOf <- OneEach
  Sockets <- TwoSockets
  MaxHistory = 2
  MaxEvents = 2
  MaxOpens = 3
  MaxRestarts = 1
SYMMETRY PairSymmetry
INVARIANTS CursorSkipsNothing ResumeFillsGap
PROPERTIES DroppedByOldSockets
CHECK_DEADLOCK FALSE

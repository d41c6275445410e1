SPECIFICATION ScreenSpec
CONSTANTS
  Parts = {"view"}
  QueueSize = 2
  Lengths = {1, 2}
  MaxRevs = 5
  MaxWindows = 4
  MaxPanes = 2
  MaxIds = 5
  Docs = {1, 2}
  Namesakes = {1, 2}
  MaxAsks = 2
  EscBound = 5
  Scrolloffs = {0, 1}
  MaxPanesShown = 2
  Height = 2
  MaxEdits = 1
INVARIANT FrameFitsTheTerminal
CHECK_DEADLOCK FALSE

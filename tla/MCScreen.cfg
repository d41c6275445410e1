SPECIFICATION ScreenSpec
CONSTANTS
  Parts = {"syntax", "layout", "shell", "view", "painting", "table"}
  QueueSize = 2
  Lengths = {1, 2}
  MaxRevs = 5
  MaxWindows = 4
  MaxPanes = 2
  MaxIds = 5
  Docs = {1, 2}
  Namesakes = {1, 2}
  MaxAsks = 2
  EscBound = 5
  Scrolloffs = {0, 1}
  MaxPanesShown = 2
  Height = 2
  MaxEdits = 1
INVARIANTS
  KeysReachTheFocusedPane
  
  ListsMeanWhatTheyShow
  CursorIsOnItsCharacter
  ClicksFindTheCursor
  
  TableCursorIsOnItsCell
PROPERTY LastAcceptedIsShown
CHECK_DEADLOCK FALSE

SPECIFICATION EditorSpec
CONSTANTS
  Files <- MCOneFile
  Ink = {1, 2}
  MaxText = 2
  MaxEdits = 2
  MaxRuns = 2
  MaxOpen = 3
  Features <- MCSplit
INVARIANT WindowsStayConsistent
CHECK_DEADLOCK FALSE

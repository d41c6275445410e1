SPECIFICATION EditorSpec
CONSTANTS
  Files <- MCOneFile
  Ink = {1}
  MaxText = 2
  MaxEdits = 2
  MaxRuns = 1
  MaxOpen = 3
  Features <- MCWindows
PROPERTY InsertRunIsOneStep
CHECK_DEADLOCK FALSE

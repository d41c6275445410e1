SPECIFICATION EditorSpec
CONSTANTS
  Files <- MCFiles
  Ink = {1, 2}
  MaxText = 2
  MaxEdits = 2
  MaxRuns = 2
  MaxOpen = 3
  Features <- MCBuffers
PROPERTY UndoIsExactAcrossBuffers
CHECK_DEADLOCK FALSE

SPECIFICATION ModalSpec
CONSTANTS
  Keyboards <- MCKeyboards
  MaxStrokes = 7
  MaxDepth = 3
  MaxChars = 4
  MaxLen = 5
  MaxSteps = 2
  Short = 1
  Files <- MCFiles
  Ink = {1}
  MaxText = 2
  MaxEdits = 2
  MaxRuns = 1
  MaxOpen = 3
  Features <- MCFeatures
VIEW MCModalView
INVARIANTS
  DotRepeatsTheChange
  DeletionCanBePasted
  MotionsCompose
  GlobalEditsEachLine
PROPERTIES
  MacroIsWhatWasTyped
  InsertRunIsOneStep
CHECK_DEADLOCK FALSE

SPECIFICATION StoresSpec
CONSTANTS
  Paths = {"a", "png"}
  Images = {"png"}
  MaxDocs = 2
  MaxTexts = 2
  MaxBlobs = 1
  MaxSteps = 7
  Packages <- MCPackages
  MaxOps = 3
  MaxStarts = 1
  MaxTicks = 1
  MaxEdits = 1
  Names = {1, 2}
  Rows = 2
  MaxDepth = 3
  MaxChanges = 1
  MaxOutside = 2
  MaxFileOps = 1
  Tracked = {1, 2}
  MaxThreads = 3
  Lines = {"", "x"}
  MaxLen <- MCMaxLen
  MaxWrites = 2
INVARIANTS
  
  UndoFitsTheText
  
  EditsHitTheirTarget
  PanelShowsTheRepository
  MergeHasBothEdits
PROPERTIES
  UnsavedIsAskedFor
  ReviewDecides
  OnlyTheNamedIsTouched
CHECK_DEADLOCK FALSE

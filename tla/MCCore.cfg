SPECIFICATION CoreSpec
CONSTANTS
  Texts = {t1, t2}
  MaxNodes = 4
  MaxGroups = 2
  Docs <- Texts
  Txs <- MCTxs
  Fits <- MCFits
  Apply <- MCApply
  InverseOf <- MCInverse
  Cursors <- MCCursors
  MaxLen = 3
  MaxCalls = 3
  AnswerTexts <- MCAnswerTexts
  NewTexts <- MCNewTexts
  MaxTyped = 1
INVARIANTS
  CursorFollowsItsCharacter
  InverseRestores
PROPERTIES
  RedoRestoresUndo
  ImplementsTimeline
  ComposeIsSequential
  ServerIsUnderstood
CHECK_DEADLOCK FALSE

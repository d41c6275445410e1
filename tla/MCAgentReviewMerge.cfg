SPECIFICATION Spec
CONSTANTS
  Lines = {"", "x"}
  MaxLen <- MCMaxLen
  MaxWrites = 2
  MaxEdits = 1
PROPERTY AcceptedIsRebased
CHECK_DEADLOCK FALSE

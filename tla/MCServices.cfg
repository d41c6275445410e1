SPECIFICATION ServicesSpec
CONSTANTS
  Programs = {"ls", "rm"}
  MaxConnects = 1
  MaxPrompts = 1
  MaxAsks = 1
  QueueSize = 1
  BgSize = 1
  Offers <- MCOffers
  Lines = {1}
  MaxRuns = 1
  MaxToggles = 1
  MaxStops = 2
  MaxControls = 1
  DapQueue = 2
  DapBg = 2
INVARIANTS
  IdleMeansNoTurn
  BreakpointsSettle
  
PROPERTIES
  
  AsksAreAnswered
  SessionsEnd
CHECK_DEADLOCK FALSE
